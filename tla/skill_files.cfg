\* Two jobs that draft beside the sync loop, three drafts.
SPECIFICATION SkillSpec
CONSTANTS
  Desk = desk
  Writers = {j1, j2, desk}
  MaxDrafts = 3
INVARIANTS
  DraftKept
