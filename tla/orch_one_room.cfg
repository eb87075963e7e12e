\* One room, three turns, a detached and an auto-promoted agentic profile.
SPECIFICATION Spec
CONSTANTS
  r1 = r1
  Rooms = {r1}
  MaxTurns = 3
  MaxLost = 1
  Profiles = {"code", "build"}
  Mode <- MCMode
  Chain <- MCChain
  DefaultProfile = "code"
  RequireMention = {}
  MaxChildren = 2
INVARIANTS
  SlotHeldExactly
  TranscriptOrder
  ListedUnlessPanicked
