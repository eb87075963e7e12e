SPECIFICATION Spec
CONSTANTS
  Rooms = {a, b}
  Choosers = {a}
  Profiles = {chat, code}
  Chat = chat
  Dirs = {p}
  None = none
  Jobs = {j1, j2}
SYMMETRY Symmetry
INVARIANTS OverridesBuild NoOldChoice OverridesSaved DirsSaved KnownKept
