\* Two rooms that share one child permit; a sync profile and one that takes
\* no agentic slot but may fall back to a child.
SPECIFICATION Spec
CONSTANTS
  r1 = r1
  r2 = r2
  Rooms = {r1, r2}
  MaxTurns = 2
  MaxLost = 0
  Profiles = {"chat", "mixed"}
  Mode <- MCMode
  Chain <- MCChain
  DefaultProfile = "chat"
  RequireMention = {}
  MaxChildren = 1
SYMMETRY RoomSymmetry
INVARIANTS
  ChildPermitsConserved
  SyncRepliesInTurn
PROPERTY
  KeepsPromise
