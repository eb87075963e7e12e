\* One room: a job is cancelled while its producer waits for a child permit.
SPECIFICATION FairSpec
CONSTANTS
  r1 = r1
  Rooms = {r1}
  MaxTurns = 2
  MaxLost = 0
  Profiles = {"code", "build"}
  Mode <- MCMode
  Chain <- MCChain
  DefaultProfile = "code"
  RequireMention = {}
  MaxChildren = 2
PROPERTY
  CancelledStartsNoChild
