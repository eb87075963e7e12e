\* Progress in one room that requires a mention, with a sync HTTP profile and
\* an auto profile that falls over from a child to HTTP.
SPECIFICATION FairSpec
CONSTANTS
  r1 = r1
  Rooms = {r1}
  MaxTurns = 2
  MaxLost = 0
  Profiles = {"chat", "build"}
  Mode <- MCMode
  Chain <- MCChain
  DefaultProfile = "chat"
  RequireMention = {r1}
  MaxChildren = 1
PROPERTIES
  KeepsPace
  CancelFreesRoom
  ChildQueueDrains
