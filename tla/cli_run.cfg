\* Two backends, two meaningful lines each, one snapshot on the way.
SPECIFICATION FairSpec
CONSTANTS
  Flavors <- MCFlavors
  Chunks <- MCChunks
  PipeRoom = 1
  ChanRoom = 1
  MaxLines = 2
INVARIANTS
  NoTextLost
  CommittedIsSettled
  CutShortMeansGone
PROPERTIES
  CallEnds
