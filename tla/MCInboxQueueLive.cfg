SPECIFICATION FairSpec
CONSTANTS
  Names = {1, 2, 3}
  Ids = {2, 3}
  Clients = {c1}
  Manifests <- OneOrder
  DoneKeep = 1
  Stuck = {2}
  MaxEnqueues = 2
  MaxCrashes = 1
PROPERTY
  NoFileStarves
