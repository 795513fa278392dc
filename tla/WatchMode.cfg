SPECIFICATION FairSpec
CONSTANTS
  MaxEdits = 3
  QueueMax = 2
  BatchMax = 2
  Signatures = {1, 2}
INVARIANTS TypeOK NoLostUpdate Inductive
PROPERTIES ImplementsLiveView EveryNoticedChangeShown
CHECK_DEADLOCK FALSE
