SPECIFICATION FairSpec
CONSTANTS
  Reader = reader
  Keeper = keeper
  Apps = {a1}
  HandlerCloses = TRUE
  Deadlines = FALSE
INVARIANTS ClosedOnce EndIsReported
PROPERTIES ReaderEnds DeadDetected KeepAliveEnds
