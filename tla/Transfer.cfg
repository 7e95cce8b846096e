CONSTANTS
  Clients = {k1, k2}
  MaxWorkers = 2
  MaxProgress = 2
  MaxAccess = 2
SPECIFICATION SessionSpec
CHECK_DEADLOCK FALSE
INVARIANTS
  OneLiveWorker
  CancelReachesLiveWorker
  RequestUnderstood
  AnswerUnderstood
