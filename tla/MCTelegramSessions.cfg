SPECIFICATION SessionSpec
CONSTANTS
    Opening <- MCOpening
    MaxMessages = 4
    MaxTasks = 3
INVARIANT LoadingHasWorker
INVARIANT DoubleTapBuysOnce
PROPERTY OperationReleased
CHECK_DEADLOCK FALSE
