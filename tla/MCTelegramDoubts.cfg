\* What does not hold of the wizards.  Run with -continue: all three are violated.
SPECIFICATION SessionSpec
CONSTANTS
    Opening <- MCOpening
    MaxMessages = 3
    MaxTasks = 2
INVARIANT EveryLoadingEnds
PROPERTY TokenButtonFirst
PROPERTY StaleResultDiscarded
CHECK_DEADLOCK FALSE
