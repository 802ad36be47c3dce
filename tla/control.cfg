\* An application that waits until the manager has had its say.
SPECIFICATION FairSpec
CONSTANTS
    Timeout = 1
    Settled = TRUE
    MaxPending = 0
INVARIANT OutcomesTrue
PROPERTY OperationsReturn
