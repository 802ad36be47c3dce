\* An application that calls again while the manager is still busy.
SPECIFICATION Spec
CONSTANTS
    Timeout = 1
    Settled = FALSE
    MaxPending = 1
INVARIANT OutcomeIsOwn
