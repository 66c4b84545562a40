SPECIFICATION Spec
CONSTANTS
    Request = {"a", "b"}
    Sequence = {"s"}
    MaxNew = 2
CHECK_DEADLOCK FALSE
INVARIANTS
    EverythingArrives
    SequencesAreThere
PROPERTY
    EveryCallReturns
