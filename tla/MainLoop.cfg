CONSTANTS
    Doc = {a, b, c, d}
    MaxBatch = 2
SPECIFICATION Spec
INVARIANTS
    QueueConsistent
    NoValidationLost
PROPERTIES
    EditsCannotPostponeFlush
    SilenceDrainsQueue
