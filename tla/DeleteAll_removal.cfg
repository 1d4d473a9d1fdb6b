\* Four objects in batches of three.
CONSTANTS
    None = None
    Objects = {x1, x2, x3, x4}
    BatchSize = 3
SPECIFICATION FairSpec
CHECK_DEADLOCK FALSE
INVARIANTS TypeOK NilMeansRemoved
PROPERTIES CallReturns NothingLeftRunning
