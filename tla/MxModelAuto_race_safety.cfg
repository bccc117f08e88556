\* The window between a predicate check and blocking on the condition
\* variable is open: notifications may be lost and threads may hang, which
\* is why deadlock is not checked here; the data path must stay correct.
CONSTANTS
    NumStreams = 2
    NumContexts = 2
    NumInPorts = 1
    ReqInWorkers = 1
    ReqOutWorkers = 1
    Cores = 4
    NumModels = 1
    MaxFrames = 2
    SendFailures = 0
    NotifyRace = TRUE
SPECIFICATION Spec
CHECK_DEADLOCK FALSE
INVARIANT ResultsInOrder
INVARIANT DrainOnStop
PROPERTY ImplementsPipeline
