\* A model with two input ports, one of whose sends fails, automatic worker
\* counts on a machine with one core (the default is zero), and the window
\* between a condition-variable predicate check and blocking: do results
\* stay whole, and do model_wait and model_stop return?
CONSTANTS
    NumStreams = 1
    NumContexts = 1
    NumInPorts = 2
    ReqInWorkers = 0
    ReqOutWorkers = 0
    Cores = 1
    NumModels = 1
    MaxFrames = 2
    SendFailures = 1
    NotifyRace = TRUE
SPECIFICATION Spec
CHECK_DEADLOCK FALSE
PROPERTY ModelContract
