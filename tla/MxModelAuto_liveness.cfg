\* Two streams over two contexts, one frame each, no lost notifications:
\* delivery, model_wait and model_stop must all complete.
CONSTANTS
    NumStreams = 2
    NumContexts = 2
    NumInPorts = 1
    ReqInWorkers = 1
    ReqOutWorkers = 1
    Cores = 4
    NumModels = 1
    MaxFrames = 1
    SendFailures = 0
    NotifyRace = FALSE
SPECIFICATION Spec
PROPERTY ImplementsPipelineLive
PROPERTY StopCompletes
PROPERTY WaitReturns
