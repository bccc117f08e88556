\* Two streams over two contexts, one worker per pool,
\* up to two frames per stream and one failed port send.
CONSTANTS
    NumStreams = 2
    NumContexts = 2
    NumInPorts = 1
    ReqInWorkers = 1
    ReqOutWorkers = 1
    Cores = 4
    NumModels = 1
    MaxFrames = 2
    SendFailures = 1
    NotifyRace = FALSE
SPECIFICATION Spec
INVARIANT TypeOK
INVARIANT ResultsInOrder
INVARIANT OutputQueueNeverOverflows
INVARIANT DrainOnStop
INVARIANT BuffersExclusive
