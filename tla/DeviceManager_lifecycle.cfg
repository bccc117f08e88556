\* One object, no driver faults: connect_dfp, start/stop/restart of two models
\* and the destructor against spec 4.1, 4.3 and 7.
CONSTANTS
    Procs = {p1}
    NoOwner = NoOwner
    Leaked = Leaked
    Devices = {0, 16}
    Facade <- MCFacade
    Chips <- MCChips
    Dfps <- MCDfps
    DeviceLists <- MCDeviceLists
    CtxCeiling = 32
    MaxFaults = 0
    MaxObjects = 2
    Models = {0, 1}
    PreModels = {0, 1}
    PostModels = {0, 1}
    MaxStarts = 2
SPECIFICATION Spec
INVARIANT
    DeviceLifecycleAsSpecified
