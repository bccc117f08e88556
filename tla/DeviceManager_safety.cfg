\* Two accelerator objects (one MxAccl, one MxAcclMT), each constructed once,
\* connect and destroy over devices 0 and 16 with one failing driver call
\* (configuration, open, group count, download, or a close or unlock in the
\* destructor); the MxAccl object starts its models up to twice, model 1 with
\* a pre model and model 0 with a post model.
CONSTANTS
    Procs = {p1, p2}
    NoOwner = NoOwner
    Leaked = Leaked
    Devices = {0, 16}
    Facade <- MCFacade
    Chips <- MCChips
    Dfps <- MCDfps
    DeviceLists <- MCDeviceLists
    CtxCeiling = 32
    MaxFaults = 1
    MaxObjects = 1
    Models = {0, 1}
    PreModels = {1}
    PostModels = {0}
    MaxStarts = 2
SPECIFICATION Spec
INVARIANTS
    TypeOK
    OpenContextOnOwnedDevice
    ReleasedOnTeardown
    RunningModelsHoldContexts
