\* No start race, lost notification or spurious wakeup: every frame sent is received unless the model is stopped. Deadlock is not checked: stop can hang (MxModelManual_hang.cfg).
CONSTANTS
    Streams = {s1, s2}
    NumContexts = 2
    MaxFrames = 2
    Timed = {s2}
    Overloads = {"path"}
    StartRace = FALSE
    NotifyRace = FALSE
    Spurious = FALSE
SPECIFICATION Spec
INVARIANT
    ReceivedInOrder
PROPERTY
    EveryFrameReceived
CHECK_DEADLOCK FALSE
