\* Either connect_dfp overload, the start race and lost notifications possible,
\* untimed receivers, spurious wakeups: a receive or model_manual_stop can
\* wait forever, and a woken receiver can read before its result is ready.
\* Deadlock is not checked: the hang is the behaviour under study.
CONSTANTS
    Streams = {s1, s2}
    NumContexts = 2
    MaxFrames = 2
    Timed = {}
    Overloads = {"path", "bytes"}
    StartRace = TRUE
    NotifyRace = TRUE
    Spurious = TRUE
SPECIFICATION Spec
PROPERTY
    ReceiveContract
CHECK_DEADLOCK FALSE
