\* Two streams over two contexts, two frames each, one timed and one untimed
\* receiver, the start race, lost notifications and spurious wakeups possible,
\* stop at any point. Deadlock is not checked: lost wakeups really hang.
CONSTANTS
    Streams = {s1, s2}
    NumContexts = 2
    MaxFrames = 2
    Timed = {s2}
    Overloads = {"path", "bytes"}
    StartRace = TRUE
    NotifyRace = TRUE
    Spurious = TRUE
SPECIFICATION Spec
INVARIANTS
    TypeOK
    ResultsStayInStream
CHECK_DEADLOCK FALSE
