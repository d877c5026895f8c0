\* Two opens and two operations, the second started at any idle tz.state, with everything
\* that can fail.
CONSTANTS
    MaxOpens = 2
    MaxOps = 2
    Faults = {"load", "fail", "refuse"}
SPECIFICATION Spec
INVARIANTS
    TypeOK
    SessionReady
    DeviceQuiet
    DiesOnlyOfFailure
\* A failed start leaves tz.state claimed, and a close then waits for ever.
CHECK_DEADLOCK FALSE
