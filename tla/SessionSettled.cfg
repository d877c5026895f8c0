\* Two operations after each other, no failing call, timeouts that may run out.
CONSTANTS
    MaxOps = 2
    Samples = 1
    Faults = {}
    Timeouts = "short"
    Settled = TRUE
SPECIFICATION Spec
INVARIANTS
    TypeOK
    SessionOwnsDevice
    NoLostWakeup
\* The framework may stop calling, and fingerprint_enroll can lock itself out.
CHECK_DEADLOCK FALSE
