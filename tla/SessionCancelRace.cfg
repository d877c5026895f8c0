\* One operation, cancelled anywhere, nothing fails.
CONSTANTS
    MaxOps = 1
    Samples = 1
    Faults = {}
    Timeouts = "none"
    Settled = TRUE
SPECIFICATION FairSpec
PROPERTY CancelAnswered
\* The framework may stop calling, and fingerprint_enroll can lock itself out.
CHECK_DEADLOCK FALSE
