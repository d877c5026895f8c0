\* One enrolment of two samples, nothing fails.
CONSTANTS
    MaxOps = 1
    Samples = 2
    Faults = {}
    Timeouts = "none"
    Settled = TRUE
SPECIFICATION Spec
INVARIANT EnrollComplete
\* The framework may stop calling, and fingerprint_enroll can lock itself out.
CHECK_DEADLOCK FALSE
