\* A second operation while the thread of the first is still returning, or could
\* not be created.
CONSTANTS
    MaxOps = 2
    Samples = 1
    Faults = {"tz", "start"}
    Timeouts = "none"
    Settled = FALSE
SPECIFICATION Spec
INVARIANT BusyMeansWorker
PROPERTY StartsAfterCapture
\* The framework may stop calling, and fingerprint_enroll can lock itself out.
CHECK_DEADLOCK FALSE
