\* One operation, cancelled anywhere, with everything that can fail.
CONSTANTS
    MaxOps = 1
    Samples = 2
    Faults = {"tz", "start"}
    Timeouts = "long"
    Settled = TRUE
SPECIFICATION FairSpec
INVARIANT NoLostWakeup
PROPERTIES
    NoticeDelivered
    LiveCancelAnswered
\* The framework may stop calling, and fingerprint_enroll can lock itself out.
CHECK_DEADLOCK FALSE
