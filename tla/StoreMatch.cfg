\* Everything may fail, and the framework changes the table while a worker uses
\* it; two fingers are enough for a hole in front of the second.
CONSTANTS
    MaxFingers = 2
    Groups = {0, 1}
    MaxEnrolls = 1
    Faults = {"insert", "delete", "select", "samsung"}
    Crashes = TRUE
    Exclusive = FALSE
SPECIFICATION Spec
INVARIANTS
    ReportsTheMatch
    SlotInArray
    GoneStaysGone
