\* A group switch, in its simplest form.
CONSTANTS
    MaxFingers = 2
    Groups = {0, 1}
    MaxEnrolls = 2
    Faults = {}
    Crashes = FALSE
    Exclusive = TRUE
SPECIFICATION Spec
INVARIANT TableIsActiveGroup
