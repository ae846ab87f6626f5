CONSTANTS
    Cells = {"chr", "reboothook"}
SPECIFICATION FairSpec
INVARIANTS
    NoDangling
    NothingLeft
    HooksNest
PROPERTIES
    Unwound
