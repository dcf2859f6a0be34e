\* Three objects and three descriptors.
\* The program may end: every descriptor leaked and every object destroyed.
SPECIFICATION Spec
CHECK_DEADLOCK FALSE
SYMMETRY ObjectSymmetry
CONSTANTS
    Fds = {3, 4, 5}
    Objects = {a, b, c}
    UsesMovedFrom = TRUE
INVARIANTS
    SingleOwner
    LeakedOnlyByAssignment
    ActiveKnowsRemote
