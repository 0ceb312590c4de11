SPECIFICATION Spec
CONSTANTS
    Requests = {k1, k2, k3, k4}
    Hashes = {h1}
    Relays = {r1, r2}
    MaxTime = 1
    Faults = TRUE
INVARIANTS TypeOK MetadataHasBlob AckedIsRecorded DeletionSeen
PROPERTIES TombstonesStay
SYMMETRY MCSymmetry
CHECK_DEADLOCK FALSE
