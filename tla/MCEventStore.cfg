SPECIFICATION Spec
CONSTANTS
    Event <- MCEvent
    Ids <- MCIds
    Pubkeys <- MCPubkeys
    DTags <- MCDTags
    NoTag = "none"
    Handlers = {h1, h2}
    Partitioned = FALSE
    DbFaults = TRUE
INVARIANTS TypeOK OneVersionPerAddress AckedIsKept NoResurrection DeletionTakesEffect
PROPERTIES VersionsMoveForward OnlyAuthorDeletes ImplementsRegister
SYMMETRY MCSymmetry
