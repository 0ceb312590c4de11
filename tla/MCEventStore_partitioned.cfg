SPECIFICATION Spec
CONSTANTS
    Event <- MCEvent
    Ids <- MCIds
    Pubkeys <- MCPubkeys
    DTags <- MCDTags
    NoTag = "none"
    Handlers = {h1, h2}
    Partitioned = TRUE
    DbFaults = FALSE
INVARIANT UpsertContinuesToWork
SYMMETRY MCSymmetry
