SPECIFICATION MirroredSpec
CONSTANTS
    Event <- MCEvent
    Ids <- MCIds
    Upstream <- MCIds
    Pubkeys <- MCPubkeys
    DTags <- MCDTags
    NoTag = "none"
    Handlers = {h1}
    Partitioned = FALSE
    DbFaults = TRUE
INVARIANTS AckedIsKept PlainStaysDeleted
