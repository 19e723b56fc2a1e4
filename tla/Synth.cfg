SPECIFICATION Spec
CONSTANTS
    NCalls = 2
    InboxCap = 1
    MaxUp <- MCMaxUp
    MaxDown <- MCMaxDown
    Exclusives = {1}
    MaxEvents = 1
    None = None
INVARIANTS
    MessagesKept
    AbortsForCause
PROPERTIES
    ImplementsSequential
CHECK_DEADLOCK FALSE
