SPECIFICATION FairSpec
CONSTANTS
    Calls = {c1}
    Peers = {"argos", "foreign"}
    Expiring = {"argos"}
    Heads = {"plain", "ok"}
    Bodies <- MCBodies
    MaxSends = 1
INVARIANTS
    AnswerFaithful
    SessionKept
    ExchangeAccounted
PROPERTY
    CloseUnblocks
CHECK_DEADLOCK FALSE
