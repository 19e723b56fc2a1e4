SPECIFICATION Spec
CONSTANTS
    k1 = k1
    k2 = k2
    Calls = {k1, k2}
    Codes <- MCCodes
    Verbs <- MCVerbs
    Oversized = {k1}
    Plain = {k2}
    MaxEvents = 1
    None = None
INVARIANTS
    AnswerTruthful
    HandleSound
    NoWaiterStranded
CHECK_DEADLOCK FALSE
