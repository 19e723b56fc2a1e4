SPECIFICATION FairSpec
CONSTANTS
    NCalls = 2
    Methods <- MCMethods
    Breaking = {"BOGUS"}
    Passwords <- MCPasswords
    NoPw = ""
    MaxPushes = 1
    MaxEvents = 1
    None = None
INVARIANTS
    CleanHandover
    NoReaderStranded
PROPERTIES
    CloseReturns
CHECK_DEADLOCK FALSE
