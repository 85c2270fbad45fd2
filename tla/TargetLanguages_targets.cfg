SPECIFICATION TLFairSpec
CONSTANTS
    Users = {a, b}
    Sockets = {s1, s2}
    Languages = {"en", "de"}
    Token <- MCToken
    Default = "en"
    None = None
    MaxMoves = 3
    MaxConnects = 2
    MaxEvents = 1
INVARIANT MissingHasACause
PROPERTY EventuallyServed
CHECK_DEADLOCK FALSE
