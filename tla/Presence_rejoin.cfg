CONSTANTS
    Users = {u1}
    Sockets = {s1, s2}
    Owner <- MCOwnerOne
    Langs = {"en", "pl"}
    Grace = 2
    Overlap = FALSE
    MaxFaults = 1
    MaxBus = 1
SPECIFICATION FairSpec
INVARIANTS ReturnedUserStays ListedLanguageIsCurrent NoGhostShown
PROPERTIES  LeaversEventuallyGone
