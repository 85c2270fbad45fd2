SPECIFICATION Spec
CONSTANTS
    Targets = {en, pl}
    en = en
    pl = pl
    None = None
    MaxFinals = 3
    MaxRooms = 2
    MaxWire = 2
    MaxFaults = 1
INVARIANTS  AllOrNothing OriginalKept HistoryPairsUp
SYMMETRY Symmetry
CHECK_DEADLOCK FALSE
