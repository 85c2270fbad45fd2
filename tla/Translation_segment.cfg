SPECIFICATION Spec
CONSTANTS
    Languages = {"en", "pl", "ar"}
    Texts = {x, y}
    x = x
    y = y
    Sources = {"pl"}
    Spoken = {"pl", "ar"}
    Slow = {"ar"}
    Default = "en"
    Speakers = {1, 2, 3}
    SpeakerLang <- MCSpeakerLang
    ByTokens = {"ar"}
    None = None
    MaxEvents = 3
    MaxFaults = 1
INVARIANT TranslatesItsEvent
INVARIANT LastRowPairsUp
INVARIANT BilledOnce
PROPERTY ShownMovesForward
SYMMETRY Symmetry
CHECK_DEADLOCK FALSE
