SPECIFICATION Spec
CONSTANTS
    Rooms = {r1, r2}
    Speakers = {s1}
    Langs = {pl}
    StreamLangs = {pl}
    Inputs <- MCAudio
    Failures = {}
    MaxInputs = 3
    MaxFaults = 0
INVARIANT EventsStayInRoom
CHECK_DEADLOCK FALSE
