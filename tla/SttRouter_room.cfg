SPECIFICATION Spec
CONSTANTS
    Rooms = {r1}
    Speakers = {s1}
    Langs = {pl, en}
    StreamLangs = {pl, en}
    Inputs <- MCAll
    Failures = {"connect", "send", "error", "lost"}
    MaxInputs = 4
    MaxFaults = 2
 
PROPERTY SegmentsNeverReused
PROPERTY ClosedSegmentsSilent
 
CHECK_DEADLOCK FALSE
