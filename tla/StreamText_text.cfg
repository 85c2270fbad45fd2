SPECIFICATION Spec
CONSTANTS
    Threshold = 2
    None = None
    MaxWords = 3
    MaxSegments = 2
    MaxStreams = 2
    MaxWire = 2
INVARIANT TranslatedOnce
 
PROPERTY BlockedHasACause
 
CHECK_DEADLOCK FALSE
