SPECIFICATION FairSpec
CONSTANTS
    Speakers = {1}
    Langs = {"en", "pl"}
    TTL = 2
    MaxQuery = 1
    MaxChanges = 3
    MaxFaults = 1
PROPERTIES RoomReadsBoundedStale SpeakerReadsBoundedStale CachesSettle
