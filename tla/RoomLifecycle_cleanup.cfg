SPECIFICATION FairSpec
CONSTANTS
    c1 = c1
    g1 = g1
    Sockets <- MCSockets
    Creator <- MCCreator
    First <- MCFirst
    Threshold = 2
    MaxFaults = 1
INVARIANTS CheckSettles
PROPERTIES ArchivedBeforeDeletion RecordedKept AbandonedEventuallyDeleted
