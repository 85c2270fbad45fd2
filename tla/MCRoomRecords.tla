--------------------------- MODULE MCRoomRecords ---------------------------
EXTENDS RoomRecords, TLC

CONSTANTS en, pl

\* Languages are only compared.
Symmetry == Permutations(Targets)
=============================================================================
