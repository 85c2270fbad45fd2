---------------------------- MODULE RoomSettings ----------------------------
(***************************************************************************)
(* The settings of one room and the three routers that read them through   *)
(* caches: the owner changes discovery mode, speakers and speech output    *)
(* with the REST API (api/rooms_api.py); the STT router                    *)
(* (stt/language_router.py), the MT router (mt/router.py) and the TTS      *)
(* router (tts/router.py) each keep what they read for a minute. Speakers  *)
(* are read by a second query, after the row of the room.                  *)
(***************************************************************************)
EXTENDS Naturals, TLC

CONSTANTS
    Speakers,    \* ids of voices a room can enrol
    Langs,       \* their languages
    TTL,         \* lifetime of an entry in ticks
    MaxQuery,    \* bound: ticks a look-up waits for the database
    MaxChanges,  \* bound: requests that change the room
    MaxFaults    \* bound: failures of the database or of Redis

ASSUME SettingsAssumption == /\ TTL \in Nat \ {0}
                             /\ MaxQuery \in Nat
                             /\ MaxChanges \in Nat
                             /\ MaxFaults \in Nat

Modes   == {"disabled", "enabled", "locked"}
Readers == {"stt", "mt", "tts"}
Absent  == [disc |-> "none", locked |-> FALSE, tts |-> FALSE]
Rows    == [disc : Modes, locked : BOOLEAN, tts : BOOLEAN] \cup {Absent}
NoLang  == "none"
Enrolments == [Speakers -> Langs \cup {NoLang}]
Nobody  == [s \in Speakers |-> NoLang]

VARIABLES
    room,      \* the row of rooms, or Absent
    enrolled,  \* room_speakers of the room: language of each speaker
    archived,  \* the code is in room_archive
    bus,       \* routing_cache_clear: notices not yet delivered to the STT router
    reader,    \* which router looks; they are separate processes and share nothing
    cache,     \* its entry for the room
    query,     \* the look-up it is in
    since,     \* history: ticks since a value was last in the database
    got,       \* history: the values it answered from since the last tick
    changes, faults

data == <<room, enrolled, archived>>
vars == <<data, bus, reader, cache, query, since, got, changes, faults>>

NoEntry == [age |-> TTL, row |-> Absent, spk |-> Nobody]
Entries == [age : 0..TTL, row : Rows, spk : Enrolments]
Idle    == [at |-> "idle", row |-> Absent, spk |-> Nobody, took |-> 0]
Queries == [at : {"idle", "room", "speakers"}, row : Rows, spk : Enrolments, took : 0..MaxQuery]

\* How far an answer may lag: an entry's life, and the query that filled it.
Window == TTL - 1 + MaxQuery

NoAnswer == [row |-> [Absent EXCEPT !.disc = "unasked"], spk |-> [s \in Speakers |-> "unasked"]]

\* The STT router asks for diarization while speakers are being discovered and
\* when they are locked; the MT router only knows locked speakers.
Diarizes(row)   == row.disc = "enabled" \/ row.locked
Translates(row) == row.locked
WantsSpeakers(row) == \/ reader = "stt" /\ Diarizes(row)
                      \/ reader = "mt" /\ Translates(row)
-----------------------------------------------------------------------------
Init ==
    /\ room = Absent
    /\ enrolled = Nobody
    /\ archived = FALSE
    /\ bus = 0
    /\ reader \in Readers
    /\ cache = NoEntry
    /\ query = Idle
    /\ since = [room     |-> [v \in Rows |-> IF v = room THEN 0 ELSE Window + 1],
                speakers |-> [v \in Enrolments |-> IF v = enrolled THEN 0 ELSE Window + 1]]
    /\ got = NoAnswer
    /\ changes = 0
    /\ faults = 0

\* Requests of the owner. A handler has no await between its check and its
\* commit, so each is one step.

Change(row, spk) ==
    /\ changes < MaxChanges
    /\ changes' = changes + 1
    /\ room' = row
    /\ enrolled' = spk
    /\ since' = [room     |-> [since.room EXCEPT ![room] = 0, ![row] = 0],
                 speakers |-> [since.speakers EXCEPT ![enrolled] = 0, ![spk] = 0]]
    /\ UNCHANGED <<reader, cache, query, got>>

NewRoom(mode) == [disc |-> mode, locked |-> FALSE, tts |-> TRUE]

\* create_room and ensure_room make a plain room; speech recreates a deleted one.
CreateRoom ==
    /\ room = Absent
    /\ Change(NewRoom("disabled"), Nobody)
    /\ UNCHANGED <<archived, bus, faults>>

CreateMultiSpeakerRoom ==
    /\ room = Absent
    /\ ~archived
    /\ Change(NewRoom("enabled"), Nobody)
    /\ UNCHANGED <<archived, bus, faults>>

\* The cleanup service archives and deletes; the speakers go with the row.
DeleteRoom ==
    /\ room # Absent
    /\ Change(Absent, Nobody)
    /\ archived' = TRUE
    /\ UNCHANGED <<bus, faults>>

SetSpeakers(spk) ==
    /\ room # Absent
    /\ ~room.locked
    /\ Change(room, spk)
    /\ UNCHANGED <<archived, bus, faults>>

ReplaceSpeakers == \E spk \in Enrolments : SetSpeakers(spk)

UpdateSpeaker == \E s \in Speakers, l \in Langs :
                    enrolled[s] # NoLang /\ SetSpeakers([enrolled EXCEPT ![s] = l])

DeleteSpeaker == \E s \in Speakers :
                    enrolled[s] # NoLang /\ SetSpeakers([enrolled EXCEPT ![s] = NoLang])

\* "disabled" leaves the lock as it is. The notice follows the commit; when
\* Redis fails there is none.
LockFor(mode) == CASE mode = "locked"  -> TRUE
                   [] mode = "enabled" -> FALSE
                   [] OTHER            -> room.locked

SetDiscovery ==
    /\ room # Absent
    /\ \E mode \in Modes :
         Change([room EXCEPT !.disc = mode, !.locked = LockFor(mode)], enrolled)
    /\ \/ bus' = bus + 1 /\ UNCHANGED faults
       \/ faults < MaxFaults /\ faults' = faults + 1 /\ UNCHANGED bus
    /\ UNCHANGED archived

SetTts ==
    /\ room # Absent
    /\ \E on \in BOOLEAN : Change([room EXCEPT !.tts = on], enrolled)
    /\ UNCHANGED <<archived, bus, faults>>

\* The listener of the STT router reads only the language of a notice, and
\* clears the entries of provider routing, which this module does not hold.
DeliverNotice ==
    /\ bus > 0
    /\ bus' = bus - 1
    /\ UNCHANGED <<data, reader, cache, query, since, got, changes, faults>>
-----------------------------------------------------------------------------
\* Look-ups. A router handles one message at a time.

\* Mutant: off by one, an expired entry still counts.
FreshThrough == cache.age <= TTL

Fresh == cache.age < TTL

Answer(row, spk) ==
    got' = [row |-> row, spk |-> IF WantsSpeakers(row) THEN spk ELSE got.spk]

\* Mutant: an entry that is used lives on.
HitRenews ==
    /\ query.at = "idle"
    /\ Fresh
    /\ Answer(cache.row, cache.spk)
    /\ cache' = [cache EXCEPT !.age = 0]
    /\ UNCHANGED <<data, bus, reader, query, since, changes, faults>>

Hit ==
    /\ query.at = "idle"
    /\ Fresh
    /\ Answer(cache.row, cache.spk)
    /\ UNCHANGED <<data, bus, reader, cache, query, since, changes, faults>>

ReadRoom ==
    /\ query.at = "idle"
    /\ ~Fresh
    /\ query' = [Idle EXCEPT !.at = "room", !.row = room]
    /\ UNCHANGED <<data, bus, reader, cache, since, got, changes, faults>>

ReadSpeakers ==
    /\ query.at = "room"
    /\ WantsSpeakers(query.row)
    /\ query' = [query EXCEPT !.at = "speakers", !.spk = enrolled]
    /\ UNCHANGED <<data, bus, reader, cache, since, got, changes, faults>>

Complete == \/ query.at = "room" /\ ~WantsSpeakers(query.row)
            \/ query.at = "speakers"

Kept == [age |-> 0, row |-> query.row, spk |-> query.spk]

\* check_multi_speaker_mode keeps every outcome, also that there is no room.
SttKeeps == reader = "stt" /\ cache' = Kept

MtKeeps == reader = "mt" /\ cache' = Kept

\* check_room_tts_enabled does not keep that a room is missing.
TtsKeeps == reader = "tts" /\ cache' = IF query.row = Absent THEN cache ELSE Kept

Fill ==
    /\ Complete
    /\ Answer(query.row, query.spk)
    /\ SttKeeps \/ MtKeeps \/ TtsKeeps
    /\ query' = Idle
    /\ UNCHANGED <<data, bus, reader, since, changes, faults>>

\* An error of the database answers with a default and keeps nothing.
LookupFails ==
    /\ query.at # "idle"
    /\ faults < MaxFaults
    /\ faults' = faults + 1
    /\ query' = Idle
    /\ UNCHANGED <<data, bus, reader, cache, since, got, changes>>

Older(src, now) == [v \in DOMAIN src |-> IF v = now \/ src[v] = Window + 1
                                         THEN src[v] ELSE src[v] + 1]

\* Mutant: what is known of locked speakers never expires.
AgedUnlessLocked(entry) == IF entry.age + 1 < TTL
                           THEN [entry EXCEPT !.age = @ + 1]
                           ELSE IF entry.row.locked THEN entry ELSE NoEntry

Aged(entry) == IF entry.age + 1 < TTL THEN [entry EXCEPT !.age = @ + 1] ELSE NoEntry

Tick ==
    /\ query.at = "idle" \/ query.took < MaxQuery
    /\ cache' = Aged(cache)
    /\ query' = IF query.at = "idle" THEN query ELSE [query EXCEPT !.took = @ + 1]
    /\ since' = [room |-> Older(since.room, room), speakers |-> Older(since.speakers, enrolled)]
    /\ got' = NoAnswer
    /\ UNCHANGED <<data, bus, reader, changes, faults>>
-----------------------------------------------------------------------------
Owner == \/ CreateRoom \/ CreateMultiSpeakerRoom \/ DeleteRoom
         \/ ReplaceSpeakers \/ UpdateSpeaker \/ DeleteSpeaker
         \/ SetDiscovery \/ SetTts

Answering == ReadSpeakers \/ Fill

Lookup == Hit \/ ReadRoom \/ Answering \/ LookupFails

Next == Owner \/ DeliverNotice \/ Tick \/ Lookup

Spec == Init /\ [][Next]_vars

\* Queries return, notices arrive and time passes; nobody has to ask for anything.
FairSpec == /\ Spec
            /\ WF_vars(Tick)
            /\ WF_vars(DeliverNotice)
            /\ WF_vars(Answering)
-----------------------------------------------------------------------------
TypeOK ==
    /\ room \in Rows
    /\ enrolled \in Enrolments
    /\ archived \in BOOLEAN
    /\ bus \in 0..changes
    /\ reader \in Readers
    /\ cache \in Entries
    /\ query \in Queries
    /\ since \in [room : [Rows -> 0..(Window + 1)], speakers : [Enrolments -> 0..(Window + 1)]]
    /\ got \in [row : Rows \cup {NoAnswer.row}, spk : Enrolments \cup {NoAnswer.spk}]
    /\ changes \in 0..MaxChanges
    /\ faults \in 0..MaxFaults

RoomRegister == INSTANCE StaleRegister WITH
    Values <- Rows, cur <- room, since <- since.room, got <- got.row,
    Nothing <- NoAnswer.row
SpeakersRegister == INSTANCE StaleRegister WITH
    Values <- Enrolments, cur <- enrolled, since <- since.speakers,
    got <- got.spk, Nothing <- NoAnswer.spk

\* Each router sees the row of the room as it was at some moment of the last
\* minute (and the duration of a query), whatever the owner does between a query
\* and the write of its result to the cache: check_multi_speaker_mode of both
\* routers and check_room_tts_enabled implement a register of bounded staleness.
RoomReadsBoundedStale == RoomRegister!Spec

\* The same of the speakers, which are read by a second query and kept with a
\* row that may be older: STT and MT routers never map voices to speakers who
\* were replaced longer ago than that.
SpeakerReadsBoundedStale == SpeakersRegister!Spec

\* Once the owner leaves the settings alone, no router keeps an old copy: what
\* is cached is what is stored, although no notice clears these caches and a
\* look-up may write what it read before the last change.
CachesSettle ==
    <>[](Fresh => /\ cache.row = room
                  /\ WantsSpeakers(room) => cache.spk = enrolled)
=============================================================================
