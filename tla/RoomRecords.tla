---------------------------- MODULE RoomRecords ----------------------------
(***************************************************************************)
(* What is kept of the speech of one room code.  persist_loop of           *)
(* api/services/persistence_service.py stores the finals of stt_events and *)
(* mt_events in segments and translations, with a room id and a recording  *)
(* flag it caches for good; the relay of the API, create_room and the      *)
(* cleanup service make and delete the row of the room meanwhile, and      *)
(* get_room_history of api/history_api.py joins the two tables.            *)
(***************************************************************************)
EXTENDS Integers, Sequences, FiniteSets

CONSTANTS
    Targets,    \* languages translated to
    None,
    MaxFinals,  \* bound: finals said under the code
    MaxRooms,   \* bound: rows of rooms the code has had
    MaxWire,    \* bound: messages a service has not taken
    MaxFaults   \* bound: queries that fail and restarts of persist_loop

\* Rows of rooms, what the cleanup has counted, messages of the two channels.
Row == [id : Nat \ {0}, rec : BOOLEAN]

Count == [id : Nat \ {0}, count : Nat]

Message == [kind : {"stt", "mt"}, of : Nat \ {0}, tgt : Targets \cup {None}]

ASSUME RecordsAssumption ==
    /\ None \notin Targets \cup Nat \cup Row \cup Count \cup Message
    /\ MaxFinals \in Nat
    /\ MaxRooms \in Nat
    /\ MaxWire \in Nat
    /\ MaxFaults \in Nat

VARIABLES
    room,       \* the row of rooms with the code, if there is one
    rooms,      \* ids given
    archive,    \* row of room_archive: the messages it counts
    closing,    \* the cleanup between its counts and its deletion
    said,       \* finals published, each the better of the one before or a new segment
    sent,       \* translations published: <<final, language>>
    wire,       \* messages persist_loop has not taken
    step,       \* the message it has in hand
    cache,      \* room_cache and recording_status_cache
    refreshes,  \* this process reads the flag again for every final, or for none
    segments,   \* rows of the table segments; each message is taken once, so no two are equal
    translations,
    relay,      \* messages the relay of the API has not handled, None once it has died
    missed,     \* history: persist_loop lost a message, or was restarted
    faults

rows  == <<room, rooms, archive, closing>>
bus   == <<said, sent>>
store == <<wire, step, cache, refreshes, segments, translations, missed>>
vars  == <<rows, bus, store, relay, faults>>

Idle == [at |-> "idle", msg |-> None]

Init ==
    /\ room = None /\ rooms = 0
    /\ archive = None /\ closing = None
    /\ said = <<>> /\ sent = {}
    /\ wire = <<>> /\ step = Idle
    /\ cache = None
    /\ refreshes \in BOOLEAN
    /\ segments = {} /\ translations = {}
    /\ relay = 0
    /\ missed = FALSE
    /\ faults = 0

Fault == faults < MaxFaults /\ faults' = faults + 1
-----------------------------------------------------------------------------
\* The rows of the room. Only persist_loop asks for a recording.

NewId == rooms + 1

NewRoom(rec) ==
    /\ rooms < MaxRooms
    /\ room' = [id |-> NewId, rec |-> rec]
    /\ rooms' = rooms + 1

CreateRoom ==
    /\ room = None /\ archive = None
    /\ NewRoom(FALSE)
    /\ UNCHANGED <<archive, closing, bus, store, relay, faults>>

\* save_stt_event and upsert_final_translation, both through ensure_room.
RelayStores ==
    /\ relay # None /\ relay # 0
    /\ relay' = relay - 1
    /\ IF room = None THEN NewRoom(FALSE) ELSE UNCHANGED <<room, rooms>>
    /\ UNCHANGED <<archive, closing, bus, store, faults>>

\* submit_transcript_direct sends an event whose type no service knows; a segment id
\* that is no number ends run_pubsub.
SubmitTranscript ==
    /\ room # None
    /\ relay' = None
    /\ UNCHANGED <<rows, bus, store, faults>>

\* Mutant: recorded rooms are chosen, too.
ChosenAnyway == room # None

\* RoomLifecycle tells when.
Chosen == room # None /\ ~room.rec

\* archive_room counts, if the code has no archive yet.
CleanCounts ==
    /\ closing = None /\ Chosen
    /\ closing' = [id |-> room.id,
                   count |-> Cardinality({s \in segments : s.room = room.id})]
    /\ UNCHANGED <<room, rooms, archive, bus, store, relay, faults>>

\* The segments go with the room, its translations have no reference to it.
CleanDeletes ==
    /\ closing # None
    /\ closing' = None
    /\ archive' = IF archive = None THEN closing.count ELSE archive
    /\ room' = None
    /\ segments' = {s \in segments : s.room # closing.id}
    /\ UNCHANGED <<rooms, bus, wire, step, cache, refreshes, translations, missed, relay, faults>>

CleanFails ==
    /\ closing # None /\ Fault
    /\ closing' = None
    /\ UNCHANGED <<room, rooms, archive, bus, store, relay>>
-----------------------------------------------------------------------------
\* The STT router and the MT router.
Publishes(m) ==
    /\ Len(wire) < MaxWire /\ (relay # None => relay < MaxWire)
    /\ wire' = Append(wire, m)
    /\ relay' = IF relay = None THEN None ELSE relay + 1
    /\ UNCHANGED <<rows, step, cache, refreshes, segments, translations, missed, faults>>

Says(seg, better) ==
    /\ Len(said) < MaxFinals
    /\ said' = Append(said, [seg |-> seg, better |-> better])
    /\ UNCHANGED sent
    /\ Publishes([kind |-> "stt", of |-> Len(said) + 1, tgt |-> None])

\* get_next_segment_id: the counter of the code goes on from room to room.
NextSegment == IF said = <<>> THEN 1 ELSE said[Len(said)].seg + 1

Final == Says(NextSegment, FALSE)

BetterFinal ==
    /\ said # <<>> /\ ~said[Len(said)].better
    /\ Says(said[Len(said)].seg, TRUE)

\* The MT router takes the finals in order, a call may fail.
Translated(i, tgt) ==
    /\ <<i, tgt>> \notin sent
    /\ \A p \in sent : p[1] <= i
    /\ sent' = sent \cup {<<i, tgt>>}
    /\ UNCHANGED said
    /\ Publishes([kind |-> "mt", of |-> i, tgt |-> tgt])
-----------------------------------------------------------------------------
\* persist_loop. Whatever it raises is logged, and the message is lost.
Known == IF refreshes THEN "refresh" ELSE "store"

Take ==
    /\ step.at = "idle" /\ wire # <<>>
    /\ wire' = Tail(wire)
    /\ step' = [at |-> IF cache = None THEN "select" ELSE Known, msg |-> Head(wire)]
    /\ UNCHANGED <<rows, bus, cache, refreshes, segments, translations, missed, relay, faults>>

SelectRoom ==
    /\ step.at = "select"
    /\ cache' = room
    /\ step' = [step EXCEPT !.at = IF room = None THEN "create" ELSE Known]
    /\ UNCHANGED <<rows, bus, wire, refreshes, segments, translations, missed, relay, faults>>

\* Mutant: the first message only makes the room.
CreatedOnly == Idle

CreatedStep == [step EXCEPT !.at = Known]

\* The code is unique: a row made since the SELECT makes the INSERT fail.
InsertRoom ==
    /\ step.at = "create"
    /\ \/ /\ room = None
          /\ NewRoom(TRUE)
          /\ cache' = [id |-> NewId, rec |-> TRUE]
          /\ step' = CreatedStep
          /\ UNCHANGED missed
       \/ /\ room # None
          /\ step' = Idle
          /\ missed' = TRUE
          /\ UNCHANGED <<room, rooms, cache>>
    /\ UNCHANGED <<archive, closing, bus, wire, refreshes, segments, translations, relay, faults>>

\* By the cached id: of a deleted row there is nothing to read, which counts as no.
Refresh ==
    /\ step.at = "refresh"
    /\ cache' = [cache EXCEPT !.rec = room # None /\ room.id = cache.id /\ room.rec]
    /\ step' = [step EXCEPT !.at = "store"]
    /\ UNCHANGED <<rows, bus, wire, refreshes, segments, translations, missed, relay, faults>>

\* Mutant: translations are kept in any case.
SkipsSpeech == ~cache.rec /\ step.msg.kind = "stt"

Skips == ~cache.rec

Skip ==
    /\ step.at = "store" /\ Skips
    /\ step' = Idle
    /\ UNCHANGED <<rows, bus, wire, cache, refreshes, segments, translations, missed, relay, faults>>

\* segments.room_id refers to a row of rooms.
InsertSegment ==
    /\ step.at = "store" /\ step.msg.kind = "stt" /\ ~Skips
    /\ step' = Idle
    /\ IF room # None /\ room.id = cache.id
       THEN /\ segments' = segments \cup {[room |-> cache.id, of |-> step.msg.of]}
            /\ UNCHANGED missed
       ELSE missed' = TRUE /\ UNCHANGED segments
    /\ UNCHANGED <<rows, bus, wire, cache, refreshes, translations, relay, faults>>

SegmentOf(m) == said[m.of].seg

\* Mutant: a row of the segment, of whatever target.
ExistingAnyTarget(m) == {t \in translations : t.seg = SegmentOf(m)}

Existing(m) == {t \in translations : t.seg = SegmentOf(m) /\ t.tgt = m.tgt}

\* By the code of the room, not by its id.
PutTranslation ==
    /\ step.at = "store" /\ step.msg.kind = "mt" /\ ~Skips
    /\ step' = Idle
    /\ LET m == step.msg IN
       translations' =
         IF Existing(m) = {}
         THEN translations \cup {[seg |-> SegmentOf(m), tgt |-> m.tgt, of |-> m.of]}
         ELSE (translations \ Existing(m)) \cup {[t EXCEPT !.of = m.of] : t \in Existing(m)}
    /\ UNCHANGED <<rows, bus, wire, cache, refreshes, segments, missed, relay, faults>>

QueryFails ==
    /\ step.at # "idle" /\ Fault
    /\ step' = Idle
    /\ missed' = TRUE
    /\ UNCHANGED <<rows, bus, wire, cache, refreshes, segments, translations, relay>>

\* A new process has its own hash of the code, and what was published meanwhile is gone.
Restart ==
    /\ Fault
    /\ wire' = <<>> /\ step' = Idle
    /\ cache' = None
    /\ refreshes' \in BOOLEAN
    /\ missed' = TRUE
    /\ UNCHANGED <<rows, bus, segments, translations, relay>>
-----------------------------------------------------------------------------
Rooms == CreateRoom \/ RelayStores \/ SubmitTranscript \/ CleanCounts \/ CleanDeletes \/ CleanFails

Speech == Final \/ BetterFinal \/ \E i \in DOMAIN said, t \in Targets : Translated(i, t)

Persistence == \/ Take \/ SelectRoom \/ InsertRoom \/ Refresh \/ Skip
               \/ InsertSegment \/ PutTranslation \/ QueryFails \/ Restart

Next == Rooms \/ Speech \/ Persistence

Spec == Init /\ [][Next]_vars
-----------------------------------------------------------------------------
\* get_room_history: the segments of the row, each with the translation to a
\* language, if there is one. What it translates itself it cannot save.
Shown(of, tgt) == {t.of : t \in {r \in translations : r.seg = said[of].seg /\ r.tgt = tgt}}

History(tgt) == {[of |-> s.of, shown |-> Shown(s.of, tgt)] : s \in segments}

TypeOK ==
    /\ rooms \in 0..MaxRooms
    /\ room \in {None} \cup Row /\ (room # None => room.id = rooms)
    /\ archive \in {None} \cup Nat
    /\ closing \in {None} \cup Count
    /\ said \in Seq([seg : Nat \ {0}, better : BOOLEAN])
    /\ sent \subseteq (DOMAIN said) \X Targets
    /\ wire \in Seq(Message)
    /\ step \in [at : {"idle", "select", "create", "refresh", "store"}, msg : {None} \cup Message]
    /\ cache \in {None} \cup Row
    /\ refreshes \in BOOLEAN
    /\ segments \subseteq [room : Nat \ {0}, of : DOMAIN said]
    /\ translations \subseteq [seg : Nat \ {0}, tgt : Targets, of : DOMAIN said]
    /\ relay \in {None} \cup Nat
    /\ missed \in BOOLEAN
    /\ faults \in 0..MaxFaults

\* Whatever is kept of a code belongs to a room that is there and is recorded: the
\* flag that is cached for good is never older than the room, for a recorded room
\* is not deleted. So an archive never has a message to count. (Besides, the state is
\* well typed.)
KeptWithConsent ==
    /\ TypeOK
    /\ (segments # {} \/ translations # {} \/ (cache # None /\ cache.rec))
         => room # None /\ room.rec
    /\ \A s \in segments : s.room = room.id
    /\ archive \in {None, 0}

\* A code is recorded from its first final on, or not at all, unless a message was
\* lost: who makes the room first decides.
Untold == (IF step = Idle THEN {} ELSE {step.msg}) \cup {wire[i] : i \in DOMAIN wire}

Pending == {m.of : m \in {n \in Untold : n.kind = "stt"}}

Stored == {s.of : s \in segments}

AllOrNothing == ~missed /\ segments # {} => Stored = DOMAIN said \ Pending

\* No translation is kept without the words it translates, unless a message was lost.
OriginalKept ==
    ~missed => \A t \in translations : t.of \in Stored

\* Once everything is handled the history of a recorded code pairs each segment's
\* last wording with its own translation, if that was made, and with one only.
LastWording(i) == \A j \in DOMAIN said : j > i => said[j].seg # said[i].seg

HistoryPairsUp ==
    ~missed /\ wire = <<>> /\ step = Idle =>
        \A tgt \in Targets : \A h \in History(tgt) :
            /\ Cardinality(h.shown) <= 1
            /\ <<h.of, tgt>> \in sent /\ LastWording(h.of) => h.shown = {h.of}
=============================================================================
