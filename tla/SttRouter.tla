----------------------------- MODULE SttRouter -----------------------------
(***************************************************************************)
(* The speech-to-text router: router_loop and its callbacks               *)
(* (api/routers/stt/router.py), the pool of streaming connections          *)
(* (streaming_manager.py) and the segment ids the API announces            *)
(* (speech_started in api/main.py).                                        *)
(*                                                                         *)
(* One task handles the messages of every room in turn; the listener of a  *)
(* streaming connection runs between its awaits.  on_partial and on_error  *)
(* are closures, so the room, speaker, language and session they use are   *)
(* those of the message the loop handles when they run, not those of the   *)
(* connection they were given to: the variable cell.  Words are abstracted *)
(* to the room they were spoken in.                                        *)
(***************************************************************************)
EXTENDS Naturals, Sequences, FiniteSets

CONSTANTS
    Rooms, Speakers, Langs,
    StreamLangs,   \* languages routed to a streaming provider for partials
    Inputs,        \* message types the clients send
    Failures,      \* failures that happen: "connect", "send", "error", "lost"
    MaxInputs,     \* bound on the messages the clients send
    MaxFaults      \* bound on the failures

ASSUME SttAssumption ==
    /\ Rooms # {} /\ Speakers # {} /\ Langs # {}
    /\ Rooms \cap {"router", "none"} = {}      \* names the model gives a meaning
    /\ StreamLangs \subseteq Langs
    /\ Inputs \subseteq {"speech_started", "partial", "chunk", "end"}
    /\ Failures \subseteq {"connect", "send", "error", "lost"}
    /\ MaxInputs \in Nat
    /\ MaxFaults \in Nat

VARIABLES
    counter,    \* room:{id}:segment_counter
    pending,    \* room:{id}:pending_segment:{speaker}, 0 when absent
    queue,      \* stt_input messages not yet read
    pc,         \* where router_loop is
    cell,       \* the closure variables of router_loop
    seg,        \* its local segment_id
    sess,       \* partial_sessions; a deleted session keeps its fields
    pool,       \* streaming_manager.connections: state of the room's entry
    poolLang,   \* language of that connection
    acc,        \* accumulated_text of the room's connection is not empty
    lock,       \* streaming_manager._lock: its holder, then those waiting
    epc,        \* on_error as run by the listener of the room's connection
    target,     \* room whose connection a task closes, NoRoom when none
    detected,   \* the local detected_lang, "unset" until it is assigned
    timeBound,  \* the local name time is bound (its import has run)
    out,        \* the last event published on stt_events
    stray,      \* rooms with a socket opened on a closed connection
    sent, faults,   \* inputs and failures so far
    opened,     \* history: segments for which a session was opened
    finalized   \* history: segments for which stt_finalize was published

keys    == <<counter, pending>>
locals  == <<detected, timeBound>>
conns   == <<pool, poolLang, acc, stray>>
closing == <<lock, epc, target>>
inputs  == <<queue, sent>>
history == <<opened, finalized>>
vars == <<keys, inputs, pc, cell, seg, locals, sess, conns, closing, out,
          faults, history>>

NoRoom == "none"

\* The language of an event is kept for partials only.
Unsaid == "unsaid"

Tasks == Rooms \cup {"router"}

Session == [live    : BOOLEAN,
            seg     : Nat,
            speaker : Speakers,
            lang    : Langs,
            prov    : {"stream", "batch"},
            conn    : BOOLEAN,                \* streaming_connection is set
            text    : Rooms \cup {NoRoom}]    \* where its text was spoken

Message == [type : {"partial", "chunk", "end"}, room : Rooms,
            speaker : Speakers, lang : Langs]

Event == [type : {"none", "partial", "final", "finalize"},
          room : Rooms, seg : Nat, speaker : Speakers,
          lang : Langs \cup {Unsaid},
          spoken : Rooms \cup {NoRoom}]       \* where its text was spoken

RouterPc == {"idle", "pending", "claim", "incr", "route", "reclose",
             "reclosing", "getconn", "connecting", "selfwait", "send",
             "reconnect", "fallback", "falling", "batch", "finalIncr",
             "final", "finalDone", "finalize", "endClear", "refine",
             "endRefined"}

TypeOK ==
    /\ counter \in [Rooms -> Nat]
    /\ pending \in [Rooms -> [Speakers -> Nat]]
    /\ queue \in Seq(Message)
    /\ pc \in RouterPc
    /\ cell \in [room : Rooms, session : Rooms, speaker : Speakers, lang : Langs]
    /\ seg \in Nat
    /\ sess \in [Rooms -> Session]
    /\ pool \in [Rooms -> {"none", "up", "mute", "dead", "closing", "draining"}]
    /\ poolLang \in [Rooms -> Langs]
    /\ acc \in [Rooms -> BOOLEAN]
    /\ lock \in Seq(Tasks)
    /\ epc \in [Rooms -> {"quiet", "wait", "closing"}]
    /\ target \in [Tasks -> Rooms \cup {NoRoom}]
    /\ detected \in Langs \cup {"unset"}
    /\ timeBound \in BOOLEAN
    /\ out \in Event
    /\ stray \subseteq Rooms
    /\ sent \in Nat
    /\ faults \in Nat
    /\ opened \in [Rooms -> SUBSET Nat]
    /\ finalized \in [Rooms -> SUBSET Nat]

AnyRoom    == CHOOSE r \in Rooms : TRUE
AnySpeaker == CHOOSE sp \in Speakers : TRUE
AnyLang    == CHOOSE l \in Langs : TRUE

NoSession == [live |-> FALSE, seg |-> 0, speaker |-> AnySpeaker, lang |-> AnyLang,
              prov |-> "batch", conn |-> FALSE, text |-> NoRoom]

Init ==
    /\ counter = [r \in Rooms |-> 0]
    /\ pending = [r \in Rooms |-> [sp \in Speakers |-> 0]]
    /\ queue = <<>>
    /\ pc = "idle"
    /\ cell = [room |-> AnyRoom, session |-> AnyRoom, speaker |-> AnySpeaker,
               lang |-> AnyLang]
    /\ seg = 0
    /\ sess = [r \in Rooms |-> NoSession]
    /\ pool = [r \in Rooms |-> "none"]
    /\ poolLang = [r \in Rooms |-> AnyLang]
    /\ acc = [r \in Rooms |-> FALSE]
    /\ lock = <<>>
    /\ epc = [r \in Rooms |-> "quiet"]
    /\ target = [t \in Tasks |-> NoRoom]
    /\ detected = "unset"
    /\ timeBound = FALSE
    /\ out = [type |-> "none", room |-> AnyRoom, seg |-> 0, speaker |-> AnySpeaker,
              lang |-> Unsaid, spoken |-> NoRoom]
    /\ stray = {}
    /\ sent = 0
    /\ faults = 0
    /\ opened = [r \in Rooms |-> {}]
    /\ finalized = [r \in Rooms |-> {}]

-----------------------------------------------------------------------------
(* The clients and the API.                                                 *)

\* INCR, then SETEX of the pending key, which only the speaker's own chunks read.
SpeechStarted(r, sp) ==
    /\ "speech_started" \in Inputs
    /\ sent < MaxInputs
    /\ counter' = [counter EXCEPT ![r] = @ + 1]
    /\ pending' = [pending EXCEPT ![r][sp] = counter[r] + 1]
    /\ sent' = sent + 1
    /\ UNCHANGED <<queue, pc, cell, seg, locals, sess, conns, closing, out,
                   faults, history>>

\* The 30 s of the pending key run out.
PendingExpires(r, sp) ==
    /\ pending[r][sp] # 0
    /\ pending' = [pending EXCEPT ![r][sp] = 0]
    /\ UNCHANGED <<counter, inputs, pc, cell, seg, locals, sess, conns, closing,
                   out, faults, history>>

\* stt.push_raw: the message is published on stt_input.
SendInput(r, sp) ==
    /\ sent < MaxInputs
    /\ \E ty \in Inputs \ {"speech_started"}, l \in Langs :
          queue' = Append(queue, [type |-> ty, room |-> r, speaker |-> sp, lang |-> l])
    /\ sent' = sent + 1
    /\ UNCHANGED <<keys, pc, cell, seg, locals, sess, conns, closing, out,
                   faults, history>>

Clients == \E r \in Rooms, sp \in Speakers :
              SpeechStarted(r, sp) \/ PendingExpires(r, sp) \/ SendInput(r, sp)

-----------------------------------------------------------------------------
(* Pieces of router_loop.                                                   *)

room == cell.room

\* The branch a chunk takes once its session is known, decided without an await.
ChunkPc(s) ==
    CASE s.prov = "batch"           -> "batch"
      [] s.prov = "stream" /\ s.conn  -> "send"
      [] s.prov = "stream" /\ ~s.conn -> "getconn"

\* A chunk that needs a connection asks for the lock; l is the lock before.
Asks(l, s) == IF ChunkPc(s) = "getconn" THEN Append(l, "router") ELSE l

Provider(l) == IF l \in StreamLangs THEN "stream" ELSE "batch"

EventOf(ty, r, sg, sp, l, spoken) ==
    [type |-> ty, room |-> r, seg |-> sg, speaker |-> sp, lang |-> l,
     spoken |-> spoken]

\* Mutant: the session is not deleted.
ForgetNothing == UNCHANGED sess

\* del partial_sessions[room]
Forget == sess' = [sess EXCEPT ![room].live = FALSE]

\* Mutant: the session that falls back keeps its connection.
SwitchKeepingConnection == sess' = [sess EXCEPT ![cell.session].prov = "batch"]

\* The end of on_error: the session of the message now handled turns to batch.
SwitchToBatch ==
    sess' = [sess EXCEPT ![cell.session].prov = "batch", ![cell.session].conn = FALSE]

\* asyncio.Lock serves the tasks in the order in which they ask for it.
Holds(t) == lock # <<>> /\ Head(lock) = t

\* close_connection, as called by task t about the room r.
CallClose(t, r) ==
    /\ lock' = Append(lock, t)
    /\ target' = [target EXCEPT ![t] = r]

Closes(t) == target[t] # NoRoom /\ pool[target[t]] # "none"

\* The socket of a live connection delivers what it has while it closes.
BeginClose(t) ==
    /\ Holds(t)
    /\ Closes(t)
    /\ pool' = [pool EXCEPT ![target[t]] = IF @ = "dead" THEN "closing" ELSE "draining"]

\* Mutant: close_connection returns with the lock held.
EndCloseHolding(t) ==
    /\ Holds(t)
    /\ lock' = lock
    /\ target' = [target EXCEPT ![t] = NoRoom]

EndClose(t) ==
    /\ Holds(t)
    /\ lock' = Tail(lock)
    /\ target' = [target EXCEPT ![t] = NoRoom]

-----------------------------------------------------------------------------
(* router_loop reads a message.                                             *)

Read == /\ pc = "idle"
        /\ queue # <<>>
        /\ queue' = Tail(queue)

\* The variables every message rebinds, and session when the room has one.
Rebind(m) ==
    cell' = [room |-> m.room, speaker |-> m.speaker, lang |-> m.lang,
             session |-> IF sess[m.room].live THEN m.room ELSE cell.session]

\* The session as a further chunk leaves it.
Continued(m) == [sess[m.room] EXCEPT !.lang = m.lang]

TakePartial ==
    LET m == Head(queue)
    IN /\ Read
       /\ m.type = "partial"
       /\ sess[m.room].live
       /\ Rebind(m)
       /\ sess' = [sess EXCEPT ![m.room] = Continued(m)]
       /\ pc' = ChunkPc(Continued(m))
       /\ lock' = Asks(lock, Continued(m))
       /\ UNCHANGED <<keys, sent, seg, locals, conns, epc, target, out, faults,
                      history>>

TakeFirstPartial ==
    LET m == Head(queue)
    IN /\ Read
       /\ m.type = "partial"
       /\ ~sess[m.room].live
       /\ Rebind(m)
       /\ pc' = "pending"
       /\ UNCHANGED <<keys, sent, seg, locals, sess, conns, closing, out, faults,
                      history>>

TakeChunk ==
    LET m == Head(queue)
    IN /\ Read
       /\ m.type = "chunk"
       /\ Rebind(m)
       /\ pc' = IF sess[m.room].live THEN "final" ELSE "finalIncr"
       /\ seg' = IF sess[m.room].live THEN sess[m.room].seg ELSE seg
       /\ UNCHANGED <<keys, sent, locals, sess, conns, closing, out, faults, history>>

\* The session to end has a streaming connection: stt_final with the text of
\* the connection when there is one, then stt_finalize.
EndsStream(m) == sess[m.room].live /\ sess[m.room].conn

TakeEndStream ==
    LET m == Head(queue)
        s == sess[m.room]
    IN /\ Read
       /\ m.type = "end"
       /\ EndsStream(m)
       /\ Rebind(m)
       /\ timeBound' = TRUE
       /\ pc' = "finalize"
       /\ out' = IF acc[m.room]
                 THEN EventOf("final", m.room, s.seg, s.speaker, Unsaid, m.room)
                 ELSE out
       /\ UNCHANGED <<keys, sent, seg, detected, sess, conns, closing, faults, history>>

\* No streaming connection: the text so far at once, then the refinement.
TakeEndBatch ==
    LET m == Head(queue)
        s == sess[m.room]
    IN /\ Read
       /\ m.type = "end"
       /\ s.live /\ ~s.conn
       /\ Rebind(m)
       /\ timeBound' = TRUE
       /\ pc' = "refine"
       /\ out' = IF s.text # NoRoom
                 THEN EventOf("final", m.room, s.seg, s.speaker, Unsaid, s.text)
                 ELSE out
       /\ UNCHANGED <<keys, sent, seg, detected, sess, conns, closing, faults, history>>

TakeEndNothing ==
    LET m == Head(queue)
    IN /\ Read
       /\ m.type = "end"
       /\ ~sess[m.room].live
       /\ Rebind(m)
       /\ timeBound' = TRUE
       /\ UNCHANGED <<keys, sent, pc, seg, detected, sess, conns, closing, out,
                      faults, history>>

-----------------------------------------------------------------------------
(* The first chunk of a segment.                                            *)

\* GET of the pending key.
GetPending ==
    LET p == pending[room][cell.speaker]
    IN /\ pc = "pending"
       /\ seg' = p
       /\ pc' = IF p # 0 THEN "claim" ELSE "incr"
       /\ UNCHANGED <<keys, inputs, cell, locals, sess, conns, closing, out,
                      faults, history>>

\* Mutant: the pending key is left to expire.
ClaimedKept == pending

\* DELETE of the pending key.
Claimed == [pending EXCEPT ![room][cell.speaker] = 0]

ClaimPending ==
    /\ pc = "claim"
    /\ pending' = Claimed
    /\ pc' = "route"
    /\ UNCHANGED <<counter, inputs, cell, seg, locals, sess, conns, closing, out,
                   faults, history>>

NextSegment ==
    /\ counter' = [counter EXCEPT ![room] = @ + 1]
    /\ seg' = counter[room] + 1

IncrSegment ==
    /\ pc = "incr"
    /\ NextSegment
    /\ pc' = "route"
    /\ UNCHANGED <<pending, inputs, cell, locals, sess, conns, closing, out,
                   faults, history>>

\* partial_sessions[room] = {...}, and the chunk taken on to its branch.
OpenSession(conn, l) ==
    LET s == [live |-> TRUE, seg |-> seg, speaker |-> cell.speaker,
              lang |-> cell.lang, prov |-> Provider(cell.lang), conn |-> conn,
              text |-> NoRoom]
    IN /\ sess' = [sess EXCEPT ![room] = s]
       /\ cell' = [cell EXCEPT !.session = room]
       /\ opened' = [opened EXCEPT ![room] = @ \cup {seg}]
       /\ pc' = ChunkPc(s)
       /\ lock' = Asks(l, s)

\* A connection of the pool the new segment finds.
Existing == Provider(cell.lang) = "stream" /\ pool[room] # "none"

\* The provider is known, and the pool holds no connection of another language.
Route ==
    /\ pc = "route"
    /\ Existing => poolLang[room] = cell.lang
    /\ OpenSession(Existing, lock)
    /\ acc' = [acc EXCEPT ![room] = @ /\ ~Existing]     \* reset_for_new_segment
    /\ UNCHANGED <<keys, inputs, seg, locals, pool, poolLang, stray, epc, target, out,
                   faults, finalized>>

\* The language changed: the old connection is closed first.
RouteOtherLanguage ==
    /\ pc = "route"
    /\ Existing /\ poolLang[room] # cell.lang
    /\ CallClose("router", room)
    /\ pc' = "reclose"
    /\ UNCHANGED <<keys, inputs, cell, seg, locals, sess, conns, epc, out, faults,
                   history>>

\* close_connection finds the connection, or finds it gone.
Reclose ==
    /\ pc = "reclose"
    /\ BeginClose("router")
    /\ pc' = "reclosing"
    /\ UNCHANGED <<keys, inputs, cell, seg, locals, sess, poolLang, acc, stray, closing,
                   out, faults, history>>

RecloseGone ==
    /\ pc = "reclose"
    /\ Holds("router") /\ ~Closes("router")
    /\ target' = [target EXCEPT !["router"] = NoRoom]
    /\ OpenSession(FALSE, Tail(lock))
    /\ UNCHANGED <<keys, inputs, seg, locals, conns, epc, out, faults, finalized>>

Reclosed ==
    /\ pc = "reclosing" /\ Holds("router")
    /\ target' = [target EXCEPT !["router"] = NoRoom]
    /\ pool' = [pool EXCEPT ![room] = "none"]
    /\ OpenSession(FALSE, Tail(lock))
    /\ UNCHANGED <<keys, inputs, seg, locals, poolLang, acc, stray, epc, out, faults,
                   finalized>>

-----------------------------------------------------------------------------
(* A chunk on a streaming connection.                                       *)

\* get_or_create_connection: a session without connection has none in the
\* pool, so a new one is made, and connects with the lock held.
GetConnection ==
    /\ pc = "getconn"
    /\ Holds("router")
    /\ pc' = "connecting"
    /\ UNCHANGED <<keys, inputs, cell, seg, locals, sess, conns, closing, out, faults,
                   history>>

Connected ==
    /\ pc = "connecting" /\ Holds("router")
    /\ pool' = [pool EXCEPT ![room] = "up"]
    /\ poolLang' = [poolLang EXCEPT ![room] = cell.lang]
    /\ acc' = [acc EXCEPT ![room] = FALSE]
    /\ sess' = [sess EXCEPT ![room].conn = TRUE]
    /\ lock' = Tail(lock)
    /\ pc' = "send"
    /\ UNCHANGED <<keys, inputs, cell, seg, locals, stray, epc, target, out, faults,
                   history>>

Fails(f) == f \in Failures /\ faults < MaxFaults /\ faults' = faults + 1

\* connect() raises after on_error; an error that on_error takes for a quota or
\* connection problem makes it wait for the lock get_or_create_connection holds.
ConnectFails ==
    /\ pc = "connecting" /\ Holds("router")
    /\ Fails("connect")
    /\ \/ pc' = "selfwait" /\ UNCHANGED lock
       \/ pc' = "idle" /\ lock' = Tail(lock)
    /\ UNCHANGED <<keys, inputs, cell, seg, locals, sess, conns, epc, target, out,
                   history>>

\* send_audio on a live connection, one step with what led to it: the loop does
\* not await in between.
SendAudio ==
    /\ pc = "send"
    /\ pool[room] \in {"up", "mute"}
    /\ pc' = "idle"
    /\ UNCHANGED <<keys, inputs, cell, seg, locals, sess, conns, closing, out, faults,
                   history>>

\* ensure_connected on a dead, closing or removed connection: it reconnects
\* without the lock.
Reconnect ==
    /\ pc = "send"
    /\ pool[room] \notin {"up", "mute"}
    /\ pc' = "reconnect"
    /\ UNCHANGED <<keys, inputs, cell, seg, locals, sess, conns, closing, out, faults,
                   history>>

\* A connection that was closed keeps is_closing: its new socket is open, its
\* audio is dropped, and nothing will close the socket.
Reconnected ==
    /\ pc = "reconnect"
    /\ pc' = "idle"
    /\ IF pool[room] = "dead"
       THEN pool' = [pool EXCEPT ![room] = "up"] /\ UNCHANGED stray
       ELSE stray' = stray \cup {room} /\ UNCHANGED pool
    /\ UNCHANGED <<keys, inputs, cell, seg, locals, sess, poolLang, acc, closing, out,
                   faults, history>>

\* The room whose connection on_error closes, given where it is called.
ErrorTarget == IF sess[cell.session].prov = "stream" THEN room ELSE NoRoom

\* on_error, then the exception ends the message.  An error without a known
\* pattern is only logged.
RaisesError ==
    \/ pc' = "fallback" /\ CallClose("router", ErrorTarget)
    \/ pc' = "idle" /\ UNCHANGED <<lock, target>>

SendFails ==
    /\ pc = "send"
    /\ pool[room] \in {"up", "mute"}
    /\ Fails("send")
    /\ RaisesError
    /\ UNCHANGED <<keys, inputs, cell, seg, locals, sess, conns, epc, out, history>>

ReconnectFails ==
    /\ pc = "reconnect"
    /\ Fails("connect")
    /\ RaisesError
    /\ UNCHANGED <<keys, inputs, cell, seg, locals, sess, conns, epc, out, history>>

FallbackClose ==
    /\ pc = "fallback"
    /\ BeginClose("router")
    /\ pc' = "falling"
    /\ UNCHANGED <<keys, inputs, cell, seg, locals, sess, poolLang, acc, stray, closing,
                   out, faults, history>>

FallbackGone ==
    /\ pc = "fallback"
    /\ ~Closes("router")
    /\ EndClose("router")
    /\ SwitchToBatch
    /\ pc' = "idle"
    /\ UNCHANGED <<keys, inputs, cell, seg, locals, conns, epc, out, faults, history>>

FellBack ==
    /\ pc = "falling"
    /\ EndClose("router")
    /\ pool' = [pool EXCEPT ![room] = "none"]
    /\ SwitchToBatch
    /\ pc' = "idle"
    /\ UNCHANGED <<keys, inputs, cell, seg, locals, poolLang, acc, stray, epc, out,
                   faults, history>>

-----------------------------------------------------------------------------
(* A chunk on the batch API.                                                *)

\* The text is appended, then published under detected_lang; while that name is
\* unassigned the publication raises and the chunk ends there.
BatchPartial ==
    /\ pc = "batch"
    /\ sess' = [sess EXCEPT ![room].text = room]
    /\ out' = IF detected = "unset" THEN out
              ELSE EventOf("partial", room, sess[room].seg, cell.speaker, detected, room)
    /\ pc' = "idle"
    /\ UNCHANGED <<keys, inputs, cell, seg, locals, conns, closing, faults, history>>

\* Too little audio, a filtered hallucination, a repetition or a failed call.
BatchSkipped ==
    /\ pc = "batch"
    /\ pc' = "idle"
    /\ UNCHANGED <<keys, inputs, cell, seg, locals, sess, conns, closing, out, faults,
                   history>>

-----------------------------------------------------------------------------
(* audio_chunk: a whole utterance transcribed at once.                      *)

IncrFinal ==
    /\ pc = "finalIncr"
    /\ NextSegment
    /\ pc' = "final"
    /\ UNCHANGED <<pending, inputs, cell, locals, sess, conns, closing, out, faults,
                   history>>

FinalSpeaker == IF sess[room].live THEN sess[room].speaker ELSE cell.speaker

Final ==
    /\ pc = "final"
    /\ timeBound
    /\ out' = EventOf("final", room, seg, FinalSpeaker, Unsaid, room)
    /\ pc' = "finalDone"
    /\ UNCHANGED <<keys, inputs, cell, seg, locals, sess, conns, closing, faults,
                   history>>

\* The call fails, or time.time() does because no audio_end was read so far.
FinalFails ==
    /\ pc = "final"
    /\ pc' = "idle"
    /\ UNCHANGED <<keys, inputs, cell, seg, locals, sess, conns, closing, out, faults,
                   history>>

FinalDone ==
    /\ pc = "finalDone"
    /\ Forget
    /\ pc' = "idle"
    /\ UNCHANGED <<keys, inputs, cell, seg, locals, conns, closing, out, faults,
                   history>>

-----------------------------------------------------------------------------
(* audio_end.                                                               *)

Finalize ==
    /\ pc = "finalize"
    /\ out' = EventOf("finalize", room, sess[room].seg, sess[room].speaker, Unsaid,
                      NoRoom)
    /\ finalized' = [finalized EXCEPT ![room] = @ \cup {sess[room].seg}]
    /\ pc' = "endClear"
    /\ UNCHANGED <<keys, inputs, cell, seg, locals, sess, conns, closing, faults,
                   opened>>

\* Cost and debug events are out; the texts are reset and the session deleted.
EndClear ==
    /\ pc = "endClear"
    /\ acc' = [acc EXCEPT ![room] = FALSE]
    /\ Forget
    /\ pc' = "idle"
    /\ UNCHANGED <<keys, inputs, cell, seg, locals, pool, poolLang, stray, closing,
                   out, faults, history>>

\* The refinement binds language_hint and detected_lang to the session's language.
Refine ==
    /\ pc = "refine"
    /\ cell' = [cell EXCEPT !.lang = sess[room].lang]
    /\ detected' = sess[room].lang
    /\ out' = EventOf("final", room, sess[room].seg, sess[room].speaker, Unsaid, room)
    /\ pc' = "endRefined"
    /\ UNCHANGED <<keys, inputs, seg, timeBound, sess, conns, closing, faults, history>>

\* The refinement fails, or its follow-up is published: the session is deleted.
EndBatch ==
    /\ pc \in {"refine", "endRefined"}
    /\ cell' = [cell EXCEPT !.lang = sess[room].lang]
    /\ Forget
    /\ pc' = "idle"
    /\ UNCHANGED <<keys, inputs, seg, locals, conns, closing, out, faults, history>>

-----------------------------------------------------------------------------
(* The listeners of the connections.                                        *)

\* Mutant: on_partial does not look whether the session is still there.
HeardAlways == TRUE

\* on_partial acts only when the room being handled has a session.
Heard == sess[room].live

\* The listener of the room's connection waits for a message.
Listens(r) == pool[r] \in {"up", "draining"} /\ epc[r] = "quiet"

\* A partial transcript of the room's audio: kept by its connection, then
\* on_partial, which ignores punctuation.
Partial(r) ==
    /\ Listens(r)
    /\ acc' = [acc EXCEPT ![r] = TRUE]
    /\ \/ /\ Heard
          /\ sess' = [sess EXCEPT ![cell.session].text = r]
          /\ out' = EventOf("partial", room, sess[cell.session].seg, cell.speaker,
                            cell.lang, r)
       \/ UNCHANGED <<sess, out>>
    /\ UNCHANGED <<keys, inputs, pc, cell, seg, locals, pool, poolLang, stray, closing,
                   faults, history>>

\* A final transcript: on_final stores it in the session without looking whether
\* the session is still there.  Punctuation also goes to the accumulated text.
FinalTranscript(r) ==
    /\ Listens(r)
    /\ acc' \in {acc, [acc EXCEPT ![r] = TRUE]}
    /\ sess' = [sess EXCEPT ![cell.session].text = r]
    /\ UNCHANGED <<keys, inputs, pc, cell, seg, locals, pool, poolLang, stray, closing,
                   out, faults, history>>

\* The provider closes the socket normally: the listener just ends.
Drop(r) ==
    /\ pool[r] = "up" /\ epc[r] = "quiet"
    /\ Fails("lost")
    /\ pool' = [pool EXCEPT ![r] = "dead"]
    /\ UNCHANGED <<keys, inputs, pc, cell, seg, locals, sess, poolLang, acc, stray,
                   closing, out, history>>

\* An error message, or the loss of the socket: the listener awaits on_error.
ListenerError(r) ==
    /\ pool[r] = "up" /\ epc[r] = "quiet"
    /\ Heard
    /\ Fails("error")
    /\ \E st \in {"mute", "dead"} : pool' = [pool EXCEPT ![r] = st]
    /\ epc' = [epc EXCEPT ![r] = "wait"]
    /\ CallClose(r, ErrorTarget)
    /\ UNCHANGED <<keys, inputs, pc, cell, seg, locals, sess, poolLang, acc, stray,
                   out, history>>

ErrorClose(r) ==
    /\ epc[r] = "wait"
    /\ BeginClose(r)
    /\ epc' = [epc EXCEPT ![r] = "closing"]
    /\ UNCHANGED <<keys, inputs, pc, cell, seg, locals, sess, poolLang, acc, stray,
                   lock, target, out, faults, history>>

\* on_error has returned: a listener whose socket is still open reads on.
Resumed(r, p) == [p EXCEPT ![r] = IF @ = "mute" THEN "up" ELSE @]

ErrorGone(r) ==
    /\ epc[r] = "wait"
    /\ ~Closes(r)
    /\ EndClose(r)
    /\ epc' = [epc EXCEPT ![r] = "quiet"]
    /\ pool' = Resumed(r, pool)
    /\ SwitchToBatch
    /\ UNCHANGED <<keys, inputs, pc, cell, seg, locals, poolLang, acc, stray, out,
                   faults, history>>

ErrorClosed(r) ==
    /\ epc[r] = "closing"
    /\ EndClose(r)
    /\ epc' = [epc EXCEPT ![r] = "quiet"]
    /\ pool' = Resumed(r, [pool EXCEPT ![target[r]] = "none"])
    /\ SwitchToBatch
    /\ UNCHANGED <<keys, inputs, pc, cell, seg, locals, poolLang, acc, stray, out,
                   faults, history>>

-----------------------------------------------------------------------------
\* A listener given the lock by its release, which runs before any await on the
\* network returns.
Woken(r) == epc[r] = "wait" /\ Holds(r)

\* Steps router_loop goes on to without having awaited anything but the lock.
RouterGoesOn ==
    \/ TakePartial \/ TakeFirstPartial \/ TakeChunk
    \/ TakeEndStream \/ TakeEndBatch \/ TakeEndNothing
    \/ Reclose \/ RecloseGone \/ GetConnection
    \/ SendAudio \/ SendFails \/ Reconnect
    \/ FallbackClose \/ FallbackGone

\* Steps at the return of an await on Redis, the database or a provider.
RouterResumes ==
    \/ GetPending \/ ClaimPending \/ IncrSegment
    \/ Route \/ RouteOtherLanguage \/ Reclosed
    \/ Connected \/ ConnectFails \/ Reconnected \/ ReconnectFails \/ FellBack
    \/ BatchPartial \/ BatchSkipped
    \/ IncrFinal \/ Final \/ FinalFails \/ FinalDone
    \/ Finalize \/ EndClear \/ Refine \/ EndBatch

RouterStep == RouterGoesOn \/ (RouterResumes /\ \A r \in Rooms : ~Woken(r))

\* The loop has control: no other task runs until it awaits.
RouterRuns ==
    \/ pc = "send"
    \/ pc \in {"reclose", "getconn", "fallback"} /\ Holds("router")

ErrorStep(r) ==
    ~RouterRuns /\ (ErrorClose(r) \/ ErrorGone(r) \/ ErrorClosed(r))

ListenerStep ==
    ~RouterRuns /\ \E r \in Rooms :
        Partial(r) \/ FinalTranscript(r) \/ Drop(r) \/ ListenerError(r)

Next == Clients \/ RouterStep \/ ListenerStep \/ \E r \in Rooms : ErrorStep(r)

Spec == Init /\ [][Next]_vars

\* The event loop runs every task that can run; a provider answers or fails.
Fairness == WF_vars(RouterStep) /\ \A r \in Rooms : WF_vars(ErrorStep(r))

FairSpec == Spec /\ Fairness

-----------------------------------------------------------------------------
(* Properties.                                                              *)

Closed(r) == {k \in opened[r] : ~(sess[r].live /\ sess[r].seg = k)}

\* A session is always opened under a segment id no earlier session of the room
\* had, though ids come from three places: the API's INCR, the router's INCR,
\* and a pending key that may be expired, overwritten or claimed late.
SegmentsNeverReused ==
    [][\A r \in Rooms : sess'[r].live /\ ~sess[r].live => sess'[r].seg \notin opened[r]]_vars

\* Nothing is published about a segment once its session is deleted: a late
\* transcript meets the guard of on_partial, whatever was read since.
ClosedSegmentsSilent ==
    [][out' # out => out'.seg \notin Closed(out'.room)]_vars

\* stt_finalize is published at most once for a segment.
FinalizedOnce ==
    [][\A r \in Rooms : pc = "finalize" /\ pc' # pc /\ room = r
          => sess[r].seg \notin finalized[r]]_vars

\* While no chunk is on its way, a session that fell back to the batch API
\* holds no streaming connection, so audio_end ends it as a batch session.
BatchHasNoConnection ==
    \A r \in Rooms : pc = "idle" /\ sess[r].live /\ sess[r].prov = "batch" => ~sess[r].conn

\* The words of an event were spoken in the room it is published to.
EventsStayInRoom == out.spoken \in {NoRoom, out.room}

\* Every message is dealt with: the loop reads the next one.
RouterReturns == pc # "idle" ~> pc = "idle"

\* An audio_end ends the session of its room.
EndClosesSession ==
    \A r \in Rooms :
        queue # <<>> /\ Head(queue).type = "end" /\ Head(queue).room = r
            ~> ~sess[r].live

=============================================================================
