--------------------------- MODULE SttRouterProof ---------------------------
(***************************************************************************)
(* Proofs about SttRouter, for any set of rooms, speakers and languages    *)
(* and any bounds: its types, that a session is always opened under a new  *)
(* segment id, that a deleted session is never spoken of again, that a     *)
(* segment is finalized once, and, for one room, that a fallback leaves no *)
(* connection.                                                             *)
(*                                                                         *)
(* None of them is inductive.  The first needs to know where the ids in    *)
(* circulation are (Ids): below the counter, an announced id held by one   *)
(* pending key, not opened, and the id router_loop holds not held by a     *)
(* pending key once its DELETE is done.  The second needs to know at which *)
(* places of the loop the room has a session (Phases), the third what is   *)
(* finalized and not yet deleted (FinalizedKnown), the fourth the order of *)
(* the tasks at the lock of the pool (RoomInv).                            *)
(***************************************************************************)
EXTENDS SttRouter, SequenceTheorems, TLAPS

Claiming == {"claim", "route", "reclose", "reclosing"}
Opening  == {"pending", "incr", "finalIncr"} \cup Claiming
Serving  == {"send", "reconnect", "getconn", "connecting", "selfwait", "fallback", "falling",
             "batch", "finalize", "endClear", "refine", "endRefined"}

\* Ids in use are below the counter, and an announced id is nobody else's.
IdsBelowCounter == \A r \in Rooms : \A k \in opened[r] : k <= counter[r]

PendingFresh ==
    \A r \in Rooms, sp \in Speakers : pending[r][sp] # 0 =>
        /\ pending[r][sp] <= counter[r]
        /\ pending[r][sp] \notin opened[r]
        /\ \A sp2 \in Speakers \ {sp} : pending[r][sp2] # pending[r][sp]

\* The id router_loop holds for the session it is about to open.
ClaimFresh ==
    pc \in Claiming =>
        /\ seg # 0 /\ seg <= counter[room] /\ seg \notin opened[room]
        /\ \A sp \in Speakers : pending[room][sp] = seg =>
              pc = "claim" /\ sp = cell.speaker

\* Whether the room handled has a session, by the place in the loop.
Phases ==
    /\ pc \in Serving => sess[room].live
    /\ pc \in Opening => ~sess[room].live
    /\ pc = "final" => IF sess[room].live THEN seg = sess[room].seg ELSE seg \notin opened[room]
    /\ sess[room].live => cell.session = room

Ids == IdsBelowCounter /\ PendingFresh /\ ClaimFresh
IInv == TypeOK /\ Ids /\ Phases

-----------------------------------------------------------------------------
(* Type correctness.                                                        *)

LEMMA SwitchType ==
    ASSUME NEW f \in [Rooms -> Session], NEW r \in Rooms
    PROVE [f EXCEPT ![r].prov = "batch", ![r].conn = FALSE] \in [Rooms -> Session]
<1>1. [f[r] EXCEPT !.prov = "batch", !.conn = FALSE] \in Session
  BY DEF Session
<1>2. [f EXCEPT ![r].prov = "batch", ![r].conn = FALSE]
        = [f EXCEPT ![r] = [f[r] EXCEPT !.prov = "batch", !.conn = FALSE]]
  OBVIOUS
<1> QED BY <1>1, <1>2

LEMMA ForgetType ==
    ASSUME NEW f \in [Rooms -> Session], NEW r \in Rooms
    PROVE [f EXCEPT ![r].live = FALSE] \in [Rooms -> Session]
BY DEF Session

LEMMA LangType ==
    ASSUME NEW s \in Session, NEW l \in Langs PROVE [s EXCEPT !.lang = l] \in Session
BY DEF Session

LEMMA SwitchKeeps ==
    ASSUME NEW f \in [Rooms -> Session], NEW r \in Rooms, NEW q \in Rooms,
           NEW g, g = [f EXCEPT ![r].prov = "batch", ![r].conn = FALSE]
    PROVE  g[q].live = f[q].live /\ g[q].seg = f[q].seg
<1>1. CASE q = r
  <2>1. g[q] = [f[q] EXCEPT !.prov = "batch", !.conn = FALSE]
    BY <1>1
  <2> QED BY <2>1 DEF Session
<1>2. CASE q # r
  BY <1>2
<1> QED BY <1>1, <1>2

LEMMA ConnectKeeps ==
    ASSUME NEW f \in [Rooms -> Session], NEW r \in Rooms, NEW q \in Rooms,
           NEW g, g = [f EXCEPT ![r].conn = TRUE]
    PROVE  g[q].live = f[q].live /\ g[q].seg = f[q].seg
<1>1. CASE q = r
  <2>1. g[q] = [f[q] EXCEPT !.conn = TRUE]
    BY <1>1
  <2> QED BY <2>1 DEF Session
<1>2. CASE q # r
  BY <1>2
<1> QED BY <1>1, <1>2

LEMMA TextKeeps ==
    ASSUME NEW f \in [Rooms -> Session], NEW r \in Rooms, NEW q \in Rooms, NEW t,
           NEW g, g = [f EXCEPT ![r].text = t]
    PROVE  /\ g[q].live = f[q].live /\ g[q].seg = f[q].seg
           /\ g[q].prov = f[q].prov /\ g[q].conn = f[q].conn
<1>1. CASE q = r
  <2>1. g[q] = [f[q] EXCEPT !.text = t]
    BY <1>1
  <2> QED BY <2>1 DEF Session
<1>2. CASE q # r
  BY <1>2
<1> QED BY <1>1, <1>2

LEMMA PartialKeeps ==
    ASSUME TypeOK, NEW r \in Rooms, NEW q \in Rooms,
           sess' = sess \/ sess' = [sess EXCEPT ![cell.session].text = r]
    PROVE  /\ sess'[q].live = sess[q].live /\ sess'[q].seg = sess[q].seg
           /\ sess'[q].prov = sess[q].prov /\ sess'[q].conn = sess[q].conn
<1>1. CASE sess' = sess
  BY <1>1
<1>2. CASE sess' = [sess EXCEPT ![cell.session].text = r]
  <2>1. sess \in [Rooms -> Session] /\ cell.session \in Rooms
    BY DEF TypeOK
  <2> QED BY <1>2, <2>1, TextKeeps
<1> QED BY <1>1, <1>2

LEMMA ContinuedType ==
    ASSUME TypeOK, queue # <<>>
    PROVE  /\ Head(queue) \in Message /\ Head(queue).room \in Rooms
           /\ Continued(Head(queue)) \in Session
<1> DEFINE m == Head(queue)
<1>1. m \in Message
  BY DEF TypeOK
<1>2. m.room \in Rooms /\ m.lang \in Langs
  BY <1>1 DEF Message
<1>3. sess[m.room] \in Session
  BY <1>2 DEF TypeOK
<1> QED BY <1>1, <1>2, <1>3, LangType DEF Continued

LEMMA ConnectType ==
    ASSUME NEW f \in [Rooms -> Session], NEW r \in Rooms
    PROVE [f EXCEPT ![r].conn = TRUE] \in [Rooms -> Session]
BY DEF Session

LEMMA TextType ==
    ASSUME NEW f \in [Rooms -> Session], NEW r \in Rooms, NEW t \in Rooms
    PROVE [f EXCEPT ![r].text = t] \in [Rooms -> Session]
BY DEF Session

LEMMA SessionFields ==
    ASSUME TypeOK, NEW r \in Rooms
    PROVE sess[r].seg \in Nat /\ sess[r].speaker \in Speakers /\ sess[r].lang \in Langs
BY DEF TypeOK, Session

LEMMA TailType ==
    ASSUME TypeOK, NEW t, Holds(t) PROVE Tail(lock) \in Seq(Tasks)
<1>1. lock \in Seq(Tasks) /\ lock # <<>>
  BY DEF TypeOK, Holds
<1> QED BY <1>1

LEMMA ErrorTargetType ==
    ASSUME TypeOK PROVE ErrorTarget \in Rooms \cup {NoRoom}
BY DEF TypeOK, ErrorTarget, room

LEMMA CallCloseType ==
    ASSUME TypeOK, NEW t \in Tasks, NEW r \in Rooms \cup {NoRoom}, CallClose(t, r)
    PROVE lock' \in Seq(Tasks) /\ target' \in [Tasks -> Rooms \cup {NoRoom}]
BY DEF TypeOK, CallClose

LEMMA ChunkPcType ==
    ASSUME NEW s \in Session PROVE ChunkPc(s) \in {"batch", "send", "getconn"}
BY DEF ChunkPc, Session

LEMMA AsksType ==
    ASSUME NEW s \in Session, NEW l \in Seq(Tasks) PROVE Asks(l, s) \in Seq(Tasks)
BY DEF Asks, Tasks

LEMMA OpenSessionType ==
    ASSUME TypeOK, NEW conn \in BOOLEAN, NEW l \in Seq(Tasks), OpenSession(conn, l)
    PROVE  /\ sess' \in [Rooms -> Session]
           /\ cell' \in [room : Rooms, session : Rooms, speaker : Speakers, lang : Langs]
           /\ opened' \in [Rooms -> SUBSET Nat]
           /\ pc' \in RouterPc
           /\ lock' \in Seq(Tasks)
<1> DEFINE s == [live |-> TRUE, seg |-> seg, speaker |-> cell.speaker,
                 lang |-> cell.lang, prov |-> Provider(cell.lang), conn |-> conn,
                 text |-> NoRoom]
<1>1. s \in Session
  BY DEF TypeOK, Session, Provider
<1>2. sess' = [sess EXCEPT ![room] = s] /\ pc' = ChunkPc(s) /\ lock' = Asks(l, s)
  BY DEF OpenSession
<1>3. ChunkPc(s) \in RouterPc /\ Asks(l, s) \in Seq(Tasks)
  BY <1>1, ChunkPcType, AsksType DEF RouterPc
<1>4. cell' \in [room : Rooms, session : Rooms, speaker : Speakers, lang : Langs]
      /\ opened' \in [Rooms -> SUBSET Nat]
  BY DEF OpenSession, TypeOK, room
<1> HIDE DEF s
<1> QED BY <1>1, <1>2, <1>3, <1>4 DEF TypeOK

LEMMA SpeechStartedType ==
    ASSUME TypeOK, NEW r \in Rooms, NEW sp \in Speakers, SpeechStarted(r, sp)
    PROVE TypeOK'
<1>1. counter' \in [Rooms -> Nat]
  BY DEF SpeechStarted, TypeOK
<1>2. pending' \in [Rooms -> [Speakers -> Nat]]
  BY DEF SpeechStarted, TypeOK
<1>3. sent' \in Nat
  BY DEF SpeechStarted, TypeOK
<1> QED BY <1>1, <1>2, <1>3 DEF SpeechStarted, TypeOK, keys, inputs, locals, conns,
    closing, history

LEMMA PendingExpiresType ==
    ASSUME TypeOK, NEW r \in Rooms, NEW sp \in Speakers, PendingExpires(r, sp)
    PROVE TypeOK'
<1>1. pending' \in [Rooms -> [Speakers -> Nat]]
  BY DEF PendingExpires, TypeOK
<1> QED BY <1>1 DEF PendingExpires, TypeOK, keys, inputs, locals, conns, closing, history

LEMMA SendInputType ==
    ASSUME TypeOK, NEW r \in Rooms, NEW sp \in Speakers, SendInput(r, sp)
    PROVE TypeOK'
<1>1. queue' \in Seq(Message)
  BY SttAssumption DEF SendInput, TypeOK, Message
<1>2. sent' \in Nat
  BY DEF SendInput, TypeOK
<1> QED BY <1>1, <1>2 DEF SendInput, TypeOK, keys, inputs, locals, conns, closing, history

LEMMA TakePartialType ==
    ASSUME TypeOK, TakePartial PROVE TypeOK'
<1> DEFINE m == Head(queue)
<1>1. m \in Message /\ queue' \in Seq(Message)
BY DEF TakePartial, Read, TypeOK
<1>2. m.room \in Rooms /\ m.lang \in Langs
BY <1>1 DEF Message
<1>6. Continued(m) \in Session
<2>1. sess[m.room] \in Session
  BY <1>2 DEF TypeOK
<2> QED BY <1>2, <2>1, LangType DEF Continued
<1>3. ChunkPc(Continued(m)) \in RouterPc /\ Asks(lock, Continued(m)) \in Seq(Tasks)
BY <1>6, ChunkPcType, AsksType DEF TypeOK, RouterPc
<1>4. cell' \in [room : Rooms, session : Rooms, speaker : Speakers, lang : Langs]
BY <1>1 DEF TakePartial, TypeOK, Message, Rebind
<1>5. sess' \in [Rooms -> Session] /\ pc' \in RouterPc /\ lock' \in Seq(Tasks)
BY <1>2, <1>3, <1>6 DEF TakePartial, TypeOK
<1> QED BY <1>1, <1>4, <1>5 DEF TakePartial, TypeOK, keys, inputs, locals, conns,
    closing, history

LEMMA TakeFirstPartialType ==
    ASSUME TypeOK, TakeFirstPartial PROVE TypeOK'
<1>1. Head(queue) \in Message /\ queue' \in Seq(Message)
  BY DEF TakeFirstPartial, Read, TypeOK
<1>2. cell' \in [room : Rooms, session : Rooms, speaker : Speakers, lang : Langs]
  BY <1>1 DEF TakeFirstPartial, TypeOK, Message, Rebind
<1>3. pc' \in RouterPc
  BY <1>1 DEF TakeFirstPartial, TypeOK, RouterPc
<1> QED BY <1>1, <1>2, <1>3 DEF TakeFirstPartial, TypeOK, keys, inputs, locals, conns,
    closing, history

LEMMA TakeChunkType ==
    ASSUME TypeOK, TakeChunk PROVE TypeOK'
<1>1. Head(queue) \in Message /\ queue' \in Seq(Message)
  BY DEF TakeChunk, Read, TypeOK
<1>2. cell' \in [room : Rooms, session : Rooms, speaker : Speakers, lang : Langs]
  BY <1>1 DEF TakeChunk, TypeOK, Message, Rebind
<1>3. pc' \in RouterPc
  BY <1>1 DEF TakeChunk, TypeOK, RouterPc
<1>4. seg' \in Nat
  BY <1>1, SessionFields DEF TakeChunk, TypeOK, Message
<1> QED BY <1>1, <1>2, <1>3, <1>4 DEF TakeChunk, TypeOK, keys, inputs, locals, conns,
    closing, history

LEMMA TakeEndStreamType ==
    ASSUME TypeOK, TakeEndStream PROVE TypeOK'
<1>1. Head(queue) \in Message /\ queue' \in Seq(Message)
  BY DEF TakeEndStream, Read, TypeOK
<1>2. cell' \in [room : Rooms, session : Rooms, speaker : Speakers, lang : Langs]
  BY <1>1 DEF TakeEndStream, TypeOK, Message, Rebind
<1>3. timeBound' \in BOOLEAN
  BY <1>1 DEF TakeEndStream, TypeOK, Message
<1>4. pc' \in RouterPc
  BY <1>1 DEF TakeEndStream, TypeOK, RouterPc
<1>5. out' \in Event
  BY <1>1 DEF TakeEndStream, TypeOK, Message, EventOf, Event, Unsaid, Session
<1> QED BY <1>1, <1>2, <1>3, <1>4, <1>5 DEF TakeEndStream, TypeOK, keys, inputs, locals,
    conns, closing, history

LEMMA TakeEndBatchType ==
    ASSUME TypeOK, TakeEndBatch PROVE TypeOK'
<1>1. Head(queue) \in Message /\ queue' \in Seq(Message)
  BY DEF TakeEndBatch, Read, TypeOK
<1>2. cell' \in [room : Rooms, session : Rooms, speaker : Speakers, lang : Langs]
  BY <1>1 DEF TakeEndBatch, TypeOK, Message, Rebind
<1>3. timeBound' \in BOOLEAN
  BY <1>1 DEF TakeEndBatch, TypeOK, Message
<1>4. pc' \in RouterPc
  BY <1>1 DEF TakeEndBatch, TypeOK, RouterPc
<1>5. out' \in Event
  BY <1>1 DEF TakeEndBatch, TypeOK, Message, EventOf, Event, Unsaid, Session
<1> QED BY <1>1, <1>2, <1>3, <1>4, <1>5 DEF TakeEndBatch, TypeOK, keys, inputs, locals,
    conns, closing, history

LEMMA TakeEndNothingType ==
    ASSUME TypeOK, TakeEndNothing PROVE TypeOK'
<1>1. Head(queue) \in Message /\ queue' \in Seq(Message)
  BY DEF TakeEndNothing, Read, TypeOK
<1>2. cell' \in [room : Rooms, session : Rooms, speaker : Speakers, lang : Langs]
  BY <1>1 DEF TakeEndNothing, TypeOK, Message, Rebind
<1>3. timeBound' \in BOOLEAN
  BY <1>1 DEF TakeEndNothing, TypeOK, Message
<1> QED BY <1>1, <1>2, <1>3 DEF TakeEndNothing, TypeOK, keys, inputs, locals, conns,
    closing, history

LEMMA RecloseType ==
    ASSUME TypeOK, Reclose PROVE TypeOK'
<1>1. pc' \in RouterPc
  BY DEF Reclose, TypeOK, RouterPc
<1>2. pool' \in [Rooms -> {"none", "up", "mute", "dead", "closing", "draining"}]
  BY DEF Reclose, TypeOK, BeginClose
<1> QED BY <1>1, <1>2 DEF Reclose, TypeOK, keys, inputs, locals, conns, closing, history

LEMMA RecloseGoneType ==
    ASSUME TypeOK, RecloseGone PROVE TypeOK'
<1>0. OpenSession(FALSE, Tail(lock)) /\ FALSE \in BOOLEAN /\ Tail(lock) \in Seq(Tasks)
  BY TailType DEF RecloseGone, TypeOK
<1>1. target' \in [Tasks -> Rooms \cup {NoRoom}]
  BY DEF RecloseGone, TypeOK, room, Holds, Tasks
<1>2. /\ sess' \in [Rooms -> Session]
      /\ cell' \in [room : Rooms, session : Rooms, speaker : Speakers, lang : Langs]
      /\ opened' \in [Rooms -> SUBSET Nat]
      /\ pc' \in RouterPc
      /\ lock' \in Seq(Tasks)
  BY <1>0, OpenSessionType
<1> QED BY <1>1, <1>2 DEF RecloseGone, TypeOK, keys, inputs, locals, conns, closing, history

LEMMA GetConnectionType ==
    ASSUME TypeOK, GetConnection PROVE TypeOK'
<1>1. pc' \in RouterPc
  BY DEF GetConnection, TypeOK, RouterPc
<1> QED BY <1>1 DEF GetConnection, TypeOK, keys, inputs, locals, conns, closing, history

LEMMA SendAudioType ==
    ASSUME TypeOK, SendAudio PROVE TypeOK'
<1>1. pc' \in RouterPc
  BY DEF SendAudio, TypeOK, RouterPc
<1> QED BY <1>1 DEF SendAudio, TypeOK, keys, inputs, locals, conns, closing, history

LEMMA SendFailsType ==
    ASSUME TypeOK, SendFails PROVE TypeOK'
<1>1. pc' \in RouterPc
  BY DEF SendFails, TypeOK, RouterPc, RaisesError
<1>2. lock' \in Seq(Tasks)
  BY CallCloseType, ErrorTargetType DEF SendFails, TypeOK, RaisesError, Tasks
<1>3. target' \in [Tasks -> Rooms \cup {NoRoom}]
  BY CallCloseType, ErrorTargetType DEF SendFails, TypeOK, RaisesError, Tasks
<1>4. faults' \in Nat
  BY DEF SendFails, TypeOK, Fails
<1> QED BY <1>1, <1>2, <1>3, <1>4 DEF SendFails, TypeOK, keys, inputs, locals, conns,
    closing, history

LEMMA ReconnectType ==
    ASSUME TypeOK, Reconnect PROVE TypeOK'
<1>1. pc' \in RouterPc
  BY DEF Reconnect, TypeOK, RouterPc
<1> QED BY <1>1 DEF Reconnect, TypeOK, keys, inputs, locals, conns, closing, history

LEMMA FallbackCloseType ==
    ASSUME TypeOK, FallbackClose PROVE TypeOK'
<1>1. pc' \in RouterPc
  BY DEF FallbackClose, TypeOK, RouterPc
<1>2. pool' \in [Rooms -> {"none", "up", "mute", "dead", "closing", "draining"}]
  BY DEF FallbackClose, TypeOK, BeginClose
<1> QED BY <1>1, <1>2 DEF FallbackClose, TypeOK, keys, inputs, locals, conns, closing,
    history

LEMMA FallbackGoneType ==
    ASSUME TypeOK, FallbackGone PROVE TypeOK'
<1>1. pc' \in RouterPc
  BY DEF FallbackGone, TypeOK, RouterPc
<1>2. lock' \in Seq(Tasks)
  BY DEF FallbackGone, TypeOK, EndClose, Holds, Tasks
<1>3. target' \in [Tasks -> Rooms \cup {NoRoom}]
  BY DEF FallbackGone, TypeOK, EndClose, Holds, Tasks
<1>4. sess' \in [Rooms -> Session]
  BY SwitchType DEF FallbackGone, TypeOK, SwitchToBatch
<1> QED BY <1>1, <1>2, <1>3, <1>4 DEF FallbackGone, TypeOK, keys, inputs, locals, conns,
    closing, history

LEMMA GetPendingType ==
    ASSUME TypeOK, GetPending PROVE TypeOK'
<1>1. seg' \in Nat
  BY DEF GetPending, TypeOK, room
<1>2. pc' \in RouterPc
  BY DEF GetPending, TypeOK, RouterPc
<1> QED BY <1>1, <1>2 DEF GetPending, TypeOK, keys, inputs, locals, conns, closing, history

LEMMA ClaimPendingType ==
    ASSUME TypeOK, ClaimPending PROVE TypeOK'
<1>1. pending' \in [Rooms -> [Speakers -> Nat]]
  BY DEF ClaimPending, TypeOK, room, Claimed
<1>2. pc' \in RouterPc
  BY DEF ClaimPending, TypeOK, RouterPc
<1> QED BY <1>1, <1>2 DEF ClaimPending, TypeOK, keys, inputs, locals, conns, closing,
    history

LEMMA IncrSegmentType ==
    ASSUME TypeOK, IncrSegment PROVE TypeOK'
<1>1. counter' \in [Rooms -> Nat]
  BY DEF IncrSegment, TypeOK, room, NextSegment
<1>2. seg' \in Nat
  BY DEF IncrSegment, TypeOK, room, NextSegment
<1>3. pc' \in RouterPc
  BY DEF IncrSegment, TypeOK, RouterPc
<1> QED BY <1>1, <1>2, <1>3 DEF IncrSegment, TypeOK, keys, inputs, locals, conns,
    closing, history

LEMMA RouteType ==
    ASSUME TypeOK, Route PROVE TypeOK'
<1>0. OpenSession(Existing, lock) /\ Existing \in BOOLEAN /\ lock \in Seq(Tasks)
  BY DEF Route, TypeOK, Existing
<1>1. /\ sess' \in [Rooms -> Session]
      /\ cell' \in [room : Rooms, session : Rooms, speaker : Speakers, lang : Langs]
      /\ opened' \in [Rooms -> SUBSET Nat]
      /\ pc' \in RouterPc
      /\ lock' \in Seq(Tasks)
  BY <1>0, OpenSessionType
<1>6. acc' \in [Rooms -> BOOLEAN]
  BY DEF Route, TypeOK, room, Existing
<1> QED BY <1>1, <1>6 DEF Route, TypeOK, keys, inputs, locals, conns, closing, history

LEMMA RouteOtherLanguageType ==
    ASSUME TypeOK, RouteOtherLanguage PROVE TypeOK'
<1>1. pc' \in RouterPc
  BY DEF RouteOtherLanguage, TypeOK, RouterPc
<1>2. lock' \in Seq(Tasks)
  BY DEF RouteOtherLanguage, TypeOK, room, CallClose, Tasks
<1>3. target' \in [Tasks -> Rooms \cup {NoRoom}]
  BY DEF RouteOtherLanguage, TypeOK, room, CallClose, Tasks
<1> QED BY <1>1, <1>2, <1>3 DEF RouteOtherLanguage, TypeOK, keys, inputs, locals, conns,
    closing, history

LEMMA ReclosedType ==
    ASSUME TypeOK, Reclosed PROVE TypeOK'
<1>0. OpenSession(FALSE, Tail(lock)) /\ FALSE \in BOOLEAN /\ Tail(lock) \in Seq(Tasks)
  BY TailType DEF Reclosed, TypeOK
<1>1. target' \in [Tasks -> Rooms \cup {NoRoom}]
  BY DEF Reclosed, TypeOK, room, EndClose, Holds, Tasks
<1>2. pool' \in [Rooms -> {"none", "up", "mute", "dead", "closing", "draining"}]
  BY DEF Reclosed, TypeOK, room
<1>3. /\ sess' \in [Rooms -> Session]
      /\ cell' \in [room : Rooms, session : Rooms, speaker : Speakers, lang : Langs]
      /\ opened' \in [Rooms -> SUBSET Nat]
      /\ pc' \in RouterPc
      /\ lock' \in Seq(Tasks)
  BY <1>0, OpenSessionType
<1> QED BY <1>1, <1>2, <1>3 DEF Reclosed, TypeOK, keys, inputs, locals, conns, closing,
    history

LEMMA ConnectedType ==
    ASSUME TypeOK, Connected PROVE TypeOK'
<1>1. pool' \in [Rooms -> {"none", "up", "mute", "dead", "closing", "draining"}]
  BY DEF Connected, TypeOK, room
<1>2. poolLang' \in [Rooms -> Langs]
  BY DEF Connected, TypeOK, room
<1>3. acc' \in [Rooms -> BOOLEAN]
  BY DEF Connected, TypeOK, room
<1>4. sess' \in [Rooms -> Session]
  BY ConnectType DEF Connected, TypeOK, room
<1>5. lock' \in Seq(Tasks)
  BY DEF Connected, TypeOK, room, Holds, Tasks
<1>6. pc' \in RouterPc
  BY DEF Connected, TypeOK, RouterPc
<1> QED BY <1>1, <1>2, <1>3, <1>4, <1>5, <1>6 DEF Connected, TypeOK, keys, inputs,
    locals, conns, closing, history

LEMMA ConnectFailsType ==
    ASSUME TypeOK, ConnectFails PROVE TypeOK'
<1>1. pc' \in RouterPc
  BY DEF ConnectFails, TypeOK, RouterPc
<1>2. lock' \in Seq(Tasks)
  BY TailType DEF ConnectFails, TypeOK, Holds, Tasks
<1>3. faults' \in Nat
  BY DEF ConnectFails, TypeOK, Fails
<1> QED BY <1>1, <1>2, <1>3 DEF ConnectFails, TypeOK, keys, inputs, locals, conns,
    closing, history

LEMMA ReconnectedType ==
    ASSUME TypeOK, Reconnected PROVE TypeOK'
<1>1. pc' \in RouterPc
BY DEF Reconnected, RouterPc
<1>2. CASE pool[room] = "dead"
BY <1>1, <1>2 DEF Reconnected, TypeOK, room, keys, inputs, locals, conns, closing, history
<1>3. CASE pool[room] # "dead"
BY <1>1, <1>3 DEF Reconnected, TypeOK, room, keys, inputs, locals, conns, closing, history
<1> QED BY <1>2, <1>3

LEMMA ReconnectFailsType ==
    ASSUME TypeOK, ReconnectFails PROVE TypeOK'
<1>1. pc' \in RouterPc
  BY DEF ReconnectFails, TypeOK, RouterPc, RaisesError
<1>2. lock' \in Seq(Tasks)
  BY CallCloseType, ErrorTargetType DEF ReconnectFails, TypeOK, RaisesError, Tasks
<1>3. target' \in [Tasks -> Rooms \cup {NoRoom}]
  BY CallCloseType, ErrorTargetType DEF ReconnectFails, TypeOK, RaisesError, Tasks
<1>4. faults' \in Nat
  BY DEF ReconnectFails, TypeOK, Fails
<1> QED BY <1>1, <1>2, <1>3, <1>4 DEF ReconnectFails, TypeOK, keys, inputs, locals,
    conns, closing, history

LEMMA FellBackType ==
    ASSUME TypeOK, FellBack PROVE TypeOK'
<1>1. pc' \in RouterPc
  BY DEF FellBack, TypeOK, RouterPc
<1>2. pool' \in [Rooms -> {"none", "up", "mute", "dead", "closing", "draining"}]
  BY DEF FellBack, TypeOK, room
<1>3. lock' \in Seq(Tasks)
  BY DEF FellBack, TypeOK, room, EndClose, Holds, Tasks
<1>4. target' \in [Tasks -> Rooms \cup {NoRoom}]
  BY DEF FellBack, TypeOK, room, EndClose, Holds, Tasks
<1>5. sess' \in [Rooms -> Session]
  BY SwitchType DEF FellBack, TypeOK, room, SwitchToBatch
<1> QED BY <1>1, <1>2, <1>3, <1>4, <1>5 DEF FellBack, TypeOK, keys, inputs, locals,
    conns, closing, history

LEMMA BatchPartialType ==
    ASSUME TypeOK, BatchPartial PROVE TypeOK'
<1>1. sess' \in [Rooms -> Session]
  BY TextType DEF BatchPartial, TypeOK, room
<1>2. out' \in Event
  BY DEF BatchPartial, TypeOK, EventOf, Event, Unsaid, Session, room
<1>3. pc' \in RouterPc
  BY DEF BatchPartial, TypeOK, RouterPc
<1> QED BY <1>1, <1>2, <1>3 DEF BatchPartial, TypeOK, keys, inputs, locals, conns,
    closing, history

LEMMA BatchSkippedType ==
    ASSUME TypeOK, BatchSkipped PROVE TypeOK'
<1>1. pc' \in RouterPc
  BY DEF BatchSkipped, TypeOK, RouterPc
<1> QED BY <1>1 DEF BatchSkipped, TypeOK, keys, inputs, locals, conns, closing, history

LEMMA IncrFinalType ==
    ASSUME TypeOK, IncrFinal PROVE TypeOK'
<1>1. counter' \in [Rooms -> Nat]
  BY DEF IncrFinal, TypeOK, room, NextSegment
<1>2. seg' \in Nat
  BY DEF IncrFinal, TypeOK, room, NextSegment
<1>3. pc' \in RouterPc
  BY DEF IncrFinal, TypeOK, RouterPc
<1> QED BY <1>1, <1>2, <1>3 DEF IncrFinal, TypeOK, keys, inputs, locals, conns, closing,
    history

LEMMA FinalType ==
    ASSUME TypeOK, Final PROVE TypeOK'
<1>1. out' \in Event
  BY DEF Final, TypeOK, EventOf, Event, Unsaid, Session, FinalSpeaker, room
<1>2. pc' \in RouterPc
  BY DEF Final, TypeOK, RouterPc
<1> QED BY <1>1, <1>2 DEF Final, TypeOK, keys, inputs, locals, conns, closing, history

LEMMA FinalFailsType ==
    ASSUME TypeOK, FinalFails PROVE TypeOK'
<1>1. pc' \in RouterPc
  BY DEF FinalFails, TypeOK, RouterPc
<1> QED BY <1>1 DEF FinalFails, TypeOK, keys, inputs, locals, conns, closing, history

LEMMA FinalDoneType ==
    ASSUME TypeOK, FinalDone PROVE TypeOK'
<1>1. sess' \in [Rooms -> Session]
  BY ForgetType DEF FinalDone, TypeOK, room, Forget
<1>2. pc' \in RouterPc
  BY DEF FinalDone, TypeOK, RouterPc
<1> QED BY <1>1, <1>2 DEF FinalDone, TypeOK, keys, inputs, locals, conns, closing, history

LEMMA FinalizeType ==
    ASSUME TypeOK, Finalize PROVE TypeOK'
<1>1. out' \in Event
  BY DEF Finalize, TypeOK, EventOf, Event, Unsaid, Session, room
<1>2. finalized' \in [Rooms -> SUBSET Nat]
  BY SessionFields DEF Finalize, TypeOK, room
<1>3. pc' \in RouterPc
  BY DEF Finalize, TypeOK, RouterPc
<1> QED BY <1>1, <1>2, <1>3 DEF Finalize, TypeOK, keys, inputs, locals, conns, closing,
    history

LEMMA EndClearType ==
    ASSUME TypeOK, EndClear PROVE TypeOK'
<1>1. acc' \in [Rooms -> BOOLEAN]
  BY DEF EndClear, TypeOK, room
<1>2. sess' \in [Rooms -> Session]
  BY ForgetType DEF EndClear, TypeOK, room, Forget
<1>3. pc' \in RouterPc
  BY DEF EndClear, TypeOK, RouterPc
<1> QED BY <1>1, <1>2, <1>3 DEF EndClear, TypeOK, keys, inputs, locals, conns, closing,
    history

LEMMA RefineType ==
    ASSUME TypeOK, Refine PROVE TypeOK'
<1>1. cell' \in [room : Rooms, session : Rooms, speaker : Speakers, lang : Langs]
  BY SessionFields DEF Refine, TypeOK, room
<1>2. detected' \in Langs \cup {"unset"}
  BY SessionFields DEF Refine, TypeOK, room
<1>3. out' \in Event
  BY DEF Refine, TypeOK, EventOf, Event, Unsaid, Session, room
<1>4. pc' \in RouterPc
  BY DEF Refine, TypeOK, RouterPc
<1> QED BY <1>1, <1>2, <1>3, <1>4 DEF Refine, TypeOK, keys, inputs, locals, conns,
    closing, history

LEMMA EndBatchType ==
    ASSUME TypeOK, EndBatch PROVE TypeOK'
<1>1. cell' \in [room : Rooms, session : Rooms, speaker : Speakers, lang : Langs]
  BY SessionFields DEF EndBatch, TypeOK, room
<1>2. sess' \in [Rooms -> Session]
  BY ForgetType DEF EndBatch, TypeOK, room, Forget
<1>3. pc' \in RouterPc
  BY DEF EndBatch, TypeOK, RouterPc
<1> QED BY <1>1, <1>2, <1>3 DEF EndBatch, TypeOK, keys, inputs, locals, conns, closing,
    history

LEMMA PartialType ==
    ASSUME TypeOK, NEW r \in Rooms, Partial(r)
    PROVE TypeOK'
<1>1. cell.session \in Rooms /\ room \in Rooms /\ cell.speaker \in Speakers /\ cell.lang \in Langs
BY DEF TypeOK, room
<1>2. acc' \in [Rooms -> BOOLEAN]
BY DEF Partial, TypeOK
<1>3. CASE UNCHANGED <<sess, out>>
  BY <1>2, <1>3 DEF Partial, TypeOK, keys, inputs, locals, conns, closing, history
<1>4. CASE ~ UNCHANGED <<sess, out>>
  <2>0. /\ sess' = [sess EXCEPT ![cell.session].text = r]
        /\ out' = EventOf("partial", room, sess[cell.session].seg, cell.speaker,
                          cell.lang, r)
    BY <1>4 DEF Partial
  <2>1. sess' \in [Rooms -> Session]
    BY <1>1, <2>0, TextType DEF TypeOK
  <2>2. out' \in Event
    BY <1>1, <2>0, SessionFields DEF EventOf, Event, Unsaid
  <2> QED BY <1>2, <2>1, <2>2 DEF Partial, TypeOK, keys, inputs, locals, conns,
      closing, history
<1> QED BY <1>3, <1>4

LEMMA FinalTranscriptType ==
    ASSUME TypeOK, NEW r \in Rooms, FinalTranscript(r)
    PROVE TypeOK'
<1>1. acc' \in [Rooms -> BOOLEAN]
  BY DEF FinalTranscript, TypeOK
<1>2. sess' \in [Rooms -> Session]
  BY TextType DEF FinalTranscript, TypeOK
<1> QED BY <1>1, <1>2 DEF FinalTranscript, TypeOK, keys, inputs, locals, conns, closing,
    history

LEMMA DropType ==
    ASSUME TypeOK, NEW r \in Rooms, Drop(r)
    PROVE TypeOK'
<1>1. pool' \in [Rooms -> {"none", "up", "mute", "dead", "closing", "draining"}]
  BY DEF Drop, TypeOK
<1>2. faults' \in Nat
  BY DEF Drop, TypeOK, Fails
<1> QED BY <1>1, <1>2 DEF Drop, TypeOK, keys, inputs, locals, conns, closing, history

LEMMA ListenerErrorType ==
    ASSUME TypeOK, NEW r \in Rooms, ListenerError(r)
    PROVE TypeOK'
<1>1. pool' \in [Rooms -> {"none", "up", "mute", "dead", "closing", "draining"}]
  BY DEF ListenerError, TypeOK, room
<1>2. epc' \in [Rooms -> {"quiet", "wait", "closing"}]
  BY DEF ListenerError, TypeOK
<1>3. lock' \in Seq(Tasks)
  BY DEF ListenerError, TypeOK, room, CallClose, ErrorTarget, Tasks
<1>4. target' \in [Tasks -> Rooms \cup {NoRoom}]
  BY DEF ListenerError, TypeOK, room, CallClose, ErrorTarget, Tasks
<1>5. faults' \in Nat
  BY DEF ListenerError, TypeOK, Fails
<1> QED BY <1>1, <1>2, <1>3, <1>4, <1>5 DEF ListenerError, TypeOK, keys, inputs, locals,
    conns, closing, history

LEMMA ErrorCloseType ==
    ASSUME TypeOK, NEW r \in Rooms, ErrorClose(r)
    PROVE TypeOK'
<1>1. pool' \in [Rooms -> {"none", "up", "mute", "dead", "closing", "draining"}]
  BY DEF ErrorClose, TypeOK, BeginClose
<1>2. epc' \in [Rooms -> {"quiet", "wait", "closing"}]
  BY DEF ErrorClose, TypeOK
<1> QED BY <1>1, <1>2 DEF ErrorClose, TypeOK, keys, inputs, locals, conns, closing, history

LEMMA ErrorGoneType ==
    ASSUME TypeOK, NEW r \in Rooms, ErrorGone(r)
    PROVE TypeOK'
<1>1. epc' \in [Rooms -> {"quiet", "wait", "closing"}]
  BY DEF ErrorGone, TypeOK
<1>2. lock' \in Seq(Tasks)
  BY DEF ErrorGone, TypeOK, EndClose, Holds, Tasks
<1>3. target' \in [Tasks -> Rooms \cup {NoRoom}]
  BY DEF ErrorGone, TypeOK, EndClose, Holds, Tasks
<1>4. pool' \in [Rooms -> {"none", "up", "mute", "dead", "closing", "draining"}]
  BY DEF ErrorGone, TypeOK, Resumed
<1>5. sess' \in [Rooms -> Session]
  BY SwitchType DEF ErrorGone, TypeOK, SwitchToBatch
<1> QED BY <1>1, <1>2, <1>3, <1>4, <1>5 DEF ErrorGone, TypeOK, keys, inputs, locals,
    conns, closing, history

LEMMA ErrorClosedType ==
    ASSUME TypeOK, NEW r \in Rooms, ErrorClosed(r)
    PROVE TypeOK'
<1>1. epc' \in [Rooms -> {"quiet", "wait", "closing"}]
  BY DEF ErrorClosed, TypeOK
<1>2. lock' \in Seq(Tasks)
  BY DEF ErrorClosed, TypeOK, EndClose, Holds, Tasks
<1>3. target' \in [Tasks -> Rooms \cup {NoRoom}]
  BY DEF ErrorClosed, TypeOK, EndClose, Holds, Tasks
<1>4. pool' \in [Rooms -> {"none", "up", "mute", "dead", "closing", "draining"}]
  BY DEF ErrorClosed, TypeOK, Resumed
<1>5. sess' \in [Rooms -> Session]
  BY SwitchType DEF ErrorClosed, TypeOK, SwitchToBatch
<1> QED BY <1>1, <1>2, <1>3, <1>4, <1>5 DEF ErrorClosed, TypeOK, keys, inputs, locals,
    conns, closing, history

\* The initial values are of their types.
LEMMA InitType == ASSUME Init PROVE TypeOK
<1>1. AnyRoom \in Rooms /\ AnySpeaker \in Speakers /\ AnyLang \in Langs
  BY SttAssumption DEF AnyRoom, AnySpeaker, AnyLang
<1>2. NoSession \in Session
  BY <1>1 DEF NoSession, Session
<1>3. queue \in Seq(Message) /\ lock \in Seq(Tasks)
  BY DEF Init
<1>4. out \in Event
  BY <1>1 DEF Init, Event
<1> QED BY <1>1, <1>2, <1>3, <1>4 DEF Init, TypeOK, RouterPc

LEMMA NextType == ASSUME TypeOK, [Next]_vars PROVE TypeOK'
<1>1. ASSUME NEW r \in Rooms, NEW sp \in Speakers,
             SpeechStarted(r, sp) \/ PendingExpires(r, sp) \/ SendInput(r, sp)
      PROVE  TypeOK'
  BY <1>1, SpeechStartedType, PendingExpiresType, SendInputType
<1>2. ASSUME RouterStep PROVE TypeOK'
  <2>1. CASE TakePartial
    BY <2>1, TakePartialType
  <2>2. CASE TakeFirstPartial
    BY <2>2, TakeFirstPartialType
  <2>3. CASE TakeChunk
    BY <2>3, TakeChunkType
  <2>4. CASE TakeEndStream
    BY <2>4, TakeEndStreamType
  <2>5. CASE TakeEndBatch
    BY <2>5, TakeEndBatchType
  <2>6. CASE TakeEndNothing
    BY <2>6, TakeEndNothingType
  <2>7. CASE Reclose
    BY <2>7, RecloseType
  <2>8. CASE RecloseGone
    BY <2>8, RecloseGoneType
  <2>9. CASE GetConnection
    BY <2>9, GetConnectionType
  <2>10. CASE SendAudio
    BY <2>10, SendAudioType
  <2>11. CASE SendFails
    BY <2>11, SendFailsType
  <2>12. CASE Reconnect
    BY <2>12, ReconnectType
  <2>13. CASE FallbackClose
    BY <2>13, FallbackCloseType
  <2>14. CASE FallbackGone
    BY <2>14, FallbackGoneType
  <2>15. CASE GetPending
    BY <2>15, GetPendingType
  <2>16. CASE ClaimPending
    BY <2>16, ClaimPendingType
  <2>17. CASE IncrSegment
    BY <2>17, IncrSegmentType
  <2>18. CASE Route
    BY <2>18, RouteType
  <2>19. CASE RouteOtherLanguage
    BY <2>19, RouteOtherLanguageType
  <2>20. CASE Reclosed
    BY <2>20, ReclosedType
  <2>21. CASE Connected
    BY <2>21, ConnectedType
  <2>22. CASE ConnectFails
    BY <2>22, ConnectFailsType
  <2>23. CASE Reconnected
    BY <2>23, ReconnectedType
  <2>24. CASE ReconnectFails
    BY <2>24, ReconnectFailsType
  <2>25. CASE FellBack
    BY <2>25, FellBackType
  <2>26. CASE BatchPartial
    BY <2>26, BatchPartialType
  <2>27. CASE BatchSkipped
    BY <2>27, BatchSkippedType
  <2>28. CASE IncrFinal
    BY <2>28, IncrFinalType
  <2>29. CASE Final
    BY <2>29, FinalType
  <2>30. CASE FinalFails
    BY <2>30, FinalFailsType
  <2>31. CASE FinalDone
    BY <2>31, FinalDoneType
  <2>32. CASE Finalize
    BY <2>32, FinalizeType
  <2>33. CASE EndClear
    BY <2>33, EndClearType
  <2>34. CASE Refine
    BY <2>34, RefineType
  <2>35. CASE EndBatch
    BY <2>35, EndBatchType
  <2> QED BY <1>2, <2>1, <2>2, <2>3, <2>4, <2>5, <2>6, <2>7, <2>8, <2>9, <2>10, <2>11,
      <2>12, <2>13, <2>14, <2>15, <2>16, <2>17, <2>18, <2>19, <2>20, <2>21, <2>22, <2>23,
      <2>24, <2>25, <2>26, <2>27, <2>28, <2>29, <2>30, <2>31, <2>32, <2>33, <2>34,
      <2>35 DEF RouterStep, RouterGoesOn, RouterResumes
<1>3. ASSUME NEW r \in Rooms,
             Partial(r) \/ FinalTranscript(r) \/ Drop(r) \/ ListenerError(r)
               \/ ErrorClose(r) \/ ErrorGone(r) \/ ErrorClosed(r)
      PROVE  TypeOK'
  BY <1>3, PartialType, FinalTranscriptType, DropType, ListenerErrorType,
      ErrorCloseType, ErrorGoneType, ErrorClosedType
<1>4. CASE UNCHANGED vars
  BY <1>4 DEF TypeOK, vars, keys, inputs, locals, conns, closing, history
<1> QED BY <1>1, <1>2, <1>3, <1>4 DEF Next, Clients, ListenerStep, ErrorStep

\* The state of the router stays of its types: no step confuses a room, a
\* provider and a language, and no message leaves a session half built.
THEOREM TypeCorrect == Spec => []TypeOK
<1>1. Init => TypeOK
  BY InitType
<1>2. TypeOK /\ [Next]_vars => TypeOK'
  BY NextType
<1> QED BY <1>1, <1>2, PTL DEF Spec

-----------------------------------------------------------------------------
(* The ids.                                                                 *)

LEMMA OpenSessionFacts ==
    ASSUME TypeOK, NEW conn \in BOOLEAN, NEW l \in Seq(Tasks), OpenSession(conn, l)
    PROVE  /\ sess'[room].live /\ sess'[room].seg = seg
           /\ \A r \in Rooms \ {room} : sess'[r] = sess[r]
           /\ cell'.room = room /\ cell'.session = room
           /\ opened' = [opened EXCEPT ![room] = @ \cup {seg}]
           /\ pc' \in {"batch", "send", "getconn"}
<1> DEFINE s == [live |-> TRUE, seg |-> seg, speaker |-> cell.speaker,
                 lang |-> cell.lang, prov |-> Provider(cell.lang), conn |-> conn,
                 text |-> NoRoom]
<1>1. s \in Session
  BY DEF TypeOK, Session, Provider
<1>2. sess' = [sess EXCEPT ![room] = s] /\ pc' = ChunkPc(s)
  BY DEF OpenSession
<1>3. pc' \in {"batch", "send", "getconn"}
  BY <1>1, <1>2, ChunkPcType
<1>4. s.live /\ s.seg = seg
  OBVIOUS
<1>5. room \in Rooms
  BY DEF TypeOK, room
<1> HIDE DEF s
<1>6. sess'[room] = s /\ \A r \in Rooms \ {room} : sess'[r] = sess[r]
  BY <1>2, <1>5 DEF TypeOK
<1>7. cell'.room = room /\ cell'.session = room
  BY DEF OpenSession, TypeOK, room
<1> QED BY <1>3, <1>4, <1>6, <1>7 DEF OpenSession

\* A step that gives out no id.
NoNewId ==
    /\ UNCHANGED <<counter, pending, opened>>
    /\ \/ pc' \notin Claiming
       \/ pc' \in Claiming /\ pc \in Claiming \ {"claim"} /\ UNCHANGED <<seg, cell>>
       \/ pc' = pc /\ UNCHANGED <<seg, cell>>

LEMMA NoNewIdKeeps == ASSUME Ids, NoNewId PROVE Ids'
<1>1. IdsBelowCounter' /\ PendingFresh'
  BY DEF Ids, NoNewId, IdsBelowCounter, PendingFresh
<1>2. ClaimFresh'
  BY DEF Ids, NoNewId, ClaimFresh, room, Claiming
<1> QED BY <1>1, <1>2 DEF Ids

\* The session takes the claimed id, which no pending key holds any more.
LEMMA OpenSessionIds ==
    ASSUME TypeOK, Ids, NEW conn \in BOOLEAN, NEW l \in Seq(Tasks), OpenSession(conn, l),
           pc \in Claiming \ {"claim"}, UNCHANGED <<counter, pending>>
    PROVE  Ids'
<1>1. /\ opened' = [opened EXCEPT ![room] = @ \cup {seg}]
      /\ pc' \notin Claiming
  BY OpenSessionFacts DEF Claiming
<1>2. /\ seg <= counter[room]
      /\ \A sp \in Speakers : pending[room][sp] # seg
  BY DEF Ids, ClaimFresh, Claiming
<1>3. IdsBelowCounter'
  BY <1>1, <1>2 DEF Ids, IdsBelowCounter, TypeOK, room
<1>4. PendingFresh'
  BY <1>1, <1>2 DEF Ids, PendingFresh, TypeOK, room
<1>5. ClaimFresh'
  BY <1>1 DEF ClaimFresh
<1> QED BY <1>3, <1>4, <1>5 DEF Ids

LEMMA SpeechStartedIds ==
    ASSUME TypeOK, Ids, NEW r \in Rooms, NEW sp \in Speakers, SpeechStarted(r, sp)
    PROVE  Ids'
<1>1. counter[r] \in Nat /\ counter' = [counter EXCEPT ![r] = @ + 1]
      /\ pending' = [pending EXCEPT ![r][sp] = counter[r] + 1]
      /\ UNCHANGED <<pc, cell, seg, opened>>
  BY DEF SpeechStarted, TypeOK, history
<1>2. IdsBelowCounter'
  BY <1>1 DEF Ids, IdsBelowCounter, TypeOK
<1>3. ASSUME NEW q \in Rooms, NEW sp1 \in Speakers, pending'[q][sp1] # 0
      PROVE  /\ pending'[q][sp1] <= counter'[q]
             /\ pending'[q][sp1] \notin opened'[q]
             /\ \A sp2 \in Speakers \ {sp1} : pending'[q][sp2] # pending'[q][sp1]
  <2>1. CASE q # r
    BY <1>1, <1>3, <2>1 DEF Ids, PendingFresh, TypeOK
  <2>2. CASE q = r /\ sp1 = sp
    BY <1>1, <1>3, <2>2 DEF Ids, PendingFresh, IdsBelowCounter, TypeOK
  <2>3. CASE q = r /\ sp1 # sp
    BY <1>1, <1>3, <2>3 DEF Ids, PendingFresh, TypeOK
  <2> QED BY <2>1, <2>2, <2>3
<1>4. ClaimFresh'
  BY <1>1 DEF Ids, ClaimFresh, TypeOK, room
<1> QED BY <1>2, <1>3, <1>4 DEF Ids, PendingFresh

LEMMA PendingExpiresIds ==
    ASSUME TypeOK, Ids, NEW r \in Rooms, NEW sp \in Speakers, PendingExpires(r, sp)
    PROVE  Ids'
<1>1. pending' = [pending EXCEPT ![r][sp] = 0] /\ UNCHANGED <<counter, pc, cell, seg, opened>>
  BY DEF PendingExpires, history
<1>2. IdsBelowCounter' /\ PendingFresh'
  BY <1>1 DEF Ids, IdsBelowCounter, PendingFresh, TypeOK
<1>3. ClaimFresh'
  BY <1>1 DEF Ids, ClaimFresh, TypeOK, room
<1> QED BY <1>2, <1>3 DEF Ids

LEMMA GetPendingIds == ASSUME TypeOK, Ids, GetPending PROVE Ids'
<1>1. seg' = pending[room][cell.speaker] /\ UNCHANGED <<counter, pending, cell, opened>>
      /\ pc' = IF seg' # 0 THEN "claim" ELSE "incr"
  BY DEF GetPending, keys, history
<1>2. IdsBelowCounter' /\ PendingFresh'
  BY <1>1 DEF Ids, IdsBelowCounter, PendingFresh
<1>3. room \in Rooms /\ cell.speaker \in Speakers /\ room' = room
  BY <1>1 DEF TypeOK, room
<1>4. ClaimFresh'
  BY <1>1, <1>3 DEF Ids, ClaimFresh, PendingFresh, Claiming
<1> QED BY <1>2, <1>4 DEF Ids

LEMMA ClaimPendingIds == ASSUME TypeOK, Ids, ClaimPending PROVE Ids'
<1>1. pending' = [pending EXCEPT ![room][cell.speaker] = 0] /\ UNCHANGED <<counter, cell, seg, opened>>
      /\ pc = "claim" /\ pc' = "route"
  BY DEF ClaimPending, Claimed, history
<1>2. IdsBelowCounter' /\ PendingFresh'
  BY <1>1 DEF Ids, IdsBelowCounter, PendingFresh, TypeOK
<1>3. ClaimFresh'
  BY <1>1 DEF Ids, ClaimFresh, TypeOK, room, Claiming
<1> QED BY <1>2, <1>3 DEF Ids

LEMMA NextSegmentIds ==
    ASSUME TypeOK, Ids, NextSegment, UNCHANGED <<pending, cell, opened>>
    PROVE  Ids' /\ seg' \notin opened'[room]
<1>1. room \in Rooms /\ counter[room] \in Nat /\ room' = room
  BY DEF TypeOK, room
<1>2. counter' = [counter EXCEPT ![room] = @ + 1] /\ seg' = counter[room] + 1
  BY DEF NextSegment
<1>3. IdsBelowCounter' /\ PendingFresh'
  <2>1. /\ counter \in [Rooms -> Nat] /\ opened \in [Rooms -> SUBSET Nat]
        /\ pending \in [Rooms -> [Speakers -> Nat]]
    BY DEF TypeOK
  <2>2. \A r \in Rooms : counter[r] \in Nat /\ counter'[r] \in Nat /\ counter[r] <= counter'[r]
    <3> HIDE DEF room
    <3> QED BY <1>1, <1>2, <2>1
  <2>3. \A r \in Rooms, k \in Nat : k <= counter[r] => k <= counter'[r]
    BY <2>2
  <2>4. IdsBelowCounter'
    BY <2>1, <2>3 DEF Ids, IdsBelowCounter
  <2>5. PendingFresh'
    BY <2>1, <2>3 DEF Ids, PendingFresh
  <2> QED BY <2>4, <2>5
<1>4. seg' # 0 /\ seg' <= counter'[room] /\ seg' \notin opened[room]
  BY <1>1, <1>2 DEF Ids, IdsBelowCounter, TypeOK
<1>5. ASSUME NEW sp \in Speakers PROVE pending[room][sp] # seg'
  <2>1. pending[room][sp] = 0 \/ pending[room][sp] <= counter[room]
    BY <1>1 DEF Ids, PendingFresh
  <2>2. pending[room][sp] \in Nat
    BY <1>1 DEF TypeOK
  <2> QED BY <1>1, <1>2, <2>1, <2>2
<1>6. ClaimFresh'
  BY <1>1, <1>4, <1>5 DEF ClaimFresh
<1> QED BY <1>1, <1>3, <1>4, <1>6 DEF Ids

LEMMA IncrSegmentIds == ASSUME TypeOK, Ids, IncrSegment PROVE Ids'
BY NextSegmentIds DEF IncrSegment, history

LEMMA IncrFinalIds == ASSUME TypeOK, Ids, IncrFinal PROVE Ids'
BY NextSegmentIds DEF IncrFinal, history

LEMMA RouteIds == ASSUME TypeOK, Ids, Route PROVE Ids'
<1>1. OpenSession(Existing, lock) /\ Existing \in BOOLEAN /\ lock \in Seq(Tasks)
  BY DEF Route, TypeOK, Existing
<1>2. pc \in Claiming \ {"claim"} /\ UNCHANGED <<counter, pending>>
  BY DEF Route, Claiming, keys
<1> QED BY <1>1, <1>2, OpenSessionIds

LEMMA RecloseGoneIds == ASSUME TypeOK, Ids, RecloseGone PROVE Ids'
<1>1. OpenSession(FALSE, Tail(lock)) /\ Tail(lock) \in Seq(Tasks)
  BY TailType DEF RecloseGone
<1>2. pc \in Claiming \ {"claim"} /\ UNCHANGED <<counter, pending>>
  BY DEF RecloseGone, Claiming, keys
<1> QED BY <1>1, <1>2, OpenSessionIds

LEMMA ReclosedIds == ASSUME TypeOK, Ids, Reclosed PROVE Ids'
<1>1. OpenSession(FALSE, Tail(lock)) /\ Tail(lock) \in Seq(Tasks)
  BY TailType DEF Reclosed
<1>2. pc \in Claiming \ {"claim"} /\ UNCHANGED <<counter, pending>>
  BY DEF Reclosed, Claiming, keys
<1> QED BY <1>1, <1>2, OpenSessionIds

LEMMA NextIds == ASSUME TypeOK, Ids, [Next]_vars PROVE Ids'
<1>1. ASSUME NEW r \in Rooms, NEW sp \in Speakers,
             SpeechStarted(r, sp) \/ PendingExpires(r, sp) \/ SendInput(r, sp)
      PROVE  Ids'
  <2>1. CASE SendInput(r, sp)
    BY <2>1, NoNewIdKeeps DEF SendInput, NoNewId, keys, history
  <2> QED BY <1>1, <2>1, SpeechStartedIds, PendingExpiresIds
<1>2. ASSUME RouterStep PROVE Ids'
  <2>1. CASE TakePartial
    <3>1. Continued(Head(queue)) \in Session
      BY <2>1, ContinuedType DEF TakePartial, Read
    <3> QED BY <2>1, <3>1, ChunkPcType, NoNewIdKeeps DEF TakePartial, NoNewId, Claiming,
        keys, history
  <2>2. CASE TakeFirstPartial
    BY <2>2, NoNewIdKeeps DEF TakeFirstPartial, NoNewId, Claiming, Read, Rebind, keys,
        inputs, locals, conns, closing, history
  <2>3. CASE TakeChunk
    BY <2>3, NoNewIdKeeps DEF TakeChunk, NoNewId, Claiming, Read, Rebind, keys, inputs,
        locals, conns, closing, history
  <2>4. CASE TakeEndStream
    BY <2>4, NoNewIdKeeps DEF TakeEndStream, NoNewId, Claiming, Read, Rebind, keys,
        inputs, locals, conns, closing, history
  <2>5. CASE TakeEndBatch
    BY <2>5, NoNewIdKeeps DEF TakeEndBatch, NoNewId, Claiming, Read, Rebind, keys,
        inputs, locals, conns, closing, history
  <2>6. CASE TakeEndNothing
    BY <2>6, NoNewIdKeeps DEF TakeEndNothing, NoNewId, Claiming, Read, Rebind, keys,
        inputs, locals, conns, closing, history
  <2>7. CASE Reclose
    BY <2>7, NoNewIdKeeps DEF Reclose, NoNewId, Claiming, keys, inputs, locals, conns,
        closing, history
  <2>8. CASE RecloseGone
    BY <2>8, RecloseGoneIds
  <2>9. CASE GetConnection
    BY <2>9, NoNewIdKeeps DEF GetConnection, NoNewId, Claiming, keys, inputs, locals,
        conns, closing, history
  <2>10. CASE SendAudio
    BY <2>10, NoNewIdKeeps DEF SendAudio, NoNewId, Claiming, keys, inputs, locals, conns,
        closing, history
  <2>11. CASE SendFails
    BY <2>11, NoNewIdKeeps DEF SendFails, NoNewId, Claiming, RaisesError, Fails, keys,
        inputs, locals, conns, closing, history
  <2>12. CASE Reconnect
    BY <2>12, NoNewIdKeeps DEF Reconnect, NoNewId, Claiming, keys, inputs, locals, conns,
        closing, history
  <2>13. CASE FallbackClose
    BY <2>13, NoNewIdKeeps DEF FallbackClose, NoNewId, Claiming, keys, inputs, locals,
        conns, closing, history
  <2>14. CASE FallbackGone
    BY <2>14, NoNewIdKeeps DEF FallbackGone, NoNewId, Claiming, keys, inputs, locals,
        conns, closing, history
  <2>15. CASE GetPending
    BY <2>15, GetPendingIds
  <2>16. CASE ClaimPending
    BY <2>16, ClaimPendingIds
  <2>17. CASE IncrSegment
    BY <2>17, IncrSegmentIds
  <2>18. CASE Route
    BY <2>18, RouteIds
  <2>19. CASE RouteOtherLanguage
    BY <2>19, NoNewIdKeeps DEF RouteOtherLanguage, NoNewId, Claiming, keys, inputs,
        locals, conns, closing, history
  <2>20. CASE Reclosed
    BY <2>20, ReclosedIds
  <2>21. CASE Connected
    BY <2>21, NoNewIdKeeps DEF Connected, NoNewId, Claiming, keys, inputs, locals, conns,
        closing, history
  <2>22. CASE ConnectFails
    BY <2>22, NoNewIdKeeps DEF ConnectFails, NoNewId, Claiming, Fails, keys, inputs,
        locals, conns, closing, history
  <2>23. CASE Reconnected
    BY <2>23, NoNewIdKeeps DEF Reconnected, NoNewId, Claiming, keys, inputs, locals,
        conns, closing, history
  <2>24. CASE ReconnectFails
    BY <2>24, NoNewIdKeeps DEF ReconnectFails, NoNewId, Claiming, RaisesError, Fails,
        keys, inputs, locals, conns, closing, history
  <2>25. CASE FellBack
    BY <2>25, NoNewIdKeeps DEF FellBack, NoNewId, Claiming, keys, inputs, locals, conns,
        closing, history
  <2>26. CASE BatchPartial
    BY <2>26, NoNewIdKeeps DEF BatchPartial, NoNewId, Claiming, keys, inputs, locals,
        conns, closing, history
  <2>27. CASE BatchSkipped
    BY <2>27, NoNewIdKeeps DEF BatchSkipped, NoNewId, Claiming, keys, inputs, locals,
        conns, closing, history
  <2>28. CASE IncrFinal
    BY <2>28, IncrFinalIds
  <2>29. CASE Final
    BY <2>29, NoNewIdKeeps DEF Final, NoNewId, Claiming, keys, inputs, locals, conns,
        closing, history
  <2>30. CASE FinalFails
    BY <2>30, NoNewIdKeeps DEF FinalFails, NoNewId, Claiming, keys, inputs, locals,
        conns, closing, history
  <2>31. CASE FinalDone
    BY <2>31, NoNewIdKeeps DEF FinalDone, NoNewId, Claiming, keys, inputs, locals, conns,
        closing, history
  <2>32. CASE Finalize
    BY <2>32, NoNewIdKeeps DEF Finalize, NoNewId, Claiming, keys, inputs, locals, conns,
        closing, history
  <2>33. CASE EndClear
    BY <2>33, NoNewIdKeeps DEF EndClear, NoNewId, Claiming, keys, inputs, locals, conns,
        closing, history
  <2>34. CASE Refine
    BY <2>34, NoNewIdKeeps DEF Refine, NoNewId, Claiming, keys, inputs, locals, conns,
        closing, history
  <2>35. CASE EndBatch
    BY <2>35, NoNewIdKeeps DEF EndBatch, NoNewId, Claiming, keys, inputs, locals, conns,
        closing, history
  <2> QED BY <1>2, <2>1, <2>2, <2>3, <2>4, <2>5, <2>6, <2>7, <2>8, <2>9, <2>10, <2>11,
      <2>12, <2>13, <2>14, <2>15, <2>16, <2>17, <2>18, <2>19, <2>20, <2>21, <2>22, <2>23,
      <2>24, <2>25, <2>26, <2>27, <2>28, <2>29, <2>30, <2>31, <2>32, <2>33, <2>34,
      <2>35 DEF RouterStep, RouterGoesOn, RouterResumes
<1>3. ASSUME NEW r \in Rooms,
             Partial(r) \/ FinalTranscript(r) \/ Drop(r) \/ ListenerError(r)
               \/ ErrorClose(r) \/ ErrorGone(r) \/ ErrorClosed(r)
      PROVE  Ids'
  <2>1. CASE Partial(r)
    BY <2>1, NoNewIdKeeps DEF Partial, NoNewId, Claiming, keys, inputs, locals, conns,
        closing, history
  <2>7. CASE FinalTranscript(r)
    BY <2>7, NoNewIdKeeps DEF FinalTranscript, NoNewId, Claiming, keys, inputs, locals,
        conns, closing, history
  <2>2. CASE Drop(r)
    BY <2>2, NoNewIdKeeps DEF Drop, NoNewId, Claiming, Fails, keys, inputs, locals,
        conns, closing, history
  <2>3. CASE ListenerError(r)
    BY <2>3, NoNewIdKeeps DEF ListenerError, NoNewId, Claiming, Fails, keys, inputs,
        locals, conns, closing, history
  <2>4. CASE ErrorClose(r)
    BY <2>4, NoNewIdKeeps DEF ErrorClose, NoNewId, Claiming, keys, inputs, locals, conns,
        closing, history
  <2>5. CASE ErrorGone(r)
    BY <2>5, NoNewIdKeeps DEF ErrorGone, NoNewId, Claiming, keys, inputs, locals, conns,
        closing, history
  <2>6. CASE ErrorClosed(r)
    BY <2>6, NoNewIdKeeps DEF ErrorClosed, NoNewId, Claiming, keys, inputs, locals,
        conns, closing, history
  <2> QED BY <1>3, <2>1, <2>2, <2>3, <2>4, <2>5, <2>6, <2>7
<1>4. CASE UNCHANGED vars
  BY <1>4, NoNewIdKeeps DEF NoNewId, vars, keys, history
<1> QED BY <1>1, <1>2, <1>3, <1>4 DEF Next, Clients, ListenerStep, ErrorStep

-----------------------------------------------------------------------------
(* The phases.                                                              *)

\* What opening a session leaves.
LEMMA OpenSessionPhases ==
    ASSUME TypeOK, NEW conn \in BOOLEAN, NEW l \in Seq(Tasks), OpenSession(conn, l)
    PROVE  Phases'
BY OpenSessionFacts DEF Phases, Serving, Opening, Claiming, room

LEMMA NextPhases == ASSUME TypeOK, Ids, Phases, [Next]_vars PROVE Phases'
<1>1. ASSUME NEW r \in Rooms, NEW sp \in Speakers,
             SpeechStarted(r, sp) \/ PendingExpires(r, sp) \/ SendInput(r, sp)
      PROVE  Phases'
  BY <1>1 DEF SpeechStarted, PendingExpires, SendInput, Phases, room, history
<1>2. ASSUME RouterStep PROVE Phases'
  <2>1. CASE TakePartial
    <3>1. Continued(Head(queue)) \in Session /\ Head(queue).room \in Rooms
      BY <2>1, ContinuedType DEF TakePartial, Read
    <3>2. pc' \in {"batch", "send", "getconn"}
      BY <2>1, <3>1, ChunkPcType DEF TakePartial
    <3>3. room' = Head(queue).room /\ cell'.session = room' /\ sess'[room'].live
      BY <2>1, <3>1 DEF TakePartial, Rebind, Continued, TypeOK, Session, room
    <3> QED BY <3>2, <3>3 DEF Phases, Serving, Opening, Claiming
  <2>2. CASE TakeFirstPartial
    BY <2>2 DEF TakeFirstPartial, Read, Rebind, room, TypeOK, Phases,
        Serving, Opening, Claiming, Session, Message, keys, inputs, locals, conns,
        closing, history
  <2>3. CASE TakeChunk
    BY <2>3 DEF TakeChunk, Read, Rebind, room, TypeOK, Phases,
        Serving, Opening, Claiming, Session, Message, keys, inputs, locals, conns,
        closing, history
  <2>4. CASE TakeEndStream
    <3>1. pc' = "finalize" /\ sess' = sess
      BY <2>4 DEF TakeEndStream
    <3>2. room' = Head(queue).room /\ cell'.session = room' /\ sess[room'].live
      BY <2>4 DEF TakeEndStream, EndsStream, Rebind, room
    <3> QED BY <3>1, <3>2 DEF Phases, Serving, Opening, Claiming
  <2>5. CASE TakeEndBatch
    BY <2>5 DEF TakeEndBatch, Read, Rebind, room, TypeOK, Phases,
        Serving, Opening, Claiming, Session, Message, keys, inputs, locals, conns,
        closing, history
  <2>6. CASE TakeEndNothing
    BY <2>6 DEF TakeEndNothing, Read, Rebind, room, TypeOK, Phases,
        Serving, Opening, Claiming, Session, Message, keys, inputs, locals, conns,
        closing, history
  <2>7. CASE Reclose
    BY <2>7 DEF Reclose, room, TypeOK, Phases,
        Serving, Opening, Claiming, Session, Message, keys, inputs, locals, conns,
        closing, history
  <2>8. CASE RecloseGone
    BY <2>8, TailType, OpenSessionPhases DEF RecloseGone
  <2>9. CASE GetConnection
    BY <2>9 DEF GetConnection, room, TypeOK, Phases,
        Serving, Opening, Claiming, Session, Message, keys, inputs, locals, conns,
        closing, history
  <2>10. CASE SendAudio
    BY <2>10 DEF SendAudio, room, TypeOK, Phases,
        Serving, Opening, Claiming, Session, Message, keys, inputs, locals, conns,
        closing, history
  <2>11. CASE SendFails
    BY <2>11 DEF SendFails, RaisesError, room, TypeOK, Phases,
        Serving, Opening, Claiming, Session, Message, keys, inputs, locals, conns,
        closing, history
  <2>12. CASE Reconnect
    BY <2>12 DEF Reconnect, room, TypeOK, Phases,
        Serving, Opening, Claiming, Session, Message, keys, inputs, locals, conns,
        closing, history
  <2>13. CASE FallbackClose
    BY <2>13 DEF FallbackClose, room, TypeOK, Phases,
        Serving, Opening, Claiming, Session, Message, keys, inputs, locals, conns,
        closing, history
  <2>14. CASE FallbackGone
    BY <2>14 DEF FallbackGone, SwitchToBatch, room, TypeOK, Phases,
        Serving, Opening, Claiming, Session, Message, keys, inputs, locals, conns,
        closing, history
  <2>15. CASE GetPending
    BY <2>15 DEF GetPending, room, TypeOK, Phases,
        Serving, Opening, Claiming, Session, Message, keys, inputs, locals, conns,
        closing, history
  <2>16. CASE ClaimPending
    BY <2>16 DEF ClaimPending, room, TypeOK, Phases,
        Serving, Opening, Claiming, Session, Message, keys, inputs, locals, conns,
        closing, history
  <2>17. CASE IncrSegment
    BY <2>17 DEF IncrSegment, room, TypeOK, Phases,
        Serving, Opening, Claiming, Session, Message, keys, inputs, locals, conns,
        closing, history
  <2>18. CASE Route
    BY <2>18, OpenSessionPhases DEF Route, TypeOK, Existing
  <2>19. CASE RouteOtherLanguage
    BY <2>19 DEF RouteOtherLanguage, room, TypeOK, Phases,
        Serving, Opening, Claiming, Session, Message, keys, inputs, locals, conns,
        closing, history
  <2>20. CASE Reclosed
    BY <2>20, TailType, OpenSessionPhases DEF Reclosed
  <2>21. CASE Connected
    BY <2>21 DEF Connected, room, TypeOK, Phases,
        Serving, Opening, Claiming, Session, Message, keys, inputs, locals, conns,
        closing, history
  <2>22. CASE ConnectFails
    BY <2>22 DEF ConnectFails, room, TypeOK, Phases,
        Serving, Opening, Claiming, Session, Message, keys, inputs, locals, conns,
        closing, history
  <2>23. CASE Reconnected
    BY <2>23 DEF Reconnected, room, TypeOK, Phases,
        Serving, Opening, Claiming, Session, Message, keys, inputs, locals, conns,
        closing, history
  <2>24. CASE ReconnectFails
    BY <2>24 DEF ReconnectFails, RaisesError, room, TypeOK, Phases,
        Serving, Opening, Claiming, Session, Message, keys, inputs, locals, conns,
        closing, history
  <2>25. CASE FellBack
    BY <2>25 DEF FellBack, SwitchToBatch, room, TypeOK, Phases,
        Serving, Opening, Claiming, Session, Message, keys, inputs, locals, conns,
        closing, history
  <2>26. CASE BatchPartial
    BY <2>26 DEF BatchPartial, room, TypeOK, Phases,
        Serving, Opening, Claiming, Session, Message, keys, inputs, locals, conns,
        closing, history
  <2>27. CASE BatchSkipped
    BY <2>27 DEF BatchSkipped, room, TypeOK, Phases,
        Serving, Opening, Claiming, Session, Message, keys, inputs, locals, conns,
        closing, history
  <2>28. CASE IncrFinal
    BY <2>28 DEF IncrFinal, room, NextSegment, Ids, IdsBelowCounter, TypeOK, Phases,
        Serving, Opening, Claiming, Session, Message, keys, inputs, locals, conns,
        closing, history
  <2>29. CASE Final
    BY <2>29 DEF Final, room, TypeOK, Phases,
        Serving, Opening, Claiming, Session, Message, keys, inputs, locals, conns,
        closing, history
  <2>30. CASE FinalFails
    BY <2>30 DEF FinalFails, room, TypeOK, Phases,
        Serving, Opening, Claiming, Session, Message, keys, inputs, locals, conns,
        closing, history
  <2>31. CASE FinalDone
    BY <2>31 DEF FinalDone, Forget, room, TypeOK, Phases,
        Serving, Opening, Claiming, Session, Message, keys, inputs, locals, conns,
        closing, history
  <2>32. CASE Finalize
    BY <2>32 DEF Finalize, room, TypeOK, Phases,
        Serving, Opening, Claiming, Session, Message, keys, inputs, locals, conns,
        closing, history
  <2>33. CASE EndClear
    BY <2>33 DEF EndClear, Forget, room, TypeOK, Phases,
        Serving, Opening, Claiming, Session, Message, keys, inputs, locals, conns,
        closing, history
  <2>34. CASE Refine
    BY <2>34 DEF Refine, room, TypeOK, Phases,
        Serving, Opening, Claiming, Session, Message, keys, inputs, locals, conns,
        closing, history
  <2>35. CASE EndBatch
    BY <2>35 DEF EndBatch, Forget, room, TypeOK, Phases,
        Serving, Opening, Claiming, Session, Message, keys, inputs, locals, conns,
        closing, history
  <2> QED BY <1>2, <2>1, <2>2, <2>3, <2>4, <2>5, <2>6, <2>7, <2>8, <2>9, <2>10, <2>11,
      <2>12, <2>13, <2>14, <2>15, <2>16, <2>17, <2>18, <2>19, <2>20, <2>21, <2>22, <2>23,
      <2>24, <2>25, <2>26, <2>27, <2>28, <2>29, <2>30, <2>31, <2>32, <2>33, <2>34,
      <2>35 DEF RouterStep, RouterGoesOn, RouterResumes
<1>3. ASSUME NEW r \in Rooms,
             Partial(r) \/ FinalTranscript(r) \/ Drop(r) \/ ListenerError(r)
               \/ ErrorClose(r) \/ ErrorGone(r) \/ ErrorClosed(r)
      PROVE  Phases'
  <2>1. CASE Partial(r) \/ FinalTranscript(r)
    <3>1. pc' = pc /\ seg' = seg /\ cell' = cell /\ opened' = opened
      BY <2>1 DEF Partial, FinalTranscript, history
    <3>2. sess' = sess \/ sess' = [sess EXCEPT ![cell.session].text = r]
      BY <2>1 DEF Partial, FinalTranscript
    <3>3. \A q \in Rooms : sess'[q].live = sess[q].live /\ sess'[q].seg = sess[q].seg
      BY <3>2, PartialKeeps
    <3> QED BY <3>1, <3>3 DEF Phases, TypeOK, room
  <2>2. CASE Drop(r)
    BY <2>2 DEF Drop, room, TypeOK, Phases,
        Serving, Opening, Claiming, Session, Message, keys, inputs, locals, conns,
        closing, history
  <2>3. CASE ListenerError(r)
    BY <2>3 DEF ListenerError, room, TypeOK, Phases,
        Serving, Opening, Claiming, Session, Message, keys, inputs, locals, conns,
        closing, history
  <2>4. CASE ErrorClose(r)
    BY <2>4 DEF ErrorClose, room, TypeOK, Phases,
        Serving, Opening, Claiming, Session, Message, keys, inputs, locals, conns,
        closing, history
  <2>5. CASE ErrorGone(r)
    <3>1. pc' = pc /\ seg' = seg /\ cell' = cell /\ opened' = opened
      BY <2>5 DEF ErrorGone, history
    <3>2. sess' = [sess EXCEPT ![cell.session].prov = "batch", ![cell.session].conn = FALSE]
      BY <2>5 DEF ErrorGone, SwitchToBatch
    <3>3. \A q \in Rooms : sess'[q].live = sess[q].live /\ sess'[q].seg = sess[q].seg
      BY <3>2, SwitchKeeps DEF TypeOK
    <3> QED BY <3>1, <3>3 DEF Phases, TypeOK, room
  <2>6. CASE ErrorClosed(r)
    <3>1. pc' = pc /\ seg' = seg /\ cell' = cell /\ opened' = opened
      BY <2>6 DEF ErrorClosed, history
    <3>2. sess' = [sess EXCEPT ![cell.session].prov = "batch", ![cell.session].conn = FALSE]
      BY <2>6 DEF ErrorClosed, SwitchToBatch
    <3>3. \A q \in Rooms : sess'[q].live = sess[q].live /\ sess'[q].seg = sess[q].seg
      BY <3>2, SwitchKeeps DEF TypeOK
    <3> QED BY <3>1, <3>3 DEF Phases, TypeOK, room
  <2> QED BY <1>3, <2>1, <2>2, <2>3, <2>4, <2>5, <2>6
<1>4. CASE UNCHANGED vars
  BY <1>4 DEF Phases, room, vars, history
<1> QED BY <1>1, <1>2, <1>3, <1>4 DEF Next, Clients, ListenerStep, ErrorStep

\* The conjunction is inductive.
THEOREM InductiveInvariant == Spec => []IInv
<1>1. Init => IInv
  <2> SUFFICES ASSUME Init PROVE IInv
    OBVIOUS
  <2>1. Ids
    BY DEF Init, Ids, IdsBelowCounter, PendingFresh, ClaimFresh, Claiming
  <2>2. AnyRoom \in Rooms
    BY SttAssumption DEF AnyRoom
  <2>3. Phases
    BY <2>2 DEF Init, Phases, Serving, Opening, Claiming, NoSession, room
  <2> QED BY <2>1, <2>3, InitType DEF IInv
<1>2. IInv /\ [Next]_vars => IInv'
  BY NextType, NextIds, NextPhases DEF IInv
<1> QED BY <1>1, <1>2, PTL DEF Spec

-----------------------------------------------------------------------------
(* The properties.                                                          *)

LEMMA OpenSessionNew ==
    ASSUME IInv, NEW conn \in BOOLEAN, NEW l \in Seq(Tasks), OpenSession(conn, l),
           pc \in Claiming, NEW q \in Rooms, sess'[q].live, ~sess[q].live
    PROVE  sess'[q].seg \notin opened[q]
<1>1. q = room /\ sess'[q].seg = seg
  BY OpenSessionFacts DEF IInv
<1> QED BY <1>1 DEF IInv, Ids, ClaimFresh

\* Forgetting a session opens none.
LEMMA ForgetOpensNone ==
    ASSUME TypeOK, Forget, NEW q \in Rooms, sess'[q].live PROVE sess[q].live
<1>1. sess[q] \in Session /\ room \in Rooms
  BY DEF TypeOK, room
<1>2. CASE q = room
  <2>1. sess'[q] = [sess[q] EXCEPT !.live = FALSE]
    BY <1>2 DEF Forget, TypeOK
  <2>2. sess'[q].live = FALSE
    BY <1>1, <2>1 DEF Session
  <2> QED BY <2>2
<1>3. CASE q # room
  <2>1. sess'[q] = sess[q]
    BY <1>3 DEF Forget, TypeOK
  <2> QED BY <2>1
<1> QED BY <1>2, <1>3

LEMMA NextNew ==
    ASSUME IInv, [Next]_vars, NEW q \in Rooms, sess'[q].live, ~sess[q].live
    PROVE  sess'[q].seg \notin opened[q]
<1>1. ASSUME NEW r \in Rooms, NEW sp \in Speakers,
             SpeechStarted(r, sp) \/ PendingExpires(r, sp) \/ SendInput(r, sp)
      PROVE  FALSE
  BY <1>1 DEF SpeechStarted, PendingExpires, SendInput
<1>2. ASSUME RouterStep PROVE sess'[q].seg \notin opened[q]
  <2>1. ASSUME TakeFirstPartial \/ TakeChunk \/ TakeEndStream \/ TakeEndBatch
               \/ TakeEndNothing \/ Reclose \/ GetConnection \/ SendAudio
               \/ SendFails \/ Reconnect \/ FallbackClose \/ GetPending
               \/ ClaimPending \/ IncrSegment \/ RouteOtherLanguage \/ ConnectFails
               \/ Reconnected \/ ReconnectFails \/ BatchSkipped \/ IncrFinal
               \/ Final \/ FinalFails \/ Finalize \/ Refine
        PROVE  FALSE
    BY <2>1 DEF TakeFirstPartial, TakeChunk, TakeEndStream, TakeEndBatch, TakeEndNothing,
        Reclose, GetConnection, SendAudio, SendFails, Reconnect, FallbackClose,
        GetPending, ClaimPending, IncrSegment, RouteOtherLanguage, ConnectFails,
        Reconnected, ReconnectFails, BatchSkipped, IncrFinal, Final, FinalFails,
        Finalize, Refine
  <2>2. CASE TakePartial
    <3> DEFINE m == Head(queue)
    <3>1. sess' = [sess EXCEPT ![m.room] = Continued(m)] /\ queue # <<>>
      BY <2>2 DEF TakePartial, Read
    <3>2. m.room \in Rooms /\ sess[m.room] \in Session /\ sess \in [Rooms -> Session]
      BY <3>1, ContinuedType DEF IInv, TypeOK
    <3>3. Continued(m).live = sess[m.room].live
      BY <3>2 DEF Continued, Session
    <3> HIDE DEF m
    <3> QED BY <3>1, <3>2, <3>3
  <2>3. CASE RecloseGone
    BY <2>3, TailType, OpenSessionNew DEF RecloseGone, IInv, Claiming
  <2>4. CASE FallbackGone
    <3>1. sess' = [sess EXCEPT ![cell.session].prov = "batch", ![cell.session].conn = FALSE]
      BY <2>4 DEF FallbackGone, SwitchToBatch
    <3> QED BY <3>1, SwitchKeeps DEF IInv, TypeOK
  <2>5. CASE Route
    BY <2>5, OpenSessionNew DEF Route, TypeOK, IInv, Existing, Claiming
  <2>6. CASE Reclosed
    BY <2>6, TailType, OpenSessionNew DEF Reclosed, IInv, Claiming
  <2>7. CASE Connected
    <3>1. sess' = [sess EXCEPT ![room].conn = TRUE]
      BY <2>7 DEF Connected
    <3>2. sess \in [Rooms -> Session] /\ room \in Rooms
      BY DEF IInv, TypeOK, room
    <3> HIDE DEF room
    <3> QED BY <3>1, <3>2, ConnectKeeps
  <2>8. CASE FellBack
    <3>1. sess' = [sess EXCEPT ![cell.session].prov = "batch", ![cell.session].conn = FALSE]
      BY <2>8 DEF FellBack, SwitchToBatch
    <3> QED BY <3>1, SwitchKeeps DEF IInv, TypeOK
  <2>9. CASE BatchPartial
    BY <2>9, TextKeeps DEF BatchPartial, IInv, TypeOK, room
  <2>10. CASE FinalDone
    BY <2>10, ForgetOpensNone DEF FinalDone, IInv
  <2>11. CASE EndClear
    BY <2>11, ForgetOpensNone DEF EndClear, IInv
  <2>12. CASE EndBatch
    BY <2>12, ForgetOpensNone DEF EndBatch, IInv
  <2> QED BY <1>2, <2>1, <2>2, <2>3, <2>4, <2>5, <2>6, <2>7, <2>8, <2>9, <2>10, <2>11,
      <2>12 DEF RouterStep, RouterGoesOn, RouterResumes
<1>3. ASSUME NEW r \in Rooms,
             Partial(r) \/ FinalTranscript(r) \/ Drop(r) \/ ListenerError(r)
               \/ ErrorClose(r) \/ ErrorGone(r) \/ ErrorClosed(r)
      PROVE  FALSE
  <2>1. CASE Partial(r) \/ FinalTranscript(r)
    BY <2>1, PartialKeeps DEF Partial, FinalTranscript, IInv
  <2>2. CASE Drop(r) \/ ListenerError(r) \/ ErrorClose(r)
    BY <2>2 DEF Drop, ListenerError, ErrorClose
  <2>3. CASE ErrorGone(r) \/ ErrorClosed(r)
    <3>1. sess' = [sess EXCEPT ![cell.session].prov = "batch", ![cell.session].conn = FALSE]
      BY <2>3 DEF ErrorGone, ErrorClosed, SwitchToBatch
    <3> QED BY <3>1, SwitchKeeps DEF IInv, TypeOK
  <2> QED BY <1>3, <2>1, <2>2, <2>3
<1>4. CASE UNCHANGED vars
  BY <1>4 DEF vars
<1> QED BY <1>1, <1>2, <1>3, <1>4 DEF Next, Clients, ListenerStep, ErrorStep

\* For every number of rooms, speakers and messages, a session is opened under
\* an id no earlier session of its room had: an announced id is claimed at most
\* once, and neither INCR ever returns an id that is still announced.
THEOREM SegmentsNeverReusedThm == Spec => SegmentsNeverReused
<1>1. IInv /\ [Next]_vars =>
        \A r \in Rooms : sess'[r].live /\ ~sess[r].live => sess'[r].seg \notin opened[r]
  BY NextNew
<1> QED BY <1>1, InductiveInvariant, PTL DEF Spec, SegmentsNeverReused

LEMMA NextSilent ==
    ASSUME IInv, [Next]_vars, out' # out PROVE out'.seg \notin Closed(out'.room)
<1>1. ASSUME NEW r \in Rooms, NEW sp \in Speakers,
             SpeechStarted(r, sp) \/ PendingExpires(r, sp) \/ SendInput(r, sp)
      PROVE  FALSE
  BY <1>1 DEF SpeechStarted, PendingExpires, SendInput
<1>2. ASSUME RouterStep PROVE out'.seg \notin Closed(out'.room)
  <2>1. ASSUME TakePartial \/ TakeFirstPartial \/ TakeChunk \/ TakeEndNothing
               \/ Reclose \/ RecloseGone \/ GetConnection \/ SendAudio
               \/ SendFails \/ Reconnect \/ FallbackClose \/ FallbackGone
               \/ GetPending \/ ClaimPending \/ IncrSegment \/ Route
               \/ RouteOtherLanguage \/ Reclosed \/ Connected \/ ConnectFails
               \/ Reconnected \/ ReconnectFails \/ FellBack \/ BatchSkipped
               \/ IncrFinal \/ FinalFails \/ FinalDone \/ EndClear
               \/ EndBatch
        PROVE  FALSE
    BY <2>1 DEF TakePartial, TakeFirstPartial, TakeChunk, TakeEndNothing, Reclose,
        RecloseGone, GetConnection, SendAudio, SendFails, Reconnect, FallbackClose,
        FallbackGone, GetPending, ClaimPending, IncrSegment, Route, RouteOtherLanguage,
        Reclosed, Connected, ConnectFails, Reconnected, ReconnectFails, FellBack,
        BatchSkipped, IncrFinal, FinalFails, FinalDone, EndClear, EndBatch
  <2>2. CASE TakeEndStream
    BY <2>2 DEF TakeEndStream, EventOf, Closed, IInv, Phases, Serving, EndsStream
  <2>3. CASE TakeEndBatch
    BY <2>3 DEF TakeEndBatch, EventOf, Closed, IInv, Phases, Serving
  <2>4. CASE BatchPartial
    BY <2>4 DEF BatchPartial, EventOf, Closed, IInv, Phases, Serving
  <2>5. CASE Final
    BY <2>5 DEF Final, EventOf, Closed, IInv, Phases, Serving
  <2>6. CASE Finalize
    BY <2>6 DEF Finalize, EventOf, Closed, IInv, Phases, Serving
  <2>7. CASE Refine
    BY <2>7 DEF Refine, EventOf, Closed, IInv, Phases, Serving
  <2> QED BY <1>2, <2>1, <2>2, <2>3, <2>4, <2>5, <2>6, <2>7 DEF RouterStep, RouterGoesOn,
      RouterResumes
<1>3. ASSUME NEW r \in Rooms,
             Partial(r) \/ FinalTranscript(r) \/ Drop(r) \/ ListenerError(r)
               \/ ErrorClose(r) \/ ErrorGone(r) \/ ErrorClosed(r)
      PROVE  out'.seg \notin Closed(out'.room)
  <2>1. CASE Partial(r)
    BY <2>1 DEF Partial, Heard, EventOf, Closed, IInv, Phases
  <2>2. CASE FinalTranscript(r) \/ Drop(r) \/ ListenerError(r) \/ ErrorClose(r)
               \/ ErrorGone(r) \/ ErrorClosed(r)
    BY <2>2 DEF FinalTranscript, Drop, ListenerError, ErrorClose, ErrorGone, ErrorClosed
  <2> QED BY <1>3, <2>1, <2>2
<1>4. CASE UNCHANGED vars
  BY <1>4 DEF vars
<1> QED BY <1>1, <1>2, <1>3, <1>4 DEF Next, Clients, ListenerStep, ErrorStep

\* However the listeners interleave with the loop, nothing is published about a
\* session after it was deleted: the closures only reach the session of the room
\* being handled, and that one is live whenever they publish.
THEOREM ClosedSegmentsSilentThm == Spec => ClosedSegmentsSilent
<1>1. IInv /\ [Next]_vars => (out' # out => out'.seg \notin Closed(out'.room))
  BY NextSilent
<1> QED BY <1>1, InductiveInvariant, PTL DEF Spec, ClosedSegmentsSilent

-----------------------------------------------------------------------------
(* stt_finalize.                                                            *)

\* A live session is known by its id, and once that id has been finalized the
\* loop is at the deletion of the session, or the session is gone.
FinalizedKnown ==
    \A r \in Rooms :
        /\ finalized[r] \subseteq opened[r]
        /\ sess[r].live => sess[r].seg \in opened[r]
        /\ sess[r].live /\ sess[r].seg \in finalized[r] => pc = "endClear" /\ room = r

\* A step that opens and finalizes nothing.
OpensNone ==
    /\ UNCHANGED <<opened, finalized>>
    /\ \A r \in Rooms : sess'[r].live => sess[r].live /\ sess'[r].seg = sess[r].seg

LEMMA OpensNoneKnown ==
    ASSUME FinalizedKnown, OpensNone, pc = "endClear" => pc' = pc /\ room' = room
    PROVE  FinalizedKnown'
BY DEF FinalizedKnown, OpensNone

LEMMA OpenSessionKnown ==
    ASSUME IInv, FinalizedKnown, NEW conn \in BOOLEAN, NEW l \in Seq(Tasks),
           OpenSession(conn, l), pc \in Claiming, UNCHANGED finalized
    PROVE  FinalizedKnown'
<1>1. /\ sess'[room].live /\ sess'[room].seg = seg
      /\ \A r \in Rooms \ {room} : sess'[r] = sess[r]
      /\ room' = room
      /\ opened' = [opened EXCEPT ![room] = @ \cup {seg}]
  BY OpenSessionFacts DEF IInv, room
<1>2. seg \notin opened[room] /\ room \in Rooms /\ pc # "endClear"
  BY DEF IInv, Ids, ClaimFresh, TypeOK, room, Claiming
<1>3. opened \in [Rooms -> SUBSET Nat]
  BY DEF IInv, TypeOK
<1> HIDE DEF room
<1> QED BY <1>1, <1>2, <1>3 DEF FinalizedKnown

\* A deleted session keeps its id.
LEMMA ForgetKeeps ==
    ASSUME TypeOK, Forget
    PROVE  /\ \A q \in Rooms : sess'[q].live => sess[q].live
           /\ \A q \in Rooms : sess'[q].seg = sess[q].seg
           /\ \A q \in Rooms \ {room} : sess'[q] = sess[q]
           /\ ~sess'[room].live
<1>1. room \in Rooms /\ sess \in [Rooms -> Session]
  BY DEF TypeOK, room
<1> HIDE DEF room
<1>2. sess' = [sess EXCEPT ![room].live = FALSE]
  BY DEF Forget
<1>3. sess'[room] = [sess[room] EXCEPT !.live = FALSE]
  BY <1>1, <1>2
<1>4. ~sess'[room].live /\ sess'[room].seg = sess[room].seg
  BY <1>1, <1>3 DEF Session
<1>5. \A q \in Rooms \ {room} : sess'[q] = sess[q]
  BY <1>1, <1>2
<1> QED BY <1>4, <1>5

LEMMA NextKnown == ASSUME IInv, FinalizedKnown, [Next]_vars PROVE FinalizedKnown'
<1>0. TypeOK
  BY DEF IInv
<1>1. ASSUME NEW r \in Rooms, NEW sp \in Speakers,
             SpeechStarted(r, sp) \/ PendingExpires(r, sp) \/ SendInput(r, sp)
      PROVE  FinalizedKnown'
  BY <1>1 DEF SpeechStarted, PendingExpires, SendInput, FinalizedKnown, room, history
<1>2. ASSUME RouterStep PROVE FinalizedKnown'
  <2>1. ASSUME TakeFirstPartial \/ TakeChunk \/ TakeEndStream \/ TakeEndBatch
               \/ TakeEndNothing \/ Reclose \/ GetConnection \/ SendAudio
               \/ SendFails \/ Reconnect \/ FallbackClose \/ GetPending
               \/ ClaimPending \/ IncrSegment \/ RouteOtherLanguage \/ ConnectFails
               \/ Reconnected \/ ReconnectFails \/ BatchSkipped \/ IncrFinal
               \/ Final \/ FinalFails \/ Refine
        PROVE  FinalizedKnown'
    <3>1. UNCHANGED <<sess, opened, finalized>>
      BY <2>1 DEF TakeFirstPartial, TakeChunk, TakeEndStream, TakeEndBatch,
          TakeEndNothing, Reclose, GetConnection, SendAudio, SendFails, Reconnect,
          FallbackClose, GetPending, ClaimPending, IncrSegment, RouteOtherLanguage,
          ConnectFails, Reconnected, ReconnectFails, BatchSkipped, IncrFinal, Final,
          FinalFails, Refine, history
    <3>2. pc # "endClear"
      BY <2>1 DEF TakeFirstPartial, TakeChunk, TakeEndStream, TakeEndBatch,
          TakeEndNothing, Read, Reclose, GetConnection, SendAudio, SendFails, Reconnect,
          FallbackClose, GetPending, ClaimPending, IncrSegment, RouteOtherLanguage,
          ConnectFails, Reconnected, ReconnectFails, BatchSkipped, IncrFinal, Final,
          FinalFails, Refine
    <3> QED BY <3>1, <3>2, OpensNoneKnown DEF OpensNone
  <2>2. CASE TakePartial
    <3>1. UNCHANGED <<opened, finalized>> /\ pc # "endClear"
      BY <2>2 DEF TakePartial, Read, history
    <3>2. \A q \in Rooms : sess'[q].live = sess[q].live /\ sess'[q].seg = sess[q].seg
      <4> DEFINE m == Head(queue)
      <4>1. sess' = [sess EXCEPT ![m.room] = Continued(m)] /\ queue # <<>>
        BY <2>2 DEF TakePartial, Read
      <4>2. m.room \in Rooms /\ sess[m.room] \in Session /\ sess \in [Rooms -> Session]
        BY <1>0, <4>1, ContinuedType DEF TypeOK
      <4>3. Continued(m).live = sess[m.room].live /\ Continued(m).seg = sess[m.room].seg
        BY <4>2 DEF Continued, Session
      <4> HIDE DEF m
      <4> QED BY <4>1, <4>2, <4>3
    <3> QED BY <3>1, <3>2, OpensNoneKnown DEF OpensNone
  <2>3. CASE RecloseGone
    BY <2>3, TailType, OpenSessionKnown DEF RecloseGone, IInv, Claiming
  <2>4. CASE Route
    BY <2>4, OpenSessionKnown DEF Route, TypeOK, IInv, Existing, Claiming
  <2>5. CASE Reclosed
    BY <2>5, TailType, OpenSessionKnown DEF Reclosed, IInv, Claiming
  <2>6. CASE FallbackGone \/ FellBack
    <3>1. sess' = [sess EXCEPT ![cell.session].prov = "batch", ![cell.session].conn = FALSE]
      BY <2>6 DEF FallbackGone, FellBack, SwitchToBatch
    <3>2. UNCHANGED <<opened, finalized>> /\ pc # "endClear"
      BY <2>6 DEF FallbackGone, FellBack, history
    <3>3. \A q \in Rooms : sess'[q].live = sess[q].live /\ sess'[q].seg = sess[q].seg
      BY <1>0, <3>1, SwitchKeeps DEF TypeOK
    <3> QED BY <3>2, <3>3, OpensNoneKnown DEF OpensNone
  <2>7. CASE Connected
    <3>1. UNCHANGED <<opened, finalized>> /\ pc # "endClear"
      BY <2>7 DEF Connected, history
    <3>2. \A q \in Rooms : sess'[q].live = sess[q].live /\ sess'[q].seg = sess[q].seg
      <4>1. sess' = [sess EXCEPT ![room].conn = TRUE]
        BY <2>7 DEF Connected
      <4>2. sess \in [Rooms -> Session] /\ room \in Rooms
        BY <1>0 DEF TypeOK, room
      <4> HIDE DEF room
      <4> QED BY <4>1, <4>2, ConnectKeeps
    <3> QED BY <3>1, <3>2, OpensNoneKnown DEF OpensNone
  <2>8. CASE BatchPartial
    <3>1. UNCHANGED <<opened, finalized>> /\ pc # "endClear"
      BY <2>8 DEF BatchPartial, history
    <3>2. \A q \in Rooms : sess'[q].live = sess[q].live /\ sess'[q].seg = sess[q].seg
      <4>1. sess' = [sess EXCEPT ![room].text = room]
        BY <2>8 DEF BatchPartial
      <4>2. sess \in [Rooms -> Session] /\ room \in Rooms
        BY <1>0 DEF TypeOK, room
      <4> HIDE DEF room
      <4> QED BY <4>1, <4>2, TextKeeps
    <3> QED BY <3>1, <3>2, OpensNoneKnown DEF OpensNone
  <2>9. CASE FinalDone \/ EndBatch
    <3>1. UNCHANGED <<opened, finalized>> /\ pc # "endClear"
      BY <2>9 DEF FinalDone, EndBatch, history
    <3>2. Forget
      BY <2>9 DEF FinalDone, EndBatch
    <3> QED BY <1>0, <3>1, <3>2, ForgetKeeps, OpensNoneKnown DEF OpensNone
  <2>10. CASE EndClear
    <3>1. UNCHANGED <<opened, finalized>> /\ Forget
      BY <2>10 DEF EndClear, history
    <3> QED BY <1>0, <3>1, ForgetKeeps DEF FinalizedKnown
  <2>11. CASE Finalize
    <3>1. /\ UNCHANGED <<sess, opened, cell>>
          /\ pc = "finalize" /\ pc' = "endClear"
          /\ finalized' = [finalized EXCEPT ![room] = @ \cup {sess[room].seg}]
      BY <2>11 DEF Finalize
    <3>2. room' = room /\ room \in Rooms /\ finalized \in [Rooms -> SUBSET Nat]
      BY <1>0, <3>1 DEF TypeOK, room
    <3>3. sess[room].live
      BY <3>1 DEF IInv, Phases, Serving
    <3> HIDE DEF room
    <3> QED BY <3>1, <3>2, <3>3 DEF FinalizedKnown
  <2> QED BY <1>2, <2>1, <2>2, <2>3, <2>4, <2>5, <2>6, <2>7, <2>8, <2>9, <2>10, <2>11
      DEF RouterStep, RouterGoesOn, RouterResumes
<1>3. ASSUME NEW r \in Rooms,
             Partial(r) \/ FinalTranscript(r) \/ Drop(r) \/ ListenerError(r)
               \/ ErrorClose(r) \/ ErrorGone(r) \/ ErrorClosed(r)
      PROVE  FinalizedKnown'
  <2>1. UNCHANGED <<pc, cell, opened, finalized>>
    BY <1>3 DEF Partial, FinalTranscript, Drop, ListenerError, ErrorClose, ErrorGone,
        ErrorClosed, history
  <2>2. \A q \in Rooms : sess'[q].live = sess[q].live /\ sess'[q].seg = sess[q].seg
    <3>1. CASE Partial(r) \/ FinalTranscript(r)
      BY <1>0, <3>1, PartialKeeps DEF Partial, FinalTranscript
    <3>2. CASE Drop(r) \/ ListenerError(r) \/ ErrorClose(r)
      BY <3>2 DEF Drop, ListenerError, ErrorClose
    <3>3. CASE ErrorGone(r) \/ ErrorClosed(r)
      <4>1. sess' = [sess EXCEPT ![cell.session].prov = "batch",
                                 ![cell.session].conn = FALSE]
        BY <3>3 DEF ErrorGone, ErrorClosed, SwitchToBatch
      <4> QED BY <1>0, <4>1, SwitchKeeps DEF TypeOK
    <3> QED BY <1>3, <3>1, <3>2, <3>3
  <2> QED BY <2>1, <2>2, OpensNoneKnown DEF OpensNone, room
<1>4. CASE UNCHANGED vars
  BY <1>4 DEF vars, history, FinalizedKnown, room
<1> QED BY <1>1, <1>2, <1>3, <1>4 DEF Next, Clients, ListenerStep, ErrorStep

\* For every number of rooms and whatever their listeners do, stt_finalize is
\* published at most once for a segment: the session is deleted before the loop
\* reads another audio_end, and no later session has its id.
THEOREM FinalizedOnceThm == Spec => FinalizedOnce
<1>1. Init => FinalizedKnown
  BY DEF Init, FinalizedKnown, NoSession
<1>2. IInv /\ FinalizedKnown /\ [Next]_vars => FinalizedKnown'
  BY NextKnown
<1>3. IInv /\ FinalizedKnown =>
        (\A r \in Rooms : pc = "finalize" /\ pc' # pc /\ room = r
            => sess[r].seg \notin finalized[r])
  BY DEF IInv, Phases, Serving, FinalizedKnown
<1> QED BY <1>1, <1>2, <1>3, InductiveInvariant, PTL DEF Spec, FinalizedOnce
-----------------------------------------------------------------------------
(* Falling back to the batch API in one room.                               *)

\* With several rooms on the loop, an error of one room's connection turns the
\* session of another to batch while that one waits for its connection.
OneRoom == \A q, r \in Rooms : q = r

\* Where router_loop has asked for the lock of the pool.
Locking == {"reclose", "reclosing", "getconn", "connecting", "selfwait", "fallback",
            "falling"}

\* The lock: on_error of the listener has it before router_loop.
LockOrder ==
    \A r \in Rooms :
        /\ epc[r] = "quiet" /\ pc \notin Locking => lock = <<>>
        /\ epc[r] = "quiet" /\ pc \in Locking => lock = <<"router">>
        /\ epc[r] # "quiet" /\ pc \notin Locking => lock = <<r>>
        /\ epc[r] # "quiet" /\ pc \in Locking => lock = <<r, "router">>

\* While router_loop works with the lock held, no listener is in on_error.
Closings ==
    \A r \in Rooms :
        /\ pc \in {"reclosing", "falling", "connecting", "selfwait"} => epc[r] = "quiet"
        /\ pc \in {"reclosing", "falling"} => pool[r] \in {"closing", "draining"}
        /\ pc = "reclose" => target["router"] = r
        /\ pool[r] = "none" => epc[r] = "quiet"

\* A streaming session without connection finds none in the pool, and a batch
\* session has none, wherever the loop is.
SessionConnection(s, p) ==
    s.live => /\ s.prov = "stream" /\ ~s.conn => p = "none"
              /\ s.prov = "batch" => ~s.conn

Connections ==
    \A r \in Rooms :
        /\ SessionConnection(sess[r], pool[r])
        /\ pc \in {"getconn", "connecting", "selfwait"} =>
               sess[r].live /\ sess[r].prov = "stream" /\ ~sess[r].conn

RoomInv == LockOrder /\ Closings /\ Connections

LEMMA LockTuples ==
    ASSUME NEW q \in Rooms \cup {"router"}
    PROVE  /\ Append(<<>>, q) = <<q>> /\ Append(<<q>>, "router") = <<q, "router">>
           /\ Tail(<<q>>) = <<>> /\ Tail(<<q, "router">>) = <<"router">>
           /\ Head(<<q>>) = q /\ Head(<<q, "router">>) = q
           /\ <<q>> # <<>> /\ <<q, "router">> # <<>>
<1>1. Append(<<>>, q) = <<q>>
  OBVIOUS
<1>2. Append(<<q>>, "router") = <<q, "router">>
  <2> DEFINE S == Rooms \cup {"router"}
  <2>1. <<q>> \in Seq(S) /\ <<q, "router">> \in Seq(S) /\ Append(<<q>>, "router") \in Seq(S)
    OBVIOUS
  <2>2. Len(Append(<<q>>, "router")) = 2 /\ Len(<<q, "router">>) = 2
    OBVIOUS
  <2>3. \A i \in 1..2 : Append(<<q>>, "router")[i] = <<q, "router">>[i]
    OBVIOUS
  <2> QED BY <2>1, <2>2, <2>3, SeqEqual
<1>3. Tail(<<q>>) = <<>> /\ Tail(<<q, "router">>) = <<"router">>
  OBVIOUS
<1>4. Head(<<q>>) = q /\ Head(<<q, "router">>) = q
  OBVIOUS
<1>5. <<q>> # <<>> /\ <<q, "router">> # <<>>
  OBVIOUS
<1> QED BY <1>1, <1>2, <1>3, <1>4, <1>5

\* Who holds the lock says where the loop and the listener are.
LEMMA RouterHolds ==
    ASSUME LockOrder, NEW r \in Rooms, Holds("router")
    PROVE  epc[r] = "quiet" /\ pc \in Locking /\ Tail(lock) = <<>>
<1>1. r # "router"
  BY SttAssumption
<1>2. lock # <<>> /\ Head(lock) = "router"
  BY DEF Holds
<1>3. epc[r] = "quiet"
  <2>1. CASE lock = <<r>>
    BY <1>1, <1>2, <2>1, LockTuples
  <2>2. CASE lock = <<r, "router">>
    BY <1>1, <1>2, <2>2, LockTuples
  <2> QED BY <2>1, <2>2 DEF LockOrder
<1>4. pc \in Locking
  BY <1>2, <1>3 DEF LockOrder
<1>5. lock = <<"router">>
  BY <1>3, <1>4 DEF LockOrder
<1> QED BY <1>3, <1>4, <1>5, LockTuples

LEMMA ListenerHolds ==
    ASSUME LockOrder, NEW r \in Rooms, Holds(r)
    PROVE  /\ epc[r] # "quiet"
           /\ pc \in Locking => Tail(lock) = <<"router">>
           /\ pc \notin Locking => Tail(lock) = <<>>
<1>1. r # "router"
  BY SttAssumption
<1>2. lock # <<>> /\ Head(lock) = r
  BY DEF Holds
<1>3. epc[r] # "quiet"
  <2>1. CASE lock = <<"router">>
    BY <1>1, <1>2, <2>1, LockTuples
  <2> QED BY <1>2, <2>1 DEF LockOrder
<1>4. CASE pc \in Locking
  <2>1. lock = <<r, "router">>
    BY <1>3, <1>4 DEF LockOrder
  <2> QED BY <1>3, <1>4, <2>1, LockTuples
<1>5. CASE pc \notin Locking
  <2>1. lock = <<r>>
    BY <1>3, <1>5 DEF LockOrder
  <2> QED BY <1>3, <1>5, <2>1, LockTuples
<1> QED BY <1>4, <1>5

\* router_loop asks for the lock behind the listener, if that is in on_error.
LEMMA RouterAsks ==
    ASSUME LockOrder, pc \notin Locking, pc' \in Locking, epc' = epc,
           lock' = Append(lock, "router")
    PROVE  LockOrder'
<1>1. ASSUME NEW r \in Rooms, epc[r] = "quiet" PROVE lock' = <<"router">>
  <2>1. lock = <<>>
    BY <1>1 DEF LockOrder
  <2> QED BY <2>1, LockTuples
<1>2. ASSUME NEW r \in Rooms, epc[r] # "quiet" PROVE lock' = <<r, "router">>
  <2>1. lock = <<r>>
    BY <1>2 DEF LockOrder
  <2> QED BY <2>1, LockTuples
<1> QED BY <1>1, <1>2 DEF LockOrder

\* A step that leaves the lock alone, opens no session and closes no connection.
Aside ==
    /\ UNCHANGED <<lock, epc>>
    /\ \/ UNCHANGED <<pc, target>> /\ \A r \in Rooms : sess[r].live => sess'[r].live
       \/ pc \notin Locking /\ pc' \notin Locking
    /\ \A r \in Rooms :
          sess'[r].live => /\ sess[r].live
                           /\ sess'[r].prov = sess[r].prov /\ sess'[r].conn = sess[r].conn
    /\ \A r \in Rooms : \/ pool'[r] = pool[r]
                        \/ {pool[r], pool'[r]} \cap {"none", "closing", "draining"} = {}

LEMMA AsideKeeps == ASSUME RoomInv, Aside PROVE RoomInv'
<1>1. LockOrder'
  BY DEF RoomInv, Aside, LockOrder
<1>2. Closings'
  BY DEF RoomInv, Aside, Closings, Locking
<1>3. Connections'
  BY DEF RoomInv, Aside, Connections, SessionConnection, Locking
<1> QED BY <1>1, <1>2, <1>3 DEF RoomInv

\* A chunk taken to its branch: with no connection it asks for the lock.
LEMMA ChunkTaken ==
    ASSUME OneRoom, NEW r \in Rooms, NEW s \in Session, NEW l,
           s.live, SessionConnection(s, pool'[r]),
           sess'[r] = s, pc' = ChunkPc(s), lock' = Asks(l, s), epc' = epc,
           epc[r] = "quiet" => l = <<>>, epc[r] # "quiet" => l = <<r>>,
           pool'[r] = "none" => epc[r] = "quiet"
    PROVE  RoomInv'
<1>1. pc' \in {"batch", "send", "getconn"}
  BY ChunkPcType
<1>2. \A q \in Rooms : q = r
  BY DEF OneRoom
<1>3. LockOrder'
  <2>1. CASE pc' = "getconn"
    <3>1. lock' = Append(l, "router")
      BY <2>1 DEF Asks
    <3> QED BY <1>2, <2>1, <3>1, LockTuples DEF LockOrder, Locking
  <2>2. CASE pc' # "getconn"
    <3>1. lock' = l /\ pc' \notin Locking
      BY <1>1, <2>2 DEF Asks, Locking
    <3> QED BY <1>2, <3>1 DEF LockOrder
  <2> QED BY <2>1, <2>2
<1>4. Closings'
  BY <1>1, <1>2 DEF Closings
<1>5. Connections'
  BY <1>1, <1>2 DEF Connections, ChunkPc, Session
<1> QED BY <1>3, <1>4, <1>5 DEF RoomInv

LEMMA OpenSessionRoom ==
    ASSUME TypeOK, OneRoom, NEW conn \in BOOLEAN, NEW l \in Seq(Tasks),
           OpenSession(conn, l), epc' = epc,
           epc[room] = "quiet" => l = <<>>, epc[room] # "quiet" => l = <<room>>,
           Provider(cell.lang) = "stream" /\ ~conn => pool'[room] = "none",
           Provider(cell.lang) = "batch" => ~conn,
           pool'[room] = "none" => epc[room] = "quiet"
    PROVE  RoomInv'
<1> DEFINE s == [live |-> TRUE, seg |-> seg, speaker |-> cell.speaker,
                 lang |-> cell.lang, prov |-> Provider(cell.lang), conn |-> conn,
                 text |-> NoRoom]
<1>1. s \in Session
  BY DEF TypeOK, Session, Provider
<1>2. sess' = [sess EXCEPT ![room] = s] /\ pc' = ChunkPc(s) /\ lock' = Asks(l, s)
  BY DEF OpenSession
<1>3. room \in Rooms
  BY DEF TypeOK, room
<1>4. s.live /\ SessionConnection(s, pool'[room])
  BY DEF SessionConnection
<1> DEFINE r == room
<1> HIDE DEF s, r
<1>5. sess'[room] = s
  BY <1>2, <1>3 DEF TypeOK
<1> HIDE DEF room
<1> QED BY <1>1, <1>2, <1>3, <1>4, <1>5, ChunkTaken

\* In one room the session that turns to batch is the room's.
LEMMA SwitchRoom ==
    ASSUME TypeOK, OneRoom, NEW r \in Rooms, SwitchToBatch
    PROVE  sess'[r].prov = "batch" /\ ~sess'[r].conn
<1>1. cell.session = r /\ sess[r] \in Session /\ sess \in [Rooms -> Session]
  BY DEF TypeOK, OneRoom
<1>2. sess'[r] = [sess[r] EXCEPT !.prov = "batch", !.conn = FALSE]
  BY <1>1 DEF SwitchToBatch
<1> QED BY <1>1, <1>2 DEF Session

LEMMA NextRoomInv ==
    ASSUME OneRoom, IInv, RoomInv, [Next]_vars PROVE RoomInv'
<1>0. TypeOK /\ LockOrder /\ Closings /\ Connections
  BY DEF IInv, RoomInv
<1>a. room \in Rooms /\ \A q \in Rooms : q = room
  BY <1>0 DEF TypeOK, room, OneRoom
<1>1. ASSUME NEW r \in Rooms, NEW sp \in Speakers,
             SpeechStarted(r, sp) \/ PendingExpires(r, sp) \/ SendInput(r, sp)
      PROVE  RoomInv'
  <2>1. Aside
    BY <1>1 DEF SpeechStarted, PendingExpires, SendInput, Aside, conns, closing
  <2> QED BY <2>1, AsideKeeps
<1>2. ASSUME RouterStep PROVE RoomInv'
  <2>1. CASE TakeFirstPartial \/ TakeChunk \/ TakeEndStream \/ TakeEndBatch
             \/ TakeEndNothing \/ SendAudio \/ Reconnect \/ GetPending
             \/ ClaimPending \/ IncrSegment \/ BatchSkipped \/ IncrFinal
             \/ Final \/ FinalFails \/ Finalize \/ Refine
    <3>1. UNCHANGED <<lock, epc, pool, sess>>
      BY <2>1 DEF TakeFirstPartial, TakeChunk, TakeEndStream, TakeEndBatch,
          TakeEndNothing, SendAudio, Reconnect, GetPending, ClaimPending, IncrSegment,
          BatchSkipped, IncrFinal, Final, FinalFails, Finalize, Refine, conns, closing
    <3>2. pc \notin Locking /\ pc' \notin Locking
      BY <2>1 DEF TakeFirstPartial, TakeChunk, TakeEndStream, TakeEndBatch,
          TakeEndNothing, Read, SendAudio, Reconnect, GetPending, ClaimPending,
          IncrSegment, BatchSkipped, IncrFinal, Final, FinalFails, Finalize, Refine,
          Locking
    <3>3. Aside
      BY <3>1, <3>2 DEF Aside
    <3> QED BY <3>3, AsideKeeps
  <2>2. CASE FinalDone \/ EndClear \/ EndBatch
    <3>1. UNCHANGED <<lock, epc, pool>> /\ Forget
      BY <2>2 DEF FinalDone, EndClear, EndBatch, conns, closing
    <3>2. pc \notin Locking /\ pc' \notin Locking
      BY <2>2 DEF FinalDone, EndClear, EndBatch, Locking
    <3>3. Aside
      BY <1>0, <3>1, <3>2, ForgetKeeps DEF Aside
    <3> QED BY <3>3, AsideKeeps
  <2>3. CASE BatchPartial
    <3>1. UNCHANGED <<lock, epc, pool>> /\ pc \notin Locking /\ pc' \notin Locking
      BY <2>3 DEF BatchPartial, conns, closing, Locking
    <3>2. \A q \in Rooms : /\ sess'[q].live = sess[q].live
                           /\ sess'[q].prov = sess[q].prov /\ sess'[q].conn = sess[q].conn
      BY <1>0, <1>a, <2>3, TextKeeps DEF BatchPartial, TypeOK
    <3>3. Aside
      BY <3>1, <3>2 DEF Aside
    <3> QED BY <3>3, AsideKeeps
  <2>4. CASE Reconnected
    <3>1. UNCHANGED <<lock, epc, sess>> /\ pc \notin Locking /\ pc' \notin Locking
      BY <2>4 DEF Reconnected, closing, Locking
    <3>2. \A q \in Rooms : pool'[q] = pool[q] \/ (pool[q] = "dead" /\ pool'[q] = "up")
      BY <1>0, <1>a, <2>4 DEF Reconnected, TypeOK
    <3>3. Aside
      BY <3>1, <3>2 DEF Aside
    <3> QED BY <3>3, AsideKeeps
  <2>5. CASE TakePartial
    <3> DEFINE m == Head(queue)
               s == Continued(m)
    <3>1. m.room \in Rooms /\ s \in Session
      BY <1>0, <2>5, ContinuedType DEF TakePartial, Read
    <3>2. /\ pc = "idle" /\ sess[m.room].live
          /\ sess' = [sess EXCEPT ![m.room] = s]
          /\ pc' = ChunkPc(s) /\ lock' = Asks(lock, s)
          /\ UNCHANGED <<epc, pool>>
      BY <2>5 DEF TakePartial, Read, conns
    <3>3. sess[m.room] \in Session /\ s = [sess[m.room] EXCEPT !.lang = m.lang]
      BY <1>0, <3>1 DEF TypeOK, Continued
    <3>4. s.live = sess[m.room].live /\ s.prov = sess[m.room].prov
          /\ s.conn = sess[m.room].conn
      BY <3>3 DEF Session
    <3> HIDE DEF s
    <3>5. s.live /\ SessionConnection(s, pool'[m.room])
      BY <1>0, <3>1, <3>2, <3>4 DEF Connections, SessionConnection
    <3>6. sess'[m.room] = s
      BY <1>0, <3>1, <3>2 DEF TypeOK
    <3>7. /\ epc[m.room] = "quiet" => lock = <<>>
          /\ epc[m.room] # "quiet" => lock = <<m.room>>
          /\ pool'[m.room] = "none" => epc[m.room] = "quiet"
      BY <1>0, <3>1, <3>2 DEF LockOrder, Closings, Locking
    <3> HIDE DEF m
    <3> QED BY <3>1, <3>2, <3>5, <3>6, <3>7, ChunkTaken
  <2>6. CASE Route
    <3>1. /\ OpenSession(Existing, lock) /\ epc' = epc /\ pool' = pool
          /\ Existing \in BOOLEAN /\ lock \in Seq(Tasks) /\ pc = "route"
      BY <1>0, <2>6 DEF Route, TypeOK, Existing
    <3>2. /\ epc[room] = "quiet" => lock = <<>>
          /\ epc[room] # "quiet" => lock = <<room>>
          /\ pool'[room] = "none" => epc[room] = "quiet"
      BY <1>0, <1>a, <3>1 DEF LockOrder, Closings, Locking
    <3>3. /\ Provider(cell.lang) = "stream" /\ ~Existing => pool'[room] = "none"
          /\ Provider(cell.lang) = "batch" => ~Existing
      BY <3>1 DEF Existing
    <3> QED BY <1>0, <3>1, <3>2, <3>3, OpenSessionRoom
  <2>7. CASE RecloseGone
    <3>1. /\ OpenSession(FALSE, Tail(lock)) /\ epc' = epc /\ pool' = pool
          /\ Holds("router") /\ pc = "reclose" /\ ~Closes("router")
      BY <2>7 DEF RecloseGone, conns
    <3>2. epc[room] = "quiet" /\ Tail(lock) = <<>> /\ Tail(lock) \in Seq(Tasks)
      BY <1>0, <1>a, <3>1, RouterHolds, TailType
    <3>3. pool'[room] = "none"
      BY <1>0, <1>a, <3>1, SttAssumption DEF Closings, Closes, NoRoom
    <3> QED BY <1>0, <3>1, <3>2, <3>3, OpenSessionRoom
  <2>8. CASE Reclosed
    <3>1. /\ OpenSession(FALSE, Tail(lock)) /\ epc' = epc
          /\ pool' = [pool EXCEPT ![room] = "none"] /\ Holds("router")
      BY <2>8 DEF Reclosed
    <3>2. epc[room] = "quiet" /\ Tail(lock) = <<>> /\ Tail(lock) \in Seq(Tasks)
      BY <1>0, <1>a, <3>1, RouterHolds, TailType
    <3>3. pool'[room] = "none"
      BY <1>0, <1>a, <3>1 DEF TypeOK
    <3> QED BY <1>0, <3>1, <3>2, <3>3, OpenSessionRoom
  <2>9. CASE RouteOtherLanguage
    <3>1. /\ UNCHANGED <<epc, pool, sess>> /\ pc = "route" /\ pc' = "reclose"
          /\ lock' = Append(lock, "router") /\ target' = [target EXCEPT !["router"] = room]
          /\ pool[room] # "none"
      BY <2>9 DEF RouteOtherLanguage, CallClose, conns, Existing
    <3>2. target'["router"] = room
      BY <1>0, <3>1 DEF TypeOK, Tasks
    <3>3. LockOrder'
      BY <1>0, <3>1, RouterAsks DEF Locking
    <3>4. Closings'
      BY <1>0, <1>a, <3>1, <3>2 DEF Closings
    <3>5. Connections'
      BY <1>0, <3>1 DEF Connections
    <3> QED BY <3>3, <3>4, <3>5 DEF RoomInv
  <2>10. CASE Reclose \/ FallbackClose
    <3>1. /\ UNCHANGED <<epc, sess, lock>> /\ BeginClose("router")
          /\ pc \in {"reclose", "fallback"} /\ pc' \in {"reclosing", "falling"}
      BY <2>10 DEF Reclose, FallbackClose, closing
    <3>2. epc[room] = "quiet"
      BY <1>0, <1>a, <3>1, RouterHolds DEF BeginClose
    <3>3. target["router"] = room /\ pool[room] # "none"
      BY <1>0, <1>a, <3>1 DEF BeginClose, Closes, TypeOK, Tasks
    <3>4. pool'[room] \in {"closing", "draining"}
      BY <1>0, <1>a, <3>1, <3>3 DEF BeginClose, TypeOK
    <3>5. LockOrder'
      BY <1>0, <3>1 DEF LockOrder, Locking
    <3>6. Closings'
      BY <1>a, <3>1, <3>2, <3>4 DEF Closings
    <3>7. Connections'
      BY <1>0, <1>a, <3>1, <3>3, <3>4 DEF Connections, SessionConnection
    <3> QED BY <3>5, <3>6, <3>7 DEF RoomInv
  <2>11. CASE GetConnection
    <3>1. /\ UNCHANGED <<epc, sess, lock, pool>> /\ Holds("router")
          /\ pc = "getconn" /\ pc' = "connecting"
      BY <2>11 DEF GetConnection, closing, conns
    <3>2. epc[room] = "quiet"
      BY <1>0, <1>a, <3>1, RouterHolds
    <3>3. LockOrder'
      BY <1>0, <3>1 DEF LockOrder, Locking
    <3>4. Closings'
      BY <1>a, <3>1, <3>2 DEF Closings
    <3>5. Connections'
      BY <1>0, <3>1 DEF Connections
    <3> QED BY <3>3, <3>4, <3>5 DEF RoomInv
  <2>12. CASE Connected
    <3>1. /\ epc' = epc /\ Holds("router") /\ lock' = Tail(lock)
          /\ pc = "connecting" /\ pc' = "send"
          /\ pool' = [pool EXCEPT ![room] = "up"]
          /\ sess' = [sess EXCEPT ![room].conn = TRUE]
      BY <2>12 DEF Connected
    <3>2. epc[room] = "quiet" /\ lock' = <<>>
      BY <1>0, <1>a, <3>1, RouterHolds
    <3>3. pool'[room] = "up" /\ sess[room] \in Session
          /\ sess'[room] = [sess[room] EXCEPT !.conn = TRUE]
      BY <1>0, <1>a, <3>1 DEF TypeOK
    <3>4. sess'[room].prov = sess[room].prov /\ sess'[room].conn
      BY <3>3 DEF Session
    <3>5. sess[room].prov = "stream"
      BY <1>0, <1>a, <3>1 DEF Connections
    <3>6. LockOrder'
      BY <1>a, <3>1, <3>2 DEF LockOrder, Locking
    <3>7. Closings'
      BY <1>a, <3>1, <3>2, <3>3 DEF Closings
    <3>8. Connections'
      BY <1>a, <3>1, <3>4, <3>5 DEF Connections, SessionConnection
    <3> QED BY <3>6, <3>7, <3>8 DEF RoomInv
  <2>13. CASE ConnectFails
    <3>1. /\ UNCHANGED <<epc, sess, pool>> /\ Holds("router") /\ pc = "connecting"
          /\ \/ pc' = "selfwait" /\ UNCHANGED lock
             \/ pc' = "idle" /\ lock' = Tail(lock)
      BY <2>13 DEF ConnectFails, conns
    <3>2. epc[room] = "quiet" /\ Tail(lock) = <<>>
      BY <1>0, <1>a, <3>1, RouterHolds
    <3>3. LockOrder'
      BY <1>0, <1>a, <3>1, <3>2 DEF LockOrder, Locking
    <3>4. Closings'
      BY <1>a, <3>1, <3>2 DEF Closings
    <3>5. Connections'
      BY <1>0, <3>1 DEF Connections
    <3> QED BY <3>3, <3>4, <3>5 DEF RoomInv
  <2>14. CASE SendFails \/ ReconnectFails
    <3>1. /\ UNCHANGED <<epc, sess, pool>> /\ pc \in {"send", "reconnect"}
          /\ \/ pc' = "fallback" /\ lock' = Append(lock, "router")
             \/ pc' = "idle" /\ lock' = lock
      BY <2>14 DEF SendFails, ReconnectFails, RaisesError, CallClose, conns
    <3>2. LockOrder'
      <4>1. CASE pc' = "fallback"
        BY <1>0, <3>1, <4>1, RouterAsks DEF Locking
      <4>2. CASE pc' = "idle"
        BY <1>0, <3>1, <4>2 DEF LockOrder, Locking
      <4> QED BY <3>1, <4>1, <4>2
    <3>3. Closings'
      BY <1>0, <3>1 DEF Closings
    <3>4. Connections'
      BY <1>0, <3>1 DEF Connections
    <3> QED BY <3>2, <3>3, <3>4 DEF RoomInv
  <2>15. CASE FallbackGone \/ FellBack
    <3>1. /\ epc' = epc /\ Holds("router") /\ lock' = Tail(lock) /\ SwitchToBatch
          /\ pc' = "idle"
      BY <2>15 DEF FallbackGone, FellBack, EndClose
    <3>2. epc[room] = "quiet" /\ lock' = <<>>
      BY <1>0, <1>a, <3>1, RouterHolds
    <3>3. sess'[room].prov = "batch" /\ ~sess'[room].conn
      BY <1>0, <1>a, <3>1, SwitchRoom
    <3>4. LockOrder'
      BY <1>a, <3>1, <3>2 DEF LockOrder, Locking
    <3>5. Closings'
      BY <1>a, <3>1, <3>2 DEF Closings
    <3>6. Connections'
      BY <1>a, <3>1, <3>3 DEF Connections, SessionConnection
    <3> QED BY <3>4, <3>5, <3>6 DEF RoomInv
  <2> QED BY <1>2, <2>1, <2>2, <2>3, <2>4, <2>5, <2>6, <2>7, <2>8, <2>9, <2>10, <2>11,
      <2>12, <2>13, <2>14, <2>15 DEF RouterStep, RouterGoesOn, RouterResumes
<1>3. ASSUME NEW r \in Rooms, Partial(r) \/ FinalTranscript(r) \/ Drop(r)
      PROVE  RoomInv'
  <2>1. UNCHANGED <<pc, target, lock, epc>>
    BY <1>3 DEF Partial, FinalTranscript, Drop, closing
  <2>2. \A q \in Rooms : /\ sess'[q].live = sess[q].live
                         /\ sess'[q].prov = sess[q].prov /\ sess'[q].conn = sess[q].conn
    BY <1>0, <1>3, PartialKeeps DEF Partial, FinalTranscript, Drop
  <2>3. \A q \in Rooms : pool'[q] = pool[q] \/ (pool[q] = "up" /\ pool'[q] = "dead")
    BY <1>0, <1>3 DEF Partial, FinalTranscript, Drop, TypeOK
  <2>4. Aside
    BY <2>1, <2>2, <2>3 DEF Aside
  <2> QED BY <2>4, AsideKeeps
<1>4. ASSUME NEW r \in Rooms, ListenerError(r), ~RouterRuns PROVE RoomInv'
  <2>1. /\ UNCHANGED <<pc, sess>> /\ pool[r] = "up" /\ epc[r] = "quiet" /\ sess[room].live
        /\ epc' = [epc EXCEPT ![r] = "wait"] /\ lock' = Append(lock, r)
        /\ \E st \in {"mute", "dead"} : pool' = [pool EXCEPT ![r] = st]
    BY <1>4 DEF ListenerError, Heard, CallClose
  <2>2. r = room
    BY <1>a
  <2>3. pc \notin {"reclose", "reclosing"}
    BY <2>1 DEF IInv, Phases, Opening, Claiming
  <2>4. pc \notin {"getconn", "connecting", "selfwait", "falling"}
    BY <1>0, <2>1 DEF Connections, SessionConnection, Closings
  <2>5. pc # "fallback"
    <3>1. SUFFICES ASSUME pc = "fallback" PROVE FALSE
      OBVIOUS
    <3>2. lock = <<"router">>
      BY <1>0, <2>1, <3>1 DEF LockOrder, Locking
    <3> QED BY <1>4, <3>1, <3>2, LockTuples DEF RouterRuns, Holds
  <2>6. pc \notin Locking
    BY <2>3, <2>4, <2>5 DEF Locking
  <2>7. lock' = <<r>>
    BY <1>0, <2>1, <2>6, LockTuples DEF LockOrder
  <2>8. epc'[r] = "wait" /\ pool'[r] \in {"mute", "dead"}
    BY <1>0, <2>1 DEF TypeOK
  <2>9. LockOrder'
    BY <1>a, <2>1, <2>6, <2>7, <2>8 DEF LockOrder
  <2>10. Closings'
    BY <1>a, <2>1, <2>6, <2>8 DEF Closings, Locking
  <2>11. Connections'
    BY <1>0, <1>a, <2>1, <2>6, <2>8 DEF Connections, SessionConnection, Locking
  <2> QED BY <2>9, <2>10, <2>11 DEF RoomInv
<1>5. ASSUME NEW r \in Rooms, ErrorClose(r) PROVE RoomInv'
  <2>1. /\ UNCHANGED <<pc, sess, lock, target>> /\ epc[r] = "wait" /\ BeginClose(r)
        /\ epc' = [epc EXCEPT ![r] = "closing"]
    BY <1>5 DEF ErrorClose
  <2>2. target[r] = r /\ pool[r] # "none"
    BY <1>0, <2>1 DEF BeginClose, Closes, TypeOK, Tasks, OneRoom
  <2>3. epc'[r] = "closing" /\ pool'[r] \in {"closing", "draining"}
    BY <1>0, <2>1, <2>2 DEF BeginClose, TypeOK
  <2>4. \A q \in Rooms : q = r
    BY DEF OneRoom
  <2>5. LockOrder'
    BY <1>0, <2>1, <2>3, <2>4 DEF LockOrder
  <2>6. Closings'
    BY <1>0, <2>1, <2>3, <2>4 DEF Closings
  <2>7. Connections'
    BY <1>0, <2>1, <2>2, <2>3, <2>4 DEF Connections, SessionConnection
  <2> QED BY <2>5, <2>6, <2>7 DEF RoomInv
<1>6. ASSUME NEW r \in Rooms, ErrorGone(r) \/ ErrorClosed(r) PROVE RoomInv'
  <2>1. /\ pc' = pc /\ Holds(r) /\ lock' = Tail(lock) /\ SwitchToBatch
        /\ epc' = [epc EXCEPT ![r] = "quiet"] /\ target' = [target EXCEPT ![r] = NoRoom]
    BY <1>6 DEF ErrorGone, ErrorClosed, EndClose
  <2>2. \A q \in Rooms : q = r
    BY DEF OneRoom
  <2>3. /\ epc[r] # "quiet" /\ epc'[r] = "quiet"
        /\ pc \in Locking => lock' = <<"router">>
        /\ pc \notin Locking => lock' = <<>>
    BY <1>0, <2>1, ListenerHolds DEF TypeOK
  <2>4. sess'[r].prov = "batch" /\ ~sess'[r].conn
    BY <1>0, <2>1, SwitchRoom
  <2>5. target'["router"] = target["router"]
    BY <1>0, <2>1, SttAssumption DEF TypeOK, Tasks
  <2>6. pc \notin {"reclosing", "falling", "connecting", "selfwait"}
    BY <1>0, <2>3 DEF Closings
  <2>7. pc # "getconn"
    BY <1>0, <2>3 DEF Connections, SessionConnection, Closings
  <2>8. LockOrder'
    BY <2>1, <2>2, <2>3 DEF LockOrder
  <2>9. Closings'
    BY <1>0, <2>1, <2>2, <2>3, <2>5, <2>6 DEF Closings
  <2>10. Connections'
    BY <2>1, <2>2, <2>4, <2>6, <2>7 DEF Connections, SessionConnection
  <2> QED BY <2>8, <2>9, <2>10 DEF RoomInv
<1>7. CASE UNCHANGED vars
  BY <1>7 DEF vars, conns, closing, RoomInv, LockOrder, Closings, Connections
<1> QED BY <1>1, <1>2, <1>3, <1>4, <1>5, <1>6, <1>7
    DEF Next, Clients, ListenerStep, ErrorStep

\* While one room is on the router's loop, whatever the clients, the provider
\* and the listener do, a session that fell back to the batch API holds no
\* streaming connection (on_error, get_or_create_connection).
THEOREM BatchHasNoConnectionThm ==
    ASSUME OneRoom PROVE Spec => []BatchHasNoConnection
<1>1. Init => RoomInv
  BY DEF Init, RoomInv, LockOrder, Closings, Connections, SessionConnection, NoSession,
      Locking
<1>2. IInv /\ RoomInv /\ [Next]_vars => RoomInv'
  BY NextRoomInv
<1>3. RoomInv => BatchHasNoConnection
  BY DEF RoomInv, Connections, SessionConnection, BatchHasNoConnection
<1> QED BY <1>1, <1>2, <1>3, InductiveInvariant, PTL DEF Spec
=============================================================================
