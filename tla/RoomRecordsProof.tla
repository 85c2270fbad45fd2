---------------------------- MODULE RoomRecordsProof ----------------------------
(***************************************************************************)
(* Proofs about RoomRecords: that what is kept of a code has the consent   *)
(* of its room, is all of it or nothing, and is paired by the history, for *)
(* every set of languages and all bounds.                                  *)
(***************************************************************************)
EXTENDS RoomRecords, SequenceTheorems, FiniteSetTheorems, TLAPS

\* The second part of KeptWithConsent.
Consent ==
    /\ (segments # {} \/ translations # {} \/ (cache # None /\ cache.rec))
         => room # None /\ room.rec
    /\ \A s \in segments : s.room = room.id
    /\ archive \in {None, 0}

\* The room the cleanup has counted is still there, has no consent and no segments.
ClosingUnrecorded ==
    closing # None =>
        /\ room # None /\ room.id = closing.id
        /\ ~room.rec /\ closing.count = 0

\* persist_loop has a message between the queries for it, and looks for the room
\* only while it has none in the cache.
LoopShape ==
    /\ step = Idle \/ (step.at # "idle" /\ step.msg # None)
    /\ step.at \in {"select", "create"} => cache = None
    /\ step.at \in {"refresh", "store"} => cache # None

\* What is on its way was said, or was translated.
Published ==
    \A m \in Untold :
        /\ m.of \in DOMAIN said
        /\ m.kind = "mt" => m.tgt \in Targets /\ <<m.of, m.tgt>> \in sent

\* m before n: a final follows all that is about earlier ones, and translations come
\* in the order of their finals.
Before(m, n) ==
    /\ n.kind = "stt" => m.of < n.of
    /\ m.kind = "mt" /\ n.kind = "mt" => m.of <= n.of

InOrder ==
    /\ \A i, j \in DOMAIN wire : i < j => Before(wire[i], wire[j])
    /\ step # Idle => \A j \in DOMAIN wire : Before(step.msg, wire[j])

\* Only persist_loop makes a recorded room, and it keeps in mind what it made.
RecordedIsCached ==
    ~missed /\ room # None /\ room.rec => cache # None /\ cache.rec /\ cache.id = room.id

\* It stores the finals as long as it does not know of a room without consent.
Storing == ~missed /\ (cache = None \/ cache.rec)

FinalsStored == Storing => Stored = DOMAIN said \ Pending

\* The rows of translations: one for a segment and a language, of a translation that
\* was made, none ahead of what is on its way.
RowsTidy ==
    /\ \A t, u \in translations : t.seg = u.seg /\ t.tgt = u.tgt => t = u
    /\ \A t \in translations :
        /\ <<t.of, t.tgt>> \in sent
        /\ t.seg = said[t.of].seg
        /\ \A m \in Untold : m.kind = "mt" => t.of <= m.of

Arriving(i, tgt) == \E m \in Untold : m.kind = "mt" /\ m.of = i /\ m.tgt = tgt

Arrived(i, tgt) ==
    \E t \in translations : t.seg = said[i].seg /\ t.tgt = tgt /\ t.of >= i

TranslationsStored == Storing => \A p \in sent : Arriving(p[1], p[2]) \/ Arrived(p[1], p[2])

IInv ==
    /\ TypeOK /\ Consent
    /\ ClosingUnrecorded /\ LoopShape /\ Published /\ InOrder
    /\ RecordedIsCached /\ FinalsStored /\ OriginalKept
    /\ RowsTidy /\ TranslationsStored
-----------------------------------------------------------------------------
\* What a step does to the messages persist_loop has not dealt with.
LEMMA UntoldTyped == ASSUME TypeOK, LoopShape PROVE Untold \subseteq Message
  BY DEF TypeOK, LoopShape, Untold

LEMMA PublishUntold ==
    ASSUME TypeOK, NEW m \in Message, Publishes(m)
    PROVE  /\ Untold' = Untold \cup {m}
           /\ wire' \in Seq(Message) /\ Len(wire') = Len(wire) + 1
           /\ \A i \in DOMAIN wire : wire'[i] = wire[i]
           /\ wire'[Len(wire) + 1] = m
  <1>1. wire \in Seq(Message) /\ wire' = Append(wire, m) /\ step' = step
    BY DEF TypeOK, Publishes
  <1>2. /\ wire' \in Seq(Message) /\ Len(wire') = Len(wire) + 1
        /\ \A i \in DOMAIN wire : wire'[i] = wire[i]
        /\ wire'[Len(wire) + 1] = m
    BY <1>1
  <1>3. DOMAIN wire' = DOMAIN wire \cup {Len(wire) + 1}
    BY <1>1
  <1>4. {wire'[i] : i \in DOMAIN wire'} = {wire[i] : i \in DOMAIN wire} \cup {m}
    BY <1>2, <1>3
  <1> QED
    BY <1>1, <1>2, <1>4 DEF Untold

LEMMA TakeUntold ==
    ASSUME TypeOK, LoopShape, Take
    PROVE  /\ Untold' = Untold
           /\ wire' \in Seq(Message) /\ Len(wire') = Len(wire) - 1
           /\ \A i \in DOMAIN wire' : i + 1 \in DOMAIN wire /\ wire'[i] = wire[i + 1]
           /\ 1 \in DOMAIN wire /\ step'.msg = wire[1] /\ wire[1] \in Message
           /\ step = Idle /\ step' # Idle
  <1>1. wire \in Seq(Message) /\ wire # <<>> /\ wire' = Tail(wire) /\ step = Idle
    BY DEF TypeOK, Take, LoopShape
  <1>2. /\ wire' \in Seq(Message) /\ Len(wire') = Len(wire) - 1 /\ Head(wire) = wire[1]
        /\ \A i \in DOMAIN wire' : i + 1 \in DOMAIN wire /\ wire'[i] = wire[i + 1]
        /\ 1 \in DOMAIN wire
    BY <1>1
  <1>3. step'.msg = wire[1] /\ wire[1] \in Message
    BY <1>1, <1>2 DEF Take
  <1>4. step' # Idle
    BY <1>3, RecordsAssumption DEF Idle
  <1>5. \A i \in DOMAIN wire : i = 1 \/ (i - 1 \in DOMAIN wire' /\ wire'[i - 1] = wire[i])
    BY <1>1, <1>2
  <1>6. {wire[i] : i \in DOMAIN wire} = {wire'[i] : i \in DOMAIN wire'} \cup {wire[1]}
    <2>1. ASSUME NEW i \in DOMAIN wire
          PROVE  wire[i] \in {wire'[j] : j \in DOMAIN wire'} \cup {wire[1]}
      <3>1. i = 1 \/ \E j \in DOMAIN wire' : wire'[j] = wire[i]
        BY <1>5
      <3> QED
        BY <3>1
    <2>2. ASSUME NEW j \in DOMAIN wire'
          PROVE  wire'[j] \in {wire[i] : i \in DOMAIN wire}
      <3>1. \E i \in DOMAIN wire : wire[i] = wire'[j]
        BY <1>2
      <3> QED
        BY <3>1
    <2> DEFINE before == {wire[i] : i \in DOMAIN wire}
               after  == {wire'[i] : i \in DOMAIN wire'}
    <2>3. before \subseteq after \cup {wire[1]}
      BY <2>1
    <2>4. after \subseteq before /\ wire[1] \in before
      BY <1>2, <2>2
    <2> HIDE DEF before, after
    <2>5. before = after \cup {wire[1]}
      BY <2>3, <2>4
    <2> QED
      BY <2>5 DEF before, after
  <1> QED
    BY <1>1, <1>2, <1>3, <1>4, <1>6 DEF Untold

LEMMA DoneUntold ==
    ASSUME TypeOK, LoopShape, step # Idle, step' = Idle, wire' = wire
    PROVE  Untold = Untold' \cup {step.msg} /\ step.msg \in Message
  BY DEF TypeOK, LoopShape, Untold

LEMMA GoOnUntold ==
    ASSUME TypeOK, LoopShape, step # Idle, wire' = wire,
           NEW x, x # "idle", step' = [step EXCEPT !.at = x]
    PROVE  Untold' = Untold /\ step'.msg = step.msg /\ step' # Idle
  BY DEF TypeOK, LoopShape, Untold, Idle
-----------------------------------------------------------------------------
LEMMA InitInv == Init => IInv
  <1> SUFFICES ASSUME Init PROVE IInv
    OBVIOUS
  <1>1. TypeOK
    <2>1. /\ rooms \in 0..MaxRooms /\ faults \in 0..MaxFaults
          /\ room \in {None} \cup Row /\ (room # None => room.id = rooms)
          /\ archive \in {None} \cup Nat /\ closing \in {None} \cup Count
          /\ cache \in {None} \cup Row /\ relay \in {None} \cup Nat
      BY RecordsAssumption DEF Init
    <2>2. /\ said \in Seq([seg : Nat \ {0}, better : BOOLEAN]) /\ wire \in Seq(Message)
          /\ sent \subseteq (DOMAIN said) \X Targets
          /\ segments \subseteq [room : Nat \ {0}, of : DOMAIN said]
          /\ translations \subseteq [seg : Nat \ {0}, tgt : Targets, of : DOMAIN said]
      BY DEF Init
    <2>3. step \in [at : {"idle", "select", "create", "refresh", "store"}, msg : {None} \cup Message]
      BY DEF Init, Idle
    <2>4. refreshes \in BOOLEAN /\ missed \in BOOLEAN
      BY Zenon DEF Init
    <2> QED
      BY <2>1, <2>2, <2>3, <2>4 DEF TypeOK
  <1>2. Untold = {} /\ Stored = {}
    BY DEF Init, Untold, Stored
  <1>3. Consent /\ ClosingUnrecorded /\ LoopShape /\ RecordedIsCached
    BY DEF Init, Consent, ClosingUnrecorded, LoopShape, RecordedIsCached, Idle
  <1>4. Published /\ InOrder
    BY <1>2 DEF Init, Published, InOrder
  <1>5. FinalsStored /\ TranslationsStored /\ OriginalKept /\ RowsTidy
    BY <1>2 DEF Init, FinalsStored, TranslationsStored, OriginalKept, RowsTidy, Pending
  <1> QED
    BY <1>1, <1>3, <1>4, <1>5 DEF IInv

\* The finals said have segments.
LEMMA SaidTyped ==
    ASSUME TypeOK
    PROVE  /\ \A i \in DOMAIN said : i \in Nat \ {0} /\ i <= Len(said) /\ said[i].seg \in Nat \ {0}
           /\ said # <<>> => Len(said) \in DOMAIN said
           /\ Len(said) \in Nat /\ DOMAIN said = 1..Len(said)
  <1>1. said \in Seq([seg : Nat \ {0}, better : BOOLEAN])
    BY DEF TypeOK
  <1>2. Len(said) \in Nat /\ DOMAIN said = 1..Len(said)
    BY <1>1
  <1>3. said # <<>> => Len(said) \in DOMAIN said
    BY <1>1, <1>2, EmptySeq
  <1>4. \A i \in DOMAIN said : said[i].seg \in Nat \ {0}
    <2>1. \A i \in DOMAIN said : said[i] \in [seg : Nat \ {0}, better : BOOLEAN]
      BY <1>1, <1>2, ElementOfSeq
    <2> QED
      BY <2>1
  <1> QED
    BY <1>2, <1>3, <1>4

\* The message in hand is one that was published.
LEMMA InHand ==
    ASSUME TypeOK, LoopShape, Published, step.at # "idle"
    PROVE  /\ step.msg \in Untold /\ step.msg \in Message /\ step # Idle
           /\ step.msg.of \in DOMAIN said
           /\ step.msg.kind = "mt" => step.msg.tgt \in Targets /\ <<step.msg.of, step.msg.tgt>> \in sent
  <1>1. step # Idle
    BY DEF Idle
  <1>2. step.msg \in Untold /\ step.msg \in Message
    BY <1>1 DEF LoopShape, TypeOK, Untold
  <1> QED
    BY <1>1, <1>2 DEF Published

LEMMA KnownStep == Known \in {"refresh", "store"}
  BY DEF Known

\* A new row of rooms.
LEMMA NewRoomTyped ==
    ASSUME TypeOK, NEW rec \in BOOLEAN, NewRoom(rec)
    PROVE  /\ rooms' \in 0..MaxRooms
           /\ room' \in Row /\ room' # None /\ room'.id = rooms' /\ room'.rec = rec
  <1>1. rooms' \in 0..MaxRooms /\ rooms + 1 \in Nat \ {0}
    BY RecordsAssumption DEF TypeOK, NewRoom
  <1>2. room' \in Row /\ room'.id = rooms' /\ room'.rec = rec
    BY <1>1 DEF NewRoom, NewId, Row
  <1> QED
    BY <1>1, <1>2, RecordsAssumption

\* A room without consent has nothing to count.
LEMMA CountedTyped ==
    ASSUME TypeOK, Consent, CleanCounts
    PROVE  closing' \in Count /\ closing'.count = 0 /\ closing'.id = room.id
  <1>1. segments = {} /\ room \in Row
    BY DEF TypeOK, Consent, CleanCounts, Chosen
  <1>2. {s \in segments : s.room = room.id} = {}
    BY <1>1
  <1>3. Cardinality({s \in segments : s.room = room.id}) = 0
    BY <1>2, FS_EmptySet
  <1> QED
    <2>1. closing' = [id |-> room.id, count |-> 0]
      BY <1>3 DEF CleanCounts
    <2>2. room.id \in Nat \ {0}
      BY <1>1 DEF Row
    <2> QED
      BY <2>1, <2>2 DEF Count

LEMMA TypeStep == ASSUME IInv, [Next]_vars PROVE TypeOK'
  <1> USE RecordsAssumption DEF IInv
  <1>1. ASSUME CreateRoom PROVE TypeOK'
    BY <1>1, NewRoomTyped DEF CreateRoom, TypeOK, bus, store
  <1>2. ASSUME RelayStores PROVE TypeOK'
    <2>1. relay' \in {None} \cup Nat
      BY <1>2 DEF RelayStores, TypeOK
    <2>2. /\ room' \in {None} \cup Row /\ rooms' \in 0..MaxRooms
          /\ room' # None => room'.id = rooms'
      BY <1>2, NewRoomTyped DEF RelayStores, TypeOK
    <2>3. UNCHANGED <<archive, closing, bus, store, faults>>
      BY <1>2 DEF RelayStores
    <2> QED
      BY <2>1, <2>2, <2>3 DEF TypeOK, bus, store
  <1>3. ASSUME SubmitTranscript PROVE TypeOK'
    BY <1>3 DEF SubmitTranscript, TypeOK, rows, bus, store
  <1>4. ASSUME CleanCounts PROVE TypeOK'
    <2>1. closing' \in Count
      BY <1>4, CountedTyped
    <2>2. UNCHANGED <<room, rooms, archive, bus, store, relay, faults>>
      BY <1>4 DEF CleanCounts
    <2> QED
      BY <2>1, <2>2 DEF TypeOK, bus, store
  <1>5. ASSUME CleanDeletes PROVE TypeOK'
    BY <1>5 DEF CleanDeletes, TypeOK, bus, Count
  <1>6. ASSUME CleanFails PROVE TypeOK'
    BY <1>6 DEF CleanFails, Fault, TypeOK, bus, store
  <1>7. ASSUME NEW seg \in Nat \ {0}, NEW better \in BOOLEAN, Says(seg, better) PROVE TypeOK'
    <2>1. said' \in Seq([seg : Nat \ {0}, better : BOOLEAN]) /\ DOMAIN said \subseteq DOMAIN said'
      BY <1>7 DEF Says, TypeOK
    <2>2. [kind |-> "stt", of |-> Len(said) + 1, tgt |-> None] \in Message
      BY DEF TypeOK, Message
    <2>3. wire' \in Seq(Message)
      BY <1>7, <2>2, PublishUntold DEF Says
    <2>4. relay' \in {None} \cup Nat
      BY <1>7 DEF Says, Publishes, TypeOK
    <2> QED
      BY <1>7, <2>1, <2>3, <2>4 DEF Says, Publishes, TypeOK, rows
  <1>8. ASSUME Final PROVE TypeOK'
    <2>1. NextSegment \in Nat \ {0}
      BY SaidTyped DEF NextSegment
    <2> QED
      BY <1>7, <1>8, <2>1 DEF Final
  <1>9. ASSUME BetterFinal PROVE TypeOK'
    <2>1. said[Len(said)].seg \in Nat \ {0}
      BY <1>9, SaidTyped DEF BetterFinal
    <2> QED
      BY <1>7, <1>9, <2>1 DEF BetterFinal
  <1>10. ASSUME NEW i \in DOMAIN said, NEW tgt \in Targets, Translated(i, tgt) PROVE TypeOK'
    <2>1. i \in Nat \ {0}
      BY DEF TypeOK
    <2>2. [kind |-> "mt", of |-> i, tgt |-> tgt] \in Message
      BY <2>1 DEF Message
    <2>3. wire' \in Seq(Message)
      BY <1>10, <2>2, PublishUntold DEF Translated
    <2>4. relay' \in {None} \cup Nat
      BY <1>10 DEF Translated, Publishes, TypeOK
    <2> QED
      BY <1>10, <2>3, <2>4 DEF Translated, Publishes, TypeOK, rows
  <1>11. ASSUME Take PROVE TypeOK'
    <2>1. step' \in [at : {"idle", "select", "create", "refresh", "store"}, msg : {None} \cup Message]
      BY <1>11, TakeUntold DEF Take, Known, TypeOK
    <2> QED
      BY <1>11, <2>1, TakeUntold DEF Take, TypeOK, rows, bus
  <1>12. ASSUME SelectRoom PROVE TypeOK'
    BY <1>12 DEF SelectRoom, Known, TypeOK, rows, bus
  <1>13. ASSUME InsertRoom PROVE TypeOK'
    <2>1. step' \in [at : {"idle", "select", "create", "refresh", "store"}, msg : {None} \cup Message]
      <3>1. step' = Idle \/ step' = CreatedStep
        BY <1>13 DEF InsertRoom
      <3>2. CreatedStep \in [at : {"idle", "select", "create", "refresh", "store"}, msg : {None} \cup Message]
        BY KnownStep DEF CreatedStep, TypeOK
      <3> QED
        BY <3>1, <3>2 DEF Idle
    <2>2. \/ NewRoom(TRUE) /\ cache' = [id |-> NewId, rec |-> TRUE] /\ missed' = missed
          \/ UNCHANGED <<room, rooms, cache>> /\ missed' = TRUE
      BY <1>13 DEF InsertRoom
    <2>3. UNCHANGED <<archive, closing, bus, wire, refreshes, segments, translations, relay, faults>>
      BY <1>13 DEF InsertRoom
    <2>4. CASE NewRoom(TRUE) /\ cache' = [id |-> NewId, rec |-> TRUE] /\ missed' = missed
      <3>1. cache' \in Row
        BY <2>4, NewRoomTyped DEF NewRoom
      <3> QED
        BY <2>1, <2>3, <2>4, <3>1, NewRoomTyped DEF TypeOK, bus
    <2>5. CASE UNCHANGED <<room, rooms, cache>> /\ missed' = TRUE
      BY <2>1, <2>3, <2>5 DEF TypeOK, bus
    <2> QED
      BY <2>2, <2>4, <2>5
  <1>14. ASSUME Refresh PROVE TypeOK'
    <2>1. cache \in Row
      BY <1>14 DEF Refresh, LoopShape, TypeOK
    <2>2. cache' \in Row
      BY <1>14, <2>1 DEF Refresh, Row
    <2>3. step' \in [at : {"idle", "select", "create", "refresh", "store"}, msg : {None} \cup Message]
      BY <1>14 DEF Refresh, TypeOK
    <2>4. UNCHANGED <<rows, bus, wire, refreshes, segments, translations, missed, relay, faults>>
      BY <1>14 DEF Refresh
    <2> QED
      BY <2>2, <2>3, <2>4 DEF TypeOK, rows, bus
  <1>15. ASSUME Skip PROVE TypeOK'
    BY <1>15 DEF Skip, Idle, TypeOK, rows, bus
  <1>16. ASSUME InsertSegment PROVE TypeOK'
    <2>1. step' \in [at : {"idle", "select", "create", "refresh", "store"}, msg : {None} \cup Message]
      BY <1>16 DEF InsertSegment, Idle
    <2>2. step.msg.of \in DOMAIN said /\ cache.id \in Nat \ {0}
      BY <1>16, InHand DEF InsertSegment, LoopShape, TypeOK, Row
    <2>3. segments' \subseteq [room : Nat \ {0}, of : DOMAIN said]
      BY <1>16, <2>2 DEF InsertSegment, TypeOK
    <2>4. missed' \in BOOLEAN
      BY <1>16 DEF InsertSegment, TypeOK
    <2>5. UNCHANGED <<rows, bus, wire, cache, refreshes, translations, relay, faults>>
      BY <1>16 DEF InsertSegment
    <2> QED
      BY <2>1, <2>3, <2>4, <2>5 DEF TypeOK, rows, bus
  <1>17. ASSUME PutTranslation PROVE TypeOK'
    <2>1. step' \in [at : {"idle", "select", "create", "refresh", "store"}, msg : {None} \cup Message]
      BY <1>17 DEF PutTranslation, Idle
    <2>2. step.msg.of \in DOMAIN said /\ step.msg.tgt \in Targets
      BY <1>17, InHand DEF PutTranslation
    <2>3. SegmentOf(step.msg) \in Nat \ {0}
      BY <2>2, SaidTyped DEF SegmentOf
    <2>4. \A t \in [seg : Nat \ {0}, tgt : Targets, of : DOMAIN said] :
             [t EXCEPT !.of = step.msg.of] \in [seg : Nat \ {0}, tgt : Targets, of : DOMAIN said]
      BY <2>2
    <2>5. translations' \subseteq [seg : Nat \ {0}, tgt : Targets, of : DOMAIN said]
      <3> DEFINE rowsOf == [seg : Nat \ {0}, tgt : Targets, of : DOMAIN said]
                 m      == step.msg
      <3>1. translations \subseteq rowsOf /\ Existing(m) \subseteq translations
        BY DEF TypeOK, Existing
      <3>2. [seg |-> SegmentOf(m), tgt |-> m.tgt, of |-> m.of] \in rowsOf
        BY <2>2, <2>3
      <3>3. {[t EXCEPT !.of = m.of] : t \in Existing(m)} \subseteq rowsOf
        BY <2>4, <3>1
      <3>4. \/ translations' = translations \cup {[seg |-> SegmentOf(m), tgt |-> m.tgt, of |-> m.of]}
            \/ translations' = (translations \ Existing(m))
                                  \cup {[t EXCEPT !.of = m.of] : t \in Existing(m)}
        BY <1>17 DEF PutTranslation
      <3> HIDE DEF rowsOf, m
      <3>5. translations' \subseteq rowsOf
        BY <3>1, <3>2, <3>3, <3>4
      <3> QED
        BY <3>5 DEF rowsOf
    <2>6. missed' \in BOOLEAN
      BY <1>17 DEF PutTranslation, TypeOK
    <2>7. UNCHANGED <<rows, bus, wire, cache, refreshes, segments, relay, faults>>
      BY <1>17 DEF PutTranslation
    <2> QED
      BY <2>1, <2>5, <2>6, <2>7 DEF TypeOK, rows, bus
  <1>18. ASSUME QueryFails PROVE TypeOK'
    BY <1>18 DEF QueryFails, Fault, Idle, TypeOK, rows, bus
  <1>19. ASSUME Restart PROVE TypeOK'
    BY <1>19 DEF Restart, Fault, Idle, TypeOK, rows, bus
  <1>20. CASE UNCHANGED vars
    BY <1>20 DEF vars, rows, bus, store, TypeOK
  <1> QED
    BY <1>1, <1>2, <1>3, <1>4, <1>5, <1>6, <1>8, <1>9, <1>10, <1>11, <1>12, <1>13, <1>14, <1>15,
       <1>16, <1>17, <1>18, <1>19, <1>20
    DEF Next, Rooms, Speech, Persistence

\* The cache and the phase of the loop.
LEMMA LoopStep == ASSUME IInv, [Next]_vars PROVE LoopShape'
  <1> USE RecordsAssumption DEF IInv, LoopShape
  <1>1. ASSUME UNCHANGED <<step, cache>> PROVE LoopShape'
    BY <1>1
  <1>2. ASSUME Take PROVE LoopShape'
    <2>1. step'.msg # None /\ step'.msg = wire[1]
      BY <1>2, TakeUntold
    <2>2. step'.at = (IF cache = None THEN "select" ELSE Known) /\ cache' = cache
      BY <1>2 DEF Take
    <2> QED
      BY <2>1, <2>2, KnownStep
  <1>3. ASSUME SelectRoom PROVE LoopShape'
    <2>1. /\ step.at = "select" /\ step.msg # None /\ cache' = room
          /\ step' = [step EXCEPT !.at = IF room = None THEN "create" ELSE Known]
      BY <1>3 DEF SelectRoom, Idle
    <2>2. step'.msg = step.msg /\ step'.at = IF room = None THEN "create" ELSE Known
      BY <2>1 DEF TypeOK
    <2> QED
      BY <2>1, <2>2, KnownStep
  <1>4. ASSUME InsertRoom PROVE LoopShape'
    <2>1. CASE step' = Idle
      BY <2>1 DEF Idle
    <2>2. CASE NewRoom(TRUE) /\ cache' = [id |-> NewId, rec |-> TRUE] /\ step' = CreatedStep
      <3>1. cache' # None
        BY <2>2, NewRoomTyped DEF NewRoom
      <3>2. step.msg # None
        BY <1>4 DEF InsertRoom, Idle
      <3>3. step'.msg = step.msg /\ step'.at = Known
        BY <2>2 DEF CreatedStep, TypeOK
      <3> QED
        BY <3>1, <3>2, <3>3, KnownStep
    <2> QED
      BY <1>4, <2>1, <2>2 DEF InsertRoom
  <1>5. ASSUME Refresh PROVE LoopShape'
    <2>1. /\ step.at = "refresh" /\ step.msg # None /\ cache \in Row
          /\ step' = [step EXCEPT !.at = "store"]
      BY <1>5 DEF Refresh, Idle, TypeOK
    <2>2. cache' \in Row
      BY <1>5, <2>1 DEF Refresh, Row
    <2>3. step'.at = "store" /\ step'.msg = step.msg
      BY <2>1 DEF TypeOK
    <2> QED
      BY <2>1, <2>2, <2>3
  <1>6. ASSUME step' = Idle PROVE LoopShape'
    BY <1>6 DEF Idle
  <1> QED
    <2>1. Rooms \/ Speech => UNCHANGED <<step, cache>>
      BY DEF Rooms, Speech, CreateRoom, RelayStores, SubmitTranscript, CleanCounts, CleanDeletes,
             CleanFails, Final, BetterFinal, Says, Translated, Publishes, store
    <2>2. Skip \/ InsertSegment \/ PutTranslation \/ QueryFails \/ Restart => step' = Idle
      BY DEF Skip, InsertSegment, PutTranslation, QueryFails, Restart
    <2>3. UNCHANGED vars => UNCHANGED <<step, cache>>
      BY DEF vars, store
    <2> QED
      BY <1>1, <1>2, <1>3, <1>4, <1>5, <1>6, <2>1, <2>2, <2>3 DEF Next, Persistence

\* What is kept has the consent of its room.
LEMMA ConsentStep ==
    ASSUME IInv, [Next]_vars
    PROVE  Consent' /\ ClosingUnrecorded' /\ RecordedIsCached'
  <1> DEFINE Goal == Consent' /\ ClosingUnrecorded' /\ RecordedIsCached'
  <1> USE RecordsAssumption DEF IInv, Consent, ClosingUnrecorded, RecordedIsCached
  <1>1. ASSUME NewRoom(FALSE), room = None, UNCHANGED <<archive, closing, store>> PROVE Goal
    BY <1>1, NewRoomTyped DEF store
  <1>2. ASSUME CreateRoom PROVE Goal
    BY <1>1, <1>2 DEF CreateRoom
  <1>3. ASSUME RelayStores PROVE Goal
    BY <1>1, <1>3 DEF RelayStores, store
  <1>4. ASSUME CleanCounts PROVE Goal
    BY <1>4, CountedTyped DEF CleanCounts, Chosen, store
  <1>5. ASSUME CleanDeletes PROVE Goal
    BY <1>5 DEF CleanDeletes, TypeOK
  <1>6. ASSUME CleanFails PROVE Goal
    BY <1>6 DEF CleanFails, store
  <1>7. ASSUME SelectRoom PROVE Goal
    BY <1>7 DEF SelectRoom, rows
  <1>8. ASSUME InsertRoom PROVE Goal
    <2>1. CASE missed' = TRUE /\ UNCHANGED <<room, cache>>
      BY <1>8, <2>1 DEF InsertRoom
    <2>2. CASE room = None /\ NewRoom(TRUE) /\ cache' = [id |-> NewId, rec |-> TRUE]
      <3>1. room' = cache' /\ room' # None /\ room'.rec
        BY <2>2, NewRoomTyped DEF NewRoom
      <3>2. segments' = {} /\ archive' = archive /\ closing' = None
        BY <1>8, <2>2 DEF InsertRoom
      <3> QED
        BY <3>1, <3>2
    <2> QED
      BY <1>8, <2>1, <2>2 DEF InsertRoom
  <1>9. ASSUME Refresh PROVE Goal
    <2>1. cache \in Row
      BY <1>9 DEF Refresh, LoopShape, TypeOK
    <2>2. /\ cache' \in Row /\ cache'.id = cache.id
          /\ cache'.rec <=> room # None /\ room.id = cache.id /\ room.rec
      BY <1>9, <2>1 DEF Refresh, Row
    <2>3. UNCHANGED <<rows, segments, translations, missed>>
      BY <1>9 DEF Refresh
    <2> QED
      BY <2>1, <2>2, <2>3 DEF rows
  <1>10. ASSUME InsertSegment PROVE Goal
    <2>1. cache # None /\ cache.rec /\ room # None /\ room.rec
      BY <1>10 DEF InsertSegment, Skips, LoopShape
    <2>2. \A s \in segments' : s.room = room.id
      BY <1>10, <2>1 DEF InsertSegment
    <2>3. UNCHANGED <<rows, cache, translations>> /\ (missed => missed')
      BY <1>10 DEF InsertSegment
    <2> QED
      BY <2>1, <2>2, <2>3 DEF rows
  <1>11. ASSUME PutTranslation PROVE Goal
    <2>1. cache # None /\ cache.rec /\ room # None /\ room.rec
      BY <1>11 DEF PutTranslation, Skips, LoopShape
    <2>2. UNCHANGED <<rows, cache, segments, missed>>
      BY <1>11 DEF PutTranslation
    <2> QED
      BY <2>1, <2>2 DEF rows
  <1>12. ASSUME Restart PROVE Goal
    BY <1>12 DEF Restart, rows
  <1>13. ASSUME UNCHANGED <<rows, cache, segments, translations>>, missed' = missed \/ missed' = TRUE PROVE Goal
    BY <1>13 DEF rows
  <1> QED
    <2>1. SubmitTranscript \/ Take \/ Skip \/ Speech \/ UNCHANGED vars
            => UNCHANGED <<rows, cache, segments, translations, missed>>
      BY DEF SubmitTranscript, Take, Skip, Speech, Final, BetterFinal, Says, Translated,
             Publishes, vars, store
    <2>2. QueryFails => UNCHANGED <<rows, cache, segments, translations>> /\ missed' = TRUE
      BY DEF QueryFails
    <2> QED
      BY <1>2, <1>3, <1>4, <1>5, <1>6, <1>7, <1>8, <1>9, <1>10, <1>11, <1>12, <1>13, <2>1, <2>2
      DEF Next, Rooms, Persistence

-----------------------------------------------------------------------------
\* What is said goes on and stays what it was.
LEMMA SaysMore ==
    ASSUME TypeOK, NEW seg \in Nat \ {0}, NEW better \in BOOLEAN, Says(seg, better)
    PROVE  /\ DOMAIN said' = DOMAIN said \cup {Len(said) + 1}
           /\ \A i \in DOMAIN said : i < Len(said) + 1 /\ said'[i] = said[i]
           /\ Untold' = Untold \cup {[kind |-> "stt", of |-> Len(said) + 1, tgt |-> None]}
           /\ [kind |-> "stt", of |-> Len(said) + 1, tgt |-> None] \in Message
  <1>1. said \in Seq([seg : Nat \ {0}, better : BOOLEAN])
    BY DEF TypeOK
  <1>2. said' = Append(said, [seg |-> seg, better |-> better])
    BY DEF Says
  <1>3. [kind |-> "stt", of |-> Len(said) + 1, tgt |-> None] \in Message
    BY SaidTyped DEF Message
  <1>4. Untold' = Untold \cup {[kind |-> "stt", of |-> Len(said) + 1, tgt |-> None]}
    BY <1>3, PublishUntold DEF Says
  <1> QED
    BY <1>1, <1>2, <1>3, <1>4, SaidTyped

LEMMA FinalSays ==
    ASSUME TypeOK, Final \/ BetterFinal
    PROVE  \E seg \in Nat \ {0}, better \in BOOLEAN : Says(seg, better)
  <1>1. NextSegment \in Nat \ {0}
    BY SaidTyped DEF NextSegment
  <1>2. said # <<>> => said[Len(said)].seg \in Nat \ {0}
    BY SaidTyped
  <1> QED
    BY <1>1, <1>2 DEF Final, BetterFinal

LEMMA TranslatedSends ==
    ASSUME TypeOK, NEW i \in DOMAIN said, NEW tgt \in Targets, Translated(i, tgt)
    PROVE  /\ [kind |-> "mt", of |-> i, tgt |-> tgt] \in Message
           /\ Untold' = Untold \cup {[kind |-> "mt", of |-> i, tgt |-> tgt]}
           /\ sent' = sent \cup {<<i, tgt>>} /\ said' = said
           /\ \A p \in sent : p[1] <= i
  <1>1. [kind |-> "mt", of |-> i, tgt |-> tgt] \in Message
    BY SaidTyped DEF Message
  <1> QED
    BY <1>1, PublishUntold DEF Translated

\* Steps of the loop that keep the message in hand, and steps that are done with it.
LEMMA LoopGoesOn ==
    ASSUME TypeOK, LoopShape,
           SelectRoom \/ Refresh \/ (InsertRoom /\ step' = CreatedStep)
    PROVE  /\ Untold' = Untold /\ wire' = wire
           /\ step # Idle /\ step' # Idle /\ step'.msg = step.msg
  <1>1. step.at # "idle" /\ wire' = wire
    BY DEF SelectRoom, Refresh, InsertRoom
  <1>0. step # Idle
    BY <1>1 DEF Idle
  <1>2. \E x \in {"create", "refresh", "store"} : step' = [step EXCEPT !.at = x]
    BY KnownStep DEF SelectRoom, Refresh, InsertRoom, CreatedStep
  <1> QED
    BY <1>0, <1>1, <1>2, GoOnUntold

LEMMA LoopIsDone ==
    ASSUME TypeOK, LoopShape,
           \/ Skip \/ InsertSegment \/ PutTranslation \/ QueryFails
           \/ InsertRoom /\ step' = Idle
    PROVE  /\ Untold = Untold' \cup {step.msg} /\ step.msg \in Message
           /\ wire' = wire /\ step # Idle /\ step' = Idle
           /\ UNCHANGED <<said, sent>>
  <1>1. step.at # "idle" /\ step' = Idle
    BY DEF Skip, InsertSegment, PutTranslation, QueryFails, InsertRoom
  <1>2. wire' = wire /\ UNCHANGED <<said, sent>>
    BY DEF Skip, InsertSegment, PutTranslation, QueryFails, InsertRoom, bus
  <1>3. step # Idle
    BY <1>1 DEF Idle
  <1> QED
    BY <1>1, <1>2, <1>3, DoneUntold

LEMMA PublishInOrder ==
    ASSUME TypeOK, InOrder, NEW m \in Message, Publishes(m), \A n \in Untold : Before(n, m)
    PROVE  InOrder'
  <1>1. /\ Len(wire') = Len(wire) + 1 /\ wire'[Len(wire) + 1] = m
        /\ \A i \in DOMAIN wire : wire'[i] = wire[i]
        /\ wire \in Seq(Message) /\ wire' \in Seq(Message)
    BY PublishUntold DEF TypeOK
  <1>2. step' = step
    BY DEF Publishes
  <1>3. /\ \A i \in DOMAIN wire : wire[i] \in Untold
        /\ step # Idle => step.msg \in Untold
    BY DEF Untold
  <1>4. /\ \A i \in DOMAIN wire' : i \in DOMAIN wire \/ i = Len(wire) + 1
        /\ \A i \in DOMAIN wire : i < Len(wire) + 1
    BY <1>1
  <1>5. ASSUME NEW i \in DOMAIN wire', NEW j \in DOMAIN wire', i < j
        PROVE  Before(wire'[i], wire'[j])
    BY <1>1, <1>3, <1>4, <1>5 DEF InOrder
  <1>6. ASSUME step # Idle, NEW j \in DOMAIN wire' PROVE Before(step.msg, wire'[j])
    BY <1>1, <1>3, <1>4, <1>6 DEF InOrder
  <1> QED
    BY <1>2, <1>5, <1>6 DEF InOrder, Before

\* The messages stay in order, and are of what was published.
LEMMA QueueStep == ASSUME IInv, [Next]_vars PROVE Published' /\ InOrder'
  <1> USE DEF IInv
  <1>1. ASSUME UNCHANGED <<said, sent, wire, step>> PROVE Published' /\ InOrder'
    <2>1. Untold' = Untold
      BY <1>1 DEF Untold
    <2> QED
      BY <1>1, <2>1 DEF Published, InOrder, Before
  <1>2. ASSUME NEW seg \in Nat \ {0}, NEW better \in BOOLEAN, Says(seg, better)
        PROVE  Published' /\ InOrder'
    <2> DEFINE m == [kind |-> "stt", of |-> Len(said) + 1, tgt |-> None]
    <2>1. /\ m \in Message /\ Untold' = Untold \cup {m} /\ sent' = sent /\ step' = step
          /\ Publishes(m) /\ m.of = Len(said) + 1 /\ m.kind = "stt"
      BY <1>2, SaysMore DEF Says, Publishes
    <2>2. Published'
      <3>1. DOMAIN said' = DOMAIN said \cup {Len(said) + 1}
        BY <1>2, SaysMore
      <3>2. m.of \in DOMAIN said' /\ DOMAIN said \subseteq DOMAIN said' /\ m.kind # "mt"
        BY <3>1, <2>1
      <3> HIDE DEF m
      <3>3. ASSUME NEW n \in Untold'
            PROVE  n.of \in DOMAIN said' /\ (n.kind = "mt" => n.tgt \in Targets /\ <<n.of, n.tgt>> \in sent')
        <4>1. CASE n = m
          BY <3>2, <4>1
        <4>2. CASE n \in Untold
          BY <2>1, <3>2, <4>2 DEF Published
        <4> QED
          BY <2>1, <4>1, <4>2
      <3> QED
        BY <3>3 DEF Published
    <2>3. \A n \in Untold : Before(n, m)
      BY <1>2, <2>1, SaysMore DEF Published, Before
    <2> QED
      BY <2>1, <2>2, <2>3, PublishInOrder
  <1>3. ASSUME NEW i \in DOMAIN said, NEW tgt \in Targets, Translated(i, tgt)
        PROVE  Published' /\ InOrder'
    <2> DEFINE m == [kind |-> "mt", of |-> i, tgt |-> tgt]
    <2>1. /\ m \in Message /\ Untold' = Untold \cup {m} /\ step' = step
          /\ Publishes(m) /\ m.of = i /\ m.kind = "mt" /\ m.tgt = tgt
      BY <1>3, TranslatedSends DEF Translated, Publishes
    <2>2. Published'
      <3> HIDE DEF m
      <3>0. sent' = sent \cup {<<i, tgt>>} /\ said' = said
        BY <1>3 DEF Translated
      <3>1. <<i, tgt>> \in sent' /\ sent \subseteq sent' /\ said' = said
        BY <3>0
      <3>2. ASSUME NEW n \in Untold'
            PROVE  n.of \in DOMAIN said' /\ (n.kind = "mt" => n.tgt \in Targets /\ <<n.of, n.tgt>> \in sent')
        <4>1. CASE n = m
          BY <2>1, <3>1, <4>1
        <4>2. CASE n \in Untold
          BY <3>1, <4>2 DEF Published
        <4> QED
          BY <2>1, <4>1, <4>2
      <3> QED
        BY <3>2 DEF Published
    <2>3. \A n \in Untold : Before(n, m)
      BY <1>3, <2>1, TranslatedSends DEF Published, Before
    <2> QED
      BY <2>1, <2>2, <2>3, PublishInOrder
  <1>4. ASSUME Take PROVE Published' /\ InOrder'
    <2>1. UNCHANGED <<said, sent>>
      BY <1>4 DEF Take, bus
    <2>2. Published'
      BY <1>4, <2>1, TakeUntold DEF Published
    <2>3. wire \in Seq(Message) /\ wire' \in Seq(Message)
      BY <1>4, TakeUntold DEF TypeOK
    <2>4. ASSUME NEW i \in DOMAIN wire', NEW j \in DOMAIN wire', i < j
          PROVE  Before(wire'[i], wire'[j])
      <3>1. /\ i + 1 \in DOMAIN wire /\ j + 1 \in DOMAIN wire /\ i + 1 < j + 1
            /\ wire'[i] = wire[i + 1] /\ wire'[j] = wire[j + 1]
        BY <1>4, <2>3, <2>4, TakeUntold
      <3> QED
        BY <3>1 DEF InOrder
    <2>5. ASSUME NEW j \in DOMAIN wire' PROVE Before(step'.msg, wire'[j])
      <3>1. /\ 1 \in DOMAIN wire /\ j + 1 \in DOMAIN wire /\ 1 < j + 1
            /\ step'.msg = wire[1] /\ wire'[j] = wire[j + 1]
        BY <1>4, <2>3, TakeUntold
      <3> QED
        BY <3>1 DEF InOrder
    <2> QED
      BY <2>2, <2>4, <2>5 DEF InOrder, Before
  <1>5. ASSUME SelectRoom \/ Refresh \/ (InsertRoom /\ step' = CreatedStep) PROVE Published' /\ InOrder'
    <2>1. UNCHANGED <<said, sent>>
      BY <1>5 DEF SelectRoom, Refresh, InsertRoom, bus
    <2> QED
      BY <1>5, <2>1, LoopGoesOn DEF Published, InOrder, Before
  <1>6. ASSUME \/ Skip \/ InsertSegment \/ PutTranslation \/ QueryFails
               \/ InsertRoom /\ step' = Idle
        PROVE  Published' /\ InOrder'
    BY <1>6, LoopIsDone DEF Published, InOrder, Before
  <1>7. ASSUME Restart PROVE Published' /\ InOrder'
    <2>1. Untold' = {} /\ DOMAIN wire' = {} /\ step' = Idle
      BY <1>7 DEF Restart, Untold
    <2> QED
      BY <2>1 DEF Published, InOrder
  <1> QED
    <2>1. Rooms \/ UNCHANGED vars => UNCHANGED <<said, sent, wire, step>>
      BY DEF Rooms, CreateRoom, RelayStores, SubmitTranscript, CleanCounts, CleanDeletes, CleanFails,
             vars, store, bus
    <2>2. InsertRoom => step' = CreatedStep \/ step' = Idle
      BY DEF InsertRoom
    <2> QED
      BY <1>1, <1>2, <1>3, <1>4, <1>5, <1>6, <1>7, <2>1, <2>2, FinalSays
      DEF Next, Speech, Persistence

\* The row of translations an UPDATE leaves.
LEMMA RowChanged ==
    ASSUME TypeOK, NEW x, NEW t \in translations
    PROVE  [t EXCEPT !.of = x] = [seg |-> t.seg, tgt |-> t.tgt, of |-> x]
  <1>1. t \in [seg : Nat \ {0}, tgt : Targets, of : DOMAIN said]
    BY DEF TypeOK
  <1>2. t = [seg |-> t.seg, tgt |-> t.tgt, of |-> t.of]
    BY <1>1
  <1> QED
    BY <1>2

\* What the tables have of the code.
Tables == FinalsStored /\ OriginalKept /\ RowsTidy /\ TranslationsStored

LEMMA TableStep == ASSUME IInv, [Next]_vars PROVE Tables'
  <1> USE DEF IInv
  <1>0. \A m \in Untold : m \in Message /\ m.of \in DOMAIN said
    BY UntoldTyped DEF Published
  <1>1. ASSUME Untold' = Untold, UNCHANGED <<said, sent, segments, translations>>,
               missed => missed', Storing' => Storing
        PROVE  Tables'
    <2>1. Stored' = Stored /\ Pending' = Pending
      BY <1>1 DEF Stored, Pending
    <2>2. FinalsStored'
      BY <1>1, <2>1 DEF FinalsStored
    <2>3. OriginalKept'
      BY <1>1, <2>1 DEF OriginalKept
    <2>4. RowsTidy'
      BY <1>1 DEF RowsTidy
    <2>5. TranslationsStored'
      BY <1>1 DEF TranslationsStored, Arriving, Arrived
    <2> QED
      BY <2>2, <2>3, <2>4, <2>5 DEF Tables
  \* A message is lost.
  <1>2. ASSUME Untold' \subseteq Untold, UNCHANGED <<said, sent, translations>>, missed' = TRUE
        PROVE  Tables'
    <2>1. RowsTidy'
      BY <1>2 DEF RowsTidy
    <2> QED
      BY <1>2, <2>1 DEF Tables, FinalsStored, TranslationsStored, Storing, OriginalKept
  \* A final is published.
  <1>3. ASSUME NEW seg \in Nat \ {0}, NEW better \in BOOLEAN, Says(seg, better) PROVE Tables'
    <2> DEFINE m == [kind |-> "stt", of |-> Len(said) + 1, tgt |-> None]
    <2>1. UNCHANGED <<sent, segments, translations, missed, cache>>
      BY <1>3 DEF Says, Publishes
    <2>2. /\ Untold' = Untold \cup {m} /\ m.of = Len(said) + 1 /\ m.kind = "stt"
          /\ DOMAIN said' = DOMAIN said \cup {m.of} /\ m.of \notin DOMAIN said
          /\ \A i \in DOMAIN said : said'[i] = said[i]
      <3>1. m.of = Len(said) + 1 /\ m.kind = "stt"
        OBVIOUS
      <3>2. Untold' = Untold \cup {m}
        BY <1>3, SaysMore
      <3>3. m.of \notin DOMAIN said
        BY <3>1, SaidTyped
      <3> HIDE DEF m
      <3>4. /\ DOMAIN said' = DOMAIN said \cup {m.of}
            /\ \A i \in DOMAIN said : said'[i] = said[i]
        BY <1>3, <3>1, SaysMore
      <3> QED
        BY <3>1, <3>2, <3>3, <3>4
    <2> HIDE DEF m
    <2>3. Stored' = Stored /\ Pending' = Pending \cup {m.of} /\ (Storing' <=> Storing)
      BY <2>1, <2>2 DEF Stored, Pending, Storing
    <2>4. Stored \subseteq DOMAIN said
      BY DEF Stored, TypeOK
    <2>5. FinalsStored'
      BY <2>2, <2>3, <2>4 DEF FinalsStored
    <2>6. OriginalKept'
      BY <2>1, <2>3 DEF OriginalKept
    <2>7. RowsTidy'
      <3>1. \A t \in translations : t.of \in DOMAIN said
        BY DEF TypeOK
      <3> QED
        BY <2>1, <2>2, <3>1 DEF RowsTidy
    <2>8. TranslationsStored'
      <3>1. \A p \in sent : p[1] \in DOMAIN said
        BY DEF TypeOK
      <3> QED
        BY <2>1, <2>2, <2>3, <3>1 DEF TranslationsStored, Arriving, Arrived
    <2> QED
      BY <2>5, <2>6, <2>7, <2>8 DEF Tables
  \* A translation is published.
  <1>4. ASSUME NEW i \in DOMAIN said, NEW tgt \in Targets, Translated(i, tgt) PROVE Tables'
    <2> DEFINE m == [kind |-> "mt", of |-> i, tgt |-> tgt]
    <2>1. UNCHANGED <<said, segments, translations, missed, cache>>
      BY <1>4 DEF Translated, Publishes
    <2>2. /\ Untold' = Untold \cup {m} /\ m.of = i /\ m.kind = "mt" /\ m.tgt = tgt
          /\ sent' = sent \cup {<<i, tgt>>} /\ \A p \in sent : p[1] <= i
      BY <1>4, TranslatedSends
    <2> HIDE DEF m
    <2>3. Stored' = Stored /\ Pending' = Pending /\ (Storing' <=> Storing)
      BY <2>1, <2>2 DEF Stored, Pending, Storing
    <2>4. FinalsStored' /\ OriginalKept'
      BY <2>1, <2>3 DEF FinalsStored, OriginalKept
    <2>5. RowsTidy'
      <3>1. \A t \in translations : t.of <= i
        BY <2>2 DEF RowsTidy
      <3> QED
        BY <2>1, <2>2, <3>1 DEF RowsTidy
    <2>6. TranslationsStored'
      BY <2>1, <2>2, <2>3 DEF TranslationsStored, Arriving, Arrived
    <2> QED
      BY <2>4, <2>5, <2>6 DEF Tables
  \* The message is of a room without consent.
  <1>5. ASSUME Skip PROVE Tables'
    <2>1. UNCHANGED <<said, sent, segments, translations, missed>> /\ Untold' \subseteq Untold
      BY <1>5, LoopIsDone DEF Skip, bus
    <2>2. ~Storing'
      BY <1>5 DEF Skip, Skips, LoopShape, Storing
    <2>3. Stored' = Stored
      BY <2>1 DEF Stored
    <2> QED
      BY <2>1, <2>2, <2>3 DEF Tables, FinalsStored, TranslationsStored, OriginalKept, RowsTidy
  \* A final is stored.
  <1>6. ASSUME InsertSegment, missed' = missed PROVE Tables'
    <2>1. /\ UNCHANGED <<said, sent, translations, missed, cache>>
          /\ step.msg.kind = "stt" /\ step.at # "idle" /\ cache.rec /\ cache # None
      BY <1>6 DEF InsertSegment, bus, Skips, LoopShape
    <2>2. CASE segments' = segments \cup {[room |-> cache.id, of |-> step.msg.of]}
      <3>1. /\ Untold = Untold' \cup {step.msg} /\ wire' = wire /\ step' = Idle /\ step # Idle
            /\ step.msg \in Message
        BY <1>6, LoopIsDone
      <3>2. \A m \in Untold' : m \in Message /\ (m.kind = "stt" => step.msg.of < m.of)
        <4>1. Untold' = {wire[j] : j \in DOMAIN wire}
          BY <3>1 DEF Untold
        <4> QED
          BY <1>0, <3>1, <4>1 DEF InOrder, Before
      <3>3. step.msg.of \notin Pending' /\ Pending = Pending' \cup {step.msg.of}
        <4>1. step.msg.of \in Nat
          BY <3>1 DEF Message
        <4> QED
          BY <2>1, <3>1, <3>2, <4>1 DEF Pending
      <3>4. Stored' = Stored \cup {step.msg.of} /\ (Storing' <=> Storing)
        <4> DEFINE row == [room |-> cache.id, of |-> step.msg.of]
        <4>1. row.of = step.msg.of /\ segments' = segments \cup {row}
          BY <2>2
        <4> HIDE DEF row
        <4>2. Stored' = Stored \cup {step.msg.of}
          BY <4>1 DEF Stored
        <4> QED
          BY <2>1, <4>2 DEF Storing
      <3>5. step.msg.of \in DOMAIN said
        BY <2>1, InHand
      <3>6. FinalsStored'
        BY <2>1, <3>3, <3>4, <3>5 DEF FinalsStored
      <3>7. OriginalKept'
        BY <2>1, <3>4 DEF OriginalKept
      <3>8. RowsTidy'
        BY <2>1, <3>1 DEF RowsTidy
      <3>9. TranslationsStored'
        BY <2>1, <3>1, <3>4 DEF TranslationsStored, Arriving, Arrived
      <3> QED
        BY <3>6, <3>7, <3>8, <3>9 DEF Tables
    <2>3. CASE missed' = TRUE
      BY <1>2, <1>6, <2>1, <2>3, LoopIsDone
    <2> QED
      BY <1>6, <2>2, <2>3 DEF InsertSegment
  \* A translation is stored.
  <1>7. ASSUME PutTranslation PROVE Tables'
    <2>1. /\ UNCHANGED <<said, sent, segments, missed, cache>>
          /\ step.msg.kind = "mt" /\ step.at # "idle" /\ cache.rec /\ cache # None
      BY <1>7 DEF PutTranslation, bus, Skips, LoopShape
    <2>2. /\ Untold = Untold' \cup {step.msg} /\ wire' = wire /\ step' = Idle /\ step # Idle
          /\ step.msg \in Message
      BY <1>7, LoopIsDone
    <2>3. Untold' = {wire[j] : j \in DOMAIN wire}
      BY <2>2 DEF Untold
    <2>4. \A m \in Untold' : /\ m.kind = "stt" => step.msg.of < m.of
                             /\ m.kind = "mt" => step.msg.of <= m.of
      BY <2>1, <2>2, <2>3 DEF InOrder, Before
    <2>5. /\ step.msg.of \in DOMAIN said /\ step.msg.of \in Nat /\ step.msg.tgt \in Targets
          /\ <<step.msg.of, step.msg.tgt>> \in sent
      BY <2>1, InHand, SaidTyped
    <2> DEFINE row == [seg |-> SegmentOf(step.msg), tgt |-> step.msg.tgt, of |-> step.msg.of]
    \* The row is written, and takes the place of the one there was.
    <2>6. /\ row.seg = said[step.msg.of].seg /\ row.tgt = step.msg.tgt /\ row.of = step.msg.of
      BY DEF SegmentOf
    <2>7. \A t \in translations' :
            t = row \/ (t \in translations /\ ~(t.seg = row.seg /\ t.tgt = row.tgt))
      <3>1. CASE Existing(step.msg) = {}
        BY <1>7, <3>1 DEF PutTranslation, Existing
      <3>2. CASE Existing(step.msg) # {}
        <4>1. \A t \in Existing(step.msg) : [t EXCEPT !.of = step.msg.of] = row
          BY RowChanged DEF Existing
        <4>2. translations' = (translations \ Existing(step.msg))
                                \cup {[t EXCEPT !.of = step.msg.of] : t \in Existing(step.msg)}
          BY <1>7, <3>2 DEF PutTranslation
        <4> QED
          BY <4>1, <4>2 DEF Existing
      <3> QED
        BY <3>1, <3>2
    <2>8. /\ row \in translations'
          /\ \A t \in translations : t \in translations' \/ (t.seg = row.seg /\ t.tgt = row.tgt)
      <3>1. CASE Existing(step.msg) = {}
        BY <1>7, <3>1 DEF PutTranslation
      <3>2. CASE Existing(step.msg) # {}
        <4>1. \A t \in Existing(step.msg) : [t EXCEPT !.of = step.msg.of] = row
          BY RowChanged DEF Existing
        <4>2. translations' = (translations \ Existing(step.msg))
                                \cup {[t EXCEPT !.of = step.msg.of] : t \in Existing(step.msg)}
          BY <1>7, <3>2 DEF PutTranslation
        <4> QED
          BY <3>2, <4>1, <4>2 DEF Existing
      <3> QED
        BY <3>1, <3>2
    <2> HIDE DEF row
    <2>9. Stored' = Stored /\ Pending' = Pending /\ (Storing' <=> Storing)
      BY <2>1, <2>2 DEF Stored, Pending, Storing
    <2>10. FinalsStored'
      BY <2>1, <2>9 DEF FinalsStored
    <2>11. OriginalKept'
      <3>1. ASSUME ~missed PROVE step.msg.of \in Stored
        <4>1. step.msg.of \notin Pending'
          BY <2>4, <2>5 DEF Pending
        <4>2. Storing
          BY <2>1, <3>1 DEF Storing
        <4> QED
          BY <2>5, <2>9, <4>1, <4>2 DEF FinalsStored
      <3> QED
        BY <2>1, <2>6, <2>7, <2>9, <3>1 DEF OriginalKept
    <2>12. RowsTidy'
      <3>1. \A t \in translations' : /\ <<t.of, t.tgt>> \in sent /\ t.seg = said[t.of].seg
                                     /\ \A m \in Untold' : m.kind = "mt" => t.of <= m.of
        BY <2>2, <2>4, <2>5, <2>6, <2>7 DEF RowsTidy
      <3>2. \A t, u \in translations' : t.seg = u.seg /\ t.tgt = u.tgt => t = u
        BY <2>7 DEF RowsTidy
      <3> QED
        BY <2>1, <3>1, <3>2 DEF RowsTidy
    <2>13. TranslationsStored'
      <3> SUFFICES ASSUME Storing, NEW p \in sent PROVE (Arriving(p[1], p[2]) \/ Arrived(p[1], p[2]))'
        BY <2>1, <2>9 DEF TranslationsStored
      <3>1. p[1] \in Nat
        BY SaidTyped DEF TypeOK
      <3>2. CASE Arriving(p[1], p[2])
        <4>1. PICK m \in Untold : m.kind = "mt" /\ m.of = p[1] /\ m.tgt = p[2]
          BY <3>2 DEF Arriving
        <4>2. CASE m \in Untold'
          BY <4>1, <4>2 DEF Arriving
        <4>3. CASE m = step.msg
          BY <2>1, <2>5, <2>6, <2>8, <4>1, <4>3 DEF Arrived
        <4> QED
          BY <2>2, <4>2, <4>3
      <3>3. CASE Arrived(p[1], p[2])
        <4>1. PICK t \in translations : t.seg = said[p[1]].seg /\ t.tgt = p[2] /\ t.of >= p[1]
          BY <3>3 DEF Arrived
        <4>2. t.of <= step.msg.of /\ t.of \in Nat
          BY <2>1, <2>2, SaidTyped DEF RowsTidy, TypeOK
        <4>3. CASE t \in translations'
          BY <2>1, <4>1, <4>3 DEF Arrived
        <4>4. CASE t.seg = row.seg /\ t.tgt = row.tgt
          BY <2>1, <2>5, <2>6, <2>8, <3>1, <4>1, <4>2, <4>4 DEF Arrived
        <4> QED
          BY <2>8, <4>3, <4>4
      <3> QED
        BY <3>2, <3>3 DEF TranslationsStored
    <2> QED
      BY <2>10, <2>11, <2>12, <2>13 DEF Tables
  \* The cleanup takes nothing away.
  <1>8. ASSUME CleanDeletes PROVE Tables'
    <2>1. segments = {} /\ segments' = segments
      BY <1>8 DEF CleanDeletes, ClosingUnrecorded, Consent
    <2>2. UNCHANGED <<bus, wire, step, translations, missed, cache>>
      BY <1>8 DEF CleanDeletes
    <2>3. Untold' = Untold /\ (Storing' <=> Storing)
      BY <2>2 DEF Untold, Storing
    <2> QED
      BY <1>1, <2>1, <2>2, <2>3 DEF bus
  <1>9. ASSUME Take PROVE Tables'
    <2>1. UNCHANGED <<bus, segments, translations, missed, cache>>
      BY <1>9 DEF Take
    <2> QED
      BY <1>1, <1>9, <2>1, TakeUntold DEF bus, Storing
  <1>10. ASSUME SelectRoom PROVE Tables'
    <2>1. UNCHANGED <<bus, segments, translations, missed>> /\ cache = None
      BY <1>10 DEF SelectRoom, LoopShape
    <2> QED
      BY <1>1, <1>10, <2>1, LoopGoesOn DEF bus, Storing
  <1>11. ASSUME InsertRoom PROVE Tables'
    <2>1. UNCHANGED <<bus, wire, segments, translations>> /\ cache = None
      BY <1>11 DEF InsertRoom, LoopShape
    <2>2. CASE step' = CreatedStep /\ missed' = missed
      BY <1>1, <1>11, <2>1, <2>2, LoopGoesOn DEF bus, Storing
    <2>3. CASE step' = Idle /\ missed' = TRUE
      BY <1>2, <1>11, <2>1, <2>3, LoopIsDone DEF bus
    <2> QED
      BY <1>11, <2>2, <2>3 DEF InsertRoom
  <1>12. ASSUME Refresh PROVE Tables'
    <2>1. UNCHANGED <<bus, segments, translations, missed>>
      BY <1>12 DEF Refresh
    <2>2. cache \in Row
      BY <1>12 DEF Refresh, LoopShape, TypeOK
    <2>3. cache' \in Row /\ (cache'.rec <=> room # None /\ room.id = cache.id /\ room.rec)
      BY <1>12, <2>2 DEF Refresh, Row
    <2>4. Storing' => Storing
      BY <2>1, <2>3, RecordsAssumption DEF Storing, RecordedIsCached
    <2> QED
      BY <1>1, <1>12, <2>1, <2>4, LoopGoesOn DEF bus
  <1>13. ASSUME QueryFails PROVE Tables'
    BY <1>2, <1>13, LoopIsDone DEF QueryFails
  <1>14. ASSUME Restart PROVE Tables'
    <2>1. Untold' = {}
      BY <1>14 DEF Restart, Untold
    <2> QED
      BY <1>2, <1>14, <2>1 DEF Restart, bus
  <1>15. ASSUME UNCHANGED <<bus, store>> PROVE Tables'
    BY <1>1, <1>15 DEF bus, store, Untold, Storing
  <1>16. InsertSegment => missed' = missed \/ missed' = TRUE
    BY DEF InsertSegment
  <1>17. ASSUME InsertSegment, missed' = TRUE PROVE Tables'
    BY <1>2, <1>17, LoopIsDone DEF InsertSegment
  <1> QED
    <2>1. CreateRoom \/ RelayStores \/ SubmitTranscript \/ CleanCounts \/ CleanFails \/ UNCHANGED vars
            => UNCHANGED <<bus, store>>
      BY DEF CreateRoom, RelayStores, SubmitTranscript, CleanCounts, CleanFails, vars, store
    <2> QED
      BY <1>3, <1>4, <1>5, <1>6, <1>7, <1>8, <1>9, <1>10, <1>11, <1>12, <1>13, <1>14, <1>15,
         <1>16, <1>17, <2>1, FinalSays
      DEF Next, Rooms, Speech, Persistence
-----------------------------------------------------------------------------
LEMMA StepInv == ASSUME IInv, [Next]_vars PROVE IInv'
  <1>1. OriginalKept /\ FinalsStored /\ RowsTidy /\ TranslationsStored
    BY DEF IInv
  <1> QED
    BY TypeStep, LoopStep, ConsentStep, QueueStep, TableStep DEF IInv, Tables

\* The inductive invariant: it ties the flag in the cache to the row, the messages on
\* their way to what was said, and the two tables to both.
THEOREM InductiveInvariant == Spec => []IInv
  <1> QED
    BY InitInv, StepInv, PTL DEF Spec

\* Nothing is kept of a code whose room is not there or is not recorded, however the
\* cleanup, the relay and persist_loop interleave over the three tables.
THEOREM ConsentKept == Spec => []KeptWithConsent
  <1>1. IInv => KeptWithConsent
    BY DEF IInv, Consent, KeptWithConsent
  <1> QED
    BY <1>1, InductiveInvariant, PTL

\* Without a lost message a code whose first final was stored has them all, up to those
\* on their way: persist_loop never starts or stops recording in between.
THEOREM AllFinalsOrNone == Spec => []AllOrNothing
  <1>1. IInv => AllOrNothing
    <2> SUFFICES ASSUME IInv, ~missed, segments # {} PROVE Stored = DOMAIN said \ Pending
      BY DEF AllOrNothing
    <2>1. room # None /\ room.rec
      BY DEF IInv, Consent
    <2>2. Storing
      BY <2>1 DEF IInv, RecordedIsCached, Storing
    <2> QED
      BY <2>2 DEF IInv, FinalsStored
  <1> QED
    BY <1>1, InductiveInvariant, PTL

\* Without a lost message each translation kept has its original kept, though the two
\* come over different channels and a row is found by the code, not the id, of the room.
THEOREM OriginalsKept == Spec => []OriginalKept
  <1>1. IInv => OriginalKept
    BY DEF IInv
  <1> QED
    BY <1>1, InductiveInvariant, PTL

\* Of a last wording the rows of a language and the segment are of no other final.
LEMMA ShownIsOne ==
    ASSUME IInv, NEW tgt \in Targets, NEW i \in DOMAIN said
    PROVE  Cardinality(Shown(i, tgt)) <= 1
  <1> DEFINE R == {r \in translations : r.seg = said[i].seg /\ r.tgt = tgt}
  <1>1. \A t, u \in R : t = u
    BY DEF IInv, RowsTidy
  <1>2. Shown(i, tgt) = {t.of : t \in R}
    BY DEF Shown
  <1>3. CASE R = {}
    <2>1. Shown(i, tgt) = {}
      BY <1>2, <1>3
    <2> QED
      BY <2>1, FS_EmptySet
  <1>4. CASE R # {}
    <2>1. PICK t \in R : TRUE
      BY <1>4
    <2> HIDE DEF R
    <2>2. Shown(i, tgt) = {t.of}
      BY <1>1, <1>2, <2>1
    <2>3. Cardinality({t.of}) = 1
      BY FS_Singleton
    <2> QED
      BY <2>2, <2>3
  <1> QED
    BY <1>3, <1>4

\* Once everything is handled without a loss, the history shows for the last wording of
\* a segment its own translation, which the one of an earlier wording never replaces.
THEOREM HistoryPairs == Spec => []HistoryPairsUp
  <1>1. IInv => HistoryPairsUp
    <2> SUFFICES ASSUME IInv, ~missed, wire = <<>>, step = Idle,
                        NEW tgt \in Targets, NEW h \in History(tgt)
                 PROVE  /\ Cardinality(h.shown) <= 1
                        /\ <<h.of, tgt>> \in sent /\ LastWording(h.of) => h.shown = {h.of}
      BY DEF HistoryPairsUp
    <2>1. PICK s \in segments : h = [of |-> s.of, shown |-> Shown(s.of, tgt)]
      BY DEF History
    <2>2. h.of = s.of /\ h.shown = Shown(s.of, tgt) /\ s.of \in DOMAIN said
      BY <2>1 DEF IInv, TypeOK
    <2>3. Cardinality(h.shown) <= 1
      BY <2>2, ShownIsOne
    <2>4. ASSUME <<h.of, tgt>> \in sent, LastWording(h.of) PROVE h.shown = {h.of}
      <3>1. Untold = {}
        BY DEF Untold
      <3>2. Storing
        BY DEF IInv, Consent, RecordedIsCached, Storing
      <3>3. PICK t \in translations : t.seg = said[h.of].seg /\ t.tgt = tgt /\ t.of >= h.of
        <4> DEFINE p == <<h.of, tgt>>
        <4>1. p \in sent /\ p[1] = h.of /\ p[2] = tgt
          BY <2>4
        <4> HIDE DEF p
        <4>2. Arrived(p[1], p[2])
          BY <3>1, <3>2, <4>1 DEF IInv, TranslationsStored, Arriving
        <4> QED
          BY <4>1, <4>2 DEF Arrived
      <3>4. t.of \in DOMAIN said /\ t.seg = said[t.of].seg
        BY DEF IInv, TypeOK, RowsTidy
      <3>5. t.of \in Nat /\ h.of \in Nat
        BY <2>2, <3>4, SaidTyped DEF IInv
      <3>6. t.of = h.of
        BY <2>4, <3>3, <3>4, <3>5 DEF LastWording
      <3>7. \A u \in translations : u.seg = said[h.of].seg /\ u.tgt = tgt => u = t
        BY <3>3 DEF IInv, RowsTidy
      <3> QED
        BY <2>2, <3>3, <3>6, <3>7 DEF Shown
    <2> QED
      BY <2>3, <2>4
  <1> QED
    BY <1>1, InductiveInvariant, PTL
=============================================================================
