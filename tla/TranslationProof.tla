---------------------------- MODULE TranslationProof ----------------------------
(***************************************************************************)
(* Proofs about Translation: what the listeners of a segment see and what  *)
(* is kept and billed of it, for all languages, speakers and bounds.       *)
(***************************************************************************)
EXTENDS Translation, SequenceTheorems, TLAPS

InboxSet == {inbox[i] : i \in DOMAIN inbox}

InTheInbox(ch, i) == \E m \in InboxSet : m.ch = ch /\ m.of = i

\* What the events of a segment look like: a marker, and a marker only, has no text; a
\* stream has one final and then a marker.
SttShape ==
    /\ \A i \in DOMAIN stt : /\ stt[i].kind # "marker" => stt[i].text # None
                             /\ stt[i].kind = "marker" => stt[i].text = None /\ mode = "stream"
    /\ mode = "stream" => \A i, j \in Finals : i = j

\* The event in hand is the last one taken, and its translation is of its text.
WorkShape ==
    /\ work.at # "idle" => /\ work.of = heard /\ heard # 0
                           /\ stt[heard].kind # "marker"
    /\ work.at \notin {"idle", "each"} =>
         work.job \in Targets /\ work.src \notin {"auto", work.job.tgt}
    /\ work.at \in {"publish", "bill"} =>
         work.made = [text |-> stt[work.of].text, src |-> work.src, tgt |-> work.job.tgt]
    /\ work.at \in {"each", "call", "bill"} => ~work.cached
    /\ work.at = "noted" => work.seen \in SUBSET [of : Nat, tgt : Languages, to : Speakers \cup {None}]

\* The messages of the relay: of events that were published, translations of events that
\* were taken.
InboxShape ==
    \A m \in InboxSet :
        /\ m.of \in DOMAIN stt
        /\ m.ch = "stt" => stt[m.of].kind # "partial"
        /\ m.ch = "mt" => /\ m.of <= heard /\ stt[m.of].kind # "marker"
                          /\ m.tgt \in Languages
                          /\ m.made.text = stt[m.of].text /\ m.made.tgt = m.tgt

\* An event follows all that is about earlier ones, and translations come in the order
\* of their events.
Before(m, n) ==
    /\ n.ch = "stt" => m.of < n.of
    /\ m.ch = "mt" /\ n.ch = "mt" => m.of <= n.of

InOrder == \A i, j \in DOMAIN inbox : i < j => Before(inbox[i], inbox[j])

\* Nothing shown is ahead of what is to come.
ShownBehind ==
    \A k \in Languages : /\ shown[k] <= heard
                         /\ \A m \in InboxSet : m.ch = "mt" => shown[k] <= m.of

\* One call is under way to its bill at most.
Unbilled == IF work.at \in {"publish", "bill"} /\ ~work.cached THEN 1 ELSE 0

Owing == owed \in Int /\ Unbilled <= owed /\ owed <= faults + Unbilled

\* A translation of an earlier final is followed by one of the last.
LatestLast ==
    /\ latest # 0 => latest \in Finals /\ latest <= heard
    /\ \A m \in InboxSet : m.ch = "mt" /\ m.of < latest => InTheInbox("mt", latest)

\* The relay handles finals and markers in order.
HandledInOrder ==
    \A i \in DOMAIN stt : stt[i].kind # "partial" /\ ~InTheInbox("stt", i) =>
        \A m \in InboxSet : m.ch = "stt" => i < m.of

LastFinal(i) == i \in Finals /\ \A j \in Finals : j <= i

\* Without a failure the last row is of the last final that was handled, or of a marker.
LastRow ==
    faults = 0 =>
        /\ \A i \in DOMAIN rows : rows[i].text = None => mode = "stream"
        /\ \A i \in Finals : ~InTheInbox("stt", i) => rows # <<>>
        /\ \A i \in Finals : LastFinal(i) /\ ~InTheInbox("stt", i) =>
             rows[Len(rows)].text \in {None, stt[i].text}

RowPairs(i) ==
    \E n \in 1..Len(rows) : /\ rows[n] = NewRow(stt[i].text, i)
                            /\ \A k \in 1..Len(rows) : k > n => rows[k].of = 0

LatestPaired ==
    faults = 0 /\ latest # 0 /\ LastFinal(latest) => InTheInbox("mt", latest) \/ RowPairs(latest)

IInv ==
    /\ TypeOK
    /\ SttShape /\ WorkShape /\ InboxShape /\ InOrder
    /\ ShownBehind /\ Owing
    /\ LatestLast /\ HandledInOrder /\ LastRow /\ LatestPaired
-----------------------------------------------------------------------------
\* The events are typed, and so is what is in hand.
Event == [kind : Kinds, text : Texts \cup {None}, src : Languages \cup {"auto"}]

Entries == [of : Nat, tgt : Languages, to : Speakers \cup {None}]

Handling == [at : {"idle", "each", "call", "publish", "bill", "note", "noted"},
             of : 0..Len(stt), src : Languages \cup {"auto"}, todo : SUBSET Targets,
             job : Targets \cup {None}, made : Made \cup {None}, cached : BOOLEAN,
             seen : {None} \cup SUBSET Entries]

LEMMA WorkTyped == TypeOK => work \in Handling
  BY DEF TypeOK, Handling, Entries

LEMMA SttTyped ==
    ASSUME TypeOK
    PROVE  /\ Len(stt) \in Nat /\ DOMAIN stt = 1..Len(stt) /\ stt \in Seq(Event)
           /\ \A i \in DOMAIN stt : i \in Nat \ {0} /\ stt[i] \in Event
           /\ heard \in Nat /\ latest \in Nat /\ faults \in Nat
           /\ heard # 0 => heard \in DOMAIN stt
           /\ \A i \in Finals : i \in DOMAIN stt
  <1>1. stt \in Seq(Event)
    BY DEF TypeOK, Event
  <1>2. Len(stt) \in Nat /\ DOMAIN stt = 1..Len(stt)
    BY <1>1
  <1>3. \A i \in DOMAIN stt : stt[i] \in Event
    BY <1>1, <1>2, ElementOfSeq
  <1> QED
    BY <1>1, <1>2, <1>3, TranslationAssumption DEF TypeOK, Finals

\* The event in hand has words.
LEMMA InHand ==
    ASSUME TypeOK, SttShape, WorkShape, work.at # "idle"
    PROVE  /\ work.of = heard /\ work.of \in DOMAIN stt /\ work.of \in Nat \ {0}
           /\ stt[work.of].kind \in {"partial", "final"} /\ stt[work.of].text \in Texts
  <1>1. work.of = heard /\ heard \in DOMAIN stt /\ stt[heard].kind # "marker"
    BY SttTyped DEF WorkShape
  <1>2. stt[heard] \in Event
    BY <1>1, SttTyped
  <1>3. stt[heard].kind \in Kinds /\ stt[heard].text \in Texts \cup {None}
    BY <1>2 DEF Event
  <1>4. stt[heard].text # None
    BY <1>1 DEF SttShape
  <1> QED
    BY <1>1, <1>3, <1>4, SttTyped DEF Kinds

\* A message that is sent, one that is handled, and what is said.
LEMMA SentMore ==
    ASSUME TypeOK, NEW m \in Messages, inbox' = Append(inbox, m)
    PROVE  /\ InboxSet' = InboxSet \cup {m} /\ inbox' \in Seq(Messages)
           /\ InOrder /\ (\A n \in InboxSet : Before(n, m)) => InOrder'
  <1>1. inbox \in Seq(Messages)
    BY DEF TypeOK
  <1>2. /\ inbox' \in Seq(Messages)
        /\ DOMAIN inbox' = DOMAIN inbox \cup {Len(inbox) + 1}
        /\ \A i \in DOMAIN inbox : i < Len(inbox) + 1 /\ inbox'[i] = inbox[i]
        /\ inbox'[Len(inbox) + 1] = m
    BY <1>1
  <1>3. InboxSet' = InboxSet \cup {m}
    BY <1>2 DEF InboxSet
  <1>4. ASSUME InOrder, \A n \in InboxSet : Before(n, m) PROVE InOrder'
    <2> SUFFICES ASSUME NEW i \in DOMAIN inbox', NEW j \in DOMAIN inbox', i < j
                 PROVE  Before(inbox'[i], inbox'[j])
      BY DEF InOrder, Before
    <2>1. i \in Nat /\ j \in Nat /\ Len(inbox) \in Nat /\ DOMAIN inbox = 1..Len(inbox)
      BY <1>1, <1>2
    <2>2. i \in DOMAIN inbox
      BY <1>2, <2>1
    <2>3. CASE j \in DOMAIN inbox
      BY <1>2, <1>4, <2>2, <2>3 DEF InOrder
    <2>4. CASE j = Len(inbox) + 1
      BY <1>2, <1>4, <2>2, <2>4 DEF InboxSet
    <2> QED
      BY <1>2, <2>3, <2>4
  <1> QED
    BY <1>2, <1>3, <1>4

LEMMA HandledHead ==
    ASSUME TypeOK, InOrder, inbox # <<>>, inbox' = Tail(inbox)
    PROVE  /\ InboxSet = InboxSet' \cup {Head(inbox)} /\ inbox' \in Seq(Messages)
           /\ Head(inbox) \in Messages /\ Head(inbox) \in InboxSet
           /\ \A n \in InboxSet' : Before(Head(inbox), n) /\ n \in InboxSet
           /\ InOrder'
  <1>1. inbox \in Seq(Messages)
    BY DEF TypeOK
  <1>2. /\ inbox' \in Seq(Messages) /\ Head(inbox) = inbox[1] /\ 1 \in DOMAIN inbox
        /\ \A i \in DOMAIN inbox' : i \in Nat \ {0} /\ i + 1 \in DOMAIN inbox /\ inbox'[i] = inbox[i + 1]
        /\ \A i \in DOMAIN inbox : i = 1 \/ (i - 1 \in DOMAIN inbox' /\ inbox'[i - 1] = inbox[i])
    BY <1>1
  <1>3. Head(inbox) \in Messages
    BY <1>1, <1>2
  <1>4. ASSUME NEW n \in InboxSet' PROVE Before(Head(inbox), n) /\ n \in InboxSet
    <2>1. PICK i \in DOMAIN inbox' : inbox'[i] = n
      BY DEF InboxSet
    <2>2. i + 1 \in DOMAIN inbox /\ inbox[i + 1] = n /\ 1 < i + 1
      BY <1>2, <2>1
    <2> QED
      BY <1>2, <2>2 DEF InOrder, InboxSet
  <1>5. ASSUME NEW n \in InboxSet PROVE n = Head(inbox) \/ n \in InboxSet'
    <2>1. PICK i \in DOMAIN inbox : inbox[i] = n
      BY DEF InboxSet
    <2>2. i = 1 \/ \E j \in DOMAIN inbox' : inbox'[j] = n
      BY <1>2, <2>1
    <2> QED
      BY <1>2, <2>1, <2>2 DEF InboxSet
  <1>6. Head(inbox) \in InboxSet
    BY <1>2 DEF InboxSet
  <1>7. InOrder'
    <2> SUFFICES ASSUME NEW i \in DOMAIN inbox', NEW j \in DOMAIN inbox', i < j
                 PROVE  Before(inbox'[i], inbox'[j])
      BY DEF InOrder, Before
    <2>1. i + 1 \in DOMAIN inbox /\ j + 1 \in DOMAIN inbox /\ i + 1 < j + 1
      BY <1>2
    <2> QED
      BY <1>2, <2>1 DEF InOrder
  <1> QED
    BY <1>2, <1>3, <1>4, <1>5, <1>6, <1>7

LEMMA SpeaksMore ==
    ASSUME TypeOK, NEW kind \in Kinds, NEW text \in Texts \cup {None},
           NEW src \in Languages \cup {"auto"}, Speaks(kind, text, src)
    PROVE  /\ stt' \in Seq(Event) /\ DOMAIN stt' = DOMAIN stt \cup {Len(stt) + 1}
           /\ Len(stt') = Len(stt) + 1
           /\ \A i \in DOMAIN stt : i < Len(stt) + 1 /\ stt'[i] = stt[i]
           /\ stt'[Len(stt) + 1].kind = kind /\ stt'[Len(stt) + 1].text = text
           /\ Finals' = IF kind = "final" THEN Finals \cup {Len(stt) + 1} ELSE Finals
  <1>1. stt \in Seq(Event) /\ Len(stt) \in Nat /\ DOMAIN stt = 1..Len(stt)
    BY SttTyped
  <1>2. [kind |-> kind, text |-> text, src |-> src] \in Event
    BY DEF Event
  <1>3. stt' = Append(stt, [kind |-> kind, text |-> text, src |-> src])
    BY DEF Speaks
  <1>4. /\ stt' \in Seq(Event) /\ DOMAIN stt' = DOMAIN stt \cup {Len(stt) + 1}
        /\ Len(stt') = Len(stt) + 1
        /\ \A i \in DOMAIN stt : i < Len(stt) + 1 /\ stt'[i] = stt[i]
        /\ stt'[Len(stt) + 1] = [kind |-> kind, text |-> text, src |-> src]
    BY <1>1, <1>2, <1>3
  <1>5. Finals' = IF kind = "final" THEN Finals \cup {Len(stt) + 1} ELSE Finals
    <2>1. 1..Len(stt') = DOMAIN stt'
      BY <1>4
    <2>2. stt'[Len(stt) + 1].kind = kind
      BY <1>4
    <2> QED
      BY <1>1, <1>4, <2>1, <2>2 DEF Finals
  <1>6. stt'[Len(stt) + 1].kind = kind /\ stt'[Len(stt) + 1].text = text
    BY <1>4
  <1> QED
    BY <1>4, <1>5, <1>6
-----------------------------------------------------------------------------
LEMMA InitInv == Init => IInv
  <1> SUFFICES ASSUME Init PROVE IInv
    OBVIOUS
  <1>1. TypeOK
    <2>1. /\ mode \in {"stream", "batch"} /\ enrolled \in BOOLEAN
          /\ heard = 0 /\ latest = 0 /\ faults = 0 /\ record = None
          /\ partials = {} /\ recent = {}
      BY Zenon DEF Init
    <2>2. /\ stt \in Seq([kind : Kinds, text : Texts \cup {None}, src : Languages \cup {"auto"}])
          /\ inbox \in Seq(Messages) /\ rows \in Seq([text : Texts \cup {None}, of : Nat])
          /\ Len(stt) = 0
      BY DEF Init
    <2>3. shown \in [Languages -> 0..Len(stt)]
      BY <2>2 DEF Init
    <2>4. NoWork \in Handling
      BY <2>2, TranslationAssumption DEF NoWork, Handling
    <2>5. work = NoWork
      BY DEF Init
    <2> QED
      BY <2>1, <2>2, <2>3, <2>4, <2>5, TranslationAssumption DEF TypeOK, Handling, Entries
  <1>2. InboxSet = {} /\ DOMAIN inbox = {} /\ Finals = {} /\ DOMAIN stt = {} /\ DOMAIN rows = {}
    BY DEF Init, InboxSet, Finals
  <1>3. work.at = "idle"
    BY DEF Init, NoWork
  <1>4. SttShape /\ WorkShape /\ InboxShape /\ InOrder
    BY <1>2, <1>3 DEF SttShape, WorkShape, InboxShape, InOrder
  <1>5. ShownBehind /\ Owing
    BY <1>2, <1>3 DEF Init, ShownBehind, Owing, Unbilled
  <1>6. LatestLast /\ HandledInOrder /\ LastRow /\ LatestPaired
    BY <1>2 DEF Init, LatestLast, HandledInOrder, LastRow, LatestPaired
  <1> QED
    BY <1>1, <1>4, <1>5, <1>6 DEF IInv

\* The record in hand, one field after the other.
LEMMA Advanced ==
    ASSUME TypeOK, NEW x \in {"idle", "each", "call", "publish", "bill", "note", "noted"},
           work' = [work EXCEPT !.at = x], stt' = stt
    PROVE  /\ work' \in Handling' /\ work'.at = x
           /\ work'.of = work.of /\ work'.src = work.src /\ work'.job = work.job
           /\ work'.made = work.made /\ work'.cached = work.cached /\ work'.seen = work.seen
  BY WorkTyped DEF Handling

LEMMA OnToNext ==
    ASSUME TypeOK, NEW job, NextTarget(job), stt' = stt
    PROVE  /\ work' \in Handling' /\ work'.at \in {"idle", "each"}
           /\ work'.at = "each" => work'.of = work.of /\ ~work'.cached
  <1>1. NoWork \in Handling
    BY SttTyped, TranslationAssumption DEF NoWork, Handling
  <1>2. work \in Handling
    BY WorkTyped
  <1>3. CASE work' = NoWork
    BY <1>1, <1>3 DEF NoWork, Handling
  <1>4. CASE work' = [NoWork EXCEPT !.at = "each", !.of = work.of, !.src = work.src,
                                    !.todo = work.todo \ {job}]
    <2>1. work' = [at |-> "each", of |-> work.of, src |-> work.src, todo |-> work.todo \ {job},
                   job |-> None, made |-> None, cached |-> FALSE, seen |-> None]
      BY <1>4 DEF NoWork
    <2>2. /\ work.of \in 0..Len(stt) /\ work.src \in Languages \cup {"auto"}
          /\ work.todo \ {job} \subseteq Targets
      BY <1>2 DEF Handling
    <2> QED
      BY <2>1, <2>2 DEF Handling
  <1> QED
    BY <1>3, <1>4 DEF NextTarget

\* A message the router sends is typed.
LEMMA PublishedTyped ==
    ASSUME TypeOK, SttShape, WorkShape, work.at = "publish"
    PROVE  /\ work.made \in Made /\ work.job \in Targets
           /\ [ch |-> "mt", of |-> work.of, tgt |-> work.job.tgt, made |-> work.made] \in Messages
  <1>1. work.job \in Targets /\ work.src \in Languages
    BY WorkTyped DEF WorkShape, Handling
  <1>2. work.job.tgt \in Languages
    BY <1>1 DEF Targets
  <1>3. work.made = [text |-> stt[work.of].text, src |-> work.src, tgt |-> work.job.tgt]
    BY DEF WorkShape
  <1>4. work.of \in Nat \ {0} /\ stt[work.of].text \in Texts
    BY InHand
  <1>5. work.made \in Made
    BY <1>1, <1>2, <1>3, <1>4 DEF Made
  <1> QED
    BY <1>1, <1>2, <1>4, <1>5 DEF Messages

\* The event begun has the shape of work.
LEMMA Begun ==
    ASSUME TypeOK, SttShape, NEW src \in Languages \cup {"auto"}, NEW targets \in SUBSET Targets,
           heard < Len(stt), NEW e, Begin(e, src, targets), stt' = stt
    PROVE  /\ work' \in Handling' /\ work'.at = "each" /\ work'.of = heard + 1 /\ ~work'.cached
           /\ partials' \subseteq Made /\ recent' \subseteq Languages
  <1>1. work' = [at |-> "each", of |-> heard + 1, src |-> src, todo |-> targets,
                 job |-> None, made |-> None, cached |-> FALSE, seen |-> None]
    BY DEF Begin, NoWork
  <1>2. heard + 1 \in 0..Len(stt)
    BY SttTyped
  <1>3. partials' \subseteq Made /\ recent' \subseteq Languages
    BY DEF Begin, TypeOK
  <1> QED
    BY <1>1, <1>2, <1>3 DEF Handling

LEMMA TakeShape ==
    ASSUME TypeOK, SttShape, Take
    PROVE  /\ work' \in Handling' /\ partials' \subseteq Made /\ recent' \subseteq Languages
           /\ heard' = heard + 1 /\ heard' \in 0..Len(stt)
           /\ \/ work' = work /\ work.at = "idle"
              \/ /\ work'.at = "each" /\ work'.of = heard + 1 /\ ~work'.cached
                 /\ stt[heard + 1].kind # "marker"
  <1>1. heard' = heard + 1 /\ heard' \in 0..Len(stt) /\ heard < Len(stt) /\ stt' = stt
    BY SttTyped DEF Take
  <1>2. heard + 1 \in DOMAIN stt /\ stt[heard + 1] \in Event
    BY <1>1, SttTyped
  <1>3. CASE UNCHANGED <<work, partials, recent>>
    <2>1. work' \in Handling'
      BY <1>1, <1>3, WorkTyped DEF Handling
    <2> QED
      BY <1>1, <1>3, <2>1 DEF TypeOK, Take
  <1>4. ASSUME NEW sp \in Speakers, Begin(stt[heard + 1], SpeakerLang[sp], Others(sp)),
               stt[heard + 1].kind # "marker"
        PROVE  /\ work' \in Handling' /\ partials' \subseteq Made /\ recent' \subseteq Languages
               /\ work'.at = "each" /\ work'.of = heard + 1 /\ ~work'.cached
    <2>1. SpeakerLang[sp] \in Languages /\ Others(sp) \subseteq Targets
      BY TranslationAssumption DEF Others, Targets
    <2> QED
      BY <1>1, <1>4, <2>1, Begun
  <1>5. ASSUME NEW langs \in SUBSET Spoken, Begin(stt[heard + 1], stt[heard + 1].src, Room(langs)),
               stt[heard + 1].kind # "marker"
        PROVE  /\ work' \in Handling' /\ partials' \subseteq Made /\ recent' \subseteq Languages
               /\ work'.at = "each" /\ work'.of = heard + 1 /\ ~work'.cached
    <2>1. Room(langs) \subseteq Targets
      BY TranslationAssumption DEF Room, Targets
    <2>2. stt[heard + 1].src \in Languages \cup {"auto"}
      BY <1>2 DEF Event
    <2> QED
      BY <1>1, <1>5, <2>1, <2>2, Begun
  <1>6. \/ UNCHANGED <<work, partials, recent>>
        \/ /\ stt[heard + 1].kind # "marker"
           /\ \/ \E sp \in Speakers : Begin(stt[heard + 1], SpeakerLang[sp], Others(sp))
              \/ \E langs \in SUBSET Spoken : Begin(stt[heard + 1], stt[heard + 1].src, Room(langs))
    BY DEF Take
  <1>7. work.at = "idle"
    BY DEF Take
  <1> QED
    BY <1>1, <1>3, <1>4, <1>5, <1>6, <1>7

\* What the router begins with a target.
LEMMA TranslateShape ==
    ASSUME TypeOK, SttShape, WorkShape, NEW job \in work.todo, Translate(job)
    PROVE  /\ work' \in Handling' /\ work'.of = work.of /\ work'.src = work.src
           /\ work'.job = job /\ job \in Targets /\ work.src \notin {"auto", job.tgt}
           /\ \/ work'.at = "call" /\ ~work'.cached
              \/ /\ work'.at = "publish" /\ work'.cached
                 /\ work'.made = [text |-> stt[work.of].text, src |-> work.src, tgt |-> job.tgt]
           /\ recent' \subseteq Languages
  <1>1. work \in Handling /\ stt' = stt /\ work.at = "each" /\ ~work.cached
    BY WorkTyped DEF Translate, WorkShape
  <1>2. job \in Targets /\ job.tgt \in Languages
    BY <1>1 DEF Handling, Targets
  <1>3. work.src \notin {"auto", job.tgt}
    BY DEF Translate
  <1>4. recent' \subseteq Languages
    BY <1>2 DEF Translate, TypeOK
  <1>5. CASE work' = [work EXCEPT !.at = "call", !.job = job]
    BY <1>1, <1>2, <1>3, <1>4, <1>5 DEF Handling
  <1>6. ASSUME NEW m \in Cached(job),
               work' = [work EXCEPT !.at = "publish", !.job = job, !.made = m, !.cached = TRUE]
        PROVE  /\ work' \in Handling' /\ work'.of = work.of /\ work'.src = work.src
               /\ work'.job = job /\ work'.at = "publish" /\ work'.cached
               /\ work'.made = [text |-> stt[work.of].text, src |-> work.src, tgt |-> job.tgt]
    <2>1. m \in Made /\ m.src = work.src /\ m.tgt = job.tgt /\ m.text = stt[work.of].text
      BY DEF Cached, TypeOK
    <2>2. m = [text |-> stt[work.of].text, src |-> work.src, tgt |-> job.tgt]
      BY <2>1 DEF Made
    <2> QED
      BY <1>1, <1>2, <1>6, <2>1, <2>2 DEF Handling
  <1> QED
    BY <1>1, <1>2, <1>3, <1>4, <1>5, <1>6 DEF Translate

LEMMA CallShape ==
    ASSUME TypeOK, SttShape, WorkShape, CallOk
    PROVE  /\ work' \in Handling' /\ work'.at = "publish" /\ work'.of = work.of
           /\ work'.src = work.src /\ work'.job = work.job /\ ~work'.cached
           /\ work'.made = [text |-> stt[work.of].text, src |-> work.src, tgt |-> work.job.tgt]
           /\ partials' \subseteq Made
  <1> DEFINE m == [text |-> stt[work.of].text, src |-> work.src, tgt |-> work.job.tgt]
  <1>1. /\ work \in Handling /\ stt' = stt /\ work.at = "call" /\ ~work.cached
        /\ work' = [work EXCEPT !.at = "publish", !.made = m]
        /\ partials' = IF IsFinal THEN partials ELSE partials \cup {m}
    BY WorkTyped DEF CallOk, WorkShape
  <1>2. m \in Made
    <2>1. work.job \in Targets /\ work.src \in Languages
      BY <1>1 DEF WorkShape, Handling
    <2>2. work.job.tgt \in Languages
      BY <2>1 DEF Targets
    <2>3. stt[work.of].text \in Texts
      BY <1>1, InHand
    <2> QED
      BY <2>1, <2>2, <2>3 DEF Made
  <1> HIDE DEF m
  <1>3. partials' \subseteq Made
    BY <1>1, <1>2 DEF TypeOK
  <1>4. /\ work' \in Handling' /\ work'.at = "publish" /\ work'.of = work.of /\ work'.made = m
        /\ work'.src = work.src /\ work'.job = work.job /\ work'.cached = work.cached
    BY <1>1, <1>2 DEF Handling
  <1> QED
    BY <1>1, <1>3, <1>4 DEF m
-----------------------------------------------------------------------------
\* What a step of the router may change.
LEMMA RouterTyped ==
    ASSUME TypeOK, UNCHANGED <<env, stt, rows, shown>>, work' \in Handling', heard' \in 0..Len(stt),
           partials' \subseteq Made, recent' \subseteq Languages,
           record' \in {None} \cup SUBSET Entries, latest' \in 0..Len(stt),
           faults' \in 0..MaxFaults, inbox' \in Seq(Messages)
    PROVE  TypeOK'
  BY DEF TypeOK, env, Handling, Entries

LEMMA FaultTyped == ASSUME TypeOK, Fault PROVE faults' \in 0..MaxFaults /\ faults' = faults + 1
  BY TranslationAssumption DEF TypeOK, Fault

LEMMA RowTyped ==
    ASSUME TypeOK, NEW text \in Texts \cup {None}, NEW i \in Nat
    PROVE  /\ Append(rows, NewRow(text, i)) \in Seq([text : Texts \cup {None}, of : Nat])
           /\ Upserted(text, i) \in Seq([text : Texts \cup {None}, of : Nat])
  <1> DEFINE S == [text : Texts \cup {None}, of : Nat]
  <1>1. rows \in Seq(S) /\ NewRow(text, i) \in S
    BY DEF TypeOK, NewRow
  <1>2. ASSUME rows # <<>> PROVE Upserted(text, i) \in Seq(S)
    <2>1. Len(rows) \in 1..Len(rows)
      BY <1>1, <1>2, EmptySeq
    <2>2. rows[Len(rows)] \in S
      BY <1>1, <2>1, ElementOfSeq
    <2>3. rows[Len(rows)].text \in Texts \cup {None}
      BY <2>2
    <2>4. NewRow(IF rows[Len(rows)].text = None THEN text ELSE rows[Len(rows)].text, i) \in S
      BY <2>3 DEF NewRow
    <2> HIDE DEF S
    <2> QED
      BY <1>1, <1>2, <2>1, <2>4 DEF Upserted
  <1>3. rows = <<>> => Upserted(text, i) \in Seq(S)
    BY <1>1 DEF Upserted
  <1> QED
    BY <1>1, <1>2, <1>3

LEMMA TypeStep == ASSUME IInv, [Next]_vars PROVE TypeOK'
  <1> USE DEF IInv
  <1>0. /\ heard \in 0..Len(stt) /\ latest \in 0..Len(stt) /\ faults \in 0..MaxFaults
        /\ partials \subseteq Made /\ recent \subseteq Languages
        /\ record \in {None} \cup SUBSET Entries /\ inbox \in Seq(Messages)
    BY DEF TypeOK, Entries
  <1>1. ASSUME NEW kind \in Kinds, NEW text \in Texts \cup {None},
               NEW src \in Languages \cup {"auto"}, Speaks(kind, text, src)
        PROVE  TypeOK'
    <2>1. stt' \in Seq(Event) /\ Len(stt') = Len(stt) + 1 /\ Len(stt) \in Nat
      BY <1>1, SpeaksMore, SttTyped
    <2>2. inbox' \in Seq(Messages)
      <3>1. [ch |-> "stt", of |-> Len(stt) + 1, tgt |-> None, made |-> None] \in Messages
        BY <2>1 DEF Messages
      <3> QED
        BY <1>0, <1>1, <3>1 DEF Speaks
    <2>3. UNCHANGED <<env, router, record, rows, shown, latest, faults>>
      BY <1>1 DEF Speaks
    <2>4. shown' \in [Languages -> 0..Len(stt')]
      BY <2>1, <2>3 DEF TypeOK
    <2>5. work \in Handling /\ work' = work
      BY <2>3, WorkTyped DEF router
    <2>6. work' \in Handling'
      BY <2>1, <2>5 DEF Handling
    <2> QED
      BY <2>1, <2>2, <2>3, <2>4, <2>6, SMTT(30)
         DEF TypeOK, env, router, Handling, Entries, Event
  <1>2. ASSUME CreateRecord PROVE TypeOK'
    BY <1>2 DEF CreateRecord, TypeOK, env, router, relay
  <1>3. ASSUME Take PROVE TypeOK'
    BY <1>0, <1>3, TakeShape, RouterTyped DEF Take, relay
  <1>4. ASSUME NEW job, SkipTarget(job) PROVE TypeOK'
    BY <1>0, <1>4, OnToNext, RouterTyped DEF SkipTarget, relay
  <1>5. ASSUME NEW job, Throttled(job) PROVE TypeOK'
    BY <1>0, <1>5, OnToNext, RouterTyped DEF Throttled, relay
  <1>6. ASSUME NEW job \in work.todo, Translate(job) PROVE TypeOK'
    BY <1>0, <1>6, TranslateShape, RouterTyped DEF Translate, relay
  <1>7. ASSUME CallOk PROVE TypeOK'
    BY <1>0, <1>7, CallShape, RouterTyped DEF CallOk, relay
  <1>8. ASSUME CallFails PROVE TypeOK'
    BY <1>0, <1>8, OnToNext, FaultTyped, RouterTyped DEF CallFails, relay
  <1>9. ASSUME Publish PROVE TypeOK'
    <2>1. inbox' \in Seq(Messages)
      BY <1>0, <1>9, PublishedTyped DEF Publish, Sent
    <2>2. work' \in Handling'
      BY <1>9, Advanced DEF Publish, Costed
    <2>3. latest' \in 0..Len(stt)
      BY <1>0, <1>9, InHand, SttTyped DEF Publish
    <2> QED
      BY <1>0, <1>9, <2>1, <2>2, <2>3, RouterTyped DEF Publish
  <1>10. ASSUME Bill PROVE TypeOK'
    <2>1. work' \in Handling'
      BY <1>10, Advanced DEF Bill
    <2> QED
      BY <1>0, <1>10, <2>1, RouterTyped DEF Bill, relay
  <1>11. ASSUME PublishFails PROVE TypeOK'
    BY <1>0, <1>11, OnToNext, FaultTyped, RouterTyped DEF PublishFails, relay
  <1>12. ASSUME ReadRecord PROVE TypeOK'
    <2>1. work' \in Handling'
      <3>1. CASE NextTarget(work.job)
        BY <1>12, <3>1, OnToNext DEF ReadRecord
      <3>2. CASE work' = [work EXCEPT !.at = "noted", !.seen = record]
        BY <1>0, <1>12, <3>2, WorkTyped DEF ReadRecord, Handling
      <3> QED
        BY <1>12, <3>1, <3>2 DEF ReadRecord
    <2> QED
      BY <1>0, <1>12, <2>1, RouterTyped DEF ReadRecord, relay
  <1>13. ASSUME WriteRecord PROVE TypeOK'
    <2>1. work.seen \subseteq Entries /\ work.job \in Targets /\ work.of \in Nat
      BY <1>13, InHand DEF WriteRecord, WorkShape, Entries
    <2>2. Entry \in Entries
      BY <2>1 DEF Entry, Entries, Targets
    <2>3. record' \in {None} \cup SUBSET Entries
      BY <1>13, <2>1, <2>2 DEF WriteRecord, WithEntry
    <2> QED
      BY <1>0, <1>13, <2>3, OnToNext, RouterTyped DEF WriteRecord, relay
  <1>14. ASSUME NEW l \in Languages, IntervalEnds(l) PROVE TypeOK'
    BY <1>0, <1>14 DEF IntervalEnds, TypeOK, env, relay
  <1>15. ASSUME HandleStt PROVE TypeOK'
    <2>1. Head(inbox) \in InboxSet /\ inbox' \in Seq(Messages)
      BY <1>15, HandledHead DEF HandleStt
    <2>2. stt[Head(inbox).of] \in Event
      BY <2>1, SttTyped DEF InboxShape
    <2>3. stt[Head(inbox).of].text \in Texts \cup {None}
      BY <2>2 DEF Event
    <2>4. rows' \in Seq([text : Texts \cup {None}, of : Nat]) /\ faults' \in 0..MaxFaults
      <3>1. Append(rows, NewRow(stt[Head(inbox).of].text, 0)) \in Seq([text : Texts \cup {None}, of : Nat])
        BY <2>3, RowTyped
      <3>2. \/ rows' = Append(rows, NewRow(stt[Head(inbox).of].text, 0)) /\ faults' = faults
            \/ Fault /\ rows' = rows
        BY <1>15 DEF HandleStt
      <3> QED
        BY <1>0, <3>1, <3>2, FaultTyped DEF TypeOK
    <2> QED
      BY <1>15, <2>1, <2>4 DEF HandleStt, TypeOK, env, router
  <1>16. ASSUME HandleMt PROVE TypeOK'
    <2> DEFINE m == Head(inbox)
    <2>1. m \in InboxSet /\ inbox' \in Seq(Messages) /\ m \in Messages /\ m.ch = "mt"
      BY <1>16, HandledHead DEF HandleMt
    <2>2. m.of \in DOMAIN stt /\ m.tgt \in Languages
      BY <2>1 DEF InboxShape
    <2>3. stt[m.of].text \in Texts \cup {None} /\ m.of \in 0..Len(stt)
      BY <2>2, SttTyped DEF Event
    <2>4. rows' \in Seq([text : Texts \cup {None}, of : Nat]) /\ faults' \in 0..MaxFaults
      <3>0. m.of \in Nat
        BY <2>3
      <3>1. Upserted(stt[m.of].text, m.of) \in Seq([text : Texts \cup {None}, of : Nat])
        <4> HIDE DEF m
        <4> QED
          BY <2>3, <3>0, RowTyped
      <3>2. \/ rows' = rows /\ faults' = faults
            \/ rows' = Upserted(stt[m.of].text, m.of) /\ faults' = faults
            \/ Fault /\ rows' = rows
        BY <1>16 DEF HandleMt
      <3>3. rows \in Seq([text : Texts \cup {None}, of : Nat]) /\ faults \in 0..MaxFaults
        BY DEF TypeOK
      <3> QED
        BY <1>0, <3>1, <3>2, <3>3, FaultTyped
    <2>5. shown' \in [Languages -> 0..Len(stt)]
      BY <1>16, <2>2, <2>3 DEF HandleMt, TypeOK
    <2>6. UNCHANGED <<mode, enrolled, stt, heard, work, partials, recent, owed, record, latest>>
      BY <1>16 DEF HandleMt, env, router
    <2> QED
      BY <2>1, <2>4, <2>5, <2>6, SMTT(30) DEF TypeOK
  <1>17. ASSUME UNCHANGED vars PROVE TypeOK'
    BY <1>17 DEF vars, env, router, relay, TypeOK
  <1>18. Stt => CreateRecord \/ \E kind \in Kinds, text \in Texts \cup {None},
                                   src \in Languages \cup {"auto"} : Speaks(kind, text, src)
    BY TranslationAssumption DEF Stt, Partial, Final, Marker, Kinds
  <1> QED
    BY <1>1, <1>2, <1>3, <1>4, <1>5, <1>6, <1>7, <1>8, <1>9, <1>10, <1>11, <1>12, <1>13, <1>14,
       <1>15, <1>16, <1>17, <1>18
    DEF Next, Mt, Relay

\* What the router does with the event in hand without a message.
Quietly ==
    \/ Take \/ CallOk \/ CallFails \/ PublishFails \/ Bill \/ ReadRecord \/ WriteRecord
    \/ \E job \in work.todo : SkipTarget(job) \/ Throttled(job) \/ Translate(job)

LEMMA QuietChanges ==
    ASSUME Quietly
    PROVE  /\ UNCHANGED <<mode, stt, inbox, rows, shown, latest>>
           /\ heard' = heard \/ heard' = heard + 1
           /\ faults' = faults \/ faults' = faults + 1
  BY DEF Quietly, Take, CallOk, CallFails, PublishFails, Bill, ReadRecord, WriteRecord,
         SkipTarget, Throttled, Translate, Fault, relay, env

\* The event in hand and its translation.
LEMMA WorkStep == ASSUME IInv, [Next]_vars PROVE WorkShape'
  <1> USE DEF IInv
  <1>1. ASSUME UNCHANGED <<work, heard>>, heard \in DOMAIN stt => stt'[heard] = stt[heard]
        PROVE  WorkShape'
    <2>1. work.at # "idle" => stt'[heard] = stt[heard] /\ stt'[work.of] = stt[work.of]
      BY <1>1, SttTyped DEF WorkShape
    <2> QED
      BY <1>1, <2>1 DEF WorkShape
  \* The step is done with the target.
  <1>2. ASSUME NEW job, NextTarget(job), work.at # "idle", UNCHANGED <<heard, stt>> PROVE WorkShape'
    <2>1. work'.at \in {"idle", "each"} /\ (work'.at = "each" => work'.of = work.of /\ ~work'.cached)
      BY <1>2, OnToNext
    <2> QED
      BY <1>2, <2>1 DEF WorkShape
  <1>3. ASSUME Take PROVE WorkShape'
    <2>1. stt' = stt /\ heard \in Nat
      BY <1>3, SttTyped DEF Take
    <2> QED
      BY <1>3, <2>1, TakeShape DEF WorkShape
  <1>4. ASSUME NEW job \in work.todo, Translate(job) PROVE WorkShape'
    <2>1. UNCHANGED <<heard, stt>> /\ work.at = "each"
      BY <1>4 DEF Translate
    <2> QED
      BY <1>4, <2>1, TranslateShape DEF WorkShape
  <1>5. ASSUME CallOk PROVE WorkShape'
    <2>1. UNCHANGED <<heard, stt>> /\ work.at = "call"
      BY <1>5 DEF CallOk
    <2> QED
      BY <1>5, <2>1, CallShape DEF WorkShape
  <1>6. ASSUME Publish PROVE WorkShape'
    <2>1. UNCHANGED <<heard, stt>> /\ work.at = "publish" /\ work' = [work EXCEPT !.at = Costed]
      BY <1>6 DEF Publish
    <2>2. Costed \in {"bill", "note"} /\ (Costed = "bill" => ~work.cached)
      BY DEF Costed
    <2>3. /\ work'.at = Costed /\ work'.of = work.of /\ work'.src = work.src
          /\ work'.job = work.job /\ work'.made = work.made /\ work'.cached = work.cached
      BY <2>1, <2>2, Advanced
    <2> QED
      BY <2>1, <2>2, <2>3 DEF WorkShape
  <1>7. ASSUME Bill PROVE WorkShape'
    <2>1. UNCHANGED <<heard, stt>> /\ work.at = "bill" /\ work' = [work EXCEPT !.at = "note"]
      BY <1>7 DEF Bill
    <2>2. work'.at = "note" /\ work'.of = work.of /\ work'.src = work.src /\ work'.job = work.job
      BY <2>1, Advanced
    <2> QED
      BY <2>1, <2>2 DEF WorkShape
  <1>8. ASSUME ReadRecord PROVE WorkShape'
    <2>1. UNCHANGED <<heard, stt>> /\ work.at = "note"
      BY <1>8 DEF ReadRecord
    <2>2. CASE NextTarget(work.job)
      BY <1>2, <2>1, <2>2
    <2>3. CASE record # None /\ work' = [work EXCEPT !.at = "noted", !.seen = record]
      <3>1. work'.at = "noted" /\ work'.of = work.of /\ work'.src = work.src
            /\ work'.job = work.job /\ work'.seen = record
        BY <2>3, WorkTyped DEF Handling
      <3> QED
        BY <2>1, <2>3, <3>1 DEF WorkShape, TypeOK
    <2> QED
      BY <1>8, <2>2, <2>3 DEF ReadRecord
  <1>9. ASSUME \/ CallFails \/ PublishFails \/ WriteRecord
               \/ \E job \in work.todo : SkipTarget(job) \/ Throttled(job)
        PROVE  WorkShape'
    BY <1>2, <1>9 DEF CallFails, PublishFails, WriteRecord, SkipTarget, Throttled
  <1>10. ASSUME NEW kind \in Kinds, NEW text \in Texts \cup {None},
                NEW src \in Languages \cup {"auto"}, Speaks(kind, text, src)
         PROVE  WorkShape'
    BY <1>1, <1>10, SpeaksMore DEF Speaks, router
  <1>11. CreateRecord \/ Relay \/ (\E l \in Languages : IntervalEnds(l)) \/ UNCHANGED vars
           => UNCHANGED <<work, heard, stt>>
    BY DEF CreateRecord, Relay, HandleStt, HandleMt, IntervalEnds, vars, router
  <1>12. Stt => CreateRecord \/ \E kind \in Kinds, text \in Texts \cup {None},
                                   src \in Languages \cup {"auto"} : Speaks(kind, text, src)
    BY TranslationAssumption DEF Stt, Partial, Final, Marker, Kinds
  <1> QED
    BY <1>1, <1>3, <1>4, <1>5, <1>6, <1>7, <1>8, <1>9, <1>10, <1>11, <1>12 DEF Next, Mt

\* A call is owed until it is billed, and for good if something failed in between.
LEMMA OwingStep == ASSUME IInv, [Next]_vars PROVE Owing'
  <1> USE DEF IInv
  <1>1. owed \in Int /\ faults \in Nat /\ Unbilled \in {0, 1}
    BY SttTyped DEF Owing, Unbilled
  <1>2. ASSUME UNCHANGED <<owed, work>>, faults' = faults \/ faults' = faults + 1 PROVE Owing'
    BY <1>1, <1>2 DEF Owing, Unbilled
  <1>3. ASSUME UNCHANGED owed, Unbilled' = Unbilled, faults' = faults PROVE Owing'
    BY <1>1, <1>3 DEF Owing
  <1>4. ASSUME NEW job, NextTarget(job), stt' = stt PROVE Unbilled' = 0
    BY <1>4, OnToNext DEF Unbilled
  <1>5. ASSUME Take PROVE Owing'
    <2>1. Unbilled = 0 /\ UNCHANGED <<owed, faults>>
      BY <1>5 DEF Take, Unbilled
    <2>2. work'.at \in {"idle", "each"}
      BY <1>5, TakeShape
    <2>3. Unbilled' = 0
      BY <2>2 DEF Unbilled
    <2> QED
      BY <1>3, <2>1, <2>3
  <1>6. ASSUME NEW job \in work.todo, SkipTarget(job) \/ Throttled(job) PROVE Owing'
    <2>1. /\ Unbilled = 0 /\ NextTarget(job) /\ UNCHANGED <<stt, owed, faults>>
      BY <1>6 DEF SkipTarget, Throttled, Unbilled
    <2> QED
      BY <1>3, <1>4, <2>1
  <1>7. ASSUME NEW job \in work.todo, Translate(job) PROVE Owing'
    <2>1. Unbilled = 0 /\ UNCHANGED <<owed, faults>>
      BY <1>7 DEF Translate, Unbilled
    <2>2. Unbilled' = 0
      BY <1>7, TranslateShape DEF Unbilled
    <2> QED
      BY <1>3, <2>1, <2>2
  <1>8. ASSUME CallOk PROVE Owing'
    <2>1. Unbilled = 0 /\ owed' = owed + 1 /\ faults' = faults
      BY <1>8 DEF CallOk, Unbilled
    <2>2. Unbilled' = 1
      BY <1>8, CallShape DEF Unbilled
    <2> QED
      BY <1>1, <2>1, <2>2 DEF Owing
  <1>9. ASSUME CallFails \/ PublishFails PROVE Owing'
    <2>1. faults' = faults + 1 /\ owed' = owed
      BY <1>9 DEF CallFails, PublishFails, Fault
    <2>2. Unbilled' = 0
      BY <1>4, <1>9 DEF CallFails, PublishFails
    <2> QED
      BY <1>1, <2>1, <2>2 DEF Owing
  <1>10. ASSUME Publish PROVE Owing'
    <2>1. work.at = "publish" /\ work' = [work EXCEPT !.at = Costed] /\ UNCHANGED <<stt, owed, faults>>
      BY <1>10 DEF Publish
    <2>2. work'.at = Costed /\ work'.cached = work.cached
      BY <2>1, Advanced DEF Costed
    <2>3. Unbilled' = Unbilled
      BY <2>1, <2>2 DEF Unbilled, Costed
    <2> QED
      BY <1>3, <2>1, <2>3
  <1>11. ASSUME Bill PROVE Owing'
    <2>1. work.at = "bill" /\ owed' = owed - 1 /\ faults' = faults /\ stt' = stt
          /\ work' = [work EXCEPT !.at = "note"]
      BY <1>11 DEF Bill
    <2>2. Unbilled = 1
      BY <2>1 DEF Unbilled, WorkShape
    <2>3. Unbilled' = 0
      BY <2>1, Advanced DEF Unbilled
    <2> QED
      BY <1>1, <2>1, <2>2, <2>3 DEF Owing
  <1>12. ASSUME ReadRecord PROVE Owing'
    <2>1. Unbilled = 0 /\ UNCHANGED <<stt, owed, faults>>
      BY <1>12 DEF ReadRecord, Unbilled
    <2>2. Unbilled' = 0
      <3>1. CASE NextTarget(work.job)
        BY <1>4, <2>1, <3>1
      <3>2. CASE work' = [work EXCEPT !.at = "noted", !.seen = record]
        <4>1. work'.at = "noted"
          BY <3>2, WorkTyped DEF Handling
        <4> QED
          BY <4>1 DEF Unbilled
      <3> QED
        BY <1>12, <3>1, <3>2 DEF ReadRecord
    <2> QED
      BY <1>3, <2>1, <2>2
  <1>13. ASSUME WriteRecord PROVE Owing'
    <2>1. Unbilled = 0 /\ NextTarget(work.job) /\ UNCHANGED <<stt, owed, faults>>
      BY <1>13 DEF WriteRecord, Unbilled
    <2> QED
      BY <1>3, <1>4, <2>1
  <1>14. Stt \/ Relay \/ (\E l \in Languages : IntervalEnds(l)) \/ UNCHANGED vars
           => UNCHANGED <<owed, work>> /\ (faults' = faults \/ faults' = faults + 1)
    BY DEF Stt, Partial, Final, Marker, Speaks, CreateRecord, Relay, HandleStt, HandleMt, Fault,
           IntervalEnds, vars, router
  <1> QED
    BY <1>2, <1>5, <1>6, <1>7, <1>8, <1>9, <1>10, <1>11, <1>12, <1>13, <1>14 DEF Next, Mt
-----------------------------------------------------------------------------
LEMMA NextCases ==
    ASSUME [Next]_vars
    PROVE  \/ Quietly \/ Publish \/ HandleStt \/ HandleMt
           \/ \E kind \in Kinds, text \in Texts \cup {None}, src \in Languages \cup {"auto"} :
                /\ Speaks(kind, text, src)
                /\ kind = "marker" <=> text = None
                /\ mode = "stream" => (kind \in {"partial", "final"} => Finals = {})
                /\ kind = "marker" => mode = "stream"
           \/ UNCHANGED <<mode, stt, heard, inbox, rows, shown, latest, faults>>
  <1>1. ASSUME NEW text \in Texts, NEW src \in Sources, Partial(text, src) \/ Final(text, src)
        PROVE  \E kind \in Kinds, te \in Texts \cup {None}, sr \in Languages \cup {"auto"} :
                /\ Speaks(kind, te, sr)
                /\ kind = "marker" <=> te = None
                /\ mode = "stream" => (kind \in {"partial", "final"} => Finals = {})
                /\ kind = "marker" => mode = "stream"
    <2>1. text # None /\ src \in Languages \cup {"auto"} /\ text \in Texts \cup {None}
      BY TranslationAssumption
    <2>2. CASE Partial(text, src)
      BY <2>1, <2>2 DEF Partial, Kinds
    <2>3. CASE Final(text, src)
      BY <2>1, <2>3 DEF Final, Kinds
    <2> QED
      BY <1>1, <2>2, <2>3
  <1>2. ASSUME Marker
        PROVE  \E kind \in Kinds, te \in Texts \cup {None}, sr \in Languages \cup {"auto"} :
                /\ Speaks(kind, te, sr)
                /\ kind = "marker" <=> te = None
                /\ mode = "stream" => (kind \in {"partial", "final"} => Finals = {})
                /\ kind = "marker" => mode = "stream"
    BY <1>2 DEF Marker, Kinds
  <1>3. CreateRecord \/ (\E l \in Languages : IntervalEnds(l)) \/ UNCHANGED vars
          => UNCHANGED <<mode, stt, heard, inbox, rows, shown, latest, faults>>
    BY DEF CreateRecord, IntervalEnds, vars, router, relay, env
  <1> QED
    BY <1>1, <1>2, <1>3 DEF Next, Stt, Mt, Relay, Quietly

\* The relay's messages: what each kind of step does to them.
LEMMA QueueStep ==
    ASSUME IInv, [Next]_vars
    PROVE  InboxShape' /\ InOrder' /\ ShownBehind'
  <1> USE DEF IInv
  <1>0. heard \in Nat /\ shown \in [Languages -> Nat]
    BY SttTyped DEF TypeOK
  <1>1. ASSUME UNCHANGED <<stt, inbox, shown>>, heard' = heard \/ heard' = heard + 1
        PROVE  InboxShape' /\ InOrder' /\ ShownBehind'
    <2>1. InboxSet' = InboxSet /\ heard <= heard' /\ heard' \in Nat
      BY <1>0, <1>1 DEF InboxSet
    <2>2. \A m \in InboxSet : m.of \in DOMAIN stt /\ m.of \in Nat
      BY SttTyped DEF InboxShape
    <2>3. InboxShape'
      BY <1>0, <1>1, <2>1, <2>2 DEF InboxShape
    <2>4. ShownBehind'
      BY <1>0, <1>1, <2>1 DEF ShownBehind
    <2> QED
      BY <1>1, <2>3, <2>4 DEF InOrder, Before
  <1>2. ASSUME NEW kind \in Kinds, NEW text \in Texts \cup {None},
               NEW src \in Languages \cup {"auto"}, Speaks(kind, text, src)
        PROVE  InboxShape' /\ InOrder' /\ ShownBehind'
    <2> DEFINE m == [ch |-> "stt", of |-> Len(stt) + 1, tgt |-> None, made |-> None]
    <2>1. /\ \A n \in InboxSet : n.of \in DOMAIN stt /\ n.of < Len(stt) + 1 /\ stt'[n.of] = stt[n.of]
          /\ DOMAIN stt \subseteq DOMAIN stt' /\ Len(stt) + 1 \in DOMAIN stt'
          /\ stt'[Len(stt) + 1].kind = kind
      <3>1. /\ DOMAIN stt' = DOMAIN stt \cup {Len(stt) + 1}
            /\ \A i \in DOMAIN stt : i < Len(stt) + 1 /\ stt'[i] = stt[i]
        BY <1>2, SpeaksMore
      <3>2. stt'[Len(stt) + 1].kind = kind
        BY <1>2, SpeaksMore
      <3>3. \A n \in InboxSet : n.of \in DOMAIN stt
        BY DEF InboxShape
      <3> QED
        BY <3>1, <3>2, <3>3
    <2>2. UNCHANGED <<heard, shown>>
      BY <1>2 DEF Speaks, router
    <2>3. CASE kind = "partial"
      <3>1. InboxSet' = InboxSet /\ inbox' = inbox
        BY <1>2, <2>3 DEF Speaks, InboxSet
      <3> QED
        BY <2>1, <2>2, <3>1 DEF InboxShape, InOrder, Before, ShownBehind
    <2>4. CASE kind # "partial"
      <3>1. m \in Messages /\ m.ch = "stt" /\ m.of = Len(stt) + 1
        BY SttTyped DEF Messages
      <3>2. inbox' = Append(inbox, m)
        BY <1>2, <2>4 DEF Speaks
      <3> HIDE DEF m
      <3>3. \A n \in InboxSet : Before(n, m)
        BY <2>1, <3>1 DEF Before
      <3>4. InboxSet' = InboxSet \cup {m} /\ InOrder'
        BY <3>1, <3>2, <3>3, SentMore
      <3>5. InboxShape'
        BY <2>1, <2>2, <2>4, <3>1, <3>4 DEF InboxShape
      <3>6. ShownBehind'
        BY <2>2, <3>1, <3>4 DEF ShownBehind
      <3> QED
        BY <3>4, <3>5, <3>6
    <2> QED
      BY <2>3, <2>4
  <1>3. ASSUME Publish PROVE InboxShape' /\ InOrder' /\ ShownBehind'
    <2> DEFINE m == [ch |-> "mt", of |-> work.of, tgt |-> work.job.tgt, made |-> work.made]
    <2>1. /\ UNCHANGED <<stt, heard, shown>> /\ inbox' = Append(inbox, m) /\ work.at = "publish"
      BY <1>3 DEF Publish, Sent
    <2>2. m \in Messages /\ m.ch = "mt" /\ m.of = work.of /\ m.tgt = work.job.tgt /\ m.made = work.made
      BY <2>1, PublishedTyped
    <2> HIDE DEF m
    <2>3. /\ m.of = heard /\ m.of \in DOMAIN stt /\ stt[m.of].kind # "marker"
          /\ m.made.text = stt[m.of].text /\ m.made.tgt = m.tgt /\ m.tgt \in Languages
      <3>1. /\ work.of = heard /\ work.of \in DOMAIN stt /\ stt[work.of].kind # "marker"
        BY <2>1, InHand DEF WorkShape
      <3>2. work.made = [text |-> stt[work.of].text, src |-> work.src, tgt |-> work.job.tgt]
        BY <2>1 DEF WorkShape
      <3>3. work.job.tgt \in Languages
        BY <2>1, PublishedTyped DEF Targets
      <3> QED
        BY <2>2, <3>1, <3>2, <3>3
    <2>4. \A n \in InboxSet : Before(n, m)
      BY <2>2, <2>3 DEF InboxShape, Before
    <2>5. InboxSet' = InboxSet \cup {m} /\ InOrder'
      BY <2>1, <2>2, <2>4, SentMore
    <2>6. InboxShape'
      BY <1>0, <2>1, <2>2, <2>3, <2>5 DEF InboxShape
    <2>7. ShownBehind'
      BY <1>0, <2>1, <2>2, <2>3, <2>5 DEF ShownBehind
    <2> QED
      BY <2>5, <2>6, <2>7
  <1>4. ASSUME HandleStt PROVE InboxShape' /\ InOrder' /\ ShownBehind'
    <2>1. UNCHANGED <<stt, heard, shown>> /\ inbox' = Tail(inbox) /\ inbox # <<>>
      BY <1>4 DEF HandleStt, router
    <2>2. (\A n \in InboxSet' : n \in InboxSet) /\ InOrder'
      BY <2>1, HandledHead
    <2> QED
      BY <2>1, <2>2 DEF InboxShape, ShownBehind
  <1>5. ASSUME HandleMt PROVE InboxShape' /\ InOrder' /\ ShownBehind'
    <2> DEFINE m == Head(inbox)
    <2>1. /\ UNCHANGED <<stt, heard>> /\ inbox' = Tail(inbox) /\ inbox # <<>> /\ m.ch = "mt"
          /\ shown' = [shown EXCEPT ![m.tgt] = m.of]
      BY <1>5 DEF HandleMt, router
    <2>2. /\ \A n \in InboxSet' : n \in InboxSet /\ Before(m, n)
          /\ InOrder' /\ m \in InboxSet
      BY <2>1, HandledHead
    <2> HIDE DEF m
    <2>3. m.of <= heard /\ \A n \in InboxSet' : n.ch = "mt" => m.of <= n.of
      BY <2>1, <2>2 DEF InboxShape, Before
    <2>4. \A k \in Languages : shown'[k] = m.of \/ shown'[k] = shown[k]
      BY <1>0, <2>1
    <2>5. ShownBehind'
      BY <2>1, <2>2, <2>3, <2>4 DEF ShownBehind
    <2>6. InboxShape'
      BY <2>1, <2>2 DEF InboxShape
    <2> QED
      BY <2>2, <2>5, <2>6
  <1> QED
    BY <1>1, <1>2, <1>3, <1>4, <1>5, NextCases, QuietChanges

\* The finals of the segment.
LEMMA SttStep == ASSUME IInv, [Next]_vars PROVE SttShape'
  <1> USE DEF IInv
  <1>1. ASSUME UNCHANGED <<stt, mode>> PROVE SttShape'
    BY <1>1 DEF SttShape, Finals
  <1>2. ASSUME NEW kind \in Kinds, NEW text \in Texts \cup {None},
               NEW src \in Languages \cup {"auto"}, Speaks(kind, text, src),
               kind = "marker" <=> text = None,
               mode = "stream" => (kind \in {"partial", "final"} => Finals = {}),
               kind = "marker" => mode = "stream"
        PROVE  SttShape'
    <2>1. /\ DOMAIN stt' = DOMAIN stt \cup {Len(stt) + 1}
          /\ \A i \in DOMAIN stt : stt'[i] = stt[i]
          /\ Finals' = IF kind = "final" THEN Finals \cup {Len(stt) + 1} ELSE Finals
      BY <1>2, SpeaksMore
    <2>2. stt'[Len(stt) + 1].kind = kind /\ stt'[Len(stt) + 1].text = text
      BY <1>2, SpeaksMore
    <2>3. mode' = mode
      BY <1>2 DEF Speaks, env
    <2>4. \A i \in DOMAIN stt' : /\ stt'[i].kind # "marker" => stt'[i].text # None
                                 /\ stt'[i].kind = "marker" => stt'[i].text = None /\ mode = "stream"
      BY <1>2, <2>1, <2>2 DEF SttShape
    <2>5. mode = "stream" => \A i, j \in Finals' : i = j
      BY <1>2, <2>1 DEF SttShape
    <2> QED
      BY <2>3, <2>4, <2>5 DEF SttShape
  <1>3. UNCHANGED <<mode, stt>> \/ ~(Quietly \/ Publish \/ HandleStt \/ HandleMt)
    BY QuietChanges DEF Publish, HandleStt, HandleMt, env
  <1> QED
    BY <1>1, <1>2, <1>3, NextCases

\* The last final and the translations of earlier ones.
LEMMA LatestStep == ASSUME IInv, [Next]_vars PROVE LatestLast'
  <1> USE DEF IInv
  <1>0. heard \in Nat /\ latest \in Nat
    BY SttTyped
  <1>1. ASSUME UNCHANGED <<stt, inbox, latest>>, heard' = heard \/ heard' = heard + 1 PROVE LatestLast'
    <2>1. InboxSet' = InboxSet /\ Finals' = Finals
      BY <1>1 DEF InboxSet, Finals
    <2> QED
      BY <1>0, <1>1, <2>1 DEF LatestLast, InTheInbox
  <1>2. ASSUME NEW kind \in Kinds, NEW text \in Texts \cup {None},
               NEW src \in Languages \cup {"auto"}, Speaks(kind, text, src)
        PROVE  LatestLast'
    <2>1. Finals \subseteq Finals'
      BY <1>2, SpeaksMore
    <2>2. UNCHANGED <<heard, latest>>
      BY <1>2 DEF Speaks, router
    <2>3. InboxSet \subseteq InboxSet' /\ \A m \in InboxSet' : m.ch = "mt" => m \in InboxSet
      <3> DEFINE m == [ch |-> "stt", of |-> Len(stt) + 1, tgt |-> None, made |-> None]
      <3>1. m \in Messages /\ m.ch = "stt"
        BY SttTyped DEF Messages
      <3>2. inbox' = inbox \/ inbox' = Append(inbox, m)
        BY <1>2 DEF Speaks
      <3> HIDE DEF m
      <3>3. inbox' = inbox => InboxSet' = InboxSet
        BY DEF InboxSet
      <3> QED
        BY <3>1, <3>2, <3>3, SentMore
    <2> QED
      BY <2>1, <2>2, <2>3 DEF LatestLast, InTheInbox
  <1>3. ASSUME Publish PROVE LatestLast'
    <2> DEFINE m == [ch |-> "mt", of |-> work.of, tgt |-> work.job.tgt, made |-> work.made]
    <2>1. /\ UNCHANGED <<stt, heard>> /\ inbox' = Append(inbox, m) /\ work.at = "publish"
          /\ latest' = IF IsFinal THEN work.of ELSE latest
      BY <1>3 DEF Publish, Sent
    <2>2. m \in Messages /\ m.ch = "mt" /\ m.of = work.of
      BY <2>1, PublishedTyped
    <2> HIDE DEF m
    <2>3. InboxSet' = InboxSet \cup {m} /\ Finals' = Finals
      BY <2>1, <2>2, SentMore DEF Finals
    <2>4. work.of = heard /\ work.of \in DOMAIN stt /\ work.of # 0
      BY <2>1, InHand
    <2>5. CASE IsFinal
      <3>1. work.of \in Finals
        BY <2>4, <2>5, SttTyped DEF Finals, IsFinal
      <3> QED
        BY <1>0, <2>1, <2>2, <2>3, <2>4, <2>5, <3>1 DEF LatestLast, InTheInbox
    <2>6. CASE ~IsFinal
      <3>1. latest' = latest /\ ~(m.of < latest)
        BY <1>0, <2>1, <2>2, <2>4, <2>6 DEF LatestLast
      <3> QED
        BY <2>1, <2>2, <2>3, <3>1 DEF LatestLast, InTheInbox
    <2> QED
      BY <2>5, <2>6
  <1>4. ASSUME HandleStt \/ HandleMt PROVE LatestLast'
    <2> DEFINE m == Head(inbox)
    <2>1. UNCHANGED <<stt, heard, latest>> /\ inbox' = Tail(inbox) /\ inbox # <<>>
      BY <1>4 DEF HandleStt, HandleMt, router
    <2>2. /\ \A n \in InboxSet' : n \in InboxSet /\ Before(m, n)
          /\ InboxSet = InboxSet' \cup {m}
      BY <2>1, HandledHead
    <2> HIDE DEF m
    <2>3. Finals' = Finals
      BY <2>1 DEF Finals
    <2>4. \A n \in InboxSet : n.of \in Nat
      BY SttTyped DEF InboxShape
    <2>5. ASSUME NEW n \in InboxSet', n.ch = "mt", n.of < latest
          PROVE  InTheInbox("mt", latest)'
      <3>1. PICK l \in InboxSet : l.ch = "mt" /\ l.of = latest
        BY <2>2, <2>5 DEF LatestLast, InTheInbox
      <3>2. l # m
        BY <1>0, <2>2, <2>4, <2>5, <3>1 DEF Before
      <3> QED
        BY <2>1, <2>2, <3>1, <3>2 DEF InTheInbox
    <2> QED
      BY <2>1, <2>3, <2>5 DEF LatestLast
  <1>5. ASSUME UNCHANGED <<mode, stt, heard, inbox, rows, shown, latest, faults>> PROVE LatestLast'
    BY <1>1, <1>5
  <1> QED
    BY <1>1, <1>2, <1>3, <1>4, <1>5, NextCases, QuietChanges

\* What a step leaves of the messages and the rows of the relay.
LEMMA SpokenInbox ==
    ASSUME TypeOK, NEW kind \in Kinds, NEW text \in Texts \cup {None},
           NEW src \in Languages \cup {"auto"}, Speaks(kind, text, src)
    PROVE  /\ \A ch, i : InTheInbox(ch, i) => InTheInbox(ch, i)'
           /\ \A m \in InboxSet' : m \in InboxSet \/ (m.ch = "stt" /\ m.of = Len(stt) + 1)
           /\ kind # "partial" => \A i : i = Len(stt) + 1 => InTheInbox("stt", i)'
           /\ UNCHANGED <<mode, rows, latest, faults>>
  <1> DEFINE m == [ch |-> "stt", of |-> Len(stt) + 1, tgt |-> None, made |-> None]
  <1>1. m \in Messages /\ m.ch = "stt" /\ m.of = Len(stt) + 1
    BY SttTyped DEF Messages
  <1>2. IF kind = "partial" THEN inbox' = inbox ELSE inbox' = Append(inbox, m)
    BY DEF Speaks
  <1>3. UNCHANGED <<mode, rows, latest, faults>>
    BY DEF Speaks, env
  <1> HIDE DEF m
  <1>4. IF kind = "partial" THEN InboxSet' = InboxSet ELSE InboxSet' = InboxSet \cup {m}
    BY <1>1, <1>2, SentMore DEF InboxSet
  <1>5. InboxSet \subseteq InboxSet' /\ \A n \in InboxSet' : n \in InboxSet \/ n = m
    BY <1>4
  <1>6. \A ch, i : InTheInbox(ch, i) => InTheInbox(ch, i)'
    BY <1>5 DEF InTheInbox
  <1>7. \A n \in InboxSet' : n \in InboxSet \/ (n.ch = "stt" /\ n.of = Len(stt) + 1)
    BY <1>1, <1>5
  <1>8. kind # "partial" => \A i : i = Len(stt) + 1 => InTheInbox("stt", i)'
    BY <1>1, <1>4 DEF InTheInbox
  <1> QED
    BY <1>3, <1>6, <1>7, <1>8

LEMMA PublishedInbox ==
    ASSUME TypeOK, SttShape, WorkShape, Publish
    PROVE  /\ \A i : i = work.of => InTheInbox("mt", i)'
           /\ \A ch, i : InTheInbox(ch, i) => InTheInbox(ch, i)'
           /\ \A i : InTheInbox("stt", i)' => InTheInbox("stt", i)
           /\ \A m \in InboxSet' : m \in InboxSet \/ m.ch = "mt"
           /\ UNCHANGED <<mode, stt, rows, faults>>
  <1> DEFINE m == [ch |-> "mt", of |-> work.of, tgt |-> work.job.tgt, made |-> work.made]
  <1>1. m \in Messages /\ m.ch = "mt" /\ m.of = work.of
    BY PublishedTyped DEF Publish
  <1>2. inbox' = Append(inbox, m) /\ UNCHANGED <<mode, stt, rows, faults>>
    BY DEF Publish, Sent, env
  <1> HIDE DEF m
  <1>3. InboxSet' = InboxSet \cup {m}
    BY <1>1, <1>2, SentMore
  <1>4. \A i : i = work.of => InTheInbox("mt", i)'
    BY <1>1, <1>3 DEF InTheInbox
  <1>5. \A ch, i : InTheInbox(ch, i) => InTheInbox(ch, i)'
    BY <1>3 DEF InTheInbox
  <1>6. \A i : InTheInbox("stt", i)' => InTheInbox("stt", i)
    BY <1>1, <1>3 DEF InTheInbox
  <1> QED
    BY <1>1, <1>2, <1>3, <1>4, <1>5, <1>6

LEMMA RelayedInbox ==
    ASSUME TypeOK, InOrder, HandleStt \/ HandleMt
    PROVE  /\ Head(inbox) \in InboxSet
           /\ \A n \in InboxSet' : n \in InboxSet /\ Before(Head(inbox), n)
           /\ \A n \in InboxSet : n = Head(inbox) \/ n \in InboxSet'
           /\ \A ch, i : InTheInbox(ch, i)' => InTheInbox(ch, i)
           /\ \A ch, i : InTheInbox(ch, i) =>
                InTheInbox(ch, i)' \/ (ch = Head(inbox).ch /\ i = Head(inbox).of)
           /\ UNCHANGED <<mode, stt, latest>> /\ Finals' = Finals
  <1> DEFINE m == Head(inbox)
  <1>1. inbox' = Tail(inbox) /\ inbox # <<>> /\ UNCHANGED <<mode, stt, latest>>
    BY DEF HandleStt, HandleMt, env
  <1>2. /\ InboxSet = InboxSet' \cup {m} /\ m \in InboxSet
        /\ \A n \in InboxSet' : n \in InboxSet /\ Before(m, n)
    BY <1>1, HandledHead
  <1>3. Finals' = Finals
    BY <1>1 DEF Finals
  <1> HIDE DEF m
  <1>4. /\ \A ch, i : InTheInbox(ch, i)' => InTheInbox(ch, i)
        /\ \A ch, i : InTheInbox(ch, i) => InTheInbox(ch, i)' \/ (ch = m.ch /\ i = m.of)
    BY <1>2 DEF InTheInbox
  <1> QED
    BY <1>1, <1>2, <1>3, <1>4 DEF m

LEMMA HandledStep == ASSUME IInv, [Next]_vars PROVE HandledInOrder'
  <1> USE DEF IInv
  <1>1. ASSUME UNCHANGED <<stt, inbox>> PROVE HandledInOrder'
    BY <1>1 DEF HandledInOrder, InTheInbox, InboxSet
  <1>2. ASSUME NEW kind \in Kinds, NEW text \in Texts \cup {None},
               NEW src \in Languages \cup {"auto"}, Speaks(kind, text, src)
        PROVE  HandledInOrder'
    <2> SUFFICES ASSUME NEW i \in DOMAIN stt', stt'[i].kind # "partial", ~InTheInbox("stt", i)',
                        NEW m \in InboxSet', m.ch = "stt"
                 PROVE  i < m.of
      BY DEF HandledInOrder
    <2>1. /\ DOMAIN stt' = DOMAIN stt \cup {Len(stt) + 1}
          /\ \A j \in DOMAIN stt : j < Len(stt) + 1 /\ stt'[j] = stt[j]
          /\ stt'[Len(stt) + 1].kind = kind
      BY <1>2, SpeaksMore
    <2>2. i \in DOMAIN stt
      <3>1. CASE kind = "partial"
        BY <2>1, <3>1
      <3>2. CASE kind # "partial"
        <4>1. i # Len(stt) + 1
          BY <1>2, <3>2, SpokenInbox
        <4> QED
          BY <2>1, <4>1
      <3> QED
        BY <3>1, <3>2
    <2>3. ~InTheInbox("stt", i)
      BY <1>2, SpokenInbox
    <2>4. m \in InboxSet \/ m.of = Len(stt) + 1
      BY <1>2, SpokenInbox
    <2> QED
      BY <2>1, <2>2, <2>3, <2>4 DEF HandledInOrder
  <1>3. ASSUME Publish PROVE HandledInOrder'
    BY <1>3, PublishedInbox DEF HandledInOrder
  <1>4. ASSUME HandleStt \/ HandleMt PROVE HandledInOrder'
    <2> SUFFICES ASSUME NEW i \in DOMAIN stt', stt'[i].kind # "partial", ~InTheInbox("stt", i)',
                        NEW n \in InboxSet', n.ch = "stt"
                 PROVE  i < n.of
      BY DEF HandledInOrder
    <2>1. stt' = stt /\ n \in InboxSet
      BY <1>4, RelayedInbox
    <2>2. CASE InTheInbox("stt", i)
      <3>1. i = Head(inbox).of
        BY <1>4, <2>2, RelayedInbox
      <3>2. Before(Head(inbox), n)
        BY <1>4, RelayedInbox
      <3> QED
        BY <3>1, <3>2 DEF Before
    <2>3. CASE ~InTheInbox("stt", i)
      BY <2>1, <2>3 DEF HandledInOrder
    <2> QED
      BY <2>2, <2>3
  <1>5. ASSUME UNCHANGED <<mode, stt, heard, inbox, rows, shown, latest, faults>> PROVE HandledInOrder'
    BY <1>1, <1>5
  <1> QED
    BY <1>1, <1>2, <1>3, <1>4, <1>5, NextCases, QuietChanges

\* The rows after a message, if nothing fails.
LEMMA RowAppended ==
    ASSUME TypeOK, NEW row \in [text : Texts \cup {None}, of : Nat], rows' = Append(rows, row)
    PROVE  /\ Len(rows) \in Nat /\ Len(rows') = Len(rows) + 1 /\ rows' # <<>>
           /\ rows'[Len(rows')] = row
           /\ DOMAIN rows = 1..Len(rows) /\ DOMAIN rows' = 1..Len(rows')
           /\ \A k \in 1..Len(rows) : rows'[k] = rows[k]
  <1>1. rows \in Seq([text : Texts \cup {None}, of : Nat])
    BY DEF TypeOK
  <1> QED
    BY <1>1

LEMMA RowUpserted ==
    ASSUME TypeOK, NEW text \in Texts, NEW i \in Nat, rows # <<>>, rows' = Upserted(text, i)
    PROVE  /\ Len(rows) \in Nat \ {0} /\ Len(rows') = Len(rows) /\ rows' # <<>>
           /\ DOMAIN rows = 1..Len(rows) /\ DOMAIN rows' = 1..Len(rows)
           /\ \A k \in 1..Len(rows) : k # Len(rows) => rows'[k] = rows[k]
           /\ rows'[Len(rows)] =
                NewRow(IF rows[Len(rows)].text = None THEN text ELSE rows[Len(rows)].text, i)
  <1>1. rows \in Seq([text : Texts \cup {None}, of : Nat])
    BY DEF TypeOK
  <1>2. Len(rows) \in Nat \ {0} /\ DOMAIN rows = 1..Len(rows)
    BY <1>1, EmptySeq
  <1> DEFINE row == NewRow(IF rows[Len(rows)].text = None THEN text ELSE rows[Len(rows)].text, i)
  <1>3. rows' = [rows EXCEPT ![Len(rows)] = row]
    BY DEF Upserted
  <1>4. row \in [text : Texts \cup {None}, of : Nat]
    <2>1. rows[Len(rows)].text \in Texts \cup {None}
      <3>1. rows[Len(rows)] \in [text : Texts \cup {None}, of : Nat]
        <4>1. Len(rows) \in 1..Len(rows)
          BY <1>2
        <4> QED
          BY <1>1, <4>1, ElementOfSeq
      <3> QED
        BY <3>1
    <2> QED
      BY <2>1 DEF NewRow
  <1> HIDE DEF row
  <1>5. /\ rows' \in Seq([text : Texts \cup {None}, of : Nat]) /\ Len(rows') = Len(rows)
        /\ \A k \in 1..Len(rows) : rows'[k] = IF k = Len(rows) THEN row ELSE rows[k]
    <2>1. Len(rows) \in 1..Len(rows)
      BY <1>2
    <2> QED
      BY <1>1, <1>3, <1>4, <2>1, ExceptSeq
  <1>6. DOMAIN rows' = 1..Len(rows')
    BY <1>5
  <1>7. rows' # <<>> /\ rows'[Len(rows)] = row
    <2>0. Len(rows') = Len(rows)
      BY <1>5
    <2>1. Len(rows) \in 1..Len(rows) /\ Len(rows') # 0
      BY <1>2, <2>0
    <2>2. rows' # <<>>
      BY <2>1
    <2> QED
      BY <1>5, <2>1, <2>2
  <1> QED
    BY <1>2, <1>5, <1>6, <1>7 DEF row

LEMMA FailureCounted == ASSUME TypeOK, Fault PROVE faults' # 0
  BY FaultTyped, SttTyped

\* The relay handles a translation of a final after the final itself.
LEMMA FinalHandled ==
    ASSUME IInv, HandleMt
    PROVE  ~InTheInbox("stt", Head(inbox).of)
  <1> DEFINE m == Head(inbox)
  <1>1. /\ m.ch = "mt" /\ m \in InboxSet
        /\ \A n \in InboxSet : n = m \/ n \in InboxSet'
        /\ \A n \in InboxSet' : Before(m, n)
    BY RelayedInbox DEF IInv, HandleMt
  <1>2. m.of \in Nat
    BY <1>1, SttTyped DEF IInv, InboxShape
  <1> HIDE DEF m
  <1>3. ~InTheInbox("stt", m.of)
    BY <1>1, <1>2 DEF InTheInbox, Before
  <1> QED
    BY <1>3 DEF m

LEMMA LastRowStep == ASSUME IInv, [Next]_vars PROVE LastRow'
  <1> USE DEF IInv
  <1>1. ASSUME UNCHANGED <<mode, stt, rows>>, \A i : InTheInbox("stt", i)' <=> InTheInbox("stt", i),
               faults' = faults \/ faults' = faults + 1
        PROVE  LastRow'
    <2>1. Finals' = Finals /\ (faults' = 0 => faults = 0)
      BY <1>1, SttTyped DEF Finals
    <2> QED
      BY <1>1, <2>1 DEF LastRow, LastFinal
  <1>2. ASSUME NEW kind \in Kinds, NEW text \in Texts \cup {None},
               NEW src \in Languages \cup {"auto"}, Speaks(kind, text, src)
        PROVE  LastRow'
    <2>1. /\ UNCHANGED <<mode, rows, faults>>
          /\ \A i : ~InTheInbox("stt", i)' => ~InTheInbox("stt", i)
          /\ kind # "partial" => \A i : i = Len(stt) + 1 => InTheInbox("stt", i)'
      BY <1>2, SpokenInbox
    <2>2. /\ \A i \in DOMAIN stt : i < Len(stt) + 1 /\ stt'[i] = stt[i]
          /\ Finals' = IF kind = "final" THEN Finals \cup {Len(stt) + 1} ELSE Finals
      BY <1>2, SpeaksMore
    <2>3. \A i \in Finals : i \in DOMAIN stt
      BY SttTyped
    <2>4. \A i \in Finals' : ~InTheInbox("stt", i)' => i \in Finals /\ ~InTheInbox("stt", i)
      BY <2>1, <2>2
    <2>5. \A i : LastFinal(i)' /\ ~InTheInbox("stt", i)' => LastFinal(i)
      BY <2>2, <2>4 DEF LastFinal
    <2> QED
      BY <2>1, <2>2, <2>3, <2>4, <2>5 DEF LastRow, LastFinal
  <1>3. ASSUME Publish PROVE LastRow'
    BY <1>1, <1>3, PublishedInbox
  \* A final or a marker is stored.
  <1>4. ASSUME HandleStt PROVE LastRow'
    <2> SUFFICES ASSUME faults' = 0 PROVE LastRow'
      BY DEF LastRow
    <2> DEFINE m == Head(inbox)
               row == NewRow(stt[m.of].text, 0)
    <2>1. rows' = Append(rows, row) /\ faults' = faults /\ m.ch = "stt"
      BY <1>4, FailureCounted DEF HandleStt
    <2>2. /\ m \in InboxSet /\ UNCHANGED <<mode, stt>> /\ Finals' = Finals
          /\ \A i : InTheInbox("stt", i) => InTheInbox("stt", i)' \/ i = m.of
      BY <1>4, RelayedInbox
    <2>3. m.of \in DOMAIN stt /\ stt[m.of].kind # "partial"
      BY <2>1, <2>2 DEF InboxShape
    <2>4. /\ stt[m.of] \in Event /\ m.of \in Nat
          /\ stt[m.of].kind \in Kinds /\ stt[m.of].text \in Texts \cup {None}
      BY <2>3, SttTyped DEF Event
    <2>5. row \in [text : Texts \cup {None}, of : Nat] /\ row.text = stt[m.of].text
      BY <2>4 DEF NewRow
    <2> HIDE DEF row, m
    <2>6. /\ Len(rows) \in Nat /\ Len(rows') = Len(rows) + 1 /\ rows' # <<>>
          /\ rows'[Len(rows')] = row
          /\ DOMAIN rows = 1..Len(rows) /\ DOMAIN rows' = 1..Len(rows')
          /\ \A k \in 1..Len(rows) : rows'[k] = rows[k]
      BY <2>1, <2>5, RowAppended
    <2>7. ASSUME NEW k \in DOMAIN rows', rows'[k].text = None PROVE mode = "stream"
      <3>1. CASE k \in DOMAIN rows
        BY <2>1, <2>6, <2>7, <3>1 DEF LastRow
      <3>2. CASE k = Len(rows')
        BY <2>3, <2>5, <2>6, <2>7, <3>2 DEF SttShape
      <3> QED
        BY <2>6, <3>1, <3>2
    <2>8. ASSUME NEW i \in Finals, LastFinal(i), ~InTheInbox("stt", i)'
          PROVE  stt[m.of].text \in {None, stt[i].text}
      <3>1. CASE stt[m.of].kind = "marker"
        BY <2>3, <3>1 DEF SttShape
      <3>2. CASE stt[m.of].kind = "final"
        <4>1. m.of \in Finals /\ i \in DOMAIN stt /\ i \in Nat
          BY <2>3, <3>2, SttTyped DEF Finals
        <4>2. m.of <= i
          BY <2>8, <4>1 DEF LastFinal
        <4>3. m.of = i
          <5>1. ~InTheInbox("stt", i) => i < m.of
            BY <2>1, <2>2, <4>1, SttTyped DEF HandledInOrder, Finals
          <5> QED
            BY <2>2, <2>4, <2>8, <4>1, <4>2, <5>1
        <4> QED
          BY <4>3
      <3> QED
        BY <2>3, <2>4, <3>1, <3>2 DEF Kinds
    <2>9. \A i : LastFinal(i)' <=> LastFinal(i)
      BY <2>2 DEF LastFinal
    <2> QED
      BY <2>2, <2>5, <2>6, <2>7, <2>8, <2>9 DEF LastRow, LastFinal
  \* A translation is stored.
  <1>5. ASSUME HandleMt PROVE LastRow'
    <2> SUFFICES ASSUME faults' = 0 PROVE LastRow'
      BY DEF LastRow
    <2> DEFINE m == Head(inbox)
    <2>1. /\ faults' = faults /\ m.ch = "mt"
          /\ \/ rows' = rows
             \/ stt[m.of].kind = "final" /\ rows' = Upserted(stt[m.of].text, m.of)
      BY <1>5, FailureCounted DEF HandleMt
    <2>2. /\ m \in InboxSet /\ UNCHANGED <<mode, stt>> /\ Finals' = Finals
          /\ \A i : InTheInbox("stt", i)' <=> InTheInbox("stt", i)
      BY <1>5, <2>1, RelayedInbox
    <2>3. CASE rows' = rows
      BY <1>1, <2>1, <2>2, <2>3
    <2>4. CASE stt[m.of].kind = "final" /\ rows' = Upserted(stt[m.of].text, m.of)
      <3>1. m.of \in DOMAIN stt /\ m.of \in Nat /\ stt[m.of] \in Event
        BY <2>2, SttTyped DEF InboxShape
      <3>2. stt[m.of].text \in Texts
        BY <2>4, <3>1 DEF Event, SttShape
      <3>3. m.of \in Finals /\ ~InTheInbox("stt", m.of)
        BY <1>5, <2>4, <3>1, FinalHandled, SttTyped DEF Finals
      <3>4. rows # <<>>
        BY <2>1, <3>3 DEF LastRow
      <3> DEFINE text == IF rows[Len(rows)].text = None THEN stt[m.of].text ELSE rows[Len(rows)].text
      <3> HIDE DEF m
      <3>5. /\ Len(rows) \in Nat \ {0} /\ Len(rows') = Len(rows) /\ rows' # <<>>
            /\ DOMAIN rows = 1..Len(rows) /\ DOMAIN rows' = 1..Len(rows)
            /\ \A k \in 1..Len(rows) : k # Len(rows) => rows'[k] = rows[k]
        BY <2>4, <3>1, <3>2, <3>4, RowUpserted
      <3>6. rows'[Len(rows)] = NewRow(text, m.of)
        BY <2>4, <3>1, <3>2, <3>4, RowUpserted
      <3>7. rows'[Len(rows)].text = text /\ text # None
        BY <3>2, <3>6, TranslationAssumption DEF NewRow
      <3>8. ASSUME NEW k \in DOMAIN rows', rows'[k].text = None PROVE mode = "stream"
        BY <2>1, <3>5, <3>7, <3>8 DEF LastRow
      <3>9. ASSUME NEW i \in Finals, LastFinal(i), ~InTheInbox("stt", i)
            PROVE  text = stt[i].text
        <4>1. rows[Len(rows)].text \in {None, stt[i].text}
          BY <2>1, <3>9 DEF LastRow
        <4>2. CASE rows[Len(rows)].text = None
          <5>1. Len(rows) \in DOMAIN rows
            <6>1. Len(rows) \in Nat \ {0} /\ DOMAIN rows = 1..Len(rows)
              BY <3>5
            <6> QED
              BY <6>1
          <5>2. mode = "stream"
            BY <2>1, <4>2, <5>1 DEF LastRow
          <5>3. i = m.of
            BY <3>3, <5>2 DEF SttShape
          <5> QED
            BY <4>2, <5>3
        <4>3. CASE rows[Len(rows)].text # None
          BY <4>1, <4>3
        <4> QED
          BY <4>2, <4>3
      <3> HIDE DEF text
      <3>10. \A i : LastFinal(i)' <=> LastFinal(i)
        BY <2>2 DEF LastFinal
      <3> QED
        BY <2>2, <3>5, <3>7, <3>8, <3>9, <3>10 DEF LastRow, LastFinal
    <2> QED
      BY <2>1, <2>3, <2>4
  <1>6. ASSUME UNCHANGED <<mode, stt, heard, inbox, rows, shown, latest, faults>> PROVE LastRow'
    BY <1>1, <1>6 DEF InTheInbox, InboxSet
  <1>7. ASSUME Quietly PROVE LastRow'
    <2>1. \A i : InTheInbox("stt", i)' <=> InTheInbox("stt", i)
      BY <1>7, QuietChanges DEF InTheInbox, InboxSet
    <2> QED
      BY <1>1, <1>7, <2>1, QuietChanges
  <1> QED
    BY <1>2, <1>3, <1>4, <1>5, <1>6, <1>7, NextCases

\* The pair of the last final, once there is one.
LEMMA PairedStep == ASSUME IInv, [Next]_vars PROVE LatestPaired'
  <1> USE DEF IInv
  <1>1. ASSUME UNCHANGED <<stt, rows, latest>>, \A i : InTheInbox("mt", i) => InTheInbox("mt", i)',
               faults' = faults \/ faults' = faults + 1
        PROVE  LatestPaired'
    <2>1. Finals' = Finals /\ (faults' = 0 => faults = 0)
      BY <1>1, SttTyped DEF Finals
    <2> QED
      BY <1>1, <2>1 DEF LatestPaired, LastFinal, RowPairs, NewRow
  <1>2. ASSUME NEW kind \in Kinds, NEW text \in Texts \cup {None},
               NEW src \in Languages \cup {"auto"}, Speaks(kind, text, src)
        PROVE  LatestPaired'
    <2> SUFFICES ASSUME faults' = 0, latest' # 0, LastFinal(latest)'
                 PROVE  InTheInbox("mt", latest)' \/ RowPairs(latest)'
      BY DEF LatestPaired
    <2>1. /\ UNCHANGED <<rows, faults, latest>>
          /\ \A i : InTheInbox("mt", i) => InTheInbox("mt", i)'
      BY <1>2, SpokenInbox
    <2>2. /\ \A i \in DOMAIN stt : i < Len(stt) + 1 /\ stt'[i] = stt[i]
          /\ Finals' = IF kind = "final" THEN Finals \cup {Len(stt) + 1} ELSE Finals
      BY <1>2, SpeaksMore
    <2>3. latest \in Finals /\ latest \in DOMAIN stt /\ latest \in Nat /\ Len(stt) \in Nat
      BY <2>1, SttTyped DEF LatestLast
    <2>4. Finals' = Finals
      BY <2>1, <2>2, <2>3 DEF LastFinal
    <2>5. InTheInbox("mt", latest) \/ RowPairs(latest)
      BY <2>1, <2>4 DEF LatestPaired, LastFinal
    <2> QED
      BY <2>1, <2>2, <2>3, <2>5 DEF RowPairs, NewRow
  <1>3. ASSUME Publish PROVE LatestPaired'
    <2>1. /\ \A i : i = work.of => InTheInbox("mt", i)'
          /\ \A i : InTheInbox("mt", i) => InTheInbox("mt", i)'
          /\ UNCHANGED <<stt, rows, faults>>
      BY <1>3, PublishedInbox
    <2>2. latest' = work.of \/ latest' = latest
      BY <1>3 DEF Publish
    <2>3. CASE latest' = work.of
      BY <2>1, <2>3 DEF LatestPaired, InTheInbox
    <2>4. CASE latest' = latest
      BY <1>1, <2>1, <2>4
    <2> QED
      BY <2>2, <2>3, <2>4
  \* A final or a marker is stored.
  <1>4. ASSUME HandleStt PROVE LatestPaired'
    <2> SUFFICES ASSUME faults' = 0, latest' # 0, LastFinal(latest)'
                 PROVE  InTheInbox("mt", latest)' \/ RowPairs(latest)'
      BY DEF LatestPaired
    <2> DEFINE m == Head(inbox)
               row == NewRow(stt[m.of].text, 0)
    <2>1. rows' = Append(rows, row) /\ faults' = faults /\ m.ch = "stt"
      BY <1>4, FailureCounted DEF HandleStt
    <2>2. /\ m \in InboxSet /\ UNCHANGED <<mode, stt, latest>> /\ Finals' = Finals
          /\ \A i : InTheInbox("mt", i) => InTheInbox("mt", i)'
      BY <1>4, <2>1, RelayedInbox
    <2>3. m.of \in DOMAIN stt
      BY <2>2 DEF InboxShape
    <2>4. row \in [text : Texts \cup {None}, of : Nat] /\ row.of = 0
      <3>1. stt[m.of] \in Event
        BY <2>3, SttTyped
      <3>2. stt[m.of].text \in Texts \cup {None}
        BY <3>1 DEF Event
      <3> QED
        BY <3>2 DEF NewRow
    <2> HIDE DEF row, m
    <2>5. /\ Len(rows) \in Nat /\ Len(rows') = Len(rows) + 1
          /\ rows'[Len(rows')] = row
          /\ \A k \in 1..Len(rows) : rows'[k] = rows[k]
      BY <2>1, <2>4, RowAppended
    <2>6. InTheInbox("mt", latest) \/ RowPairs(latest)
      BY <2>1, <2>2 DEF LatestPaired, LastFinal
    <2>7. ASSUME RowPairs(latest) PROVE RowPairs(latest)'
      <3>1. PICK n \in 1..Len(rows) : /\ rows[n] = NewRow(stt[latest].text, latest)
                                      /\ \A k \in 1..Len(rows) : k > n => rows[k].of = 0
        BY <2>7 DEF RowPairs
      <3>2. n \in 1..Len(rows') /\ rows'[n] = NewRow(stt[latest].text, latest)
        BY <2>5, <3>1
      <3>3. \A k \in 1..Len(rows') : k > n => rows'[k].of = 0
        BY <2>4, <2>5, <3>1
      <3> QED
        BY <2>2, <3>2, <3>3 DEF RowPairs, NewRow
    <2> QED
      BY <2>2, <2>6, <2>7
  \* A translation is stored.
  <1>5. ASSUME HandleMt PROVE LatestPaired'
    <2> SUFFICES ASSUME faults' = 0, latest' # 0, LastFinal(latest)', ~InTheInbox("mt", latest)'
                 PROVE  RowPairs(latest)'
      BY DEF LatestPaired
    <2> DEFINE m == Head(inbox)
    <2>1. /\ faults' = faults /\ m.ch = "mt"
          /\ \/ stt[m.of].kind = "partial" /\ rows' = rows
             \/ stt[m.of].kind = "final" /\ rows' = Upserted(stt[m.of].text, m.of)
      BY <1>5, FailureCounted DEF HandleMt
    <2>2. /\ m \in InboxSet /\ UNCHANGED <<mode, stt, latest>> /\ Finals' = Finals
          /\ \A i : InTheInbox("mt", i) => InTheInbox("mt", i)' \/ i = m.of
      BY <1>5, <2>1, RelayedInbox
    <2>3. m.of \in DOMAIN stt /\ m.of \in Nat /\ stt[m.of] \in Event
      BY <2>2, SttTyped DEF InboxShape
    <2>4. latest \in Finals /\ LastFinal(latest) /\ latest \in Nat /\ latest # 0
      BY <2>2, SttTyped DEF LatestLast, LastFinal
    <2>5. InTheInbox("mt", latest) \/ RowPairs(latest)
      BY <2>1, <2>4 DEF LatestPaired
    <2>6. CASE stt[m.of].kind = "partial" /\ rows' = rows
      <3>1. m.of # latest
        BY <2>4, <2>6 DEF Finals
      <3>2. ~InTheInbox("mt", latest)
        BY <2>2, <3>1
      <3> QED
        BY <2>2, <2>5, <2>6, <3>2 DEF RowPairs, NewRow
    <2>7. CASE stt[m.of].kind = "final" /\ rows' = Upserted(stt[m.of].text, m.of)
      <3>1. m.of \in Finals /\ ~InTheInbox("stt", m.of)
        BY <1>5, <2>3, <2>7, FinalHandled, SttTyped DEF Finals
      <3>2. m.of <= latest
        BY <2>4, <3>1 DEF LastFinal
      <3> HIDE DEF m
      <3>3. m.of = latest
        <4>1. m.of < latest => InTheInbox("mt", latest)
          BY <2>1, <2>2 DEF LatestLast
        <4> QED
          BY <2>2, <2>3, <2>4, <3>2, <4>1
      <3>4. rows # <<>> /\ rows[Len(rows)].text \in {None, stt[latest].text}
        BY <2>1, <2>4, <3>1, <3>3 DEF LastRow
      <3>5. stt[latest].text \in Texts
        BY <2>3, <2>7, <3>3 DEF Event, SttShape
      <3>6. /\ Len(rows) \in Nat \ {0} /\ Len(rows') = Len(rows)
            /\ rows'[Len(rows)] =
                 NewRow(IF rows[Len(rows)].text = None THEN stt[latest].text ELSE rows[Len(rows)].text, latest)
        BY <2>4, <2>7, <3>3, <3>4, <3>5, RowUpserted
      <3>7. rows'[Len(rows)] = NewRow(stt[latest].text, latest)
        BY <3>4, <3>6
      <3>8. Len(rows) \in 1..Len(rows') /\ \A k \in 1..Len(rows') : ~(k > Len(rows))
        BY <3>6
      <3> QED
        BY <2>2, <3>7, <3>8 DEF RowPairs, NewRow
    <2> QED
      BY <2>1, <2>6, <2>7
  <1>6. ASSUME UNCHANGED <<mode, stt, heard, inbox, rows, shown, latest, faults>> PROVE LatestPaired'
    BY <1>1, <1>6 DEF InTheInbox, InboxSet
  <1>7. ASSUME Quietly PROVE LatestPaired'
    <2>1. \A i : InTheInbox("mt", i) => InTheInbox("mt", i)'
      BY <1>7, QuietChanges DEF InTheInbox, InboxSet
    <2> QED
      BY <1>1, <1>7, <2>1, QuietChanges
  <1> QED
    BY <1>2, <1>3, <1>4, <1>5, <1>6, <1>7, NextCases
-----------------------------------------------------------------------------
\* The inductive invariant: the messages of the relay are in the order of the events they
\* are about, and what is shown, stored and owed agrees with what is on its way.
THEOREM InductiveInvariant == Spec => []IInv
  <1>1. IInv /\ [Next]_vars => IInv'
    BY TypeStep, SttStep, WorkStep, QueueStep, OwingStep, LatestStep, HandledStep,
       LastRowStep, PairedStep DEF IInv
  <1> QED
    BY InitInv, <1>1, PTL DEF Spec

\* A translation is published for the event whose text was translated, also when it comes
\* from partial_translation_cache.
THEOREM TranslationsFit == Spec => []TranslatesItsEvent
  <1>1. IInv => TranslatesItsEvent
    <2> SUFFICES ASSUME IInv, NEW i \in 1..Len(inbox), inbox[i].ch = "mt"
                 PROVE  /\ inbox[i].made.text = stt[inbox[i].of].text
                        /\ inbox[i].made.tgt = inbox[i].tgt
      BY DEF IInv, TranslatesItsEvent
    <2>1. inbox[i] \in InboxSet
      BY DEF IInv, TypeOK, InboxSet
    <2> QED
      BY <2>1 DEF IInv, InboxShape
  <1> QED
    BY <1>1, InductiveInvariant, PTL

\* What router_loop pays a provider for is tracked once: no call twice or for a cached
\* translation, and what is not tracked was left out by a failure.
THEOREM BilledOnceThm == Spec => []BilledOnce
  <1>1. IInv => BilledOnce
    <2> SUFFICES ASSUME IInv PROVE BilledOnce
      OBVIOUS
    <2>1. owed \in Int /\ Unbilled <= owed /\ owed <= faults + Unbilled /\ faults \in Nat
      BY SttTyped DEF IInv, Owing
    <2>2. Unbilled \in {0, 1} /\ (work.at \notin {"publish", "bill"} => Unbilled = 0)
      BY DEF Unbilled
    <2> QED
      BY <2>1, <2>2 DEF BilledOnce
  <1> QED
    BY <1>1, InductiveInvariant, PTL

\* The row that is left of a segment has the last final with its translation, in whatever
\* order run_pubsub got the finals and the translations to store.
THEOREM LastRowPairs == Spec => []LastRowPairsUp
  <1>1. IInv => LastRowPairsUp
    <2> SUFFICES ASSUME IInv, Handled, latest # 0, \A i \in Finals : i <= latest
                 PROVE  RowPairs(latest)
      BY DEF LastRowPairsUp, RowPairs
    <2>1. ~InTheInbox("mt", latest)
      BY DEF Handled, InTheInbox, InboxSet
    <2>2. LastFinal(latest)
      BY DEF IInv, LatestLast, LastFinal
    <2> QED
      BY <2>1, <2>2 DEF IInv, Handled, LatestPaired
  <1> QED
    BY <1>1, InductiveInvariant, PTL

\* What the sockets of a language show never goes back to an earlier event, and no
\* language is shown less than another was.
THEOREM ShownForward == Spec => ShownMovesForward
  <1>1. IInv /\ [Next]_vars =>
          [\A l, k \in Languages : shown'[l] # shown[l] => shown'[l] >= shown[k]]_vars
    <2> SUFFICES ASSUME IInv, [Next]_vars, NEW l \in Languages, NEW k \in Languages,
                        shown'[l] # shown[l]
                 PROVE  shown'[l] >= shown[k]
      OBVIOUS
    <2>1. CASE HandleMt
      <3>1. Head(inbox) \in InboxSet /\ Head(inbox).ch = "mt"
        BY <2>1, RelayedInbox DEF IInv, HandleMt
      <3>2. shown' = [shown EXCEPT ![Head(inbox).tgt] = Head(inbox).of]
        BY <2>1 DEF HandleMt
      <3>3. shown'[l] = Head(inbox).of
        <4>1. shown \in [Languages -> 0..Len(stt)]
          BY DEF IInv, TypeOK
        <4> DEFINE t == Head(inbox).tgt
        <4>2. shown' = [shown EXCEPT ![t] = Head(inbox).of]
          BY <3>2
        <4> HIDE DEF t
        <4>3. l = t
          BY <4>1, <4>2
        <4> QED
          BY <4>1, <4>2, <4>3
      <3>4. Head(inbox).of \in Nat /\ shown[k] \in Nat
        <4>1. Head(inbox).of \in DOMAIN stt /\ Len(stt) \in Nat
          BY <3>1, SttTyped DEF IInv, InboxShape
        <4>2. shown[k] \in 0..Len(stt)
          BY DEF IInv, TypeOK
        <4> QED
          BY <4>1, <4>2, SttTyped DEF IInv
      <3> QED
        BY <3>1, <3>3, <3>4 DEF IInv, ShownBehind
    <2>2. ~HandleMt => shown' = shown
      BY NextCases, QuietChanges DEF Publish, HandleStt, Speaks
    <2> QED
      BY <2>1, <2>2
  <1> QED
    BY <1>1, InductiveInvariant, PTL DEF Spec, ShownMovesForward
=============================================================================
