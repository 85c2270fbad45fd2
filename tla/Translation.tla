---------------------------- MODULE Translation ----------------------------
(***************************************************************************)
(* The speech of one segment, from stt_events to the listeners: the MT     *)
(* router (router_loop of api/routers/mt/router.py) translates each event  *)
(* to the target languages, one after the other, and publishes, bills and  *)
(* notes every translation (debug_tracker.py); the relay (run_pubsub of    *)
(* api/ws_manager.py) shows them and keeps the finals in the table events  *)
(* (api/persistence.py).  Caches, records and rows are per segment.        *)
(***************************************************************************)
EXTENDS Integers, Sequences, FiniteSets

CONSTANTS
    Languages,
    Texts,
    Sources,       \* languages of the events
    Spoken,        \* languages a room may be translated to
    Slow,          \* languages with an interval between partials (Arabic)
    Default,       \* target of a room without target languages
    Speakers,      \* enrolled speakers of a multi-speaker room
    SpeakerLang,   \* and their languages
    ByTokens,      \* targets whose provider bills tokens, not characters
    None,
    MaxEvents,     \* bound: events of the segment
    MaxFaults      \* bound: calls of a provider, of Redis or of a database that fail

ASSUME TranslationAssumption ==
    /\ Sources \subseteq Languages \cup {"auto"}
    /\ Spoken \subseteq Languages /\ ByTokens \subseteq Languages /\ Slow \subseteq Languages
    /\ Default \in Languages /\ "auto" \notin Languages
    /\ SpeakerLang \in [Speakers -> Languages]
    /\ None \notin Speakers /\ None \notin Texts
    /\ MaxEvents \in Nat
    /\ MaxFaults \in Nat

VARIABLES
    mode,      \* the segment comes from a streaming provider, or from a batch one
    enrolled,  \* the room is in multi-speaker mode
    stt,       \* its events on stt_events, in order
    heard,     \* events the MT router has taken
    work,      \* the event in its hands
    partials,  \* partial_translation_cache
    recent,    \* arabic_translation_throttle: targets within the interval
    record,    \* debug:{room}:segment:{id}: the translations it lists
    inbox,     \* messages the relay has not handled
    rows,      \* final rows of the table events
    shown,     \* the event whose translation was shown last to the sockets of a language
    owed,      \* history: calls of a provider that were not billed
    latest,    \* history: the last final with a translation published
    faults

router == <<heard, work, partials, recent, owed>>
relay  == <<inbox, rows, shown>>
env    == <<mode, enrolled>>
vars   == <<env, stt, router, record, relay, latest, faults>>

Kinds == {"partial", "final", "marker"}

\* A translation: what was translated.
Made == [text : Texts, src : Languages, tgt : Languages]

Targets == [tgt : Languages, to : Speakers \cup {None}]

NoWork == [at |-> "idle", of |-> 0, src |-> Default, todo |-> {}, job |-> None, made |-> None,
           cached |-> FALSE, seen |-> None]

Init ==
    /\ mode \in {"stream", "batch"}
    /\ enrolled \in BOOLEAN
    /\ stt = <<>>
    /\ heard = 0
    /\ work = NoWork
    /\ partials = {}
    /\ recent = {}
    /\ record = None
    /\ inbox = <<>>
    /\ rows = <<>>
    /\ shown = [l \in Languages |-> 0]
    /\ owed = 0
    /\ latest = 0
    /\ faults = 0

Fault == faults < MaxFaults /\ faults' = faults + 1
-----------------------------------------------------------------------------
\* The STT router: partials, then the final of a stream and a marker without
\* text, or for a batch provider an instant final and a better one.
Finals == {i \in 1..Len(stt) : stt[i].kind = "final"}
Ended  == IF mode = "stream" THEN \E i \in 1..Len(stt) : stt[i].kind = "marker"
          ELSE \E i, j \in Finals : i # j

\* What the relay does with a partial of its own leaves nothing behind.
Speaks(kind, text, src) ==
    /\ Len(stt) < MaxEvents /\ ~Ended
    /\ stt' = Append(stt, [kind |-> kind, text |-> text, src |-> src])
    /\ inbox' = IF kind = "partial" THEN inbox
                ELSE Append(inbox, [ch |-> "stt", of |-> Len(stt) + 1, tgt |-> None, made |-> None])
    /\ UNCHANGED <<env, router, record, rows, shown, latest, faults>>

Partial(text, src) == Finals = {} /\ Speaks("partial", text, src)

Final(text, src) == (mode = "stream" => Finals = {}) /\ Speaks("final", text, src)

Marker == mode = "stream" /\ Speaks("marker", None, "auto")

\* create_stt_debug_info, when the segment has ended.
CreateRecord ==
    /\ Ended
    /\ record = None
    /\ record' = {}
    /\ UNCHANGED <<env, stt, router, relay, latest, faults>>
-----------------------------------------------------------------------------
\* The MT router. A room with enrolled speakers translates to the others, each on
\* its own, from the language its speaker is enrolled with.
Others(sp) == {[tgt |-> SpeakerLang[o], to |-> o] : o \in Speakers \ {sp}}

Room(langs) == {[tgt |-> l, to |-> None] : l \in IF langs = {} THEN {Default} ELSE langs}

Begin(e, src, targets) ==
    /\ work' = [NoWork EXCEPT !.at = "each", !.of = heard + 1, !.src = src, !.todo = targets]
    /\ IF e.kind = "final" THEN partials' = {} /\ recent' = {} ELSE UNCHANGED <<partials, recent>>

Take ==
    /\ work.at = "idle" /\ heard < Len(stt)
    /\ heard' = heard + 1
    /\ LET e == stt[heard + 1] IN
         \/ /\ e.kind = "marker"
            /\ UNCHANGED <<work, partials, recent>>
         \/ /\ e.kind # "marker"
            /\ IF enrolled /\ Cardinality(Speakers) > 1
               THEN \E sp \in Speakers : Begin(e, SpeakerLang[sp], Others(sp))
               ELSE \E langs \in SUBSET Spoken : Begin(e, e.src, Room(langs))
    /\ UNCHANGED <<env, stt, record, relay, owed, latest, faults>>

IsFinal == stt[work.of].kind = "final"

\* On to the next target, or to the next event.
NextTarget(job) ==
    LET rest == work.todo \ {job} IN
    work' = IF rest = {} THEN NoWork
            ELSE [NoWork EXCEPT !.at = "each", !.of = work.of, !.src = work.src, !.todo = rest]

\* append_mt_skip_reason.
SkipTarget(job) ==
    /\ work.at = "each" /\ job \in work.todo
    /\ work.src \in {"auto", job.tgt}
    /\ NextTarget(job)
    /\ UNCHANGED <<env, stt, heard, partials, recent, record, relay, owed, latest, faults>>

Paced(job) == {work.src, job.tgt} \cap Slow # {} /\ ~IsFinal

Throttled(job) ==
    /\ work.at = "each" /\ job \in work.todo
    /\ work.src \notin {"auto", job.tgt}
    /\ Paced(job) /\ job.tgt \in recent
    /\ NextTarget(job)
    /\ UNCHANGED <<env, stt, heard, partials, recent, record, relay, owed, latest, faults>>

\* Mutant: the text is not part of the key.
CachedAnyText(job) == {m \in partials : m.src = work.src /\ m.tgt = job.tgt}

Cached(job) == {m \in partials : m.src = work.src /\ m.tgt = job.tgt
                                 /\ m.text = stt[work.of].text}

\* The interval begins before the call is made.
Translate(job) ==
    /\ work.at = "each" /\ job \in work.todo
    /\ work.src \notin {"auto", job.tgt}
    /\ Paced(job) => job.tgt \notin recent
    /\ recent' = IF Paced(job) THEN recent \cup {job.tgt} ELSE recent
    /\ \/ /\ IsFinal \/ Cached(job) = {}
          /\ work' = [work EXCEPT !.at = "call", !.job = job]
       \/ /\ ~IsFinal
          /\ \E m \in Cached(job) :
               work' = [work EXCEPT !.at = "publish", !.job = job, !.made = m, !.cached = TRUE]
    /\ UNCHANGED <<env, stt, heard, partials, record, relay, owed, latest, faults>>

\* translate_with_fallback: the provider of the rule or its fallback answers.
CallOk ==
    /\ work.at = "call"
    /\ LET m == [text |-> stt[work.of].text, src |-> work.src, tgt |-> work.job.tgt]
       IN  /\ work' = [work EXCEPT !.at = "publish", !.made = m]
           /\ partials' = IF IsFinal THEN partials ELSE partials \cup {m}
    /\ owed' = owed + 1
    /\ UNCHANGED <<env, stt, heard, recent, record, relay, latest, faults>>

CallFails ==
    /\ work.at = "call"
    /\ Fault
    /\ NextTarget(work.job)
    /\ UNCHANGED <<env, stt, heard, partials, recent, record, relay, owed, latest>>

\* Mutant: what is late goes first.
SentFirst(m) == inbox' = <<m>> \o inbox

Sent(m) == inbox' = Append(inbox, m)

\* Mutant: the cost of a cached translation is published, too.
CostedAlways == "bill"

Costed == IF work.cached THEN "note" ELSE "bill"

Publish ==
    /\ work.at = "publish"
    /\ Sent([ch |-> "mt", of |-> work.of, tgt |-> work.job.tgt, made |-> work.made])
    /\ work' = [work EXCEPT !.at = Costed]
    /\ latest' = IF IsFinal THEN work.of ELSE latest
    /\ UNCHANGED <<env, stt, heard, partials, recent, record, rows, shown, owed, faults>>

Bill ==
    /\ work.at = "bill"
    /\ owed' = owed - 1
    /\ work' = [work EXCEPT !.at = "note"]
    /\ UNCHANGED <<env, stt, heard, partials, recent, record, relay, latest, faults>>

\* What fails here leaves out the rest of the target.
PublishFails ==
    /\ work.at \in {"publish", "bill"}
    /\ Fault
    /\ NextTarget(work.job)
    /\ UNCHANGED <<env, stt, heard, partials, recent, record, relay, owed, latest>>

\* append_mt_debug_info reads the record, and writes it with the translation. It
\* fails on what is billed by tokens: their number is not in the result.
ReadRecord ==
    /\ work.at = "note"
    /\ IF record = None \/ work.job.tgt \in ByTokens THEN NextTarget(work.job)
       ELSE work' = [work EXCEPT !.at = "noted", !.seen = record]
    /\ UNCHANGED <<env, stt, heard, partials, recent, record, relay, owed, latest, faults>>

Entry == [of |-> work.of, tgt |-> work.job.tgt, to |-> work.job.to]

WithEntry(entries) == entries \cup {Entry}

WriteRecord ==
    /\ work.at = "noted"
    /\ record' = WithEntry(work.seen)
    /\ NextTarget(work.job)
    /\ UNCHANGED <<env, stt, heard, partials, recent, relay, owed, latest, faults>>

\* ARABIC_THROTTLE_SECONDS have passed.
IntervalEnds(l) ==
    /\ l \in recent
    /\ recent' = recent \ {l}
    /\ UNCHANGED <<env, stt, heard, work, partials, record, relay, owed, latest, faults>>
-----------------------------------------------------------------------------
\* The relay. Saving fails without a consequence for the listeners.
NewRow(text, of) == [text |-> text, of |-> of]

HandleStt ==
    /\ inbox # <<>> /\ Head(inbox).ch = "stt"
    /\ inbox' = Tail(inbox)
    /\ LET e == stt[Head(inbox).of] IN
         \/ rows' = Append(rows, NewRow(e.text, 0)) /\ UNCHANGED faults
         \/ Fault /\ UNCHANGED rows
    /\ UNCHANGED <<env, stt, router, record, shown, latest>>

\* Mutant: the first row of the segment.
UpsertedFirst(text, of) ==
    IF rows = <<>> THEN <<NewRow(text, of)>> ELSE [rows EXCEPT ![1] = NewRow(@.text, of)]

\* upsert_final_translation: the last final row takes the translation, of whatever
\* language, and its text if it has none.
Upserted(text, of) ==
    IF rows = <<>> THEN <<NewRow(text, of)>>
    ELSE [rows EXCEPT ![Len(rows)] = NewRow(IF @.text = None THEN text ELSE @.text, of)]

HandleMt ==
    /\ inbox # <<>> /\ Head(inbox).ch = "mt"
    /\ inbox' = Tail(inbox)
    /\ LET m == Head(inbox)
           e == stt[m.of]
       IN  /\ shown' = [shown EXCEPT ![m.tgt] = m.of]
           /\ \/ e.kind = "partial" /\ UNCHANGED <<rows, faults>>
              \/ e.kind = "final" /\ rows' = Upserted(e.text, m.of) /\ UNCHANGED faults
              \/ e.kind = "final" /\ Fault /\ UNCHANGED rows
    /\ UNCHANGED <<env, stt, router, record, latest>>
-----------------------------------------------------------------------------
Stt == \/ \E t \in Texts, src \in Sources : Partial(t, src) \/ Final(t, src)
       \/ Marker \/ CreateRecord

Mt == \/ Take \/ CallOk \/ CallFails \/ Publish \/ PublishFails \/ Bill \/ ReadRecord \/ WriteRecord
      \/ \E job \in work.todo : SkipTarget(job) \/ Throttled(job) \/ Translate(job)

Relay == HandleStt \/ HandleMt

Next == Stt \/ Mt \/ Relay \/ \E l \in Languages : IntervalEnds(l)

Spec == Init /\ [][Next]_vars
-----------------------------------------------------------------------------
Messages == [ch : {"stt", "mt"}, of : Nat \ {0}, tgt : Languages \cup {None}, made : Made \cup {None}]

TypeOK ==
    /\ mode \in {"stream", "batch"}
    /\ enrolled \in BOOLEAN
    /\ stt \in Seq([kind : Kinds, text : Texts \cup {None}, src : Languages \cup {"auto"}])
    /\ heard \in 0..Len(stt)
    /\ work \in [at : {"idle", "each", "call", "publish", "bill", "note", "noted"},
                 of : 0..Len(stt), src : Languages \cup {"auto"}, todo : SUBSET Targets,
                 job : Targets \cup {None}, made : Made \cup {None}, cached : BOOLEAN,
                 seen : {None} \cup SUBSET [of : Nat, tgt : Languages, to : Speakers \cup {None}]]
    /\ partials \subseteq Made
    /\ recent \subseteq Languages
    /\ record \in {None} \cup SUBSET [of : Nat, tgt : Languages, to : Speakers \cup {None}]
    /\ inbox \in Seq(Messages)
    /\ rows \in Seq([text : Texts \cup {None}, of : Nat])
    /\ latest \in 0..Len(stt)
    /\ shown \in [Languages -> 0..Len(stt)]
    /\ faults \in 0..MaxFaults

\* A translation belongs to the event it is published for, also when it was kept
\* from an earlier one. (Besides, the state is well typed.)
TranslatesItsEvent ==
    /\ TypeOK
    /\ \A i \in 1..Len(inbox) : inbox[i].ch = "mt" =>
         /\ inbox[i].made.text = stt[inbox[i].of].text
         /\ inbox[i].made.tgt = inbox[i].tgt

\* What a listener sees never goes back: no partial after its final, no instant
\* final after the better one, whatever languages the listener passes through.
ShownMovesForward ==
    [][\A l, k \in Languages : shown'[l] # shown[l] => shown'[l] >= shown[k]]_vars

\* Once a segment has been handled without a failure, and its last final was
\* translated, a row pairs that final with its translation, and no later row has
\* another one.
Handled == inbox = <<>> /\ work.at = "idle" /\ heard = Len(stt) /\ faults = 0

LastRowPairsUp ==
    Handled /\ latest # 0 /\ (\A i \in Finals : i <= latest) =>
        \E n \in 1..Len(rows) : /\ rows[n] = NewRow(stt[latest].text, latest)
                              /\ \A k \in 1..Len(rows) : k > n => rows[k].of = 0

\* Every call of a provider is billed once, a cached translation never; what is
\* not billed was not published or not billed because of a failure.
BilledOnce == owed >= 0 /\ owed <= faults + IF work.at \in {"publish", "bill"} THEN 1 ELSE 0
=============================================================================
