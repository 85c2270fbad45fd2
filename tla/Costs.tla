------------------------------- MODULE Costs -------------------------------
(***************************************************************************)
(* What the use of providers costs and who is shown it.  track_loop of     *)
(* api/services/cost_tracker_service.py prices the events of the STT, MT   *)
(* and TTS routers and stores a row of room_costs for each, under the code *)
(* of a room.  The cleanup service archives rooms with their costs, the    *)
(* history of api/user_history_api.py adds up rooms and archives, and the  *)
(* status of a budget (api/routers/cost_budgets.py) and the reports of     *)
(* api/routers/admin_costs.py add up the rows themselves.                  *)
(*                                                                         *)
(* An instant is a half day since a Monday at 0:00.  Every event is of the *)
(* same number of units and a price is what that number costs.             *)
(***************************************************************************)
EXTENDS Integers, Sequences, FiniteSets, FiniteSetsExt, Functions

CONSTANTS
    Codes,      \* codes of rooms
    Users,
    FirstUser,  \* user 1, who owns what is made without an owner
    Speakers,   \* speakers enrolled in the room of a code, 0 if it has none
    Providers,  \* of each pipeline: [stt |-> ..., mt |-> ..., tts |-> ...]
    ByToken,    \* MT providers that report tokens, the others report characters
    Prices,     \* rows of provider_pricing
    FirstDay,   \* the day a month of a year, <<year, month>>, begins on
    Instants,   \* the instants at which anything happens
    Thresholds, \* pairs of a warning and a critical percentage
    Amounts,    \* amounts of a budget
    None,
    MaxCosts    \* bound: rows of room_costs

ASSUME CostsAssumption ==
    /\ IsFiniteSet(Codes) /\ IsFiniteSet(Users) /\ IsFiniteSet(Prices)
    /\ FirstUser \in Users
    /\ Speakers \in [Codes -> Nat]
    /\ DOMAIN Providers = {"stt", "mt", "tts"}
    /\ \A p \in Prices : p.from \in Int /\ p.price \in Nat
    /\ \A ym \in DOMAIN FirstDay : ym \in Int \X (1..12) /\ FirstDay[ym] \in Int
    /\ Instants \subseteq Int /\ Instants # {} /\ IsFiniteSet(Instants)
    /\ Thresholds \subseteq (0..100) \X (0..100)
    /\ Amounts \subseteq Nat \ {0}
    /\ None \notin Nat
    /\ MaxCosts \in Nat

VARIABLES
    clock,
    pricing,    \* the prices the tracker read when it started
    costs,      \* rows of room_costs
    rooms,      \* rows of rooms, by code
    archive,    \* rows of room_archive, by code
    hist        \* a user's history between its reading of rooms and of archives

rows == <<rooms, archive>>
costvars == <<clock, pricing, costs, rows, hist>>

-----------------------------------------------------------------------------
\* The tracker.

\* Mutant: prices of the future are read as well.
InForceAnyTime(t) ==
    {p \in Prices : \A q \in Prices :
        q.service = p.service /\ q.provider = p.provider => q.from <= p.from}

\* load_pricing: of each service and provider the last price that has taken effect.
InForce(t) ==
    {p \in Prices : p.from <= t /\ \A q \in Prices :
        q.service = p.service /\ q.provider = p.provider /\ q.from <= t => q.from <= p.from}

CostsInit ==
    /\ clock = Min(Instants)
    /\ pricing = InForce(clock)
    /\ costs = <<>>
    /\ rooms = [c \in Codes |-> None]
    /\ archive = [c \in Codes |-> None]
    /\ hist = None

TimePasses ==
    /\ \E t \in Instants : t > clock /\ clock' = t
    /\ UNCHANGED <<pricing, costs, rows, hist>>
\* calculate_cost: what has no price, or a price for another unit, costs nothing.
Converts ==
    {<<"seconds", "per_hour">>, <<"minutes", "per_hour">>, <<"seconds", "per_minute">>,
     <<"minutes", "per_minute">>, <<"tokens", "per_1k_tokens">>, <<"characters", "per_1m_chars">>}

CalculateCost(e) ==
    LET fits == {p \in pricing : p.service = e.pipeline /\ p.provider = e.provider
                                   /\ <<e.unit, p.model>> \in Converts}
    IN  IF fits = {} THEN 0 ELSE (CHOOSE p \in fits : TRUE).price

\* The events of the routers. Only translations name speakers.
SttEvents(c) ==
    [room : {c}, pipeline : {"stt"}, provider : Providers.stt, unit : {"seconds"},
     speaker : {None}, target : {None}]

TtsEvents(c) ==
    [room : {c}, pipeline : {"tts"}, provider : Providers.tts, unit : {"characters"},
     speaker : {None}, target : {None}]

Pairs(c) ==
    IF rooms[c] # None /\ rooms[c].speakers > 1
    THEN {p \in (1..rooms[c].speakers) \X (1..rooms[c].speakers) : p[1] # p[2]}
    ELSE {<<None, None>>}

MtEvents(c) ==
    {[room |-> c, pipeline |-> "mt", provider |-> p,
      unit |-> IF p \in ByToken THEN "tokens" ELSE "characters",
      speaker |-> pair[1], target |-> pair[2]] : p \in Providers.mt, pair \in Pairs(c)}

Events(c) == SttEvents(c) \cup MtEvents(c) \cup TtsEvents(c)

\* Speech of a code goes on after its room is gone.
Spoken(c) == rooms[c] # None \/ archive[c] # None

\* An event that reaches the tracker and is stored. One that is lost (nobody
\* subscribed, a failing INSERT) leaves nothing behind.
Track(e) ==
    /\ Len(costs) < MaxCosts
    /\ costs' = Append(costs, [of |-> e, at |-> clock, amount |-> CalculateCost(e)])
    /\ UNCHANGED <<clock, pricing, rows, hist>>

RestartTracker ==
    /\ pricing' = InForce(clock)
    /\ UNCHANGED <<clock, costs, rows, hist>>

Sum(S) ==
    LET upTo[k \in 0..Len(costs)] ==
            IF k = 0 THEN 0 ELSE upTo[k - 1] + IF k \in S THEN costs[k].amount ELSE 0
    IN  upTo[Len(costs)]

Of(C) == {i \in DOMAIN costs : costs[i].of.room \in C}

Through(pipeline) == {i \in DOMAIN costs : costs[i].of.pipeline = pipeline}
-----------------------------------------------------------------------------
\* Rooms and archives.
MakeRoom(c, u) ==
    /\ rooms[c] = None /\ archive[c] = None
    /\ rooms' = [rooms EXCEPT ![c] = [owner |-> u, speakers |-> Speakers[c], again |-> FALSE]]
    /\ UNCHANGED <<clock, pricing, costs, archive, hist>>

RemakeRoom(c) ==
    /\ rooms[c] = None /\ archive[c] # None
    /\ rooms' = [rooms EXCEPT ![c] = [owner |-> FirstUser, speakers |-> 0, again |-> TRUE]]
    /\ UNCHANGED <<clock, pricing, costs, archive, hist>>

\* archive_room and the deletion, one transaction, for a room the cleanup has chosen
\* (RoomLifecycle tells which and what may fail). A cost stored after its sums is as
\* one stored after it. The code has one archive at most, of its first room.
Archived(c) ==
    IF archive[c] # None THEN archive[c]
    ELSE [owner |-> rooms[c].owner,
          stt |-> Sum(Of({c}) \cap Through("stt")),
          mt |-> Sum(Of({c}) \cap Through("mt"))]

\* Mutant: the costs go with their room.
CostsOfOthers(c) == SelectSeq(costs, LAMBDA r : r.of.room # c)

\* Migration 003: the costs outlive the room.
KeptCosts(c) == costs

\* Mutant: the archive is committed, the deletion is not.
RoomStays(c) == rooms[c]

Deleted(c) == None

CleanUp(c) ==
    /\ rooms[c] # None
    /\ archive' = [archive EXCEPT ![c] = Archived(c)]
    /\ rooms' = [rooms EXCEPT ![c] = Deleted(c)]
    /\ costs' = KeptCosts(c)
    /\ UNCHANGED <<clock, pricing, hist>>
-----------------------------------------------------------------------------
\* get_user_history and get_user_stats, of all rooms, recorded or not. The rooms and
\* their costs are read first, the archives in a later statement; a user who has no
\* room reads one thing only. No event has the pipeline stt_final the rooms are
\* asked for.

\* Mutant: the codes of rooms that are gone as well.
EverOwnedBy(u) ==
    {c \in Codes : (rooms[c] # None /\ rooms[c].owner = u) \/ (archive[c] # None /\ archive[c].owner = u)}

OwnedBy(u) == {c \in Codes : rooms[c] # None /\ rooms[c].owner = u}

ArchivedOf(u) == {c \in Codes : archive[c] # None /\ archive[c].owner = u}

ReadRooms(u) ==
    /\ hist = None /\ OwnedBy(u) # {}
    /\ hist' = [user |-> u, live |-> OwnedBy(u),
                total |-> Sum(Of(OwnedBy(u)) \cap (Through("stt_final") \cup Through("mt")))]
    /\ UNCHANGED <<clock, pricing, costs, rows>>

\* What is answered if the archives are read now.
Answer ==
    LET old == ArchivedOf(hist.user)
    IN  [live |-> hist.live, old |-> old,
         total |-> hist.total + MapThenSumSet(LAMBDA c : archive[c].stt + archive[c].mt, old)]

ReadArchive ==
    /\ hist # None
    /\ hist' = None
    /\ UNCHANGED <<clock, pricing, costs, rows>>

CostsNext ==
    \/ TimePasses \/ RestartTracker \/ ReadArchive
    \/ \E c \in Codes :
        \/ RemakeRoom(c) \/ CleanUp(c)
        \/ Spoken(c) /\ \E e \in Events(c) : Track(e)
    \/ \E u \in Users : ReadRooms(u) \/ \E c \in Codes : MakeRoom(c, u)

CostsSpec == CostsInit /\ [][CostsNext]_costvars
-----------------------------------------------------------------------------
\* Budgets.
PeriodTypes == {"daily", "weekly", "monthly"}

Day(t) == t \div 2

MonthOf(t) ==
    CHOOSE ym \in DOMAIN FirstDay :
        /\ FirstDay[ym] <= Day(t)
        /\ \A other \in DOMAIN FirstDay : FirstDay[other] <= Day(t) => FirstDay[other] <= FirstDay[ym]

NextMonth(ym) == IF ym[2] = 12 THEN <<ym[1] + 1, 1>> ELSE <<ym[1], ym[2] + 1>>

\* A calendar: every instant is in a month whose end is known, months begin on
\* different days, and none begins within another.
ASSUME CalendarAssumption ==
    /\ \A t \in Instants : \E ym \in DOMAIN FirstDay :
        /\ NextMonth(ym) \in DOMAIN FirstDay
        /\ FirstDay[ym] <= Day(t) /\ Day(t) < FirstDay[NextMonth(ym)]
    /\ \A ym, other \in DOMAIN FirstDay :
        /\ FirstDay[ym] = FirstDay[other] => ym = other
        /\ NextMonth(ym) \in DOMAIN FirstDay =>
               ~(FirstDay[ym] < FirstDay[other] /\ FirstDay[other] < FirstDay[NextMonth(ym)])

\* Mutant: the week ends as its last day begins.
WeekToSunday(t) == LET monday == Day(t) - (Day(t) % 7) IN <<2 * monday, 2 * (monday + 6)>>

Week(t) == LET monday == Day(t) - (Day(t) % 7) IN <<2 * monday, 2 * (monday + 7)>>

\* get_period_bounds.
Bounds ==
    [type \in PeriodTypes |-> [t \in Instants |->
        CASE type = "daily"   -> <<2 * Day(t), 2 * (Day(t) + 1)>>
          [] type = "weekly"  -> Week(t)
          [] type = "monthly" -> <<2 * FirstDay[MonthOf(t)], 2 * FirstDay[NextMonth(MonthOf(t))]>>]]

Within(bounds) == {i \in DOMAIN costs : bounds[1] <= costs[i].at /\ costs[i].at < bounds[2]}

\* calculate_current_cost, of all pipelines.
CurrentCost(type) == Sum(Within(Bounds[type][clock]))

\* get_budget_status: ok, warning, critical, exceeded.
Severity(cost, usd, th) ==
    LET used == (cost * 100) \div usd
    IN  CASE used >= 100   -> 3
          [] used < 100 /\ used >= th[2] -> 2
          [] used < 100 /\ used < th[2] /\ used >= th[1] -> 1
          [] OTHER -> 0
-----------------------------------------------------------------------------
\* Reports from start to end, the end included.
InRange(start, end) == {i \in DOMAIN costs : start <= costs[i].at /\ costs[i].at <= end}

\* calculate_all_growth_rates compares with as long a time before.
Previous(start, end) ==
    {i \in DOMAIN costs : start - (end - start) <= costs[i].at /\ costs[i].at < start}

Gone == {c \in Codes : rooms[c] = None}

\* The total of get_cost_overview, for the codes of a room, a user, or all.
Overview(start, end, C) == Sum(InRange(start, end) \cap Of(C))

Truncate(g, t) == Bounds[g][t][1]

Buckets(S, g) == {Truncate(g, costs[i].at) : i \in S}

InBucket(S, g, b) == {i \in S : Truncate(g, costs[i].at) = b}

\* get_cost_timeseries: points, their running total, and the points by provider.
Points(start, end, C, g) ==
    LET S == InRange(start, end) \cap Of(C)
    IN  [b \in Buckets(S, g) |-> Sum(InBucket(S, g, b))]

Accumulated(points) ==
    [b \in DOMAIN points |-> SumFunctionOnSet(points, {a \in DOMAIN points : a <= b})]

\* The answer has room for stt and mt, another pipeline makes it fail.
Answers(S) == S \cap Through("tts") = {}

ByProvider(start, end, C, g) ==
    LET S == InRange(start, end) \cap Of(C)
    IN  [b \in Buckets(S, g) |->
            [who \in {<<costs[i].of.pipeline, costs[i].of.provider>> : i \in InBucket(S, g, b)} |->
                Sum({i \in InBucket(S, g, b) : <<costs[i].of.pipeline, costs[i].of.provider>> = who})]]

\* get_user_costs and get_room_costs join with the rooms that are there.
UserCosts(start, end) ==
    [u \in {v \in Users : Overview(start, end, OwnedBy(v)) > 0} |-> Overview(start, end, OwnedBy(u))]

RoomCosts(start, end) ==
    [c \in {d \in Codes \ Gone : Overview(start, end, {d}) > 0} |-> Overview(start, end, {c})]

\* get_user_detail: the rooms and the days of a user.
UserRooms(u, start, end) == Restrict(RoomCosts(start, end), OwnedBy(u) \cap DOMAIN RoomCosts(start, end))

UserDays(u, start, end) == Points(start, end, OwnedBy(u), "daily")

\* The pairs and the speakers of a multi-speaker room. No STT event names a
\* speaker, so nobody has airtime and nobody is found inactive.
TranslationPairs(c) ==
    LET S == {i \in Of({c}) \cap Through("mt") : costs[i].of.speaker # None /\ costs[i].of.target # None}
    IN  [p \in {<<costs[i].of.speaker, costs[i].of.target>> : i \in S} |->
            Sum({i \in S : <<costs[i].of.speaker, costs[i].of.target>> = p})]

SpeakerCosts(c) ==
    [n \in 1..rooms[c].speakers |-> Sum({i \in Of({c}) \cap Through("mt") : costs[i].of.speaker = n})]

Airtime(c) ==
    [n \in 1..rooms[c].speakers |-> Cardinality({i \in Of({c}) \cap Through("stt") : costs[i].of.speaker = n})]

\* get_optimization_suggestions: who speaks less than a tenth of the time, but speaks.
Inactive(c) ==
    {n \in DOMAIN Airtime(c) : Airtime(c)[n] > 0 /\ Airtime(c)[n] * 10 < SumFunction(Airtime(c))}
-----------------------------------------------------------------------------
Event ==
    [room : Codes, pipeline : DOMAIN Providers, provider : UNION {Providers[p] : p \in DOMAIN Providers},
     unit : {"seconds", "tokens", "characters"},
     speaker : {None} \cup Nat, target : {None} \cup Nat]

CostsTypeOK ==
    /\ clock \in Instants /\ pricing \subseteq Prices
    /\ costs \in Seq([of : Event, at : Instants, amount : Nat])
    /\ rooms \in [Codes -> {None} \cup [owner : Users, speakers : Nat, again : BOOLEAN]]
    /\ archive \in [Codes -> {None} \cup [owner : Users, stt : Nat, mt : Nat]]
    /\ hist \in {None} \cup
         [user : Users, live : SUBSET Codes, total : Nat]

\* Whatever is charged is charged at a price that had taken effect, the price of a
\* provider never goes back to an earlier one, and what has had a price in its unit
\* since the beginning is free only after a price of nothing, or one for another
\* unit, has taken effect, with prices read once per process.
PriceOf(i) ==
    {p \in Prices : p.service = costs[i].of.pipeline /\ p.provider = costs[i].of.provider
                      /\ <<costs[i].of.unit, p.model>> \in Converts}

PricedInForce ==
    /\ CostsTypeOK
    /\ \A i \in DOMAIN costs :
        /\ costs[i].amount = 0
             => \A p \in PriceOf(i) : p.from > Min(Instants) \/
                    \E q \in Prices : /\ q.service = p.service /\ q.provider = p.provider
                                     /\ p.from <= q.from /\ q.from <= costs[i].at
                                     /\ (q \notin PriceOf(i) \/ q.price = 0)
        /\ costs[i].amount # 0
             => \E p \in PriceOf(i) :
                    /\ p.price = costs[i].amount /\ p.from <= costs[i].at
                    /\ \A j \in 1..(i - 1) : PriceOf(j) = PriceOf(i) /\ costs[j].amount # 0 =>
                           \E q \in PriceOf(j) : q.price = costs[j].amount /\ q.from <= p.from

\* A user's history shows a code as a room and as an archive only if it was made
\* again, or was archived between the two reads; any other history counts no cost
\* twice.
HistoryCountsOnce ==
    hist # None =>
        /\ Answer.live \cap Answer.old \subseteq Gone \cup {c \in Codes : rooms[c] # None /\ rooms[c].again}
        /\ Answer.live \cap Answer.old = {} => Answer.total <= Sum(Of(Answer.live \cup Answer.old))

\* The reports of one time agree: the series, the users and the rooms add up to the
\* total, but for the codes without a room, which only the total and the series
\* have; pairs and speakers add up to the same translations. No report looks at hist.
ReportsAddUp == hist = None =>
    /\ \A s, e \in Instants : s < e =>
        LET total == Overview(s, e, Codes)
            lost == Overview(s, e, Gone)
        IN  /\ SumFunction(UserCosts(s, e)) + lost = total
            /\ SumFunction(RoomCosts(s, e)) + lost = total
            /\ \A u \in Users :
                /\ SumFunction(UserRooms(u, s, e)) = Overview(s, e, OwnedBy(u))
                /\ SumFunction(UserDays(u, s, e)) = Overview(s, e, OwnedBy(u))
            /\ \A g \in PeriodTypes :
                LET points == Points(s, e, Codes, g)
                IN  /\ SumFunction(points) = total
                    /\ \A b \in DOMAIN points :
                        /\ b = Max(DOMAIN points) => Accumulated(points)[b] = total
                        /\ Answers(InRange(s, e)) =>
                               SumFunction(ByProvider(s, e, Codes, g)[b]) = points[b]
    /\ \A c \in Codes \ Gone :
        /\ rooms[c].speakers > 1 =>
               SumFunction(SpeakerCosts(c)) = SumFunction(TranslationPairs(c))
        /\ Inactive(c) = {}

\* Within one period the status of a budget that nobody changes only gets worse,
\* also when rooms are archived and deleted.
StatusOnlyWorsens ==
    [][costs' # costs =>
         \A type \in {p \in PeriodTypes : Bounds[p][clock] = Bounds[p][clock']} :
           LET before == CurrentCost(type)
               after == CurrentCost(type)'
           IN  \A usd \in Amounts, th \in Thresholds :
                 Severity(after, usd, th) >= Severity(before, usd, th)]_costvars

\* Every cost is in exactly one period of a type, the one of its own time, and in one
\* of the two times the growth compares, but for those outside both.
RangesTile ==
    /\ \A i \in DOMAIN costs, type \in PeriodTypes :
        {b \in {Bounds[type][t] : t \in Instants} : i \in Within(b)} = {Bounds[type][costs[i].at]}
    /\ \A s, e \in Instants : s <= e =>
        /\ Previous(s, e) \cap InRange(s, e) = {}
        /\ Previous(s, e) \cup InRange(s, e) = InRange(s - (e - s), e)
=============================================================================
