-------------------------- MODULE StreamTextProof --------------------------
(***************************************************************************)
(* Proofs about StreamText, for all numbers of words, segments, streams    *)
(* and messages and any threshold: that a word is not translated twice,    *)
(* that Google's client has one session, why a transcript is blocked, and  *)
(* that a final says what was last shown.  They rest on the order of the   *)
(* messages of a stream, which the operators below say of a stream alone,  *)
(* and on every word being sent to one stream only.                        *)
(***************************************************************************)
EXTENDS StreamText, SequenceTheorems, TLAPS

\* What a stream has been sent, has taken up and has confirmed, and its
\* messages: a final confirms what no later message speaks of.
Tidy(g) ==
    /\ g.base <= g.done /\ g.done <= g.got /\ g.got <= g.sent
    /\ \A i \in 1..Len(g.wire) :
        /\ g.wire[i].kind # "error" =>
             g.base < g.wire[i].from /\ g.wire[i].from <= g.wire[i].to /\ g.wire[i].to <= g.got
        /\ g.wire[i].kind = "final" =>
             /\ g.wire[i].to <= g.done
             /\ \A j \in (i + 1)..Len(g.wire) :
                  g.wire[j].kind # "error" => g.wire[i].to < g.wire[j].from

\* What a message and those after it speak of is not kept yet.
Pending(g, k) ==
    \A i \in 1..Len(g.wire), w \in Words :
        g.wire[i].kind # "error" /\ g.wire[i].from <= w /\ w <= g.sent => k[w] = 0

\* The time of the last final of a stream is before that of what is to come.
Behind(g, last) ==
    /\ last <= 2 * (g.done - g.base)
    /\ \A i \in 1..Len(g.wire) :
         g.wire[i].kind # "error" => last <= 2 * (g.wire[i].from - 1 - g.base)

\* The streams have words of their own, and a word on its way is in none.
Shares ==
    /\ \A s \in Streams : Tidy(streams[s]) /\ streams[s].sent <= Len(said)
    /\ \A s, t \in Streams : s < t => streams[s].sent <= streams[t].base
    /\ router \in {"connect", "send"} =>
         Len(said) > 0 /\ \A s \in Streams : streams[s].sent < Len(said)

\* The phases of the router, and what the connection is then.
Phases ==
    /\ session = "none" => router = "idle"
    /\ router = "connect" => conn = None
    /\ router = "connect" => session = "stream"
    /\ segs = 0 => session = "none"
    /\ conn # None => conn.seg = segs /\ conn.of = Len(streams) /\ segs > 0
    /\ provider = "speechmatics" =>
         /\ session # "batch"
         /\ conn = None => router \in {"idle", "connect"} /\ (session # "none" => router = "connect")
         /\ conn # None => conn.first = 1

\* Only the stream of the connection has something to say to Google's client.
Sessions ==
    /\ \A s \in Streams : streams[s].state = "closed" => streams[s].wire = <<>>
    /\ conn = None => \A s \in Streams : streams[s].state = "closed"
    /\ provider = "google_v2" /\ conn # None =>
         \A s \in Streams : streams[s].state # "closed" <=> s = conn.of
    /\ provider = "speechmatics" => \A s \in Streams :
         /\ streams[s].state # "closed"
         /\ \A i \in 1..Len(streams[s].wire) : streams[s].wire[i].kind # "error"

\* A word is kept once it was reported, and not before it is handled.
KeptInTime ==
    /\ \A w \in Words :
         /\ kept[w] <= segs
         /\ kept[w] # 0 => \E s \in Streams : streams[s].base < w /\ w <= streams[s].done
    /\ \A s \in Streams : Pending(streams[s], kept)

\* The connection collects words of the segment being spoken.
Collected ==
    conn # None =>
        /\ \A n \in 1..Len(conn.accum) : kept[conn.accum[n]] \in {0, segs}
        /\ \A n \in 1..Len(conn.final) : kept[conn.final[n]] \in {0, segs}

\* The last text published, and that of a segment not yet ended.
Published ==
    /\ out.seg <= segs
    /\ /\ provider = "speechmatics" /\ conn # None
       /\ session = "stream" /\ router # "ending" /\ conn.accum # <<>>
       => out = [kind |-> "partial", seg |-> segs, text |-> conn.accum]

\* As long as the first socket lasts, time only goes forward.
Forward ==
    provider = "speechmatics" /\ conn # None /\ conn.of = conn.first /\ conn.last # None =>
        Behind(streams[conn.of], conn.last)

IInv == /\ TypeOK /\ Shares /\ Phases /\ Sessions /\ KeptInTime
        /\ Collected /\ Published /\ Forward /\ TranslatedOnce
-----------------------------------------------------------------------------
Message == [kind : {"partial", "final", "error"}, from : Nat, to : Nat, gap : {0, 1}]

\* A stream once the first of its messages is heard.
Popped(g) == [g EXCEPT !.wire = Tail(@)]

\* Its other messages stay in their order.
LEMMA PoppedFacts ==
    ASSUME NEW g \in StreamType, g.wire # <<>>
    PROVE  /\ Popped(g) \in StreamType
           /\ Popped(g).base = g.base /\ Popped(g).sent = g.sent /\ Popped(g).got = g.got
           /\ Popped(g).done = g.done /\ Popped(g).state = g.state
           /\ Len(Popped(g).wire) = Len(g.wire) - 1
           /\ \A i \in 1..Len(Popped(g).wire) : Popped(g).wire[i] = g.wire[i + 1]
           /\ Len(g.wire) > 0 /\ Head(g.wire) = g.wire[1]
<1>1. g.wire \in Seq(Message)
  BY DEF StreamType, Message
<1>2. /\ Tail(g.wire) \in Seq(Message) /\ Len(Tail(g.wire)) = Len(g.wire) - 1
      /\ \A i \in 1..Len(Tail(g.wire)) : Tail(g.wire)[i] = g.wire[i + 1]
      /\ Head(g.wire) = g.wire[1] /\ Len(g.wire) > 0
  BY <1>1, HeadTailProperties, EmptySeq, LenProperties
<1> DEFINE w == Tail(g.wire)
           h == [g EXCEPT !.wire = w]
<1>3. Popped(g) = h
  BY DEF Popped
<1> HIDE DEF w
<1>4. /\ h \in StreamType
      /\ h.base = g.base /\ h.sent = g.sent /\ h.got = g.got /\ h.done = g.done
      /\ h.state = g.state /\ h.wire = w
  BY <1>2 DEF StreamType, Message, w
<1> HIDE DEF h
<1> QED
  BY <1>2, <1>3, <1>4 DEF w

\* Hearing a message keeps a stream in order, and what is left of it pending.
LEMMA PoppedInOrder ==
    ASSUME NEW g \in StreamType, g.wire # <<>>, Tidy(g)
    PROVE  /\ Tidy(Popped(g))
           /\ \A k : Pending(g, k) => Pending(Popped(g), k)
           /\ \A last : Behind(g, last) => Behind(Popped(g), last)
<1> DEFINE h == Popped(g)
<1>1. /\ h.base = g.base /\ h.sent = g.sent /\ h.got = g.got /\ h.done = g.done
      /\ Len(h.wire) = Len(g.wire) - 1 /\ Len(g.wire) \in Nat /\ Len(g.wire) > 0
      /\ \A i \in 1..Len(h.wire) : h.wire[i] = g.wire[i + 1]
  BY PoppedFacts, LenProperties DEF StreamType
<1>2. \A i \in 1..Len(h.wire) : i + 1 \in 1..Len(g.wire)
  BY <1>1
<1> HIDE DEF h
<1>3. Tidy(h)
  <2>1. h.base <= h.done /\ h.done <= h.got /\ h.got <= h.sent
    BY <1>1 DEF Tidy
  <2>2. ASSUME NEW i \in 1..Len(h.wire), h.wire[i].kind # "error"
        PROVE  h.base < h.wire[i].from /\ h.wire[i].from <= h.wire[i].to /\ h.wire[i].to <= h.got
    BY <1>1, <1>2, <2>2 DEF Tidy
  <2>3. ASSUME NEW i \in 1..Len(h.wire), h.wire[i].kind = "final"
        PROVE  /\ h.wire[i].to <= h.done
               /\ \A j \in (i + 1)..Len(h.wire) :
                    h.wire[j].kind # "error" => h.wire[i].to < h.wire[j].from
    <3>1. \A j \in (i + 1)..Len(h.wire) : j \in 1..Len(h.wire) /\ j + 1 \in (i + 1 + 1)..Len(g.wire)
      BY <1>1
    <3> QED
      BY <1>1, <1>2, <2>3, <3>1 DEF Tidy
  <2> QED
    BY <2>1, <2>2, <2>3 DEF Tidy
<1>4. ASSUME NEW k, Pending(g, k) PROVE Pending(h, k)
  BY <1>1, <1>2, <1>4 DEF Pending
<1>5. ASSUME NEW last, Behind(g, last) PROVE Behind(h, last)
  BY <1>1, <1>2, <1>5 DEF Behind
<1> QED
  BY <1>3, <1>4, <1>5 DEF h
-----------------------------------------------------------------------------
\* A step makes h of stream s and leaves the others.
Moves(s, h) ==
    /\ h \in StreamType
    /\ streams' \in Seq(StreamType) /\ Len(streams') = Len(streams)
    /\ \A t \in Streams : streams'[t] = IF t = s THEN h ELSE streams[t]

\* What it makes of it is in order, and as open as before.
Carries(s, h) ==
    /\ Tidy(h) /\ Pending(h, kept)
    /\ h.base = streams[s].base /\ h.sent = streams[s].sent /\ streams[s].done <= h.done
    /\ h.state = "closed" <=> streams[s].state = "closed"
    /\ h.state = "closed" => h.wire = <<>>
    /\ provider = "speechmatics" => \A i \in 1..Len(h.wire) : h.wire[i].kind # "error"
    /\ \A last \in Nat : Behind(streams[s], last) => Behind(h, last)

LEMMA MovesFrom ==
    ASSUME streams \in Seq(StreamType), NEW s \in Streams, NEW h \in StreamType,
           streams' = [streams EXCEPT ![s] = h]
    PROVE  Moves(s, h)
<1>1. streams' \in Seq(StreamType) /\ Len(streams') = Len(streams)
      /\ \A t \in 1..Len(streams) : streams'[t] = IF t = s THEN h ELSE streams[t]
  BY ExceptSeq, LenProperties DEF Streams
<1> QED
  BY <1>1 DEF Moves, Streams

LEMMA StreamTyped ==
    ASSUME TypeOK, NEW s \in Streams
    PROVE  /\ streams[s] \in StreamType /\ Len(streams) \in Nat
           /\ streams[s].wire \in Seq(Message) /\ Len(streams[s].wire) \in Nat
           /\ streams[s].base \in Nat /\ streams[s].sent \in Nat
           /\ streams[s].got \in Nat /\ streams[s].done \in Nat
<1>1. streams[s] \in StreamType /\ Len(streams) \in Nat
  BY ElementOfSeq, LenProperties DEF TypeOK, Streams
<1>2. streams[s].wire \in Seq(Message)
  BY <1>1 DEF StreamType, Message
<1>3. Len(streams[s].wire) \in Nat
  BY <1>2, LenProperties
<1> QED
  BY <1>1, <1>2, <1>3 DEF StreamType

\* A message on its way.
LEMMA MessageTyped ==
    ASSUME TypeOK, NEW s \in Streams, NEW i \in 1..Len(streams[s].wire)
    PROVE  /\ streams[s].wire[i] \in Message
           /\ streams[s].wire[i].from \in Nat /\ streams[s].wire[i].to \in Nat
<1>1. streams[s].wire[i] \in Message
  BY StreamTyped, ElementOfSeq
<1> QED
  BY <1>1 DEF Message

\* What no stream has confirmed is kept for no segment.
LEMMA UnconfirmedNotKept ==
    ASSUME TypeOK, Shares, KeptInTime, NEW s \in Streams, NEW w \in Words,
           streams[s].done < w, w <= streams[s].sent
    PROVE  kept[w] = 0
<1> SUFFICES ASSUME kept[w] # 0 PROVE FALSE
  OBVIOUS
<1>1. PICK t \in Streams : streams[t].base < w /\ w <= streams[t].done
  BY DEF KeptInTime
<1>2. \A u \in {s, t} : /\ streams[u].base \in Nat /\ streams[u].sent \in Nat
                        /\ streams[u].got \in Nat /\ streams[u].done \in Nat
  BY StreamTyped
<1>3. /\ streams[t].done <= streams[t].got /\ streams[t].got <= streams[t].sent
      /\ streams[s].base <= streams[s].done /\ w \in Nat
  BY DEF Shares, Tidy, Words
<1>4. s = t \/ s < t \/ t < s
  BY DEF Streams
<1>5. w <= streams[t].sent /\ streams[s].base < w
  BY <1>1, <1>2, <1>3
<1>6. CASE s < t
  <2>1. streams[s].sent <= streams[t].base
    BY <1>6 DEF Shares
  <2> QED
    BY <1>1, <1>2, <1>3, <2>1
<1>7. CASE t < s
  <2>1. streams[t].sent <= streams[s].base
    BY <1>7 DEF Shares
  <2> QED
    BY <1>2, <1>3, <1>5, <2>1
<1> QED
  BY <1>1, <1>2, <1>3, <1>4, <1>6, <1>7

\* The streams keep their words apart.
LEMMA CarriedShares ==
    ASSUME TypeOK, Shares, NEW s \in Streams, NEW h, Moves(s, h), Carries(s, h),
           said' = said, router' = router \/ router' = "idle"
    PROVE  Shares'
<1>1. Streams' = Streams
  BY DEF Moves, Streams
<1> QED
  BY <1>1 DEF Shares, Moves, Carries

\* The same streams are open, for the same connection.
LEMMA CarriedSessions ==
    ASSUME TypeOK, Sessions, NEW s \in Streams, NEW h, Moves(s, h), Carries(s, h),
           provider' = provider, conn' = None <=> conn = None,
           conn # None => conn'.of = conn.of
    PROVE  Sessions'
<1>1. Streams' = Streams
  BY DEF Moves, Streams
<1>2. \A t \in Streams : /\ streams'[t].state = "closed" <=> streams[t].state = "closed"
                         /\ streams'[t].state = "closed" => streams'[t].wire = <<>>
  BY DEF Sessions, Moves, Carries
<1>3. provider = "speechmatics" => \A t \in Streams :
        \A i \in 1..Len(streams'[t].wire) : streams'[t].wire[i].kind # "error"
  BY DEF Sessions, Moves, Carries
<1> QED
  BY <1>1, <1>2, <1>3 DEF Sessions

\* What is pending stays so.
LEMMA CarriedKept ==
    ASSUME TypeOK, KeptInTime, NEW s \in Streams, NEW h, Moves(s, h), Carries(s, h),
           kept' = kept, segs' = segs
    PROVE  KeptInTime'
<1>1. Streams' = Streams
  BY DEF Moves, Streams
<1>2. ASSUME NEW t \in Streams, NEW w \in Words, streams[t].base < w, w <= streams[t].done
      PROVE  streams'[t].base < w /\ w <= streams'[t].done
  <2>1. streams[t].done \in Nat /\ h.done \in Nat
    BY StreamTyped DEF Moves, StreamType
  <2> QED
    BY <1>2, <2>1 DEF Moves, Carries, Words
<1>3. \A t \in Streams : Pending(streams'[t], kept')
  BY DEF Moves, Carries, KeptInTime
<1>4. ASSUME NEW w \in Words
      PROVE  kept'[w] <= segs' /\ (kept'[w] # 0 =>
                \E t \in Streams : streams'[t].base < w /\ w <= streams'[t].done)
  BY <1>2, <1>4 DEF KeptInTime
<1> QED
  BY <1>1, <1>3, <1>4 DEF KeptInTime

\* Time goes on forward.
LEMMA CarriedForward ==
    ASSUME TypeOK, Forward, NEW s \in Streams, NEW h, Moves(s, h), Carries(s, h),
           provider' = provider, conn' = None <=> conn = None,
           conn # None => conn'.of = conn.of /\ conn'.first = conn.first /\ conn'.last = conn.last
    PROVE  Forward'
<1> SUFFICES ASSUME provider = "speechmatics", conn # None, conn.of = conn.first, conn.last # None
             PROVE  Behind(streams'[conn.of], conn.last)
  BY DEF Forward
<1>1. Behind(streams[conn.of], conn.last) /\ conn.last \in Nat /\ conn.of \in Streams
  BY DEF Forward, TypeOK, Connections
<1> QED
  BY <1>1 DEF Moves, Carries
-----------------------------------------------------------------------------
\* A stream once a message is reported.
Reported(g, m) == [g EXCEPT !.wire = Append(@, m), !.done = IF m.kind = "final" THEN m.to ELSE @]

LEMMA ReportedFacts ==
    ASSUME NEW g \in StreamType, NEW m \in Message
    PROVE  /\ Reported(g, m) \in StreamType
           /\ Reported(g, m).base = g.base /\ Reported(g, m).sent = g.sent
           /\ Reported(g, m).got = g.got /\ Reported(g, m).state = g.state
           /\ Reported(g, m).done = IF m.kind = "final" THEN m.to ELSE g.done
           /\ Len(Reported(g, m).wire) = Len(g.wire) + 1
           /\ \A i \in 1..Len(g.wire) : Reported(g, m).wire[i] = g.wire[i]
           /\ Reported(g, m).wire[Len(g.wire) + 1] = m
<1>1. g.wire \in Seq(Message)
  BY DEF StreamType, Message
<1>2. /\ Append(g.wire, m) \in Seq(Message) /\ Len(Append(g.wire, m)) = Len(g.wire) + 1
      /\ \A i \in 1..Len(g.wire) : Append(g.wire, m)[i] = g.wire[i]
      /\ Append(g.wire, m)[Len(g.wire) + 1] = m
  BY <1>1, AppendProperties
<1> DEFINE a == Append(g.wire, m)
           d == IF m.kind = "final" THEN m.to ELSE g.done
           h == [g EXCEPT !.wire = a, !.done = d]
<1>3. a \in Seq(Message) /\ d \in Nat
  BY <1>2 DEF StreamType, Message
<1>4. Reported(g, m) = h
  BY DEF Reported
<1> HIDE DEF a, d
<1>5. /\ h \in StreamType
      /\ h.base = g.base /\ h.sent = g.sent /\ h.got = g.got /\ h.state = g.state
      /\ h.done = d /\ h.wire = a
  BY <1>3 DEF StreamType, Message
<1> HIDE DEF h
<1> QED
  BY <1>2, <1>4, <1>5 DEF a, d

\* A report goes on from what was confirmed.
LEMMA ReportedInOrder ==
    ASSUME NEW g \in StreamType, NEW m \in Message, Tidy(g),
           m.kind # "error", m.from = g.done + 1, m.from <= m.to, m.to <= g.got
    PROVE  /\ Tidy(Reported(g, m)) /\ g.done <= Reported(g, m).done
           /\ \A last \in Nat : Behind(g, last) => Behind(Reported(g, m), last)
           /\ \A k : /\ Pending(g, k)
                     /\ \A w \in Words : g.done < w /\ w <= g.sent => k[w] = 0
                     => Pending(Reported(g, m), k)
<1> DEFINE h == Reported(g, m)
           n == Len(g.wire)
<1>1. /\ g.base \in Nat /\ g.sent \in Nat /\ g.got \in Nat /\ g.done \in Nat /\ n \in Nat
      /\ m.from \in Nat /\ m.to \in Nat
  BY LenProperties DEF StreamType, Message
<1>2. /\ h.base = g.base /\ h.sent = g.sent /\ h.got = g.got
      /\ h.done = IF m.kind = "final" THEN m.to ELSE g.done
      /\ Len(h.wire) = n + 1
      /\ \A i \in 1..n : h.wire[i] = g.wire[i]
      /\ h.wire[n + 1] = m
  BY ReportedFacts
<1>3. g.base <= g.done /\ g.done <= g.got /\ g.got <= g.sent
  BY DEF Tidy
<1>4. \A i \in 1..n : g.wire[i].to \in Nat /\ g.wire[i].from \in Nat
  <2>1. g.wire \in Seq(Message)
    BY DEF StreamType, Message
  <2>2. \A i \in 1..n : g.wire[i] \in Message
    BY <2>1, ElementOfSeq
  <2> QED
    BY <2>2 DEF Message
<1> HIDE DEF h, n
<1>5. \A i \in 1..Len(h.wire) : i \in 1..n \/ i = n + 1
  BY <1>1, <1>2
<1>6. h.done \in Nat /\ g.done <= h.done /\ h.done <= h.got
  BY <1>1, <1>2, <1>3
<1>7. Tidy(h)
  <2>1. ASSUME NEW i \in 1..Len(h.wire), h.wire[i].kind # "error"
        PROVE  h.base < h.wire[i].from /\ h.wire[i].from <= h.wire[i].to /\ h.wire[i].to <= h.got
    <3>1. CASE i = n + 1
      BY <1>1, <1>2, <1>3, <3>1
    <3>2. CASE i \in 1..n
      BY <1>2, <2>1, <3>2 DEF Tidy, n
    <3> QED
      BY <1>5, <3>1, <3>2
  <2>2. ASSUME NEW i \in 1..Len(h.wire), h.wire[i].kind = "final"
        PROVE  h.wire[i].to <= h.done
    <3>1. CASE i = n + 1
      BY <1>1, <1>2, <2>2, <3>1
    <3>2. CASE i \in 1..n
      <4>1. h.wire[i] = g.wire[i] /\ g.wire[i].to <= g.done
        BY <1>2, <2>2, <3>2 DEF Tidy, n
      <4> QED
        <5>1. g.wire[i].to \in Nat /\ g.done \in Nat /\ h.done \in Nat /\ g.done <= h.done
          BY <1>1, <1>4, <1>6, <3>2
        <5> QED
          BY ONLY <4>1, <5>1
    <3> QED
      BY <1>5, <3>1, <3>2
  <2>3. ASSUME NEW i \in 1..Len(h.wire), h.wire[i].kind = "final",
               NEW j \in (i + 1)..Len(h.wire), h.wire[j].kind # "error"
        PROVE  h.wire[i].to < h.wire[j].from
    <3>1. i \in 1..n /\ h.wire[i] = g.wire[i] /\ (j \in (i + 1)..n \/ j = n + 1)
      BY <1>1, <1>2, <1>5
    <3>2. CASE j = n + 1
      <4>1. g.wire[i].to <= g.done
        BY <2>3, <3>1 DEF Tidy, n
      <4>2. g.wire[i].to \in Nat /\ m.from = g.done + 1 /\ h.wire[j] = m
        BY <1>2, <1>4, <3>1, <3>2
      <4>3. g.wire[i].to < m.from
        BY ONLY <1>1, <4>1, <4>2
      <4> QED
        BY <3>1, <4>2, <4>3
    <3>3. CASE j \in (i + 1)..n
      <4>1. j \in 1..n
        BY <1>1, <3>1, <3>3
      <4>2. h.wire[j] = g.wire[j]
        BY <1>2, <4>1
      <4> QED
        BY <2>3, <3>1, <3>3, <4>2 DEF Tidy, n
    <3> QED
      BY <3>1, <3>2, <3>3
  <2>4. h.base <= h.done /\ h.got <= h.sent
    BY <1>1, <1>2, <1>3, <1>6
  <2> QED
    BY <1>6, <2>1, <2>2, <2>3, <2>4 DEF Tidy
<1>8. ASSUME NEW last \in Nat, Behind(g, last) PROVE Behind(h, last)
  <2>1. last <= 2 * (g.done - g.base)
    BY <1>8 DEF Behind
  <2>2. ASSUME NEW i \in 1..Len(h.wire), h.wire[i].kind # "error"
        PROVE  last <= 2 * (h.wire[i].from - 1 - h.base)
    <3>1. CASE i = n + 1
      <4>1. m.from - 1 = g.done
        BY <1>1
      <4> QED
        BY <1>2, <2>1, <3>1, <4>1
    <3>2. CASE i \in 1..n
      BY <1>2, <1>8, <2>2, <3>2 DEF Behind, n
    <3> QED
      BY <1>5, <3>1, <3>2
  <2>3. last <= 2 * (h.done - h.base)
    <3>1. \A a, b, c \in Nat : a <= b => 2 * (a - c) <= 2 * (b - c)
      OBVIOUS
    <3>2. 2 * (g.done - g.base) <= 2 * (h.done - g.base)
      BY <1>1, <1>6, <3>1
    <3>3. 2 * (g.done - g.base) \in Int /\ 2 * (h.done - g.base) \in Int
      BY <1>1, <1>6
    <3> QED
      BY <1>2, <2>1, <3>2, <3>3
  <2> QED
    BY <2>2, <2>3 DEF Behind
<1>9. ASSUME NEW k, Pending(g, k), \A w \in Words : g.done < w /\ w <= g.sent => k[w] = 0
      PROVE  Pending(h, k)
  <2> SUFFICES ASSUME NEW i \in 1..Len(h.wire), NEW w \in Words,
                      h.wire[i].kind # "error", h.wire[i].from <= w, w <= h.sent
               PROVE  k[w] = 0
    BY DEF Pending
  <2>1. CASE i = n + 1
    BY <1>1, <1>2, <1>9, <2>1 DEF Words
  <2>2. CASE i \in 1..n
    BY <1>2, <1>9, <2>2 DEF Pending, n
  <2> QED
    BY <1>5, <2>1, <2>2
<1> QED
  BY <1>6, <1>7, <1>8, <1>9 DEF h
-----------------------------------------------------------------------------
\* The steps of the provider.
LEMMA ReportCarries ==
    ASSUME IInv, NEW s \in Streams, NEW m \in Messages, Report(s, m)
    PROVE  \E h : Moves(s, h) /\ Carries(s, h) /\ Len(streams[s].wire) <= Len(h.wire)
<1> DEFINE g == streams[s]
           h == Reported(g, m)
<1>1. /\ g \in StreamType /\ g.done \in Nat /\ TypeOK /\ Shares /\ KeptInTime /\ Sessions
      /\ Tidy(g) /\ Pending(g, kept) /\ g.wire \in Seq(Message) /\ Len(g.wire) \in Nat
  BY StreamTyped DEF IInv, Shares, KeptInTime
<1>2. /\ m \in Message /\ m.kind \in {"partial", "final"}
      /\ m.from = g.done + 1 /\ m.from <= m.to /\ m.to <= g.got
  BY <1>1 DEF Report, Messages, Message, Words
<1>3. /\ h \in StreamType /\ h.base = g.base /\ h.sent = g.sent /\ h.state = g.state
      /\ Len(h.wire) = Len(g.wire) + 1
      /\ \A i \in 1..Len(g.wire) : h.wire[i] = g.wire[i]
      /\ h.wire[Len(g.wire) + 1] = m
  BY <1>1, <1>2, ReportedFacts
<1>4. /\ Tidy(h) /\ g.done <= h.done
      /\ \A last \in Nat : Behind(g, last) => Behind(h, last)
      /\ \A k : /\ Pending(g, k)
                /\ \A w \in Words : g.done < w /\ w <= g.sent => k[w] = 0
                => Pending(h, k)
  BY <1>1, <1>2, ReportedInOrder
<1>5. Pending(h, kept)
  BY <1>1, <1>4, UnconfirmedNotKept
<1>6. Moves(s, h)
  <2>1. streams' = [streams EXCEPT ![s] = h]
    BY DEF Report, Reported
  <2> QED
    BY ONLY <2>1, <1>1, <1>3, MovesFrom, s \in Streams DEF TypeOK
<1>7. g.state # "closed"
  BY DEF Report
<1> HIDE DEF h
<1>8. ASSUME provider = "speechmatics", NEW i \in 1..Len(h.wire) PROVE h.wire[i].kind # "error"
  <2>1. i \in 1..Len(g.wire) \/ i = Len(g.wire) + 1
    BY <1>1, <1>3
  <2> QED
    BY <1>1, <1>2, <1>3, <1>8, <2>1 DEF Sessions
<1> QED
  BY <1>3, <1>4, <1>5, <1>6, <1>7, <1>8 DEF Carries

\* A stream that takes up more, is sent more or changes its state stays in order.
LEMMA SameOrder ==
    ASSUME NEW g \in StreamType, NEW h \in StreamType, Tidy(g),
           h.base = g.base, h.done = g.done, h.wire = g.wire, g.got <= h.got, h.got <= h.sent
    PROVE  Tidy(h)
<1>1. g.got \in Nat /\ h.got \in Nat /\ g.done \in Nat
  BY DEF StreamType
<1>2. \A i \in 1..Len(g.wire) : g.wire[i] \in Message
  BY ElementOfSeq DEF StreamType, Message
<1>3. \A i \in 1..Len(g.wire) : g.wire[i].to \in Nat
  BY <1>2 DEF Message
<1> QED
  BY <1>1, <1>3 DEF Tidy

LEMMA SameMessages ==
    ASSUME NEW g \in StreamType, NEW h \in StreamType,
           h.base = g.base, h.done = g.done, h.sent = g.sent, h.wire = g.wire
    PROVE  /\ \A k : Pending(g, k) => Pending(h, k)
           /\ \A last : Behind(g, last) => Behind(h, last)
BY DEF Pending, Behind

\* So does one that fails.
ErrorMessage == [kind |-> "error", from |-> 0, to |-> 0, gap |-> 0]

Failed(g) == [g EXCEPT !.state = "over", !.wire = Append(@, ErrorMessage)]

LEMMA FailedFacts ==
    ASSUME NEW g \in StreamType
    PROVE  /\ Failed(g) \in StreamType
           /\ Failed(g).base = g.base /\ Failed(g).sent = g.sent
           /\ Failed(g).got = g.got /\ Failed(g).done = g.done /\ Failed(g).state = "over"
           /\ Len(Failed(g).wire) = Len(g.wire) + 1
           /\ \A i \in 1..Len(g.wire) : Failed(g).wire[i] = g.wire[i]
           /\ Failed(g).wire[Len(g.wire) + 1].kind = "error"
<1> DEFINE a == Append(g.wire, ErrorMessage)
           h == [g EXCEPT !.state = "over", !.wire = a]
<1>1. g.wire \in Seq(Message) /\ ErrorMessage \in Message
  BY DEF StreamType, Message, ErrorMessage
<1>2. /\ a \in Seq(Message) /\ Len(a) = Len(g.wire) + 1
      /\ \A i \in 1..Len(g.wire) : a[i] = g.wire[i]
      /\ a[Len(g.wire) + 1] = ErrorMessage
  BY <1>1, AppendProperties
<1>3. Failed(g) = h
  BY DEF Failed
<1> HIDE DEF a
<1>4. /\ h \in StreamType
      /\ h.base = g.base /\ h.sent = g.sent /\ h.got = g.got /\ h.done = g.done
      /\ h.state = "over" /\ h.wire = a
  BY <1>2 DEF StreamType, Message
<1> HIDE DEF h
<1> QED
  BY <1>2, <1>3, <1>4 DEF ErrorMessage

LEMMA FailedInOrder ==
    ASSUME NEW g \in StreamType, Tidy(g)
    PROVE  /\ Tidy(Failed(g))
           /\ \A k : Pending(g, k) => Pending(Failed(g), k)
           /\ \A last : Behind(g, last) => Behind(Failed(g), last)
<1> DEFINE h == Failed(g)
           n == Len(g.wire)
<1>1. /\ n \in Nat /\ h.base = g.base /\ h.sent = g.sent /\ h.got = g.got /\ h.done = g.done
      /\ Len(h.wire) = n + 1
      /\ \A i \in 1..n : h.wire[i] = g.wire[i]
      /\ h.wire[n + 1].kind = "error"
  BY FailedFacts, LenProperties DEF StreamType
<1> HIDE DEF h, n
<1>2. ASSUME NEW i \in 1..Len(h.wire), h.wire[i].kind # "error"
      PROVE  i \in 1..n /\ h.wire[i] = g.wire[i] /\ g.wire[i].kind # "error"
  BY <1>1, <1>2
<1>3. Tidy(h)
  <2>1. ASSUME NEW i \in 1..Len(h.wire), h.wire[i].kind # "error"
        PROVE  h.base < h.wire[i].from /\ h.wire[i].from <= h.wire[i].to /\ h.wire[i].to <= h.got
    BY <1>1, <1>2, <2>1 DEF Tidy, n
  <2>2. ASSUME NEW i \in 1..Len(h.wire), h.wire[i].kind = "final"
        PROVE  h.wire[i].to <= h.done
    BY <1>1, <1>2, <2>2 DEF Tidy, n
  <2>3. ASSUME NEW i \in 1..Len(h.wire), h.wire[i].kind = "final",
               NEW j \in (i + 1)..Len(h.wire), h.wire[j].kind # "error"
        PROVE  h.wire[i].to < h.wire[j].from
    <3>1. j \in 1..Len(h.wire)
      BY <1>1
    <3>2. j \in (i + 1)..n /\ h.wire[j] = g.wire[j] /\ g.wire[j].kind # "error"
      BY <1>1, <1>2, <2>3, <3>1
    <3> QED
      BY <1>2, <2>3, <3>2 DEF Tidy, n
  <2> QED
    BY <1>1, <2>1, <2>2, <2>3 DEF Tidy
<1>4. ASSUME NEW k, Pending(g, k) PROVE Pending(h, k)
  <2> SUFFICES ASSUME NEW i \in 1..Len(h.wire), NEW w \in Words,
                      h.wire[i].kind # "error", h.wire[i].from <= w, w <= h.sent
               PROVE  k[w] = 0
    BY DEF Pending
  <2> QED
    BY <1>1, <1>2, <1>4 DEF Pending, n
<1>5. ASSUME NEW last, Behind(g, last) PROVE Behind(h, last)
  BY <1>1, <1>2, <1>5 DEF Behind, n
<1> QED
  BY <1>3, <1>4, <1>5 DEF h

\* A stream that is fed or changes its state.
LEMMA ChangedCarries ==
    ASSUME TypeOK, Shares, KeptInTime, Sessions,
           NEW s \in Streams, NEW got \in Nat, NEW state \in {"open", "silent", "over"},
           streams[s].got <= got, got <= streams[s].sent, streams[s].state # "closed",
           streams' = [streams EXCEPT ![s] = [streams[s] EXCEPT !.got = got, !.state = state]]
    PROVE  \E h : Moves(s, h) /\ Carries(s, h) /\ Len(streams[s].wire) <= Len(h.wire)
<1> DEFINE g == streams[s]
           h == [g EXCEPT !.got = got, !.state = state]
<1>1. /\ g \in StreamType /\ g.done \in Nat /\ Len(g.wire) \in Nat
      /\ Tidy(g) /\ Pending(g, kept)
  BY StreamTyped DEF Shares, KeptInTime
<1>2. /\ h \in StreamType /\ h.base = g.base /\ h.done = g.done /\ h.sent = g.sent
      /\ h.wire = g.wire /\ h.got = got /\ h.state = state
  BY <1>1 DEF StreamType
<1>3. Moves(s, h)
  BY <1>2, MovesFrom DEF TypeOK
<1> HIDE DEF h
<1>4. /\ Tidy(h)
      /\ \A k : Pending(g, k) => Pending(h, k)
      /\ \A last : Behind(g, last) => Behind(h, last)
  BY <1>1, <1>2, SameOrder, SameMessages
<1>5. provider = "speechmatics" => \A i \in 1..Len(h.wire) : h.wire[i].kind # "error"
  BY <1>2 DEF Sessions
<1> QED
  BY <1>1, <1>2, <1>3, <1>4, <1>5 DEF Carries

\* A step of the provider changes one stream, and leaves it in order.
LEMMA ProviderCarries ==
    ASSUME IInv, NEW s \in Streams, Provider(s)
    PROVE  /\ \E h : Moves(s, h) /\ Carries(s, h) /\ Len(streams[s].wire) <= Len(h.wire)
           /\ UNCHANGED <<provider, said, segs, session, router, conn, out, kept>>
<1> DEFINE g == streams[s]
<1>1. SUFFICES \E h : Moves(s, h) /\ Carries(s, h) /\ Len(streams[s].wire) <= Len(h.wire)
  BY DEF Provider, Report, Feed, Feeds, FeedTimesOut, StreamEnds, StreamFails, SocketLost, Ends
<1>2. /\ TypeOK /\ Shares /\ KeptInTime /\ Sessions
      /\ g \in StreamType /\ g.got \in Nat /\ g.sent \in Nat /\ Len(g.wire) \in Nat
      /\ Tidy(g) /\ Pending(g, kept)
  BY StreamTyped DEF IInv, Shares, KeptInTime
<1>3. g.got <= g.got /\ g.got <= g.sent
  BY <1>2 DEF Tidy
<1>4. ASSUME NEW m \in Messages, Report(s, m)
      PROVE  \E h : Moves(s, h) /\ Carries(s, h) /\ Len(streams[s].wire) <= Len(h.wire)
  BY <1>4, ReportCarries
<1>5. CASE Feed(s)
  <2>1. g.state = "open" /\ g.got < g.sent /\ g.got + 1 \in Nat
    BY <1>2, <1>5 DEF Feed, Feeds
  <2>2. [g EXCEPT !.got = @ + 1] = [g EXCEPT !.got = g.got + 1, !.state = "open"]
    BY <1>2, <2>1 DEF StreamType
  <2>3. streams' = [streams EXCEPT ![s] = [g EXCEPT !.got = g.got + 1, !.state = "open"]]
    BY <1>5, <2>2 DEF Feed, Feeds
  <2>4. g.got <= g.got + 1 /\ g.got + 1 <= g.sent /\ g.state # "closed"
    BY <1>2, <2>1
  <2> QED
    BY ONLY <1>2, <2>1, <2>3, <2>4, ChangedCarries, s \in Streams
<1>6. ASSUME NEW state \in {"silent", "over"}, g.state # "closed",
             streams' = [streams EXCEPT ![s] = [g EXCEPT !.state = state]]
      PROVE  \E h : Moves(s, h) /\ Carries(s, h) /\ Len(streams[s].wire) <= Len(h.wire)
  <2>1. [g EXCEPT !.state = state] = [g EXCEPT !.got = g.got, !.state = state]
    BY <1>2 DEF StreamType
  <2>2. streams' = [streams EXCEPT ![s] = [g EXCEPT !.got = g.got, !.state = state]]
    BY <1>6, <2>1
  <2> QED
    BY ONLY <1>2, <1>3, <1>6, <2>2, ChangedCarries, s \in Streams
<1>7. CASE FeedTimesOut(s) \/ StreamEnds(s) \/ SocketLost(s)
  BY <1>6, <1>7 DEF FeedTimesOut, Feeds, StreamEnds, SocketLost, Ends
<1>8. CASE StreamFails(s)
  <2> DEFINE h == Failed(g)
  <2>1. /\ h \in StreamType /\ h.base = g.base /\ h.sent = g.sent /\ h.done = g.done
        /\ h.state = "over" /\ Len(h.wire) = Len(g.wire) + 1
    BY <1>2, FailedFacts
  <2>2. /\ Tidy(h)
        /\ \A k : Pending(g, k) => Pending(h, k)
        /\ \A last : Behind(g, last) => Behind(h, last)
    BY <1>2, FailedInOrder
  <2>3. streams' = [streams EXCEPT ![s] = h] /\ g.state # "closed" /\ provider = "google_v2"
    BY <1>8 DEF StreamFails, Ends, Failed, ErrorMessage
  <2> HIDE DEF h
  <2>4. Moves(s, h)
    BY <1>2, <2>1, <2>3, MovesFrom DEF TypeOK
  <2>5. g.done \in Nat
    BY <1>2 DEF StreamType
  <2> QED
    BY <1>2, <2>1, <2>2, <2>3, <2>4, <2>5 DEF Carries
<1> QED
  BY <1>4, <1>5, <1>7, <1>8 DEF Provider
-----------------------------------------------------------------------------
\* The words i, ..., j are a text, in their order.
LEMMA RunFacts ==
    ASSUME NEW i \in Words, NEW j \in Words, i <= j
    PROVE  /\ Run(i, j) \in Text /\ Len(Run(i, j)) = j + 1 - i
           /\ \A n \in 1..Len(Run(i, j)) : Run(i, j)[n] = i + n - 1 /\ i + n - 1 <= j
           /\ \A w \in Words : (\E n \in 1..Len(Run(i, j)) : Run(i, j)[n] = w) <=> i <= w /\ w <= j
<1>1. i \in Nat /\ j \in Nat /\ j <= MaxWords /\ i > 0 /\ j + 1 - i \in Nat
  BY StreamTextAssumption DEF Words
<1>2. \A n \in 1..(j + 1 - i) : i + n - 1 \in Words /\ i + n - 1 <= j
  BY <1>1, StreamTextAssumption DEF Words
<1>3. Run(i, j) \in [1..(j + 1 - i) -> Words]
  BY <1>2 DEF Run
<1>4. Run(i, j) \in Text
  BY <1>1, <1>3, IsASeq DEF Text
<1>5. Len(Run(i, j)) = j + 1 - i
  BY <1>1, <1>3, <1>4, LenProperties DEF Text
<1>6. \A n \in 1..Len(Run(i, j)) : Run(i, j)[n] = i + n - 1
  BY <1>5 DEF Run
<1>7. ASSUME NEW w \in Words, i <= w, w <= j
      PROVE  \E n \in 1..Len(Run(i, j)) : Run(i, j)[n] = w
  <2>1. w + 1 - i \in 1..Len(Run(i, j)) /\ i + (w + 1 - i) - 1 = w
    BY <1>1, <1>5, <1>7 DEF Words
  <2> QED
    BY <1>6, <2>1
<1>8. ASSUME NEW w \in Words, NEW n \in 1..Len(Run(i, j)), Run(i, j)[n] = w
      PROVE  i <= w /\ w <= j
  BY <1>1, <1>2, <1>5, <1>6, <1>8
<1> QED
  BY <1>2, <1>4, <1>5, <1>6, <1>7, <1>8

\* The message a listener takes up.
LEMMA TakenFacts ==
    ASSUME IInv, NEW s \in Streams, NEW kind \in {"partial", "final", "error"}, Takes(s, kind)
    PROVE  /\ streams[s].wire # <<>> /\ Len(streams[s].wire) > 0
           /\ First(s) = streams[s].wire[1] /\ First(s) \in Message /\ First(s).kind = kind
           /\ streams[s].state # "closed"
           /\ conn # None /\ conn \in Connections /\ conn.seg = segs /\ segs > 0
           /\ conn.of = Len(streams)
           /\ conn.of \in Streams
           /\ provider = "speechmatics" => kind # "error"
<1>1. TypeOK /\ Sessions /\ Phases
  BY DEF IInv
<1>2. /\ streams[s].wire # <<>> /\ Len(streams[s].wire) \in Nat /\ Len(streams[s].wire) > 0
      /\ First(s) = streams[s].wire[1] /\ First(s) \in Message /\ First(s).kind = kind
  <2>1. streams[s].wire \in Seq(Message) /\ streams[s].wire # <<>>
    BY <1>1, StreamTyped DEF Takes
  <2> QED
    BY <2>1, HeadTailProperties, LenProperties, EmptySeq, ElementOfSeq DEF Takes, First
<1>3. streams[s].state # "closed"
  BY <1>1, <1>2 DEF Sessions
<1>4. conn # None
  BY <1>1, <1>3 DEF Sessions
<1>5. provider = "speechmatics" => kind # "error"
  BY <1>1, <1>2 DEF Sessions
<1> QED
  BY <1>1, <1>2, <1>3, <1>4, <1>5 DEF Phases, TypeOK

\* The words it speaks of, which are kept for no segment yet.
LEMMA TakenWords ==
    ASSUME IInv, NEW s \in Streams, NEW kind \in {"partial", "final"}, Takes(s, kind)
    PROVE  /\ First(s).from \in Words /\ First(s).to \in Words /\ First(s).from <= First(s).to
           /\ streams[s].base < First(s).from /\ First(s).to <= streams[s].got
           /\ First(s).to <= streams[s].sent
           /\ kind = "final" => First(s).to <= streams[s].done
           /\ \A w \in Words : First(s).from <= w /\ w <= First(s).to => kept[w] = 0
<1> DEFINE g == streams[s]
           m == First(s)
<1>1. TypeOK /\ Shares /\ KeptInTime /\ Tidy(g) /\ Pending(g, kept) /\ g.sent <= Len(said)
  BY DEF IInv, Shares, KeptInTime
<1>2. /\ g.base \in Nat /\ g.got \in Nat /\ g.sent \in Nat /\ Len(g.wire) \in Nat
      /\ Len(said) \in Nat /\ Len(said) <= MaxWords
  BY <1>1, StreamTyped, LenProperties DEF TypeOK
<1>3. m = g.wire[1] /\ m.kind = kind /\ Len(g.wire) > 0 /\ m.from \in Nat /\ m.to \in Nat
  BY TakenFacts DEF Message
<1>4. g.base < m.from /\ m.from <= m.to /\ m.to <= g.got /\ (kind = "final" => m.to <= g.done)
  BY <1>1, <1>2, <1>3 DEF Tidy
<1>5. g.got <= g.sent
  BY <1>1 DEF Tidy
<1>6. m.to <= g.sent
  BY <1>2, <1>3, <1>4, <1>5
<1>7. ASSUME NEW w \in Words, m.from <= w, w <= m.to PROVE kept[w] = 0
  <2>1. w <= g.sent
    BY <1>2, <1>3, <1>6, <1>7 DEF Words
  <2>2. 1 \in 1..Len(g.wire) /\ g.wire[1].kind # "error" /\ g.wire[1].from <= w
    BY <1>2, <1>3, <1>7
  <2> QED
    BY <1>1, <2>1, <2>2 DEF Pending
<1>8. m.from \in Words /\ m.to \in Words
  <2>1. /\ g.base \in Nat /\ g.sent \in Nat /\ m.from \in Nat /\ m.to \in Nat
        /\ Len(said) \in Nat /\ MaxWords \in Nat
    BY <1>2, <1>3, StreamTextAssumption
  <2>2. /\ g.base < m.from /\ m.from <= m.to /\ m.to <= g.sent
        /\ g.sent <= Len(said) /\ Len(said) <= MaxWords
    BY <1>1, <1>2, <1>4, <1>6
  <2> HIDE DEF g, m
  <2>3. 1 <= m.from /\ 1 <= m.to /\ m.to <= MaxWords /\ m.from <= MaxWords
    BY ONLY <2>1, <2>2
  <2> QED
    BY <2>1, <2>3 DEF Words
<1> QED
  BY <1>3, <1>4, <1>6, <1>7, <1>8

\* Hearing a message leaves the stream in order.
LEMMA HeardCarries ==
    ASSUME IInv, NEW s \in Streams, streams[s].wire # <<>>, streams[s].state # "closed", Heard(s)
    PROVE  Moves(s, Popped(streams[s])) /\ Carries(s, Popped(streams[s]))
<1> DEFINE g == streams[s]
           h == Popped(g)
<1>1. /\ TypeOK /\ Sessions /\ g \in StreamType /\ Tidy(g) /\ Pending(g, kept) /\ g.done \in Nat
      /\ Len(g.wire) \in Nat
  BY StreamTyped DEF IInv, Shares, KeptInTime
<1>2. /\ h \in StreamType /\ h.base = g.base /\ h.sent = g.sent /\ h.done = g.done
      /\ h.state = g.state /\ Len(h.wire) = Len(g.wire) - 1
      /\ \A i \in 1..Len(h.wire) : h.wire[i] = g.wire[i + 1]
  BY <1>1, PoppedFacts
<1>3. /\ Tidy(h)
      /\ \A k : Pending(g, k) => Pending(h, k)
      /\ \A last : Behind(g, last) => Behind(h, last)
  BY <1>1, PoppedInOrder
<1>4. streams' = [streams EXCEPT ![s] = h]
  BY DEF Heard, Popped
<1>5. Moves(s, h)
  BY ONLY <1>1, <1>2, <1>4, MovesFrom, s \in Streams DEF TypeOK
<1> HIDE DEF h
<1>6. ASSUME provider = "speechmatics", NEW i \in 1..Len(h.wire) PROVE h.wire[i].kind # "error"
  <2>1. i + 1 \in 1..Len(g.wire) /\ h.wire[i] = g.wire[i + 1]
    BY <1>1, <1>2
  <2> QED
    BY <1>1, <1>6, <2>1 DEF Sessions
<1> QED
  BY <1>1, <1>2, <1>3, <1>5, <1>6 DEF Carries, h

\* The words of two texts together are those of the one and of the other.
LEMMA JoinedText ==
    ASSUME NEW f \in Text, NEW r \in Text
    PROVE  /\ f \o r \in Text
           /\ \A n \in 1..Len(f \o r) : \/ n \in 1..Len(f) /\ (f \o r)[n] = f[n]
                                        \/ n - Len(f) \in 1..Len(r) /\ (f \o r)[n] = r[n - Len(f)]
<1>1. Len(f) \in Nat /\ Len(r) \in Nat
  BY LenProperties DEF Text
<1>2. /\ f \o r \in Text /\ Len(f \o r) = Len(f) + Len(r)
      /\ \A n \in 1..Len(f) + Len(r) : (f \o r)[n] = IF n <= Len(f) THEN f[n] ELSE r[n - Len(f)]
  BY ConcatProperties DEF Text
<1>3. ASSUME NEW n \in 1..Len(f \o r)
      PROVE  \/ n \in 1..Len(f) /\ (f \o r)[n] = f[n]
             \/ n - Len(f) \in 1..Len(r) /\ (f \o r)[n] = r[n - Len(f)]
  BY <1>1, <1>2
<1> QED
  BY <1>2, <1>3

\* A step that changes nothing but a stream.
LEMMA CarriedInv ==
    ASSUME IInv, NEW s \in Streams, NEW h, Moves(s, h), Carries(s, h),
           UNCHANGED <<provider, said, segs, session, router, conn, out, kept>>
    PROVE  IInv'
<1>1. /\ TypeOK /\ Shares /\ Phases /\ Sessions /\ KeptInTime /\ Collected /\ Published
      /\ Forward /\ TranslatedOnce
  BY DEF IInv
<1>2. Len(streams') = Len(streams) /\ Streams' = Streams
  BY DEF Moves, Streams
<1>3. TypeOK'
  BY <1>1, <1>2 DEF TypeOK, Moves
<1>4. Shares' /\ Sessions' /\ KeptInTime' /\ Forward'
  BY <1>1, CarriedShares, CarriedSessions, CarriedKept, CarriedForward
<1>5. Phases'
  BY <1>1, <1>2 DEF Phases
<1>6. Collected' /\ Published' /\ TranslatedOnce'
  BY <1>1 DEF Collected, Published, TranslatedOnce
<1> QED
  BY <1>3, <1>4, <1>5, <1>6 DEF IInv

LEMMA ProviderStep == ASSUME IInv, NEW s \in Streams, Provider(s) PROVE IInv'
BY ProviderCarries, CarriedInv

\* What no listener and no provider changes.
LEMMA HeardPhases ==
    ASSUME Phases, provider' = provider, segs' = segs, session' = session, router' = router,
           Len(streams') = Len(streams), conn # None, conn' # None,
           conn'.seg = conn.seg, conn'.of = conn.of, conn'.first = conn.first
    PROVE  Phases'
BY DEF Phases

LEMMA PartialStep == ASSUME IInv, NEW s \in Streams, HandlePartial(s) PROVE IInv'
<1> DEFINE g == streams[s]
           h == Popped(g)
           text == PartialText(s)
<1>1. /\ Takes(s, "partial") /\ Heard(s)
      /\ UNCHANGED <<provider, said, segs, session, router, kept>>
  BY DEF HandlePartial
<1>2. /\ TypeOK /\ Shares /\ Phases /\ Sessions /\ KeptInTime /\ Collected /\ Published
      /\ Forward /\ TranslatedOnce
  BY DEF IInv
<1>3. /\ g.wire # <<>> /\ g.state # "closed" /\ conn # None /\ conn \in Connections
      /\ conn.seg = segs /\ conn.of \in Streams
  BY <1>1, TakenFacts
<1>4. /\ First(s).from \in Words /\ First(s).to \in Words /\ First(s).from <= First(s).to
      /\ \A w \in Words : First(s).from <= w /\ w <= First(s).to => kept[w] = 0
  BY <1>1, TakenWords
<1>5. /\ text \in Text
      /\ \A n \in 1..Len(text) : kept[text[n]] = 0
  <2>1. /\ text \in Text
        /\ \A n \in 1..Len(text) : text[n] = First(s).from + n - 1 /\ First(s).from + n - 1 <= First(s).to
    BY <1>4, RunFacts DEF PartialText
  <2>2. \A n \in 1..Len(text) : text[n] \in Words
    BY <2>1, ElementOfSeq DEF Text
  <2>3. \A n \in 1..Len(text) : First(s).from <= text[n] /\ text[n] <= First(s).to
    BY <1>4, <2>1 DEF Words
  <2> QED
    BY <1>4, <2>1, <2>2, <2>3
<1>6. Moves(s, h) /\ Carries(s, h)
  BY <1>1, <1>3, HeardCarries
<1> HIDE DEF text, h
<1>7. PICK t \in Text :
        /\ \A n \in 1..Len(t) : kept[t[n]] \in {0, segs}
        /\ \/ t = conn.accum /\ conn' = conn /\ out' = out
           \/ /\ conn' = [conn EXCEPT !.accum = t]
              /\ out' = IF session # "none" THEN [kind |-> "partial", seg |-> segs, text |-> t] ELSE out
  <2>1. CASE UNCHANGED <<conn, out>>
    BY <1>2, <1>3, <2>1 DEF Collected, Connections
  <2>2. CASE /\ conn' = [conn EXCEPT !.accum = conn.final \o text]
             /\ Publish("partial", conn.final \o text)
    <3> DEFINE t == conn.final \o text
    <3>1. /\ t \in Text
          /\ \A n \in 1..Len(t) : \/ n \in 1..Len(conn.final) /\ t[n] = conn.final[n]
                                  \/ n - Len(conn.final) \in 1..Len(text) /\ t[n] = text[n - Len(conn.final)]
      BY <1>3, <1>5, JoinedText DEF Connections
    <3>2. \A n \in 1..Len(t) : kept[t[n]] \in {0, segs}
      BY <1>2, <1>3, <1>5, <3>1 DEF Collected
    <3> QED
      BY <2>2, <3>1, <3>2 DEF Publish
  <2>3. CASE conn' = [conn EXCEPT !.accum = text] /\ Publish("partial", text)
    BY <1>5, <2>3 DEF Publish
  <2> QED
    BY <2>1, <2>2, <2>3 DEF HandlePartial, text
<1>8. /\ conn' \in Connections /\ conn' # None /\ conn'.accum = t /\ conn'.final = conn.final
      /\ conn'.of = conn.of /\ conn'.first = conn.first /\ conn'.seg = conn.seg
      /\ conn'.last = conn.last
  <2>1. CASE t = conn.accum /\ conn' = conn
    BY <1>3, <2>1
  <2>2. CASE conn' = [conn EXCEPT !.accum = t]
    <3>1. /\ conn' \in Connections /\ conn'.accum = t /\ conn'.final = conn.final
          /\ conn'.of = conn.of /\ conn'.first = conn.first /\ conn'.seg = conn.seg
          /\ conn'.last = conn.last
      BY ONLY <1>3, <2>2, t \in Text DEF Connections
    <3> QED
      BY <3>1, StreamTextAssumption
  <2> QED
    BY <1>7, <2>1, <2>2
<1>9. TypeOK'
  <2>1. out' \in [kind : {"none", "partial", "final"}, seg : 0..MaxSegments, text : Text]
    BY <1>2, <1>7 DEF TypeOK
  <2>2. streams' \in Seq(StreamType) /\ Streams' = Streams
    BY <1>6 DEF Moves, Streams
  <2> QED
    BY <1>1, <1>2, <1>3, <1>8, <2>1, <2>2 DEF TypeOK
<1>10. Shares' /\ Sessions' /\ KeptInTime' /\ Forward'
  BY <1>1, <1>2, <1>3, <1>6, <1>8, CarriedShares, CarriedSessions, CarriedKept, CarriedForward
<1>11. Phases'
  BY <1>1, <1>2, <1>3, <1>6, <1>8, HeardPhases DEF Moves
<1>12. Collected'
  BY <1>1, <1>2, <1>3, <1>7, <1>8 DEF Collected
<1>13. Published'
  BY <1>1, <1>2, <1>3, <1>7, <1>8 DEF Published, TypeOK
<1>14. TranslatedOnce'
  BY <1>1, <1>2, <1>7 DEF TranslatedOnce
<1> QED
  BY <1>9, <1>10, <1>11, <1>12, <1>13, <1>14 DEF IInv
-----------------------------------------------------------------------------
\* The words of a final are kept for the segment of the connection, the others
\* as they were.
LEMMA ConfirmedFacts ==
    ASSUME IInv, NEW s \in Streams, Takes(s, "final"), Confirm(Run(First(s).from, First(s).to))
    PROVE  /\ kept' \in [Words -> 0..MaxSegments]
           /\ \A w \in Words : kept'[w] = IF First(s).from <= w /\ w <= First(s).to
                                          THEN segs ELSE kept[w]
<1>1. First(s).from \in Words /\ First(s).to \in Words /\ First(s).from <= First(s).to
  BY TakenWords
<1>2. \A w \in Words : (\E n \in 1..Len(Run(First(s).from, First(s).to)) :
                           Run(First(s).from, First(s).to)[n] = w)
                       <=> First(s).from <= w /\ w <= First(s).to
  BY <1>1, RunFacts
<1>3. conn.seg = segs /\ segs \in 0..MaxSegments /\ kept \in [Words -> 0..MaxSegments]
  BY TakenFacts DEF IInv, TypeOK
<1>4. kept' = [w \in Words |-> IF First(s).from <= w /\ w <= First(s).to THEN segs ELSE kept[w]]
  BY <1>2, <1>3 DEF Confirm
<1> QED
  BY <1>3, <1>4

\* They had been confirmed by the provider, and nothing on its way speaks of them.
LEMMA ConfirmedKept ==
    ASSUME IInv, NEW s \in Streams, Takes(s, "final"), Heard(s),
           Confirm(Run(First(s).from, First(s).to)), segs' = segs
    PROVE  KeptInTime'
<1> DEFINE g == streams[s]
           h == Popped(g)
           m == First(s)
<1>1. TypeOK /\ Shares /\ KeptInTime /\ Tidy(g) /\ Pending(g, kept)
  BY DEF IInv, Shares, KeptInTime
<1>2. /\ m.from \in Words /\ m.to \in Words /\ m.from <= m.to /\ g.base < m.from
      /\ m.to <= g.sent /\ m.to <= g.done
  BY TakenWords
<1>3. /\ g.wire # <<>> /\ g.state # "closed" /\ m = g.wire[1] /\ m.kind = "final"
      /\ Len(g.wire) > 0
  BY TakenFacts
<1>4. /\ g \in StreamType /\ Len(g.wire) \in Nat /\ g.base \in Nat /\ g.done \in Nat /\ g.sent \in Nat
  BY <1>1, StreamTyped
<1>5. \A w \in Words : kept'[w] = IF m.from <= w /\ w <= m.to THEN segs ELSE kept[w]
  BY ConfirmedFacts
<1>6. Moves(s, h) /\ Streams' = Streams
  BY <1>3, HeardCarries DEF Moves, Streams
<1>7. /\ h.base = g.base /\ h.sent = g.sent /\ h.done = g.done /\ Len(h.wire) = Len(g.wire) - 1
      /\ \A i \in 1..Len(h.wire) : h.wire[i] = g.wire[i + 1]
  BY <1>3, <1>4, PoppedFacts
<1> HIDE DEF h
<1>8. ASSUME NEW w \in Words
      PROVE  /\ kept'[w] <= segs'
             /\ kept'[w] # 0 =>
                  \E t \in Streams : streams'[t].base < w /\ w <= streams'[t].done
  <2>1. segs \in Nat /\ segs <= segs /\ kept[w] <= segs
    BY <1>1, StreamTextAssumption DEF TypeOK, KeptInTime
  <2>2. \A t \in Streams : streams'[t].base = streams[t].base /\ streams'[t].done = streams[t].done
    BY <1>6, <1>7 DEF Moves
  <2>3. CASE m.from <= w /\ w <= m.to
    <3>1. g.base < w /\ w <= g.done
      BY <1>2, <1>4, <2>3 DEF Words
    <3> QED
      BY <1>5, <2>1, <2>2, <2>3, <3>1
  <2>4. CASE ~(m.from <= w /\ w <= m.to)
    BY <1>1, <1>5, <2>1, <2>2, <2>4 DEF KeptInTime
  <2> QED
    BY <2>3, <2>4
<1>9. Pending(h, kept')
  <2> SUFFICES ASSUME NEW i \in 1..Len(h.wire), NEW w \in Words,
                      h.wire[i].kind # "error", h.wire[i].from <= w, w <= h.sent
               PROVE  kept'[w] = 0
    BY DEF Pending
  <2>1. i + 1 \in 1..Len(g.wire) /\ i + 1 \in (1 + 1)..Len(g.wire) /\ h.wire[i] = g.wire[i + 1]
        /\ 1 \in 1..Len(g.wire)
    BY <1>3, <1>4, <1>7
  <2>2. kept[w] = 0
    BY <1>1, <1>7, <2>1 DEF Pending
  <2>3. m.to < g.wire[i + 1].from
    BY <1>1, <1>3, <2>1 DEF Tidy
  <2>4. g.wire[i + 1].from \in Nat
    BY <1>1, <2>1, MessageTyped
  <2>5. ~(w <= m.to)
    BY <1>2, <2>1, <2>3, <2>4 DEF Words
  <2> QED
    BY <1>5, <2>2, <2>5
<1>10. ASSUME NEW t \in Streams, t # s PROVE Pending(streams[t], kept')
  <2> SUFFICES ASSUME NEW i \in 1..Len(streams[t].wire), NEW w \in Words,
                      streams[t].wire[i].kind # "error", streams[t].wire[i].from <= w,
                      w <= streams[t].sent
               PROVE  kept'[w] = 0
    BY DEF Pending
  <2>1. kept[w] = 0
    BY <1>1 DEF KeptInTime, Pending
  <2>2. /\ streams[t].base \in Nat /\ streams[t].sent \in Nat
        /\ streams[t].wire[i].from \in Nat
    BY <1>1, StreamTyped, MessageTyped
  <2>3. streams[t].base < streams[t].wire[i].from
    BY <1>1 DEF Shares, Tidy
  <2>4. streams[t].sent <= g.base \/ g.sent <= streams[t].base
    BY <1>1, <1>10 DEF Shares, Streams
  <2>5. w \in Nat /\ m.from \in Nat /\ m.to \in Nat
    BY <1>2 DEF Words
  <2>6. streams[t].base < w /\ w <= streams[t].sent
    BY <2>2, <2>3, <2>5
  <2>7. ~(m.from <= w /\ w <= m.to)
    <3>1. CASE streams[t].sent <= g.base
      BY <1>2, <1>4, <2>2, <2>5, <2>6, <3>1
    <3>2. CASE g.sent <= streams[t].base
      BY <1>2, <1>4, <2>2, <2>5, <2>6, <3>2
    <3> QED
      BY <2>4, <3>1, <3>2
  <2> QED
    BY <1>5, <2>1, <2>7
<1> QED
  BY <1>6, <1>8, <1>9, <1>10 DEF KeptInTime, Moves

\* What was said and collected stays in the segment being spoken.
LEMMA ConfirmedText ==
    ASSUME IInv, NEW s \in Streams, Takes(s, "final"), Confirm(Run(First(s).from, First(s).to)),
           out' = out
    PROVE  /\ \A n \in 1..Len(conn.accum) : kept'[conn.accum[n]] \in {0, segs}
           /\ \A n \in 1..Len(conn.final) : kept'[conn.final[n]] \in {0, segs}
           /\ \A n \in 1..Len(Run(First(s).from, First(s).to)) :
                 kept'[Run(First(s).from, First(s).to)[n]] \in {0, segs}
           /\ Run(First(s).from, First(s).to) \in Text
           /\ TranslatedOnce'
<1> DEFINE r == Run(First(s).from, First(s).to)
<1>1. \A w \in Words : kept'[w] = IF First(s).from <= w /\ w <= First(s).to
                                  THEN segs ELSE kept[w]
  BY ConfirmedFacts
<1>2. /\ TypeOK /\ Collected /\ TranslatedOnce /\ Published /\ conn # None
      /\ conn.accum \in Text /\ conn.final \in Text /\ out.text \in Text
  BY TakenFacts DEF IInv, TypeOK, Connections
<1>3. ASSUME NEW a \in Text, NEW n \in 1..Len(a) PROVE a[n] \in Words
  BY <1>3, ElementOfSeq DEF Text
<1>4. r \in Text /\ \A w \in Words : (\E n \in 1..Len(r) : r[n] = w)
                                     <=> First(s).from <= w /\ w <= First(s).to
  BY TakenWords, RunFacts
<1> HIDE DEF r
<1>5. \A n \in 1..Len(r) : kept'[r[n]] \in {0, segs}
  BY <1>1, <1>3, <1>4
<1>6. /\ \A n \in 1..Len(conn.accum) : kept'[conn.accum[n]] \in {0, segs}
      /\ \A n \in 1..Len(conn.final) : kept'[conn.final[n]] \in {0, segs}
  BY <1>1, <1>2, <1>3 DEF Collected
<1>7. TranslatedOnce'
  <2> SUFFICES ASSUME out.kind = "final", NEW n \in 1..Len(out.text)
               PROVE  kept'[out.text[n]] = 0 \/ kept'[out.text[n]] >= out.seg
    BY DEF TranslatedOnce
  <2>1. out.seg \in Nat /\ segs \in Nat /\ out.seg <= segs
    BY <1>2, StreamTextAssumption DEF TypeOK, Published
  <2>2. out.text[n] \in Words /\ (kept[out.text[n]] = 0 \/ kept[out.text[n]] >= out.seg)
    BY <1>2, <1>3 DEF TranslatedOnce
  <2> QED
    BY <1>1, <2>1, <2>2
<1> QED
  BY <1>4, <1>5, <1>6, <1>7 DEF r

\* What a final leaves of a stream lies behind its end.
LEMMA FinalBehind ==
    ASSUME IInv, NEW s \in Streams, Takes(s, "final")
    PROVE  /\ End(s, First(s)) \in Nat
           /\ Behind(Popped(streams[s]), End(s, First(s)))
<1> DEFINE g == streams[s]
           h == Popped(g)
           m == First(s)
<1>1. TypeOK /\ Tidy(g)
  BY DEF IInv, Shares
<1>2. g \in StreamType /\ Len(g.wire) \in Nat /\ g.base \in Nat /\ g.done \in Nat
  BY <1>1, StreamTyped
<1>3. g.wire # <<>> /\ m = g.wire[1] /\ m.kind = "final" /\ Len(g.wire) > 0
  BY TakenFacts
<1>4. m.from \in Nat /\ m.to \in Nat /\ m.from <= m.to /\ g.base < m.from /\ m.to <= g.done
  BY TakenWords DEF Words
<1>5. /\ h.base = g.base /\ h.done = g.done /\ Len(h.wire) = Len(g.wire) - 1
      /\ \A i \in 1..Len(h.wire) : h.wire[i] = g.wire[i + 1]
  BY <1>2, <1>3, PoppedFacts
<1> HIDE DEF h
<1>6. End(s, m) = 2 * (m.to - g.base) /\ End(s, m) \in Nat /\ End(s, m) <= 2 * (h.done - h.base)
  BY <1>2, <1>4, <1>5 DEF End
<1>7. ASSUME NEW i \in 1..Len(h.wire), h.wire[i].kind # "error"
      PROVE  End(s, m) <= 2 * (h.wire[i].from - 1 - h.base)
  <2>1. i + 1 \in (1 + 1)..Len(g.wire) /\ h.wire[i] = g.wire[i + 1]
        /\ 1 \in 1..Len(g.wire) /\ i + 1 \in 1..Len(g.wire)
    BY <1>2, <1>3, <1>5
  <2>2. m.to < g.wire[i + 1].from
    BY <1>1, <1>3, <1>7, <2>1 DEF Tidy
  <2>3. g.wire[i + 1].from \in Nat
    BY <1>1, <2>1, MessageTyped
  <2>4. \A a, b, c \in Nat : a < b => 2 * (a - c) <= 2 * (b - 1 - c)
    OBVIOUS
  <2>5. 2 * (m.to - g.base) <= 2 * (g.wire[i + 1].from - 1 - g.base)
    BY <1>2, <1>4, <2>2, <2>3, <2>4
  <2> QED
    BY <1>5, <1>6, <2>1, <2>5
<1> QED
  BY <1>6, <1>7 DEF Behind, h

LEMMA FinalStep == ASSUME IInv, NEW s \in Streams, HandleFinal(s) PROVE IInv'
<1> DEFINE g == streams[s]
           h == Popped(g)
           r == Run(First(s).from, First(s).to)
           e == End(s, First(s))
<1>1. /\ Takes(s, "final") /\ Heard(s) /\ provider = "speechmatics"
      /\ UNCHANGED <<provider, said, segs, session, router, out>>
  BY DEF HandleFinal
<1>2. /\ TypeOK /\ Shares /\ Phases /\ Sessions /\ KeptInTime /\ Collected /\ Published
      /\ Forward /\ TranslatedOnce
  BY DEF IInv
<1>3. /\ g.wire # <<>> /\ g.state # "closed" /\ conn # None /\ conn \in Connections
      /\ conn.seg = segs /\ conn.of \in Streams /\ conn.of = Len(streams) /\ Len(streams) \in Nat
  BY <1>1, <1>2, TakenFacts, StreamTyped
<1>4. Moves(s, h) /\ Carries(s, h) /\ Streams' = Streams
  BY <1>1, <1>3, HeardCarries DEF Moves, Streams
<1>5. e \in Nat /\ Behind(h, e)
  BY <1>1, FinalBehind
<1> HIDE DEF r, e, h
<1>6. CASE UNCHANGED <<conn, kept>>
  BY <1>1, <1>4, <1>6, CarriedInv
<1>7. CASE /\ conn' = [conn EXCEPT !.last = e, !.ended = FALSE, !.final = @ \o r]
           /\ Confirm(r)
  <2>1. /\ r \in Text /\ TranslatedOnce'
        /\ \A n \in 1..Len(conn.accum) : kept'[conn.accum[n]] \in {0, segs}
        /\ \A n \in 1..Len(conn.final) : kept'[conn.final[n]] \in {0, segs}
        /\ \A n \in 1..Len(r) : kept'[r[n]] \in {0, segs}
    BY <1>1, <1>7, ConfirmedText DEF r
  <2> DEFINE f == conn.final \o r
  <2>2. /\ f \in Text
        /\ \A n \in 1..Len(f) : \/ n \in 1..Len(conn.final) /\ f[n] = conn.final[n]
                                \/ n - Len(conn.final) \in 1..Len(r) /\ f[n] = r[n - Len(conn.final)]
    BY <1>3, <2>1, JoinedText DEF Connections
  <2>3. conn' = [conn EXCEPT !.last = e, !.ended = FALSE, !.final = f]
    BY <1>3, <1>7 DEF Connections
  <2>4. \A n \in 1..Len(f) : kept'[f[n]] \in {0, segs}
    BY <2>1, <2>2
  <2> HIDE DEF f
  <2>5. /\ conn' \in Connections /\ conn'.final = f /\ conn'.accum = conn.accum /\ conn'.last = e
        /\ conn'.of = conn.of /\ conn'.first = conn.first /\ conn'.seg = conn.seg
    <3>1. conn \in Connections /\ e \in Nat /\ f \in Text
      BY <1>3, <1>5, <2>2
    <3> QED
      BY ONLY <2>3, <3>1 DEF Connections
  <2>6. conn' # None /\ kept' \in [Words -> 0..MaxSegments]
    BY <1>1, <1>7, <2>5, StreamTextAssumption, ConfirmedFacts DEF r
  <2>7. TypeOK'
    BY <1>1, <1>2, <1>3, <1>4, <2>5, <2>6 DEF TypeOK, Moves
  <2>8. Shares' /\ Sessions'
    BY <1>1, <1>2, <1>3, <1>4, <2>5, <2>6, CarriedShares, CarriedSessions
  <2>9. KeptInTime'
    BY <1>1, <1>7, ConfirmedKept DEF r
  <2>10. Phases'
    BY <1>1, <1>2, <1>3, <1>4, <2>5, <2>6, HeardPhases DEF Moves
  <2>11. Collected'
    BY <1>1, <2>1, <2>4, <2>5 DEF Collected
  <2>12. Published'
    BY <1>1, <1>2, <1>3, <2>5 DEF Published
  <2>13. Forward'
    <3> SUFFICES ASSUME conn.of = conn.first PROVE Behind(streams'[conn.of], e)
      BY <2>5 DEF Forward
    <3>1. conn.first = 1
      BY <1>1, <1>2, <1>3 DEF Phases
    <3>2. Len(streams) = 1 /\ s \in 1..Len(streams)
      BY <1>3, <3>1 DEF Streams
    <3>3. s = conn.of
      BY <1>3, <3>2
    <3> QED
      BY <1>4, <1>5, <3>3 DEF Moves
  <2> QED
    BY <2>1, <2>7, <2>8, <2>9, <2>10, <2>11, <2>12, <2>13 DEF IInv
<1> QED
  BY <1>6, <1>7 DEF HandleFinal, r, e

LEMMA GoogleFinalStep == ASSUME IInv, NEW s \in Streams, HandleGoogleFinal(s) PROVE IInv'
<1> DEFINE g == streams[s]
           h == Popped(g)
           r == Run(First(s).from, First(s).to)
<1>1. /\ Takes(s, "final") /\ Heard(s) /\ provider = "google_v2"
      /\ UNCHANGED <<provider, said, segs, session, router, out>>
      /\ conn' = [conn EXCEPT !.final = r, !.accum = r] /\ Confirm(r)
  BY DEF HandleGoogleFinal
<1>2. /\ TypeOK /\ Shares /\ Phases /\ Sessions /\ KeptInTime /\ Collected /\ Published
      /\ Forward /\ TranslatedOnce
  BY DEF IInv
<1>3. /\ g.wire # <<>> /\ g.state # "closed" /\ conn # None /\ conn \in Connections
      /\ conn.seg = segs /\ conn.of \in Streams
  BY <1>1, TakenFacts
<1>4. Moves(s, h) /\ Carries(s, h) /\ Streams' = Streams
  BY <1>1, <1>3, HeardCarries DEF Moves, Streams
<1>5. /\ r \in Text /\ TranslatedOnce' /\ \A n \in 1..Len(r) : kept'[r[n]] \in {0, segs}
  BY <1>1, ConfirmedText
<1>6. kept' \in [Words -> 0..MaxSegments] /\ KeptInTime'
  BY <1>1, ConfirmedFacts, ConfirmedKept
<1> HIDE DEF r, h
<1>7. /\ conn' \in Connections /\ conn'.final = r /\ conn'.accum = r /\ conn'.last = conn.last
      /\ conn'.of = conn.of /\ conn'.first = conn.first /\ conn'.seg = conn.seg
  <2>1. conn \in Connections /\ r \in Text /\ conn' = [conn EXCEPT !.final = r, !.accum = r]
    BY <1>1, <1>3, <1>5
  <2> QED
    BY ONLY <2>1 DEF Connections
<1>8. conn' # None
  BY <1>7, StreamTextAssumption
<1>9. TypeOK'
  BY <1>1, <1>2, <1>3, <1>4, <1>6, <1>7, <1>8 DEF TypeOK, Moves
<1>10. Shares' /\ Sessions' /\ Forward'
  BY <1>1, <1>2, <1>3, <1>4, <1>7, <1>8, CarriedShares, CarriedSessions, CarriedForward
<1>11. Phases'
  BY <1>1, <1>2, <1>3, <1>4, <1>7, <1>8, HeardPhases DEF Moves
<1>12. Collected'
  BY <1>1, <1>5, <1>7 DEF Collected
<1>13. Published'
  BY <1>1, <1>2 DEF Published
<1> QED
  BY <1>5, <1>6, <1>9, <1>10, <1>11, <1>12, <1>13 DEF IInv

\* An error closes the stream of the connection, the only one there was.
LEMMA ErrorStep == ASSUME IInv, NEW s \in Streams, HandleError(s) PROVE IInv'
<1> DEFINE g == streams[s]
           h == [g EXCEPT !.wire = <<>>, !.state = "closed"]
<1>1. /\ Takes(s, "error")
      /\ UNCHANGED <<provider, said, segs, router, out, kept>>
  BY DEF HandleError
<1>2. /\ TypeOK /\ Shares /\ Phases /\ Sessions /\ KeptInTime /\ Collected /\ Published
      /\ Forward /\ TranslatedOnce
  BY DEF IInv
<1>3. /\ g.wire # <<>> /\ g.state # "closed" /\ conn # None /\ provider = "google_v2"
      /\ segs > 0 /\ segs \in Nat
  BY <1>1, <1>2, TakenFacts, StreamTextAssumption DEF TypeOK
<1>4. CASE Heard(s) /\ UNCHANGED <<conn, session>>
  BY <1>1, <1>3, <1>4, HeardCarries, CarriedInv
<1>5. CASE streams' = Closed(s) /\ conn' = None /\ session' = "batch"
  <2>1. g \in StreamType /\ Tidy(g)
    BY <1>2, StreamTyped DEF Shares
  <2>2. /\ h \in StreamType /\ h.base = g.base /\ h.sent = g.sent /\ h.done = g.done
        /\ h.got = g.got /\ h.wire = <<>> /\ h.state = "closed"
    <3>1. PICK e \in Seq(Message) : e = <<>>
      BY EmptySeq
    <3>2. h = [g EXCEPT !.wire = e, !.state = "closed"]
      BY <3>1
    <3>3. h \in StreamType /\ h.wire = e
      BY <2>1, <3>2 DEF StreamType, Message
    <3> QED
      BY <2>1, <3>1, <3>2, <3>3 DEF StreamType
  <2>3. streams' = [streams EXCEPT ![s] = h]
    BY <1>5 DEF Closed
  <2> HIDE DEF h
  <2>4. Moves(s, h) /\ Streams' = Streams
    BY <1>2, <2>2, <2>3, MovesFrom DEF TypeOK, Moves, Streams
  <2>5. Tidy(h) /\ Pending(h, kept)
    BY <2>1, <2>2 DEF Tidy, Pending
  <2>6. TypeOK'
    BY <1>1, <1>2, <1>5, <2>4 DEF TypeOK, Moves
  <2>7. Shares'
    BY <1>1, <1>2, <2>2, <2>4, <2>5 DEF Shares, Moves
  <2>8. Phases'
    BY <1>1, <1>2, <1>3, <1>5 DEF Phases
  <2>9. Sessions'
    BY <1>1, <1>2, <1>3, <1>5, <2>2, <2>4 DEF Sessions, Moves
  <2>10. KeptInTime'
    <3>1. \A t \in Streams : /\ streams'[t].base = streams[t].base
                             /\ streams'[t].done = streams[t].done
                             /\ Pending(streams'[t], kept)
      BY <1>2, <2>2, <2>4, <2>5 DEF Moves, KeptInTime
    <3> QED
      BY <1>1, <1>2, <2>4, <3>1 DEF KeptInTime
  <2>11. Collected' /\ Published' /\ Forward' /\ TranslatedOnce'
    BY <1>1, <1>2, <1>5 DEF Collected, Published, Forward, TranslatedOnce
  <2> QED
    BY <2>6, <2>7, <2>8, <2>9, <2>10, <2>11 DEF IInv
<1> QED
  BY <1>4, <1>5 DEF HandleError
-----------------------------------------------------------------------------
\* What the start and the end of a segment make of a connection.
LEMMA ResetFacts ==
    ASSUME NEW c \in Connections, NEW n \in Nat
    PROVE  /\ Reset(c, n) \in Connections /\ Reset(c, n) # None
           /\ Reset(c, n).accum = <<>> /\ Reset(c, n).final = <<>> /\ Reset(c, n).seg = n
           /\ Reset(c, n).of = c.of /\ Reset(c, n).first = c.first /\ Reset(c, n).last = c.last
<1> DEFINE p == IF c.prev # <<>> THEN c.prev ELSE IF c.accum # <<>> THEN c.accum ELSE c.final
<1>1. PICK e \in Text : e = <<>>
  BY EmptySeq DEF Text
<1>2. p \in Text
  BY DEF Connections
<1>3. Reset(c, n) = [c EXCEPT !.seg = n, !.prev = p, !.accum = e, !.final = e]
  BY <1>1 DEF Reset
<1> HIDE DEF p
<1>4. /\ Reset(c, n) \in Connections
      /\ Reset(c, n).accum = e /\ Reset(c, n).final = e /\ Reset(c, n).seg = n
      /\ Reset(c, n).of = c.of /\ Reset(c, n).first = c.first /\ Reset(c, n).last = c.last
  BY <1>2, <1>3 DEF Connections
<1> QED
  BY <1>1, <1>4, StreamTextAssumption

LEMMA CutFacts ==
    ASSUME NEW c \in Connections
    PROVE  /\ Cut(c) \in Connections /\ Cut(c) # None
           /\ Cut(c).accum = <<>> /\ Cut(c).final = <<>> /\ Cut(c).seg = c.seg
           /\ Cut(c).of = c.of /\ Cut(c).first = c.first /\ Cut(c).last = c.last
<1> DEFINE p == IF c.accum # <<>> THEN c.accum ELSE IF c.final # <<>> THEN c.final ELSE c.prev
           d == c.ended \/ c.last # None
<1>1. PICK e \in Text : e = <<>>
  BY EmptySeq DEF Text
<1>2. p \in Text /\ d \in BOOLEAN
  BY DEF Connections
<1>3. Cut(c) = [c EXCEPT !.prev = p, !.final = e, !.accum = e, !.ended = d]
  BY <1>1 DEF Cut
<1> HIDE DEF p, d
<1>4. /\ Cut(c) \in Connections
      /\ Cut(c).accum = e /\ Cut(c).final = e /\ Cut(c).seg = c.seg
      /\ Cut(c).of = c.of /\ Cut(c).first = c.first /\ Cut(c).last = c.last
  BY <1>2, <1>3 DEF Connections
<1> QED
  BY <1>1, <1>4, StreamTextAssumption

\* A new stream has the word that is being sent, which was sent to no other.
LEMMA OpensFacts ==
    ASSUME IInv, router \in {"connect", "send"}, streams' = Append(streams, NewStream),
           router' \in {"connect", "send"}, UNCHANGED <<said, segs, kept>>
    PROVE  /\ Len(streams) \in Nat /\ Len(streams') = Len(streams) + 1
           /\ streams' \in Seq(StreamType) /\ Streams' = 1..(Len(streams) + 1)
           /\ \A t \in Streams : streams'[t] = streams[t]
           /\ streams'[Len(streams) + 1] = NewStream
           /\ Shares' /\ KeptInTime'
<1> DEFINE n == Len(streams) + 1
<1>1. TypeOK /\ Shares /\ KeptInTime
  BY DEF IInv
<1>2. /\ Len(streams) \in Nat /\ Len(said) \in Nat /\ Len(said) > 0
      /\ \A s \in Streams : streams[s].sent < Len(said)
  BY <1>1, LenProperties DEF TypeOK, Shares
<1>3. Len(said) - 1 \in Nat /\ <<>> \in Seq(Message) /\ Len(<<>>) = 0
  BY <1>2, EmptySeq
<1>4. NewStream \in StreamType
  BY <1>3 DEF NewStream, StreamType, Message
<1>5. /\ streams' \in Seq(StreamType) /\ Len(streams') = n
      /\ \A t \in 1..Len(streams) : streams'[t] = streams[t]
      /\ streams'[n] = NewStream
  BY <1>1, <1>4, AppendProperties DEF TypeOK
<1>6. Streams' = 1..n /\ \A t \in 1..n : t \in Streams \/ t = n
  BY <1>2, <1>5 DEF Streams
<1>7. Tidy(NewStream) /\ Pending(NewStream, kept)
  BY <1>3 DEF Tidy, Pending, NewStream
<1>8. NewStream.base = Len(said) - 1 /\ NewStream.sent = Len(said) - 1
  BY DEF NewStream
<1>9. Shares'
  <2>1. ASSUME NEW s \in Streams', NEW t \in Streams', s < t
        PROVE  streams'[s].sent <= streams'[t].base
    <3>1. s \in Streams
      BY <1>2, <1>6, <2>1 DEF Streams
    <3>2. streams[s].sent \in Nat
      BY <1>1, <3>1, StreamTyped
    <3>3. CASE t = n
      BY <1>2, <1>5, <1>8, <3>1, <3>2, <3>3 DEF Streams
    <3>4. CASE t \in Streams
      BY <1>1, <1>5, <2>1, <3>1, <3>4 DEF Shares, Streams
    <3> QED
      BY <1>6, <3>3, <3>4
  <2>2. ASSUME NEW s \in Streams'
        PROVE  /\ Tidy(streams'[s]) /\ streams'[s].sent <= Len(said')
               /\ streams'[s].sent < Len(said')
    <3>1. CASE s = n
      BY <1>2, <1>5, <1>7, <1>8, <3>1
    <3>2. CASE s \in Streams
      BY <1>1, <1>2, <1>5, <3>2 DEF Shares, Streams
    <3> QED
      BY <1>6, <3>1, <3>2
  <2> QED
    BY <1>2, <2>1, <2>2 DEF Shares
<1>10. KeptInTime'
  <2>1. \A s \in Streams' : Pending(streams'[s], kept')
    BY <1>1, <1>5, <1>6, <1>7 DEF KeptInTime, Streams
  <2>2. ASSUME NEW w \in Words, kept[w] # 0
        PROVE  \E s \in Streams' : streams'[s].base < w /\ w <= streams'[s].done
    <3>1. PICK s \in Streams : streams[s].base < w /\ w <= streams[s].done
      BY <1>1, <2>2 DEF KeptInTime
    <3>2. s \in Streams' /\ streams'[s] = streams[s]
      BY <1>2, <1>5, <1>6, <3>1 DEF Streams
    <3> QED
      BY <3>1, <3>2
  <2> QED
    BY <1>1, <2>1, <2>2 DEF KeptInTime
<1> QED
  BY <1>2, <1>5, <1>6, <1>9, <1>10 DEF Streams
-----------------------------------------------------------------------------
\* The steps of the router.
LEMMA SaysFacts ==
    ASSUME TypeOK, Shares, Says, segs' \in 1..MaxSegments, streams' = streams
    PROVE  /\ said' \in Seq(1..MaxSegments) /\ Len(said') <= MaxWords
           /\ Shares'
<1>1. /\ said \in Seq(1..MaxSegments) /\ Len(said) \in Nat /\ Len(said) < MaxWords
      /\ said' = Append(said, segs')
  BY LenProperties DEF TypeOK, Says
<1>2. said' \in Seq(1..MaxSegments) /\ Len(said') = Len(said) + 1
  BY <1>1, AppendProperties
<1>3. \A s \in Streams : streams[s].sent \in Nat /\ streams[s].sent <= Len(said)
  BY StreamTyped DEF Shares
<1>4. \A s \in Streams : streams[s].sent <= Len(said') /\ streams[s].sent < Len(said')
  BY <1>1, <1>2, <1>3
<1>5. Streams' = Streams
  BY DEF Streams
<1>6. Shares'
  BY <1>1, <1>2, <1>4, <1>5 DEF Shares
<1> QED
  BY <1>1, <1>2, <1>6, StreamTextAssumption

LEMMA FirstChunkStep == ASSUME IInv, FirstChunk PROVE IInv'
<1>1. /\ session = "none" /\ segs < MaxSegments /\ segs' = segs + 1 /\ Says /\ session' = "stream"
      /\ UNCHANGED <<provider, streams, out, kept>>
      /\ router = "idle"
  BY DEF FirstChunk, Says
<1>2. /\ TypeOK /\ Shares /\ Phases /\ Sessions /\ KeptInTime /\ Collected /\ Published
      /\ Forward /\ TranslatedOnce
  BY DEF IInv
<1>3. segs \in Nat /\ segs' \in Nat /\ segs' \in 1..MaxSegments /\ segs <= segs' /\ Streams' = Streams
  BY <1>1, <1>2, StreamTextAssumption DEF TypeOK, Streams
<1>4. said' \in Seq(1..MaxSegments) /\ Len(said') <= MaxWords /\ Shares'
  BY <1>1, <1>2, <1>3, SaysFacts
<1>5. \/ conn = None /\ conn' = None /\ router' = "connect"
      \/ /\ conn # None /\ conn' # None /\ conn' \in Connections /\ router' = "send"
         /\ conn'.accum = <<>> /\ conn'.final = <<>> /\ conn'.seg = segs'
         /\ conn'.of = conn.of /\ conn'.first = conn.first /\ conn'.last = conn.last
  <2>1. CASE conn = None
    BY <2>1 DEF FirstChunk
  <2>2. CASE conn # None
    <3>1. conn' = Reset(conn, segs') /\ router' = "send" /\ conn \in Connections
      BY <1>1, <1>2, <2>2 DEF FirstChunk, TypeOK
    <3> QED
      BY <1>3, <2>2, <3>1, ResetFacts
  <2> QED
    BY <2>1, <2>2
<1>6. TypeOK'
  BY <1>1, <1>2, <1>3, <1>4, <1>5, StreamTextAssumption DEF TypeOK
<1>7. Phases'
  BY <1>1, <1>2, <1>3, <1>5 DEF Phases
<1>8. Sessions' /\ Forward'
  BY <1>1, <1>2, <1>3, <1>5 DEF Sessions, Forward
<1>9. KeptInTime'
  <2>1. \A w \in Words : kept[w] \in Nat /\ kept[w] <= segs
    BY <1>2, StreamTextAssumption DEF TypeOK, KeptInTime
  <2>2. \A w \in Words : kept[w] <= segs'
    BY <1>1, <1>3, <2>1
  <2> QED
    BY <1>1, <1>2, <1>3, <2>2 DEF KeptInTime
<1>10. Collected'
  BY <1>5 DEF Collected
<1>11. Published' /\ TranslatedOnce'
  <2>1. out.seg \in Nat /\ out.seg <= segs
    BY <1>2, StreamTextAssumption DEF TypeOK, Published
  <2> QED
    BY <1>1, <1>2, <1>3, <1>5, <2>1 DEF Published, TranslatedOnce
<1> QED
  BY <1>4, <1>6, <1>7, <1>8, <1>9, <1>10, <1>11 DEF IInv

LEMMA NextChunkStep == ASSUME IInv, NextChunk PROVE IInv'
<1>1. /\ session # "none" /\ segs' = segs /\ Says /\ router = "idle"
      /\ router' = IF session = "stream" THEN "send" ELSE "idle"
      /\ UNCHANGED <<provider, session, conn, streams, out, kept>>
  BY DEF NextChunk, Says
<1>2. /\ TypeOK /\ Shares /\ Phases /\ Sessions /\ KeptInTime /\ Collected /\ Published
      /\ Forward /\ TranslatedOnce
  BY DEF IInv
<1>3. segs' \in 1..MaxSegments /\ Streams' = Streams
  BY <1>1, <1>2, StreamTextAssumption DEF TypeOK, Phases, Streams
<1>4. said' \in Seq(1..MaxSegments) /\ Len(said') <= MaxWords /\ Shares'
  BY <1>1, <1>2, <1>3, SaysFacts
<1>5. TypeOK'
  BY <1>1, <1>2, <1>3, <1>4 DEF TypeOK
<1>6. Phases'
  BY <1>1, <1>2 DEF Phases
<1>7. Sessions' /\ KeptInTime' /\ Collected' /\ Forward' /\ TranslatedOnce'
  BY <1>1, <1>2, <1>3 DEF Sessions, KeptInTime, Collected, Forward, TranslatedOnce
<1>8. Published'
  BY <1>1, <1>2 DEF Published
<1> QED
  BY <1>4, <1>5, <1>6, <1>7, <1>8 DEF IInv

LEMMA ConnectStep == ASSUME IInv, Connect PROVE IInv'
<1> DEFINE n == Len(streams) + 1
<1>1. /\ router = "connect" /\ router' = "send" /\ streams' = Append(streams, NewStream)
      /\ conn' = [of |-> n, first |-> n, seg |-> segs, final |-> <<>>, accum |-> <<>>,
                  prev |-> <<>>, last |-> None, ended |-> FALSE]
      /\ UNCHANGED <<provider, said, segs, session, out, kept>>
  BY DEF Connect
<1>2. /\ TypeOK /\ Shares /\ Phases /\ Sessions /\ KeptInTime /\ Collected /\ Published
      /\ Forward /\ TranslatedOnce
  BY DEF IInv
<1>3. conn = None /\ session = "stream" /\ segs > 0 /\ segs \in Nat
  BY <1>1, <1>2, StreamTextAssumption DEF Phases, TypeOK
<1>4. /\ Len(streams) \in Nat /\ Len(streams') = n /\ streams' \in Seq(StreamType)
      /\ Streams' = 1..n /\ Streams = 1..Len(streams)
      /\ \A t \in Streams : streams'[t] = streams[t]
      /\ streams'[n] = NewStream /\ Shares' /\ KeptInTime'
  BY <1>1, OpensFacts DEF Streams
<1>5. \A s \in Streams : streams[s].state = "closed"
  BY <1>2, <1>3 DEF Sessions
<1>6. provider = "speechmatics" => n = 1
  <2>1. provider = "speechmatics" => ~(1 \in Streams)
    BY <1>2, <1>5 DEF Sessions
  <2> QED
    BY <1>4, <2>1
<1>7. /\ conn' \in Connections /\ conn'.of = n /\ conn'.first = n /\ conn'.seg = segs
      /\ conn'.accum = <<>> /\ conn'.final = <<>> /\ conn'.last = None
  BY <1>1, <1>3, <1>4, EmptySeq DEF Connections, Text
<1> HIDE DEF n
<1>8. conn' # None /\ n \in Streams' /\ \A t \in Streams' : t \in Streams \/ t = n
  BY <1>4, <1>7, StreamTextAssumption DEF n
<1>9. TypeOK'
  BY <1>1, <1>2, <1>4, <1>7, <1>8 DEF TypeOK
<1>10. Phases'
  BY <1>1, <1>3, <1>4, <1>6, <1>7, <1>8, <1>2 DEF Phases, TypeOK
<1>11. Sessions'
  <2>1. NewStream.state = "open" /\ NewStream.wire = <<>> /\ Len(<<>>) = 0
    BY EmptySeq DEF NewStream
  <2>2. n \notin Streams
    BY <1>4 DEF n
  <2> QED
    BY <1>1, <1>2, <1>4, <1>5, <1>6, <1>7, <1>8, <2>1, <2>2 DEF Sessions
<1>12. Collected' /\ Forward'
  BY <1>7 DEF Collected, Forward
<1>13. Published' /\ TranslatedOnce'
  BY <1>1, <1>2, <1>7 DEF Published, TranslatedOnce
<1> QED
  BY <1>4, <1>9, <1>10, <1>11, <1>12, <1>13 DEF IInv

LEMMA SendStep == ASSUME IInv, Send PROVE IInv'
<1> DEFINE c == conn.of
           g == streams[c]
           got == IF provider = "google_v2" THEN g.got ELSE Len(said)
           h == [g EXCEPT !.sent = Len(said), !.got = got]
<1>1. /\ router = "send" /\ router' = "idle" /\ conn # None
      /\ streams' = [streams EXCEPT ![c].sent = Len(said),
                                    ![c].got = IF provider = "google_v2" THEN @ ELSE Len(said)]
      /\ UNCHANGED <<provider, said, segs, session, conn, out, kept>>
  BY DEF Send
<1>2. /\ TypeOK /\ Shares /\ Phases /\ Sessions /\ KeptInTime /\ Collected /\ Published
      /\ Forward /\ TranslatedOnce
  BY DEF IInv
<1>3. c \in Streams /\ c = Len(streams) /\ Len(said) \in Nat
  BY <1>1, <1>2, LenProperties DEF TypeOK, Phases
<1>4. /\ g \in StreamType /\ g.base \in Nat /\ g.sent \in Nat /\ g.got \in Nat /\ g.done \in Nat
      /\ g.sent < Len(said) /\ Tidy(g) /\ Pending(g, kept)
  BY <1>1, <1>2, <1>3, StreamTyped DEF Shares, KeptInTime
<1>5. got \in Nat /\ g.got <= got /\ got <= Len(said)
  BY <1>3, <1>4 DEF Tidy
<1>6. streams' = [streams EXCEPT ![c] = h]
  BY <1>1
<1> HIDE DEF got
<1>7. /\ h \in StreamType /\ h.base = g.base /\ h.done = g.done /\ h.state = g.state
      /\ h.wire = g.wire /\ h.sent = Len(said) /\ h.got = got
  BY <1>3, <1>4, <1>5 DEF StreamType
<1> HIDE DEF h
<1>8. Moves(c, h) /\ Streams' = Streams
  BY ONLY <1>2, <1>3, <1>6, <1>7, MovesFrom DEF TypeOK, Moves, Streams
<1>9. Tidy(h)
  <2>1. got <= h.sent
    BY <1>5, <1>7
  <2> QED
    BY ONLY <1>4, <1>5, <1>7, <2>1, SameOrder
<1>10. Pending(h, kept)
  <2> SUFFICES ASSUME NEW i \in 1..Len(g.wire), NEW w \in Words,
                      g.wire[i].kind # "error", g.wire[i].from <= w, kept[w] # 0
               PROVE  FALSE
    BY <1>7 DEF Pending
  <2>1. PICK t \in Streams : streams[t].base < w /\ w <= streams[t].done
    BY <1>2 DEF KeptInTime
  <2>2. /\ streams[t].done \in Nat /\ streams[t].got \in Nat /\ streams[t].sent \in Nat /\ w \in Nat
        /\ streams[t].done <= streams[t].sent
    <3>1. /\ streams[t].done \in Nat /\ streams[t].got \in Nat /\ streams[t].sent \in Nat
          /\ streams[t].done <= streams[t].got /\ streams[t].got <= streams[t].sent
      BY <1>2, <2>1, StreamTyped DEF Shares, Tidy
    <3> QED
      BY <3>1 DEF Words
  <2>3. streams[t].sent <= g.sent
    <3>1. t = c \/ t < c
      BY <1>3 DEF Streams
    <3>2. t < c => streams[t].sent <= g.base
      BY <1>2, <1>3 DEF Shares
    <3>3. g.base <= g.done /\ g.done <= g.got /\ g.got <= g.sent
      BY <1>4 DEF Tidy
    <3>4. g.base <= g.sent /\ g.sent <= g.sent
      BY ONLY <1>4, <3>3
    <3>5. \A a \in Nat : a <= g.base => a <= g.sent
      BY ONLY <1>4, <3>4
    <3> QED
      BY <2>2, <3>1, <3>2, <3>4, <3>5
  <2>4. w <= g.sent
    BY <1>4, <2>1, <2>2, <2>3
  <2> QED
    BY <1>4, <2>4 DEF Pending
<1>11. TypeOK'
  BY <1>1, <1>2, <1>8 DEF TypeOK, Moves
<1>12. Shares'
  <2>1. ASSUME NEW s \in Streams, NEW t \in Streams, s < t
        PROVE  streams'[s].sent <= streams'[t].base
    <3>1. s # c
      BY <1>3, <2>1 DEF Streams
    <3> QED
      BY <1>2, <1>7, <1>8, <2>1, <3>1 DEF Shares, Moves
  <2>2. ASSUME NEW t \in Streams
        PROVE  Tidy(streams'[t]) /\ streams'[t].sent <= Len(said)
    <3>1. Len(said) <= Len(said)
      BY <1>3
    <3> QED
      BY <1>2, <1>7, <1>8, <1>9, <3>1 DEF Shares, Moves
  <2> QED
    BY ONLY <1>1, <1>8, <2>1, <2>2 DEF Shares
<1>13. Phases'
  BY <1>1, <1>2, <1>8 DEF Phases, Moves
<1>14. Sessions'
  <2>1. \A t \in Streams : /\ streams'[t].state = streams[t].state
                           /\ streams'[t].wire = streams[t].wire
    BY <1>7, <1>8 DEF Moves
  <2>2. provider' = provider /\ conn' = conn /\ Streams' = Streams /\ Sessions
    BY <1>1, <1>2, <1>8
  <2>3. \A t \in Streams : streams'[t].state = "closed" => streams'[t].wire = <<>>
    BY <2>1, <2>2 DEF Sessions
  <2>4. conn # None
    BY <1>1
  <2>5. provider = "google_v2" =>
          \A t \in Streams : streams'[t].state # "closed" <=> t = conn.of
    BY <2>1, <2>2, <2>4 DEF Sessions
  <2>6. provider = "speechmatics" => \A t \in Streams :
          /\ streams'[t].state # "closed"
          /\ \A i \in 1..Len(streams'[t].wire) : streams'[t].wire[i].kind # "error"
    BY <2>1, <2>2 DEF Sessions
  <2> QED
    BY ONLY <2>2, <2>3, <2>4, <2>5, <2>6 DEF Sessions
<1>15. KeptInTime'
  <2>1. \A t \in Streams : /\ streams'[t].base = streams[t].base
                           /\ streams'[t].done = streams[t].done
                           /\ Pending(streams'[t], kept)
    BY <1>2, <1>7, <1>8, <1>10 DEF Moves, KeptInTime
  <2> QED
    BY <1>1, <1>2, <1>8, <2>1 DEF KeptInTime
<1>16. Forward'
  BY <1>1, <1>2, <1>3, <1>7, <1>8 DEF Forward, Moves, Behind
<1>17. Collected' /\ Published' /\ TranslatedOnce'
  BY <1>1, <1>2 DEF Collected, Published, TranslatedOnce
<1> QED
  BY <1>11, <1>12, <1>13, <1>14, <1>15, <1>16, <1>17 DEF IInv

LEMMA SendNowhereStep == ASSUME IInv, SendNowhere PROVE IInv'
<1>1. /\ TypeOK /\ Shares /\ Phases /\ Sessions /\ KeptInTime /\ Collected /\ Published
      /\ Forward /\ TranslatedOnce
  BY DEF IInv
<1>2. /\ router = "send" /\ router' = "idle" /\ conn = None /\ Streams' = Streams
      /\ UNCHANGED <<provider, said, segs, session, conn, streams, out, kept>>
  BY DEF SendNowhere, Streams
<1>3. TypeOK' /\ Shares' /\ Sessions' /\ KeptInTime'
  BY <1>1, <1>2 DEF TypeOK, Shares, Sessions, KeptInTime
<1>4. Phases'
  BY <1>1, <1>2 DEF Phases
<1>5. Collected' /\ Published' /\ Forward' /\ TranslatedOnce'
  BY <1>1, <1>2 DEF Collected, Published, Forward, TranslatedOnce
<1> QED
  BY <1>3, <1>4, <1>5 DEF IInv

\* Only the socket of Speechmatics is ever renewed.
LEMMA ReconnectStep == ASSUME IInv, Reconnect PROVE IInv'
<1> DEFINE n == Len(streams) + 1
<1>1. /\ router = "send" /\ router' = "send" /\ streams' = Append(streams, NewStream)
      /\ conn # None /\ conn' = [conn EXCEPT !.of = n]
      /\ UNCHANGED <<provider, said, segs, session, out, kept>>
  BY DEF Reconnect
<1>2. /\ TypeOK /\ Shares /\ Phases /\ Sessions /\ KeptInTime /\ Collected /\ Published
      /\ Forward /\ TranslatedOnce
  BY DEF IInv
<1>3. provider = "speechmatics"
  BY <1>2 DEF Reconnect, Alive, TypeOK
<1>4. /\ Len(streams) \in Nat /\ Len(streams') = n /\ streams' \in Seq(StreamType)
      /\ Streams' = 1..n /\ Streams = 1..Len(streams)
      /\ \A t \in Streams : streams'[t] = streams[t]
      /\ streams'[n] = NewStream /\ Shares' /\ KeptInTime'
  BY <1>1, OpensFacts DEF Streams
<1>5. conn \in Connections /\ conn.of \in 1..Len(streams) /\ conn.first = 1
  BY <1>1, <1>2, <1>3 DEF TypeOK, Phases, Streams
<1>6. /\ conn' \in Connections /\ conn'.of = n /\ conn'.first = conn.first /\ conn'.seg = conn.seg
      /\ conn'.accum = conn.accum /\ conn'.final = conn.final /\ conn'.last = conn.last
  <2>1. n \in Nat \ {0}
    BY <1>4
  <2> HIDE DEF n
  <2> QED
    BY <1>1, <1>5, <2>1 DEF Connections
<1>7. n # 1
  BY <1>4, <1>5
<1> HIDE DEF n
<1>8. conn' # None /\ n \in Streams' /\ \A t \in Streams' : t \in Streams \/ t = n
  BY <1>4, <1>6, StreamTextAssumption DEF n
<1>9. TypeOK'
  BY <1>1, <1>2, <1>4, <1>6, <1>8 DEF TypeOK
<1>10. Phases'
  BY <1>1, <1>2, <1>3, <1>4, <1>6, <1>8 DEF Phases
<1>11. Sessions'
  <2>1. NewStream.state = "open" /\ NewStream.wire = <<>> /\ Len(<<>>) = 0
    BY EmptySeq DEF NewStream
  <2> QED
    BY <1>1, <1>2, <1>3, <1>4, <1>8, <2>1 DEF Sessions
<1>12. Collected' /\ Forward'
  BY <1>1, <1>2, <1>5, <1>6, <1>7 DEF Collected, Forward
<1>13. Published' /\ TranslatedOnce'
  BY <1>1, <1>2, <1>6 DEF Published, TranslatedOnce
<1> QED
  BY <1>4, <1>9, <1>10, <1>11, <1>12, <1>13 DEF IInv

\* The words of the segment that ends are kept for none or for it.
LEMMA EndSegmentStep == ASSUME IInv, EndSegment PROVE IInv'
<1>1. /\ router = "idle" /\ session # "none" /\ router' = "ending" /\ Streams' = Streams
      /\ UNCHANGED <<provider, said, segs, session, conn, streams, kept>>
  BY DEF EndSegment, Streams
<1>2. /\ TypeOK /\ Shares /\ Phases /\ Sessions /\ KeptInTime /\ Collected /\ Published
      /\ Forward /\ TranslatedOnce
  BY DEF IInv
<1>3. \/ out' = out
      \/ conn # None /\ out' = [kind |-> "final", seg |-> segs, text |-> conn.accum]
  BY DEF EndSegment, FinalText
<1>4. segs \in Nat /\ segs \in 0..MaxSegments
  BY <1>2, StreamTextAssumption DEF TypeOK
<1>5. TypeOK'
  BY <1>1, <1>2, <1>3, <1>4 DEF TypeOK, Connections
<1>6. Shares' /\ Sessions' /\ KeptInTime' /\ Forward' /\ Collected'
  BY <1>1, <1>2 DEF Shares, Sessions, KeptInTime, Forward, Collected
<1>7. Phases'
  BY <1>1, <1>2 DEF Phases
<1>8. Published'
  BY <1>1, <1>2, <1>3, <1>4 DEF Published
<1>9. TranslatedOnce'
  BY <1>1, <1>2, <1>3, <1>4 DEF TranslatedOnce, Collected
<1> QED
  BY <1>5, <1>6, <1>7, <1>8, <1>9 DEF IInv

LEMMA CutTextStep == ASSUME IInv, CutText PROVE IInv'
<1>1. /\ router = "ending" /\ router' = "idle" /\ session' = "none" /\ Streams' = Streams
      /\ UNCHANGED <<provider, said, segs, streams, out, kept>>
  BY DEF CutText, Streams
<1>2. /\ TypeOK /\ Shares /\ Phases /\ Sessions /\ KeptInTime /\ Collected /\ Published
      /\ Forward /\ TranslatedOnce
  BY DEF IInv
<1>3. \/ conn = None /\ conn' = None
      \/ /\ conn # None /\ conn' # None /\ conn' \in Connections
         /\ conn'.accum = <<>> /\ conn'.final = <<>> /\ conn'.seg = conn.seg
         /\ conn'.of = conn.of /\ conn'.first = conn.first /\ conn'.last = conn.last
  BY <1>2, CutFacts DEF CutText, TypeOK
<1>4. TypeOK'
  BY <1>1, <1>2, <1>3 DEF TypeOK
<1>5. Shares' /\ KeptInTime' /\ TranslatedOnce'
  BY <1>1, <1>2 DEF Shares, KeptInTime, TranslatedOnce
<1>6. Sessions' /\ Forward'
  BY <1>1, <1>2, <1>3 DEF Sessions, Forward
<1>7. Phases'
  BY <1>1, <1>2, <1>3 DEF Phases
<1>8. Collected' /\ Published'
  BY <1>1, <1>2, <1>3, EmptySeq DEF Collected, Published
<1> QED
  BY <1>4, <1>5, <1>6, <1>7, <1>8 DEF IInv
-----------------------------------------------------------------------------
LEMMA InitIInv == Init => IInv
<1> SUFFICES ASSUME Init PROVE IInv
  OBVIOUS
<1>1. /\ said = <<>> /\ segs = 0 /\ session = "none" /\ router = "idle" /\ conn = None
      /\ streams = <<>> /\ out = [kind |-> "none", seg |-> 0, text |-> <<>>]
      /\ kept = [w \in Words |-> 0] /\ provider \in {"speechmatics", "google_v2"}
  BY DEF Init
<1>2. Streams = {} /\ 0 \in 0..MaxSegments /\ <<>> \in Text /\ <<>> \in Seq(StreamType)
      /\ <<>> \in Seq(1..MaxSegments) /\ Len(<<>>) = 0 /\ 0 <= MaxWords
  BY <1>1, EmptySeq, StreamTextAssumption DEF Streams, Text
<1>3. TypeOK
  BY <1>1, <1>2 DEF TypeOK
<1>4. Shares /\ Phases /\ Sessions /\ KeptInTime
  BY <1>1, <1>2 DEF Shares, Phases, Sessions, KeptInTime
<1>5. Collected /\ Published /\ Forward /\ TranslatedOnce
  BY <1>1, <1>2 DEF Collected, Published, Forward, TranslatedOnce
<1> QED
  BY <1>3, <1>4, <1>5 DEF IInv

LEMMA StutterStep == ASSUME IInv, UNCHANGED vars PROVE IInv'
BY DEF vars, IInv, TypeOK, Shares, Phases, Sessions, KeptInTime, Collected, Published, Forward,
       TranslatedOnce, Streams

\* What holds of the text, the streams and the connection holds in every state.
THEOREM InductiveInvariant == Spec => []IInv
<1>1. Init => IInv
  BY InitIInv
<1>2. ASSUME IInv, [Next]_vars PROVE IInv'
  <2>1. CASE Router
    BY <1>2, <2>1, FirstChunkStep, NextChunkStep, ConnectStep, SendStep, SendNowhereStep,
       ReconnectStep, EndSegmentStep, CutTextStep DEF Router
  <2>2. ASSUME NEW s \in Streams, Listener(s) PROVE IInv'
    BY <1>2, <2>2, PartialStep, FinalStep, GoogleFinalStep, ErrorStep DEF Listener
  <2>3. ASSUME NEW s \in Streams, Provider(s) PROVE IInv'
    BY <1>2, <2>3, ProviderStep
  <2>4. CASE UNCHANGED vars
    BY <1>2, <2>4, StutterStep
  <2> QED
    BY <1>2, <2>1, <2>2, <2>3, <2>4 DEF Next
<1> QED
  BY <1>1, <1>2, PTL DEF Spec

\* A word confirmed for a segment is not published with the final of a later one:
\* what a connection collects belongs to the segment being spoken, because a message
\* that was waiting speaks of words no final has confirmed.
THEOREM NoWordIsTranslatedTwice == Spec => []TranslatedOnce
BY InductiveInvariant, PTL DEF IInv

\* Google's client has a session exactly while the pool has its connection, so
\* create_session never closes one under its own lock.
THEOREM SessionOfTheConnection == Spec => []OneSession
<1>1. IInv => OneSession
  BY DEF IInv, Sessions, OneSession
<1> QED
  BY <1>1, InductiveInvariant, PTL

\* The final of a segment repeats the partial on show: whatever arrives between two
\* partials leaves the text collected as it was published.
THEOREM FinalSaysWhatWasShown == Spec => FinalIsLastShown
<1>1. ASSUME IInv, [Next]_vars, provider = "speechmatics", out'.kind = "final", out' # out
      PROVE  out = [out' EXCEPT !.kind = "partial"]
  <2>1. Next
    BY <1>1 DEF vars
  <2>2. CASE EndSegment
    <3>1. /\ conn # None /\ conn.accum # <<>> /\ session = "stream" /\ router = "idle"
          /\ out' = [kind |-> "final", seg |-> segs, text |-> conn.accum]
      BY <1>1, <2>2 DEF EndSegment, FinalText
    <3>2. out = [kind |-> "partial", seg |-> segs, text |-> conn.accum]
      BY <1>1, <3>1 DEF IInv, Published
    <3> QED
      BY <3>1, <3>2
  <2>3. ASSUME NEW s \in Streams, HandlePartial(s) PROVE out' = out \/ out'.kind = "partial"
    BY <2>3 DEF HandlePartial, Publish
  <2>4. CASE Router /\ ~EndSegment
    BY <1>1, <2>4 DEF Router, FirstChunk, NextChunk, Connect, Send, SendNowhere, Reconnect, CutText
  <2>5. ASSUME NEW s \in Streams, Listener(s) PROVE out' = out \/ out'.kind = "partial"
    BY <2>3, <2>5 DEF Listener, HandleFinal, HandleGoogleFinal, HandleError
  <2>6. ASSUME NEW s \in Streams, Provider(s) PROVE out' = out
    BY <1>1, <2>6, ProviderCarries
  <2> QED
    BY <1>1, <2>1, <2>2, <2>4, <2>5, <2>6 DEF Next
<1>2. IInv /\ [Next]_vars =>
        [provider = "speechmatics" /\ out'.kind = "final" /\ out' # out =>
            out = [out' EXCEPT !.kind = "partial"]]_out
  BY <1>1
<1> QED
  BY <1>2, InductiveInvariant, PTL DEF Spec, FinalIsLastShown
-----------------------------------------------------------------------------
\* Only the listener of a stream takes a message from it.
LEMMA OnlyHeard ==
    ASSUME IInv, Next, NEW s \in Streams, Blocks(s)
    PROVE  HandleFinal(s)
<1>1. /\ TypeOK /\ provider = "speechmatics" /\ Takes(s, "final")
      /\ Len(streams'[s].wire) < Len(streams[s].wire) /\ Len(streams[s].wire) \in Nat
  BY StreamTyped DEF IInv, Blocks
<1>2. SUFFICES ASSUME ~HandleFinal(s) PROVE Len(streams'[s].wire) >= Len(streams[s].wire)
  <2>1. Len(streams[s].wire) >= Len(streams[s].wire)
    BY <1>1
  <2> QED
    BY <1>1
<1>3. CASE streams' = streams
  BY <1>1, <1>3
<1>4. CASE Connect \/ Reconnect
  <2>1. streams' = Append(streams, NewStream) /\ UNCHANGED <<said, segs, kept>>
        /\ router \in {"connect", "send"} /\ router' \in {"connect", "send"}
    BY <1>4 DEF Connect, Reconnect
  <2>2. streams'[s] = streams[s]
    BY <2>1, OpensFacts
  <2> QED
    BY <1>1, <2>2
<1>5. CASE Send
  <2>1. streams'[s].wire = streams[s].wire
    BY <1>1, <1>5 DEF Send, TypeOK, Streams
  <2> QED
    BY <1>1, <2>1
<1>6. CASE Router
  BY <1>3, <1>4, <1>5, <1>6 DEF Router, FirstChunk, NextChunk, SendNowhere, EndSegment, CutText
<1>7. ASSUME NEW t \in Streams, Listener(t) PROVE Len(streams'[s].wire) >= Len(streams[s].wire)
  <2>1. ~HandleGoogleFinal(t) /\ ~HandleError(t)
    BY <1>1, TakenFacts DEF HandleGoogleFinal, HandleError
  <2>2. t # s /\ Heard(t) /\ (Takes(t, "partial") \/ Takes(t, "final"))
    BY <1>1, <1>2, <1>7, <2>1 DEF Listener, HandlePartial, HandleFinal, Takes
  <2>3. streams'[s] = streams[s]
    BY <2>2, TakenFacts, HeardCarries DEF Moves
  <2> QED
    BY <1>1, <2>3
<1>8. ASSUME NEW t \in Streams, Provider(t) PROVE Len(streams'[s].wire) >= Len(streams[s].wire)
  <2>1. PICK h : Moves(t, h) /\ Len(streams[t].wire) <= Len(h.wire)
    BY <1>8, ProviderCarries
  <2>2. streams'[s] = IF s = t THEN h ELSE streams[s]
    BY <2>1 DEF Moves
  <2>3. Len(h.wire) \in Nat
    BY <2>1, LenProperties DEF Moves, StreamType
  <2>4. CASE s = t
    BY <1>1, <2>1, <2>2, <2>3, <2>4
  <2>5. CASE s # t
    BY <1>1, <2>2, <2>5
  <2> QED
    BY <2>4, <2>5
<1> QED
  BY <1>6, <1>7, <1>8 DEF Next

\* A transcript is blocked for the time of its words alone: on the first socket, time
\* goes forward, and one that begins after the last is not late by any threshold.
THEOREM WhyATranscriptIsBlocked == Spec => BlockedHasACause
<1>1. ASSUME IInv, Next, NEW s \in Streams, Blocks(s), First(s).gap # 0, conn.of = conn.first
      PROVE  FALSE
  <2> DEFINE g == streams[s]
             m == First(s)
  <2>1. HandleFinal(s) /\ Takes(s, "final") /\ kept' = kept /\ provider = "speechmatics"
    BY <1>1, OnlyHeard DEF Blocks
  <2>2. /\ m = g.wire[1] /\ m \in Message /\ m.kind = "final" /\ Len(g.wire) > 0
        /\ conn # None /\ conn \in Connections /\ segs > 0 /\ conn.of = Len(streams)
        /\ Len(streams) \in Nat /\ Len(g.wire) \in Nat /\ g.base \in Nat
    BY <1>1, <2>1, TakenFacts, StreamTyped DEF IInv
  <2>3. /\ m.from \in Words /\ m.to \in Words /\ m.from <= m.to
        /\ m.from \in Nat /\ m.to \in Nat /\ kept[m.from] = 0
    BY <1>1, <2>1, TakenWords DEF Words
  <2>4. ~Confirm(Run(m.from, m.to))
    <3> SUFFICES ASSUME Confirm(Run(m.from, m.to)) PROVE FALSE
      OBVIOUS
    <3>1. kept'[m.from] = segs
      BY <1>1, <2>1, <2>3, ConfirmedFacts
    <3> QED
      BY <2>1, <2>2, <2>3, <3>1, StreamTextAssumption DEF IInv, TypeOK
  <2>5. conn.last # None
    BY <2>1, <2>4 DEF HandleFinal
  <2>6. ~Late(Start(s, m), End(s, m))
    <3>1. conn.of = s
      <4>1. conn.of = 1
        BY <1>1, <2>1, <2>2 DEF IInv, Phases
      <4>2. s \in 1..1
        BY <2>2, <4>1 DEF Streams
      <4> QED
        BY <4>1, <4>2
    <3>2. Behind(g, conn.last) /\ conn.last \in Nat
      BY <1>1, <2>1, <2>2, <2>5, <3>1 DEF IInv, Forward, Connections
    <3>3. 1 \in 1..Len(g.wire)
      BY <2>2
    <3>4. conn.last <= 2 * (m.from - 1 - g.base)
      BY <2>2, <3>2, <3>3 DEF Behind
    <3>5. m.gap = 1
      BY <1>1, <2>2 DEF Message
    <3>6. \A a, b, c, d \in Nat : a <= b /\ d <= 2 * (a - 1 - c) =>
             ~(2 * (b - c) <= d) /\ ~(2 * (a - 1 - c) + 1 <= d)
      OBVIOUS
    <3> QED
      BY <2>2, <2>3, <3>2, <3>4, <3>5, <3>6 DEF Late, Start, End
  <2> QED
    BY <2>1, <2>4, <2>5, <2>6 DEF HandleFinal
<1>2. IInv /\ [Next]_vars =>
        [\A s \in Streams : Blocks(s) => First(s).gap = 0 \/ conn.of # conn.first]_vars
  BY <1>1
<1> QED
  BY <1>2, InductiveInvariant, PTL DEF Spec, BlockedHasACause
=============================================================================
