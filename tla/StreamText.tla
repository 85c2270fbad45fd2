----------------------------- MODULE StreamText -----------------------------
(***************************************************************************)
(* The text of a room's streaming connection (StreamingConnection of       *)
(* api/routers/stt/streaming_manager.py and the client of                  *)
(* google_streaming.py): the router cuts the speech into segments, the     *)
(* listener collects what the provider reports, and the end of a segment   *)
(* publishes what was collected.  Words are numbered as they are said; a   *)
(* provider counts time from the start of its stream, two units a word.    *)
(* Locks, changes of language and refused connections are in SttRouter.    *)
(***************************************************************************)
EXTENDS Integers, Sequences, FiniteSets

CONSTANTS
    Threshold,   \* LATE_FINAL_THRESHOLD in units of time
    None,
    MaxWords,    \* bound: words said
    MaxSegments, \* bound: segments
    MaxStreams,  \* bound: streams opened
    MaxWire      \* bound: messages of a stream that wait

Words == 1..MaxWords
Text  == Seq(Words)

Connections == [of : Nat \ {0}, first : Nat \ {0}, seg : Nat, final : Text, accum : Text,
                prev : Text, last : Nat \cup {None}, ended : BOOLEAN]

ASSUME StreamTextAssumption ==
    /\ Threshold \in Nat
    /\ MaxWords \in Nat /\ MaxSegments \in Nat /\ MaxStreams \in Nat /\ MaxWire \in Nat
    /\ None \notin Nat /\ None \notin Connections

VARIABLES
    provider,
    said,      \* the segment each word was said in
    segs,      \* segments so far
    session,   \* the room's partial_session: "none", "stream" or "batch"
    router,    \* where router_loop is
    conn,      \* the StreamingConnection of the pool
    streams,   \* streams opened with the provider, in order
    out,       \* the last text published
    kept       \* history: the segment whose text a word's final was added to

vars == <<provider, said, segs, session, router, conn, streams, out, kept>>

Streams == 1..Len(streams)

\* The words i, ..., j.
Run(i, j) == [n \in 1..(j + 1 - i) |-> i + n - 1]

Init ==
    /\ provider \in {"speechmatics", "google_v2"}
    /\ said = <<>>
    /\ segs = 0
    /\ session = "none"
    /\ router = "idle"
    /\ conn = None
    /\ streams = <<>>
    /\ out = [kind |-> "none", seg |-> 0, text |-> <<>>]
    /\ kept = [w \in Words |-> 0]
-----------------------------------------------------------------------------
\* The router. A chunk holds one word.
Says == /\ router = "idle" /\ Len(said) < MaxWords
        /\ said' = Append(said, segs')

\* Mutant: what came in since the last segment ended stays.
ResetKeeping(c, seg) == [c EXCEPT !.seg = seg]

\* reset_for_new_segment.
Reset(c, seg) ==
    LET prev == IF c.prev # <<>> THEN c.prev ELSE IF c.accum # <<>> THEN c.accum ELSE c.final
    IN  [c EXCEPT !.seg = seg, !.prev = prev, !.accum = <<>>, !.final = <<>>]

FirstChunk ==
    /\ session = "none" /\ segs < MaxSegments
    /\ segs' = segs + 1
    /\ Says
    /\ session' = "stream"
    /\ IF conn # None THEN conn' = Reset(conn, segs + 1) /\ router' = "send"
       ELSE router' = "connect" /\ UNCHANGED conn
    /\ UNCHANGED <<provider, streams, out, kept>>

\* A session that fell back goes on with a batch provider.
NextChunk ==
    /\ session # "none"
    /\ segs' = segs
    /\ Says
    /\ router' = IF session = "stream" THEN "send" ELSE "idle"
    /\ UNCHANGED <<provider, session, conn, streams, out, kept>>

\* A stream begins with the word being sent.
NewStream == [base |-> Len(said) - 1, sent |-> Len(said) - 1, got |-> Len(said) - 1,
              done |-> Len(said) - 1, state |-> "open", wire |-> <<>>]

Connect ==
    /\ router = "connect"
    /\ Len(streams) < MaxStreams
    /\ streams' = Append(streams, NewStream)
    /\ conn' = [of |-> Len(streams) + 1, first |-> Len(streams) + 1, seg |-> segs,
                final |-> <<>>, accum |-> <<>>, prev |-> <<>>, last |-> None, ended |-> FALSE]
    /\ router' = "send"
    /\ UNCHANGED <<provider, said, segs, session, out, kept>>

\* is_alive: a stream of Google counts as alive as long as there is a session.
Alive == provider = "google_v2" \/ streams[conn.of].state = "open"

Send ==
    /\ router = "send" /\ conn # None
    /\ Alive
    /\ streams' = [streams EXCEPT ![conn.of].sent = Len(said),
                                  ![conn.of].got = IF provider = "google_v2" THEN @ ELSE Len(said)]
    /\ router' = "idle"
    /\ UNCHANGED <<provider, said, segs, session, conn, out, kept>>

\* The connection was closed by a fallback while the chunk was on its way.
SendNowhere ==
    /\ router = "send" /\ conn = None
    /\ router' = "idle"
    /\ UNCHANGED <<provider, said, segs, session, conn, streams, out, kept>>

\* ensure_connected: another stream for the same connection, whose state stays.
Reconnect ==
    /\ router = "send" /\ conn # None
    /\ ~Alive
    /\ Len(streams) < MaxStreams
    /\ streams' = Append(streams, NewStream)
    /\ conn' = [conn EXCEPT !.of = Len(streams) + 1]
    /\ UNCHANGED <<provider, said, segs, session, router, out, kept>>

\* Mutant: the confirmed text alone.
FinalTextConfirmed == conn.final

FinalText == conn.accum

\* audio_end publishes the text, and clears it after further calls to Redis.
EndSegment ==
    /\ router = "idle" /\ session # "none"
    /\ router' = "ending"
    /\ out' = IF session = "stream" /\ conn # None /\ FinalText # <<>>
              THEN [kind |-> "final", seg |-> segs, text |-> FinalText] ELSE out
    /\ UNCHANGED <<provider, said, segs, session, conn, streams, kept>>

Cut(c) ==
    [c EXCEPT !.prev = IF c.accum # <<>> THEN c.accum ELSE IF c.final # <<>> THEN c.final ELSE @,
              !.final = <<>>, !.accum = <<>>, !.ended = @ \/ c.last # None]

CutText ==
    /\ router = "ending"
    /\ router' = "idle"
    /\ session' = "none"
    /\ conn' = IF conn = None THEN None ELSE Cut(conn)
    /\ UNCHANGED <<provider, said, segs, streams, out, kept>>
-----------------------------------------------------------------------------
\* The listener handles the messages of a stream in order.
First(s) == Head(streams[s].wire)

Takes(s, kind) == streams[s].wire # <<>> /\ First(s).kind = kind

Heard(s) == streams' = [streams EXCEPT ![s].wire = Tail(@)]

Publish(kind, text) ==
    out' = IF session # "none" THEN [kind |-> kind, seg |-> segs, text |-> text] ELSE out

\* The text occurs in what the last segment published.
Within(text, prev) ==
    \E n \in 0..(Len(prev) - Len(text)) : SubSeq(prev, n + 1, n + Len(text)) = text

PartialText(s) == Run(First(s).from, First(s).to)

HandlePartial(s) ==
    /\ Takes(s, "partial")
    /\ Heard(s)
    /\ \/ /\ provider = "speechmatics" /\ Within(PartialText(s), conn.prev)
          /\ UNCHANGED <<conn, out>>
       \/ /\ provider = "speechmatics" /\ ~Within(PartialText(s), conn.prev)
          /\ conn' = [conn EXCEPT !.accum = conn.final \o PartialText(s)]
          /\ Publish("partial", conn.final \o PartialText(s))
       \/ /\ provider = "google_v2"
          /\ conn' = [conn EXCEPT !.accum = PartialText(s)]
          /\ Publish("partial", PartialText(s))
    /\ UNCHANGED <<provider, said, segs, session, router, kept>>

Start(s, m) == 2 * (m.from - 1 - streams[s].base) + m.gap
End(s, m)   == 2 * (m.to - streams[s].base)

\* Mutant: after the end of a segment everything close to it is late.
LateByTime(start, end) ==
    \/ end <= conn.last
    \/ conn.ended /\ end - conn.last <= Threshold

\* A final counts as late when its time goes backwards, or after the end of a
\* segment when it overlaps what was heard and is not far behind it.
Late(start, end) ==
    \/ end <= conn.last
    \/ conn.ended /\ start <= conn.last /\ end - conn.last <= Threshold

Confirm(text) ==
    kept' = [w \in Words |-> IF \E n \in 1..Len(text) : text[n] = w THEN conn.seg ELSE kept[w]]

HandleFinal(s) ==
    LET m == First(s) IN
    /\ Takes(s, "final") /\ provider = "speechmatics"
    /\ Heard(s)
    /\ \/ /\ conn.last # None /\ Late(Start(s, m), End(s, m))
          /\ UNCHANGED <<conn, kept>>
       \/ /\ conn.last # None => ~Late(Start(s, m), End(s, m))
          /\ conn' = [conn EXCEPT !.last = End(s, m), !.ended = FALSE,
                                  !.final = @ \o Run(m.from, m.to)]
          /\ Confirm(Run(m.from, m.to))
    /\ UNCHANGED <<provider, said, segs, session, router, out>>

\* Google's final takes the place of the text collected so far.
HandleGoogleFinal(s) ==
    LET text == Run(First(s).from, First(s).to) IN
    /\ Takes(s, "final") /\ provider = "google_v2"
    /\ Heard(s)
    /\ conn' = [conn EXCEPT !.final = text, !.accum = text]
    /\ Confirm(text)
    /\ UNCHANGED <<provider, said, segs, session, router, out>>

\* Mutant: the session stays with the client.
ClosedKept(s) == [streams EXCEPT ![s].wire = Tail(@)]

\* close_session, as run by the task of the stream itself.
Closed(s) == [streams EXCEPT ![s].wire = <<>>, ![s].state = "closed"]

\* on_error closes the connection and falls back for an error of the kinds it
\* knows, while there is a session; nothing happens otherwise.
HandleError(s) ==
    /\ Takes(s, "error")
    /\ \/ /\ session # "none"
          /\ streams' = Closed(s)
          /\ conn' = None
          /\ session' = "batch"
       \/ Heard(s) /\ UNCHANGED <<conn, session>>
    /\ UNCHANGED <<provider, said, segs, router, out, kept>>

Listener(s) ==
    HandlePartial(s) \/ HandleFinal(s) \/ HandleGoogleFinal(s) \/ HandleError(s)
-----------------------------------------------------------------------------
\* The provider, the thread that feeds Google, and the socket of Speechmatics.
Report(s, m) ==
    /\ streams[s].state \in {"open", "silent"}
    /\ Len(streams[s].wire) < MaxWire
    /\ m.from = streams[s].done + 1 /\ m.to \in m.from..streams[s].got
    /\ streams' = [streams EXCEPT ![s].wire = Append(@, m),
                                  ![s].done = IF m.kind = "final" THEN m.to ELSE @]
    /\ UNCHANGED <<provider, said, segs, session, router, conn, out, kept>>

Feeds(s, g) ==
    /\ provider = "google_v2" /\ streams[s].state = "open"
    /\ streams' = [streams EXCEPT ![s] = g]
    /\ UNCHANGED <<provider, said, segs, session, router, conn, out, kept>>

Feed(s) == /\ streams[s].got < streams[s].sent
           /\ Feeds(s, [streams[s] EXCEPT !.got = @ + 1])

\* Nothing was said for 30 s: the generator ends, and the stream with it.  The
\* first word follows at once when a stream is opened.
FeedTimesOut(s) == /\ streams[s].got = streams[s].sent /\ streams[s].sent > streams[s].base
                   /\ Feeds(s, [streams[s] EXCEPT !.state = "silent"])

Ends(s, g) ==
    /\ streams' = [streams EXCEPT ![s] = g]
    /\ UNCHANGED <<provider, said, segs, session, router, conn, out, kept>>

\* streaming_recognize returns, without an error.
StreamEnds(s) == /\ provider = "google_v2" /\ streams[s].state = "silent"
                 /\ Ends(s, [streams[s] EXCEPT !.state = "over"])

StreamFails(s) ==
    /\ provider = "google_v2" /\ streams[s].state \in {"open", "silent"}
    /\ Len(streams[s].wire) < MaxWire /\ Len(streams) < MaxStreams
    /\ Ends(s, [streams[s] EXCEPT !.state = "over",
                     !.wire = Append(@, [kind |-> "error", from |-> 0, to |-> 0, gap |-> 0])])

\* What the socket has received can still be read.
SocketLost(s) ==
    /\ provider = "speechmatics" /\ streams[s].state = "open"
    /\ Len(streams) < MaxStreams
    /\ Ends(s, [streams[s] EXCEPT !.state = "over"])
-----------------------------------------------------------------------------
Messages == [kind : {"partial", "final"}, from : Words, to : Words, gap : {0, 1}]

Router == \/ FirstChunk \/ NextChunk \/ Connect \/ Send \/ SendNowhere \/ Reconnect
          \/ EndSegment \/ CutText

Provider(s) == \/ \E m \in Messages : Report(s, m)
               \/ Feed(s) \/ FeedTimesOut(s) \/ StreamEnds(s) \/ StreamFails(s) \/ SocketLost(s)

Next == Router \/ \E s \in Streams : Listener(s) \/ Provider(s)

Spec == Init /\ [][Next]_vars
-----------------------------------------------------------------------------
StreamType == [base : Nat, sent : Nat, got : Nat, done : Nat,
               state : {"open", "silent", "over", "closed"},
               wire : Seq([kind : {"partial", "final", "error"}, from : Nat, to : Nat,
                           gap : {0, 1}])]

TypeOK ==
    /\ provider \in {"speechmatics", "google_v2"}
    /\ said \in Seq(1..MaxSegments) /\ Len(said) <= MaxWords
    /\ segs \in 0..MaxSegments
    /\ session \in {"none", "stream", "batch"}
    /\ router \in {"idle", "connect", "send", "ending"}
    /\ conn \in Connections \cup {None}
    /\ conn # None => conn.of \in Streams
    /\ streams \in Seq(StreamType)
    /\ out \in [kind : {"none", "partial", "final"}, seg : 0..MaxSegments, text : Text]
    /\ kept \in [Words -> 0..MaxSegments]

\* A word the provider confirmed for one segment is not translated again with a
\* later one, however late the confirmation and the partials around it arrive.
TranslatedOnce ==
    out.kind = "final" =>
        \A n \in 1..Len(out.text) : kept[out.text[n]] = 0 \/ kept[out.text[n]] >= out.seg

\* The final of a segment is the last partial the listeners saw.
FinalIsLastShown ==
    [][provider = "speechmatics" /\ out'.kind = "final" /\ out' # out =>
        out = [out' EXCEPT !.kind = "partial"]]_out

\* A transcript is blocked only when it begins where the one before it ended, or the
\* socket was renewed since the connection was made, so that time began again.
Blocks(s) == /\ Takes(s, "final") /\ provider = "speechmatics"
             /\ Len(streams'[s].wire) < Len(streams[s].wire) /\ kept' = kept

BlockedHasACause ==
    [][\A s \in Streams : Blocks(s) => First(s).gap = 0 \/ conn.of # conn.first]_vars

\* Google's client has a session exactly when the pool has a connection that uses
\* it: create_session would wait for its own lock to close another one. (Besides, the
\* state is well typed.)
OneSession ==
    /\ TypeOK
    /\ provider = "google_v2" => \A s \in Streams :
         streams[s].state # "closed" <=> conn # None /\ conn.of = s
=============================================================================
