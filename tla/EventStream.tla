---------------------------- MODULE EventStream ----------------------------
(***************************************************************************)
(* How a page follows a translation: the in-process event broker           *)
(* (backend/app/api/runtime.py), the server-sent event stream of one       *)
(* connection (api/stream.py), and the page's copy of the segments         *)
(* (frontend/src/api/useProjectStream.ts).                                 *)
(*                                                                         *)
(* One project and one page.  The ledger counts the times each segment has *)
(* been written; the page shows such a count, or the partial text of a     *)
(* call that streams.  The broker hands events to the queue of the         *)
(* connection; the connection puts them on the wire; the page takes them   *)
(* off, and fetches all segments again when an event tells it to.  The     *)
(* network may fail, the server may restart, and the page opens its stream *)
(* only while it believes that the project is being translated.  A run that *)
(* is told to stop is over for the project at once, while its workers      *)
(* finish the calls they have begun.  The workers that a failed run leaves *)
(* behind (FailedRun) are not here, nor the log the page shows.            *)
(***************************************************************************)
EXTENDS Integers, SequencesExt

CONSTANTS
    Segments,      \* segments the page shows
    HistorySize,   \* events of a project the broker remembers (500)
    QueueSize,     \* events waiting for a slow connection (200)
    MaxEvents,     \* bound: events published
    MaxCuts,       \* bound: connections that break
    MaxRestarts    \* bound: restarts of the server

ASSUME SizesAssumption ==
    /\ HistorySize \in Nat \ {0}
    /\ QueueSize \in Nat \ {0}
ASSUME SegmentsAssumption == Segments # {}

VARIABLES
    ledger,    \* the segment rows: how often each has been written
    calls,     \* segments whose model call is streaming
    running,   \* the project's status is "translating"
    draining,  \* the run was told to stop and has not returned
    broker,    \* EventBroker: sequence number and history of the project
    stream,    \* the connection's generator in project_stream()
    wire,      \* events sent and not yet received
    page,      \* what the page shows, its last event id, whether it streams, and
               \* whether it was told to until the run is over (forceStream)
    fetch,     \* its request for all segments
    cuts, restarts,
    published, \* events published so far, over all processes
    untold,    \* (history) the page has missed what events up to this one say, until a
               \* later one makes it fetch; 0: nothing
    foreign,   \* (history) the page's event id was given out by an earlier process
    edited,    \* (history) a segment was edited after the run had ended
    silent     \* (history) segments whose call ended without a word, since the last
               \* event that makes a page fetch

streamVars == <<ledger, calls, running, draining, broker, stream, wire, page, fetch, cuts,
                restarts, published, untold, foreign, edited, silent>>
runVars == <<ledger, calls, running, draining, edited>>
pageVars == <<wire, page, fetch, foreign>>

-----------------------------------------------------------------------------
Partial == -1

\* The events by what the page does with them: "segment" (segment_done,
\* segment_updated) and "delta" change one segment, "refresh" (progress, error,
\* segments_bulk_updated) makes it fetch all of them, and so does "over", which
\* also says that the run is over (completed, stopped, progress without a run).
Event(kind, s, value) ==
    [id |-> broker.seq + 1, kind |-> kind, seg |-> s, value |-> value]

ForAll(kind) == Event(kind, CHOOSE s \in Segments : TRUE, 0)
Refresh == ForAll("refresh")
Over == ForAll("over")
Fetching == {"refresh", "over"}

Closed == [state |-> "closed", queue |-> << >>, replay |-> << >>, sent |-> 0]
NothingRead == [s \in Segments |-> 0]
NoFetch == [state |-> "none", read |-> NothingRead]
NoCursor == 0

Subscribed == stream.state \in {"replaying", "streaming"}

\* A fault: the history grows without bound.
RememberAll(e) == Append(broker.history, e)

\* deque(maxlen=history_size)
Remember(e) ==
    IF Len(broker.history) = HistorySize
    THEN Append(Tail(broker.history), e) ELSE Append(broker.history, e)

Full == Len(stream.queue) = QueueSize

\* publish(): a full queue loses its oldest event.
Enqueue(e) == Append(IF Full THEN Tail(stream.queue) ELSE stream.queue, e)

\* A connection opened later begins with a snapshot, which makes up for everything.
Dropped == IF ~Subscribed THEN 0 ELSE IF Full THEN Head(stream.queue).id ELSE untold

\* An event with which the page makes up for the calls that ended without a word.
Mended(e) == IF e.kind \in Fetching THEN {} ELSE silent \ {e.seg}

Publish(e) ==
    /\ published < MaxEvents
    /\ published' = published + 1
    /\ broker' = [broker EXCEPT !.seq = e.id, !.history = Remember(e)]
    /\ stream' = IF Subscribed THEN [stream EXCEPT !.queue = Enqueue(e)] ELSE stream
    /\ untold' = Dropped
    /\ silent' = Mended(e)

-----------------------------------------------------------------------------
(* The run and the editor *)

\* The job of a run: one at a time, until its workers have ended.
Active == running \/ draining

\* Starting a run in this page opens its stream, a new EventSource.
RunBegins(here) ==
    /\ ~Active
    /\ running' = TRUE
    /\ edited' = FALSE
    /\ Publish(Refresh)
    /\ page' = IF ~here THEN page
               ELSE [page EXCEPT !.streams = TRUE, !.forced = TRUE,
                                 !.last = IF page.streams THEN @ ELSE NoCursor]
    /\ foreign' = (foreign /\ (here => page.streams))
    /\ UNCHANGED <<ledger, calls, draining, wire, fetch, cuts, restarts>>

\* Also a call that the stop has overtaken goes on to stream.
Delta(s) ==
    /\ Active
    /\ calls' = calls \cup {s}
    /\ Publish(Event("delta", s, Partial))
    /\ UNCHANGED <<ledger, running, draining, pageVars, cuts, restarts, edited>>

\* A segment is written, then its event published, with no await in between.
Writes(s) ==
    /\ ledger' = [ledger EXCEPT ![s] = @ + 1]
    /\ Publish(Event("segment", s, ledger[s] + 1))

\* The answer finds the row still "processing", which a stop would have undone.
SegmentDone(s) ==
    /\ running
    /\ calls' = calls \ {s}
    /\ Writes(s)
    /\ UNCHANGED <<running, draining, pageVars, cuts, restarts, edited>>

SegmentFails(s) ==
    /\ running
    /\ calls' = calls \ {s}
    /\ Publish(Refresh)
    /\ UNCHANGED <<ledger, running, draining, pageVars, cuts, restarts, edited>>

\* After a stop neither an answer nor an error finds the row it was for: nothing
\* is written, and nothing is published.
SegmentSkipped(s) ==
    /\ draining /\ s \in calls
    /\ calls' = calls \ {s}
    /\ silent' = silent \cup {s}
    /\ UNCHANGED <<ledger, running, draining, broker, stream, pageVars, cuts, restarts,
                   published, untold, edited>>

\* POST /stop takes the segments back and tells the pages "stopped" at once; the
\* workers finish the calls they have begun.
StopRequested ==
    /\ Active
    /\ running' = FALSE
    /\ draining' = TRUE
    /\ Publish(Over)
    /\ UNCHANGED <<ledger, calls, pageVars, cuts, restarts, edited>>

\* A fault: of a run that was stopped, the stop has said all there is to say.
ReturnsSilently ==
    /\ Active /\ calls = {}
    /\ running' = FALSE
    /\ draining' = FALSE
    /\ IF draining THEN UNCHANGED <<broker, stream, published, untold, silent>>
       ELSE Publish(Over)
    /\ UNCHANGED <<ledger, calls, pageVars, cuts, restarts, edited>>

\* "completed", "stopped" or the last "progress", when all workers have ended.
RunReturns ==
    /\ Active /\ calls = {}
    /\ running' = FALSE
    /\ draining' = FALSE
    /\ Publish(Over)
    /\ UNCHANGED <<ledger, calls, pageVars, cuts, restarts, edited>>

\* Somebody edits a segment in another page: none that is "processing".
EditElsewhere(s) ==
    /\ running => s \notin calls
    /\ Writes(s)
    /\ edited' = ~Active
    /\ UNCHANGED <<calls, running, draining, pageVars, cuts, restarts>>

-----------------------------------------------------------------------------
(* The connection *)

\* Last-Event-ID: the events the history still holds after it, its last ones
\* since ids increase.
Replay(cursor) ==
    LET history == broker.history
        old == CHOOSE n \in 0 .. Len(history) :
                   \A i \in 1 .. Len(history) : history[i].id > cursor <=> i > n
    IN IF cursor = NoCursor THEN << >> ELSE SubSeq(history, old + 1, Len(history))

\* EventSource connects; the queue is registered before the history is read.
Connect ==
    /\ page.streams /\ stream.state = "closed"
    /\ stream' = [state |-> "replaying", queue |-> << >>,
                  replay |-> Replay(page.last), sent |-> page.last]
    /\ UNCHANGED <<runVars, broker, pageVars, cuts, restarts, published, untold, silent>>

Sends(e) == wire' = Append(wire, e)

SentAfter(e) == IF e.id > stream.sent THEN e.id ELSE stream.sent

SendReplay ==
    /\ stream.state = "replaying" /\ stream.replay # << >>
    /\ LET e == Head(stream.replay) IN
          /\ Sends(e)
          /\ stream' = [stream EXCEPT !.replay = Tail(@), !.sent = SentAfter(e)]
    /\ UNCHANGED <<runVars, broker, page, fetch, cuts, restarts, published, untold, foreign,
                   silent>>

\* A fault: a connection that needs no replay publishes nothing.
SnapshotForNewcomers ==
    /\ stream.state = "replaying" /\ stream.replay = << >>
    /\ stream' = [stream EXCEPT !.state = "streaming"]
    /\ UNCHANGED <<runVars, broker, pageVars, cuts, restarts, published, untold, silent>>

\* After the replay every connection publishes the progress of the project.
Snapshot ==
    /\ stream.state = "replaying" /\ stream.replay = << >>
    /\ published < MaxEvents
    /\ published' = published + 1
    /\ LET e == IF Active THEN Refresh ELSE Over IN
          /\ broker' = [broker EXCEPT !.seq = e.id, !.history = Remember(e)]
          /\ stream' = [stream EXCEPT !.state = "streaming", !.queue = Enqueue(e)]
          /\ silent' = Mended(e)
    /\ untold' = Dropped
    /\ UNCHANGED <<runVars, pageVars, cuts, restarts>>

\* A fault: what the replay has sent is sent again from the queue.
NeverSent(e) == FALSE

AlreadySent(e) == e.id <= stream.sent

SendNext ==
    /\ stream.state = "streaming" /\ stream.queue # << >>
    /\ LET e == Head(stream.queue) IN
          /\ stream' = [stream EXCEPT !.queue = Tail(@), !.sent = SentAfter(e)]
          /\ IF AlreadySent(e) THEN UNCHANGED wire ELSE Sends(e)
    /\ UNCHANGED <<runVars, broker, page, fetch, cuts, restarts, published, untold, foreign,
                   silent>>

\* The connection breaks; what is on the wire is lost, and EventSource retries.
Breaks ==
    /\ stream' = Closed
    /\ wire' = << >>

Cut ==
    /\ stream.state # "closed" /\ cuts < MaxCuts
    /\ cuts' = cuts + 1
    /\ Breaks
    /\ UNCHANGED <<runVars, broker, page, fetch, restarts, published, untold, foreign, silent>>

\* The broker is in memory: a new process counts from 0. The interrupted run
\* goes back to "ready" at start.
Restart ==
    /\ restarts < MaxRestarts
    /\ restarts' = restarts + 1
    /\ broker' = [seq |-> 0, history |-> << >>]
    /\ Breaks
    /\ running' = FALSE /\ draining' = FALSE
    /\ calls' = {} /\ silent' = {}
    /\ foreign' = (page.last # NoCursor)
    /\ untold' = 0
    /\ UNCHANGED <<ledger, page, fetch, cuts, published, edited>>

-----------------------------------------------------------------------------
(* The page *)

Shown(e) ==
    IF e.kind \in {"segment", "delta"} THEN [page.view EXCEPT ![e.seg] = e.value] ELSE page.view

Receive ==
    /\ wire # << >>
    /\ LET e == Head(wire) IN
          /\ wire' = Tail(wire)
          /\ page' = [page EXCEPT !.last = e.id, !.view = Shown(e),
                                  !.forced = @ /\ e.kind # "over"]
          /\ fetch' = IF e.kind \in Fetching THEN [state |-> "asked", read |-> NothingRead] ELSE fetch
          /\ untold' = IF e.kind \in Fetching /\ e.id > untold THEN 0 ELSE untold
    /\ UNCHANGED <<runVars, broker, stream, cuts, restarts, published, foreign, silent>>

FetchReads ==
    /\ fetch.state = "asked"
    /\ fetch' = [state |-> "read", read |-> ledger]
    /\ UNCHANGED <<runVars, broker, stream, wire, page, cuts, restarts, published, untold,
                   foreign, silent>>

\* The answer replaces what the page shows, also what newer events have put there.
FetchArrives ==
    /\ fetch.state = "read"
    /\ page' = [page EXCEPT !.view = fetch.read]
    /\ untold' = IF fetch.read # ledger /\ page.last > untold THEN page.last ELSE untold
    /\ fetch' = NoFetch
    /\ UNCHANGED <<runVars, broker, stream, wire, cuts, restarts, published, foreign, silent>>

\* The page is opened, or reloaded: it streams if the project is being translated.
Opened ==
    /\ page' = [view |-> ledger, last |-> NoCursor, streams |-> running, forced |-> FALSE]
    /\ Breaks
    /\ fetch' = NoFetch
    /\ untold' = 0
    /\ foreign' = FALSE
    /\ UNCHANGED <<runVars, broker, cuts, restarts, published, silent>>

\* The page polls the project, and closes its stream when that is no longer
\* "translating", unless it still waits to be told that its own run is over.
PollSaysIdle ==
    /\ page.streams /\ ~page.forced /\ ~running
    /\ page' = [page EXCEPT !.streams = FALSE]
    /\ Breaks
    /\ UNCHANGED <<runVars, broker, fetch, cuts, restarts, published, untold, foreign, silent>>

-----------------------------------------------------------------------------
StreamInit ==
    /\ ledger = [s \in Segments |-> 0]
    /\ calls = {}
    /\ running = FALSE /\ draining = FALSE
    /\ broker = [seq |-> 0, history |-> << >>]
    /\ stream = Closed
    /\ wire = << >>
    /\ page = [view |-> ledger, last |-> NoCursor, streams |-> FALSE, forced |-> FALSE]
    /\ fetch = NoFetch
    /\ cuts = 0 /\ restarts = 0 /\ published = 0
    /\ untold = 0 /\ foreign = FALSE /\ edited = FALSE /\ silent = {}

StreamNext ==
    \/ \E here \in BOOLEAN : RunBegins(here)
    \/ StopRequested \/ RunReturns
    \/ \E s \in Segments : \/ Delta(s) \/ SegmentDone(s) \/ SegmentFails(s)
                           \/ SegmentSkipped(s) \/ EditElsewhere(s)
    \/ Connect \/ SendReplay \/ Snapshot \/ SendNext \/ Cut \/ Restart
    \/ Receive \/ FetchReads \/ FetchArrives \/ Opened \/ PollSaysIdle

StreamSpec == StreamInit /\ [][StreamNext]_streamVars

-----------------------------------------------------------------------------
(* Properties *)

Values == Nat \cup {Partial}
Events == [id : Nat, kind : {"segment", "delta", "refresh", "over"}, seg : Segments, value : Values]
Streams == [state : {"closed", "replaying", "streaming"}, queue : Seq(Events),
            replay : Seq(Events), sent : Nat]
Pages == [view : [Segments -> Values], last : Nat, streams : BOOLEAN, forced : BOOLEAN]

StreamTypeOK ==
    /\ ledger \in [Segments -> Nat]
    /\ calls \subseteq Segments /\ silent \subseteq Segments
    /\ broker \in [seq : Nat, history : Seq(Events)]
    /\ Len(broker.history) <= HistorySize
    /\ stream \in Streams
    /\ Len(stream.queue) <= QueueSize
    /\ wire \in Seq(Events)
    /\ page \in Pages
    /\ fetch \in [state : {"none", "asked", "read"}, read : [Segments -> Nat]]
    /\ untold \in Nat
    /\ {running, draining, foreign, edited} \subseteq BOOLEAN

\* Nothing is on its way to the page any more.
Quiet ==
    /\ page.streams /\ stream.state = "streaming"
    /\ stream.queue = << >> /\ wire = << >> /\ fetch.state = "none"

\* Once everything sent has arrived, the page shows every segment as it is,
\* except those being streamed, whatever was lost with a connection: the history
\* or the progress of the new connection makes up for it (stream.py 60-74). It
\* may lag behind only after a queue overflow or an overtaken fetch, until it
\* fetches again, and in what a call has streamed that a stop had overtaken: the
\* end of that is not published (translator.py 1051-1067).
PageIsCurrent ==
    Quiet /\ untold = 0 /\ ~foreign =>
        \A s \in Segments \ (calls \cup silent) : page.view[s] = ledger[s]

\* When the run has returned, its last event makes the page fetch the final texts,
\* also when the queue overflowed or a fetch was overtaken during the run, and
\* when calls have streamed on after the stop had been told (adapters.py 466-493,
\* runtime.py 51-56, projects.py 494-495).
ResultIsShown ==
    Quiet /\ ~Active /\ ~edited /\ ~foreign => page.view = ledger

\* A page never gets an event twice, nor an older one after a newer one, across
\* reconnections: replay and queue overlap, and only the cursor tells them apart
\* (stream.py 57-92).
NoEventTwice ==
    [][Receive => page'.last > page.last]_streamVars

\* "Explicit cursors are used for browser reconnect catch-up" (stream.py 26-27):
\* a page that has reconnected is caught up, also with a server that restarted.
ReconnectCatchesUp ==
    Quiet /\ untold = 0 => \A s \in Segments \ (calls \cup silent) : page.view[s] = ledger[s]

-----------------------------------------------------------------------------
(* What the safety properties rest on *)

Increasing(events) == \A i, j \in 1 .. Len(events) : i < j => events[i].id < events[j].id
NoneAfter(events, n) == \A i \in 1 .. Len(events) : events[i].id <= n
AllAfter(events, n) == \A i \in 1 .. Len(events) : events[i].id > n

\* The history holds the last events, and the queue none the broker has not given out.
BrokerInOrder ==
    /\ \A i \in 1 .. Len(broker.history) :
          broker.history[i].id = broker.seq - Len(broker.history) + i
    /\ Increasing(stream.queue) /\ NoneAfter(stream.queue, broker.seq)

\* The page has what came before the wire, the wire what came before "sent",
\* and the replay what comes after it.
ConnectionInOrder ==
    /\ Increasing(stream.replay) /\ AllAfter(stream.replay, stream.sent)
    /\ Increasing(wire) /\ AllAfter(wire, page.last) /\ NoneAfter(wire, stream.sent)
    /\ stream.state = "closed" => wire = << >> /\ stream = Closed
    /\ stream.state # "closed" => page.streams /\ page.last <= stream.sent
    /\ stream.state = "streaming" => stream.replay = << >>

StreamInOrder == StreamTypeOK /\ BrokerInOrder /\ ConnectionInOrder

\* Nothing was sent that the broker has not given out, unless the page came back
\* with the cursor of an earlier process.
NothingIsAhead ==
    /\ NoneAfter(stream.replay, broker.seq)
    /\ ~foreign => page.last <= broker.seq /\ stream.sent <= broker.seq

\* What the page has missed is behind its cursor, or before all that waits.
UntoldIsPast ==
    /\ AllAfter(stream.queue, 0)
    /\ untold <= page.last \/ (untold <= broker.seq /\ AllAfter(stream.queue, untold))

\* What the connection will still bring to the page, and of it what changes a
\* segment there.
OnTheWay ==
    {wire[i] : i \in 1 .. Len(wire)}
        \cup {stream.queue[i] : i \in {j \in 1 .. Len(stream.queue) : ~AlreadySent(stream.queue[j])}}
WordsOn(s) == {e \in OnTheWay : e.kind \in Fetching \/ e.seg = s}
LastOf(events, e) == e \in events /\ \A d \in events : d.id <= e.id

CaughtUp == stream.state = "streaming" /\ ~foreign

\* The last word on a segment makes it right, unless the page misses something
\* since; with no word on the way it is right, or will be by the fetch under way.
EachIsTold ==
    CaughtUp => \A s \in Segments \ (calls \cup silent) :
        /\ \A e \in WordsOn(s) : LastOf(WordsOn(s), e) /\ e.id > untold =>
              e.kind \in Fetching \/ e.value = ledger[s]
        /\ WordsOn(s) = {} /\ untold = 0 =>
              page.last > 0 /\ (fetch.state = "none" => page.view[s] = ledger[s])

\* After a run nothing follows the event that makes the page fetch its result.
ResultIsComing ==
    CaughtUp /\ ~Active /\ ~edited =>
        \/ \E e \in OnTheWay : LastOf(OnTheWay, e) /\ e.kind \in Fetching
        \/ /\ OnTheWay = {}
           /\ \/ fetch.state = "asked"
              \/ fetch.state = "read" /\ fetch.read = ledger
              \/ fetch.state = "none" /\ page.view = ledger

PageIsTold == NothingIsAhead /\ UntoldIsPast /\ EachIsTold /\ ResultIsComing

StreamInductive == StreamInOrder /\ PageIsTold
=============================================================================
