----------------------------- MODULE RemoteLink -----------------------------
(***************************************************************************)
(* One link of ono-protocol: the client end (link.rs), the agent end       *)
(* (service.rs) and the two frame queues between them (connection.rs).     *)
(* Streams are multiplexed over the link, and what a producer may send is  *)
(* bounded by the credit its consumer grants.                              *)
(*                                                                         *)
(* The frames of one stream keep their order, so each direction is, per    *)
(* stream, a count of data frames and of granted credit and a flag for the *)
(* frames sent once.  Frames of different streams may overtake each other  *)
(* here, which the real link does not do and nothing below relies on.      *)
(***************************************************************************)
EXTENDS Naturals, FiniteSets

CONSTANTS
  Stream,      \* the requests the client makes, each on its own stream
  Acts,        \* those made by Link::act; the others are queries
  Oversized,   \* those whose request may not fit in a frame
  Window,      \* the negotiated credit window
  MaxCredit,   \* Limits::max_credit, which bounds the window
  MaxStreams,  \* Limits::max_streams of both ends
  Items,       \* how many data frames a query's producer sends at most
  Droppers,    \* those whose consumer may stop before the end
  MayCut,      \* whether the transport may fail
  MayHangup,   \* whether the owner may drop the Link while streams are open
  Lifetimes    \* whether the agent's process ends with the session: TRUE for
               \* `ono --agent`, FALSE for a listening agent

ASSUME LinkAssumption ==
  /\ Acts \subseteq Stream
  /\ Oversized \subseteq Stream
  /\ Droppers \subseteq Stream
  /\ MaxCredit \in Nat
  /\ Window \in 1 .. MaxCredit
  /\ MaxStreams \in Nat \ {0}
  /\ Items \in Nat
  /\ MayCut \in BOOLEAN /\ MayHangup \in BOOLEAN
  /\ Lifetimes \subseteq BOOLEAN

VARIABLES
  \* the client
  cpc,        \* where the caller of each stream is
  table,      \* LinkInner.streams: the streams frames are routed to
  alive,      \* LinkInner.alive; the reader task runs exactly as long
  held,       \* the frame the reader holds with a clone of the sender
  q,          \* data messages in the stream's channel
  qend,       \* End is in the channel
  qlost,      \* the failure of the link is in the channel
  unack,      \* RemoteStream.unacknowledged
  got,        \* history: data messages the consumer has taken
  warned,     \* history: the consumer was told that the link failed
  \* the frames on their way
  startw,     \* the request
  grantw,     \* credit granted
  cancelw,    \* Cancel
  wire,       \* data frames to the client
  endw,       \* End
  cut,        \* the transport has failed
  hung,       \* the client has said goodbye
  \* the agent
  exits,      \* which kind of agent it is; never changes
  serving,    \* the loop of `serve` runs
  open,       \* its table of streams
  credit,     \* the permits of the stream's semaphore
  cancelled,  \* the stream's CancelToken
  spc,        \* where the stream's task is
  performed,  \* the acts the service has carried out
  sent        \* history: data frames the producer has sent

chanVars   == <<q, qend, qlost>>
upVars     == <<startw, grantw, cancelw>>
downVars   == <<wire, endw>>
wayVars    == <<cut, hung>>
serverVars == <<exits, serving, open, credit, cancelled, spc, performed, sent>>
vars == <<cpc, table, alive, held, chanVars, unack, got, warned,
          upVars, downVars, wayVars, serverVars>>

Held == {"none", "data", "end"}

Opening == {"idle", "checked", "registered"}
Ended   == {"refused", "complete", "closed", "answered", "dropped"}
Phases  == Opening \cup {"reading", "stopping"} \cup Ended

\* A stream's task at the agent: the service's body, a send of it, the report of
\* its answer or of its error, and the two steps that follow it.
Tasks == {"none", "body", "sending", "replying", "failing",
          "finish", "remove", "gone"}

\* A frame is on its way only as long as the other end may still read it: not
\* when it is queued behind the goodbye, and not when the reading loop is over.
UpOpen   == ~hung /\ serving
DownOpen == alive

\* Mutant: credit is granted only after more than a window.
BatchOverWindow == Window + 1

\* RemoteStream::acknowledge grants in half-window batches, of at least one.
Batch == IF Window \div 2 = 0 THEN 1 ELSE Window \div 2

\* The receiving end of the stream's channel exists.
Receiving(s) == cpc[s] \in {"registered", "reading", "stopping"}
Reading(s)   == cpc[s] \in {"reading", "stopping"}

ReaderIdle == alive /\ \A s \in Stream : held[s] = "none"

\* The channel has Window + 1 places, one of them for End.
Occupied(s) ==
  q[s] + (IF qend[s] THEN 1 ELSE 0) + (IF qlost[s] THEN 1 ELSE 0)
\* Mutant: the channel has no place of its own for End.
HasRoomWithoutEnd(s) == Occupied(s) < Window

HasRoom(s) == Occupied(s) < Window + 1

TypeOK ==
  /\ cpc \in [Stream -> Phases]
  /\ table \subseteq Stream
  /\ open \subseteq Stream
  /\ performed \subseteq Acts
  /\ alive \in BOOLEAN /\ cut \in BOOLEAN
  /\ hung \in BOOLEAN /\ serving \in BOOLEAN /\ exits \in BOOLEAN
  /\ held \in [Stream -> Held]
  /\ q \in [Stream -> Nat] /\ unack \in [Stream -> Nat]
  /\ got \in [Stream -> Nat] /\ grantw \in [Stream -> Nat]
  /\ wire \in [Stream -> Nat] /\ credit \in [Stream -> Nat]
  /\ sent \in [Stream -> Nat]
  /\ qend \in [Stream -> BOOLEAN] /\ qlost \in [Stream -> BOOLEAN]
  /\ warned \in [Stream -> BOOLEAN]
  /\ startw \in [Stream -> BOOLEAN] /\ cancelw \in [Stream -> BOOLEAN]
  /\ endw \in [Stream -> BOOLEAN] /\ cancelled \in [Stream -> BOOLEAN]
  /\ spc \in [Stream -> Tasks]

Init ==
  /\ cpc = [s \in Stream |-> "idle"]
  /\ table = {} /\ open = {} /\ performed = {}
  /\ alive = TRUE /\ serving = TRUE /\ cut = FALSE /\ hung = FALSE
  /\ held = [s \in Stream |-> "none"]
  /\ q = [s \in Stream |-> 0] /\ unack = q /\ got = q /\ grantw = q
  /\ wire = q /\ credit = q /\ sent = q
  /\ qend = [s \in Stream |-> FALSE] /\ qlost = qend /\ warned = qend
  /\ startw = qend /\ cancelw = qend /\ endw = qend /\ cancelled = qend
  /\ spc = [s \in Stream |-> "none"]
  /\ exits \in Lifetimes

-----------------------------------------------------------------------------
(* The client: opening a stream (LinkInner::open).                         *)

\* LinkInner::status is asked first, outside the lock on the table.
Check(s) ==
  /\ cpc[s] = "idle"
  /\ cpc' = [cpc EXCEPT ![s] = IF alive THEN "checked" ELSE "refused"]
  /\ UNCHANGED <<table, alive, held, chanVars, unack, got, warned,
                 upVars, downVars, wayVars, serverVars>>

Insert(s) ==
  /\ cpc[s] = "checked"
  /\ IF Cardinality(table) >= MaxStreams
     THEN cpc' = [cpc EXCEPT ![s] = "refused"] /\ UNCHANGED table
     ELSE cpc' = [cpc EXCEPT ![s] = "registered"] /\ table' = table \cup {s}
  /\ UNCHANGED <<alive, held, chanVars, unack, got, warned,
                 upVars, downVars, wayVars, serverVars>>

\* The request is encoded and queued for the writer.  A request that cannot be
\* encoded returns early and stays in the table.  A frame queued behind the
\* goodbye is never written; a writer that has stopped refuses it.
Start(s) ==
  /\ cpc[s] = "registered"
  /\ \/ /\ s \in Oversized
        /\ cpc' = [cpc EXCEPT ![s] = "refused"]
        /\ UNCHANGED <<table, startw>>
     \/ /\ cpc' = [cpc EXCEPT ![s] = "reading"]
        /\ startw' = [startw EXCEPT ![s] = UpOpen]
        /\ UNCHANGED table
     \/ /\ cut \/ hung
        /\ cpc' = [cpc EXCEPT ![s] = "refused"]
        /\ table' = table \ {s}
        /\ UNCHANGED startw
  /\ UNCHANGED <<alive, held, chanVars, unack, got, warned,
                 grantw, cancelw, downVars, wayVars, serverVars>>

-----------------------------------------------------------------------------
(* The client: reading a stream (RemoteStream::recv, Link::act).           *)

Acknowledge(s) ==
  LET due == unack[s] + 1 IN
  IF due >= Batch
  THEN /\ unack' = [unack EXCEPT ![s] = 0]
       /\ grantw' = IF UpOpen THEN [grantw EXCEPT ![s] = @ + due] ELSE grantw
  ELSE unack' = [unack EXCEPT ![s] = due] /\ UNCHANGED grantw

\* A value, an event or the failure of one item.
TakeData(s) ==
  /\ Reading(s) /\ s \notin Acts /\ q[s] > 0
  /\ q' = [q EXCEPT ![s] = @ - 1]
  /\ got' = [got EXCEPT ![s] = @ + 1]
  /\ Acknowledge(s)
  /\ UNCHANGED <<cpc, table, alive, held, qend, qlost, warned,
                 startw, cancelw, downVars, wayVars, serverVars>>

\* The receiver is dropped with the stream: what it still held is gone.
DropChannel(s) ==
  /\ q' = [q EXCEPT ![s] = 0]
  /\ qend' = [qend EXCEPT ![s] = FALSE]
  /\ qlost' = [qlost EXCEPT ![s] = FALSE]

\* The outcome ends the call; a refusal is kept until the stream ends.
TakeAnswer(s) ==
  /\ Reading(s) /\ s \in Acts /\ q[s] > 0
  /\ got' = [got EXCEPT ![s] = @ + 1]
  /\ IF s \in performed
     THEN /\ cpc' = [cpc EXCEPT ![s] = "answered"]
          /\ table' = table \ {s}
          /\ DropChannel(s)
     ELSE q' = [q EXCEPT ![s] = @ - 1] /\ UNCHANGED <<cpc, table, qend, qlost>>
  /\ UNCHANGED <<alive, held, unack, warned,
                 upVars, downVars, wayVars, serverVars>>

TakeEnd(s) ==
  /\ Reading(s) /\ q[s] = 0 /\ qend[s]
  /\ cpc' = [cpc EXCEPT ![s] = "complete"]
  /\ table' = table \ {s}
  /\ DropChannel(s)
  /\ UNCHANGED <<alive, held, unack, got, warned,
                 upVars, downVars, wayVars, serverVars>>

\* LinkInner::fail's message, acknowledged like any other failure.
TakeLost(s) ==
  /\ Reading(s) /\ q[s] = 0 /\ ~qend[s] /\ qlost[s]
  /\ qlost' = [qlost EXCEPT ![s] = FALSE]
  /\ warned' = [warned EXCEPT ![s] = TRUE]
  /\ IF s \in Acts THEN UNCHANGED <<unack, grantw>> ELSE Acknowledge(s)
  /\ UNCHANGED <<cpc, table, alive, held, q, qend, got,
                 startw, cancelw, downVars, wayVars, serverVars>>

SendCancel(s) ==
  cancelw' = IF UpOpen THEN [cancelw EXCEPT ![s] = TRUE] ELSE cancelw

\* Every sender is gone, so recv returns None although no End was taken; a
\* query's stream is then dropped unfinished, which sends a Cancel.
TakeClosed(s) ==
  /\ Reading(s) /\ Occupied(s) = 0
  /\ s \notin table /\ held[s] = "none"
  /\ cpc' = [cpc EXCEPT ![s] = IF @ = "stopping" THEN "dropped" ELSE "closed"]
  /\ IF s \in Acts THEN UNCHANGED cancelw ELSE SendCancel(s)
  /\ UNCHANGED <<table, alive, held, chanVars, unack, got, warned,
                 startw, grantw, downVars, wayVars, serverVars>>

\* RemoteStream::cancel: the stream can still be read to what was queued.
Cancel(s) ==
  /\ s \in Droppers /\ cpc[s] = "reading" /\ s \notin Acts
  /\ cpc' = [cpc EXCEPT ![s] = "stopping"]
  /\ table' = table \ {s}
  /\ SendCancel(s)
  /\ UNCHANGED <<alive, held, chanVars, unack, got, warned,
                 startw, grantw, downVars, wayVars, serverVars>>

\* Drop for RemoteStream cancels; a call of act that is dropped has no such
\* handler and leaves its stream registered.
Drop(s) ==
  /\ s \in Droppers /\ Reading(s)
  /\ cpc' = [cpc EXCEPT ![s] = "dropped"]
  /\ DropChannel(s)
  /\ IF s \in Acts
     THEN UNCHANGED <<table, cancelw>>
     ELSE table' = table \ {s} /\ SendCancel(s)
  /\ UNCHANGED <<alive, held, unack, got, warned,
                 startw, grantw, downVars, wayVars, serverVars>>

-----------------------------------------------------------------------------
(* The client: the reader task (spawn_reader) and the end of the link.     *)

\* Mutant: the table is cleared and nobody is told.
FailSilently ==
  /\ alive' = FALSE
  /\ held' = [s \in Stream |-> "none"]
  /\ wire' = [s \in Stream |-> 0]
  /\ endw' = [s \in Stream |-> FALSE]
  /\ table' = {} /\ UNCHANGED qlost

\* LinkInner::fail: every registered stream is told, if its channel has room.
Fail ==
  /\ alive' = FALSE
  /\ held' = [s \in Stream |-> "none"]
  /\ wire' = [s \in Stream |-> 0]
  /\ endw' = [s \in Stream |-> FALSE]
  /\ table' = {}
  /\ qlost' = [s \in Stream |->
                qlost[s] \/ (s \in table /\ Receiving(s) /\ HasRoom(s))]

\* Mutant: an End is routed ahead of the data before it.
RouteEndFirst(s) ==
  /\ ReaderIdle
  /\ \/ /\ wire[s] > 0
        /\ wire' = [wire EXCEPT ![s] = @ - 1]
        /\ held' = [held EXCEPT ![s] = IF s \in table THEN "data" ELSE @]
        /\ UNCHANGED endw
     \/ /\ endw[s]
        /\ endw' = [endw EXCEPT ![s] = FALSE]
        /\ held' = [held EXCEPT ![s] = IF s \in table THEN "end" ELSE @]
        /\ UNCHANGED wire
  /\ UNCHANGED <<cpc, table, alive, chanVars, unack, got, warned,
                 upVars, wayVars, serverVars>>

\* The next frame is read and its stream looked up; a frame for a stream that
\* is gone is dropped.  The sender is cloned and the lock released.
Route(s) ==
  /\ ReaderIdle
  /\ \/ /\ wire[s] > 0
        /\ wire' = [wire EXCEPT ![s] = @ - 1]
        /\ held' = [held EXCEPT ![s] = IF s \in table THEN "data" ELSE @]
        /\ UNCHANGED endw
     \/ /\ wire[s] = 0 /\ endw[s]
        /\ endw' = [endw EXCEPT ![s] = FALSE]
        /\ held' = [held EXCEPT ![s] = IF s \in table THEN "end" ELSE @]
        /\ UNCHANGED wire
  /\ UNCHANGED <<cpc, table, alive, chanVars, unack, got, warned,
                 upVars, wayVars, serverVars>>

\* try_send: a full channel and a closed one both fail the link.
Deliver(s) ==
  /\ alive /\ held[s] # "none"
  /\ IF Receiving(s) /\ HasRoom(s)
     THEN /\ held' = [held EXCEPT ![s] = "none"]
          /\ q' = [q EXCEPT ![s] = IF held[s] = "data" THEN @ + 1 ELSE @]
          /\ qend' = [qend EXCEPT ![s] = @ \/ held[s] = "end"]
          /\ UNCHANGED <<alive, table, qlost, downVars>>
     ELSE Fail /\ UNCHANGED <<q, qend>>
  /\ UNCHANGED <<cpc, unack, got, warned, upVars, wayVars, serverVars>>

\* The transport fails, or the agent's end of it is closed behind every frame.
LinkEnds ==
  /\ ReaderIdle
  /\ \/ cut
     \/ /\ ~serving
        /\ \A s \in Stream : /\ wire[s] = 0 /\ ~endw[s]
                              /\ spc[s] \in {"none", "gone"}
  /\ Fail
  /\ UNCHANGED <<cpc, q, qend, unack, got, warned, upVars, wayVars, serverVars>>

\* Link::hangup, which Drop for Link calls too.
Hangup ==
  /\ MayHangup /\ ~hung
  /\ hung' = TRUE
  /\ UNCHANGED <<cpc, table, alive, held, chanVars, unack, got, warned,
                 upVars, downVars, cut, serverVars>>

\* The environment: the transport fails; frames on their way may be lost.
Cut ==
  /\ MayCut /\ ~cut
  /\ cut' = TRUE
  /\ UNCHANGED <<cpc, table, alive, held, chanVars, unack, got, warned,
                 upVars, downVars, hung, serverVars>>

-----------------------------------------------------------------------------
(* The agent: the loop of `serve`.                                         *)

\* `start`: an agent with no room for the stream says so, at no cost in credit.
Accept(s) ==
  /\ serving /\ startw[s]
  /\ startw' = [startw EXCEPT ![s] = FALSE]
  /\ IF Cardinality(open) >= MaxStreams
     THEN /\ wire' = [wire EXCEPT ![s] = IF DownOpen THEN @ + 1 ELSE @]
          /\ endw' = [endw EXCEPT ![s] = DownOpen]
          /\ sent' = [sent EXCEPT ![s] = @ + 1]
          /\ spc' = [spc EXCEPT ![s] = "gone"]
          /\ UNCHANGED <<open, credit>>
     ELSE /\ open' = open \cup {s}
          /\ credit' = [credit EXCEPT ![s] = Window]
          /\ spc' = [spc EXCEPT ![s] = "body"]
          /\ UNCHANGED <<downVars, sent>>
  /\ UNCHANGED <<cpc, table, alive, held, chanVars, unack, got, warned,
                 grantw, cancelw, wayVars, exits, serving, cancelled, performed>>

\* `grant`, with its ceiling; credit for a stream that is gone is ignored.
GrantArrives(s) ==
  /\ serving /\ ~startw[s] /\ grantw[s] >= Batch
  /\ grantw' = [grantw EXCEPT ![s] = @ - Batch]
  /\ LET raised == IF credit[s] + Batch <= MaxCredit THEN credit[s] + Batch
                   ELSE IF credit[s] <= MaxCredit THEN MaxCredit ELSE credit[s]
     IN credit' = IF s \in open THEN [credit EXCEPT ![s] = raised] ELSE credit
  /\ UNCHANGED <<cpc, table, alive, held, chanVars, unack, got, warned,
                 startw, cancelw, downVars, wayVars,
                 exits, serving, open, cancelled, spc, performed, sent>>

\* Mutant: the stream leaves the table and its token does not fire.
CancelForgetsToken(s) ==
  /\ serving /\ ~startw[s] /\ grantw[s] = 0 /\ cancelw[s]
  /\ cancelw' = [cancelw EXCEPT ![s] = FALSE]
  /\ open' = open \ {s}
  /\ credit' = [credit EXCEPT ![s] = 0]
  /\ UNCHANGED <<cpc, table, alive, held, chanVars, unack, got, warned,
                 startw, grantw, downVars, wayVars,
                 exits, serving, cancelled, spc, performed, sent>>

\* The stream leaves the table, its token fires and its semaphore is closed.
CancelArrives(s) ==
  /\ serving /\ ~startw[s] /\ grantw[s] = 0 /\ cancelw[s]
  /\ cancelw' = [cancelw EXCEPT ![s] = FALSE]
  /\ open' = open \ {s}
  /\ cancelled' = [cancelled EXCEPT ![s] = @ \/ s \in open]
  /\ credit' = [credit EXCEPT ![s] = 0]
  /\ UNCHANGED <<cpc, table, alive, held, chanVars, unack, got, warned,
                 startw, grantw, downVars, wayVars,
                 exits, serving, spc, performed, sent>>

\* The caller disconnected or the transport failed.  The tasks of the open
\* streams are left running, unless the process ends with its session.
ServeEnds ==
  /\ serving
  /\ \/ cut
     \/ hung /\ \A s \in Stream : ~startw[s] /\ grantw[s] = 0 /\ ~cancelw[s]
  /\ serving' = FALSE
  /\ cut' = (cut \/ exits)
  /\ startw' = [s \in Stream |-> FALSE]
  /\ grantw' = [s \in Stream |-> 0]
  /\ cancelw' = [s \in Stream |-> FALSE]
  /\ spc' = IF exits THEN [s \in Stream |-> "gone"] ELSE spc
  /\ UNCHANGED <<cpc, table, alive, held, chanVars, unack, got, warned,
                 downVars, hung,
                 exits, open, credit, cancelled, performed, sent>>

-----------------------------------------------------------------------------
(* The agent: a stream's task.  The service is external: a query's body    *)
(* sends up to Items frames, stops when a send is refused, and returns     *)
(* with or without an error.                                               *)

TaskGoes(s, to) == spc' = [spc EXCEPT ![s] = to]

OtherThanTask == <<cpc, table, alive, held, chanVars, unack, got, warned,
                   upVars, wayVars, exits, serving, cancelled>>

Produce(s) ==
  /\ spc[s] = "body" /\ s \notin Acts
  /\ \/ sent[s] < Items /\ ~cancelled[s] /\ TaskGoes(s, "sending")
     \/ TaskGoes(s, "finish")
     \/ TaskGoes(s, "failing")
  /\ UNCHANGED <<OtherThanTask, downVars, open, credit, performed, sent>>

Perform(s) ==
  /\ spc[s] = "body" /\ s \in Acts
  /\ \/ TaskGoes(s, "replying") /\ performed' = performed \cup {s}
     \/ TaskGoes(s, "failing") /\ UNCHANGED performed
  /\ UNCHANGED <<OtherThanTask, downVars, open, credit, sent>>

\* StreamResponder::emit waits for credit, and gives up on a cancelled stream.
Emit(s) ==
  /\ spc[s] \in {"sending", "replying", "failing"}
  /\ TaskGoes(s, IF spc[s] = "sending" THEN "body" ELSE "finish")
  /\ \/ cancelled[s] /\ UNCHANGED <<credit, wire, sent>>
     \/ /\ ~cancelled[s] /\ credit[s] > 0
        /\ credit' = [credit EXCEPT ![s] = @ - 1]
        /\ wire' = [wire EXCEPT ![s] = IF DownOpen THEN @ + 1 ELSE @]
        /\ sent' = [sent EXCEPT ![s] = @ + 1]
  /\ UNCHANGED <<OtherThanTask, endw, open, performed>>

\* End costs no credit, and leaves before the stream leaves the table.
Finish(s) ==
  /\ spc[s] = "finish"
  /\ TaskGoes(s, "remove")
  /\ endw' = [endw EXCEPT ![s] = DownOpen]
  /\ UNCHANGED <<OtherThanTask, wire, open, credit, performed, sent>>

Remove(s) ==
  /\ spc[s] = "remove"
  /\ TaskGoes(s, "gone")
  /\ open' = open \ {s}
  /\ credit' = [credit EXCEPT ![s] = 0]
  /\ UNCHANGED <<OtherThanTask, downVars, performed, sent>>

-----------------------------------------------------------------------------
Opens(s)    == Insert(s) \/ Start(s)
Consumer(s) == TakeData(s) \/ TakeAnswer(s) \/ TakeEnd(s) \/ TakeLost(s)
                 \/ TakeClosed(s)
Reader      == (\E s \in Stream : Route(s) \/ Deliver(s)) \/ LinkEnds
Serve       == ServeEnds \/ \E s \in Stream :
                 Accept(s) \/ GrantArrives(s) \/ CancelArrives(s)
Task(s)     == Produce(s) \/ Perform(s) \/ Emit(s) \/ Finish(s) \/ Remove(s)

Next ==
  \/ \E s \in Stream :
       \/ Check(s) \/ Opens(s) \/ Consumer(s) \/ Cancel(s) \/ Drop(s)
       \/ Task(s)
  \/ Reader \/ Serve \/ Hangup \/ Cut

Spec == Init /\ [][Next]_vars

\* Every task the runtime polls goes on: a caller inside open, a consumer that
\* keeps reading, the reader task, the agent's loop and the streams' tasks.
Fairness ==
  /\ \A s \in Stream : WF_vars(Opens(s) \/ Consumer(s)) /\ WF_vars(Task(s))
  /\ WF_vars(Reader) /\ WF_vars(Serve)

FairSpec == Spec /\ Fairness

-----------------------------------------------------------------------------
(* Properties.                                                             *)

\* The invariant link.rs states for its credit: as long as the link lives, the
\* agent has sent no more on a stream than its consumer has taken and a window.
SentWithinWindow == alive => \A s \in Stream : sent[s] <= got[s] + Window

\* The reader's try_send never meets a full channel: credit alone keeps an
\* agent of this code inside the channel's Window + 1 places, the End and the
\* refusals that cost no credit included.
NeverOverrun ==
  \A s \in Stream : held[s] # "none" /\ Receiving(s) => HasRoom(s)

\* A stream that ends in End has given its consumer everything its producer
\* sent, and the producer will send no more.
CompleteMeansAll ==
  \A s \in Stream : cpc[s] = "complete" =>
    got[s] = sent[s] /\ spc[s] \in {"remove", "gone"}

\* LinkInner::fail tells a stream with try_send and ignores a full channel.
\* A query that is cut short is nevertheless never mistaken for one that is
\* finished: before recv returns None without an End the consumer has been
\* given the link's failure.
ClosedIsTold ==
  \A s \in Stream : cpc[s] = "closed" /\ s \notin Acts => warned[s]

\* A request whose consumer keeps reading comes to an end: granting credit in
\* half-window batches never leaves both ends waiting, and a link that fails
\* wakes every stream registered before it failed.  The one exception is an
\* agent that outlives a session whose caller hung up.
StreamsEnd ==
  \A s \in Stream : (cpc[s] = "reading" /\ alive) ~>
    (cpc[s] \in Ended \/ (hung /\ ~exits))

\* Dropping a remote stream ends its producer, also one that is waiting for
\* credit it will never be granted.
DropStopsProducer ==
  \A s \in Stream \ Acts :
    (cpc[s] = "dropped" /\ (startw[s] \/ spc[s] # "none")) ~>
      (spc[s] = "gone" \/ ~serving)

\* Said by the tests of the link: "cancelling one stream must not disturb
\* another on the same connection".
CancelDisturbsNobody == ~alive => cut \/ hung
=============================================================================
