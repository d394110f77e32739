---------------------------- MODULE ObjectPipeline ----------------------------
(***************************************************************************)
(* A native pipeline (ono-pipeline): a source, stages and a consumer, each *)
(* a task, joined by pairs of bounded channels, one for values and one for *)
(* failures of single items, under one cancellation scope.                 *)
(*                                                                         *)
(* The source produces the events 1 .. Events, each a value or a failure.  *)
(* An endless source produces the value 1 for ever.  Stage s reads the     *)
(* channels of s - 1 and writes its own; the source is stage 0, and the    *)
(* consumer reads the channels of the last stage.                          *)
(***************************************************************************)
EXTENDS Naturals, Sequences, FiniteSets, SequencesExt

CONSTANTS
  Events,     \* how many events the source has
  MayFail,    \* whether an item may fail
  Depth,      \* how many stages a pipeline has
  Pipelines,  \* the pipelines: the transform of each stage
  Endless,    \* those whose source goes on for ever, and never fails
  Capacity,   \* of every channel
  Limit,      \* how many values `take` takes
  Budget,     \* how many values `sort` may hold
  MayCancel,  \* whether somebody cancels the scope
  MayDrop     \* whether the consumer stops reading and drops the stream

ASSUME PipelineAssumption ==
  /\ Events \in Nat /\ Limit \in Nat /\ Budget \in Nat
  /\ Capacity \in Nat \ {0} /\ Depth \in Nat \ {0}
  /\ Pipelines \subseteq [1 .. Depth -> {"where", "take", "count", "sort"}]
  /\ Endless \subseteq Pipelines /\ {MayFail, MayCancel, MayDrop} \subseteq BOOLEAN

Final == Depth
Stage == 0 .. Final

VARIABLES
  kinds,      \* the pipeline at work
  pc,         \* where each task is
  held,       \* what it is about to send
  keep,       \* the values it has collected (count, sort), or taken (take)
  charged,    \* how many values it has charged to its budget (sort)
  failed,     \* saw_failure of its input
  vals, errs, \* the channels it writes
  next,       \* the source's next event
  cancelled, reported,  \* the cancellation scope
  consumer,   \* "open", "ended" or "gone"
  got, gotErr,          \* what the consumer received
  reports,    \* how many cancellation reports it received
  \* history
  dropped,    \* the events a predicate dropped
  errors,     \* the events for which a failure was put on a channel
  cut         \* the tasks that ended because a send was refused

scope == <<cancelled, reported>>
received == <<consumer, got, gotErr, reports>>
history == <<dropped, errors, cut>>
vars == <<kinds, pc, held, keep, charged, failed, vals, errs, next, scope, received, history>>

Kind(s) == IF s = 0 THEN "source" ELSE kinds[s]
IsEndless == kinds \in Endless
Fails == MayFail /\ ~IsEndless

-----------------------------------------------------------------------------
(* Sending *)

\* The reader of a task's channels is gone.
Closed(s) == IF s = Final THEN consumer # "open" ELSE pc[s + 1] = "done"

\* What a task has in hand, where it goes on once that is sent, and where if
\* the send is refused.
Hold(s, event, then, refused) ==
  held' = [held EXCEPT ![s] = [event |-> event, then |-> then, refused |-> refused]]

Goto(s, label) == pc' = [pc EXCEPT ![s] = label]

\* A mutant: the two arms of the select race, so a cancelled scope may go
\* unnoticed.
PollUnbiased(s) ==
  /\ pc[s] \in {"send", "fail"}
  /\ \/ Len(IF pc[s] = "send" THEN vals[s] ELSE errs[s]) < Capacity
     \/ Closed(s)
  /\ Goto(s, IF pc[s] = "send" THEN "push" ELSE "push-failure")
  /\ UNCHANGED <<held, keep, charged, failed, vals, errs, next, scope, received, history>>

\* The biased select of send and fail: cancellation is looked at first.  A
\* task for which the channel is full waits, and looks again when it wakes.
Poll(s) ==
  /\ pc[s] \in {"send", "fail"}
  /\ ~cancelled
  /\ \/ Len(IF pc[s] = "send" THEN vals[s] ELSE errs[s]) < Capacity
     \/ Closed(s)
  /\ Goto(s, IF pc[s] = "send" THEN "push" ELSE "push-failure")
  /\ UNCHANGED <<held, keep, charged, failed, vals, errs, next, scope, received, history>>

\* send or fail answered SinkClosed.
Refused(s) ==
  /\ cut' = cut \cup {s}
  /\ Goto(s, held[s].refused)
  /\ UNCHANGED <<held, keep, charged, failed, vals, errs, next, scope, received, dropped, errors>>

\* A mutant: the scope is looked at before the wait for room and not during it.
RefusedWithRoom(s) ==
  /\ pc[s] \in {"send", "fail"}
  /\ cancelled
  /\ Len(IF pc[s] = "send" THEN vals[s] ELSE errs[s]) < Capacity
  /\ Refused(s)

RefusedByCancel(s) == pc[s] \in {"send", "fail"} /\ cancelled /\ Refused(s)
RefusedByReader(s) == pc[s] \in {"push", "push-failure"} /\ Closed(s) /\ Refused(s)

Push(s) ==
  /\ pc[s] = "push"
  /\ ~Closed(s)
  /\ vals' = [vals EXCEPT ![s] = Append(@, held[s].event)]
  /\ Goto(s, held[s].then)
  /\ UNCHANGED <<held, keep, charged, failed, errs, next, scope, received, history>>

PushFailure(s) ==
  /\ pc[s] = "push-failure"
  /\ ~Closed(s)
  /\ errs' = [errs EXCEPT ![s] = Append(@, held[s].event)]
  /\ errors' = errors \cup {held[s].event}
  /\ Goto(s, held[s].then)
  /\ UNCHANGED <<held, keep, charged, failed, vals, next, scope, received, dropped, cut>>

-----------------------------------------------------------------------------
(* The source *)

Produce ==
  /\ pc[0] = "read"
  /\ next <= Events
  /\ \E label \in {"send"} \cup (IF Fails THEN {"fail"} ELSE {}) : Goto(0, label)
  /\ Hold(0, next, "read", "done")
  /\ next' = IF IsEndless THEN next ELSE next + 1
  /\ UNCHANGED <<keep, charged, failed, vals, errs, scope, received, history>>

SourceEnds ==
  /\ pc[0] = "read"
  /\ next > Events
  /\ Goto(0, "done")
  /\ UNCHANGED <<held, keep, charged, failed, vals, errs, next, scope, received, history>>

-----------------------------------------------------------------------------
(* The stages *)

\* forward_at_most stops reading when it has sent its values.
Satisfied(s) == Kind(s) = "take" /\ Len(keep[s]) = Limit

Reading(s) == s > 0 /\ pc[s] = "read" /\ ~Satisfied(s)

Stop(s) ==
  /\ s > 0
  /\ pc[s] = "read"
  /\ Satisfied(s)
  /\ Goto(s, "done")
  /\ UNCHANGED <<held, keep, charged, failed, vals, errs, next, scope, received, history>>

\* A mutant: the stage swallows the failures of the one before it.
SwallowFailure(s) ==
  /\ Reading(s)
  /\ errs[s - 1] # <<>>
  /\ errs' = [errs EXCEPT ![s - 1] = Tail(@)]
  /\ failed' = [failed EXCEPT ![s] = TRUE]
  /\ UNCHANGED <<charged, pc, held, keep, vals, next, scope, received, history>>

\* After its input a stage that collects has something to send.
AtEnd(s) == IF Kind(s) \in {"count", "sort"} THEN "finish" ELSE "done"

\* next_value passes a failure on before it reads again.  If it is refused the
\* stage takes it for the end of its input, and what it then sends is refused
\* in turn.
ForwardFailure(s) ==
  /\ Reading(s)
  /\ errs[s - 1] # <<>>
  /\ errs' = [errs EXCEPT ![s - 1] = Tail(@)]
  /\ failed' = [failed EXCEPT ![s] = TRUE]
  /\ Hold(s, Head(errs[s - 1]), "read", AtEnd(s))
  /\ Goto(s, "fail")
  /\ UNCHANGED <<charged, keep, vals, next, scope, received, history>>

NextValue(s) ==
  /\ Reading(s)
  /\ vals[s - 1] # <<>>
  /\ vals' = [vals EXCEPT ![s - 1] = Tail(@)]

\* where: keep it, drop it, or report that the predicate could not be told.
Where(s) ==
  /\ Kind(s) = "where"
  /\ NextValue(s)
  /\ \/ /\ Goto(s, "send")
        /\ Hold(s, Head(vals[s - 1]), "read", "done")
        /\ UNCHANGED dropped
     \/ /\ dropped' = dropped \cup {Head(vals[s - 1])}
        /\ UNCHANGED <<pc, held>>
     \/ /\ Fails
        /\ Goto(s, "fail")
        /\ Hold(s, Head(vals[s - 1]), "read", "done")
        /\ UNCHANGED dropped
  /\ UNCHANGED <<keep, charged, failed, errs, next, scope, received, errors, cut>>

Take(s) ==
  /\ Kind(s) = "take"
  /\ NextValue(s)
  /\ keep' = [keep EXCEPT ![s] = Append(@, Head(vals[s - 1]))]
  /\ Hold(s, Head(vals[s - 1]), "read", "done")
  /\ Goto(s, "send")
  /\ UNCHANGED <<charged, failed, errs, next, scope, received, history>>

\* count does not count a null.
Count(s) ==
  /\ Kind(s) = "count"
  /\ NextValue(s)
  /\ \/ /\ keep' = [keep EXCEPT ![s] = Append(@, Head(vals[s - 1]))]
        /\ UNCHANGED dropped
     \/ /\ dropped' = dropped \cup {Head(vals[s - 1])}
        /\ UNCHANGED keep
  /\ UNCHANGED <<pc, held, charged, failed, errs, next, scope, received, errors, cut>>

\* sort charges a value, and keeps it unless its key cannot be told.
Collect(s) ==
  /\ Kind(s) = "sort"
  /\ charged[s] < Budget
  /\ NextValue(s)
  /\ charged' = [charged EXCEPT ![s] = @ + 1]
  /\ \/ /\ keep' = [keep EXCEPT ![s] = Append(@, Head(vals[s - 1]))]
        /\ UNCHANGED <<pc, held>>
     \/ /\ Fails
        /\ Goto(s, "fail")
        /\ Hold(s, Head(vals[s - 1]), "read", "done")
        /\ UNCHANGED keep
  /\ UNCHANGED <<failed, errs, next, scope, received, history>>

\* sort refuses the value its budget does not admit, and returns.
Exceed(s) ==
  /\ Kind(s) = "sort"
  /\ charged[s] = Budget
  /\ NextValue(s)
  /\ Hold(s, Head(vals[s - 1]), "done", "done")
  /\ Goto(s, "fail")
  /\ UNCHANGED <<keep, charged, failed, errs, next, scope, received, history>>

\* recv_raw answered None: the task before is gone and both channels are empty.
Drained(s) == pc[s - 1] = "done" /\ vals[s - 1] = <<>> /\ errs[s - 1] = <<>>

InputEnds(s) ==
  /\ Reading(s)
  /\ Drained(s)
  /\ Goto(s, AtEnd(s))
  /\ UNCHANGED <<held, keep, charged, failed, vals, errs, next, scope, received, history>>

Sorted(values) == SortSeq(values, LAMBDA x, y : x > y)

\* count answers unless all it saw was a failure; sort sends what it holds,
\* here in descending order.
Finish(s) ==
  /\ pc[s] = "finish"
  /\ IF Kind(s) = "count"
     THEN IF keep[s] = <<>> /\ failed[s]
          THEN Goto(s, "done") /\ UNCHANGED <<held, keep>>
          ELSE Goto(s, "send") /\ Hold(s, Len(keep[s]), "done", "done") /\ UNCHANGED keep
     ELSE IF keep[s] = <<>>
          THEN Goto(s, "done") /\ UNCHANGED <<held, keep>>
          ELSE /\ Goto(s, "send")
               /\ Hold(s, Head(Sorted(keep[s])), "finish", "done")
               /\ keep' = [keep EXCEPT ![s] = Tail(Sorted(@))]
  /\ UNCHANGED <<charged, failed, vals, errs, next, scope, received, history>>

-----------------------------------------------------------------------------
(* The consumer, and whoever cancels *)

Receive ==
  /\ consumer = "open"
  /\ \/ /\ vals[Final] # <<>>
        /\ got' = Append(got, Head(vals[Final]))
        /\ vals' = [vals EXCEPT ![Final] = Tail(@)]
        /\ UNCHANGED <<errs, gotErr>>
     \/ /\ errs[Final] # <<>>
        /\ gotErr' = Append(gotErr, Head(errs[Final]))
        /\ errs' = [errs EXCEPT ![Final] = Tail(@)]
        /\ UNCHANGED <<vals, got>>
  /\ UNCHANGED <<pc, held, keep, charged, failed, next, scope, consumer, reports, history>>

\* A mutant: the report is not claimed.
ReportAgain ==
  /\ consumer = "open"
  /\ Drained(Final + 1)
  /\ cancelled
  /\ reports < 2
  /\ reports' = reports + 1
  /\ UNCHANGED <<pc, held, keep, charged, failed, vals, errs, next, scope, consumer, got,
                 gotErr, history>>

\* The consumer of a cancelled scope is told so once, before the end.
Report ==
  /\ consumer = "open"
  /\ Drained(Final + 1)
  /\ cancelled
  /\ ~reported
  /\ reported' = TRUE
  /\ reports' = reports + 1
  /\ UNCHANGED <<pc, held, keep, charged, failed, vals, errs, next, cancelled, consumer, got,
                 gotErr, history>>


End ==
  /\ consumer = "open"
  /\ Drained(Final + 1)
  /\ ~cancelled \/ reported
  /\ consumer' = "ended"
  /\ UNCHANGED <<pc, held, keep, charged, failed, vals, errs, next, scope, got, gotErr,
                 reports, history>>

Drop ==
  /\ MayDrop
  /\ consumer = "open"
  /\ consumer' = "gone"
  /\ UNCHANGED <<pc, held, keep, charged, failed, vals, errs, next, scope, got, gotErr,
                 reports, history>>

Cancel ==
  /\ MayCancel
  /\ ~cancelled
  /\ consumer = "open"
  /\ cancelled' = TRUE
  /\ UNCHANGED <<pc, held, keep, charged, failed, vals, errs, next, reported, received, history>>

-----------------------------------------------------------------------------

Init ==
  /\ kinds \in Pipelines
  /\ pc = [s \in Stage |-> "read"]
  /\ held = [s \in Stage |-> [event |-> 0, then |-> "done", refused |-> "done"]]
  /\ keep = [s \in Stage |-> <<>>]
  /\ charged = [s \in Stage |-> 0]
  /\ failed = [s \in Stage |-> FALSE]
  /\ vals = [s \in Stage |-> <<>>]
  /\ errs = [s \in Stage |-> <<>>]
  /\ next = 1
  /\ cancelled = FALSE
  /\ reported = FALSE
  /\ consumer = "open"
  /\ got = <<>>
  /\ gotErr = <<>>
  /\ reports = 0
  /\ dropped = {}
  /\ errors = {}
  /\ cut = {}

Source == Produce \/ SourceEnds

Task(s) ==
  /\ \/ Poll(s) \/ RefusedByCancel(s) \/ RefusedByReader(s) \/ Push(s) \/ PushFailure(s)
     \/ s = 0 /\ Source
     \/ Stop(s) \/ ForwardFailure(s) \/ Where(s) \/ Take(s) \/ Count(s) \/ Collect(s)
     \/ Exceed(s) \/ InputEnds(s) \/ Finish(s)
  /\ UNCHANGED kinds

Consumer == (Receive \/ Report \/ End) /\ UNCHANGED kinds

Next ==
  \/ \E s \in Stage : Task(s)
  \/ Consumer
  \/ (Drop \/ Cancel) /\ UNCHANGED kinds

Spec == Init /\ [][Next]_vars

\* The runtime polls every task that can go on.
TasksRun == \A s \in Stage : WF_vars(Task(s))

\* The consumer may stop reading without dropping the stream.
FairSpec == Spec /\ TasksRun

-----------------------------------------------------------------------------
(* Properties *)

\* The variables are well typed, and no channel exceeds its capacity.
TypeOK ==
  /\ pc \in [Stage -> {"read", "send", "push", "fail", "push-failure", "finish", "done"}]
  /\ held \in [Stage -> [event : 0 .. Events, then : {"read", "finish", "done"},
                      refused : {"finish", "done"}]]
  /\ \A s \in Stage : Len(vals[s]) <= Capacity /\ Len(errs[s]) <= Capacity
  /\ \A s \in Stage : charged[s] <= Budget
  /\ next \in 1 .. Events + 1
  /\ consumer \in {"open", "ended", "gone"}
  /\ reports \in 0 .. 1

Increasing(seq) == \A i, j \in DOMAIN seq : i < j => seq[i] < seq[j]

\* Within the value channel the order is total: whatever tasks do in between,
\* the consumer of a source whose values differ sees the values in the order they
\* were produced (or, after a sort, in that order), none of them twice, and no
\* failure twice.
ChannelOrder ==
  ~IsEndless =>
  /\ IF \E s \in 1 .. Final : Kind(s) = "sort"
     THEN Increasing(Reverse(got)) ELSE Increasing(got)
  /\ IsInjective(gotErr)

\* A filtered stream read to its end without a cancellation has delivered every
\* event: as a value, as a failure, or dropped by a predicate; and what any
\* stream delivers is in order and delivered once.
NothingLost ==
  /\ ChannelOrder
  /\ consumer = "ended" /\ ~cancelled /\ Range(kinds) = {"where"} =>
       1 .. Events = ToSet(got) \cup ToSet(gotErr) \cup dropped

\* A count that reaches the consumer is a count of everything: no stage before
\* it was cut short, whenever the scope was cancelled.
CountOfEverything ==
  Kind(Final) = "count" /\ got # <<>> =>
    got[1] + Cardinality(errors \cup dropped) = Events


AllDone == \A s \in Stage : pc[s] = "done"

\* A cancelled pipeline stops, even one whose source never would, and even if
\* the consumer has stopped reading.
CancelStops == cancelled ~> AllDone

\* A pipeline over a source with an end comes to it, if its consumer reads on.
PipelineEnds ==
  ~IsEndless /\ WF_vars(Consumer) => <>(AllDone /\ consumer # "open")

\* "a later stage must not swallow an earlier stage's failures"
FailuresCarried ==
  consumer = "ended" /\ ~cancelled => errors = ToSet(gotErr)
=============================================================================
