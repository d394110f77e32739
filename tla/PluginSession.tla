---------------------------- MODULE PluginSession ----------------------------
(***************************************************************************)
(* A KUANG/11 package instance and the shell that supervises it: the       *)
(* actor of ono-kuang-supervisor (supervisor.rs), the runtime of           *)
(* ono-kuang-sdk that package authors link (plugin.rs), and the shell's    *)
(* consumer of a contributed target (stream_of in plugin_provider.rs).     *)
(*                                                                         *)
(* The actor is one task.  It takes turns between the messages of the      *)
(* shell and the frames of the instance.  The instance has a thread that   *)
(* reads frames and one worker per open invocation, which share the credit *)
(* of each output stream, a table of unanswered host calls and a condition *)
(* variable per invocation.  A frame names its kind k, the invocation i    *)
(* it concerns and, where it carries one, a credit n.                      *)
(*                                                                         *)
(* External: the two pipes and the process, the terminal that draws views, *)
(* and the package's handlers.  A handler emits values or drives one view, *)
(* and returns when a call fails, as EmitError asks it to.                 *)
(***************************************************************************)
EXTENDS Naturals, Sequences, FiniteSets

CONSTANTS
  Emitters,    \* the invocations whose handler emits values
  Viewers,     \* those whose handler opens a view
  Depth,       \* limits.queue_depth, the credit a stream starts with
  Plans        \* what an instance goes through: its effective ceiling, the
               \* invocations made of it, how many values each may emit, and what
               \* may happen to it

Events == {"invalid", "cancel", "escape", "shutdown", "crash", "die"}
Inv == Emitters \cup Viewers

ASSUME SessionAssumption ==
  /\ Emitters \cap Viewers = {}
  /\ Depth \in Nat \ {0}
  /\ Plans \subseteq [ceiling : Nat \ {0}, made : SUBSET Inv, values : Nat,
                      may : SUBSET Events]

VARIABLES
  \* the shell's consumers (RunningInvocation, stream_of)
  call,      \* how far each is
  queue,     \* the values its receiver holds
  over,      \* how its stream ended: not yet, dropped, or with an error
  result,    \* what its oneshot holds
  taken,     \* the values it has delivered
  msgs,      \* the actor's mailbox
  \* the actor
  actor,     \* running, draining for a shutdown, stopped, or killed with the shell
  base,      \* Lifecycle.base
  active,    \* Lifecycle.invocations
  stream,    \* the output streams: none, open or cancelled
  credit,    \* OutStream.credit
  pending,   \* the invocations whose answer it awaits
  failed,    \* fail_instance has run and the loop goes on
  views,     \* open_views, named by the invocation that opened each
  timers,    \* the views with a call deadline running
  \* the pipes
  toPlugin, toHost,
  \* the instance
  proc,      \* whether its process exists
  plan,      \* the member of Plans the behaviour follows
  loop,      \* where the reading loop is
  live,      \* Live.invocations
  owned,     \* the owners in Live.views
  work,      \* where each worker is
  op,        \* the host call it makes
  pcredit,   \* InvocationState.credit
  pcancel,   \* those with InvocationState.cancelled
  events,    \* InvocationState.events
  calls,     \* the unanswered calls, by the invocation that made them
  emitted,   \* the emissions answered Ok
  outcome,   \* what the handler returned
  \* history
  crashed,   \* the instance died by itself
  answered   \* the invocations whose answer the actor took

shellVars == <<call, queue, over, result, taken, msgs>>
tableVars == <<base, active, stream, credit, pending, failed>>
viewVars  == <<views, timers>>
hostVars  == <<actor, tableVars, viewVars>>
workVars  == <<work, op, emitted, outcome>>
sharedVars == <<live, owned, pcredit, pcancel, events, calls>>
instVars  == <<proc, plan, loop, workVars, sharedVars>>
histVars  == <<crashed, answered>>
vars == <<shellVars, hostVars, toPlugin, toHost, instVars, histVars>>

Frame(k, i)       == [k |-> k, i |-> i, n |-> 0]
Credits(i, n)     == [k |-> "emitted", i |-> i, n |-> n]
Statuses          == {"completed", "failed", "cancelled"}
HostKinds         == {"invoke", "demand", "cancel", "shutdown", "emitted",
                      "refused", "mounted", "unmounted", "closed",
                      "mount", "event", "unmount"}
PluginKinds       == Statuses \cup {"emit", "invalid", "open", "close",
                                    "reply", "ack", "torn"}
MsgKinds          == {"invoke", "demand", "cancel", "shutdown", "event", "force"}
Frames(kinds)     == [k : kinds, i : Inv, n : 0 .. Depth]

\* A request that concerns no invocation names this one.
Someone == CHOOSE i \in Inv : TRUE

\* AtomicBool ended.
Ended == loop \in {"clear", "wake", "ended"}

TypeOK ==
  /\ call \in [Inv -> {"new", "asked", "open", "warned", "finish", "clean",
                       "told", "refused", "dropped"}]
  /\ queue \in [Inv -> 0 .. plan.values] /\ taken \in [Inv -> 0 .. plan.values]
  /\ over \in [Inv -> {"no", "end", "failed"}]
  /\ result \in [Inv -> Statuses \cup {"none"}]
  /\ msgs \in Seq([k : MsgKinds, i : Inv])
  /\ actor \in {"running", "draining", "stopped", "dead"}
  /\ base \in {"loaded", "enabled", "quarantined"}
  /\ active \in 0 .. Cardinality(Inv)
  /\ stream \in [Inv -> {"none", "open", "cancelled"}]
  /\ credit \in [Inv -> 0 .. Depth]
  /\ pending \subseteq Inv /\ views \subseteq Inv /\ timers \subseteq Inv
  /\ toPlugin \in Seq(Frames(HostKinds)) /\ toHost \in Seq(Frames(PluginKinds))
  /\ proc \in {"up", "gone"} /\ plan \in Plans
  /\ loop \in {"read", "stop", "end", "clear", "wake", "ended"}
  /\ live \subseteq Inv /\ owned \subseteq Inv /\ pcancel \subseteq Inv
  /\ calls \subseteq Inv /\ answered \subseteq Inv
  /\ work \in [Inv -> {"none", "run", "idle", "insert", "send",
                       "await", "view", "leave", "answer", "done"}]
  /\ op \in [Inv -> {"emit", "invalid", "open", "close"}]
  /\ pcredit \in [Inv -> 0 .. Depth]
  /\ events \in [Inv -> Seq({"mount", "event", "unmount"})]
  /\ emitted \in [Inv -> 0 .. plan.values]
  /\ outcome \in [Inv -> Statuses]
  /\ failed \in BOOLEAN /\ crashed \in BOOLEAN

\* An instance is loaded, its handshake is over and nothing is running.
Init ==
  /\ call = [i \in Inv |-> "new"] /\ queue = [i \in Inv |-> 0]
  /\ over = [i \in Inv |-> "no"] /\ result = [i \in Inv |-> "none"]
  /\ taken = [i \in Inv |-> 0] /\ msgs = <<>>
  /\ actor = "running" /\ base = "loaded" /\ active = 0
  /\ stream = [i \in Inv |-> "none"] /\ credit = [i \in Inv |-> 0]
  /\ pending = {} /\ failed = FALSE /\ views = {} /\ timers = {}
  /\ toPlugin = <<>> /\ toHost = <<>>
  /\ proc = "up" /\ plan \in Plans /\ loop = "read"
  /\ live = {} /\ owned = {} /\ pcancel = {} /\ calls = {}
  /\ work = [i \in Inv |-> "none"] /\ op = [i \in Inv |-> "emit"]
  /\ pcredit = [i \in Inv |-> 0] /\ events = [i \in Inv |-> <<>>]
  /\ emitted = [i \in Inv |-> 0] /\ outcome = [i \in Inv |-> "completed"]
  /\ crashed = FALSE /\ answered = {}

-----------------------------------------------------------------------------
(* The shell: stream_of over a RunningInvocation.                          *)

Post(k, i) ==
  msgs' = IF actor = "stopped" THEN msgs ELSE Append(msgs, [k |-> k, i |-> i])

\* LoadedPlugin::query and LoadedPlugin::invoke.
Invoke(i) ==
  /\ actor # "dead" /\ i \in plan.made /\ call[i] = "new"
  /\ call' = [call EXCEPT ![i] = IF actor = "stopped" THEN "refused" ELSE "asked"]
  /\ Post("invoke", i)
  /\ UNCHANGED <<queue, over, result, taken, hostVars, toPlugin, toHost,
                 instVars, histVars>>

\* A value taken is one more credit for the producer.
Take(i) ==
  /\ actor # "dead" /\ call[i] = "open" /\ queue[i] > 0
  /\ queue' = [queue EXCEPT ![i] = @ - 1]
  /\ taken' = [taken EXCEPT ![i] = @ + 1]
  /\ Post("demand", i)
  /\ UNCHANGED <<call, over, result, hostVars, toPlugin, toHost, instVars, histVars>>

\* The error a stream ended with is an event like any other, and asks for more.
SeeEnd(i) ==
  /\ actor # "dead" /\ call[i] = "open" /\ queue[i] = 0
  /\ \/ /\ over[i] = "failed" /\ Post("demand", i)
        /\ call' = [call EXCEPT ![i] = "warned"]
     \/ /\ over[i] = "end" /\ UNCHANGED msgs
        /\ call' = [call EXCEPT ![i] = "finish"]
  /\ UNCHANGED <<queue, over, result, taken, hostVars, toPlugin, toHost,
                 instVars, histVars>>

\* The stream's end is not the invocation's: its result is read before the
\* pipeline is told that the query is done.
Finish(i) ==
  /\ actor # "dead" /\ call[i] \in {"warned", "finish"}
  /\ result[i] # "none" \/ actor = "stopped"
  /\ call' = [call EXCEPT ![i] =
       IF @ = "warned" \/ result[i] \in {"none", "failed"} THEN "told" ELSE "clean"]
  /\ UNCHANGED <<queue, over, result, taken, msgs, hostVars, toPlugin, toHost,
                 instVars, histVars>>

\* The pipeline is cancelled, or has what it wanted: the cancel is delivered and
\* the invocation is dropped.
Cancel(i) ==
  /\ actor # "dead" /\ "cancel" \in plan.may /\ call[i] \in {"open", "warned"}
  /\ call' = [call EXCEPT ![i] = "dropped"]
  /\ queue' = [queue EXCEPT ![i] = 0]
  /\ Post("cancel", i)
  /\ UNCHANGED <<over, result, taken, hostVars, toPlugin, toHost, instVars, histVars>>

\* LoadedPlugin::shutdown.
Shutdown ==
  /\ "shutdown" \in plan.may /\ actor = "running"
  /\ \A j \in DOMAIN msgs : msgs[j].k # "shutdown"
  /\ Post("shutdown", Someone)
  /\ UNCHANGED <<call, queue, over, result, taken, hostVars, toPlugin, toHost,
                 instVars, histVars>>

\* The operator presses Esc in a view: the terminal's event for the actor.
Escape(i) ==
  /\ "escape" \in plan.may /\ actor = "running" /\ i \in views \ timers
  /\ \A j \in DOMAIN msgs : msgs[j] # [k |-> "event", i |-> i]
  /\ Post("event", i)
  /\ UNCHANGED <<call, queue, over, result, taken, hostVars, toPlugin, toHost,
                 instVars, histVars>>

-----------------------------------------------------------------------------
(* What the actor's handlers share.                                        *)

\* Actor::send, whose error the caller ignores or is guarded against.
SendAll(frames) ==
  toPlugin' = IF proc = "up" THEN toPlugin \o frames ELSE toPlugin

\* Nothing of the process is left but what it has written.
Reaped ==
  /\ proc' = "gone" /\ loop' = "ended" /\ toPlugin' = <<>>
  /\ live' = {} /\ owned' = {} /\ pcancel' = {} /\ calls' = {}
  /\ pcredit' = [i \in Inv |-> 0] /\ events' = [i \in Inv |-> <<>>]
  /\ work' = [i \in Inv |-> "done"]
  /\ UNCHANGED <<plan, op, emitted, outcome>>

\* Mutant: the streams are dropped and nobody is told why.
CloseEverythingQuietly ==
  /\ over' = [i \in Inv |-> IF stream[i] = "none" THEN over[i] ELSE "end"]
  /\ stream' = [i \in Inv |-> "none"] /\ credit' = [i \in Inv |-> 0]
  /\ result' = [i \in Inv |-> IF i \in pending THEN "failed" ELSE result[i]]
  /\ pending' = {}

CloseEverything ==
  /\ over' = [i \in Inv |-> IF stream[i] = "none" THEN over[i] ELSE "failed"]
  /\ stream' = [i \in Inv |-> "none"] /\ credit' = [i \in Inv |-> 0]
  /\ result' = [i \in Inv |-> IF i \in pending THEN "failed" ELSE result[i]]
  /\ pending' = {}

\* The instance is killed, everything is closed and the actor is dropped, with
\* its mailbox and its views.
Halt(b) ==
  /\ Reaped /\ CloseEverything /\ toHost' = <<>>
  /\ actor' = "stopped" /\ base' = b /\ active' = 0
  /\ msgs' = <<>> /\ views' = {} /\ timers' = {}
  /\ call' = [i \in Inv |-> IF call[i] = "asked" THEN "refused" ELSE call[i]]
  /\ UNCHANGED <<queue, taken, failed, histVars>>

Quarantine == Halt("quarantined")

-----------------------------------------------------------------------------
(* The actor and the messages of the shell.                                *)

Receives(k, i) ==
  /\ actor = "running" /\ msgs # <<>>
  /\ Head(msgs) = [k |-> k, i |-> i] /\ msgs' = Tail(msgs)

\* start_invocation: refused for its capabilities or because the instance is not
\* loaded; sent; or found dead by the write, which fails the whole instance and
\* leaves the loop running.
HandleInvoke(i) ==
  /\ Receives("invoke", i)
  /\ \/ /\ call' = [call EXCEPT ![i] = "refused"]
        /\ UNCHANGED <<over, result, tableVars, toPlugin>>
     \/ /\ base = "loaded" /\ proc = "up"
        /\ call' = [call EXCEPT ![i] = "open"]
        /\ active' = active + 1
        /\ stream' = [stream EXCEPT ![i] = "open"]
        /\ credit' = [credit EXCEPT ![i] = Depth]
        /\ pending' = pending \cup {i}
        /\ SendAll(<<Frame("invoke", i)>>)
        /\ UNCHANGED <<over, result, base, failed>>
     \/ /\ base = "loaded" /\ proc = "gone"
        /\ call' = [call EXCEPT ![i] = "refused"]
        /\ CloseEverything
        /\ base' = "enabled" /\ active' = 0 /\ failed' = TRUE
        /\ UNCHANGED toPlugin
  /\ UNCHANGED <<queue, taken, actor, viewVars, toHost, instVars, histVars>>

\* Mutant: the actor passes a credit on and does not count it.
HandleDemandUncounted(i) ==
  /\ Receives("demand", i)
  /\ IF stream[i] = "open"
     THEN /\ UNCHANGED credit
          /\ SendAll(<<Frame("demand", i)>>)
     ELSE UNCHANGED <<credit, toPlugin>>
  /\ UNCHANGED <<call, queue, over, result, taken, actor, base, active, stream,
                 pending, failed, viewVars, toHost, instVars, histVars>>

HandleDemand(i) ==
  /\ Receives("demand", i)
  /\ IF stream[i] = "open"
     THEN /\ credit' = [credit EXCEPT ![i] = @ + 1]
          /\ SendAll(<<Frame("demand", i)>>)
     ELSE UNCHANGED <<credit, toPlugin>>
  /\ UNCHANGED <<call, queue, over, result, taken, actor, base, active, stream,
                 pending, failed, viewVars, toHost, instVars, histVars>>

HandleCancel(i) ==
  /\ Receives("cancel", i)
  /\ IF stream[i] # "none"
     THEN /\ stream' = [stream EXCEPT ![i] = "cancelled"]
          /\ SendAll(<<Frame("cancel", i)>>)
     ELSE UNCHANGED <<stream, toPlugin>>
  /\ UNCHANGED <<call, queue, over, result, taken, actor, base, active, credit,
                 pending, failed, viewVars, toHost, instVars, histVars>>

\* A cancelled view is given the call deadline.
HandleEvent(i) ==
  /\ Receives("event", i)
  /\ IF i \in views
     THEN timers' = timers \cup {i} /\ SendAll(<<Frame("event", i)>>)
     ELSE UNCHANGED <<timers, toPlugin>>
  /\ UNCHANGED <<call, queue, over, result, taken, actor, tableVars, views,
                 toHost, instVars, histVars>>

\* Mutant: nobody is told when it has passed.
DeadlineForgotten(i) ==
  /\ actor \in {"running", "draining"} /\ i \in timers
  /\ timers' = timers \ {i} /\ UNCHANGED msgs
  /\ UNCHANGED <<call, queue, over, result, taken, actor, tableVars, views,
                 toPlugin, toHost, instVars, histVars>>

DeadlinePasses(i) ==
  /\ actor \in {"running", "draining"} /\ i \in timers
  /\ timers' = timers \ {i} /\ Post("force", i)
  /\ UNCHANGED <<call, queue, over, result, taken, actor, tableVars, views,
                 toPlugin, toHost, instVars, histVars>>

HandleForce(i) ==
  /\ Receives("force", i)
  /\ IF i \in views
     THEN views' = views \ {i} /\ SendAll(<<Frame("unmount", i)>>)
     ELSE UNCHANGED <<views, toPlugin>>
  /\ UNCHANGED <<call, queue, over, result, taken, actor, tableVars, timers,
                 toHost, instVars, histVars>>

\* The shutdown request; from here on the actor reads nothing but frames.
HandleShutdown ==
  /\ Receives("shutdown", Someone)
  /\ actor' = "draining" /\ SendAll(<<Frame("shutdown", Someone)>>)
  /\ UNCHANGED <<call, queue, over, result, taken, tableVars, viewVars, toHost,
                 instVars, histVars>>

\* It waits for the acknowledgement, the end of the frames or the deadline, and
\* discards every other frame.
Drain ==
  /\ actor = "draining"
  /\ \/ /\ toHost # <<>> /\ Head(toHost).k # "ack"
        /\ toHost' = Tail(toHost)
        /\ UNCHANGED <<shellVars, hostVars, toPlugin, instVars, histVars>>
     \/ toHost # <<>> /\ Head(toHost).k = "ack" /\ Halt("enabled")
     \/ toHost = <<>> /\ proc = "gone" /\ Halt("enabled")
DrainDeadline == actor = "draining" /\ Halt("enabled")

-----------------------------------------------------------------------------
(* The actor and the frames of the instance.                               *)

Reads(kinds, i) ==
  /\ actor = "running" /\ toHost # <<>>
  /\ Head(toHost).k \in kinds /\ Head(toHost).i = i

Charged(i) == [credit EXCEPT ![i] = @ - 1]

\* host_emit: out of credit or into no stream is a violation; after a cancel a
\* value is dropped, not punished; one outside the schema closes the stream.
HostEmit(i) ==
  /\ Reads({"emit", "invalid"}, i)
  /\ \/ (stream[i] = "none" \/ credit[i] = 0) /\ Quarantine
     \/ /\ stream[i] = "cancelled" /\ credit[i] > 0
        /\ credit' = Charged(i)
        /\ SendAll(<<Credits(i, 0)>>) /\ toHost' = Tail(toHost)
        /\ UNCHANGED <<shellVars, actor, base, active, stream, pending, failed,
                       viewVars, instVars, histVars>>
     \/ /\ stream[i] = "open" /\ credit[i] > 0 /\ Head(toHost).k = "emit"
        /\ credit' = Charged(i)
        /\ queue' = [queue EXCEPT ![i] = IF call[i] = "dropped" THEN @ ELSE @ + 1]
        /\ SendAll(<<Credits(i, credit[i] - 1)>>) /\ toHost' = Tail(toHost)
        /\ UNCHANGED <<call, over, result, taken, msgs, actor, base, active,
                       stream, pending, failed, viewVars, instVars, histVars>>
     \/ /\ stream[i] = "open" /\ credit[i] > 0 /\ Head(toHost).k = "invalid"
        /\ credit' = [credit EXCEPT ![i] = 0]
        /\ stream' = [stream EXCEPT ![i] = "none"]
        /\ over' = [over EXCEPT ![i] = "failed"]
        /\ SendAll(<<Frame("refused", i)>>) /\ toHost' = Tail(toHost)
        /\ UNCHANGED <<call, queue, result, taken, msgs, actor, base, active,
                       pending, failed, viewVars, instVars, histVars>>

\* The answer to an invocation ends its stream and closes every view.
HostAnswer(i) ==
  /\ Reads(Statuses, i)
  /\ \/ i \notin pending /\ Quarantine
     \/ /\ i \in pending /\ toHost' = Tail(toHost)
        /\ active' = active - 1 /\ pending' = pending \ {i}
        /\ stream' = [stream EXCEPT ![i] = "none"]
        /\ credit' = [credit EXCEPT ![i] = 0]
        /\ over' = [over EXCEPT ![i] = IF stream[i] = "none" THEN @ ELSE "end"]
        /\ views' = {}
        /\ result' = [result EXCEPT ![i] = Head(toHost).k]
        /\ answered' = answered \cup {i}
        /\ UNCHANGED <<call, queue, taken, msgs, actor, base, failed, timers,
                       toPlugin, instVars, crashed>>

\* The answer to a demand, a cancel or a view event: a violation once the
\* requests it could belong to have been dropped.
HostReply(i) ==
  /\ Reads({"reply"}, i)
  /\ \/ failed /\ Quarantine
     \/ /\ ~failed /\ toHost' = Tail(toHost)
        /\ UNCHANGED <<shellVars, hostVars, toPlugin, instVars, histVars>>

\* host_views_open: a terminal that takes the view, none to take it, a refusal.
HostOpenView(i) ==
  /\ Reads({"open"}, i) /\ toHost' = Tail(toHost)
  /\ \/ views' = views \cup {i} /\ SendAll(<<Frame("mounted", i), Frame("mount", i)>>)
     \/ views' = views \cup {i} /\ SendAll(<<Frame("unmounted", i)>>)
     \/ views' = views /\ SendAll(<<Frame("refused", i)>>)
  /\ UNCHANGED <<shellVars, actor, tableVars, timers, instVars, histVars>>

HostCloseView(i) ==
  /\ Reads({"close"}, i) /\ toHost' = Tail(toHost)
  /\ views' = views \ {i} /\ SendAll(<<Frame("closed", i)>>)
  /\ UNCHANGED <<shellVars, actor, tableVars, timers, instVars, histVars>>

\* A frame cut short is a framing error; the end of the frames is a death.
HostTorn == Reads({"torn"}, Someone) /\ Quarantine
HostEof  == actor = "running" /\ proc = "gone" /\ toHost = <<>> /\ Halt("enabled")

-----------------------------------------------------------------------------
(* The instance's reading loop (serve).                                    *)

LoopVars == <<shellVars, hostVars, proc, plan, histVars>>

\* Every worker of S that sleeps on its condition variable runs again.
Woken(S) ==
  [i \in Inv |-> IF i \in S /\ work[i] = "idle"
                 THEN IF i \in Viewers THEN "view" ELSE "run" ELSE work[i]]

\* A frame is written, unless the shell is gone and its pipe closed.
Write(frame) == toHost' = IF actor = "dead" THEN toHost ELSE Append(toHost, frame)

\* An answer that cannot be written ends the loop.
Reply(frame) == Write(frame) /\ loop' = IF actor = "dead" THEN "end" ELSE "read"

Gets(kinds, i) ==
  /\ proc = "up" /\ loop = "read" /\ toPlugin # <<>>
  /\ Head(toPlugin).k \in kinds /\ Head(toPlugin).i = i
  /\ toPlugin' = Tail(toPlugin)

\* start: a worker, or a refusal when the ceiling is reached.
GetInvoke(i) ==
  /\ Gets({"invoke"}, i)
  /\ \/ /\ Cardinality(live) >= plan.ceiling /\ Reply(Frame("failed", i))
        /\ UNCHANGED <<live, pcredit, work>>
     \/ /\ Cardinality(live) < plan.ceiling
        /\ live' = live \cup {i}
        /\ pcredit' = [pcredit EXCEPT ![i] = Depth]
        /\ work' = [work EXCEPT ![i] = "run"]
        /\ UNCHANGED <<toHost, loop>>
  /\ UNCHANGED <<LoopVars, op, emitted, outcome, owned, pcancel, events, calls>>

GetDemand(i) ==
  /\ Gets({"demand"}, i)
  /\ pcredit' = [pcredit EXCEPT ![i] = IF i \in live THEN @ + 1 ELSE @]
  /\ work' = Woken({i} \cap live) /\ Reply(Frame("reply", i))
  /\ UNCHANGED <<LoopVars, op, emitted, outcome, live, owned, pcancel, events, calls>>
\* Mutant: the cancelled worker is not woken.
GetCancelAsleep(i) ==
  /\ Gets({"cancel"}, i)
  /\ pcancel' = pcancel \cup ({i} \cap live)
  /\ work' = work /\ Reply(Frame("reply", i))
  /\ UNCHANGED <<LoopVars, op, emitted, outcome, live, owned, pcredit, events, calls>>

GetCancel(i) ==
  /\ Gets({"cancel"}, i)
  /\ pcancel' = pcancel \cup ({i} \cap live)
  /\ work' = Woken({i} \cap live) /\ Reply(Frame("reply", i))
  /\ UNCHANGED <<LoopVars, op, emitted, outcome, live, owned, pcredit, events, calls>>

\* route_answer applies the credit of the answer before the worker sees it.
GetEmitted(i) ==
  /\ Gets({"emitted"}, i) /\ i \in calls
  /\ calls' = calls \ {i}
  /\ pcredit' = [pcredit EXCEPT ![i] = Head(toPlugin).n]
  /\ emitted' = [emitted EXCEPT ![i] = @ + 1]
  /\ work' = [work EXCEPT ![i] = "run"]
  /\ UNCHANGED <<LoopVars, toHost, loop, op, outcome, live, owned, pcancel, events>>

\* Mutant: the view's owner is not recorded with the answer.
GetOpenedLate(i) ==
  /\ Gets({"mounted", "unmounted"}, i) /\ i \in calls
  /\ calls' = calls \ {i}
  /\ work' = [work EXCEPT ![i] = IF Head(toPlugin).k = "mounted" THEN "view" ELSE "leave"]
  /\ outcome' = [outcome EXCEPT ![i] = "completed"]
  /\ UNCHANGED <<LoopVars, toHost, loop, op, emitted, live, owned, pcredit,
                 pcancel, events>>

\* So does the owner of a view.  With no terminal the handler falls back.
GetOpened(i) ==
  /\ Gets({"mounted", "unmounted"}, i) /\ i \in calls
  /\ calls' = calls \ {i} /\ owned' = owned \cup {i}
  /\ work' = [work EXCEPT ![i] = IF Head(toPlugin).k = "mounted" THEN "view" ELSE "leave"]
  /\ outcome' = [outcome EXCEPT ![i] = "completed"]
  /\ UNCHANGED <<LoopVars, toHost, loop, op, emitted, live, pcredit, pcancel, events>>

\* The answers after which the handler returns.
GetLast(i) ==
  /\ Gets({"refused", "closed"}, i) /\ i \in calls
  /\ calls' = calls \ {i} /\ work' = [work EXCEPT ![i] = "leave"]
  /\ outcome' = [outcome EXCEPT ![i] =
       IF Head(toPlugin).k = "refused" THEN "failed" ELSE "completed"]
  /\ UNCHANGED <<LoopVars, toHost, loop, op, emitted, live, owned, pcredit,
                 pcancel, events>>

\* deliver_view_event: for the invocation that owns the view, if there is one.
Deliverable(i) == i \in owned /\ i \in live
GetViewEvent(i) ==
  /\ Gets({"mount", "event", "unmount"}, i) /\ Reply(Frame("reply", i))
  /\ events' = [events EXCEPT ![i] =
       IF Deliverable(i) THEN Append(@, Head(toPlugin).k) ELSE @]
  /\ work' = Woken({i} \cap live \cap owned)
  /\ UNCHANGED <<LoopVars, op, emitted, outcome, live, owned, pcredit, pcancel, calls>>

GetShutdown ==
  /\ Gets({"shutdown"}, Someone)
  /\ Write(Frame("ack", Someone)) /\ loop' = "stop"
  /\ UNCHANGED <<LoopVars, workVars, sharedVars>>

\* A shutdown reaches every open invocation as a cancellation.
CancelAll ==
  /\ proc = "up" /\ loop = "stop" /\ loop' = "end"
  /\ pcancel' = pcancel \cup live /\ work' = Woken(live)
  /\ UNCHANGED <<LoopVars, toPlugin, toHost, op, emitted, outcome, live, owned,
                 pcredit, events, calls>>

\* The end of the frames: the shell is gone.
GetEof ==
  /\ proc = "up" /\ loop = "read" /\ toPlugin = <<>> /\ actor = "dead"
  /\ loop' = "end"
  /\ UNCHANGED <<LoopVars, toPlugin, toHost, workVars, sharedVars>>

\* What the loop leaves behind: first ended, then no unanswered call, then
\* nobody asleep.
SetEnded ==
  /\ proc = "up" /\ loop = "end" /\ loop' = "clear"
  /\ UNCHANGED <<LoopVars, toPlugin, toHost, workVars, sharedVars>>
ClearCalls ==
  /\ proc = "up" /\ loop = "clear" /\ loop' = "wake" /\ calls' = {}
  /\ UNCHANGED <<LoopVars, toPlugin, toHost, workVars, live, owned, pcredit,
                 pcancel, events>>
\* Mutant: the loop ends and lets the sleepers sleep.
WakeNobody ==
  /\ proc = "up" /\ loop = "wake" /\ loop' = "ended" /\ work' = work
  /\ UNCHANGED <<LoopVars, toPlugin, toHost, op, emitted, outcome, sharedVars>>

WakeAll ==
  /\ proc = "up" /\ loop = "wake" /\ loop' = "ended" /\ work' = Woken(live)
  /\ UNCHANGED <<LoopVars, toPlugin, toHost, op, emitted, outcome, sharedVars>>

\* The scope joins its workers and the process exits.
Exit ==
  /\ proc = "up" /\ loop = "ended"
  /\ \A i \in Inv : work[i] \in {"none", "done"}
  /\ Reaped
  /\ UNCHANGED <<shellVars, hostVars, toHost, histVars>>

-----------------------------------------------------------------------------
(* The instance's workers.                                                 *)

WorkerVars == <<shellVars, hostVars, proc, plan, loop, toPlugin, histVars>>

At(i, pc) == proc = "up" /\ work[i] = pc
Go(i, pc) == work' = [work EXCEPT ![i] = pc]

\* The handler returns.
Returns(i, o) == Go(i, "leave") /\ outcome' = [outcome EXCEPT ![i] = o]

\* emit_value: a credit is spent, or waited for.
EmitValue(i) ==
  /\ At(i, "run") /\ i \in Emitters /\ emitted[i] < plan.values
  /\ \/ i \in pcancel /\ Returns(i, "cancelled") /\ UNCHANGED <<op, pcredit>>
     \/ i \notin pcancel /\ Ended /\ Returns(i, "failed") /\ UNCHANGED <<op, pcredit>>
     \/ /\ i \notin pcancel /\ ~Ended /\ pcredit[i] > 0 /\ Go(i, "insert")
        /\ pcredit' = [pcredit EXCEPT ![i] = @ - 1]
        /\ \E o \in {"emit"} \cup (plan.may \cap {"invalid"}) :
             op' = [op EXCEPT ![i] = o]
        /\ UNCHANGED outcome
     \/ /\ i \notin pcancel /\ ~Ended /\ pcredit[i] = 0 /\ Go(i, "idle")
        /\ UNCHANGED <<op, pcredit, outcome>>
  /\ UNCHANGED <<WorkerVars, toHost, emitted, live, owned, pcancel, events, calls>>

\* An emitting handler may be done, fail or panic at any point.
Return(i) ==
  /\ At(i, "run") /\ i \in Emitters
  /\ Returns(i, "completed") \/ Returns(i, "failed")
  /\ UNCHANGED <<WorkerVars, toHost, op, emitted, sharedVars>>

OpenView(i) ==
  /\ At(i, "run") /\ i \in Viewers /\ Go(i, "insert")
  /\ op' = [op EXCEPT ![i] = "open"]
  /\ UNCHANGED <<WorkerVars, toHost, emitted, outcome, sharedVars>>

\* next_view_event: a handler that is asked to leave closes its view, or ignores it.
NextEvent(i) ==
  /\ At(i, "view")
  /\ \/ /\ events[i] # <<>> /\ events' = [events EXCEPT ![i] = Tail(@)]
        /\ \/ UNCHANGED <<work, op>>
           \/ /\ Head(events[i]) # "mount" /\ Go(i, "insert")
              /\ op' = [op EXCEPT ![i] = "close"]
        /\ UNCHANGED outcome
     \/ events[i] = <<>> /\ Ended /\ Returns(i, "completed") /\ UNCHANGED <<op, events>>
     \/ events[i] = <<>> /\ ~Ended /\ Go(i, "idle") /\ UNCHANGED <<op, outcome, events>>
  /\ UNCHANGED <<WorkerVars, toHost, emitted, live, owned, pcredit, pcancel, calls>>

\* Shared::call: entered in the table before ended is looked at.
CallInsert(i) ==
  /\ At(i, "insert") /\ Go(i, "send") /\ calls' = calls \cup {i}
  /\ UNCHANGED <<WorkerVars, toHost, op, emitted, outcome, live, owned, pcredit,
                 pcancel, events>>
CallSend(i) ==
  /\ At(i, "send")
  /\ \/ /\ ~Ended /\ actor # "dead" /\ Go(i, "await")
        /\ Write(Frame(op[i], i)) /\ UNCHANGED <<outcome, calls>>
     \/ /\ Ended \/ actor = "dead"
        /\ Returns(i, "failed") /\ calls' = calls \ {i} /\ UNCHANGED toHost
  /\ UNCHANGED <<WorkerVars, op, emitted, live, owned, pcredit, pcancel, events>>

\* The sender of an answer nobody will give has been dropped.
CallOver(i) ==
  /\ At(i, "await") /\ i \notin calls /\ Returns(i, "failed")
  /\ UNCHANGED <<WorkerVars, toHost, op, emitted, sharedVars>>

\* The invocation and its views are forgotten before it is answered.
Leave(i) ==
  /\ At(i, "leave") /\ Go(i, "answer")
  /\ live' = live \ {i} /\ owned' = owned \ {i}
  /\ UNCHANGED <<WorkerVars, toHost, op, emitted, outcome, pcredit, pcancel, events, calls>>
Answer(i) ==
  /\ At(i, "answer") /\ Go(i, "done") /\ Write(Frame(outcome[i], i))
  /\ UNCHANGED <<WorkerVars, op, emitted, outcome, sharedVars>>

-----------------------------------------------------------------------------
(* Faults.                                                                 *)

\* The instance dies by itself, perhaps in the middle of writing a frame.
Crash ==
  /\ "crash" \in plan.may /\ proc = "up" /\ actor # "dead" /\ crashed' = TRUE /\ Reaped
  /\ \/ toHost' = toHost
     \/ toHost' = Append(toHost, Frame("torn", Someone))
  /\ UNCHANGED <<shellVars, hostVars, answered>>

\* The shell is killed: nobody reads the instance's frames or writes to it.
ShellDies ==
  /\ "die" \in plan.may /\ actor \in {"running", "draining"} /\ actor' = "dead"
  /\ msgs' = <<>> /\ toHost' = <<>> /\ views' = {} /\ timers' = {}
  /\ UNCHANGED <<call, queue, over, result, taken, tableVars, toPlugin,
                 instVars, histVars>>

-----------------------------------------------------------------------------
Consumer(i) == Take(i) \/ SeeEnd(i) \/ Finish(i)
HandleMsg ==
  \/ \E i \in Inv :
       HandleInvoke(i) \/ HandleDemand(i) \/ HandleCancel(i) \/ HandleEvent(i)
         \/ HandleForce(i)
  \/ HandleShutdown
HandleFrame ==
  \/ \E i \in Inv :
       HostEmit(i) \/ HostAnswer(i) \/ HostReply(i) \/ HostOpenView(i)
         \/ HostCloseView(i)
  \/ HostTorn \/ HostEof
Loop ==
  \/ \E i \in Inv :
       GetInvoke(i) \/ GetDemand(i) \/ GetCancel(i) \/ GetEmitted(i)
         \/ GetOpened(i) \/ GetLast(i) \/ GetViewEvent(i)
  \/ GetShutdown \/ CancelAll \/ GetEof \/ SetEnded \/ ClearCalls \/ WakeAll
  \/ Exit
Worker(i) ==
  \/ EmitValue(i) \/ Return(i) \/ OpenView(i) \/ NextEvent(i)
  \/ CallInsert(i) \/ CallSend(i) \/ CallOver(i)
  \/ Leave(i) \/ Answer(i)

\* What the runtimes do by themselves.
Progress ==
  \/ \E i \in Inv : Consumer(i) \/ DeadlinePasses(i) \/ Worker(i)
  \/ HandleMsg \/ HandleFrame \/ Drain \/ DrainDeadline \/ Loop

Next ==
  \/ Progress
  \/ \E i \in Inv : Invoke(i) \/ Cancel(i) \/ Escape(i)
  \/ Shutdown \/ Crash \/ ShellDies

Spec == Init /\ [][Next]_vars

\* select! serves both of the actor's sources, the pipeline reads on, deadlines
\* pass and the instance's threads run: as long as one of them can move, one does.
Fairness == WF_vars(Progress)

FairSpec == Spec /\ Fairness

-----------------------------------------------------------------------------
(* Properties.                                                             *)

\* A package built on the SDK is quarantined for a protocol violation only after
\* its process has died: while it lives it never emits without credit or into a
\* stream that is gone, and answers only what was asked.
QuarantineIsEarned == base = "quarantined" => crashed

\* The channel a stream's values wait in has no bound of its own: credit alone
\* keeps it, with the credit on its way back, within queue_depth.
Demands(i) == Cardinality({j \in DOMAIN msgs : msgs[j] = [k |-> "demand", i |-> i]})
QueueBounded ==
  \A i \in Inv : actor # "dead" /\ stream[i] = "open" /\ call[i] = "open" =>
    credit[i] + queue[i] + Demands(i) = Depth

\* Both ends count a stream's credit alike: an instance that keeps the rules is
\* never found to have emitted without credit, and its values stay bounded.
CreditIsKept == QuarantineIsEarned /\ QueueBounded

\* A pipeline that is told its query is done was given every value the handler
\* emitted, and the handler had completed.
CleanMeansAll ==
  \A i \in Inv : call[i] = "clean" =>
    outcome[i] = "completed" /\ taken[i] = emitted[i]

\* A stream whose producer died does not simply stop: it ends with the error,
\* and an invocation nobody answered has a failure for its result.
DeathIsTold ==
  \A i \in Inv :
    /\ over[i] = "end" => i \in answered
    /\ actor = "stopped" /\ call[i] \notin {"new", "refused"} =>
         result[i] # "none" /\ over[i] # "no"

\* No end of a stream is mistaken for another.
EndsAreHonest == CleanMeansAll /\ DeathIsTold

\* No view outlives the invocation that opened it.
ViewsEndWithCommand == actor = "running" /\ ~failed => views \subseteq pending

\* No event of a view is lost between the answer that opened it and the worker:
\* as long as its invocation is open an event finds its owner.
EventsFindOwner ==
  \A i \in live :
    loop = "read" /\ toPlugin # <<>> /\ Head(toPlugin).i = i
      /\ Head(toPlugin).k \in {"mount", "event", "unmount"} => Deliverable(i)

\* A view belongs to its invocation, from its opening to the end.
ViewsAreOwned == ViewsEndWithCommand /\ EventsFindOwner

\* Every invocation that emits ends, for its handler and for the pipeline,
\* whether its values are read or the pipeline is cancelled.
InvocationsEnd ==
  \A i \in Emitters :
    /\ (i \in live) ~> (i \notin live)
    /\ (call[i] = "open")
         ~> (call[i] \in {"clean", "told", "dropped"} \/ actor = "dead")

\* An instance whose shell has been killed ends by itself.
NoOrphan == (actor = "dead") ~> (proc = "gone")

\* A view the operator cancels is closed, whatever the package does.
CancelledViewCloses == \A i \in Viewers : (i \in timers) ~> (i \notin views)
=============================================================================
