----------------------------- MODULE JobControl -----------------------------
(***************************************************************************)
(* Job control: the executor of ono-process (executor.rs, job.rs), which   *)
(* the shell's main thread drives, a Canceller on another thread, and the  *)
(* thread that ends what the shell owns when a signal ends the shell       *)
(* (ono-cli/src/shutdown.rs, ono-process/src/signals.rs).                  *)
(*                                                                         *)
(* The threads share cells, each a lock around a process group's id or 0.  *)
(* Whoever signals a group through its cell relies on the cell naming a    *)
(* group that still has an uncollected member: the kernel may hand the id  *)
(* of any other group out again.  The kernel is external.                  *)
(***************************************************************************)
EXTENDS Naturals, FiniteSets

CONSTANTS
  Pipe,       \* the pipelines, each started at most once, in a group of its own
  Shapes,     \* how many stages each may have; none: it is never run
  None,       \* no pipeline: the 0 of a cell, and the shell's own group
  Commands,   \* which statements the shell may run
  Traps,      \* the pipelines whose processes ignore SIGINT and SIGTERM
  MayStop,    \* whether a process may be stopped
  MayRefuse   \* whether the terminal may refuse to be handed over

CommandNames == {"run", "run_bg", "fg", "bg", "kill", "poll", "wait"}

ASSUME JobAssumption ==
  /\ None \notin Pipe
  /\ Shapes \subseteq [Pipe -> Nat]
  /\ Commands \subseteq CommandNames
  /\ Traps \subseteq Pipe
  /\ MayStop \in BOOLEAN /\ MayRefuse \in BOOLEAN

VARIABLES
  \* the kernel
  proc,         \* what each stage's process is doing
  news,         \* the stop or continuation waitpid has not reported yet
  tty,          \* the group that owns the terminal
  \* the executor
  stage,        \* RunningStage.state, as the shell last recorded it
  jobs,         \* the job table
  fgCell,       \* the executor's foreground cell
  jobCell,      \* whether the job's own cell names its group
  \* the main thread
  pc,           \* where it is
  cur,          \* the pipeline in its hands
  pos,          \* the stage it is starting
  inflight,     \* STARTS_IN_FLIGHT
  \* the thread that ends the shell
  terminating,  \* TERMINATING, set by the signal handler
  lpc,          \* where that thread is
  todo,         \* the cells this look at them has not reached
  found,        \* whether this look found something running
  asked,        \* the groups sent SIGTERM
  clock,        \* "grace", then "kill" when GRACE is over, "over" after REAP
  \* history
  moved,        \* the pipelines that have left the cell they were started in
  fault         \* the terminal refused, or a start outlived GRACE

kernelVars == <<proc, news, tty>>
tableVars  == <<stage, jobs, fgCell, jobCell>>
mainVars   == <<pc, cur, pos, inflight>>
leaveVars  == <<terminating, lpc, todo, found, asked, clock>>
histVars   == <<moved, fault>>
vars       == <<kernelVars, tableVars, mainVars, leaveVars, histVars>>

StagesOf(g) == DOMAIN proc[g]
Stages(g)   == Cardinality(StagesOf(g))
Alive == {"running", "stopped"}

\* The foreground cell is recorded first; a job's cell is named by its pipeline.
Fg    == None
Cells == {Fg} \cup Pipe
Names(c) == IF c = Fg THEN fgCell ELSE IF jobCell[c] THEN c ELSE None

\* Running::is_finished, Running::is_stopped, and a group that was ever made.
Fresh(g)        == \A k \in StagesOf(g) : stage[g][k] = "unspawned"
Finished(st, g) == \A k \in StagesOf(g) : st[g][k] = "exited"
Stopped(st, g)  == \E k \in StagesOf(g) : st[g][k] = "stopped"
HasGroup(g)     == \E k \in StagesOf(g) : proc[g][k] # "unborn"

\* A group's id is taken as long as a member has not been collected.
Held(pr, g) == \E k \in StagesOf(g) : pr[g][k] \in Alive \cup {"zombie"}
GroupRuns(g) == \E k \in StagesOf(g) : proc[g][k] \in Alive

TypeOK ==
  /\ DOMAIN proc = Pipe /\ DOMAIN news = Pipe /\ DOMAIN stage = Pipe
  /\ \A g \in Pipe :
       /\ proc[g] \in [StagesOf(g) -> Alive \cup {"unborn", "zombie", "gone"}]
       /\ news[g] \in [StagesOf(g) -> {"none", "stopped", "continued"}]
       /\ stage[g] \in [StagesOf(g) -> Alive \cup {"unspawned", "exited"}]
  /\ tty \in Pipe \cup {None} /\ fgCell \in Pipe \cup {None}
  /\ moved \subseteq Pipe /\ jobs \subseteq Pipe /\ asked \subseteq Pipe
  /\ jobCell \in [Pipe -> BOOLEAN]
  /\ pc \in {"idle", "check", "check_bg", "spawn", "spawn_bg", "publish",
             "publish_bg", "give", "wait", "clear", "reclaim", "settle",
             "fg", "fg_give", "fg_continue"}
  /\ cur \in Pipe \cup {None} /\ pos \in Nat /\ inflight \in {0, 1}
  /\ terminating \in BOOLEAN /\ found \in BOOLEAN /\ fault \in BOOLEAN
  /\ lpc \in {"off", "await", "ask", "check", "kill", "recheck", "dead"}
  /\ todo \subseteq Cells
  /\ clock \in {"grace", "kill", "over"}

Init ==
  /\ \E shape \in Shapes :
       proc = [g \in Pipe |-> [k \in 1 .. shape[g] |-> "unborn"]]
  /\ news = [g \in Pipe |-> [k \in StagesOf(g) |-> "none"]]
  /\ stage = [g \in Pipe |-> [k \in StagesOf(g) |-> "unspawned"]]
  /\ tty = None /\ fgCell = None /\ jobCell = [g \in Pipe |-> FALSE]
  /\ jobs = {} /\ pc = "idle" /\ cur = None /\ pos = 0 /\ inflight = 0
  /\ terminating = FALSE /\ lpc = "off" /\ todo = {} /\ found = FALSE
  /\ asked = {} /\ clock = "grace" /\ moved = {} /\ fault = FALSE

-----------------------------------------------------------------------------
(* The kernel (external).                                                  *)

\* A process ends by itself, or is stopped by the terminal or by a signal.
Exits(g, k) ==
  /\ lpc # "dead" /\ proc[g][k] = "running"
  /\ proc' = [proc EXCEPT ![g][k] = "zombie"]
  /\ news' = [news EXCEPT ![g][k] = "none"]
  /\ UNCHANGED <<tty, tableVars, mainVars, leaveVars, histVars>>

Stops(g, k) ==
  /\ lpc # "dead" /\ MayStop /\ proc[g][k] = "running"
  /\ proc' = [proc EXCEPT ![g][k] = "stopped"]
  /\ news' = [news EXCEPT ![g][k] = "stopped"]
  /\ UNCHANGED <<tty, tableVars, mainVars, leaveVars, histVars>>

\* The effect of a signal on a member of a group.  "INT" stands for every signal
\* that ends a running process that does not trap it, and waits for a stopped
\* one to be continued; "ASK" for SIGTERM followed by SIGCONT.
Ends(g, sig, p) ==
  \/ sig = "KILL" /\ p \in Alive
  \/ sig = "INT" /\ p = "running" /\ g \notin Traps
  \/ sig = "ASK" /\ p \in Alive /\ g \notin Traps
Struck(g, sig, p) ==
  IF Ends(g, sig, p) THEN "zombie"
  ELSE IF p = "stopped" /\ sig \in {"CONT", "ASK"} THEN "running" ELSE p
SignalGroup(g, sig) ==
  /\ proc' = [proc EXCEPT ![g] = [k \in StagesOf(g) |-> Struck(g, sig, @[k])]]
  /\ news' = [news EXCEPT ![g] = [k \in StagesOf(g) |->
       IF proc'[g][k] = "zombie" THEN "none"
       ELSE IF proc'[g][k] # proc[g][k] THEN "continued" ELSE @[k]]]

-----------------------------------------------------------------------------
(* Collecting a group (reap).                                              *)

\* Mutant: stops are not asked for.
RecordedWithoutStops(g) ==
  [k \in StagesOf(g) |->
     IF proc[g][k] = "zombie" THEN "exited"
     ELSE IF news[g][k] = "continued" THEN "running" ELSE stage[g][k]]

\* Everything waitpid has to say about the group's members.
Recorded(g) ==
  [k \in StagesOf(g) |->
     IF proc[g][k] = "zombie" THEN "exited"
     ELSE IF proc[g][k] = "stopped" /\ news[g][k] = "stopped" THEN "stopped"
     ELSE IF news[g][k] = "continued" THEN "running"
     ELSE stage[g][k]]
Reap(g) ==
  /\ stage' = [stage EXCEPT ![g] = Recorded(g)]
  /\ proc' = [proc EXCEPT ![g] =
       [k \in StagesOf(g) |-> IF @[k] = "zombie" THEN "gone" ELSE @[k]]]
  /\ news' = [news EXCEPT ![g] = [k \in StagesOf(g) |-> "none"]]
HasNews(g) ==
  \E k \in StagesOf(g) : proc[g][k] = "zombie" \/ news[g][k] # "none"

\* Stages recorded as stopped are running again (resume).
Resumed(g) ==
  [stage EXCEPT ![g] = [k \in StagesOf(g) |->
     IF @[k] = "stopped" THEN "running" ELSE @[k]]]

-----------------------------------------------------------------------------
(* The main thread: starting a pipeline (Executor::start and its callers). *)

Main(from, to) == lpc # "dead" /\ pc = from /\ pc' = to

\* Mutant: the start is not counted.
RunUncounted(g) ==
  /\ ~terminating /\ Fresh(g) /\ Stages(g) > 0
  /\ \/ "run" \in Commands /\ Main("idle", "check")
     \/ "run_bg" \in Commands /\ Main("idle", "check_bg")
  /\ cur' = g /\ pos' = 1
  /\ UNCHANGED <<kernelVars, tableVars, inflight, leaveVars, histVars>>

\* No statement begins once the shell is ending; the start is counted first.
Run(g) ==
  /\ ~terminating /\ Fresh(g) /\ Stages(g) > 0
  /\ \/ "run" \in Commands /\ Main("idle", "check")
     \/ "run_bg" \in Commands /\ Main("idle", "check_bg")
  /\ cur' = g /\ pos' = 1 /\ inflight' = inflight + 1
  /\ UNCHANGED <<kernelVars, tableVars, leaveVars, histVars>>

\* A shell that is ending starts nothing; a pipeline one of whose programs or
\* redirections cannot be prepared runs none of its stages.
StartCheck ==
  /\ pc \in {"check", "check_bg"}
  /\ \/ /\ terminating /\ Main(pc, "idle")
        /\ inflight' = inflight - 1 /\ pos' = 0 /\ cur' = None
        /\ UNCHANGED <<stage, jobs>>
     \/ /\ ~terminating
        /\ Main(pc, IF pc = "check" THEN "spawn" ELSE "spawn_bg")
        /\ UNCHANGED <<stage, jobs, cur, pos, inflight>>
     \/ /\ ~terminating
        /\ Main(pc, IF pc = "check" THEN "wait" ELSE "idle")
        /\ stage' = [stage EXCEPT ![cur] = [k \in StagesOf(cur) |-> "exited"]]
        /\ jobs' = IF pc = "check" THEN jobs ELSE jobs \cup {cur}
        /\ cur' = IF pc = "check" THEN cur ELSE None
        /\ inflight' = inflight - 1 /\ pos' = 0
  /\ UNCHANGED <<kernelVars, fgCell, jobCell, leaveVars, histVars>>

\* One stage, if the shell is not ending and the program can be run.
SpawnStage ==
  /\ pc \in {"spawn", "spawn_bg"} /\ pos <= Stages(cur)
  /\ Main(pc, IF pc = "spawn" THEN "publish" ELSE "publish_bg")
  /\ \/ /\ ~terminating
        /\ proc' = [proc EXCEPT ![cur][pos] = "running"]
        /\ stage' = [stage EXCEPT ![cur][pos] = "running"]
     \/ stage' = [stage EXCEPT ![cur][pos] = "exited"] /\ UNCHANGED proc
  /\ UNCHANGED <<news, tty, jobs, fgCell, jobCell, cur, pos, inflight,
                 leaveVars, histVars>>

\* The group is owned from its first member on.
Publish ==
  /\ \/ /\ Main("publish", "spawn")
        /\ fgCell' = IF HasGroup(cur) /\ fgCell = None THEN cur ELSE fgCell
        /\ UNCHANGED jobCell
     \/ /\ Main("publish_bg", "spawn_bg")
        /\ jobCell' = [jobCell EXCEPT ![cur] = HasGroup(cur)]
        /\ UNCHANGED fgCell
  /\ pos' = pos + 1
  /\ UNCHANGED <<kernelVars, stage, jobs, cur, inflight, leaveVars, histVars>>

Started ==
  /\ pc \in {"spawn", "spawn_bg"} /\ pos > Stages(cur)
  /\ inflight' = inflight - 1 /\ pos' = 0
  /\ \/ Main("spawn", "give") /\ UNCHANGED <<jobs, cur>>
     \/ Main("spawn_bg", "idle") /\ jobs' = jobs \cup {cur} /\ cur' = None
  /\ UNCHANGED <<kernelVars, stage, fgCell, jobCell, leaveVars, histVars>>

\* The terminal is handed over; a pipeline it cannot be handed to is killed,
\* collected and forgotten under the lock.
Give ==
  /\ \/ /\ Main("give", "wait")
        /\ tty' = IF HasGroup(cur) THEN cur ELSE tty
        /\ fgCell' = IF HasGroup(cur) THEN cur ELSE fgCell
        /\ UNCHANGED <<proc, news, stage, cur, fault>>
     \/ /\ MayRefuse /\ ~fault /\ Main("give", "idle") /\ HasGroup(cur)
        /\ proc' = [proc EXCEPT ![cur] =
             [k \in StagesOf(cur) |-> IF @[k] = "unborn" THEN @[k] ELSE "gone"]]
        /\ news' = [news EXCEPT ![cur] = [k \in StagesOf(cur) |-> "none"]]
        /\ stage' = [stage EXCEPT ![cur] = [k \in StagesOf(cur) |-> "exited"]]
        /\ fgCell' = None /\ cur' = None /\ fault' = TRUE
        /\ UNCHANGED tty
  /\ UNCHANGED <<jobs, jobCell, pos, inflight, leaveVars, moved>>

-----------------------------------------------------------------------------
(* The main thread: waiting, and what a pipeline becomes.                  *)

\* wait_foreground: news is collected under the lock, and the cell is cleared
\* in the step that collects the last member.
WaitForeground ==
  /\ Main("wait", "wait") /\ HasNews(cur)
  /\ ~Finished(stage, cur) /\ ~Stopped(stage, cur)
  /\ Reap(cur)
  /\ fgCell' = IF Finished(stage', cur) /\ fgCell = cur THEN None ELSE fgCell
  /\ UNCHANGED <<tty, jobs, jobCell, cur, pos, inflight, leaveVars, histVars>>

WaitOver ==
  /\ Main("wait", "clear")
  /\ Finished(stage, cur) \/ Stopped(stage, cur)
  /\ UNCHANGED <<kernelVars, tableVars, cur, pos, inflight, leaveVars, histVars>>

\* A pipeline that stopped keeps no claim on the foreground cell.
ClearForeground ==
  /\ Main("clear", "reclaim")
  /\ fgCell' = None
  /\ moved' = moved \cup {cur}
  /\ UNCHANGED <<kernelVars, stage, jobs, jobCell, cur, pos, inflight,
                 leaveVars, fault>>

\* Mutant: the terminal is taken back only from a pipeline that stopped.
ReclaimFromStopped ==
  /\ Main("reclaim", "settle")
  /\ tty' = IF Stopped(stage, cur) THEN None ELSE tty
  /\ UNCHANGED <<proc, news, tableVars, cur, pos, inflight, leaveVars, histVars>>

\* A terminal that cannot be taken back is an error, and the pipeline is dropped.
Reclaim ==
  /\ \/ Main("reclaim", "settle") /\ tty' = None /\ UNCHANGED <<cur, fault>>
     \/ /\ MayRefuse /\ ~fault /\ Main("reclaim", "idle") /\ cur' = None /\ fault' = TRUE
        /\ UNCHANGED tty
  /\ UNCHANGED <<proc, news, tableVars, pos, inflight, leaveVars, moved>>

\* A stopped pipeline becomes a job, owned through a cell of its own.
Settle ==
  /\ Main("settle", "idle") /\ cur' = None
  /\ IF Stopped(stage, cur)
       THEN jobs' = jobs \cup {cur} /\ jobCell' = [jobCell EXCEPT ![cur] = TRUE]
       ELSE UNCHANGED <<jobs, jobCell>>
  /\ UNCHANGED <<kernelVars, stage, fgCell, pos, inflight, leaveVars, histVars>>

-----------------------------------------------------------------------------
(* The main thread: the job table.                                         *)

Idle(command, g) ==
  command \in Commands /\ g \in jobs /\ Main("idle", "idle")

\* Mutant: the cell outlives the group's last member.
ReapJobKeepsCell(g) == Reap(g) /\ UNCHANGED jobCell

\* Tracked::reap.
ReapJob(g) ==
  /\ Reap(g)
  /\ jobCell' = [jobCell EXCEPT ![g] = @ /\ ~Finished(stage', g)]

PollJob(g) ==
  /\ Idle("poll", g) /\ HasNews(g)
  /\ ReapJob(g)
  /\ UNCHANGED <<tty, jobs, fgCell, cur, pos, inflight, leaveVars, histVars>>

WaitJob(g) ==
  /\ Idle("wait", g)
  /\ ReapJob(g)
  /\ jobs' = IF Finished(stage', g) THEN jobs \ {g} ELSE jobs
  /\ UNCHANGED <<tty, fgCell, cur, pos, inflight, leaveVars, histVars>>

\* A job is signalled through its cell, and only while the cell names it.
SignalJob(g, sig) ==
  /\ Idle("kill", g) /\ ~terminating /\ jobCell[g]
  /\ SignalGroup(g, sig)
  /\ stage' = IF sig = "CONT" THEN Resumed(g) ELSE stage
  /\ UNCHANGED <<tty, jobs, fgCell, jobCell, cur, pos, inflight,
                 leaveVars, moved, fault>>

\* bg continues the group by the id the job table holds.
Background(g) ==
  /\ Idle("bg", g) /\ ~terminating /\ HasGroup(g)
  /\ SignalGroup(g, "CONT")
  /\ stage' = Resumed(g)
  /\ UNCHANGED <<tty, jobs, fgCell, jobCell, cur, pos, inflight,
                 leaveVars, moved, fault>>

\* fg, in the steps the other threads can see.
BeginForeground(g) ==
  /\ "fg" \in Commands /\ ~terminating /\ g \in jobs /\ Main("idle", "fg")
  /\ cur' = g
  /\ UNCHANGED <<kernelVars, tableVars, pos, inflight, leaveVars, histVars>>

\* The group moves from the job's cell to the foreground's under both locks.
MoveToForeground ==
  /\ Main("fg", "fg_give")
  /\ jobs' = jobs \ {cur}
  /\ fgCell' = IF ~Finished(stage, cur) /\ HasGroup(cur) THEN cur ELSE fgCell
  /\ jobCell' = [jobCell EXCEPT ![cur] = FALSE]
  /\ moved' = moved \cup {cur}
  /\ UNCHANGED <<kernelVars, stage, cur, pos, inflight, leaveVars, fault>>

\* A refused handover returns at once: the job has left the table.
GiveBack ==
  /\ \/ /\ Main("fg_give", "fg_continue")
        /\ tty' = IF Finished(stage, cur) THEN tty ELSE cur
        /\ UNCHANGED <<cur, fault>>
     \/ /\ MayRefuse /\ ~fault /\ Main("fg_give", "idle") /\ ~Finished(stage, cur)
        /\ cur' = None /\ fault' = TRUE
        /\ UNCHANGED tty
  /\ UNCHANGED <<proc, news, tableVars, pos, inflight, leaveVars, moved>>

\* Only a job the table holds as stopped is continued.
ContinueForeground ==
  /\ Main("fg_continue", "wait")
  /\ IF Stopped(stage, cur)
       THEN SignalGroup(cur, "CONT") /\ stage' = Resumed(cur)
       ELSE UNCHANGED <<proc, news, stage>>
  /\ UNCHANGED <<tty, jobs, fgCell, jobCell, cur, pos, inflight,
                 leaveVars, moved, fault>>

-----------------------------------------------------------------------------
(* Ctrl-C from another thread (Canceller::cancel).                         *)

Cancel ==
  /\ lpc # "dead" /\ fgCell # None
  /\ SignalGroup(fgCell, "INT")
  /\ UNCHANGED <<tty, tableVars, mainVars, leaveVars, moved, fault>>

-----------------------------------------------------------------------------
(* A shell that leaves (on_termination, end_owned).                        *)

\* The handler notes the signal; the thread it wakes begins the grace period.
Terminate ==
  /\ ~terminating
  /\ terminating' = TRUE /\ lpc' = "await"
  /\ UNCHANGED <<kernelVars, tableVars, mainVars, todo, found, asked, clock, histVars>>

\* The grace period passes, or a second signal ends it; then the reap moment.
Tick ==
  /\ \/ lpc \in {"await", "ask", "check"} /\ clock = "grace" /\ clock' = "kill"
     \/ lpc \in {"kill", "recheck"} /\ clock = "kill" /\ clock' = "over"
  /\ UNCHANGED <<kernelVars, tableVars, mainVars, terminating, lpc, todo, found,
                 asked, histVars>>

\* A start in progress is waited for, within the grace period.
AwaitStarts ==
  /\ lpc = "await" /\ (inflight = 0 \/ clock # "grace")
  /\ lpc' = "ask" /\ todo' = Cells
  /\ fault' = (fault \/ inflight # 0)
  /\ UNCHANGED <<kernelVars, tableVars, mainVars, terminating, found, asked,
                 clock, moved>>

\* The cells are looked at one by one, each under its own lock: the executor's
\* foreground cell, which was recorded first, then the jobs'.
Comes(c) == c \in todo /\ (Fg \in todo => c = Fg)

\* Every group that still runs is asked once.
Ask(c) ==
  /\ lpc = "ask" /\ Comes(c) /\ todo' = todo \ {c}
  /\ LET g == Names(c) IN
       IF g # None /\ GroupRuns(g) /\ g \notin asked
         THEN SignalGroup(g, "ASK") /\ asked' = asked \cup {g}
         ELSE UNCHANGED <<proc, news, asked>>
  /\ UNCHANGED <<tty, tableVars, mainVars, terminating, lpc, found, clock,
                 moved, fault>>

\* What is left is killed, again on every look.
Kill(c) ==
  /\ lpc = "kill" /\ Comes(c) /\ todo' = todo \ {c}
  /\ LET g == Names(c) IN
       IF g # None /\ GroupRuns(g)
         THEN SignalGroup(g, "KILL") ELSE UNCHANGED <<proc, news>>
  /\ UNCHANGED <<tty, tableVars, mainVars, terminating, lpc, found, asked,
                 clock, moved, fault>>

\* Whether anything still runs is a look of its own.
LookAgain ==
  /\ lpc \in {"ask", "kill"} /\ todo = {}
  /\ lpc' = IF lpc = "ask" THEN "check" ELSE "recheck"
  /\ todo' = Cells /\ found' = FALSE
  /\ UNCHANGED <<kernelVars, tableVars, mainVars, terminating, asked, clock, histVars>>

Check(c) ==
  /\ lpc \in {"check", "recheck"} /\ Comes(c) /\ todo' = todo \ {c}
  /\ found' = (found \/ (Names(c) # None /\ GroupRuns(Names(c))))
  /\ UNCHANGED <<kernelVars, tableVars, mainVars, terminating, lpc, asked, clock,
                 histVars>>

\* Nothing runs: the shell dies of the signal.  Otherwise it looks again, until
\* the grace period and then the reap moment are over.
Decide ==
  /\ todo = {}
  /\ \/ lpc \in {"check", "recheck"} /\ ~found /\ lpc' = "dead" /\ UNCHANGED todo
     \/ /\ lpc = "check" /\ found /\ todo' = Cells
        /\ lpc' = IF clock = "grace" THEN "ask" ELSE "kill"
     \/ /\ lpc = "recheck" /\ found
        /\ IF clock = "over" THEN lpc' = "dead" /\ UNCHANGED todo
                             ELSE lpc' = "kill" /\ todo' = Cells
  /\ UNCHANGED <<kernelVars, tableVars, mainVars, terminating, found, asked, clock,
                 histVars>>

-----------------------------------------------------------------------------

Statement ==
  \E g \in Pipe :
    \/ Run(g) \/ PollJob(g) \/ WaitJob(g) \/ Background(g) \/ BeginForeground(g)
    \/ \E sig \in {"INT", "CONT", "KILL"} : SignalJob(g, sig)

Within ==
  \/ StartCheck \/ SpawnStage \/ Publish \/ Started \/ Give
  \/ WaitForeground \/ WaitOver \/ ClearForeground \/ Reclaim \/ Settle
  \/ MoveToForeground \/ GiveBack \/ ContinueForeground

Leave ==
  \/ AwaitStarts \/ LookAgain \/ Decide
  \/ \E c \in Cells : Ask(c) \/ Kill(c) \/ Check(c)

Kernel == \E g \in Pipe : \E k \in StagesOf(g) : Exits(g, k) \/ Stops(g, k)

Next == Statement \/ Within \/ Cancel \/ Terminate \/ Tick \/ Leave \/ Kernel

Spec == Init /\ [][Next]_vars

\* The operating system schedules the threads, and time passes.
Fairness == WF_vars(Within) /\ WF_vars(Leave) /\ WF_vars(Tick)

FairSpec == Spec /\ Fairness

-----------------------------------------------------------------------------

\* Whoever signals a group through a cell reaches a group that still has a
\* member: the cell is cleared in the step that collects the last one.  So does
\* fg, which continues the group by the id in its hands.
SignalsReachMembers ==
  /\ \A c \in Cells : Names(c) # None => Held(proc, Names(c))
  /\ pc = "fg_continue" /\ Stopped(stage, cur) => Held(proc, cur)

\* Every group with a process left that the main thread is done with, or has
\* never let go of, is named by a cell, unless the terminal refused: it is in
\* the job table, or being waited for, or on its way between the two.
EveryGroupOwned ==
  \A g \in Pipe :
    GroupRuns(g) /\ ~fault =>
      \/ \E c \in Cells : Names(c) = g
      \/ cur = g /\ pc \in {"publish", "publish_bg", "reclaim", "settle"}

\* The cells say what is there: they name no group that is gone, and leave none
\* that is not.
CellsAreExact == SignalsReachMembers /\ EveryGroupOwned

\* A group that is still running when the shell has died had changed cells: it
\* was made a job after it stopped, or brought back by fg.  A group that stays in
\* the cell it was started in is always reached.
SurvivorsHadMoved ==
  lpc = "dead" /\ ~fault => \A g \in Pipe : GroupRuns(g) => g \in moved

\* Nothing survives the shell by accident.
NothingSurvives == lpc = "dead" /\ ~fault => \A g \in Pipe : ~GroupRuns(g)

\* A signal never reaches a group whose id may have been handed out again:
\* a job bg would continue still has a member.
BackgroundReachesMembers ==
  \A g \in jobs : pc = "idle" /\ HasGroup(g) => Held(proc, g)

\* At the prompt the terminal is the shell's.
PromptOwnsTerminal == pc = "idle" /\ ~fault => tty = None

\* Leaving takes at most the grace period and the reap moment.
LeavingEnds == terminating ~> lpc = "dead"

\* No stop and no exit is lost: a wait none of whose processes runs any more
\* returns.
WaitReturns ==
  (pc = "wait" /\ \A k \in StagesOf(cur) : proc[cur][k] # "running")
    ~> (pc # "wait" \/ lpc = "dead")

\* Neither thread waits for ever for a process that will not end.
NobodyWaitsForever == LeavingEnds /\ WaitReturns
=============================================================================
