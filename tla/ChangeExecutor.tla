--------------------------- MODULE ChangeExecutor ---------------------------
(***************************************************************************)
(* `apply` and `resume plan` over one sealed plan: the executor of         *)
(* ono-change-executor/src/execute.rs, run at once by any number of        *)
(* invocations in any number of shells against one shared plan store, any  *)
(* of which may be killed between two steps.                               *)
(*                                                                         *)
(* An invocation ("run") walks through the phases of `apply` in order; its *)
(* program counter names the next thing it will do.  Everything it reads   *)
(* from the store is copied, so it may be stale when it is used.           *)
(***************************************************************************)
EXTENDS PlanStore

CONSTANTS
  Run,           \* the invocations of apply and resume plan
  ShellOf,       \* the shell process (and so the session) each one runs in
  Idempotency,   \* the idempotency class of each mutating action
  Required,      \* the protection actions whose failure must stop the apply
  DomainOf,      \* the effect domain each protection action covers
  Promised,      \* the domains the sealed coverage matrix shows as protected
  GateAfter,     \* the last action of the canary wave; 0 for other strategies
  Recovery,      \* whether the plan is a recovery plan
  Crashing,      \* the shells that may be killed
  Slow,          \* the shells that may outlive their lease between renewals
  StoreMayFail,  \* whether a write to the store may fail
  Commands       \* which commands that write without a claim may run too

CommandNames == {"protect", "verify", "protection-lost"}

ASSUME ExecutorAssumption ==
  /\ ShellOf \in [Run -> Shell]
  /\ Idempotency \in [Action -> Idempotencies]
  /\ Required \subseteq Prot
  /\ DOMAIN DomainOf = Prot
  /\ GateAfter \in 0 .. N
  /\ Recovery \in BOOLEAN
  /\ Crashing \subseteq Shell
  /\ Slow \subseteq Shell
  /\ StoreMayFail \in BOOLEAN
  /\ Commands \subseteq CommandNames

VARIABLES
  pc,        \* where each run is
  mode,      \* "apply" or "resume"
  copy,      \* the lifecycle state the run read with its plan
  view,      \* the statuses it holds in memory, from its records on
  made,      \* what became of each protection action in this run
  pos,       \* the position in the mutating actions
  out,       \* the outcome of the action just executed
  fin,       \* the state it will record at the end, or "none"
  exec,      \* history: how often each action ran (0, 1, or 2 for more)
  done       \* history: the actions a provider reported as succeeded

runVars  == <<pc, mode, copy, view, made, pos, out, fin>>
histVars == <<exec, done>>
vars     == <<storeVars, procVars, runVars, histVars>>

\* The phases in which a run holds (or believes it holds) the claim.
Claimed ==
  {"evidence", "reestablish", "begin-prepare", "prepare", "persist-failed",
   "record-failed", "persist", "record-applying", "mutate", "gate",
   "record-running", "execute", "settle", "record-final", "release"}

Phases == Claimed \cup {"idle", "entry", "report", "verify-command"}

\* What a protection action came to: not tried, not created, or an asset.
Todo       == [is |-> "todo", of |-> "before"]
NotCreated == [is |-> "failed", of |-> "before"]
MadeAssets == [is : {"usable", "invalid"}, of : Captured]
Attempts   == {Todo, NotCreated} \cup MadeAssets

NothingMade == [p \in Prot |-> Todo]
AllPending  == [a \in Action |-> "pending"]

\* Writing to the store either takes effect or, where it may fail, does not.
\* The executor keeps the failure beside its outcome and goes on either way.
WriteState(s) ==
  \/ RecordState(s)
  \/ StoreMayFail /\ UNCHANGED state

\* persist_assets writes one asset at a time, so any of them may be missing.
AssetsOf(r) ==
  [p \in Prot |-> IF made[r][p] \in MadeAssets THEN {made[r][p].of} ELSE {}]

PersistAssets(r) ==
  \E lost \in IF StoreMayFail THEN SUBSET Prot ELSE {{}} :
    PutAssets([p \in Prot |-> IF p \in lost THEN {} ELSE AssetsOf(r)[p]])

CapturedNow == IF \E a \in Action : exec[a] > 0 THEN "after" ELSE "before"

Goto(r, phase) == pc' = [pc EXCEPT ![r] = phase]

\* A run that ends forgets everything it held in memory.
Forget(r) ==
  /\ mode' = [mode EXCEPT ![r] = "apply"]
  /\ copy' = [copy EXCEPT ![r] = "sealed"]
  /\ view' = [view EXCEPT ![r] = AllPending]
  /\ made' = [made EXCEPT ![r] = NothingMade]
  /\ pos' = [pos EXCEPT ![r] = 1]
  /\ out' = [out EXCEPT ![r] = "pending"]
  /\ fin' = [fin EXCEPT ![r] = "none"]

-----------------------------------------------------------------------------
(* Claim and evidence *)

\* appliability: which states apply and resume refuse.  A plan past its
\* validity is refused too, which the refusals below allow at any time.
Refuses(m, s) == s \notin IF m = "apply" THEN Appliable ELSE Resumable

InFlight == {"preparing", "applying", "verifying"}

\* A plan read as in flight goes on to the claim, which alone can tell whose
\* it is; a resume is held to its copy.
EntryRefuses(m, s) == (s \notin InFlight \/ m = "resume") /\ Refuses(m, s)

\* A mutant: an action in flight does not count as a beginning.
OnlySuccessBegan(rec) == \E a \in Action : rec[a] = "succeeded"

MutationBegan(rec) == \E a \in Action : rec[a] \in MayHaveMutated

\* A mutant: an action nobody can account for is run again.
ResumesUncertain(rec) ==
  \A a \in Action :
    \/ rec[a] \in {"succeeded", "running", "unknown"}
    \/ MayRerun(rec[a], Idempotency[a])

\* resume_with: one action that may not be run again refuses the whole plan.
MayContinue(rec) ==
  \A a \in Action :
    rec[a] = "succeeded" \/ MayRerun(rec[a], Idempotency[a])

Invoke(r, m) ==
  /\ pc[r] = "idle"
  /\ ShellOf[r] \notin dead
  /\ mode' = [mode EXCEPT ![r] = m]
  /\ copy' = [copy EXCEPT ![r] = state]
  /\ Goto(r, "entry")
  /\ UNCHANGED <<view, made, pos, out, fin, storeVars, procVars, histVars>>

\* Refused before the claim: by the copy, by the digest of the seal, by a
\* gate of the command, or at the claim itself (a busy store included).
Turned(r) ==
  /\ pc[r] = "entry"
  /\ Goto(r, "idle")
  /\ Forget(r)
  /\ UNCHANGED <<storeVars, procVars, histVars>>

ClaimPlan(r) ==
  /\ pc[r] = "entry"
  /\ ~EntryRefuses(mode[r], copy[r])
  /\ TakeClaim(ShellOf[r])
  /\ Goto(r, "evidence")
  /\ UNCHANGED <<mode, copy, view, made, pos, out, fin,
                 state, record, stored, procVars, histVars>>

\* Under the claim the store is read again, and it decides.
AcceptEvidence(r) ==
  /\ pc[r] = "evidence"
  /\ ~Refuses(mode[r], state)
  /\ mode[r] = "apply" => ~MutationBegan(record)
  /\ mode[r] = "resume" => MayContinue(record)
  /\ view' = [view EXCEPT ![r] = IF mode[r] = "resume" THEN record ELSE AllPending]
  /\ Goto(r, IF MutationBegan(record) THEN "reestablish"
             ELSE IF Prot = {} THEN "persist" ELSE "begin-prepare")
  /\ UNCHANGED <<mode, copy, made, pos, out, fin, storeVars, procVars, histVars>>

\* Refused under the claim, on the evidence or by a later check: material
\* drift, a missing capability, recovery discovery, an acknowledgement.
RefuseEvidence(r) ==
  /\ pc[r] = "evidence"
  /\ Goto(r, "release")
  /\ UNCHANGED <<mode, copy, view, made, pos, out, fin, storeVars, procVars, histVars>>

-----------------------------------------------------------------------------
(* Protection *)

\* A resumed plan that began rests on a stored asset for every required
\* protection action: the first that matches, in the order of opaque ids,
\* and only if its provider still validates it.
Reestablish(r) ==
  /\ pc[r] = "reestablish"
  /\ \E rest \in [Required -> Captured] :
       /\ \A p \in Required : rest[p] \in stored[p]
       /\ made' = [made EXCEPT ![r] =
            [p \in Prot |-> IF p \in Required THEN [is |-> "usable", of |-> rest[p]]
                           ELSE Todo]]
  /\ Goto(r, "persist")
  /\ UNCHANGED <<mode, copy, view, pos, out, fin, storeVars, procVars, histVars>>

ReestablishFails(r) ==
  /\ pc[r] = "reestablish"
  /\ Required # {}
  /\ Goto(r, "release")
  /\ UNCHANGED <<mode, copy, view, made, pos, out, fin, storeVars, procVars, histVars>>

BeginPrepare(r) ==
  /\ pc[r] = "begin-prepare"
  /\ WriteState("preparing")
  /\ Goto(r, "prepare")
  /\ UNCHANGED <<mode, copy, view, made, pos, out, fin,
                 record, claim, stored, procVars, histVars>>

\* A required protection action that did not end in a validated asset.
Broken(r) ==
  \E p \in Required : made[r][p] # Todo /\ made[r][p].is # "usable"

Attempted(r) == \A p \in Prot : made[r][p] # Todo

\* A domain the sealed matrix promised, tried for, and left unprotected.
PromiseBroken(r) ==
  \E p \in Prot :
    /\ DomainOf[p] \in Promised
    /\ \A q \in Prot : DomainOf[q] = DomainOf[p] => made[r][q].is # "usable"

\* create_and_validate: the provider makes an asset or does not, and an asset
\* that does not check out still exists.
ProtectOne(r, p) ==
  /\ pc[r] = "prepare"
  /\ made[r][p] = Todo
  /\ ~Broken(r)
  /\ \E result \in {NotCreated} \cup [is : {"usable", "invalid"}, of : {CapturedNow}] :
       made' = [made EXCEPT ![r][p] = result]
  /\ UNCHANGED <<pc, mode, copy, view, pos, out, fin, storeVars, procVars, histVars>>

Prepared(r) ==
  /\ pc[r] = "prepare"
  /\ Attempted(r)
  /\ ~Broken(r)
  /\ ~PromiseBroken(r)
  /\ Goto(r, "persist")
  /\ UNCHANGED <<mode, copy, view, made, pos, out, fin, storeVars, procVars, histVars>>

\* Preparation fails on a required action, on a broken promise, or on the
\* quiesce window, which is opened before the first action and closed after
\* the last.
PrepareFails(r) ==
  /\ pc[r] = "prepare"
  /\ Broken(r) \/ Attempted(r) \/ made[r] = NothingMade
  /\ Goto(r, "persist-failed")
  /\ UNCHANGED <<mode, copy, view, made, pos, out, fin, storeVars, procVars, histVars>>

PersistFailed(r) ==
  /\ pc[r] = "persist-failed"
  /\ PersistAssets(r)
  /\ Goto(r, "record-failed")
  /\ UNCHANGED <<mode, copy, view, made, pos, out, fin,
                 state, record, claim, procVars, histVars>>

RecordPrepareFailed(r) ==
  /\ pc[r] = "record-failed"
  /\ WriteState("prepare-failed")
  /\ Goto(r, "release")
  /\ UNCHANGED <<mode, copy, view, made, pos, out, fin,
                 record, claim, stored, procVars, histVars>>

\* A mutant: the assets are left for the report after the apply.
PersistLater(r) ==
  /\ pc[r] = "persist"
  /\ Goto(r, "record-applying")
  /\ UNCHANGED <<mode, copy, view, made, pos, out, fin, storeVars, procVars, histVars>>

Persist(r) ==
  /\ pc[r] = "persist"
  /\ PersistAssets(r)
  /\ Goto(r, "record-applying")
  /\ UNCHANGED <<mode, copy, view, made, pos, out, fin,
                 state, record, claim, procVars, histVars>>

\* A mutant: `applying` is not made durable before the first action.
ApplyUnrecorded(r) ==
  /\ pc[r] = "record-applying"
  /\ Goto(r, "mutate")
  /\ UNCHANGED <<mode, copy, view, made, pos, out, fin, storeVars, procVars, histVars>>

RecordApplying(r) ==
  /\ pc[r] = "record-applying"
  /\ WriteState("applying")
  /\ Goto(r, "mutate")
  /\ UNCHANGED <<mode, copy, view, made, pos, out, fin,
                 record, claim, stored, procVars, histVars>>

-----------------------------------------------------------------------------
(* Mutation *)

AtAction(r) == pc[r] = "mutate" /\ pos[r] \in Action

\* After the last action of the canary wave the gate is asked.
NextPhase(r) == IF pos[r] = GateAfter THEN "gate" ELSE "mutate"

Advance(r) ==
  /\ pos' = [pos EXCEPT ![r] = @ + 1]
  /\ Goto(r, NextPhase(r))

End(r, s) ==
  /\ fin' = [fin EXCEPT ![r] = s]
  /\ Goto(r, "record-final")

FailedState == IF Recovery THEN "recovery-failed" ELSE "apply-failed"

\* The state of a plan whose next action was not started.
NotStartedState(r) ==
  IF MutationBegan(view[r]) THEN FailedState
  ELSE IF \E p \in Prot : made[r][p].is = "usable" THEN "protected"
  ELSE IF copy[r] \in Appliable THEN copy[r]
  ELSE "sealed"

\* A mutant: a resumed run passes over whatever settled.
SkipSettled(r) ==
  /\ AtAction(r)
  /\ view[r][pos[r]] \in {"succeeded", "failed"}
  /\ Advance(r)
  /\ UNCHANGED <<mode, copy, view, made, out, fin, storeVars, procVars, histVars>>

\* A resumed run passes over what its records say succeeded.
SkipSucceeded(r) ==
  /\ AtAction(r)
  /\ view[r][pos[r]] = "succeeded"
  /\ Advance(r)
  /\ UNCHANGED <<mode, copy, view, made, out, fin, storeVars, procVars, histVars>>

\* The lease is renewed before each action, by the same take_claim: a row
\* that is gone is written again, and a lease that ran out is taken back.
Renew(r) ==
  /\ AtAction(r)
  /\ view[r][pos[r]] # "succeeded"
  /\ TakeClaim(ShellOf[r])
  /\ Goto(r, "record-running")
  /\ UNCHANGED <<mode, copy, view, made, pos, out, fin,
                 state, record, stored, procVars, histVars>>

\* Another session holds the plan, or the store was busy past its timeout and
\* reads as if one did: this run stops and records no final state.
LoseClaim(r) ==
  /\ AtAction(r)
  /\ view[r][pos[r]] # "succeeded"
  /\ ~Takeable(ShellOf[r]) \/ StoreMayFail
  /\ End(r, "none")
  /\ UNCHANGED <<mode, copy, view, made, pos, out, storeVars, procVars, histVars>>

\* The renewal or the running record could not be written.
NotStarted(r) ==
  /\ StoreMayFail
  /\ \/ pc[r] = "record-running"
     \/ AtAction(r) /\ view[r][pos[r]] # "succeeded"
  /\ End(r, NotStartedState(r))
  /\ UNCHANGED <<mode, copy, view, made, pos, out, storeVars, procVars, histVars>>

\* `running` is durable before the action starts.
RecordRunning(r) ==
  /\ pc[r] = "record-running"
  /\ RecordActionStatus(pos[r], "running")
  /\ view' = [view EXCEPT ![r][pos[r]] = "running"]
  /\ Goto(r, "execute")
  /\ UNCHANGED <<mode, copy, made, pos, out, fin,
                 state, claim, stored, procVars, histVars>>

\* The provider acts on the target and answers, or nobody can tell.
Execute(r) ==
  /\ pc[r] = "execute"
  /\ \E outcome \in {"succeeded", "failed", "unknown"} :
       /\ out' = [out EXCEPT ![r] = outcome]
       /\ done' = IF outcome = "succeeded" THEN done \cup {pos[r]} ELSE done
  /\ exec' = [exec EXCEPT ![pos[r]] = IF @ = 0 THEN 1 ELSE 2]
  /\ Goto(r, "settle")
  /\ UNCHANGED <<mode, copy, view, made, pos, fin, storeVars, procVars>>

\* A mutant: an action that failed is tried again at once.
SettleRetrying(r) ==
  /\ pc[r] = "settle"
  /\ RecordActionStatus(pos[r], out[r])
  /\ view' = [view EXCEPT ![r][pos[r]] = out[r]]
  /\ \/ out[r] = "succeeded" /\ Advance(r) /\ UNCHANGED fin
     \/ out[r] = "failed" /\ Goto(r, "mutate") /\ UNCHANGED <<pos, fin>>
     \/ out[r] = "unknown" /\ End(r, "applying") /\ UNCHANGED pos
  /\ UNCHANGED <<mode, copy, made, out, state, claim, stored, procVars, histVars>>

\* The outcome is recorded as it settles; only a success goes on.
Settle(r) ==
  /\ pc[r] = "settle"
  /\ \/ RecordActionStatus(pos[r], out[r])
     \/ StoreMayFail /\ UNCHANGED record
  /\ view' = [view EXCEPT ![r][pos[r]] = out[r]]
  /\ \/ out[r] = "succeeded" /\ Advance(r) /\ UNCHANGED fin
     \/ out[r] = "failed" /\ End(r, FailedState) /\ UNCHANGED pos
     \/ out[r] = "unknown" /\ End(r, "applying") /\ UNCHANGED pos
  /\ UNCHANGED <<mode, copy, made, out, state, claim, stored, procVars, histVars>>

\* The canary gate: required verification of the wave that ran.
GatePasses(r) ==
  /\ pc[r] = "gate"
  /\ Goto(r, "mutate")
  /\ UNCHANGED <<mode, copy, view, made, pos, out, fin, storeVars, procVars, histVars>>

GateStops(r) ==
  /\ pc[r] = "gate"
  /\ \E s \in IF Recovery THEN {"recovery-failed"} ELSE {"failed", "degraded"} :
       End(r, s)
  /\ UNCHANGED <<mode, copy, view, made, pos, out, storeVars, procVars, histVars>>

VerifiedStates ==
  IF Recovery THEN {"recovery-verified", "recovery-failed"}
  ELSE {"verified", "degraded", "failed"}

Verify(r) ==
  /\ pc[r] = "mutate"
  /\ pos[r] = N + 1
  /\ \E s \in VerifiedStates : End(r, s)
  /\ UNCHANGED <<mode, copy, view, made, pos, out, storeVars, procVars, histVars>>

RecordFinal(r) ==
  /\ pc[r] = "record-final"
  /\ \/ fin[r] # "none" /\ WriteState(fin[r])
     \/ fin[r] = "none" /\ UNCHANGED state
  /\ Goto(r, "release")
  /\ UNCHANGED <<mode, copy, view, made, pos, out, fin,
                 record, claim, stored, procVars, histVars>>

\* A mutant: a run that was refused returns without giving the claim back.
ReleaseIfConcluded(r) ==
  /\ pc[r] = "release"
  /\ \/ fin[r] # "none" /\ ReleaseClaim(ShellOf[r])
     \/ fin[r] = "none" /\ UNCHANGED claim
  /\ Goto(r, "report")
  /\ UNCHANGED <<mode, copy, view, made, pos, out, fin,
                 state, record, stored, procVars, histVars>>

\* Dropping the claim; a release that could not be written leaves the lease.
Release(r) ==
  /\ pc[r] = "release"
  /\ \/ ReleaseClaim(ShellOf[r])
     \/ StoreMayFail /\ UNCHANGED claim
  /\ Goto(r, "report")
  /\ UNCHANGED <<mode, copy, view, made, pos, out, fin,
                 state, record, stored, procVars, histVars>>

\* The apply command writes the assets of the outcome once more.
Report(r) ==
  /\ pc[r] = "report"
  /\ \/ mode[r] = "apply" /\ PersistAssets(r)
     \/ mode[r] = "resume" /\ UNCHANGED stored
  /\ Goto(r, "idle")
  /\ Forget(r)
  /\ UNCHANGED <<state, record, claim, procVars, histVars>>

-----------------------------------------------------------------------------
(* Processes and leases *)

\* A shell is killed; its runs are gone with it, and so are their memories.
\* Its pid may be given to another process at once.
Crash(s) ==
  /\ s \in Crashing \ dead
  /\ dead' = dead \cup {s}
  /\ ghost' \in {ghost, ghost \cup {s}}
  /\ pc' = [r \in Run |-> IF ShellOf[r] = s THEN "idle" ELSE pc[r]]
  /\ mode' = [r \in Run |-> IF ShellOf[r] = s THEN "apply" ELSE mode[r]]
  /\ copy' = [r \in Run |-> IF ShellOf[r] = s THEN "sealed" ELSE copy[r]]
  /\ view' = [r \in Run |-> IF ShellOf[r] = s THEN AllPending ELSE view[r]]
  /\ made' = [r \in Run |-> IF ShellOf[r] = s THEN NothingMade ELSE made[r]]
  /\ pos' = [r \in Run |-> IF ShellOf[r] = s THEN 1 ELSE pos[r]]
  /\ out' = [r \in Run |-> IF ShellOf[r] = s THEN "pending" ELSE out[r]]
  /\ fin' = [r \in Run |-> IF ShellOf[r] = s THEN "none" ELSE fin[r]]
  /\ UNCHANGED <<storeVars, histVars>>

\* A new shell starts.  Its session and pid are its own, so it is a shell no
\* claim row names.
Start(s) ==
  /\ s \in dead
  /\ claim.holder # s
  /\ dead' = dead \ {s}
  /\ ghost' = ghost \ {s}
  /\ UNCHANGED <<storeVars, runVars, histVars>>

\* The lease runs out.  The lease of a live holder runs out only where the
\* holder may take longer than the lease between two renewals.
LeaseLapses ==
  /\ claim.fresh
  /\ claim.holder \in dead \cup Slow
  /\ claim' = [claim EXCEPT !.fresh = FALSE]
  /\ UNCHANGED <<state, record, stored, procVars, runVars, histVars>>

-----------------------------------------------------------------------------
(* Commands that write without a claim *)

\* `protect` takes protection for the plan whatever state it is in.
Protect(p) ==
  /\ "protect" \in Commands
  /\ stored' = [stored EXCEPT ![p] = @ \cup {CapturedNow}]
  /\ UNCHANGED <<state, record, claim, procVars, runVars, histVars>>

\* `apply` finds, before the executor runs, that the promised protection can
\* no longer be made, and records the plan as prepare-failed.
ProtectionLost(r) ==
  /\ "protection-lost" \in Commands
  /\ pc[r] = "entry"
  /\ mode[r] = "apply"
  /\ WriteState("prepare-failed")
  /\ Goto(r, "idle")
  /\ Forget(r)
  /\ UNCHANGED <<record, claim, stored, procVars, histVars>>

\* `verify` reads the plan, checks, and records the verdict of a plan that
\* already had one.
InvokeVerify(r) ==
  /\ "verify" \in Commands
  /\ pc[r] = "idle"
  /\ ShellOf[r] \notin dead
  /\ copy' = [copy EXCEPT ![r] = state]
  /\ Goto(r, "verify-command")
  /\ UNCHANGED <<mode, view, made, pos, out, fin, storeVars, procVars, histVars>>

RecordVerdict(r) ==
  /\ pc[r] = "verify-command"
  /\ \/ copy[r] \in VerdictStates /\ \E s \in VerifiedStates : WriteState(s)
     \/ copy[r] \notin VerdictStates /\ UNCHANGED state
  /\ Goto(r, "idle")
  /\ Forget(r)
  /\ UNCHANGED <<record, claim, stored, procVars, histVars>>

-----------------------------------------------------------------------------

Init ==
  /\ StoreInit
  /\ pc = [r \in Run |-> "idle"]
  /\ mode = [r \in Run |-> "apply"]
  /\ copy = [r \in Run |-> "sealed"]
  /\ view = [r \in Run |-> AllPending]
  /\ made = [r \in Run |-> NothingMade]
  /\ pos = [r \in Run |-> 1]
  /\ out = [r \in Run |-> "pending"]
  /\ fin = [r \in Run |-> "none"]
  /\ exec = [a \in Action |-> 0]
  /\ done = {}

\* What a run does by itself once it is invoked.
Step(r) ==
  \/ Turned(r) \/ ClaimPlan(r) \/ AcceptEvidence(r) \/ RefuseEvidence(r)
  \/ Reestablish(r) \/ ReestablishFails(r)
  \/ BeginPrepare(r) \/ (\E p \in Prot : ProtectOne(r, p))
  \/ Prepared(r) \/ PrepareFails(r)
  \/ PersistFailed(r) \/ RecordPrepareFailed(r)
  \/ Persist(r) \/ RecordApplying(r)
  \/ SkipSucceeded(r) \/ Renew(r) \/ LoseClaim(r) \/ NotStarted(r)
  \/ RecordRunning(r) \/ Execute(r) \/ Settle(r)
  \/ GatePasses(r) \/ GateStops(r) \/ Verify(r)
  \/ RecordFinal(r) \/ Release(r) \/ Report(r)
  \/ ProtectionLost(r) \/ RecordVerdict(r)

Next ==
  \/ \E r \in Run : Step(r)
  \/ \E r \in Run, m \in {"apply", "resume"} : Invoke(r, m)
  \/ \E r \in Run : InvokeVerify(r)
  \/ \E s \in Shell : Crash(s) \/ Start(s)
  \/ LeaseLapses
  \/ \E p \in Prot : Protect(p)

Spec == Init /\ [][Next]_vars

\* A run that has begun keeps going: nothing in it waits for another run.
FairSpec == Spec /\ \A r \in Run : WF_vars(Step(r))

-----------------------------------------------------------------------------
(* Properties *)

TypeOK ==
  /\ StoreTypeOK
  /\ pc \in [Run -> Phases]
  /\ mode \in [Run -> {"apply", "resume"}]
  /\ copy \in [Run -> PlanStates]
  /\ view \in [Run -> [Action -> ActionStatuses]]
  /\ made \in [Run -> [Prot -> Attempts]]
  /\ pos \in [Run -> 1 .. N + 1]
  /\ out \in [Run -> {"pending", "succeeded", "failed", "unknown"}]
  /\ fin \in [Run -> PlanStates \cup {"none"}]
  /\ exec \in [Action -> 0 .. 2]
  /\ done \subseteq Action

\* The claim keeps the plan to one run at a time (§42.4).
ExclusiveApply ==
  \A q, r \in Run : pc[q] \in Claimed /\ pc[r] \in Claimed => q = r

\* An action that may not be repeated runs at most once, over every crash,
\* resume and store failure.
NonIdempotentOnce ==
  \A a \in Action : Idempotency[a] # "idempotent" => exec[a] <= 1

\* `apply` on a plan that began is a refusal, never a second mutation: what a
\* run that is not a resume executes has not been executed before.
AppliedOnce ==
  \A r \in Run : mode[r] = "apply" /\ pc[r] = "execute" => exec[pos[r]] = 0

\* Whatever an action did to the system, its record says it may have.
RunningBeforeEffect ==
  \A a \in Action : exec[a] > 0 => record[a] \in MayHaveMutated

\* prepare-failed: preparation failed, and no mutating action ran.
PrepareFailedUntouched ==
  state = "prepare-failed" => \A a \in Action : exec[a] = 0

\* A plan that reads as not begun has changed nothing.
HonestState ==
  state \in Appliable \cup {"preparing", "prepare-failed"} =>
    \A a \in Action : exec[a] = 0

\* What an action runs under: every required protection action has a usable
\* asset, checked by this run, that captured the targets as they were.
CleanProtection ==
  \A r \in Run : pc[r] = "execute" =>
    \A p \in Required : made[r][p] = [is |-> "usable", of |-> "before"]

\* The protection a resume will rest on is durable before the first change.
DurableProtection ==
  (\E a \in Action : exec[a] > 0) => \A p \in Required : "before" \in stored[p]

\* Every domain the operator was shown as protected is, whenever an action
\* runs, covered by an asset this run has checked.
PromiseKept ==
  \A r \in Run : pc[r] = "execute" => ~PromiseBroken(r)

\* An outcome nobody established stays unestablished: the record of an action
\* that may not be repeated and that no live run is carrying out never
\* changes, whoever resumes.
UncertaintyKept ==
  [][\A a \in Action :
       /\ record[a] \in {"running", "unknown"}
       /\ Idempotency[a] # "idempotent"
       /\ \A r \in Run : pos[r] = a => pc[r] \notin {"execute", "settle"}
       => record'[a] = record[a]]_vars

\* A run that another took the plan from writes nothing over it.
LoserWritesNothing ==
  [][\A r \in Run :
       pc[r] = "record-final" /\ pc'[r] = "release" /\ state' # state
         => claim.holder \in {NoShell, ShellOf[r]}]_vars

\* Every invocation comes to an end.
EveryRunEnds == \A r \in Run : pc[r] # "idle" ~> pc[r] = "idle"

\* A claim is given back, unless its holder is killed or its release is lost.
ClaimReturned ==
  \A s \in Shell : claim.holder = s ~> claim.holder # s \/ s \in dead

-----------------------------------------------------------------------------
(* What a plan is to somebody who sees neither shells nor the store. *)

Outcome ==
  CASE state \in {"verified", "recovery-verified"} -> "verified"
    [] state = "prepare-failed" -> "untouched"
    [] state \in {"degraded", "failed", "recovery-failed"} -> "judged"
    [] OTHER -> "open"

Promise == INSTANCE SealedPlan WITH ran <- exec, done <- done, outcome <- Outcome

\* The executor carries out a sealed plan: in order, never twice what may not
\* be repeated, and nothing after the plan has an outcome.
ImplementsSealedPlan == Promise!Spec
=============================================================================
