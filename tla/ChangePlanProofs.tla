-------------------------- MODULE ChangePlanProofs --------------------------
(***************************************************************************)
(* What the durable state of a plan, its protection and its outcome tell,  *)
(* for any number of shells, invocations, actions and protection actions.  *)
(* The runs are kept apart by ChangeExecutorProofs; here one run at a time *)
(* is followed through its phases.                                         *)
(***************************************************************************)
EXTENDS ChangeExecutorProofs

-----------------------------------------------------------------------------
(* The steps of one run *)

\* A run as it was, or one phase on with nothing else to show for it.
Still(r) ==
  /\ made'[r] = made[r] /\ view'[r] = view[r] /\ pos'[r] = pos[r]
  /\ out'[r] = out[r] /\ fin'[r] = fin[r]
  /\ \/ pc'[r] = pc[r]
     \/ pc[r] = "idle" /\ pc'[r] = "entry"
     \/ pc[r] = "idle" /\ pc'[r] = "verify-command" /\ "verify" \in Commands
     \/ pc[r] = "entry" /\ pc'[r] = "evidence"
     \/ pc[r] \in {"evidence", "reestablish"} /\ pc'[r] = "release"
     \/ pc[r] = "prepare" /\ pc'[r] = "persist-failed"
     \/ pc[r] = "mutate" /\ pc'[r] = "record-running"
     \/ pc[r] = "gate" /\ pc'[r] = "mutate"
     \/ pc[r] = "release" /\ pc'[r] = "report"

\* A run that is over.
Gone(r) ==
  /\ pc'[r] = "idle" /\ made'[r] = NothingMade /\ view'[r] = AllPending
  /\ pos'[r] = 1 /\ out'[r] = "pending" /\ fin'[r] = "none"

\* Nothing is written and nothing is done.
Calm ==
  /\ state' = state /\ record' = record /\ stored' = stored
  /\ exec' = exec /\ done' = done
  /\ \A r \in Run : Still(r) \/ Gone(r)

\* A run leaves the memory of every other alone.
Others(r) ==
  \A q \in Run \ {r} :
    /\ pc'[q] = pc[q] /\ made'[q] = made[q] /\ view'[q] = view[q]
    /\ pos'[q] = pos[q] /\ out'[q] = out[q] /\ fin'[q] = fin[q]

\* The steps that stop a run before its last action, or after it.
Concludes(r) == LoseClaim(r) \/ NotStarted(r) \/ GateStops(r) \/ Verify(r)

Writes(r) ==
  \/ BeginPrepare(r) \/ RecordPrepareFailed(r) \/ RecordApplying(r)
  \/ RecordFinal(r) \/ ProtectionLost(r) \/ RecordVerdict(r)

Protects(r) ==
  \/ Reestablish(r) \/ (\E p \in Prot : ProtectOne(r, p)) \/ Prepared(r)
  \/ PersistFailed(r) \/ Persist(r) \/ Report(r)

Acts(r) ==
  \/ AcceptEvidence(r) \/ SkipSucceeded(r) \/ RecordRunning(r) \/ Execute(r)
  \/ Settle(r)

\* Every step is calm, is a `protect`, or is one run's.
LEMMA CalmOrNot ==
  ASSUME TypeOK, [Next]_vars
  PROVE  \/ Calm
         \/ \E p \in Prot : Protect(p)
         \/ \E r \in Run : /\ Others(r)
                           /\ Concludes(r) \/ Writes(r) \/ Protects(r) \/ Acts(r)
<1>0. /\ pc \in [Run -> Phases] /\ view \in [Run -> [Action -> ActionStatuses]]
      /\ made \in [Run -> [Prot -> Attempts]] /\ pos \in [Run -> 1 .. N + 1]
      /\ out \in [Run -> {"pending", "succeeded", "failed", "unknown"}]
      /\ fin \in [Run -> PlanStates \cup {"none"}]
  BY DEF TypeOK
<1>a. ASSUME NEW r \in Run, Forget(r), Goto(r, "idle")
      PROVE  Gone(r) /\ Others(r)
  BY <1>0, <1>a DEF Forget, Goto, Gone, Others
<1> USE <1>0 DEF storeVars, procVars, runVars, histVars, Goto
<1>1. ASSUME NEW r \in Run, NEW m \in {"apply", "resume"}, Invoke(r, m) PROVE Calm
  BY <1>1 DEF Invoke, Calm, Still
<1>2. ASSUME NEW r \in Run, InvokeVerify(r) PROVE Calm
  BY <1>2 DEF InvokeVerify, Calm, Still
<1>3. ASSUME NEW r \in Run, Turned(r) PROVE Calm
  <2>1. Gone(r) /\ Others(r)
    BY Zenon, <1>3, <1>a DEF Turned
  <2> QED
    BY <1>3, <2>1 DEF Turned, Calm, Still, Others
<1>4. ASSUME NEW r \in Run, ClaimPlan(r) PROVE Calm
  BY <1>4 DEF ClaimPlan, Calm, Still
<1>5. ASSUME NEW r \in Run, RefuseEvidence(r) PROVE Calm
  BY <1>5 DEF RefuseEvidence, Calm, Still
<1>6. ASSUME NEW r \in Run, ReestablishFails(r) PROVE Calm
  BY <1>6 DEF ReestablishFails, Calm, Still
<1>7. ASSUME NEW r \in Run, PrepareFails(r) PROVE Calm
  BY <1>7 DEF PrepareFails, Calm, Still
<1>8. ASSUME NEW r \in Run, Renew(r) PROVE Calm
  BY <1>8 DEF Renew, AtAction, Calm, Still
<1>9. ASSUME NEW r \in Run, GatePasses(r) PROVE Calm
  BY <1>9 DEF GatePasses, Calm, Still
<1>10. ASSUME NEW r \in Run, Release(r) PROVE Calm
  BY <1>10 DEF Release, Calm, Still
<1>11. ASSUME NEW s \in Shell, Crash(s) PROVE Calm
  BY <1>11 DEF Crash, Calm, Still, Gone
<1>12. ASSUME NEW s \in Shell, Start(s) PROVE Calm
  BY <1>12 DEF Start, Calm, Still
<1>13. ASSUME LeaseLapses PROVE Calm
  BY <1>13 DEF LeaseLapses, Calm, Still
<1>14. CASE UNCHANGED vars
  BY <1>14 DEF vars, Calm, Still
<1>15. ASSUME NEW r \in Run, Concludes(r) PROVE Others(r)
  BY <1>15 DEF Concludes, LoseClaim, NotStarted, GateStops, Verify, End, Others
<1>16. ASSUME NEW r \in Run, Writes(r) PROVE Others(r)
  <2>1. CASE BeginPrepare(r) \/ RecordPrepareFailed(r) \/ RecordApplying(r) \/ RecordFinal(r)
    BY <2>1 DEF BeginPrepare, RecordPrepareFailed, RecordApplying, RecordFinal, Others
  <2>2. CASE ProtectionLost(r) \/ RecordVerdict(r)
    BY Zenon, <1>a, <2>2 DEF ProtectionLost, RecordVerdict
  <2> QED
    BY Zenon, <1>16, <2>1, <2>2 DEF Writes
<1>17. ASSUME NEW r \in Run, Protects(r) PROVE Others(r)
  <2>1. CASE Reestablish(r) \/ Prepared(r) \/ PersistFailed(r) \/ Persist(r)
    BY <2>1 DEF Reestablish, Prepared, PersistFailed, Persist, Others
  <2>2. ASSUME NEW p \in Prot, ProtectOne(r, p) PROVE Others(r)
    BY <2>2 DEF ProtectOne, Others
  <2>3. CASE Report(r)
    BY Zenon, <1>a, <2>3 DEF Report
  <2> QED
    BY Zenon, <1>17, <2>1, <2>2, <2>3 DEF Protects
<1>18. ASSUME NEW r \in Run, Acts(r) PROVE Others(r)
  BY <1>18 DEF Acts, AcceptEvidence, SkipSucceeded, RecordRunning, Execute, Settle,
      Advance, End, Others
<1> QED
  BY Zenon, <1>1, <1>2, <1>3, <1>4, <1>5, <1>6, <1>7, <1>8, <1>9, <1>10, <1>11, <1>12,
      <1>13, <1>14, <1>15, <1>16, <1>17, <1>18
      DEF Next, Step, Concludes, Writes, Protects, Acts

\* Where the claim keeps runs apart, a run that has it is alone with it.
LEMMA Alone ==
  ASSUME ExclusiveApply, NEW r \in Run, pc[r] \in Claimed, Others(r)
  PROVE  \A q \in Run \ {r} : pc[q] \notin Claimed /\ pc'[q] \notin Claimed
  BY Zenon DEF ExclusiveApply, Others

-----------------------------------------------------------------------------
(* A plan that reads as not begun has changed nothing *)

\* No write to the store fails.
StoreIsReliable == ~StoreMayFail

\* The phases of a run that takes protection for a plan that has not begun,
\* and of one that carries its actions out.
Preparing == {"begin-prepare", "prepare", "persist-failed", "record-failed"}
Mutating ==
  {"mutate", "gate", "record-running", "execute", "settle", "record-final"}

NotBegun == Appliable \cup {"preparing", "prepare-failed"}

Untouched == \A a \in Action : exec[a] = 0

\* Protection is taken only of targets the plan has not changed.
PreparesUntouched == \A r \in Run : pc[r] \in Preparing => Untouched

LEMMA PreparesUntouchedStep ==
  ASSUME RecordsInv, ExclusiveApply, PreparesUntouched, [Next]_vars
  PROVE  PreparesUntouched'
<1>0. /\ pc \in [Run -> Phases] /\ exec \in [Action -> 0 .. 2]
      /\ record \in [Action -> ActionStatuses] /\ TypeOK
  BY DEF RecordsInv, TypeOK, StoreTypeOK
<1> USE DEF Preparing, PreparesUntouched, Untouched
<1>1. ASSUME exec' = exec, \A r \in Run : pc'[r] \in Preparing => pc[r] \in Preparing
      PROVE  PreparesUntouched'
  BY <1>1
<1>2. CASE Calm
  BY <1>1, <1>2 DEF Calm, Still, Gone
<1>3. ASSUME NEW p \in Prot, Protect(p) PROVE PreparesUntouched'
  BY Zenon, <1>1, <1>3 DEF Protect, runVars, histVars
<1>4. ASSUME NEW r \in Run, Others(r), Concludes(r) PROVE PreparesUntouched'
  BY <1>0, <1>1, <1>4
  DEF Others, Concludes, LoseClaim, NotStarted, GateStops, Verify, End, Goto, histVars
<1>5. ASSUME NEW r \in Run, Others(r), Writes(r) PROVE PreparesUntouched'
  BY <1>0, <1>1, <1>5
  DEF Others, Writes, BeginPrepare, RecordPrepareFailed, RecordApplying, RecordFinal,
      ProtectionLost, RecordVerdict, Goto, histVars
<1>6. ASSUME NEW r \in Run, Others(r), Protects(r) PROVE PreparesUntouched'
  BY <1>0, <1>1, <1>6
  DEF Others, Protects, Reestablish, ProtectOne, Prepared, PersistFailed, Persist,
      Report, Goto, histVars
<1>7. ASSUME NEW r \in Run, Others(r), Acts(r) PROVE PreparesUntouched'
  <2>1. CASE AcceptEvidence(r)
    <3>1. pc'[r] \in Preparing => ~MutationBegan(record)
      BY <1>0, <2>1 DEF AcceptEvidence, Goto
    <3>2. ~MutationBegan(record) => Untouched
      BY <1>0 DEF MutationBegan, RecordsInv, RunningBeforeEffect
    <3>3. exec' = exec
      BY Zenon, <2>1 DEF AcceptEvidence, histVars
    <3> QED
      BY <1>7, <3>1, <3>2, <3>3 DEF Others
  <2>2. CASE SkipSucceeded(r) \/ RecordRunning(r) \/ Settle(r)
    BY <1>0, <1>1, <1>7, <2>2
    DEF Others, SkipSucceeded, RecordRunning, Settle, Advance, NextPhase, End, Goto,
        histVars
  <2>3. CASE Execute(r)
    <3>1. pc[r] \in Claimed /\ pc'[r] = "settle"
      BY <1>0, <2>3 DEF Execute, Claimed, Goto
    <3>2. \A q \in Run : pc'[q] \notin Preparing
      BY Zenon, Alone, <1>7, <3>1 DEF Claimed
    <3> QED
      BY <3>2
  <2> QED
    BY Zenon, <1>7, <2>1, <2>2, <2>3 DEF Acts
<1> QED
  BY Zenon, CalmOrNot, <1>0, <1>2, <1>3, <1>4, <1>5, <1>6, <1>7

\* A run that takes protection for the plan finds it unchanged.
THEOREM ProtectionComesFirst ==
  ASSUME LeasesHold, OneRunPerShell
  PROVE  Spec => []PreparesUntouched
<1>1. Init => PreparesUntouched
  BY DEF Init, PreparesUntouched, Preparing
<1>2. RecordsInv /\ ExclusiveApply /\ PreparesUntouched /\ [Next]_vars
        => PreparesUntouched'
  BY PreparesUntouchedStep
<1> QED
  BY <1>1, <1>2, RecordsCorrect, OneAtATime, PTL DEF Spec

\* A run that carries actions out has said so in the durable state, and what
\* it will record at the end does not take that back.
SaysItBegan ==
  \A r \in Run :
    /\ pc[r] \in Mutating => state \notin NotBegun
    /\ pc[r] = "record-final" => fin[r] \notin NotBegun

\* `apply` records no plan as unprotectable before it has the claim.
NothingRecordedUnclaimed == "protection-lost" \notin Commands

LEMMA SaysItBeganStep ==
  ASSUME StoreIsReliable, NothingRecordedUnclaimed, TypeOK, ExclusiveApply,
         PreparesUntouched, SaysItBegan, HonestState, [Next]_vars
  PROVE  SaysItBegan' /\ HonestState'
<1>0. /\ pc \in [Run -> Phases] /\ exec \in [Action -> 0 .. 2]
      /\ fin \in [Run -> PlanStates \cup {"none"}]
  BY DEF TypeOK
<1> DEFINE Keeps(q) ==
      /\ pc'[q] \in Mutating => pc[q] \in Mutating
      /\ pc'[q] = "record-final" =>
           \/ fin'[q] \notin NotBegun
           \/ pc[q] = "record-final" /\ fin'[q] = fin[q]
<1> USE DEF NotBegun, Mutating, Appliable
<1>1. ASSUME state' = state, exec' = exec, \A q \in Run : Keeps(q)
      PROVE  SaysItBegan' /\ HonestState'
  BY <1>1 DEF SaysItBegan, HonestState
<1>2. CASE Calm
  BY <1>1, <1>2 DEF Calm, Still, Gone
<1>3. ASSUME NEW p \in Prot, Protect(p) PROVE SaysItBegan' /\ HonestState'
  BY Zenon, <1>1, <1>3 DEF Protect, runVars, histVars
<1>4. ASSUME NEW r \in Run, Others(r), Concludes(r)
      PROVE  SaysItBegan' /\ HonestState'
  <2>1. pc[r] \in Mutating /\ pc'[r] = "record-final" /\ fin'[r] \notin NotBegun
    BY <1>0, <1>4
    DEF Concludes, LoseClaim, NotStarted, GateStops, Verify, VerifiedStates, AtAction,
        End, Goto, StoreIsReliable
  <2>2. state' = state /\ exec' = exec
    BY Zenon, <1>4
    DEF Concludes, LoseClaim, NotStarted, GateStops, Verify, storeVars, histVars
  <2>3. \A q \in Run : Keeps(q)
    BY Zenon, <1>4, <2>1 DEF Others
  <2> QED
    BY Zenon, <1>1, <2>2, <2>3
<1>5. ASSUME NEW r \in Run, Others(r), Writes(r)
      PROVE  SaysItBegan' /\ HonestState'
  <2>1. exec' = exec
    BY Zenon, <1>5
    DEF Writes, BeginPrepare, RecordPrepareFailed, RecordApplying, RecordFinal,
        ProtectionLost, RecordVerdict, histVars
  <2>2. CASE BeginPrepare(r) \/ RecordPrepareFailed(r)
    <3>1. pc[r] \in Claimed /\ pc[r] \in Preparing /\ pc'[r] \notin Mutating
      BY <1>0, <2>2 DEF BeginPrepare, RecordPrepareFailed, Claimed, Preparing, Goto
    <3>2. \A q \in Run : pc'[q] \notin Mutating
      BY Zenon, Alone, <1>5, <3>1 DEF Claimed
    <3> QED
      BY <2>1, <3>1, <3>2 DEF SaysItBegan, HonestState, PreparesUntouched, Untouched
  <2>3. CASE RecordApplying(r) \/ RecordFinal(r)
    <3>1. /\ pc[r] \in Claimed /\ state' \notin NotBegun
          /\ pc'[r] \in {"mutate", "release"}
      BY <1>0, <2>3
      DEF RecordApplying, RecordFinal, Claimed, WriteState, RecordState, StoreIsReliable,
          SaysItBegan, Goto
    <3>2. \A q \in Run \ {r} : pc'[q] \notin Mutating
      BY Zenon, Alone, <1>5, <3>1 DEF Claimed
    <3> QED
      BY <2>1, <3>1, <3>2 DEF SaysItBegan, HonestState
  <2>4. CASE ProtectionLost(r)
    BY Zenon, <2>4 DEF ProtectionLost, NothingRecordedUnclaimed
  <2>5. CASE RecordVerdict(r)
    <3>1. pc'[r] = "idle" /\ (state' = state \/ state' \notin NotBegun)
      BY <1>0, <2>5
      DEF RecordVerdict, WriteState, RecordState, VerifiedStates, Goto
    <3> QED
      BY <1>5, <2>1, <3>1 DEF Others, SaysItBegan, HonestState
  <2> QED
    BY Zenon, <1>5, <2>2, <2>3, <2>4, <2>5 DEF Writes
<1>6. ASSUME NEW r \in Run, Others(r), Protects(r)
      PROVE  SaysItBegan' /\ HonestState'
  <2>1. pc'[r] \notin Mutating
    BY <1>0, <1>6
    DEF Protects, Reestablish, ProtectOne, Prepared, PersistFailed, Persist, Report, Goto
  <2>2. state' = state /\ exec' = exec
    BY Zenon, <1>6
    DEF Protects, Reestablish, ProtectOne, Prepared, PersistFailed, Persist, Report,
        storeVars, histVars
  <2> QED
    BY <1>1, <1>6, <2>1, <2>2 DEF Others
<1>7. ASSUME NEW r \in Run, Others(r), Acts(r)
      PROVE  SaysItBegan' /\ HonestState'
  <2>1. /\ state' = state
        /\ pc'[r] \in Mutating => pc[r] \in Mutating
        /\ pc'[r] = "record-final" => fin'[r] \notin NotBegun
    BY <1>0, <1>7
    DEF Acts, AcceptEvidence, SkipSucceeded, RecordRunning, Execute, Settle, Advance,
        NextPhase, End, FailedState, AtAction, Goto, storeVars
  <2>2. CASE Execute(r)
    <3>1. state \notin NotBegun
      BY <2>2 DEF Execute, SaysItBegan
    <3>2. HonestState'
      BY Zenon, <2>1, <3>1 DEF HonestState
    <3>3. ASSUME NEW q \in Run, pc'[q] = "record-final" PROVE fin'[q] \notin NotBegun
      BY Zenon, <1>7, <2>1, <3>3 DEF Others, SaysItBegan
    <3> QED
      BY Zenon, <2>1, <3>1, <3>2, <3>3 DEF SaysItBegan
  <2>3. CASE ~Execute(r)
    <3>1. exec' = exec
      BY Zenon, <1>7, <2>3
      DEF Acts, AcceptEvidence, SkipSucceeded, RecordRunning, Settle, histVars
    <3>2. \A q \in Run : Keeps(q)
      BY Zenon, <1>7, <2>1 DEF Others
    <3> QED
      BY Zenon, <1>1, <2>1, <3>1, <3>2
  <2> QED
    BY Zenon, <2>2, <2>3
<1> QED
  BY Zenon, CalmOrNot, <1>2, <1>3, <1>4, <1>5, <1>6, <1>7

\* A plan whose state says nothing has begun has changed nothing, over every
\* crash and every command, where writes to the store do not fail.  Each
\* assumption is needed: a lost write of `applying`, a lease that runs out, and
\* a `prepare-failed` recorded without the claim each leave such a state
\* behind.
THEOREM StateIsHonest ==
  ASSUME LeasesHold, OneRunPerShell, StoreIsReliable, NothingRecordedUnclaimed
  PROVE  Spec => []HonestState
<1>1. Init => SaysItBegan /\ HonestState
  BY DEF Init, SaysItBegan, HonestState, Mutating
<1>2. /\ TypeOK /\ ExclusiveApply /\ PreparesUntouched
      /\ SaysItBegan /\ HonestState /\ [Next]_vars
      => SaysItBegan' /\ HonestState'
  BY SaysItBeganStep
<1> QED
  BY <1>1, <1>2, TypeCorrect, OneAtATime, ProtectionComesFirst, PTL DEF Spec

-----------------------------------------------------------------------------
(* Protection *)

\* Persisting adds assets of this run and takes none away.
LEMMA PersistAdds ==
  ASSUME TypeOK, NEW r \in Run, PersistAssets(r), NEW p \in Prot
  PROVE  /\ stored[p] \subseteq stored'[p]
         /\ stored'[p] \subseteq stored[p] \cup AssetsOf(r)[p]
         /\ ~StoreMayFail => stored'[p] = stored[p] \cup AssetsOf(r)[p]
<1>1. PICK lost \in IF StoreMayFail THEN SUBSET Prot ELSE {{}} :
        PutAssets([q \in Prot |-> IF q \in lost THEN {} ELSE AssetsOf(r)[q]])
  BY Zenon DEF PersistAssets
<1>2. stored'[p] = stored[p] \cup (IF p \in lost THEN {} ELSE AssetsOf(r)[p])
  BY Zenon, <1>1 DEF PutAssets
<1>3. ~StoreMayFail => lost = {}
  BY Zenon, <1>1
<1> QED
  BY <1>2, <1>3

\* No step takes an asset out of the store.
LEMMA StoredGrows ==
  ASSUME TypeOK, [Next]_vars
  PROVE  \A p \in Prot : stored[p] \subseteq stored'[p]
<1>0. stored \in [Prot -> SUBSET Captured]
  BY DEF TypeOK, StoreTypeOK
<1>1. CASE Calm
  BY <1>1 DEF Calm
<1>2. ASSUME NEW p \in Prot, Protect(p)
      PROVE  \A q \in Prot : stored[q] \subseteq stored'[q]
  BY <1>0, <1>2 DEF Protect
<1>3. ASSUME NEW r \in Run, Concludes(r) \/ Writes(r) \/ Acts(r) PROVE stored' = stored
  BY Zenon, <1>3
  DEF Concludes, LoseClaim, NotStarted, GateStops, Verify, Writes, BeginPrepare,
      RecordPrepareFailed, RecordApplying, RecordFinal, ProtectionLost, RecordVerdict,
      Acts, AcceptEvidence, SkipSucceeded, RecordRunning, Execute, Settle, storeVars
<1>4. ASSUME NEW r \in Run, Protects(r)
      PROVE  stored' = stored \/ PersistAssets(r)
  BY Zenon, <1>4
  DEF Protects, Reestablish, ProtectOne, Prepared, PersistFailed, Persist, Report,
      storeVars
<1> QED
  BY Zenon, CalmOrNot, PersistAdds, <1>1, <1>2, <1>3, <1>4

\* Every required protection action has an asset from before the plan began in
\* the store, or in the hands of a run.
Kept == \A p \in Required : "before" \in stored[p]
Clean(r) == \A p \in Required : made[r][p] = [is |-> "usable", of |-> "before"]

\* The phases of a run that has persisted nothing yet.
Opening ==
  {"idle", "entry", "verify-command", "evidence", "reestablish", "begin-prepare",
   "prepare"}

\* A plan some action of which may have started rests on protection that is in
\* the store; so does every run past the step that persists it; and on the way
\* there a run has made only assets of unchanged targets.
KeptInv ==
  /\ MutationBegan(record) => Kept
  /\ \A r \in Run :
       /\ pc[r] \in {"record-applying"} \cup Mutating => Kept
       /\ pc[r] = "reestablish" => MutationBegan(record)
       /\ pc[r] = "persist" => Kept \/ Clean(r)
       /\ pc[r] \in Opening => \A p \in Prot : made[r][p].of = "before"

LEMMA KeptStep ==
  ASSUME StoreIsReliable, RecordsInv, ExclusiveApply, PreparesUntouched, KeptInv,
         [Next]_vars
  PROVE  KeptInv'
<1>0. /\ pc \in [Run -> Phases] /\ record \in [Action -> ActionStatuses]
      /\ made \in [Run -> [Prot -> Attempts]] /\ TypeOK
  BY DEF RecordsInv, TypeOK, StoreTypeOK
<1>a. Required \subseteq Prot
  BY ExecutorAssumption
<1>b. Kept => Kept'
  BY Zenon, StoredGrows, <1>0, <1>a DEF Kept
<1> DEFINE Holds(r) ==
      /\ pc[r] \in {"record-applying"} \cup Mutating => Kept
      /\ pc[r] = "reestablish" => MutationBegan(record)
      /\ pc[r] = "persist" => Kept \/ Clean(r)
      /\ pc[r] \in Opening => \A p \in Prot : made[r][p].of = "before"
<1>c. \A r \in Run : Holds(r)
  BY Zenon DEF KeptInv
<1>d. ASSUME record' = record, NEW q \in Run, pc'[q] = pc[q], made'[q] = made[q]
      PROVE  Holds(q)'
  BY <1>b, <1>c, <1>d DEF MutationBegan, Clean
<1>e. ASSUME record' = record PROVE MutationBegan(record)' => Kept'
  BY Zenon, <1>b, <1>e DEF KeptInv, MutationBegan
<1>f. ASSUME record' = record, NEW r \in Run, Others(r), Holds(r)' PROVE KeptInv'
  BY Zenon, <1>d, <1>e, <1>f DEF Others, KeptInv
<1>1. CASE Calm
  <2>1. ASSUME NEW q \in Run, Still(q) PROVE Holds(q)'
    BY <1>b, <1>c, <1>1, <2>1 DEF Calm, Still, Opening, Mutating, MutationBegan, Clean
  <2>2. ASSUME NEW q \in Run, Gone(q) PROVE Holds(q)'
    BY <2>2 DEF Gone, Opening, Mutating, NothingMade, Todo
  <2> QED
    BY Zenon, <1>e, <1>1, <2>1, <2>2 DEF Calm, KeptInv
<1>2. ASSUME NEW p \in Prot, Protect(p) PROVE KeptInv'
  BY Zenon, <1>d, <1>e, <1>2 DEF Protect, runVars, KeptInv
<1>3. ASSUME NEW r \in Run, Others(r), Concludes(r) PROVE KeptInv'
  <2>1. record' = record /\ made' = made
    BY Zenon, <1>3
    DEF Concludes, LoseClaim, NotStarted, GateStops, Verify, storeVars
  <2>2. pc[r] \in Mutating /\ pc'[r] = "record-final"
    BY <1>0, <1>3
    DEF Concludes, LoseClaim, NotStarted, GateStops, Verify, AtAction, End, Goto, Mutating
  <2> QED
    BY <1>b, <1>c, <1>f, <1>3, <2>1, <2>2 DEF Opening, Mutating
<1>4. ASSUME NEW r \in Run, Others(r), Writes(r) PROVE KeptInv'
  <2>1. record' = record
    BY Zenon, <1>4
    DEF Writes, BeginPrepare, RecordPrepareFailed, RecordApplying, RecordFinal,
        ProtectionLost, RecordVerdict
  <2>2. CASE BeginPrepare(r)
    <3>1. pc[r] = "begin-prepare" /\ pc'[r] = "prepare" /\ made' = made
      BY <1>0, <2>2 DEF BeginPrepare, Goto
    <3> QED
      BY <1>c, <1>f, <1>4, <2>1, <3>1 DEF Opening, Mutating
  <2>3. CASE RecordPrepareFailed(r) \/ RecordApplying(r) \/ RecordFinal(r)
    <3>1. \/ pc'[r] = "release"
          \/ pc[r] = "record-applying" /\ pc'[r] = "mutate"
      BY <1>0, <2>3 DEF RecordPrepareFailed, RecordApplying, RecordFinal, Goto
    <3> QED
      BY <1>b, <1>c, <1>f, <1>4, <2>1, <3>1 DEF Opening, Mutating
  <2>4. CASE ProtectionLost(r) \/ RecordVerdict(r)
    <3>1. pc'[r] = "idle" /\ made'[r] = NothingMade
      BY <1>0, <2>4 DEF ProtectionLost, RecordVerdict, Goto, Forget
    <3> QED
      BY <1>f, <1>4, <2>1, <3>1 DEF Opening, Mutating, NothingMade, Todo
  <2> QED
    BY Zenon, <1>4, <2>2, <2>3, <2>4 DEF Writes
<1>5. ASSUME NEW r \in Run, Others(r), Protects(r) PROVE KeptInv'
  <2>1. record' = record
    BY Zenon, <1>5
    DEF Protects, Reestablish, ProtectOne, Prepared, PersistFailed, Persist, Report,
        storeVars
  <2>2. CASE Reestablish(r)
    <3>1. pc[r] = "reestablish" /\ pc'[r] = "persist"
      BY <1>0, <2>2 DEF Reestablish, Goto
    <3>2. Kept
      BY Zenon, <1>c, <3>1 DEF KeptInv
    <3> QED
      BY <1>b, <1>f, <1>5, <2>1, <3>1, <3>2 DEF Opening, Mutating
  <2>3. ASSUME NEW p \in Prot, ProtectOne(r, p) PROVE KeptInv'
    <3>1. pc[r] = "prepare" /\ pc' = pc
      BY <2>3 DEF ProtectOne
    <3>2. CapturedNow = "before"
      BY <3>1 DEF CapturedNow, PreparesUntouched, Preparing, Untouched
    <3>3. \A q \in Prot : made'[r][q].of = "before"
      <4>1. \E result \in {NotCreated} \cup [is : {"usable", "invalid"}, of : {"before"}] :
              made' = [made EXCEPT ![r][p] = result]
        BY Zenon, <2>3, <3>2 DEF ProtectOne
      <4>2. \E result : result.of = "before" /\ made' = [made EXCEPT ![r][p] = result]
        BY <4>1 DEF NotCreated
      <4> QED
        BY <1>0, <1>c, <3>1, <4>2 DEF Opening
    <3> QED
      BY <1>f, <1>5, <2>1, <3>1, <3>3 DEF Opening, Mutating
  <2>4. CASE Prepared(r)
    <3>1. /\ pc[r] = "prepare" /\ pc'[r] = "persist" /\ made' = made
          /\ Attempted(r) /\ ~Broken(r)
      BY <1>0, <2>4 DEF Prepared, Goto
    <3>2. Clean(r)
      BY <1>0, <1>a, <1>c, <3>1
      DEF Clean, Attempted, Broken, Opening, Attempts, Todo, NotCreated, MadeAssets
    <3> QED
      BY <1>f, <1>5, <2>1, <3>1, <3>2 DEF Opening, Mutating, Clean
  <2>5. CASE PersistFailed(r)
    <3>1. pc'[r] = "record-failed"
      BY <1>0, <2>5 DEF PersistFailed, Goto
    <3> QED
      BY <1>f, <1>5, <2>1, <3>1 DEF Opening, Mutating
  <2>6. CASE Persist(r)
    <3>1. pc[r] = "persist" /\ pc'[r] = "record-applying" /\ PersistAssets(r)
      BY <1>0, <2>6 DEF Persist, Goto
    <3>2. ASSUME Clean(r), NEW p \in Required PROVE "before" \in stored'[p]
      <4>1. AssetsOf(r)[p] = {"before"}
        BY <1>a, <3>2 DEF Clean, AssetsOf, MadeAssets, Captured
      <4>2. stored'[p] = stored[p] \cup AssetsOf(r)[p]
        BY Zenon, PersistAdds, <1>0, <1>a, <3>1 DEF StoreIsReliable
      <4> QED
        BY Zenon, <4>1, <4>2
    <3>3. Kept'
      BY Zenon, <1>b, <1>c, <3>1, <3>2 DEF Kept
    <3> QED
      BY <1>f, <1>5, <2>1, <3>1, <3>3 DEF Opening, Mutating
  <2>7. CASE Report(r)
    <3>1. pc'[r] = "idle" /\ made'[r] = NothingMade
      BY <1>0, <2>7 DEF Report, Goto, Forget
    <3> QED
      BY <1>f, <1>5, <2>1, <3>1 DEF Opening, Mutating, NothingMade, Todo
  <2> QED
    BY Zenon, <1>5, <2>2, <2>3, <2>4, <2>5, <2>6, <2>7 DEF Protects
<1>6. ASSUME NEW r \in Run, Others(r), Acts(r) PROVE KeptInv'
  <2>1. CASE AcceptEvidence(r)
    <3>1. /\ pc[r] = "evidence" /\ made' = made /\ record' = record
          /\ \/ pc'[r] = "reestablish" /\ MutationBegan(record)
             \/ pc'[r] = "begin-prepare"
             \/ pc'[r] = "persist" /\ Prot = {}
      BY <1>0, <2>1 DEF AcceptEvidence, Goto, storeVars
    <3>2. pc'[r] = "persist" => Clean(r)'
      BY Zenon, <1>a, <3>1 DEF Clean
    <3>3. MutationBegan(record)' <=> MutationBegan(record)
      BY Zenon, <3>1 DEF MutationBegan
    <3> QED
      BY <1>c, <1>f, <1>6, <3>1, <3>2, <3>3 DEF Opening, Mutating
  <2>2. CASE SkipSucceeded(r) \/ Execute(r)
    <3>1. record' = record /\ pc[r] \in Mutating /\ pc'[r] \in Mutating
      BY <1>0, <2>2
      DEF SkipSucceeded, AtAction, Advance, NextPhase, Execute, Goto, Mutating, storeVars
    <3> QED
      BY <1>b, <1>c, <1>f, <1>6, <3>1 DEF Opening, Mutating
  <2>3. CASE RecordRunning(r) \/ Settle(r)
    <3>1. pc[r] \in Mutating /\ pc[r] \in Claimed /\ pc'[r] \in Mutating
      BY <1>0, <2>3
      DEF RecordRunning, Settle, Advance, NextPhase, End, Goto, Mutating, Claimed
    <3>2. Kept'
      BY Zenon, <1>b, <1>c, <3>1
    <3>3. ASSUME NEW q \in Run \ {r} PROVE Holds(q)'
      <4>1. pc'[q] \notin Claimed /\ pc'[q] = pc[q] /\ made'[q] = made[q]
        BY Zenon, Alone, <1>6, <3>1 DEF Others
      <4> QED
        BY <1>c, <3>2, <4>1 DEF Claimed
    <3>4. Holds(r)'
      BY <3>1, <3>2 DEF Mutating, Opening
    <3> QED
      BY Zenon, <3>2, <3>3, <3>4 DEF KeptInv
  <2> QED
    BY Zenon, <1>6, <2>1, <2>2, <2>3 DEF Acts
<1> QED
  BY Zenon, CalmOrNot, <1>0, <1>1, <1>2, <1>3, <1>4, <1>5, <1>6

\* The protection a resume rests on is in the store before the first change,
\* whatever is killed and whoever runs `protect`, where writes to the store do
\* not fail.
THEOREM ProtectionIsDurable ==
  ASSUME LeasesHold, OneRunPerShell, StoreIsReliable
  PROVE  Spec => []DurableProtection
<1>1. Init => KeptInv
  BY DEF Init, StoreInit, KeptInv, MutationBegan, MayHaveMutated, Mutating, NothingMade,
         Todo
<1>2. /\ RecordsInv /\ ExclusiveApply /\ PreparesUntouched /\ KeptInv /\ [Next]_vars
      => KeptInv'
  BY KeptStep
<1>3. RecordsInv /\ KeptInv => DurableProtection
  BY Zenon
  DEF RecordsInv, RunningBeforeEffect, KeptInv, Kept, MutationBegan, DurableProtection
<1> QED
  BY <1>1, <1>2, <1>3, RecordsCorrect, OneAtATime, ProtectionComesFirst, PTL DEF Spec

\* Nobody takes protection for the plan outside an apply.
NothingProtectedLate == "protect" \notin Commands

\* Every asset there is shows the targets as they were, and a run past its
\* preparation has one that checked out for every required action.
CleanInv ==
  /\ \A p \in Prot : stored[p] \subseteq {"before"}
  /\ \A r \in Run :
       /\ \A p \in Prot : made[r][p].of = "before"
       /\ pc[r] \in {"persist", "record-applying"} \cup Mutating => Clean(r)

LEMMA CleanStep ==
  ASSUME NothingProtectedLate, TypeOK, PreparesUntouched, CleanInv, [Next]_vars
  PROVE  CleanInv'
<1>0. /\ pc \in [Run -> Phases] /\ stored \in [Prot -> SUBSET Captured]
      /\ made \in [Run -> [Prot -> Attempts]] /\ Required \subseteq Prot
  BY ExecutorAssumption DEF TypeOK, StoreTypeOK
<1> DEFINE Holds(r) ==
      /\ \A p \in Prot : made[r][p].of = "before"
      /\ pc[r] \in {"persist", "record-applying"} \cup Mutating => Clean(r)
<1> DEFINE AllBefore == \A p \in Prot : stored[p] \subseteq {"before"}
<1>a. AllBefore /\ \A r \in Run : Holds(r)
  BY Zenon DEF CleanInv
<1>b. ASSUME NEW q \in Run, pc'[q] = pc[q], made'[q] = made[q] PROVE Holds(q)'
  BY <1>a, <1>b DEF Clean
<1>c. ASSUME AllBefore', NEW r \in Run, Others(r), Holds(r)' PROVE CleanInv'
  BY Zenon, <1>b, <1>c DEF Others, CleanInv
<1>d. ASSUME NEW r \in Run, PersistAssets(r) PROVE AllBefore'
  <2>1. ASSUME NEW p \in Prot PROVE AssetsOf(r)[p] \subseteq {"before"}
    BY <1>a, <2>1 DEF AssetsOf
  <2>2. ASSUME NEW p \in Prot PROVE stored'[p] \subseteq stored[p] \cup AssetsOf(r)[p]
    BY Zenon, PersistAdds, <1>d, <2>2
  <2> QED
    BY Zenon, <1>a, <2>1, <2>2
<1>e. ASSUME NEW r \in Run, made'[r] = NothingMade, pc'[r] = "idle" PROVE Holds(r)'
  BY <1>e DEF NothingMade, Todo, Mutating
<1>1. CASE Calm
  <2>1. ASSUME NEW q \in Run, Still(q) PROVE Holds(q)'
    BY <1>a, <2>1 DEF Still, Mutating, Clean
  <2>2. ASSUME NEW q \in Run, Gone(q) PROVE Holds(q)'
    BY Zenon, <1>e, <2>2 DEF Gone
  <2> QED
    BY Zenon, <1>a, <1>1, <2>1, <2>2 DEF Calm, CleanInv
<1>2. ASSUME NEW p \in Prot, Protect(p) PROVE CleanInv'
  BY Zenon, <1>2 DEF Protect, NothingProtectedLate
<1>3. ASSUME NEW r \in Run, Others(r), Concludes(r) PROVE CleanInv'
  <2>1. stored' = stored /\ made' = made
    BY Zenon, <1>3
    DEF Concludes, LoseClaim, NotStarted, GateStops, Verify, storeVars
  <2>2. pc[r] \in Mutating
    BY <1>3
    DEF Concludes, LoseClaim, NotStarted, GateStops, Verify, AtAction, Mutating
  <2> QED
    BY Zenon, <1>a, <1>c, <1>3, <2>1, <2>2 DEF Clean
<1>4. ASSUME NEW r \in Run, Others(r), Writes(r) PROVE CleanInv'
  <2>1. stored' = stored
    BY Zenon, <1>4
    DEF Writes, BeginPrepare, RecordPrepareFailed, RecordApplying, RecordFinal,
        ProtectionLost, RecordVerdict
  <2>2. \/ pc'[r] = "idle" /\ made'[r] = NothingMade
        \/ pc'[r] \in {"prepare", "release"} /\ made' = made
        \/ pc[r] = "record-applying" /\ made' = made
    BY <1>0, <1>4
    DEF Writes, BeginPrepare, RecordPrepareFailed, RecordApplying, RecordFinal,
        ProtectionLost, RecordVerdict, Goto, Forget
  <2>3. Holds(r)'
    BY <1>a, <1>e, <2>2 DEF Mutating, Clean
  <2> QED
    BY Zenon, <1>a, <1>c, <1>4, <2>1, <2>3
<1>5. ASSUME NEW r \in Run, Others(r), Protects(r) PROVE CleanInv'
  <2>1. CASE Reestablish(r)
    <3>1. \E rest \in [Required -> Captured] :
            /\ \A p \in Required : rest[p] \in stored[p]
            /\ made' = [made EXCEPT ![r] =
                 [p \in Prot |-> IF p \in Required THEN [is |-> "usable", of |-> rest[p]]
                                ELSE Todo]]
      BY Zenon, <2>1 DEF Reestablish
    <3>2. /\ \A p \in Required : made'[r][p] = [is |-> "usable", of |-> "before"]
          /\ \A p \in Prot : made'[r][p].of = "before"
      BY <1>0, <1>a, <3>1 DEF Todo
    <3>3. stored' = stored
      BY Zenon, <2>1 DEF Reestablish, storeVars
    <3> QED
      BY Zenon, <1>a, <1>c, <1>5, <3>2, <3>3 DEF Clean
  <2>2. ASSUME NEW p \in Prot, ProtectOne(r, p) PROVE CleanInv'
    <3>1. pc[r] = "prepare" /\ pc' = pc /\ stored' = stored
      BY Zenon, <2>2 DEF ProtectOne, storeVars
    <3>2. CapturedNow = "before"
      BY <3>1 DEF CapturedNow, PreparesUntouched, Preparing, Untouched
    <3>3. \A q \in Prot : made'[r][q].of = "before"
      <4>1. \E result \in {NotCreated} \cup [is : {"usable", "invalid"}, of : {"before"}] :
              made' = [made EXCEPT ![r][p] = result]
        BY Zenon, <2>2, <3>2 DEF ProtectOne
      <4>2. \E result : result.of = "before" /\ made' = [made EXCEPT ![r][p] = result]
        BY <4>1 DEF NotCreated
      <4> QED
        BY <1>0, <1>a, <4>2
    <3> QED
      BY <1>a, <1>c, <1>5, <3>1, <3>3 DEF Mutating
  <2>3. CASE Prepared(r)
    <3>1. made' = made /\ stored' = stored /\ Attempted(r) /\ ~Broken(r)
      BY Zenon, <2>3 DEF Prepared, storeVars
    <3>2. Clean(r)
      BY <1>0, <1>a, <3>1
      DEF Clean, Attempted, Broken, Attempts, Todo, NotCreated, MadeAssets
    <3> QED
      BY Zenon, <1>a, <1>c, <1>5, <3>1, <3>2 DEF Clean
  <2>4. CASE PersistFailed(r) \/ Persist(r)
    <3>1. /\ PersistAssets(r) /\ made' = made
          /\ pc'[r] = "record-failed" \/ pc[r] = "persist"
      BY <1>0, <2>4 DEF PersistFailed, Persist, Goto
    <3>2. Holds(r)'
      BY <1>a, <3>1 DEF Mutating, Clean
    <3> QED
      BY Zenon, <1>c, <1>d, <1>5, <3>1, <3>2
  <2>5. CASE Report(r)
    <3>1. /\ PersistAssets(r) \/ stored' = stored
          /\ pc'[r] = "idle" /\ made'[r] = NothingMade
      BY <1>0, <2>5 DEF Report, Goto, Forget
    <3> QED
      BY Zenon, <1>a, <1>c, <1>d, <1>e, <1>5, <3>1
  <2> QED
    BY Zenon, <1>5, <2>1, <2>2, <2>3, <2>4, <2>5 DEF Protects
<1>6. ASSUME NEW r \in Run, Others(r), Acts(r) PROVE CleanInv'
  <2>1. stored' = stored /\ made' = made
    BY Zenon, <1>6
    DEF Acts, AcceptEvidence, SkipSucceeded, RecordRunning, Execute, Settle, storeVars
  <2>2. \/ pc[r] \in Mutating
        \/ pc'[r] \in {"reestablish", "begin-prepare"}
        \/ Prot = {}
    BY <1>0, <1>6
    DEF Acts, AcceptEvidence, SkipSucceeded, AtAction, RecordRunning, Execute, Settle,
        Goto, Mutating
  <2>3. Prot = {} => Clean(r)'
    BY Zenon, <1>0 DEF Clean
  <2>4. Holds(r)'
    BY <1>a, <2>1, <2>2, <2>3 DEF Mutating, Clean
  <2> QED
    BY Zenon, <1>a, <1>c, <1>6, <2>1, <2>4
<1> QED
  BY Zenon, CalmOrNot, <1>1, <1>2, <1>3, <1>4, <1>5, <1>6

\* Whatever runs, runs under protection this run has checked and that shows the
\* targets as they were, over every crash, resume and write the store loses, as
\* long as nobody takes protection for a plan that has begun.
THEOREM ProtectionIsClean ==
  ASSUME LeasesHold, OneRunPerShell, NothingProtectedLate
  PROVE  Spec => []CleanProtection
<1>1. Init => CleanInv
  BY DEF Init, StoreInit, CleanInv, Mutating, NothingMade, Todo
<1>2. TypeOK /\ PreparesUntouched /\ CleanInv /\ [Next]_vars => CleanInv'
  BY CleanStep
<1>3. CleanInv => CleanProtection
  BY DEF CleanInv, Clean, CleanProtection, Mutating
<1> QED
  BY <1>1, <1>2, <1>3, TypeCorrect, ProtectionComesFirst, PTL DEF Spec

-----------------------------------------------------------------------------
(* The executor carries out a sealed plan *)

\* What a record, a run's memory or a run's position says succeeded did.
DoneInv ==
  /\ \A a \in Action : record[a] = "succeeded" => a \in done
  /\ \A r \in Run :
       /\ \A a \in Action : view[r][a] = "succeeded" => a \in done
       /\ \A a \in Action : a < pos[r] => a \in done
       /\ pc[r] = "settle" /\ out[r] = "succeeded" => pos[r] \in done

LEMMA DoneStep ==
  ASSUME RecordsInv, DoneInv, [Next]_vars
  PROVE  DoneInv'
<1>0. /\ pc \in [Run -> Phases] /\ record \in [Action -> ActionStatuses]
      /\ view \in [Run -> [Action -> ActionStatuses]] /\ pos \in [Run -> 1 .. N + 1]
      /\ out \in [Run -> {"pending", "succeeded", "failed", "unknown"}] /\ TypeOK
      /\ N \in Nat
  BY StoreAssumption DEF RecordsInv, TypeOK, StoreTypeOK
<1> DEFINE Holds(r) ==
      /\ \A a \in Action : view[r][a] = "succeeded" => a \in done
      /\ \A a \in Action : a < pos[r] => a \in done
      /\ pc[r] = "settle" /\ out[r] = "succeeded" => pos[r] \in done
<1> DEFINE Told == \A a \in Action : record[a] = "succeeded" => a \in done
<1>a. Told /\ \A r \in Run : Holds(r)
  BY Zenon DEF DoneInv
<1>b. ASSUME done \subseteq done', NEW q \in Run, view'[q] = view[q], pos'[q] = pos[q],
             pc'[q] = "settle" => pc[q] = "settle" /\ out'[q] = out[q]
      PROVE  Holds(q)'
  BY Zenon, <1>a, <1>b
<1>c. ASSUME done \subseteq done', Told', NEW r \in Run, Others(r), Holds(r)'
      PROVE  DoneInv'
  BY Zenon, <1>b, <1>c DEF Others, DoneInv
<1>d. ASSUME NEW q \in Run, view'[q] = AllPending, pos'[q] = 1, pc'[q] = "idle"
      PROVE  Holds(q)'
  <2>1. \A a \in Action : view'[q][a] # "succeeded" /\ ~(a < pos'[q])
    BY <1>0, <1>d DEF AllPending, Action
  <2> QED
    BY Zenon, <1>d, <2>1
<1>1. CASE Calm
  <2>1. ASSUME NEW q \in Run, Still(q) PROVE Holds(q)'
    <3>1. pc'[q] = "settle" => pc[q] = "settle" /\ out'[q] = out[q]
      BY <2>1 DEF Still
    <3> QED
      BY Zenon, <1>b, <1>1, <2>1, <3>1 DEF Calm, Still
  <2>2. ASSUME NEW q \in Run, Gone(q) PROVE Holds(q)'
    BY Zenon, <1>d, <2>2 DEF Gone
  <2> QED
    BY Zenon, <1>a, <1>1, <2>1, <2>2 DEF Calm, DoneInv
<1>2. ASSUME NEW p \in Prot, Protect(p) PROVE DoneInv'
  <2>1. \A q \in Run : Holds(q)'
    BY Zenon, <1>b, <1>2 DEF Protect, runVars, histVars
  <2> QED
    BY Zenon, <1>a, <1>2, <2>1 DEF Protect, runVars, histVars, DoneInv
<1>3. ASSUME NEW r \in Run, Others(r), Concludes(r) PROVE DoneInv'
  <2>1. record' = record /\ done' = done /\ view' = view /\ pos' = pos
    BY Zenon, <1>3
    DEF Concludes, LoseClaim, NotStarted, GateStops, Verify, storeVars, histVars
  <2>2. pc'[r] = "record-final"
    BY <1>0, <1>3 DEF Concludes, LoseClaim, NotStarted, GateStops, Verify, End, Goto
  <2> QED
    BY <1>a, <1>b, <1>c, <1>3, <2>1, <2>2
<1>4. ASSUME NEW r \in Run, Others(r), Writes(r) \/ Protects(r) PROVE DoneInv'
  <2>1. record' = record /\ done' = done
    BY Zenon, <1>4
    DEF Writes, BeginPrepare, RecordPrepareFailed, RecordApplying, RecordFinal,
        ProtectionLost, RecordVerdict, Protects, Reestablish, ProtectOne, Prepared,
        PersistFailed, Persist, Report, storeVars, histVars
  <2>2. CASE ProtectionLost(r) \/ RecordVerdict(r) \/ Report(r)
    <3>1. view'[r] = AllPending /\ pos'[r] = 1 /\ pc'[r] = "idle"
      BY <1>0, <2>2 DEF ProtectionLost, RecordVerdict, Report, Forget, Goto
    <3> QED
      BY Zenon, <1>a, <1>c, <1>d, <1>4, <2>1, <3>1
  <2>3. CASE ~(ProtectionLost(r) \/ RecordVerdict(r) \/ Report(r))
    <3>1. view' = view /\ pos' = pos
      BY Zenon, <1>4, <2>3
      DEF Writes, BeginPrepare, RecordPrepareFailed, RecordApplying, RecordFinal, Protects,
          Reestablish, ProtectOne, Prepared, PersistFailed, Persist
    <3>2. pc'[r] # "settle"
      BY <1>0, <1>4, <2>3
      DEF Writes, BeginPrepare, RecordPrepareFailed, RecordApplying, RecordFinal, Protects,
          Reestablish, ProtectOne, Prepared, PersistFailed, Persist, Goto
    <3> QED
      BY Zenon, <1>a, <1>b, <1>c, <1>4, <2>1, <3>1, <3>2
  <2> QED
    BY Zenon, <2>2, <2>3
<1>5. ASSUME NEW r \in Run, Others(r), AcceptEvidence(r) PROVE DoneInv'
  <2>1. /\ record' = record /\ done' = done /\ pos' = pos /\ pc'[r] # "settle"
        /\ view'[r] \in {record, AllPending}
    BY <1>0, <1>5 DEF AcceptEvidence, Goto, storeVars, histVars
  <2>2. \A a \in Action : view'[r][a] = "succeeded" => a \in done
    BY <1>a, <2>1 DEF AllPending
  <2> QED
    BY Zenon, <1>a, <1>c, <1>5, <2>1, <2>2
<1>6. ASSUME NEW r \in Run, Others(r), SkipSucceeded(r) PROVE DoneInv'
  <2>1. /\ record' = record /\ done' = done /\ view' = view
        /\ pos'[r] = pos[r] + 1 /\ pos[r] \in done /\ pc'[r] # "settle"
    BY <1>0, <1>a, <1>6
    DEF SkipSucceeded, AtAction, Advance, NextPhase, Goto, storeVars, histVars
  <2>2. \A a \in Action : a < pos'[r] => a \in done'
    BY <1>0, <1>a, <2>1 DEF Action
  <2> QED
    BY Zenon, <1>a, <1>c, <1>6, <2>1, <2>2
<1>7. ASSUME NEW r \in Run, Others(r), RecordRunning(r) PROVE DoneInv'
  <2>1. done' = done /\ pos' = pos /\ pc'[r] = "execute"
    BY <1>0, <1>7 DEF RecordRunning, Goto, histVars
  <2>2. \A a \in Action : record'[a] = "succeeded" => record[a] = "succeeded"
    BY <1>0, <1>7 DEF RecordRunning, RecordActionStatus
  <2>3. \A a \in Action : view'[r][a] = "succeeded" => view[r][a] = "succeeded"
    BY <1>0, <1>7 DEF RecordRunning
  <2> QED
    BY Zenon, <1>a, <1>c, <1>7, <2>1, <2>2, <2>3
<1>8. ASSUME NEW r \in Run, Others(r), Execute(r) PROVE DoneInv'
  <2>1. record' = record /\ view' = view /\ pos' = pos /\ done \subseteq done'
    BY Zenon, <1>8 DEF Execute, storeVars
  <2>2. out'[r] = "succeeded" => pos[r] \in done'
    BY <1>0, <1>8 DEF Execute
  <2> QED
    BY Zenon, <1>a, <1>c, <1>8, <2>1, <2>2
<1>9. ASSUME NEW r \in Run, Others(r), Settle(r) PROVE DoneInv'
  <2>0. pos[r] \in Action /\ pc[r] = "settle"
    BY <1>9 DEF Settle, RecordsInv, InHand
  <2>1. done' = done /\ (out[r] = "succeeded" => pos[r] \in done)
    BY Zenon, <1>a, <1>9, <2>0 DEF Settle, histVars
  <2>2. Told'
    BY <1>0, <1>a, <1>9, <2>0, <2>1 DEF Settle, RecordActionStatus
  <2>3. \A a \in Action : view'[r][a] = "succeeded" => a \in done
    BY <1>0, <1>a, <1>9, <2>0, <2>1 DEF Settle
  <2>4. pc'[r] # "settle"
    BY <1>0, <1>9 DEF Settle, Advance, NextPhase, End, Goto
  <2>5. \A a \in Action : a < pos'[r] => a \in done
    <3>1. pos'[r] = pos[r] \/ (pos'[r] = pos[r] + 1 /\ pos[r] \in done)
      BY <1>0, <1>9, <2>1 DEF Settle, Advance
    <3> QED
      BY <1>0, <1>a, <3>1 DEF Action
  <2> QED
    BY Zenon, <1>c, <1>9, <2>1, <2>2, <2>3, <2>4, <2>5
<1> QED
  BY Zenon, CalmOrNot, <1>0, <1>1, <1>2, <1>3, <1>4, <1>5, <1>6, <1>7, <1>8, <1>9 DEF Acts

\* Nothing is taken for done that no provider reported done.
THEOREM SuccessIsReported == Spec => []DoneInv
<1>1. Init => DoneInv
  BY StoreAssumption DEF Init, StoreInit, DoneInv, AllPending, Action
<1>2. RecordsInv /\ DoneInv /\ [Next]_vars => DoneInv'
  BY DoneStep
<1> QED
  BY <1>1, <1>2, RecordsCorrect, PTL DEF Spec

\* No command but `apply` and `resume plan` gives a plan a state.
OnlyRunsConclude == Commands \cap {"verify", "protection-lost"} = {}

Concluded ==
  {"verified", "recovery-verified", "prepare-failed", "degraded", "failed",
   "recovery-failed"}

LEMMA OpenMeansNotConcluded == Outcome = "open" <=> state \notin Concluded
  BY DEF Outcome, Concluded

\* The phases of a run that has accepted the plan and not given it back.
OpenPhases == Claimed \ {"evidence", "release"}

\* A run works on a plan without an outcome, and gives it `verified` only when
\* every action succeeded.
OpenInv ==
  \A r \in Run :
    /\ pc[r] # "verify-command"
    /\ pc[r] \in OpenPhases => state \notin Concluded
    /\ pc[r] = "record-final" =>
         /\ fin[r] # "prepare-failed"
         /\ fin[r] \in {"verified", "recovery-verified"} => done = Action

LEMMA OpenStep ==
  ASSUME OnlyRunsConclude, TypeOK, ExclusiveApply, DoneInv, OpenInv, [Next]_vars
  PROVE  OpenInv'
<1>0. /\ pc \in [Run -> Phases] /\ pos \in [Run -> 1 .. N + 1] /\ done \subseteq Action
      /\ fin \in [Run -> PlanStates \cup {"none"}] /\ copy \in [Run -> PlanStates]
      /\ N \in Nat
  BY StoreAssumption DEF TypeOK
<1> DEFINE Ends(r) ==
      pc[r] = "record-final" =>
        /\ fin[r] # "prepare-failed"
        /\ fin[r] \in {"verified", "recovery-verified"} => done = Action
<1> DEFINE Holds(r) ==
      /\ pc[r] # "verify-command"
      /\ pc[r] \in OpenPhases => state \notin Concluded
      /\ Ends(r)
<1>a. \A r \in Run : Holds(r)
  BY Zenon DEF OpenInv
<1> USE DEF OpenPhases, Claimed
<1>b. ASSUME state' = state, done' = done, NEW r \in Run, Others(r),
             pc'[r] # "verify-command",
             pc'[r] \in OpenPhases => state \notin Concluded, Ends(r)'
      PROVE  OpenInv'
  BY Zenon, <1>a, <1>b DEF Others, OpenInv
\* A run that has the claim may write what it will.
<1>c. ASSUME NEW r \in Run, Others(r), pc[r] \in Claimed, Holds(r)' PROVE OpenInv'
  <2>1. ASSUME NEW q \in Run \ {r} PROVE Holds(q)'
    <3>1. pc'[q] \notin Claimed /\ pc'[q] = pc[q]
      BY Zenon, Alone, <1>c DEF Others
    <3> QED
      BY <1>a, <3>1
  <2> QED
    BY Zenon, <1>c, <2>1 DEF OpenInv
<1>1. CASE Calm
  <2>1. ASSUME NEW q \in Run, Still(q) PROVE Holds(q)'
    BY <1>a, <1>1, <2>1 DEF Calm, Still, OnlyRunsConclude
  <2>2. ASSUME NEW q \in Run, Gone(q) PROVE Holds(q)'
    BY <2>2 DEF Gone
  <2> QED
    BY Zenon, <1>1, <2>1, <2>2 DEF Calm, OpenInv
<1>2. ASSUME NEW p \in Prot, Protect(p) PROVE OpenInv'
  BY Zenon, <1>a, <1>2 DEF Protect, runVars, histVars, OpenInv
<1>3. ASSUME NEW r \in Run, Others(r), Concludes(r) PROVE OpenInv'
  <2>1. state' = state /\ done' = done
    BY Zenon, <1>3
    DEF Concludes, LoseClaim, NotStarted, GateStops, Verify, storeVars, histVars
  <2>2. pc[r] \in OpenPhases /\ pc'[r] = "record-final"
    BY <1>0, <1>3
    DEF Concludes, LoseClaim, NotStarted, GateStops, Verify, AtAction, End, Goto
  <2>3. CASE Verify(r)
    <3>1. done = Action
      <4>1. \A a \in Action : a < pos[r]
        BY <1>0, <2>3 DEF Verify, Action
      <4> QED
        BY Zenon, <1>0, <4>1 DEF DoneInv
    <3>2. fin'[r] # "prepare-failed"
      BY <1>0, <2>3 DEF Verify, VerifiedStates, End
    <3> QED
      BY Zenon, <1>a, <1>b, <1>3, <2>1, <2>2, <3>1, <3>2
  <2>4. CASE ~Verify(r)
    <3>1. fin'[r] \notin {"prepare-failed", "verified", "recovery-verified"}
      BY <1>0, <1>3, <2>4
      DEF Concludes, LoseClaim, NotStarted, NotStartedState, FailedState, Appliable,
          GateStops, End
    <3> QED
      BY Zenon, <1>a, <1>b, <1>3, <2>1, <2>2, <3>1
  <2> QED
    BY Zenon, <2>3, <2>4
<1>4. ASSUME NEW r \in Run, Others(r), Writes(r) PROVE OpenInv'
  <2>1. CASE BeginPrepare(r) \/ RecordApplying(r)
    <3>1. /\ pc[r] \in OpenPhases /\ pc'[r] \in {"prepare", "mutate"}
          /\ state' \in {state, "preparing", "applying"}
      BY <1>0, <2>1 DEF BeginPrepare, RecordApplying, WriteState, RecordState, Goto
    <3>2. state' \notin Concluded
      BY <1>a, <3>1 DEF Concluded
    <3> QED
      BY <1>c, <1>4, <3>1, <3>2
  <2>2. CASE RecordPrepareFailed(r) \/ RecordFinal(r)
    <3>1. pc[r] \in Claimed /\ pc'[r] = "release"
      BY <1>0, <2>2 DEF RecordPrepareFailed, RecordFinal, Goto
    <3> QED
      BY <1>c, <1>4, <3>1
  <2>3. ~ProtectionLost(r) /\ ~RecordVerdict(r)
    BY Zenon, <1>a DEF ProtectionLost, RecordVerdict, OnlyRunsConclude
  <2> QED
    BY Zenon, <1>4, <2>1, <2>2, <2>3 DEF Writes
<1>5. ASSUME NEW r \in Run, Others(r), Protects(r) PROVE OpenInv'
  <2>1. state' = state /\ done' = done
    BY Zenon, <1>5
    DEF Protects, Reestablish, ProtectOne, Prepared, PersistFailed, Persist, Report,
        storeVars, histVars
  <2>2. /\ pc'[r] \notin {"verify-command", "record-final"}
        /\ pc'[r] = "idle" \/ pc[r] \in OpenPhases
    BY <1>0, <1>5
    DEF Protects, Reestablish, ProtectOne, Prepared, PersistFailed, Persist, Report, Goto
  <2> QED
    BY <1>a, <1>b, <1>5, <2>1, <2>2
<1>6. ASSUME NEW r \in Run, Others(r), Acts(r) PROVE OpenInv'
  <2>1. state' = state
    BY Zenon, <1>6
    DEF Acts, AcceptEvidence, SkipSucceeded, RecordRunning, Execute, Settle, storeVars
  <2>2. /\ pc[r] \in Claimed /\ pc'[r] # "verify-command"
        /\ pc'[r] = "record-final" =>
             fin'[r] \notin {"prepare-failed", "verified", "recovery-verified"}
    BY <1>0, <1>6
    DEF Acts, AcceptEvidence, SkipSucceeded, RecordRunning, Execute, Settle, AtAction,
        Advance, NextPhase, End, FailedState, Goto
  <2>3. pc[r] \in OpenPhases \/ state \notin Concluded
    BY <1>6
    DEF Acts, AcceptEvidence, SkipSucceeded, RecordRunning, Execute, Settle, AtAction,
        Refuses, Resumable, Appliable, Concluded
  <2> QED
    BY Zenon, <1>a, <1>c, <1>6, <2>1, <2>2, <2>3
<1> QED
  BY Zenon, CalmOrNot, <1>1, <1>2, <1>3, <1>4, <1>5, <1>6

\* What the steps of the executor are to the plan it carries out.
LEMMA StepImplements ==
  ASSUME OnlyRunsConclude, RecordsInv, Untried, PreparesUntouched, DoneInv, OpenInv,
         [Next]_vars
  PROVE  [Promise!Next]_(Promise!vars)
<1>0. /\ pc \in [Run -> Phases] /\ exec \in [Action -> 0 .. 2] /\ TypeOK
      /\ out \in [Run -> {"pending", "succeeded", "failed", "unknown"}]
      /\ Promise!Action = Action
  BY DEF RecordsInv, TypeOK, Promise!Action, Action
<1>a. ASSUME exec' = exec, done' = done, state' = state
      PROVE  [Promise!Next]_(Promise!vars)
  BY Zenon, <1>a DEF Promise!vars, Outcome
<1>b. ASSUME exec' = exec, done' = done, state \notin Concluded, state' \notin Concluded
      PROVE  [Promise!Next]_(Promise!vars)
  <2>1. Outcome = "open" /\ Outcome' = "open"
    BY <1>b DEF Outcome, Concluded
  <2> QED
    BY Zenon, <1>b, <2>1 DEF Promise!vars
<1>c. ASSUME exec' = exec, done' = done, state \notin Concluded,
             NEW o \in {"verified", "untouched", "judged"}, Outcome' = o,
             o = "verified" => done = Action, o = "untouched" => Untouched
      PROVE  [Promise!Next]_(Promise!vars)
  <2>1. Outcome = "open"
    BY Zenon, OpenMeansNotConcluded, <1>c
  <2>2. Promise!Conclude(o)
    BY Zenon, <1>0, <1>c, <2>1 DEF Promise!Conclude, Untouched
  <2> QED
    BY Zenon, <2>2 DEF Promise!Next
<1>1. CASE Calm
  BY Zenon, <1>a, <1>1 DEF Calm
<1>2. ASSUME NEW p \in Prot, Protect(p) PROVE [Promise!Next]_(Promise!vars)
  BY Zenon, <1>a, <1>2 DEF Protect, histVars
<1>3. ASSUME NEW r \in Run, Concludes(r) \/ Protects(r)
      PROVE  [Promise!Next]_(Promise!vars)
  <2>1. exec' = exec /\ done' = done /\ state' = state
    BY Zenon, <1>3
    DEF Concludes, LoseClaim, NotStarted, GateStops, Verify, Protects, Reestablish,
        ProtectOne, Prepared, PersistFailed, Persist, Report, storeVars, histVars
  <2> QED
    BY Zenon, <1>a, <2>1
<1>4. ASSUME NEW r \in Run, Writes(r) PROVE [Promise!Next]_(Promise!vars)
  <2>1. exec' = exec /\ done' = done
    BY Zenon, <1>4
    DEF Writes, BeginPrepare, RecordPrepareFailed, RecordApplying, RecordFinal,
        ProtectionLost, RecordVerdict, histVars
  <2>2. CASE BeginPrepare(r) \/ RecordApplying(r)
    <3>1. state' \in {state, "preparing", "applying"} /\ state \notin Concluded
      BY <2>2
      DEF BeginPrepare, RecordApplying, WriteState, RecordState, OpenInv, OpenPhases,
          Claimed
    <3>2. state' \notin Concluded
      BY <3>1 DEF Concluded
    <3> QED
      BY Zenon, <1>b, <2>1, <3>1, <3>2
  <2>3. CASE RecordPrepareFailed(r)
    <3>1. /\ state' = state \/ state' = "prepare-failed"
          /\ state \notin Concluded /\ Untouched
      BY <2>3
      DEF RecordPrepareFailed, WriteState, RecordState, OpenInv, OpenPhases, Claimed,
          PreparesUntouched, Preparing
    <3>2. state' = "prepare-failed" => Outcome' = "untouched"
      BY DEF Outcome
    <3> QED
      BY Zenon, <1>a, <1>c, <2>1, <3>1, <3>2
  <2>4. CASE RecordFinal(r)
    <3>1. /\ state' = state \/ state' = fin[r]
          /\ state \notin Concluded
          /\ fin[r] # "prepare-failed"
          /\ fin[r] \in {"verified", "recovery-verified"} => done = Action
      BY <2>4 DEF RecordFinal, WriteState, RecordState, OpenInv, OpenPhases, Claimed
    <3>2. state' = fin[r] =>
            \/ state' \notin Concluded
            \/ Outcome' = "verified" /\ done = Action
            \/ Outcome' = "judged"
      BY <3>1 DEF Outcome, Concluded
    <3> QED
      BY Zenon, <1>a, <1>b, <1>c, <2>1, <3>1, <3>2
  <2>5. ~ProtectionLost(r) /\ ~RecordVerdict(r)
    BY Zenon DEF ProtectionLost, RecordVerdict, OnlyRunsConclude, OpenInv
  <2> QED
    BY Zenon, <1>4, <2>2, <2>3, <2>4, <2>5 DEF Writes
<1>5. ASSUME NEW r \in Run, Acts(r), ~Execute(r) PROVE [Promise!Next]_(Promise!vars)
  <2>1. exec' = exec /\ done' = done /\ state' = state
    BY Zenon, <1>5
    DEF Acts, AcceptEvidence, SkipSucceeded, RecordRunning, Settle, storeVars, histVars
  <2> QED
    BY Zenon, <1>a, <2>1
<1>6. ASSUME NEW r \in Run, Execute(r) PROVE [Promise!Next]_(Promise!vars)
  <2>1. pc[r] = "execute" /\ pos[r] \in Action
    BY <1>6 DEF Execute, RecordsInv, InHand
  <2>2. Outcome = "open" /\ state' = state
    BY <1>6, <2>1, OpenMeansNotConcluded DEF Execute, OpenInv, OpenPhases, Claimed, storeVars
  <2>3. Outcome' = Outcome
    BY Zenon, <2>2 DEF Outcome
  <2>4. \A b \in Action : b < pos[r] => b \in done
    BY Zenon DEF DoneInv
  <2>5. exec[pos[r]] = 0 \/ Idempotency[pos[r]] = "idempotent"
    BY Zenon, <2>1 DEF Untried, OnlyOnce
  <2>6. /\ exec' = [exec EXCEPT ![pos[r]] = IF @ = 0 THEN 1 ELSE 2]
        /\ done' \in {done, done \cup {pos[r]}}
    BY Zenon, <1>6 DEF Execute
  <2>7. Promise!Perform(pos[r])
    BY Zenon, <1>0, <2>2, <2>3, <2>4, <2>5, <2>6 DEF Promise!Perform
  <2> QED
    BY Zenon, <1>0, <2>1, <2>7 DEF Promise!Next
<1> QED
  BY Zenon, CalmOrNot, <1>0, <1>1, <1>2, <1>3, <1>4, <1>5, <1>6

\* The executor carries out a sealed plan: in order, never twice what may not
\* be repeated, `verified` only when everything succeeded, `prepare-failed` only
\* when nothing ran, and nothing once the plan has an outcome; over every crash,
\* resume and write the store loses.
THEOREM CarriesOutTheSealedPlan ==
  ASSUME LeasesHold, OneRunPerShell, OnlyRunsConclude
  PROVE  Spec => ImplementsSealedPlan
<1>1. Init => OpenInv
  BY DEF Init, OpenInv, OpenPhases, Claimed
<1>2. TypeOK /\ ExclusiveApply /\ DoneInv /\ OpenInv /\ [Next]_vars => OpenInv'
  BY OpenStep
<1>3. Init => Promise!Init
  BY DEF Init, StoreInit, Outcome, Promise!Init, Promise!Action, Action
<1>4. /\ RecordsInv /\ Untried /\ PreparesUntouched /\ DoneInv /\ OpenInv /\ [Next]_vars
      => [Promise!Next]_(Promise!vars)
  BY StepImplements
<1> QED
  BY <1>1, <1>2, <1>3, <1>4, TypeCorrect, OneAtATime, RecordsCorrect, UntriedHolds,
     ProtectionComesFirst, SuccessIsReported, PTL
  DEF Spec, ImplementsSealedPlan, Promise!Spec
=============================================================================
