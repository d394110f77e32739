------------------------ MODULE ChangeExecutorProofs ------------------------
(***************************************************************************)
(* Proofs about ChangeExecutor, for any number of shells, invocations,     *)
(* actions and protection actions.                                         *)
(***************************************************************************)
EXTENDS ChangeExecutor, TLAPS

-----------------------------------------------------------------------------
(* Types *)

LEMMA TypeInit == Init => TypeOK
  BY StoreAssumption, ExecutorAssumption
  DEF Init, StoreInit, TypeOK, StoreTypeOK, PlanStates, ActionStatuses, NoClaim,
      Captured, Phases, Claimed, AllPending, NothingMade, Attempts, Todo, Action

\* What a run that ends leaves behind is well typed.
LEMMA ForgetType ==
  ASSUME TypeOK, NEW r \in Run, Forget(r)
  PROVE  /\ mode' \in [Run -> {"apply", "resume"}]
         /\ copy' \in [Run -> PlanStates]
         /\ view' \in [Run -> [Action -> ActionStatuses]]
         /\ made' \in [Run -> [Prot -> Attempts]]
         /\ pos' \in [Run -> 1 .. N + 1]
         /\ out' \in [Run -> {"pending", "succeeded", "failed", "unknown"}]
         /\ fin' \in [Run -> PlanStates \cup {"none"}]
  BY StoreAssumption
  DEF TypeOK, Forget, PlanStates, ActionStatuses, AllPending, NothingMade,
      Attempts, Todo

LEMMA PersistType ==
  ASSUME TypeOK, NEW r \in Run, PersistAssets(r)
  PROVE  stored' \in [Prot -> SUBSET Captured]
<1>1. PICK lost \in SUBSET Prot :
        PutAssets([p \in Prot |-> IF p \in lost THEN {} ELSE AssetsOf(r)[p]])
  BY Zenon DEF PersistAssets
<1>2. \A p \in Prot : AssetsOf(r)[p] \in SUBSET Captured
  BY DEF TypeOK, AssetsOf, MadeAssets
<1> QED
  BY <1>1, <1>2 DEF PutAssets, TypeOK, StoreTypeOK

\* Where a run has an action in hand: its position names one, the record of it
\* has said since before it started that it may have changed something, and
\* the outcome it settles is one a provider gave.
InHand ==
  \A r \in Run : pc[r] \in {"record-running", "execute", "settle"} =>
    /\ pos[r] \in Action
    /\ pc[r] # "record-running" => record[pos[r]] \in MayHaveMutated
    /\ pc[r] = "settle" => out[r] # "pending"

LEMMA TypeStep == TypeOK /\ InHand /\ [Next]_vars => TypeOK'
<1> SUFFICES ASSUME TypeOK, InHand, [Next]_vars PROVE TypeOK'
  OBVIOUS
<1> USE StoreAssumption, ExecutorAssumption
    DEF TypeOK, StoreTypeOK, storeVars, procVars, runVars, histVars, Goto
<1>1. ASSUME NEW r \in Run, NEW m \in {"apply", "resume"}, Invoke(r, m) PROVE TypeOK'
  BY <1>1 DEF Invoke, Phases
<1>2. ASSUME NEW r \in Run, InvokeVerify(r) PROVE TypeOK'
  BY <1>2 DEF InvokeVerify, Phases
<1>3. ASSUME NEW r \in Run, NEW p \in Prot, ProtectOne(r, p) PROVE TypeOK'
  BY <1>3 DEF ProtectOne, Attempts, NotCreated, MadeAssets, CapturedNow,
      Captured
<1>4. ASSUME NEW r \in Run, Turned(r) PROVE TypeOK'
  BY <1>4, ForgetType DEF Turned, Phases
<1>5. ASSUME NEW r \in Run, ClaimPlan(r) PROVE TypeOK'
  BY <1>5 DEF ClaimPlan, TakeClaim, Phases, Claimed
<1>6. ASSUME NEW r \in Run, AcceptEvidence(r) PROVE TypeOK'
  BY <1>6 DEF AcceptEvidence, AllPending, ActionStatuses, Phases, Claimed
<1>7. ASSUME NEW r \in Run, RefuseEvidence(r) PROVE TypeOK'
  BY <1>7 DEF RefuseEvidence, Phases, Claimed
<1>8. ASSUME NEW r \in Run, Reestablish(r) PROVE TypeOK'
  BY <1>8 DEF Reestablish, Attempts, MadeAssets, Todo, Phases, Claimed
<1>9. ASSUME NEW r \in Run, ReestablishFails(r) PROVE TypeOK'
  BY <1>9 DEF ReestablishFails, Phases, Claimed
<1>10. ASSUME NEW r \in Run, BeginPrepare(r) PROVE TypeOK'
  BY <1>10 DEF BeginPrepare, WriteState, RecordState, PlanStates, Phases,
      Claimed
<1>11. ASSUME NEW r \in Run, Prepared(r) PROVE TypeOK'
  BY <1>11 DEF Prepared, Phases, Claimed
<1>12. ASSUME NEW r \in Run, PrepareFails(r) PROVE TypeOK'
  BY <1>12 DEF PrepareFails, Phases, Claimed
<1>13. ASSUME NEW r \in Run, PersistFailed(r) PROVE TypeOK'
  BY <1>13, PersistType DEF PersistFailed, Phases, Claimed
<1>14. ASSUME NEW r \in Run, RecordPrepareFailed(r) PROVE TypeOK'
  BY <1>14 DEF RecordPrepareFailed, WriteState, RecordState, PlanStates,
      Phases, Claimed
<1>15. ASSUME NEW r \in Run, Persist(r) PROVE TypeOK'
  BY <1>15, PersistType DEF Persist, Phases, Claimed
<1>16. ASSUME NEW r \in Run, RecordApplying(r) PROVE TypeOK'
  BY <1>16 DEF RecordApplying, WriteState, RecordState, PlanStates, Phases,
      Claimed
<1>17. ASSUME NEW r \in Run, SkipSucceeded(r) PROVE TypeOK'
  BY <1>17 DEF SkipSucceeded, AtAction, Advance, NextPhase, Action, Phases,
      Claimed
<1>18. ASSUME NEW r \in Run, Renew(r) PROVE TypeOK'
  BY <1>18 DEF Renew, TakeClaim, Phases, Claimed
<1>19. ASSUME NEW r \in Run, LoseClaim(r) PROVE TypeOK'
  BY <1>19 DEF LoseClaim, End, Phases, Claimed
<1>20. ASSUME NEW r \in Run, NotStarted(r) PROVE TypeOK'
  BY <1>20 DEF NotStarted, End, NotStartedState, FailedState, PlanStates,
      Phases, Claimed
<1>21. ASSUME NEW r \in Run, RecordRunning(r) PROVE TypeOK'
  BY <1>21 DEF InHand, RecordRunning, RecordActionStatus, ActionStatuses, Phases,
      Claimed
<1>22. ASSUME NEW r \in Run, Execute(r) PROVE TypeOK'
  BY <1>22 DEF InHand, Execute, Phases, Claimed
<1>23. ASSUME NEW r \in Run, Settle(r) PROVE TypeOK'
  <2>1. record' \in [Action -> ActionStatuses]
    BY Zenon, <1>23 DEF Settle, RecordActionStatus, ActionStatuses
  <2>2. view' \in [Run -> [Action -> ActionStatuses]]
    BY <1>23, InHand DEF Settle, InHand, ActionStatuses
  <2>3. pos' \in [Run -> 1 .. N + 1]
    <3>1. pos[r] \in 1 .. N /\ pos[r] + 1 \in 1 .. N + 1
      BY <1>23 DEF Settle, InHand, Action
    <3>2. pos' = pos \/ pos' = [pos EXCEPT ![r] = @ + 1]
      BY <1>23 DEF Settle, Advance, End
    <3> QED
      BY Zenon, <3>1, <3>2
  <2>4. pc' \in [Run -> Phases]
    <3>1. \E phase \in {"gate", "mutate", "record-final"} :
            pc' = [pc EXCEPT ![r] = phase]
      BY <1>23 DEF Settle, Advance, NextPhase, End
    <3> QED
      BY <3>1 DEF Phases, Claimed
  <2>5. fin' \in [Run -> PlanStates \cup {"none"}]
    <3>1. \/ fin' = fin
          \/ \E s \in {"recovery-failed", "apply-failed", "applying"} :
               fin' = [fin EXCEPT ![r] = s]
      BY <1>23 DEF Settle, End, FailedState
    <3>2. {"recovery-failed", "apply-failed", "applying"} \subseteq PlanStates
      BY DEF PlanStates
    <3>3. fin \in [Run -> PlanStates \cup {"none"}]
      OBVIOUS
    <3> HIDE StoreAssumption, ExecutorAssumption DEF TypeOK, StoreTypeOK
    <3> QED
      BY <3>1, <3>2, <3>3
  <2> QED
    BY <1>23, <2>1, <2>2, <2>3, <2>4, <2>5 DEF Settle
<1>24. ASSUME NEW r \in Run, GatePasses(r) PROVE TypeOK'
  BY <1>24 DEF GatePasses, Phases, Claimed
<1>25. ASSUME NEW r \in Run, GateStops(r) PROVE TypeOK'
  BY <1>25 DEF GateStops, End, PlanStates, Phases, Claimed
<1>26. ASSUME NEW r \in Run, Verify(r) PROVE TypeOK'
  BY <1>26 DEF Verify, End, VerifiedStates, PlanStates, Phases, Claimed
<1>27. ASSUME NEW r \in Run, RecordFinal(r) PROVE TypeOK'
  BY <1>27 DEF RecordFinal, WriteState, RecordState, Phases, Claimed
<1>28. ASSUME NEW r \in Run, Release(r) PROVE TypeOK'
  <2>1. claim' \in [holder : Shell \cup {NoShell}, fresh : BOOLEAN]
    <3>1. claim' = claim \/ claim' = NoClaim
      BY <1>28 DEF Release, ReleaseClaim
    <3>2. NoClaim \in [holder : Shell \cup {NoShell}, fresh : BOOLEAN]
      BY DEF NoClaim
    <3> QED
      BY <3>1, <3>2
  <2> QED
    BY <1>28, <2>1 DEF Release, Phases, Claimed
<1>29. ASSUME NEW r \in Run, Report(r) PROVE TypeOK'
  BY <1>29, ForgetType, PersistType DEF Report, Phases
<1>30. ASSUME NEW r \in Run, ProtectionLost(r) PROVE TypeOK'
  BY <1>30, ForgetType DEF ProtectionLost, WriteState, RecordState,
      PlanStates, Phases
<1>31. ASSUME NEW r \in Run, RecordVerdict(r) PROVE TypeOK'
  BY <1>31, ForgetType DEF RecordVerdict, WriteState, RecordState,
      VerifiedStates, PlanStates, Phases
<1>32. ASSUME NEW s \in Shell, Crash(s) PROVE TypeOK'
  BY <1>32 DEF Crash, PlanStates, ActionStatuses, AllPending, NothingMade,
      Attempts, Todo, Phases
<1>33. ASSUME NEW s \in Shell, Start(s) PROVE TypeOK'
  BY <1>33 DEF Start
<1>34. ASSUME LeaseLapses PROVE TypeOK'
  BY Zenon, <1>34 DEF LeaseLapses
<1>35. ASSUME NEW p \in Prot, Protect(p) PROVE TypeOK'
  BY <1>35 DEF Protect, CapturedNow, Captured
<1>36. CASE UNCHANGED vars
  BY <1>36 DEF vars
<1> HIDE StoreAssumption, ExecutorAssumption
    DEF TypeOK, StoreTypeOK, storeVars, procVars, runVars, histVars, Goto
<1> QED
  BY <1>1, <1>2, <1>3, <1>4, <1>5, <1>6, <1>7, <1>8, <1>9, <1>10, <1>11,
      <1>12, <1>13, <1>14, <1>15, <1>16, <1>17, <1>18, <1>19, <1>20, <1>21,
      <1>22, <1>23, <1>24, <1>25, <1>26, <1>27, <1>28, <1>29, <1>30, <1>31,
      <1>32, <1>33, <1>34, <1>35, <1>36 DEF Next, Step

-----------------------------------------------------------------------------
(* The records tell what may have happened *)

\* The phases of a run between the evidence it read and its next action.
Working ==
  {"reestablish", "begin-prepare", "prepare", "persist", "record-applying",
   "mutate", "gate", "record-running"}

\* Most steps neither touch the records nor take an action in hand.
Quiet ==
  /\ record' = record /\ exec' = exec /\ done' = done
  /\ \A r \in Run : pc'[r] \in {"record-running", "execute", "settle"} =>
       /\ pc'[r] = pc[r] /\ pos'[r] = pos[r]
       /\ out'[r] = out[r] /\ view'[r] = view[r] /\ mode'[r] = mode[r]
  /\ \A r \in Run : pc'[r] \in Working =>
       /\ pc[r] \in Working /\ pos'[r] >= pos[r]
       /\ view'[r] = view[r] /\ mode'[r] = mode[r]

\* The steps that do.
Loud(r) ==
  AcceptEvidence(r) \/ Renew(r) \/ RecordRunning(r) \/ Execute(r) \/ Settle(r)

LEMMA QuietOrLoud ==
  ASSUME TypeOK, [Next]_vars
  PROVE  Quiet \/ \E r \in Run : Loud(r)
<1>0. pc \in [Run -> Phases] /\ pos \in [Run -> 1 .. N + 1] /\ N \in Nat
  BY StoreAssumption DEF TypeOK
<1> USE <1>0 DEF storeVars, procVars, runVars, histVars, Goto, Quiet, Working
<1>1. ASSUME NEW r \in Run, NEW m \in {"apply", "resume"}, Invoke(r, m) PROVE Quiet
  BY <1>1 DEF Invoke
<1>2. ASSUME NEW r \in Run, InvokeVerify(r) PROVE Quiet
  BY <1>2 DEF InvokeVerify
<1>3. ASSUME NEW r \in Run, NEW p \in Prot, ProtectOne(r, p) PROVE Quiet
  BY <1>3 DEF ProtectOne
<1>4. ASSUME NEW r \in Run, Turned(r) PROVE Quiet
  BY <1>4 DEF Turned, Forget
<1>5. ASSUME NEW r \in Run, ClaimPlan(r) PROVE Quiet
  BY <1>5 DEF ClaimPlan
<1>6. ASSUME NEW r \in Run, RefuseEvidence(r) PROVE Quiet
  BY <1>6 DEF RefuseEvidence
<1>7. ASSUME NEW r \in Run, Reestablish(r) PROVE Quiet
  BY <1>7 DEF Reestablish
<1>8. ASSUME NEW r \in Run, ReestablishFails(r) PROVE Quiet
  BY <1>8 DEF ReestablishFails
<1>9. ASSUME NEW r \in Run, BeginPrepare(r) PROVE Quiet
  BY <1>9 DEF BeginPrepare
<1>10. ASSUME NEW r \in Run, Prepared(r) PROVE Quiet
  BY <1>10 DEF Prepared
<1>11. ASSUME NEW r \in Run, PrepareFails(r) PROVE Quiet
  BY <1>11 DEF PrepareFails
<1>12. ASSUME NEW r \in Run, PersistFailed(r) PROVE Quiet
  BY <1>12 DEF PersistFailed
<1>13. ASSUME NEW r \in Run, RecordPrepareFailed(r) PROVE Quiet
  BY <1>13 DEF RecordPrepareFailed
<1>14. ASSUME NEW r \in Run, Persist(r) PROVE Quiet
  BY <1>14 DEF Persist
<1>15. ASSUME NEW r \in Run, RecordApplying(r) PROVE Quiet
  BY <1>15 DEF RecordApplying
<1>16. ASSUME NEW r \in Run, SkipSucceeded(r) PROVE Quiet
  BY <1>16 DEF SkipSucceeded, AtAction, Advance, NextPhase
<1>17. ASSUME NEW r \in Run, LoseClaim(r) PROVE Quiet
  BY <1>17 DEF LoseClaim, End
<1>18. ASSUME NEW r \in Run, NotStarted(r) PROVE Quiet
  BY <1>18 DEF NotStarted, End
<1>19. ASSUME NEW r \in Run, GatePasses(r) PROVE Quiet
  BY <1>19 DEF GatePasses
<1>20. ASSUME NEW r \in Run, GateStops(r) PROVE Quiet
  BY <1>20 DEF GateStops, End
<1>21. ASSUME NEW r \in Run, Verify(r) PROVE Quiet
  BY <1>21 DEF Verify, End
<1>22. ASSUME NEW r \in Run, RecordFinal(r) PROVE Quiet
  BY <1>22 DEF RecordFinal
<1>23. ASSUME NEW r \in Run, Release(r) PROVE Quiet
  BY <1>23 DEF Release
<1>24. ASSUME NEW r \in Run, Report(r) PROVE Quiet
  BY <1>24 DEF Report, Forget
<1>25. ASSUME NEW r \in Run, ProtectionLost(r) PROVE Quiet
  BY <1>25 DEF ProtectionLost, Forget
<1>26. ASSUME NEW r \in Run, RecordVerdict(r) PROVE Quiet
  BY <1>26 DEF RecordVerdict, Forget
<1>27. ASSUME NEW s \in Shell, Crash(s) PROVE Quiet
  BY <1>27 DEF Crash
<1>28. ASSUME NEW s \in Shell, Start(s) PROVE Quiet
  BY <1>28 DEF Start
<1>29. ASSUME LeaseLapses PROVE Quiet
  BY <1>29 DEF LeaseLapses
<1>30. ASSUME NEW p \in Prot, Protect(p) PROVE Quiet
  BY <1>30 DEF Protect
<1>31. CASE UNCHANGED vars
  BY <1>31 DEF vars
<1> HIDE DEF Quiet
<1> QED
  BY <1>1, <1>2, <1>3, <1>4, <1>5, <1>6, <1>7, <1>8, <1>9, <1>10, <1>11,
      <1>12, <1>13, <1>14, <1>15, <1>16, <1>17, <1>18, <1>19, <1>20, <1>21,
      <1>22, <1>23, <1>24, <1>25, <1>26, <1>27, <1>28, <1>29, <1>30, <1>31
      DEF Next, Step, Loud

LEMMA InHandStep ==
  ASSUME TypeOK, InHand, RunningBeforeEffect, [Next]_vars
  PROVE  InHand' /\ RunningBeforeEffect'
<1>0. /\ pc \in [Run -> Phases] /\ pos \in [Run -> 1 .. N + 1] /\ N \in Nat
      /\ record \in [Action -> ActionStatuses] /\ exec \in [Action -> 0 .. 2]
      /\ out \in [Run -> {"pending", "succeeded", "failed", "unknown"}]
  BY StoreAssumption DEF TypeOK, StoreTypeOK
<1> USE <1>0
    DEF storeVars, procVars, runVars, histVars, Goto, InHand,
        RunningBeforeEffect, MayHaveMutated
<1>1. CASE Quiet
  <2>1. ASSUME NEW r \in Run, pc'[r] \in {"record-running", "execute", "settle"}
        PROVE  /\ pc'[r] = pc[r] /\ pos'[r] = pos[r]
               /\ out'[r] = out[r] /\ record' = record
    BY <1>1, <2>1 DEF Quiet
  <2>2. InHand'
    BY <2>1
  <2>3. RunningBeforeEffect'
    BY <1>1 DEF Quiet
  <2> QED
    BY <2>2, <2>3
<1>2. ASSUME NEW r \in Run, AcceptEvidence(r) PROVE InHand' /\ RunningBeforeEffect'
  <2>1. /\ record' = record /\ exec' = exec /\ pos' = pos /\ out' = out
        /\ pc'[r] \in {"reestablish", "begin-prepare", "persist"}
        /\ \A q \in Run \ {r} : pc'[q] = pc[q]
    BY <1>2 DEF AcceptEvidence
  <2> QED
    BY <2>1
<1>3. ASSUME NEW r \in Run, Renew(r) PROVE InHand' /\ RunningBeforeEffect'
  BY <1>3 DEF Renew, AtAction
<1>4. ASSUME NEW r \in Run, RecordRunning(r) PROVE InHand' /\ RunningBeforeEffect'
  BY <1>4 DEF RecordRunning, RecordActionStatus
<1>5. ASSUME NEW r \in Run, Execute(r) PROVE InHand' /\ RunningBeforeEffect'
  BY <1>5 DEF Execute
<1>6. ASSUME NEW r \in Run, Settle(r) PROVE InHand' /\ RunningBeforeEffect'
  <2>1. out[r] \in {"succeeded", "failed", "unknown"}
    BY <1>6 DEF Settle
  <2>2. \A a \in Action : record[a] \in MayHaveMutated => record'[a] \in MayHaveMutated
    BY <1>6, <2>1 DEF Settle, RecordActionStatus
  <2>3. exec' = exec /\ out' = out
    BY <1>6 DEF Settle
  <2>4. pc'[r] \in {"mutate", "gate", "record-final"}
    BY <1>6, <2>1 DEF Settle, Advance, NextPhase, End
  <2>5. \A q \in Run \ {r} : pc'[q] = pc[q] /\ pos'[q] = pos[q]
    BY <1>6 DEF Settle, Advance, End
  <2>6. ASSUME NEW q \in Run, pc'[q] \in {"record-running", "execute", "settle"}
        PROVE  pc'[q] = pc[q] /\ pos'[q] = pos[q] /\ out'[q] = out[q]
    BY <2>3, <2>4, <2>5, <2>6
  <2>7. InHand'
    BY <2>2, <2>6
  <2>8. RunningBeforeEffect'
    BY <2>2, <2>3
  <2> QED
    BY <2>7, <2>8
<1> QED
  BY QuietOrLoud, <1>1, <1>2, <1>3, <1>4, <1>5, <1>6 DEF Loud

\* Types and records hold together: neither is inductive without InHand.
RecordsInv == TypeOK /\ InHand /\ RunningBeforeEffect

THEOREM RecordsCorrect == Spec => []RecordsInv
<1>1. Init => RecordsInv
  BY TypeInit DEF Init, RecordsInv, InHand, RunningBeforeEffect
<1>2. RecordsInv /\ [Next]_vars => RecordsInv'
  BY TypeStep, InHandStep DEF RecordsInv
<1> QED
  BY <1>1, <1>2, PTL DEF Spec

\* The executor never leaves its types, whatever runs beside it.
THEOREM TypeCorrect == Spec => []TypeOK
  BY RecordsCorrect, PTL DEF RecordsInv

\* Whatever an action did to the system, its durable record says it may have:
\* with any number of shells, with leases that run out, and with a store that
\* loses writes.
THEOREM EffectsAreRecorded == Spec => []RunningBeforeEffect
  BY RecordsCorrect, PTL DEF RecordsInv

-----------------------------------------------------------------------------
(* The claim keeps runs apart *)

\* No shell outlives its lease between two renewals.
LeasesHold == Slow = {}

\* No shell runs two invocations at once.
OneRunPerShell == \A q, r \in Run : ShellOf[q] = ShellOf[r] => q = r

\* A run that believes it holds the claim does, with a lease that has not run
\* out; and what runs, runs in a shell that is alive.
ClaimHeld ==
  \A r \in Run :
    /\ pc[r] \in Claimed => claim.holder = ShellOf[r] /\ claim.fresh
    /\ pc[r] # "idle" => ShellOf[r] \notin dead

\* Most steps leave the claim and the processes alone.
HandsOff ==
  /\ claim' = claim /\ dead' = dead
  /\ \A r \in Run :
       /\ pc'[r] \in Claimed => pc[r] \in Claimed
       /\ pc'[r] # "idle" => pc[r] # "idle" \/ ShellOf[r] \notin dead

LEMMA HandsOffOrNot ==
  ASSUME TypeOK, [Next]_vars
  PROVE  \/ HandsOff
         \/ \E r \in Run : ClaimPlan(r) \/ Renew(r) \/ Release(r)
         \/ \E s \in Shell : Crash(s) \/ Start(s)
         \/ LeaseLapses
<1>0. pc \in [Run -> Phases]
  BY DEF TypeOK
<1> USE <1>0, ExecutorAssumption
    DEF storeVars, procVars, runVars, histVars, Goto, HandsOff, Claimed
<1>1. ASSUME NEW r \in Run, NEW m \in {"apply", "resume"}, Invoke(r, m) PROVE HandsOff
  BY <1>1 DEF Invoke
<1>2. ASSUME NEW r \in Run, InvokeVerify(r) PROVE HandsOff
  BY <1>2 DEF InvokeVerify
<1>3. ASSUME NEW r \in Run, NEW p \in Prot, ProtectOne(r, p) PROVE HandsOff
  BY <1>3 DEF ProtectOne
<1>4. ASSUME NEW r \in Run, Turned(r) PROVE HandsOff
  BY <1>4 DEF Turned
<1>5. ASSUME NEW r \in Run, AcceptEvidence(r) PROVE HandsOff
  BY <1>5 DEF AcceptEvidence
<1>6. ASSUME NEW r \in Run, RefuseEvidence(r) PROVE HandsOff
  BY <1>6 DEF RefuseEvidence
<1>7. ASSUME NEW r \in Run, Reestablish(r) PROVE HandsOff
  BY <1>7 DEF Reestablish
<1>8. ASSUME NEW r \in Run, ReestablishFails(r) PROVE HandsOff
  BY <1>8 DEF ReestablishFails
<1>9. ASSUME NEW r \in Run, BeginPrepare(r) PROVE HandsOff
  BY <1>9 DEF BeginPrepare
<1>10. ASSUME NEW r \in Run, Prepared(r) PROVE HandsOff
  BY <1>10 DEF Prepared
<1>11. ASSUME NEW r \in Run, PrepareFails(r) PROVE HandsOff
  BY <1>11 DEF PrepareFails
<1>12. ASSUME NEW r \in Run, PersistFailed(r) PROVE HandsOff
  BY <1>12 DEF PersistFailed
<1>13. ASSUME NEW r \in Run, RecordPrepareFailed(r) PROVE HandsOff
  BY <1>13 DEF RecordPrepareFailed
<1>14. ASSUME NEW r \in Run, Persist(r) PROVE HandsOff
  BY <1>14 DEF Persist
<1>15. ASSUME NEW r \in Run, RecordApplying(r) PROVE HandsOff
  BY <1>15 DEF RecordApplying
<1>16. ASSUME NEW r \in Run, SkipSucceeded(r) PROVE HandsOff
  BY <1>16 DEF SkipSucceeded, AtAction, Advance, NextPhase
<1>17. ASSUME NEW r \in Run, LoseClaim(r) PROVE HandsOff
  BY <1>17 DEF LoseClaim, AtAction, End
<1>18. ASSUME NEW r \in Run, NotStarted(r) PROVE HandsOff
  BY <1>18 DEF NotStarted, AtAction, End
<1>19. ASSUME NEW r \in Run, RecordRunning(r) PROVE HandsOff
  BY <1>19 DEF RecordRunning
<1>20. ASSUME NEW r \in Run, Execute(r) PROVE HandsOff
  BY <1>20 DEF Execute
<1>21. ASSUME NEW r \in Run, Settle(r) PROVE HandsOff
  BY <1>21 DEF Settle, Advance, NextPhase, End
<1>22. ASSUME NEW r \in Run, GatePasses(r) PROVE HandsOff
  BY <1>22 DEF GatePasses
<1>23. ASSUME NEW r \in Run, GateStops(r) PROVE HandsOff
  BY <1>23 DEF GateStops, End
<1>24. ASSUME NEW r \in Run, Verify(r) PROVE HandsOff
  BY <1>24 DEF Verify, End
<1>25. ASSUME NEW r \in Run, RecordFinal(r) PROVE HandsOff
  BY <1>25 DEF RecordFinal
<1>26. ASSUME NEW r \in Run, Report(r) PROVE HandsOff
  BY <1>26 DEF Report
<1>27. ASSUME NEW r \in Run, ProtectionLost(r) PROVE HandsOff
  BY <1>27 DEF ProtectionLost
<1>28. ASSUME NEW r \in Run, RecordVerdict(r) PROVE HandsOff
  BY <1>28 DEF RecordVerdict
<1>29. ASSUME NEW p \in Prot, Protect(p) PROVE HandsOff
  BY <1>29 DEF Protect
<1>30. CASE UNCHANGED vars
  BY <1>30 DEF vars
<1> HIDE DEF HandsOff
<1> QED
  BY <1>1, <1>2, <1>3, <1>4, <1>5, <1>6, <1>7, <1>8, <1>9, <1>10, <1>11,
      <1>12, <1>13, <1>14, <1>15, <1>16, <1>17, <1>18, <1>19, <1>20, <1>21,
      <1>22, <1>23, <1>24, <1>25, <1>26, <1>27, <1>28, <1>29, <1>30 DEF
      Next, Step

LEMMA ClaimHeldStep ==
  ASSUME LeasesHold, OneRunPerShell, TypeOK, ClaimHeld, [Next]_vars
  PROVE  ClaimHeld'
<1> USE StoreAssumption, ExecutorAssumption
    DEF LeasesHold, OneRunPerShell, TypeOK, StoreTypeOK, ClaimHeld, Goto,
        storeVars, procVars, runVars, histVars
<1>1. CASE HandsOff
  BY <1>1 DEF HandsOff
<1>2. ASSUME NEW r \in Run, pc[r] # "idle", TakeClaim(ShellOf[r]), dead' = dead,
             \A q \in Run \ {r} : pc'[q] = pc[q]
      PROVE  ClaimHeld'
  <2>1. claim'.holder = ShellOf[r] /\ claim'.fresh
    BY <1>2 DEF TakeClaim
  <2>2. ASSUME NEW q \in Run \ {r} PROVE pc[q] \notin Claimed
    <3>1. ShellOf[q] # ShellOf[r] /\ ShellOf[q] \in Shell
      BY <2>2
    <3>2. SUFFICES ASSUME pc[q] \in Claimed PROVE FALSE
      OBVIOUS
    <3>3. claim.holder = ShellOf[q] /\ claim.fresh /\ ShellOf[q] \notin dead
      BY <3>2 DEF Claimed
    <3>4. Takeable(ShellOf[r])
      BY <1>2 DEF TakeClaim
    <3> QED
      BY <3>1, <3>3, <3>4 DEF Takeable, HolderIsAlive
  <2>3. ASSUME NEW q \in Run
        PROVE  /\ pc'[q] \in Claimed => claim'.holder = ShellOf[q] /\ claim'.fresh
               /\ pc'[q] # "idle" => ShellOf[q] \notin dead'
    <3>1. CASE q = r
      BY Zenon, <1>2, <2>1, <3>1
    <3>2. CASE q # r
      BY <1>2, <2>2, <3>2
    <3> QED
      BY <3>1, <3>2
  <2> QED
    BY <2>3
<1>3. ASSUME NEW r \in Run, Renew(r) PROVE ClaimHeld'
  BY Zenon, <1>2, <1>3 DEF Renew, AtAction
<1>4. ASSUME NEW r \in Run, ClaimPlan(r) PROVE ClaimHeld'
  BY Zenon, <1>2, <1>4 DEF ClaimPlan
<1>5. ASSUME NEW r \in Run, Release(r) PROVE ClaimHeld'
  <2>1. /\ pc[r] = "release" /\ pc' = [pc EXCEPT ![r] = "report"] /\ dead' = dead
        /\ claim' = claim \/ claim.holder = ShellOf[r]
    BY <1>5 DEF Release, ReleaseClaim
  <2>2. claim.holder = ShellOf[r] /\ ShellOf[r] \notin dead
    BY <2>1 DEF Claimed
  <2>3. \A q \in Run : pc'[q] \notin Claimed
    BY <2>1, <2>2 DEF Claimed
  <2> QED
    BY <2>1, <2>2, <2>3
<1>6. ASSUME NEW s \in Shell, Crash(s) PROVE ClaimHeld'
  BY <1>6 DEF Crash, Claimed
<1>7. ASSUME NEW s \in Shell, Start(s) PROVE ClaimHeld'
  BY <1>7 DEF Start
<1>8. ASSUME LeaseLapses PROVE ClaimHeld'
  <2>1. claim.holder \in dead /\ dead' = dead /\ pc' = pc
    BY <1>8 DEF LeaseLapses
  <2>2. \A r \in Run : pc[r] \notin Claimed
    BY <2>1 DEF Claimed
  <2> QED
    BY Zenon, <2>1, <2>2
<1> QED
  BY Zenon, HandsOffOrNot, <1>1, <1>3, <1>4, <1>5, <1>6, <1>7, <1>8

\* One run at a time has the plan, for any number of shells and crashes and
\* whatever the store loses, as long as no lease runs out under its holder and
\* no shell runs the plan twice at once.
THEOREM OneAtATime ==
  ASSUME LeasesHold, OneRunPerShell
  PROVE  Spec => []ExclusiveApply
<1>1. Init => ClaimHeld
  <2>1. Init => dead = {} /\ \A r \in Run : pc[r] = "idle"
    BY DEF Init, StoreInit
  <2> QED
    BY <2>1 DEF ClaimHeld, Claimed
<1>2. TypeOK /\ ClaimHeld /\ [Next]_vars => ClaimHeld'
  BY ClaimHeldStep
<1>3. ClaimHeld => ExclusiveApply
  BY DEF OneRunPerShell, ClaimHeld, ExclusiveApply
<1> QED
  BY <1>1, <1>2, <1>3, TypeCorrect, PTL DEF Spec

-----------------------------------------------------------------------------
(* What may not be repeated is not *)

\* The actions a run may execute only if nobody has: all of them for an
\* `apply`, those that may not be repeated for a resume.
OnlyOnce(r, a) == Idempotency[a] # "idempotent" \/ mode[r] = "apply"

\* The actions a run has still to start.
Ahead(r, a) ==
  /\ view[r][a] # "succeeded"
  /\ \/ pc[r] \in Working /\ pos[r] <= a
     \/ pc[r] \in {"execute", "settle"} /\ pos[r] < a

\* A run on its way to an action it may execute only if nobody has holds
\* evidence that it never started, and nobody else can have started it since.
Untried ==
  \A r \in Run, a \in Action :
    OnlyOnce(r, a) =>
      /\ Ahead(r, a) => record[a] \notin MayHaveMutated
      /\ pc[r] = "record-running" /\ pos[r] = a => view[r][a] # "succeeded"
      /\ pc[r] = "execute" /\ pos[r] = a => exec[a] = 0

LEMMA UntriedStep ==
  ASSUME RecordsInv, RecordsInv', ExclusiveApply, Untried, NonIdempotentOnce,
         [Next]_vars
  PROVE  Untried' /\ NonIdempotentOnce'
<1> USE DEF storeVars, procVars, runVars, histVars, Goto, Action
<1>0. /\ pc \in [Run -> Phases] /\ view \in [Run -> [Action -> ActionStatuses]]
      /\ record \in [Action -> ActionStatuses] /\ exec \in [Action -> 0 .. 2]
      /\ pos \in [Run -> 1 .. N + 1] /\ pos' \in [Run -> 1 .. N + 1]
      /\ N \in Nat /\ mode \in [Run -> {"apply", "resume"}]
  BY StoreAssumption DEF RecordsInv, TypeOK, StoreTypeOK
<1>1. CASE Quiet
  <2>1. NonIdempotentOnce'
    BY <1>0, <1>1 DEF Quiet, NonIdempotentOnce
  <2>2. ASSUME NEW r \in Run, NEW a \in Action, Ahead(r, a)'
        PROVE  Ahead(r, a)
    <3>1. CASE pc'[r] \in Working
      <4>1. pc[r] \in Working /\ view'[r] = view[r] /\ pos'[r] >= pos[r]
        BY <1>1, <3>1 DEF Quiet
      <4>2. view'[r][a] # "succeeded" /\ pos'[r] <= a
        BY <1>0, <2>2, <3>1 DEF Ahead, Working
      <4> QED
        BY <1>0, <4>1, <4>2 DEF Ahead
    <3>2. CASE pc'[r] \in {"execute", "settle"}
      BY <1>0, <1>1, <2>2, <3>2 DEF Quiet, Ahead, Working
    <3> QED
      BY <1>0, <2>2, <3>1, <3>2 DEF Ahead
  <2>3. ASSUME NEW r \in Run, NEW a \in Action, OnlyOnce(r, a)', pos'[r] = a
        PROVE  /\ pc'[r] = "record-running" => view'[r][a] # "succeeded"
               /\ pc'[r] = "execute" => exec'[a] = 0
    <3>1. CASE pc'[r] \in {"record-running", "execute"}
      <4>1. /\ pc'[r] = pc[r] /\ pos[r] = a /\ view'[r] = view[r]
            /\ exec' = exec /\ mode'[r] = mode[r]
        BY Zenon, <1>1, <2>3, <3>1 DEF Quiet
      <4> QED
        BY <2>3, <4>1 DEF Untried, OnlyOnce
    <3> QED
      BY <3>1
  <2>4. ASSUME NEW r \in Run, NEW a \in Action, OnlyOnce(r, a)', Ahead(r, a)'
        PROVE  record'[a] \notin MayHaveMutated
    <3>1. mode'[r] = mode[r]
      BY Zenon, <1>1, <2>4 DEF Quiet, Ahead
    <3>2. OnlyOnce(r, a)
      BY Zenon, <2>4, <3>1 DEF OnlyOnce
    <3> QED
      BY Zenon, <1>0, <1>1, <2>2, <2>4, <3>2 DEF Quiet, Untried
  <2> QED
    BY Zenon, <1>0, <2>1, <2>3, <2>4 DEF Untried
<1>2. ASSUME NEW r \in Run, AcceptEvidence(r)
      PROVE  Untried' /\ NonIdempotentOnce'
  <2>1. ASSUME NEW a \in Action, OnlyOnce(r, a), view'[r][a] # "succeeded"
        PROVE  record[a] \notin MayHaveMutated
    <3>1. CASE mode[r] = "apply"
      BY <1>0, <1>2, <3>1 DEF AcceptEvidence, MutationBegan, AllPending
    <3>2. CASE mode[r] = "resume"
      <4>1. view'[r] = record /\ MayContinue(record)
        BY <1>0, <1>2, <3>2 DEF AcceptEvidence
      <4> QED
        BY Zenon, <1>0, <2>1, <3>2, <4>1 DEF MayContinue, MayRerun, MayHaveMutated, OnlyOnce
    <3> QED
      BY <1>0, <3>1, <3>2
  <2>2. /\ record' = record /\ exec' = exec /\ pos' = pos /\ mode' = mode
        /\ pc'[r] \in {"reestablish", "begin-prepare", "persist"}
        /\ \A q \in Run \ {r} : pc'[q] = pc[q] /\ view'[q] = view[q]
    BY <1>0, <1>2 DEF AcceptEvidence
  <2>3. ASSUME NEW q \in Run \ {r}, NEW a \in Action, Ahead(q, a)'
        PROVE  Ahead(q, a)
    BY <1>0, <2>2, <2>3 DEF Ahead
  <2>4. ASSUME NEW q \in Run, NEW a \in Action, OnlyOnce(q, a)', Ahead(q, a)'
        PROVE  record'[a] \notin MayHaveMutated
    <3>1. CASE q = r
      BY <1>0, <2>1, <2>2, <2>4, <3>1 DEF Ahead, OnlyOnce
    <3>2. CASE q # r
      BY <1>0, <2>2, <2>3, <2>4, <3>2 DEF Untried, OnlyOnce
    <3> QED
      BY <1>0, <3>1, <3>2
  <2>5. ASSUME NEW q \in Run, NEW a \in Action, OnlyOnce(q, a)', pos'[q] = a
        PROVE  /\ pc'[q] = "record-running" => view'[q][a] # "succeeded"
               /\ pc'[q] = "execute" => exec'[a] = 0
    <3>1. CASE q = r
      BY <2>2, <3>1
    <3>2. CASE q # r
      BY <2>2, <2>5, <3>2 DEF Untried, OnlyOnce
    <3> QED
      BY <3>1, <3>2
  <2>6. NonIdempotentOnce'
    BY <2>2 DEF NonIdempotentOnce
  <2> QED
    BY Zenon, <2>4, <2>5, <2>6 DEF Untried
<1>3. ASSUME NEW r \in Run, Renew(r)
      PROVE  Untried' /\ NonIdempotentOnce'
  BY <1>0, <1>3 DEF Renew, AtAction, Untried, OnlyOnce, Ahead, NonIdempotentOnce, Working
<1>4. ASSUME NEW r \in Run, RecordRunning(r)
      PROVE  Untried' /\ NonIdempotentOnce'
  <2>1. \A q \in Run \ {r} : pc'[q] \notin Claimed
    BY <1>0, <1>4 DEF RecordRunning, ExclusiveApply, Claimed
  <2>2. pc'[r] = "execute" /\ pos' = pos /\ exec' = exec /\ mode' = mode
    BY <1>0, <1>4 DEF RecordRunning
  <2>3. pos[r] \in Action
    BY <1>0, <1>4 DEF RecordsInv, RecordRunning, InHand
  <2>4. OnlyOnce(r, pos[r]) => exec[pos[r]] = 0
    <3>1. OnlyOnce(r, pos[r]) => view[r][pos[r]] # "succeeded"
      BY <1>0, <1>4, <2>3 DEF RecordRunning, Untried
    <3>2. OnlyOnce(r, pos[r]) => Ahead(r, pos[r])
      BY <1>0, <1>4, <2>3, <3>1 DEF RecordRunning, Ahead, Working
    <3>3. OnlyOnce(r, pos[r]) => record[pos[r]] \notin MayHaveMutated
      BY <1>0, <2>3, <3>2 DEF Untried
    <3>4. exec[pos[r]] \in 0 .. 2
      BY <1>0, <2>3
    <3> QED
      BY <1>0, <2>3, <3>3, <3>4 DEF RecordsInv, RunningBeforeEffect
  <2>5. ASSUME NEW a \in Action, OnlyOnce(r, a), Ahead(r, a)'
        PROVE  record'[a] \notin MayHaveMutated
    <3>1. a # pos[r] /\ Ahead(r, a)
      BY <1>0, <1>4, <2>2, <2>3, <2>5 DEF RecordRunning, Ahead, Working
    <3> QED
      BY <1>0, <1>4, <2>5, <3>1 DEF RecordRunning, RecordActionStatus, Untried
  <2> QED
    BY <1>0, <2>1, <2>2, <2>4, <2>5 DEF Untried, OnlyOnce, Ahead, NonIdempotentOnce, Working, Claimed
<1>5. ASSUME NEW r \in Run, Execute(r)
      PROVE  Untried' /\ NonIdempotentOnce'
  <2>0. pos[r] \in Action
    BY <1>5 DEF RecordsInv, Execute, InHand
  <2>1. \A q \in Run \ {r} : pc'[q] \notin Claimed
    BY <1>0, <1>5 DEF Execute, ExclusiveApply, Claimed
  <2>2. NonIdempotentOnce'
    BY <1>0, <1>5, <2>0 DEF Execute, Untried, NonIdempotentOnce, OnlyOnce
  <2>3. pc'[r] = "settle" /\ record' = record /\ mode' = mode
    BY <1>0, <1>5 DEF Execute
  <2>4. ASSUME NEW a \in Action, Ahead(r, a)' PROVE Ahead(r, a)
    BY <1>0, <1>5, <2>4 DEF Execute, Ahead, Working
  <2> QED
    BY <1>0, <2>1, <2>2, <2>3, <2>4
    DEF Untried, OnlyOnce, Ahead, Working, Claimed
<1>6. ASSUME NEW r \in Run, Settle(r)
      PROVE  Untried' /\ NonIdempotentOnce'
  <2>1. \A q \in Run \ {r} : pc'[q] \notin Claimed
    BY <1>0, <1>6 DEF Settle, Advance, End, ExclusiveApply, Claimed
  <2>2. exec' = exec /\ mode' = mode
    BY <1>0, <1>6 DEF Settle
  <2>3. \/ pc'[r] = "record-final"
        \/ pc'[r] \in {"mutate", "gate"} /\ pos'[r] = pos[r] + 1
    BY <1>0, <1>6 DEF Settle, Advance, NextPhase, End
  <2>4. ASSUME NEW a \in Action, OnlyOnce(r, a), Ahead(r, a)'
        PROVE  record'[a] \notin MayHaveMutated
    <3>1. pos[r] < a
      <4>1. pc'[r] \in {"mutate", "gate"} /\ pos'[r] = pos[r] + 1
        BY <2>3, <2>4 DEF Ahead, Working
      <4>2. pos'[r] <= a
        BY <2>4, <4>1 DEF Ahead
      <4> QED
        BY <1>0, <4>1, <4>2
    <3>2. record'[a] = record[a] /\ view'[r][a] = view[r][a]
      BY <1>0, <1>6, <3>1 DEF Settle, RecordActionStatus
    <3>3. Ahead(r, a)
      BY Zenon, <1>0, <1>6, <2>4, <3>1, <3>2 DEF Settle, Ahead
    <3> QED
      BY <1>0, <2>4, <3>2, <3>3 DEF Untried
  <2> QED
    BY <1>0, <2>1, <2>2, <2>3, <2>4
    DEF Untried, OnlyOnce, Ahead, NonIdempotentOnce, Working, Claimed
<1> QED
  BY QuietOrLoud, <1>1, <1>2, <1>3, <1>4, <1>5, <1>6 DEF Loud, RecordsInv

\* Nothing a run is on its way to that it may execute only once has started,
\* and with it nothing that may not be repeated has run twice.
THEOREM UntriedHolds ==
  ASSUME LeasesHold, OneRunPerShell
  PROVE  Spec => [](Untried /\ NonIdempotentOnce)
<1>1. Init => Untried /\ NonIdempotentOnce
  BY StoreAssumption
  DEF Init, Untried, NonIdempotentOnce, Ahead, Working, Action
<1>2. /\ RecordsInv /\ RecordsInv' /\ ExclusiveApply
      /\ Untried /\ NonIdempotentOnce /\ [Next]_vars
      => Untried' /\ NonIdempotentOnce'
  BY UntriedStep
<1> QED
  BY <1>1, <1>2, RecordsCorrect, OneAtATime, PTL DEF Spec

\* An action that may not be repeated runs at most once, over every crash,
\* every resume and every write the store loses.  The assumptions are the two
\* under which the claim keeps runs apart; without the first it is false.
THEOREM NothingRepeated ==
  ASSUME LeasesHold, OneRunPerShell
  PROVE  Spec => []NonIdempotentOnce
  BY UntriedHolds, PTL

\* What `apply` executes has not been executed before, by anybody.
THEOREM ApplyNeverRepeats ==
  ASSUME LeasesHold, OneRunPerShell
  PROVE  Spec => []AppliedOnce
<1>1. RecordsInv /\ Untried => AppliedOnce
  <2> SUFFICES ASSUME RecordsInv, Untried,
                      NEW r \in Run, mode[r] = "apply", pc[r] = "execute"
               PROVE  exec[pos[r]] = 0
    BY DEF AppliedOnce
  <2>1. pos[r] \in Action
    BY DEF RecordsInv, InHand
  <2> QED
    BY <2>1 DEF Untried, OnlyOnce
<1> QED
  BY <1>1, RecordsCorrect, UntriedHolds, PTL

\* The record of an action that may not be repeated changes only under the
\* hands of the run that is carrying it out: nobody who resumes turns an
\* outcome that was never established into another.
THEOREM NobodyDecidesTheUnknown ==
  ASSUME LeasesHold, OneRunPerShell
  PROVE  Spec => UncertaintyKept
<1>1. RecordsInv /\ Untried /\ [Next]_vars =>
        [\A a \in Action :
           /\ record[a] \in {"running", "unknown"}
           /\ Idempotency[a] # "idempotent"
           /\ \A r \in Run : pos[r] = a => pc[r] \notin {"execute", "settle"}
           => record'[a] = record[a]]_vars
  <2> SUFFICES ASSUME RecordsInv, Untried, [Next]_vars,
                      NEW a \in Action,
                      record[a] \in {"running", "unknown"},
                      Idempotency[a] # "idempotent",
                      \A r \in Run : pos[r] = a => pc[r] \notin {"execute", "settle"}
               PROVE  record'[a] = record[a]
    BY Zenon
  <2>1. record \in [Action -> ActionStatuses]
    BY DEF RecordsInv, TypeOK, StoreTypeOK
  <2>2. CASE Quiet
    BY Zenon, <2>2 DEF Quiet
  <2>3. ASSUME NEW r \in Run, AcceptEvidence(r) \/ Renew(r) \/ Execute(r)
        PROVE  record' = record
    BY Zenon, <2>3 DEF AcceptEvidence, Renew, Execute, storeVars
  <2>4. ASSUME NEW r \in Run, RecordRunning(r) PROVE record'[a] = record[a]
    <3>1. pos[r] \in Action /\ pc[r] = "record-running"
      BY <2>4 DEF RecordRunning, RecordsInv, InHand
    <3>2. pos[r] # a
      <4>1. SUFFICES ASSUME pos[r] = a PROVE FALSE
        OBVIOUS
      <4>2. Ahead(r, a) /\ OnlyOnce(r, a)
        BY <3>1, <4>1 DEF Untried, Ahead, Working, OnlyOnce, Action
      <4> QED
        BY <4>2 DEF Untried, MayHaveMutated
    <3> QED
      BY <2>1, <2>4, <3>2 DEF RecordRunning, RecordActionStatus
  <2>5. ASSUME NEW r \in Run, Settle(r) PROVE record'[a] = record[a]
    BY <2>1, <2>5 DEF Settle, RecordActionStatus
  <2> QED
    BY QuietOrLoud, <2>2, <2>3, <2>4, <2>5 DEF Loud, RecordsInv
<1> QED
  BY <1>1, RecordsCorrect, UntriedHolds, PTL DEF Spec, UncertaintyKept
=============================================================================
