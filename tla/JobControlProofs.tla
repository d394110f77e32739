-------------------------- MODULE JobControlProofs --------------------------
(***************************************************************************)
(* Proofs about JobControl, for any number of pipelines of any number of   *)
(* stages.                                                                 *)
(***************************************************************************)
EXTENDS JobControl, FiniteSetTheorems, TLAPS

-----------------------------------------------------------------------------
(* Types *)

\* The stages of a pipeline are numbered from one.
ShapeOK ==
  \A g \in Pipe : Stages(g) \in Nat /\ StagesOf(g) = 1 .. Stages(g)

\* What is known of the processes of a pipeline is typed stage by stage.
KernelOK ==
  /\ DOMAIN proc = Pipe /\ DOMAIN news = Pipe /\ DOMAIN stage = Pipe
  /\ \A g \in Pipe :
       /\ proc[g] \in [StagesOf(g) -> Alive \cup {"unborn", "zombie", "gone"}]
       /\ news[g] \in [StagesOf(g) -> {"none", "stopped", "continued"}]
       /\ stage[g] \in [StagesOf(g) -> Alive \cup {"unspawned", "exited"}]

\* No step gives a pipeline a stage or takes one away.
SameShape == \A g \in Pipe : StagesOf(g)' = StagesOf(g)

\* The members of a group, collected or not yet.
InGroup == Alive \cup {"zombie"}

\* A process that stays in its group, and does not run again if it has ended.
Ripples(p, q) ==
  IF p \in InGroup THEN q \in InGroup /\ (q \in Alive => p \in Alive) ELSE q = p

\* A signal ends members of the group, or continues them; it collects none.
LEMMA SignalRipples ==
  ASSUME KernelOK, NEW g \in Pipe, NEW sig, SignalGroup(g, sig), DOMAIN stage' = Pipe,
         \A h \in Pipe : stage'[h] \in [StagesOf(h) -> Alive \cup {"unspawned", "exited"}]
  PROVE  /\ KernelOK' /\ SameShape
         /\ \A h \in Pipe : \A k \in StagesOf(h) : Ripples(proc[h][k], proc'[h][k])
<1> USE DEF StagesOf, Alive, InGroup
<1>1. \A h \in Pipe : DOMAIN proc'[h] = DOMAIN proc[h]
  BY DEF KernelOK, SignalGroup
<1>2. ASSUME NEW p \in Alive \cup {"unborn", "zombie", "gone"}
      PROVE  /\ Struck(g, sig, p) \in Alive \cup {"unborn", "zombie", "gone"}
             /\ Ripples(p, Struck(g, sig, p))
  BY <1>2 DEF Struck, Ends, Ripples
<1>3. ASSUME NEW h \in Pipe, NEW k \in DOMAIN proc[h]
      PROVE  /\ proc'[h][k] \in Alive \cup {"unborn", "zombie", "gone"}
             /\ Ripples(proc[h][k], proc'[h][k])
  <2>0. proc[h][k] \in Alive \cup {"unborn", "zombie", "gone"}
    BY <1>3 DEF KernelOK
  <2>1. proc'[h][k] = IF h = g THEN Struck(g, sig, proc[h][k]) ELSE proc[h][k]
    BY <1>3 DEF SignalGroup, KernelOK
  <2> QED
    BY <1>2, <2>0, <2>1 DEF Ripples
<1>4. ASSUME NEW h \in Pipe
      PROVE  /\ proc'[h] \in [DOMAIN proc[h] -> Alive \cup {"unborn", "zombie", "gone"}]
             /\ news'[h] \in [DOMAIN proc[h] -> {"none", "stopped", "continued"}]
  <2>1. CASE h # g
    <3>1. proc'[h] = proc[h] /\ news'[h] = news[h]
      BY <2>1 DEF SignalGroup, KernelOK
    <3> QED
      BY <3>1 DEF KernelOK
  <2>2. CASE h = g
    <3>1. news[g] \in [DOMAIN proc[g] -> {"none", "stopped", "continued"}]
      BY DEF KernelOK
    <3>2. news'[g] = [k \in DOMAIN proc[g] |->
             IF proc'[g][k] = "zombie" THEN "none"
             ELSE IF proc'[g][k] # proc[g][k] THEN "continued" ELSE news[g][k]]
      BY DEF SignalGroup, KernelOK
    <3>3. proc'[g] = [k \in DOMAIN proc[g] |-> Struck(g, sig, proc[g][k])]
      BY DEF SignalGroup, KernelOK
    <3>4. news'[g] \in [DOMAIN proc[g] -> {"none", "stopped", "continued"}]
      BY <3>1, <3>2
    <3>5. \A k \in DOMAIN proc[g] :
            Struck(g, sig, proc[g][k]) \in Alive \cup {"unborn", "zombie", "gone"}
      BY <1>2 DEF KernelOK
    <3>6. proc'[g] \in [DOMAIN proc[g] -> Alive \cup {"unborn", "zombie", "gone"}]
      BY <3>3, <3>5
    <3> QED
      BY <2>2, <3>4, <3>6
  <2> QED
    BY <2>1, <2>2
<1>5. DOMAIN proc' = Pipe /\ DOMAIN news' = Pipe
  BY DEF KernelOK, SignalGroup
<1> QED
  BY <1>1, <1>3, <1>4, <1>5 DEF KernelOK, SameShape

-----------------------------------------------------------------------------
(* What the shell has recorded of a process, and what the process is       *)

\* A stage is recorded as alive exactly as long as its process has not been
\* collected, and waitpid has a stop or a continuation to report only of a
\* process that lives.
Matches ==
  \A g \in Pipe : \A k \in StagesOf(g) :
    /\ proc[g][k] \in InGroup <=> stage[g][k] \in Alive
    /\ proc[g][k] = "gone" => stage[g][k] = "exited"
    /\ news[g][k] # "none" => proc[g][k] \in Alive

\* Every stage has been tried.
Spawned(g) == \A k \in StagesOf(g) : stage[g][k] # "unspawned"

\* The stages before the n-th have been tried, and no other.
Progress(g, n) == \A k \in StagesOf(g) : stage[g][k] = "unspawned" <=> k >= n

\* A record that stays what it is, or stays alive.
SameRecord(s, t) == IF s \in Alive THEN t \in Alive ELSE t = s

\* A pipeline none of whose processes is started or collected in the step.
KeptAt(h) ==
  \A k \in StagesOf(h) :
    /\ Ripples(proc[h][k], proc'[h][k])
    /\ SameRecord(stage[h][k], stage'[h][k])
    /\ news'[h][k] # "none" => proc'[h][k] \in Alive

\* What the rest of the shell sees of a pipeline, over such a step.
Steady(h) ==
  /\ Held(proc, h)' <=> Held(proc, h)
  /\ HasGroup(h)' <=> HasGroup(h)
  /\ GroupRuns(h)' => GroupRuns(h)
  /\ Fresh(h)' <=> Fresh(h)
  /\ Spawned(h)' <=> Spawned(h)
  /\ Finished(stage, h)' <=> Finished(stage, h)
  /\ \A n \in Nat : Progress(h, n)' <=> Progress(h, n)

LEMMA KeptIsSteady ==
  ASSUME KernelOK, SameShape, NEW h \in Pipe, KeptAt(h)
  PROVE  Steady(h)
<1>1. StagesOf(h)' = StagesOf(h)
  BY DEF SameShape
<1>2. \A k \in StagesOf(h) :
        /\ proc'[h][k] \in InGroup <=> proc[h][k] \in InGroup
        /\ proc'[h][k] # "unborn" <=> proc[h][k] # "unborn"
        /\ proc'[h][k] \in Alive => proc[h][k] \in Alive
        /\ stage'[h][k] = "unspawned" <=> stage[h][k] = "unspawned"
        /\ stage'[h][k] = "exited" <=> stage[h][k] = "exited"
  BY DEF KeptAt, Ripples, SameRecord, InGroup, Alive
<1>3. /\ Held(proc, h)' <=> Held(proc, h)
      /\ HasGroup(h)' <=> HasGroup(h)
      /\ GroupRuns(h)' => GroupRuns(h)
  BY <1>1, <1>2, Zenon DEF Held, HasGroup, GroupRuns, InGroup
<1>4. /\ Fresh(h)' <=> Fresh(h)
      /\ Spawned(h)' <=> Spawned(h)
      /\ Finished(stage, h)' <=> Finished(stage, h)
  BY <1>1, <1>2, Zenon DEF Fresh, Spawned, Finished
<1>5. ASSUME NEW n \in Nat PROVE Progress(h, n)' <=> Progress(h, n)
  BY <1>1, <1>2, Zenon DEF Progress
<1> QED
  BY <1>3, <1>4, <1>5, Zenon DEF Steady

LEMMA KeptMatches ==
  ASSUME KernelOK, Matches, NEW h \in Pipe, KeptAt(h), NEW k \in StagesOf(h)
  PROVE  /\ proc'[h][k] \in InGroup <=> stage'[h][k] \in Alive
         /\ proc'[h][k] = "gone" => stage'[h][k] = "exited"
         /\ news'[h][k] # "none" => proc'[h][k] \in Alive
BY DEF KeptAt, Matches, Ripples, SameRecord, InGroup, Alive

\* A step that touches nothing of a pipeline keeps it.
LEMMA UntouchedIsKept ==
  ASSUME Matches, NEW h \in Pipe, proc'[h] = proc[h], stage'[h] = stage[h], news'[h] = news[h]
  PROVE  KeptAt(h)
BY DEF KeptAt, Matches, Ripples, SameRecord, InGroup, Alive

\* A pipeline all of whose stages were tried has a member left exactly as long
\* as the shell has not recorded every stage as exited.
LEMMA HeldUnlessFinished ==
  ASSUME KernelOK, Matches, NEW g \in Pipe, Spawned(g)
  PROVE  Held(proc, g) <=> ~Finished(stage, g)
<1>1. \A k \in StagesOf(g) : proc[g][k] \in InGroup <=> stage[g][k] # "exited"
  BY DEF KernelOK, Matches, Spawned, InGroup, Alive
<1> QED
  BY <1>1, Zenon DEF Held, Finished, InGroup

\* A pipeline none of whose stages was tried has no process.
LEMMA FreshHasNone ==
  ASSUME KernelOK, Matches, NEW g \in Pipe, Fresh(g)
  PROVE  ~Held(proc, g) /\ ~HasGroup(g) /\ ~GroupRuns(g)
<1>1. \A k \in StagesOf(g) : proc[g][k] = "unborn" /\ proc[g][k] \notin InGroup
  BY DEF KernelOK, Matches, Fresh, InGroup, Alive
<1> QED
  BY <1>1, Zenon DEF Held, HasGroup, GroupRuns, InGroup

\* Whatever runs holds its group's id.
LEMMA RunsIsHeld ==
  ASSUME NEW g \in Pipe, GroupRuns(g)
  PROVE  Held(proc, g) /\ HasGroup(g)
<1>1. \A p : p \in Alive => p # "unborn" /\ p \in Alive \cup {"zombie"}
  BY DEF Alive
<1> QED
  BY <1>1, Zenon DEF GroupRuns, Held, HasGroup

LEMMA AllKept ==
  ASSUME KernelOK, Matches, SameShape, \A h \in Pipe : KeptAt(h)
  PROVE  Matches'
<1> SUFFICES ASSUME NEW h \in Pipe, NEW k \in StagesOf(h)'
             PROVE  /\ proc'[h][k] \in InGroup <=> stage'[h][k] \in Alive
                    /\ proc'[h][k] = "gone" => stage'[h][k] = "exited"
                    /\ news'[h][k] # "none" => proc'[h][k] \in Alive
  BY Zenon DEF Matches, InGroup, Alive
<1>1. k \in StagesOf(h)
  BY DEF SameShape
<1> QED
  BY <1>1, KeptMatches

\* A signal starts and collects nothing, whether or not the shell records the
\* group as running again.
LEMMA SignalKeeps ==
  ASSUME KernelOK, Matches, NEW g \in Pipe, NEW sig, SignalGroup(g, sig),
         stage' = stage \/ stage' = Resumed(g)
  PROVE  KernelOK' /\ SameShape /\ Matches' /\ \A h \in Pipe : KeptAt(h)
<1>1. /\ DOMAIN stage' = Pipe
      /\ \A h \in Pipe : stage'[h] \in [StagesOf(h) -> Alive \cup {"unspawned", "exited"}]
      /\ \A h \in Pipe : \A k \in StagesOf(h) : SameRecord(stage[h][k], stage'[h][k])
  <2>1. CASE stage' = stage
    BY <2>1 DEF KernelOK, SameRecord
  <2>2. CASE stage' = Resumed(g)
    <3>1. DOMAIN stage' = Pipe
      BY <2>2 DEF Resumed, KernelOK
    <3>2. ASSUME NEW h \in Pipe, h # g PROVE stage'[h] = stage[h]
      BY <2>2, <3>2 DEF Resumed, KernelOK
    <3>3. stage'[g] = [k \in StagesOf(g) |-> IF stage[g][k] = "stopped" THEN "running" ELSE stage[g][k]]
      BY <2>2 DEF Resumed, KernelOK
    <3>4. /\ stage'[g] \in [StagesOf(g) -> Alive \cup {"unspawned", "exited"}]
          /\ \A k \in StagesOf(g) : SameRecord(stage[g][k], stage'[g][k])
      BY <3>3 DEF KernelOK, SameRecord, Alive
    <3>5. ASSUME NEW h \in Pipe, h # g
          PROVE  /\ stage'[h] \in [StagesOf(h) -> Alive \cup {"unspawned", "exited"}]
                 /\ \A k \in StagesOf(h) : SameRecord(stage[h][k], stage'[h][k])
      BY <3>2, <3>5 DEF KernelOK, SameRecord
    <3> QED
      BY <3>1, <3>4, <3>5, Zenon
  <2> QED
    BY <2>1, <2>2, Zenon
<1>2. /\ KernelOK' /\ SameShape
      /\ \A h \in Pipe : \A k \in StagesOf(h) : Ripples(proc[h][k], proc'[h][k])
  BY <1>1, SignalRipples, Zenon
<1>3. ASSUME NEW h \in Pipe, NEW k \in StagesOf(h), news'[h][k] # "none"
      PROVE  proc'[h][k] \in Alive
  <2>1. news[h][k] # "none" => proc[h][k] \in Alive
    BY DEF Matches
  <2>2. CASE h # g
    <3>1. proc'[h] = proc[h] /\ news'[h] = news[h]
      BY <2>2 DEF SignalGroup, KernelOK
    <3> QED
      BY <1>3, <2>1, <3>1
  <2>3. CASE h = g
    <3>1. news'[g][k] =
             IF proc'[g][k] = "zombie" THEN "none"
             ELSE IF proc'[g][k] # proc[g][k] THEN "continued" ELSE news[g][k]
      BY <2>3 DEF SignalGroup, KernelOK
    <3>2. proc'[g][k] = Struck(g, sig, proc[g][k])
      BY <2>3 DEF SignalGroup, KernelOK
    <3>3. proc[g][k] \in Alive \cup {"unborn", "zombie", "gone"}
      BY <2>3 DEF KernelOK
    <3> QED
      BY <1>3, <2>1, <2>3, <3>1, <3>2, <3>3 DEF Struck, Ends, Alive
  <2> QED
    BY <2>2, <2>3
<1>4. \A h \in Pipe : KeptAt(h)
  BY <1>1, <1>2, <1>3, Zenon DEF KeptAt
<1> QED
  BY <1>2, <1>4, AllKept, Zenon

\* A process that ends or stops by itself stays in its group.
LEMMA ProcessKeeps ==
  ASSUME KernelOK, Matches, NEW g \in Pipe, NEW k \in StagesOf(g), Exits(g, k) \/ Stops(g, k)
  PROVE  KernelOK' /\ SameShape /\ Matches' /\ \A h \in Pipe : KeptAt(h)
<1>1. PICK p \in {"zombie", "stopped"}, w \in {"none", "stopped"} :
        /\ proc' = [proc EXCEPT ![g][k] = p] /\ news' = [news EXCEPT ![g][k] = w]
        /\ proc[g][k] = "running" /\ stage' = stage
        /\ w # "none" => p \in Alive
  BY DEF Exits, Stops, tableVars, Alive
<1>2. /\ DOMAIN proc' = Pipe /\ DOMAIN news' = Pipe /\ DOMAIN stage' = Pipe
      /\ \A h \in Pipe : DOMAIN proc'[h] = DOMAIN proc[h]
  BY <1>1 DEF KernelOK
<1>3. SameShape
  BY <1>2 DEF SameShape, StagesOf
<1>4. ASSUME NEW h \in Pipe
      PROVE  /\ proc'[h] \in [StagesOf(h) -> Alive \cup {"unborn", "zombie", "gone"}]
             /\ news'[h] \in [StagesOf(h) -> {"none", "stopped", "continued"}]
             /\ KeptAt(h)
  <2>1. CASE h # g
    <3>1. proc'[h] = proc[h] /\ news'[h] = news[h] /\ stage'[h] = stage[h]
      BY <1>1, <2>1 DEF KernelOK
    <3> QED
      BY <3>1, UntouchedIsKept DEF KernelOK
  <2>2. CASE h = g
    <3>1. proc'[g] = [proc[g] EXCEPT ![k] = p] /\ news'[g] = [news[g] EXCEPT ![k] = w]
      BY <1>1, <2>2 DEF KernelOK
    <3>2. /\ proc[g] \in [StagesOf(g) -> Alive \cup {"unborn", "zombie", "gone"}]
          /\ news[g] \in [StagesOf(g) -> {"none", "stopped", "continued"}]
      BY DEF KernelOK
    <3>3. /\ proc'[h] \in [StagesOf(h) -> Alive \cup {"unborn", "zombie", "gone"}]
          /\ news'[h] \in [StagesOf(h) -> {"none", "stopped", "continued"}]
      BY <2>2, <3>1, <3>2 DEF Alive
    <3>4. KeptAt(h)
      BY <1>1, <2>2, <3>1, <3>2 DEF KeptAt, Matches, Ripples, SameRecord, InGroup, Alive
    <3> QED
      BY <3>3, <3>4
  <2> QED
    BY <2>1, <2>2
<1>5. KernelOK'
  BY <1>1, <1>2, <1>3, <1>4 DEF KernelOK, SameShape, StagesOf, Alive
<1> QED
  BY <1>3, <1>4, <1>5, AllKept, Zenon

\* A step that rewrites what is known of one pipeline leaves the others alone.
LEMMA OneReplaced ==
  ASSUME KernelOK, Matches, NEW g \in Pipe,
         DOMAIN proc' = Pipe, DOMAIN news' = Pipe, DOMAIN stage' = Pipe,
         proc'[g] \in [StagesOf(g) -> Alive \cup {"unborn", "zombie", "gone"}],
         news'[g] \in [StagesOf(g) -> {"none", "stopped", "continued"}],
         stage'[g] \in [StagesOf(g) -> Alive \cup {"unspawned", "exited"}],
         \A k \in StagesOf(g) : /\ proc'[g][k] \in InGroup <=> stage'[g][k] \in Alive
                                /\ proc'[g][k] = "gone" => stage'[g][k] = "exited"
                                /\ news'[g][k] # "none" => proc'[g][k] \in Alive,
         \A h \in Pipe \ {g} :
           proc'[h] = proc[h] /\ news'[h] = news[h] /\ stage'[h] = stage[h]
  PROVE  /\ KernelOK' /\ SameShape /\ Matches'
         /\ \A h \in Pipe \ {g} : KeptAt(h)
<1>2. ASSUME NEW h \in Pipe, h # g
      PROVE  proc'[h] = proc[h] /\ news'[h] = news[h] /\ stage'[h] = stage[h]
  BY <1>2
<1>3. \A h \in Pipe : DOMAIN proc'[h] = DOMAIN proc[h]
  BY <1>2 DEF StagesOf
<1>4. SameShape
  BY <1>3 DEF SameShape, StagesOf
<1>5. ASSUME NEW h \in Pipe
      PROVE  /\ proc'[h] \in [DOMAIN proc[h] -> Alive \cup {"unborn", "zombie", "gone"}]
             /\ news'[h] \in [DOMAIN proc[h] -> {"none", "stopped", "continued"}]
             /\ stage'[h] \in [DOMAIN proc[h] -> Alive \cup {"unspawned", "exited"}]
  BY <1>2 DEF KernelOK, StagesOf
<1>6. KernelOK'
  BY <1>3, <1>5 DEF KernelOK, StagesOf, Alive
<1>7. ASSUME NEW h \in Pipe \ {g} PROVE KeptAt(h)
  BY <1>2, UntouchedIsKept
<1>8. ASSUME NEW h \in Pipe, NEW k \in StagesOf(h)
      PROVE  /\ proc'[h][k] \in InGroup <=> stage'[h][k] \in Alive
             /\ proc'[h][k] = "gone" => stage'[h][k] = "exited"
             /\ news'[h][k] # "none" => proc'[h][k] \in Alive
  <2>1. CASE h = g
    BY <2>1, Zenon
  <2>2. CASE h # g
    BY <1>7, <2>2, KeptMatches
  <2> QED
    BY <2>1, <2>2
<1>9. Matches'
  <2> SUFFICES ASSUME NEW h \in Pipe, NEW k \in StagesOf(h)'
               PROVE  /\ proc'[h][k] \in InGroup <=> stage'[h][k] \in Alive
                      /\ proc'[h][k] = "gone" => stage'[h][k] = "exited"
                      /\ news'[h][k] # "none" => proc'[h][k] \in Alive
    BY Zenon DEF Matches, InGroup, Alive
  <2>1. k \in StagesOf(h)
    BY <1>4 DEF SameShape
  <2> QED
    BY <1>8, <2>1
<1> QED
  BY <1>4, <1>6, <1>7, <1>9, Zenon

\* Collecting a group changes what the shell sees of it in one way: the group may
\* be at its end.
Collected(g) ==
  /\ Held(proc, g)' => Held(proc, g)
  /\ HasGroup(g)' <=> HasGroup(g)
  /\ GroupRuns(g)' => GroupRuns(g)
  /\ Fresh(g)' <=> Fresh(g)
  /\ Spawned(g)' <=> Spawned(g)

LEMMA ReapCollects ==
  ASSUME KernelOK, Matches, NEW g \in Pipe, Reap(g)
  PROVE  /\ KernelOK' /\ SameShape /\ Matches' /\ Collected(g)
         /\ \A h \in Pipe \ {g} : KeptAt(h)
<1> DEFINE P == [k \in StagesOf(g) |-> IF proc[g][k] = "zombie" THEN "gone" ELSE proc[g][k]]
           W == [k \in StagesOf(g) |-> "none"]
           S == Recorded(g)
<1>1. /\ proc[g] \in [StagesOf(g) -> Alive \cup {"unborn", "zombie", "gone"}]
      /\ stage[g] \in [StagesOf(g) -> Alive \cup {"unspawned", "exited"}]
  BY DEF KernelOK
<1>2. P \in [StagesOf(g) -> Alive \cup {"unborn", "zombie", "gone"}]
  BY <1>1
<1>3. W \in [StagesOf(g) -> {"none", "stopped", "continued"}]
  OBVIOUS
<1>4. S \in [StagesOf(g) -> Alive \cup {"unspawned", "exited"}]
  BY <1>1 DEF Recorded, Alive
<1>5. /\ DOMAIN proc' = Pipe /\ DOMAIN news' = Pipe /\ DOMAIN stage' = Pipe
      /\ proc'[g] = P /\ news'[g] = W /\ stage'[g] = S
      /\ \A h \in Pipe \ {g} :
           proc'[h] = proc[h] /\ news'[h] = news[h] /\ stage'[h] = stage[h]
  BY DEF Reap, KernelOK
<1>6. \A k \in StagesOf(g) :
        /\ proc[g][k] \in InGroup <=> stage[g][k] \in Alive
        /\ proc[g][k] = "gone" => stage[g][k] = "exited"
        /\ news[g][k] # "none" => proc[g][k] \in Alive
  BY DEF Matches
<1>7. \A k \in StagesOf(g) :
        /\ P[k] = IF proc[g][k] = "zombie" THEN "gone" ELSE proc[g][k]
        /\ S[k] = IF proc[g][k] = "zombie" THEN "exited"
                  ELSE IF proc[g][k] = "stopped" /\ news[g][k] = "stopped" THEN "stopped"
                  ELSE IF news[g][k] = "continued" THEN "running"
                  ELSE stage[g][k]
        /\ W[k] = "none"
  BY DEF Recorded
<1> HIDE DEF P, S, W
<1>8. \A k \in StagesOf(g) : /\ P[k] \in InGroup <=> S[k] \in Alive
                             /\ P[k] = "gone" => S[k] = "exited"
                             /\ W[k] # "none" => P[k] \in Alive
  BY <1>6, <1>7 DEF InGroup, Alive
<1>9. /\ KernelOK' /\ SameShape /\ Matches'
      /\ \A h \in Pipe \ {g} : KeptAt(h)
  BY <1>2, <1>3, <1>4, <1>5, <1>8, OneReplaced, Zenon
<1>10. StagesOf(g)' = StagesOf(g)
  BY <1>9, Zenon DEF SameShape
<1>11. \A k \in StagesOf(g) :
         /\ P[k] \in InGroup => proc[g][k] \in InGroup
         /\ P[k] \in Alive => proc[g][k] \in Alive
         /\ P[k] # "unborn" <=> proc[g][k] # "unborn"
         /\ S[k] = "unspawned" <=> stage[g][k] = "unspawned"
  BY <1>1, <1>6, <1>7 DEF InGroup, Alive
<1>12. Collected(g)
  BY <1>5, <1>10, <1>11, Zenon
     DEF Collected, Held, HasGroup, GroupRuns, Fresh, Spawned, InGroup
<1> QED
  BY <1>9, <1>12, Zenon

\* What holds of the processes and their records in every state.
Base == KernelOK /\ ShapeOK /\ Matches

LEMMA ShapeKept ==
  ASSUME ShapeOK, SameShape
  PROVE  ShapeOK' /\ \A g \in Pipe : Stages(g)' = Stages(g)
<1>1. ASSUME NEW g \in Pipe PROVE Stages(g)' = Stages(g) /\ StagesOf(g)' = StagesOf(g)
  BY DEF SameShape, Stages
<1> QED
  BY <1>1 DEF ShapeOK

\* A step that touches no process, no record and no news.
LEMMA Untouched ==
  ASSUME Base, UNCHANGED <<proc, news, stage>>
  PROVE  Base' /\ SameShape /\ \A h \in Pipe : Steady(h)
<1>1. \A h \in Pipe : KeptAt(h)
  BY UntouchedIsKept DEF Base
<1>2. SameShape
  BY DEF SameShape, StagesOf
<1>3. KernelOK'
  BY DEF Base, KernelOK, StagesOf, Alive
<1> QED
  BY <1>1, <1>2, <1>3, AllKept, ShapeKept, KeptIsSteady, Zenon DEF Base

\* One stage is tried: it runs, or it has failed.
LEMMA SpawnAdds ==
  ASSUME Base, NEW g \in Pipe, g = cur, NEW n \in Nat, n = pos, n \in StagesOf(g),
         Progress(g, n), SpawnStage
  PROVE  /\ Base' /\ SameShape
         /\ \A h \in Pipe \ {g} : Steady(h)
         /\ Progress(g, n + 1)'
         /\ Held(proc, g) => Held(proc, g)'
         /\ (HasGroup(g) => Held(proc, g)) => (HasGroup(g)' => Held(proc, g)')
<1>1. PICK p \in {"running", "unborn"}, s \in {"running", "exited"} :
        /\ \/ proc' = [proc EXCEPT ![g][n] = "running"] /\ p = "running" /\ s = "running"
           \/ proc' = proc /\ p = "unborn" /\ s = "exited"
        /\ stage' = [stage EXCEPT ![g][n] = s]
        /\ news' = news
  BY Zenon DEF SpawnStage
<1>2. /\ stage[g][n] = "unspawned"
      /\ proc[g][n] = "unborn" /\ news[g][n] = "none"
  <2>1. stage[g][n] = "unspawned"
    BY DEF Progress
  <2> QED
    BY <2>1 DEF Base, KernelOK, Matches, InGroup, Alive
<1>3. /\ DOMAIN proc' = Pipe /\ DOMAIN news' = Pipe /\ DOMAIN stage' = Pipe
      /\ proc'[g] = [proc[g] EXCEPT ![n] = p]
      /\ stage'[g] = [stage[g] EXCEPT ![n] = s]
      /\ news'[g] = news[g]
      /\ \A h \in Pipe \ {g} :
           proc'[h] = proc[h] /\ news'[h] = news[h] /\ stage'[h] = stage[h]
  BY <1>1, <1>2 DEF Base, KernelOK
<1>4. /\ proc[g] \in [StagesOf(g) -> Alive \cup {"unborn", "zombie", "gone"}]
      /\ news[g] \in [StagesOf(g) -> {"none", "stopped", "continued"}]
      /\ stage[g] \in [StagesOf(g) -> Alive \cup {"unspawned", "exited"}]
  BY DEF Base, KernelOK
<1>5. /\ proc'[g] \in [StagesOf(g) -> Alive \cup {"unborn", "zombie", "gone"}]
      /\ news'[g] \in [StagesOf(g) -> {"none", "stopped", "continued"}]
      /\ stage'[g] \in [StagesOf(g) -> Alive \cup {"unspawned", "exited"}]
  BY <1>3, <1>4 DEF Alive
<1>6. \A k \in StagesOf(g) :
        /\ proc'[g][k] = IF k = n THEN p ELSE proc[g][k]
        /\ stage'[g][k] = IF k = n THEN s ELSE stage[g][k]
        /\ news'[g][k] = news[g][k]
  BY <1>3, <1>4
<1>7. \A k \in StagesOf(g) :
        /\ proc'[g][k] \in InGroup <=> stage'[g][k] \in Alive
        /\ proc'[g][k] = "gone" => stage'[g][k] = "exited"
        /\ news'[g][k] # "none" => proc'[g][k] \in Alive
  BY <1>1, <1>2, <1>6 DEF Base, Matches, InGroup, Alive
<1>8. /\ KernelOK' /\ SameShape /\ Matches'
      /\ \A h \in Pipe \ {g} : KeptAt(h)
  BY <1>3, <1>5, <1>7, OneReplaced, Zenon DEF Base
<1>9. Base' /\ \A h \in Pipe \ {g} : Steady(h)
  BY <1>8, ShapeKept, KeptIsSteady, Zenon DEF Base
<1>10. StagesOf(g)' = StagesOf(g)
  BY <1>8 DEF SameShape
<1>11. StagesOf(g) \subseteq Nat
  BY DEF Base, ShapeOK
<1>12. \A k \in StagesOf(g) : stage'[g][k] = "unspawned" <=> k >= n + 1
  BY <1>6, <1>11 DEF Progress
<1>13. Progress(g, n + 1)'
  BY <1>10, <1>12 DEF Progress
<1>14. \A k \in StagesOf(g) : proc[g][k] \in InGroup => proc'[g][k] \in InGroup
  BY <1>2, <1>6 DEF InGroup, Alive
<1>15. Held(proc, g) => Held(proc, g)'
  BY <1>10, <1>14, Zenon DEF Held, InGroup
<1>16. CASE p = "running"
  <2>1. proc'[g][n] \in InGroup
    BY <1>6, <1>16 DEF InGroup, Alive
  <2>2. Held(proc, g)'
    BY <1>10, <2>1, Zenon DEF Held, InGroup
  <2> QED
    BY <1>8, <1>9, <1>13, <2>2, Zenon
<1>17. CASE p = "unborn"
  <2>1. proc' = proc
    BY <1>1, <1>17
  <2>2. HasGroup(g)' => HasGroup(g)
    BY <1>10, <2>1, Zenon DEF HasGroup
  <2> QED
    BY <1>8, <1>9, <1>13, <1>15, <2>2, Zenon
<1> QED
  BY <1>16, <1>17

\* A pipeline that cannot be prepared has no process, and every stage failed.
LEMMA PrepareFails ==
  ASSUME Base, NEW g \in Pipe, Fresh(g), UNCHANGED <<proc, news>>,
         stage' = [stage EXCEPT ![g] = [k \in StagesOf(g) |-> "exited"]]
  PROVE  /\ Base' /\ SameShape
         /\ \A h \in Pipe \ {g} : Steady(h)
         /\ Spawned(g)' /\ Finished(stage, g)' /\ ~Held(proc, g)' /\ ~HasGroup(g)' /\ ~GroupRuns(g)'
<1>1. /\ DOMAIN proc' = Pipe /\ DOMAIN news' = Pipe /\ DOMAIN stage' = Pipe
      /\ stage'[g] = [k \in StagesOf(g) |-> "exited"]
      /\ proc'[g] = proc[g] /\ news'[g] = news[g]
      /\ \A h \in Pipe \ {g} :
           proc'[h] = proc[h] /\ news'[h] = news[h] /\ stage'[h] = stage[h]
  BY DEF Base, KernelOK
<1>2. \A k \in StagesOf(g) : proc[g][k] = "unborn" /\ news[g][k] = "none"
  BY DEF Base, KernelOK, Matches, Fresh, InGroup, Alive
<1>3. \A k \in StagesOf(g) : stage'[g][k] = "exited" /\ proc'[g][k] = "unborn" /\ news'[g][k] = "none"
  BY <1>1, <1>2
<1>4. /\ proc'[g] \in [StagesOf(g) -> Alive \cup {"unborn", "zombie", "gone"}]
      /\ news'[g] \in [StagesOf(g) -> {"none", "stopped", "continued"}]
      /\ stage'[g] \in [StagesOf(g) -> Alive \cup {"unspawned", "exited"}]
  BY <1>1 DEF Base, KernelOK
<1>5. \A k \in StagesOf(g) :
        /\ proc'[g][k] \in InGroup <=> stage'[g][k] \in Alive
        /\ proc'[g][k] = "gone" => stage'[g][k] = "exited"
        /\ news'[g][k] # "none" => proc'[g][k] \in Alive
  BY <1>3 DEF InGroup, Alive
<1>6. /\ KernelOK' /\ SameShape /\ Matches'
      /\ \A h \in Pipe \ {g} : KeptAt(h)
  BY <1>1, <1>4, <1>5, OneReplaced, Zenon DEF Base
<1>7. Base' /\ \A h \in Pipe \ {g} : Steady(h)
  BY <1>6, ShapeKept, KeptIsSteady, Zenon DEF Base
<1>8. \A k \in StagesOf(g) : proc'[g][k] \notin Alive \cup {"zombie"} /\ proc'[g][k] \notin Alive
                             /\ stage'[g][k] # "unspawned"
  BY <1>3 DEF Alive
<1>9. StagesOf(g)' = StagesOf(g)
  BY <1>6 DEF SameShape
<1> QED
  BY <1>3, <1>6, <1>7, <1>8, <1>9, Zenon DEF Spawned, Finished, Held, HasGroup, GroupRuns

\* A pipeline the terminal cannot be handed to is killed and collected at once.
LEMMA RefusalCollects ==
  ASSUME Base, NEW g \in Pipe, 
         proc' = [proc EXCEPT ![g] =
             [k \in StagesOf(g) |-> IF @[k] = "unborn" THEN @[k] ELSE "gone"]],
         news' = [news EXCEPT ![g] = [k \in StagesOf(g) |-> "none"]],
         stage' = [stage EXCEPT ![g] = [k \in StagesOf(g) |-> "exited"]]
  PROVE  /\ Base' /\ SameShape
         /\ \A h \in Pipe \ {g} : Steady(h)
         /\ ~Held(proc, g)' /\ ~GroupRuns(g)' /\ Spawned(g)'
<1>1. /\ DOMAIN proc' = Pipe /\ DOMAIN news' = Pipe /\ DOMAIN stage' = Pipe
      /\ proc'[g] = [k \in StagesOf(g) |-> IF proc[g][k] = "unborn" THEN "unborn" ELSE "gone"]
      /\ news'[g] = [k \in StagesOf(g) |-> "none"]
      /\ stage'[g] = [k \in StagesOf(g) |-> "exited"]
      /\ \A h \in Pipe \ {g} :
           proc'[h] = proc[h] /\ news'[h] = news[h] /\ stage'[h] = stage[h]
  BY DEF Base, KernelOK
<1>2. \A k \in StagesOf(g) : /\ stage'[g][k] = "exited" /\ news'[g][k] = "none"
                             /\ proc'[g][k] \in {"unborn", "gone"}
  BY <1>1
<1>3. /\ proc'[g] \in [StagesOf(g) -> Alive \cup {"unborn", "zombie", "gone"}]
      /\ news'[g] \in [StagesOf(g) -> {"none", "stopped", "continued"}]
      /\ stage'[g] \in [StagesOf(g) -> Alive \cup {"unspawned", "exited"}]
  BY <1>1
<1>4. \A k \in StagesOf(g) :
        /\ proc'[g][k] \in InGroup <=> stage'[g][k] \in Alive
        /\ proc'[g][k] = "gone" => stage'[g][k] = "exited"
        /\ news'[g][k] # "none" => proc'[g][k] \in Alive
  BY <1>2 DEF InGroup, Alive
<1>5. /\ KernelOK' /\ SameShape /\ Matches'
      /\ \A h \in Pipe \ {g} : KeptAt(h)
  BY <1>1, <1>3, <1>4, OneReplaced, Zenon DEF Base
<1>6. Base' /\ \A h \in Pipe \ {g} : Steady(h)
  BY <1>5, ShapeKept, KeptIsSteady, Zenon DEF Base
<1>7. \A k \in StagesOf(g) : proc'[g][k] \notin Alive \cup {"zombie"} /\ proc'[g][k] \notin Alive
                             /\ stage'[g][k] # "unspawned"
  BY <1>2 DEF Alive
<1>8. StagesOf(g)' = StagesOf(g)
  BY <1>5 DEF SameShape
<1> QED
  BY <1>5, <1>6, <1>7, <1>8, Zenon DEF Spawned, Held, GroupRuns

-----------------------------------------------------------------------------
(* The inductive invariant                                                 *)

\* The rest of what TypeOK says.
MainOK ==
  /\ tty \in Pipe \cup {None} /\ fgCell \in Pipe \cup {None} /\ cur \in Pipe \cup {None}
  /\ moved \subseteq Pipe /\ jobs \subseteq Pipe
  /\ pc \in {"idle", "check", "check_bg", "spawn", "spawn_bg", "publish",
             "publish_bg", "give", "wait", "clear", "reclaim", "settle",
             "fg", "fg_give", "fg_continue"}
  /\ pos \in Nat /\ inflight \in {0, 1}

FlagsOK ==
  jobCell \in [Pipe -> BOOLEAN] /\ fault \in BOOLEAN

LeaveOK ==
  /\ terminating \in BOOLEAN /\ found \in BOOLEAN
  /\ asked \subseteq Pipe /\ todo \subseteq Cells
  /\ lpc \in {"off", "await", "ask", "check", "kill", "recheck", "dead"}
  /\ clock \in {"grace", "kill", "over"}

TableOK == MainOK /\ FlagsOK /\ LeaveOK

LEMMA TypeParts == TypeOK <=> KernelOK /\ TableOK
BY Zenon DEF TypeOK, KernelOK, TableOK, MainOK, FlagsOK, LeaveOK

LEMMA LeaveOKStill ==
  ASSUME LeaveOK, UNCHANGED leaveVars
  PROVE  LeaveOK'
BY Zenon DEF LeaveOK, leaveVars, Cells, Fg

LEMMA MainOKStill ==
  ASSUME MainOK, UNCHANGED <<tty, fgCell, jobs, moved, mainVars>>
  PROVE  MainOK'
BY Zenon DEF MainOK, mainVars

\* The phases of a start, and those in which the main thread has a pipeline all
\* of whose stages were tried in its hands.
Starting == {"check", "check_bg", "spawn", "spawn_bg", "publish", "publish_bg"}
Handling ==
  {"give", "wait", "clear", "reclaim", "settle", "fg", "fg_give", "fg_continue"}

\* How far a pipeline in the main thread's hands has come.
InHand(g) ==
  /\ pc \in {"check", "check_bg"} => Fresh(g) /\ pos = 1
  /\ pc \in {"spawn", "spawn_bg"} => pos >= 1 /\ \A n \in Nat : n = pos => Progress(g, n)
  /\ pc \in {"publish", "publish_bg"} => \A n \in Nat : n = pos + 1 => Progress(g, n)
  /\ pc \in Handling => Spawned(g)
  /\ pc \in Starting \cup {"give"} => (HasGroup(g) => Held(proc, g))
  /\ pc \in {"clear", "reclaim", "settle"} => Finished(stage, g) \/ Stopped(stage, g)
  /\ pc \in {"reclaim", "settle"} => g \in moved

MainInv ==
  /\ pc = "idle" <=> cur = None
  /\ inflight = IF pc \in Starting THEN 1 ELSE 0
  /\ \A g \in jobs : Spawned(g)
  /\ \A g \in Pipe : g = cur => InHand(g)

\* A cell names a group that has a member, and one cell at most names a group.
CellInv ==
  /\ \A g \in Pipe : g = fgCell => Held(proc, g) /\ g \notin jobs
  /\ \A g \in Pipe : g = cur /\ g \in jobs => pc = "fg"
  /\ \A g \in Pipe : jobCell[g] =>
       /\ Held(proc, g)
       /\ g \in jobs \/ (g = cur /\ pc \in {"spawn_bg", "publish_bg"})
  /\ pc \in {"spawn_bg", "publish_bg"} => fgCell # cur
  /\ pc \in {"reclaim", "settle"} => fgCell = None

\* Unless the terminal refused, every group with a member is named by a cell, or
\* is on its way to one.
OwnInv ==
  ~fault =>
    /\ \/ fgCell = None
       \/ fgCell = cur /\ pc \in {"spawn", "publish", "give", "wait", "clear",
                                  "fg_give", "fg_continue"}
    /\ \A g \in Pipe : Held(proc, g) =>
         \/ fgCell = g
         \/ jobCell[g]
         \/ cur = g /\ pc \in {"publish", "publish_bg", "reclaim", "settle"}

\* The terminal is the shell's except around a wait.
TtyInv ==
  ~fault /\ pc \notin {"wait", "clear", "reclaim", "fg_continue"} => tty = None

\* The cells that name a group are still to be looked at.
Ahead(g) == \A c \in Cells : Names(c) = g => c \in todo

\* A group that runs in the cell it was started in: no look has missed it.
Reached(g) ==
  /\ lpc \in {"check", "recheck"} => found \/ Ahead(g)
  /\ lpc = "kill" => Ahead(g)
  /\ lpc \notin {"recheck", "dead"}

LeaveInv ==
  /\ terminating <=> lpc # "off"
  /\ ~fault /\ lpc \notin {"off", "await"} =>
       /\ inflight = 0
       /\ \A g \in Pipe \ moved : GroupRuns(g) => Reached(g)

JobInv ==
  Base /\ TableOK /\ MainInv /\ CellInv /\ OwnInv /\ TtyInv /\ LeaveInv

\* What the leaving thread has seen stays true over a step of another thread
\* that starts nothing, once the shell leaves, and gives no unmoved group another
\* cell.
LEMMA LeaveKept ==
  ASSUME LeaveInv, UNCHANGED leaveVars, fault => fault', moved \subseteq moved',
         terminating /\ inflight = 0 /\ ~fault' =>
           /\ inflight' = 0
           /\ \A g \in Pipe \ moved' : GroupRuns(g)' =>
                GroupRuns(g) /\ \A c \in Cells : Names(c)' = g => Names(c) = g
  PROVE  LeaveInv'
<1>1. UNCHANGED <<terminating, lpc, todo, found>>
  BY DEF leaveVars
<1>2. ASSUME ~fault', lpc \notin {"off", "await"}
      PROVE  inflight' = 0 /\ \A g \in Pipe \ moved' : GroupRuns(g)' => Reached(g)'
  <2>1. terminating /\ inflight = 0 /\ ~fault
    BY <1>2, Zenon DEF LeaveInv
  <2>2. ASSUME NEW g \in Pipe \ moved', GroupRuns(g)' PROVE Reached(g)'
    <3>1. GroupRuns(g) /\ g \in Pipe \ moved /\ \A c \in Cells : Names(c)' = g => Names(c) = g
      BY <1>2, <2>1, <2>2
    <3>2. Reached(g)
      BY <1>2, <2>1, <3>1, Zenon DEF LeaveInv
    <3>3. Ahead(g) => Ahead(g)'
      BY <1>1, <3>1, Zenon DEF Ahead, Cells, Fg
    <3> QED
      BY <1>1, <3>2, <3>3, Zenon DEF Reached
  <2> QED
    BY <1>2, <2>1, <2>2
<1>3. terminating' <=> lpc' # "off"
  BY <1>1, Zenon DEF LeaveInv
<1> QED
  BY <1>1, <1>2, <1>3, Zenon DEF LeaveInv

\* A step of the processes or of the leaving thread is not seen by the main one.
LEMMA QuietStep ==
  ASSUME JobInv, SameShape, \A h \in Pipe : Steady(h),
         UNCHANGED <<stage, tty, jobs, fgCell, jobCell, mainVars, moved>>, fault => fault'
  PROVE  MainInv' /\ CellInv' /\ OwnInv' /\ TtyInv'
<1>1. UNCHANGED <<stage, tty, jobs, fgCell, jobCell, pc, cur, pos, inflight, moved>>
  BY DEF mainVars
<1>2. ASSUME NEW h \in Pipe
      PROVE  /\ Held(proc, h)' <=> Held(proc, h)
             /\ HasGroup(h)' <=> HasGroup(h)
             /\ Fresh(h)' <=> Fresh(h)
             /\ Spawned(h)' <=> Spawned(h)
             /\ Finished(stage, h)' <=> Finished(stage, h)
             /\ Stopped(stage, h)' <=> Stopped(stage, h)
             /\ \A n \in Nat : Progress(h, n)' <=> Progress(h, n)
  <2>1. Stopped(stage, h)' <=> Stopped(stage, h)
    BY <1>1, Zenon DEF SameShape, Stopped
  <2> QED
    BY <2>1, Zenon DEF Steady
<1>3. jobs \subseteq Pipe
  BY DEF JobInv, TableOK, MainOK
<1>4. ASSUME NEW h \in Pipe, InHand(h) PROVE InHand(h)'
  BY <1>1, <1>2, <1>4, Zenon DEF InHand, Handling, Starting
<1>5. MainInv'
  BY <1>1, <1>2, <1>3, <1>4, Zenon DEF JobInv, MainInv, Starting
<1>6. CellInv'
  BY <1>1, <1>2, Zenon DEF JobInv, CellInv
<1>7. OwnInv'
  BY <1>1, <1>2, Zenon DEF JobInv, OwnInv
<1>8. TtyInv'
  BY <1>1, Zenon DEF JobInv, TtyInv
<1> QED
  BY <1>5, <1>6, <1>7, <1>8

-----------------------------------------------------------------------------
(* The steps of the processes, of Ctrl-C, and of the leaving thread        *)

LEMMA CellsStill ==
  ASSUME UNCHANGED <<fgCell, jobCell>>
  PROVE  \A c \in Cells : Names(c)' = Names(c)
BY DEF Names, Cells, Fg

\* A cell names a pipeline, or nothing.
LEMMA NamesPipe ==
  ASSUME TableOK, NEW c \in Cells
  PROVE  Names(c) \in Pipe \cup {None}
BY DEF TableOK, MainOK, FlagsOK, Names, Cells, Fg

LEMMA TableStill ==
  ASSUME TableOK, UNCHANGED <<tty, jobs, fgCell, jobCell, moved, fault>>,
         UNCHANGED <<mainVars, leaveVars>>
  PROVE  TableOK'
<1>1. FlagsOK'
  BY Zenon DEF FlagsOK, TableOK
<1> QED
  BY <1>1, MainOKStill, LeaveOKStill, Zenon DEF TableOK

LEMMA ProcessStep ==
  ASSUME JobInv, NEW g \in Pipe, NEW k \in StagesOf(g), Exits(g, k) \/ Stops(g, k)
  PROVE  JobInv'
<1>1. UNCHANGED <<tty, stage, jobs, fgCell, jobCell, mainVars, leaveVars, moved, fault>>
  BY Zenon DEF Exits, Stops, tableVars, histVars
<1>2. KernelOK' /\ SameShape /\ Matches' /\ \A h \in Pipe : KeptAt(h)
  BY ProcessKeeps, Zenon DEF JobInv, Base
<1>3. Base' /\ \A h \in Pipe : Steady(h)
  BY <1>2, ShapeKept, KeptIsSteady, Zenon DEF JobInv, Base
<1>4. TableOK'
  BY <1>1, TableStill, Zenon DEF JobInv
<1>5. MainInv' /\ CellInv' /\ OwnInv' /\ TtyInv'
  BY <1>1, <1>2, <1>3, QuietStep, Zenon
<1>6. inflight' = inflight /\ \A c \in Cells : Names(c)' = Names(c)
  BY <1>1, CellsStill, Zenon DEF mainVars
<1>7. LeaveInv'
  BY <1>1, <1>3, <1>6, LeaveKept DEF JobInv, Steady
<1> QED
  BY <1>3, <1>4, <1>5, <1>7, Zenon DEF JobInv

LEMMA CancelStep ==
  ASSUME JobInv, Cancel
  PROVE  JobInv'
<1>1. UNCHANGED <<tty, stage, jobs, fgCell, jobCell, mainVars, leaveVars, moved, fault>>
  BY Zenon DEF Cancel, tableVars
<1>2. PICK g \in Pipe : SignalGroup(g, "INT")
  BY DEF Cancel, JobInv, TableOK, MainOK
<1>3. KernelOK' /\ SameShape /\ Matches' /\ \A h \in Pipe : KeptAt(h)
  BY <1>1, <1>2, SignalKeeps, Zenon DEF JobInv, Base
<1>4. Base' /\ \A h \in Pipe : Steady(h)
  BY <1>3, ShapeKept, KeptIsSteady, Zenon DEF JobInv, Base
<1>5. TableOK'
  BY <1>1, TableStill, Zenon DEF JobInv
<1>6. MainInv' /\ CellInv' /\ OwnInv' /\ TtyInv'
  BY <1>1, <1>3, <1>4, QuietStep, Zenon
<1>7. inflight' = inflight /\ \A c \in Cells : Names(c)' = Names(c)
  BY <1>1, CellsStill, Zenon DEF mainVars
<1>8. LeaveInv'
  BY <1>1, <1>4, <1>7, LeaveKept DEF JobInv, Steady
<1> QED
  BY <1>4, <1>5, <1>6, <1>8, Zenon DEF JobInv

\* What a step of the leaving thread leaves alone, and what it does to processes.
LEMMA LookSteady ==
  ASSUME JobInv, NEW c \in Cells, Ask(c) \/ Kill(c) \/ Check(c)
  PROVE  Base' /\ SameShape /\ \A h \in Pipe : Steady(h)
<1>1. CASE UNCHANGED <<proc, news>>
  BY <1>1, Untouched, Zenon DEF Ask, Kill, Check, tableVars, JobInv
<1>2. CASE ~ UNCHANGED <<proc, news>>
  <2>1. PICK sig \in {"ASK", "KILL"} : Names(c) # None /\ SignalGroup(Names(c), sig)
    BY <1>2 DEF Ask, Kill, Check, kernelVars
  <2>2. PICK g \in Pipe : SignalGroup(g, sig)
    BY <2>1, NamesPipe DEF JobInv
  <2>3. stage' = stage
    BY Zenon DEF Ask, Kill, Check, tableVars
  <2>4. KernelOK' /\ SameShape /\ Matches' /\ \A h \in Pipe : KeptAt(h)
    BY <2>2, <2>3, SignalKeeps, Zenon DEF JobInv, Base
  <2> QED
    BY <2>4, ShapeKept, KeptIsSteady, Zenon DEF JobInv, Base
<1> QED
  BY <1>1, <1>2

LEMMA LookStep ==
  ASSUME JobInv, NEW c \in Cells, Ask(c) \/ Kill(c) \/ Check(c)
  PROVE  JobInv'
<1>1. UNCHANGED <<tty, stage, jobs, fgCell, jobCell, mainVars, moved, fault, terminating, lpc>>
  BY Zenon DEF Ask, Kill, Check, tableVars, histVars, kernelVars
<1>2. Base' /\ SameShape /\ \A h \in Pipe : Steady(h)
  BY LookSteady, Zenon
<1>3. todo' = todo \ {c} /\ clock' = clock
  BY Zenon DEF Ask, Kill, Check
<1>4. asked' \subseteq Pipe /\ found' \in BOOLEAN
  <2>1. asked \subseteq Pipe /\ found \in BOOLEAN
    BY DEF JobInv, TableOK, LeaveOK
  <2>2. Names(c) \in Pipe \cup {None}
    BY NamesPipe DEF JobInv
  <2> QED
    BY <2>1, <2>2 DEF Ask, Kill, Check
<1>5. TableOK'
  <2>1. MainOK' /\ FlagsOK'
    BY <1>1, MainOKStill, Zenon DEF JobInv, TableOK, FlagsOK
  <2>2. todo' \subseteq Cells
    BY <1>3 DEF JobInv, TableOK, LeaveOK
  <2>3. LeaveOK'
    BY <1>1, <1>3, <1>4, <2>2, Zenon DEF JobInv, TableOK, LeaveOK, Cells, Fg
  <2> QED
    BY <2>1, <2>3, Zenon DEF TableOK
<1>6. MainInv' /\ CellInv' /\ OwnInv' /\ TtyInv'
  BY <1>1, <1>2, QuietStep, Zenon
<1>7. inflight' = inflight /\ \A d \in Cells : Names(d)' = Names(d)
  BY <1>1, CellsStill, Zenon DEF mainVars
<1>8. ASSUME ~fault, lpc \notin {"off", "await"}, NEW g \in Pipe \ moved, GroupRuns(g)'
      PROVE  Reached(g)'
  <2>1. GroupRuns(g) /\ Reached(g)
    BY <1>2, <1>8, Zenon DEF JobInv, LeaveInv, Steady
  <2>2. CASE Ask(c)
    BY <1>1, <2>2 DEF Ask, Reached
  <2>3. CASE Kill(c)
    <3>1. Ahead(g) /\ lpc = "kill"
      BY <2>1, <2>3, Zenon DEF Reached, Kill
    <3>2. Names(c) # g
      <4> SUFFICES ASSUME Names(c) = g PROVE FALSE
        OBVIOUS
      <4>1. g # None
        BY JobAssumption
      <4>2. SignalGroup(g, "KILL")
        BY <2>1, <2>3, <4>1, Zenon DEF Kill
      <4>3. \A k \in StagesOf(g) : proc'[g][k] = Struck(g, "KILL", proc[g][k])
        BY <4>2 DEF SignalGroup, JobInv, Base, KernelOK
      <4>4. \A k \in StagesOf(g) : proc'[g][k] \notin Alive
        BY <4>3 DEF Struck, Ends, Alive
      <4>5. StagesOf(g)' = StagesOf(g)
        BY <1>2 DEF SameShape
      <4> QED
        BY <1>8, <4>4, <4>5, Zenon DEF GroupRuns, Alive
    <3>3. Ahead(g)'
      BY <1>3, <1>7, <3>1, <3>2 DEF Ahead, Cells, Fg
    <3> QED
      BY <1>1, <3>1, <3>3 DEF Reached
  <2>4. CASE Check(c)
    <3>1. found' = (found \/ (Names(c) # None /\ GroupRuns(Names(c))))
      BY <2>4 DEF Check
    <3>2. CASE Names(c) = g
      <4>1. g # None
        BY JobAssumption
      <4>2. found'
        BY <2>1, <3>1, <3>2, <4>1, Zenon
      <4> QED
        BY <1>1, <2>1, <2>4, <4>2, Zenon DEF Reached, Check
    <3>3. CASE Names(c) # g
      <4>1. Ahead(g) => Ahead(g)'
        BY <1>3, <1>7, <3>3 DEF Ahead, Cells, Fg
      <4>2. found => found'
        BY <3>1, Zenon
      <4> QED
        BY <1>1, <2>1, <2>4, <4>1, <4>2, Zenon DEF Reached, Check
    <3> QED
      BY <3>2, <3>3
  <2> QED
    BY <2>2, <2>3, <2>4
<1>9. LeaveInv'
  BY <1>1, <1>7, <1>8, Zenon DEF JobInv, LeaveInv
<1> QED
  BY <1>2, <1>5, <1>6, <1>9, Zenon DEF JobInv

\* Once starts have been waited for, a group that runs and has not changed cells
\* is named by one.
LEMMA UnmovedIsNamed ==
  ASSUME JobInv, ~fault, lpc \notin {"off", "await"}, NEW g \in Pipe \ moved, GroupRuns(g)
  PROVE  \E c \in Cells : Names(c) = g
<1>1. g # None
  BY JobAssumption
<1>2. Held(proc, g)
  BY RunsIsHeld
<1>3. \/ fgCell = g
      \/ jobCell[g]
      \/ cur = g /\ pc \in {"publish", "publish_bg", "reclaim", "settle"}
  BY <1>2, Zenon DEF JobInv, OwnInv
<1>4. CASE fgCell = g
  BY <1>4 DEF Names, Cells, Fg
<1>5. CASE jobCell[g]
  BY <1>1, <1>5 DEF Names, Cells, Fg
<1>6. CASE cur = g /\ pc \in {"publish", "publish_bg", "reclaim", "settle"}
  <2>1. inflight = 0
    BY Zenon DEF JobInv, LeaveInv
  <2>2. pc \notin Starting
    BY <2>1 DEF JobInv, MainInv
  <2>3. InHand(g)
    BY <1>6 DEF JobInv, MainInv
  <2> QED
    BY <1>6, <2>2, <2>3 DEF InHand, Starting
<1> QED
  BY <1>3, <1>4, <1>5, <1>6

LEMMA PlanStep ==
  ASSUME JobInv, Terminate \/ Tick \/ AwaitStarts \/ LookAgain \/ Decide
  PROVE  JobInv'
<1>1. /\ UNCHANGED <<proc, news, stage>>
      /\ UNCHANGED <<tty, jobs, fgCell, jobCell, mainVars, moved>>
  BY Zenon DEF Terminate, Tick, AwaitStarts, LookAgain, Decide, kernelVars, tableVars, histVars
<1>2. fault => fault'
  BY DEF Terminate, Tick, AwaitStarts, LookAgain, Decide, histVars
<1>3. Base' /\ SameShape /\ \A h \in Pipe : Steady(h)
  BY <1>1, Untouched, Zenon DEF JobInv
<1>4. MainInv' /\ CellInv' /\ OwnInv' /\ TtyInv'
  BY <1>1, <1>2, <1>3, QuietStep, Zenon
<1>5. MainOK'
  BY <1>1, MainOKStill, Zenon DEF JobInv, TableOK
<1>6. FlagsOK'
  <2>1. fault' \in BOOLEAN
    BY Zenon DEF Terminate, Tick, AwaitStarts, LookAgain, Decide, histVars, JobInv, TableOK, FlagsOK
  <2> QED
    BY <1>1, <2>1, Zenon DEF JobInv, TableOK, FlagsOK
<1>7. LeaveOK'
  <2>1. terminating' \in BOOLEAN /\ found' \in BOOLEAN
    BY Zenon DEF Terminate, Tick, AwaitStarts, LookAgain, Decide, JobInv, TableOK, LeaveOK
  <2>2. asked' \subseteq Pipe /\ todo' \subseteq Cells
    BY DEF Terminate, Tick, AwaitStarts, LookAgain, Decide, JobInv, TableOK, LeaveOK
  <2>3. /\ lpc' \in {"off", "await", "ask", "check", "kill", "recheck", "dead"}
        /\ clock' \in {"grace", "kill", "over"}
    BY DEF Terminate, Tick, AwaitStarts, LookAgain, Decide, JobInv, TableOK, LeaveOK
  <2> QED
    BY <2>1, <2>2, <2>3, Zenon DEF LeaveOK, Cells, Fg
<1>8. terminating' <=> lpc' # "off"
  BY DEF JobInv, LeaveInv, Terminate, Tick, AwaitStarts, LookAgain, Decide
<1>9. ASSUME ~fault', lpc' \notin {"off", "await"}
      PROVE  inflight' = 0 /\ \A g \in Pipe \ moved' : GroupRuns(g)' => Reached(g)'
  <2>1. inflight' = inflight /\ moved' = moved
    BY <1>1 DEF mainVars
  <2>2. CASE lpc = "await"
    BY <1>9, <2>1, <2>2 DEF Terminate, Tick, AwaitStarts, LookAgain, Decide, Reached
  <2>3. CASE lpc = "off"
    BY <1>9, <2>3 DEF Terminate, Tick, AwaitStarts, LookAgain, Decide
  <2>4. CASE lpc \notin {"off", "await"}
    <3>1. inflight = 0 /\ ~fault
      BY <1>2, <1>9, <2>4, Zenon DEF JobInv, LeaveInv
    <3>2. ASSUME NEW g \in Pipe \ moved, GroupRuns(g)' PROVE Reached(g)'
      <4>1. GroupRuns(g) /\ Reached(g)
        BY <1>3, <2>4, <3>1, <3>2, Zenon DEF JobInv, LeaveInv, Steady
      <4>2. todo = {} => ~Ahead(g)
        BY <2>4, <3>1, <4>1, UnmovedIsNamed DEF Ahead
      <4>3. todo' = Cells => Ahead(g)'
        BY DEF Ahead, Cells, Fg
      <4>4. \A c \in Cells : Names(c)' = Names(c)
        BY <1>1, CellsStill, Zenon
      <4>5. Terminate => FALSE
        BY <2>4 DEF Terminate, JobInv, LeaveInv
      <4>6. CASE Tick
        <5>1. UNCHANGED <<lpc, todo, found>>
          BY <4>6 DEF Tick
        <5>2. Ahead(g) => Ahead(g)'
          BY <4>4, <5>1, Zenon DEF Ahead, Cells, Fg
        <5> QED
          BY <4>1, <5>1, <5>2, Zenon DEF Reached
      <4>7. CASE AwaitStarts
        BY <2>4, <4>7 DEF AwaitStarts
      <4>8. CASE LookAgain
        BY <4>1, <4>2, <4>3, <4>8 DEF LookAgain, Reached
      <4>9. CASE Decide
        BY <4>1, <4>2, <4>3, <4>9 DEF Decide, Reached
      <4> QED
        BY <4>5, <4>6, <4>7, <4>8, <4>9
    <3> QED
      BY <2>1, <3>1, <3>2
  <2> QED
    BY <2>2, <2>3, <2>4
<1>10. LeaveInv'
  BY <1>8, <1>9, Zenon DEF LeaveInv
<1> QED
  BY <1>3, <1>4, <1>5, <1>6, <1>7, <1>10, Zenon DEF JobInv, TableOK

-----------------------------------------------------------------------------
(* The steps of the main thread                                            *)

LEMMA HandIsFull ==
  ASSUME JobInv, pc # "idle"
  PROVE  \E g \in Pipe : g = cur /\ InHand(g)
<1>1. cur \in Pipe
  BY DEF JobInv, MainInv, TableOK, MainOK
<1> QED
  BY <1>1, Zenon DEF JobInv, MainInv

\* What is seen of a pipeline over a step that touches no process and no record.
Same(h) == Steady(h) /\ (Stopped(stage, h)' <=> Stopped(stage, h))

LEMMA UntouchedIsSame ==
  ASSUME Base, UNCHANGED <<proc, news, stage>>
  PROVE  Base' /\ SameShape /\ \A h \in Pipe : Same(h)
<1>1. Base' /\ SameShape /\ \A h \in Pipe : Steady(h)
  BY Untouched
<1>2. ASSUME NEW h \in Pipe PROVE Stopped(stage, h)' <=> Stopped(stage, h)
  BY <1>1, Zenon DEF SameShape, Stopped
<1> QED
  BY <1>1, <1>2, Zenon DEF Same

LEMMA RunStep ==
  ASSUME JobInv, NEW g \in Pipe, Run(g)
  PROVE  JobInv'
<1>1. /\ pc = "idle" /\ pc' \in {"check", "check_bg"}
      /\ cur' = g /\ pos' = 1 /\ inflight' = inflight + 1
      /\ UNCHANGED <<tty, jobs, fgCell, moved>>
  BY Zenon DEF Run, Main, kernelVars, tableVars, histVars
<1>2. /\ ~terminating /\ Fresh(g) /\ UNCHANGED <<jobCell, fault>> /\ UNCHANGED leaveVars
  BY Zenon DEF Run, tableVars, histVars
<1>3. Base' /\ SameShape /\ \A h \in Pipe : Same(h)
  <2>1. UNCHANGED <<proc, news, stage>>
    BY Zenon DEF Run, kernelVars, tableVars
  <2> QED
    BY <2>1, UntouchedIsSame, Zenon DEF JobInv
<1>4. inflight = 0 /\ cur = None /\ g # None
  BY <1>1, JobAssumption DEF JobInv, MainInv, Starting
<1>5. g \notin jobs
  <2>1. 1 \in StagesOf(g)
    <3>1. PICK m \in Nat : m = Stages(g)
      BY Zenon DEF JobInv, Base, ShapeOK
    <3>2. m > 0 /\ StagesOf(g) = 1 .. m
      BY <3>1, Zenon DEF Run, JobInv, Base, ShapeOK
    <3> QED
      BY <3>2
  <2>2. ~Spawned(g)
    BY <1>2, <2>1, Zenon DEF Fresh, Spawned
  <2> QED
    BY <2>2, Zenon DEF JobInv, MainInv
<1>6. TableOK'
  <2>1. MainOK'
    BY <1>1, <1>4 DEF JobInv, TableOK, MainOK
  <2>2. FlagsOK'
    BY <1>2, Zenon DEF JobInv, TableOK, FlagsOK
  <2> QED
    BY <1>2, <2>1, <2>2, LeaveOKStill, Zenon DEF JobInv, TableOK
<1>7. MainInv'
  <2>1. InHand(g)'
    <3>1. ~HasGroup(g)
      BY <1>2, FreshHasNone, Zenon DEF JobInv, Base
    <3> QED
      BY <1>1, <1>2, <1>3, <3>1, Zenon DEF InHand, Handling, Starting, Same, Steady
  <2>2. \A h \in jobs' : Spawned(h)'
    BY <1>1, <1>3, Zenon DEF JobInv, MainInv, Same, Steady, TableOK, MainOK
  <2>3. inflight' = 1 /\ pc' \in Starting /\ pc' # "idle" /\ cur' # None
    BY <1>1, <1>4 DEF Starting
  <2> QED
    BY <1>1, <2>1, <2>2, <2>3, Zenon DEF MainInv, Starting
<1>8. CellInv'
  BY <1>1, <1>2, <1>3, <1>4, <1>5, Zenon DEF JobInv, CellInv, Same, Steady
<1>9. OwnInv'
  BY <1>1, <1>2, <1>3, <1>4, Zenon DEF JobInv, OwnInv, Same, Steady
<1>10. TtyInv'
  BY <1>1, <1>2, Zenon DEF JobInv, TtyInv
<1>11. LeaveInv'
  BY <1>1, <1>2, LeaveKept, Zenon DEF JobInv
<1> QED
  BY <1>3, <1>6, <1>7, <1>8, <1>9, <1>10, <1>11, Zenon DEF JobInv

LEMMA StartCheckStep ==
  ASSUME JobInv, StartCheck
  PROVE  JobInv'
<1>0. pc \in {"check", "check_bg"} /\ pc # "idle"
  BY Zenon DEF StartCheck
<1>1. PICK g \in Pipe : g = cur /\ InHand(g)
  BY <1>0, HandIsFull
<1>2. UNCHANGED <<proc, news>> /\ UNCHANGED <<tty, fgCell, moved>>
  BY Zenon DEF StartCheck, kernelVars, histVars
<1>3. UNCHANGED <<jobCell, fault>> /\ UNCHANGED leaveVars
  BY Zenon DEF StartCheck, histVars
<1>4. inflight = 1 /\ pos = 1 /\ Fresh(g) /\ g # None
  BY <1>0, <1>1, JobAssumption DEF JobInv, MainInv, Starting, InHand
<1>5. ~Held(proc, g) /\ ~HasGroup(g) /\ ~GroupRuns(g)
  BY <1>4, FreshHasNone, Zenon DEF JobInv, Base
<1>6. g \notin jobs /\ fgCell # g
  BY <1>0, <1>1, <1>5, Zenon DEF JobInv, CellInv
<1>7. ~jobCell[g]
  BY <1>5, Zenon DEF JobInv, CellInv
<1>8. \A h \in Pipe : GroupRuns(h)' => GroupRuns(h)
  BY <1>2, Zenon DEF GroupRuns, StagesOf
<1>9. \A c \in Cells : Names(c)' = Names(c)
  BY <1>2, <1>3, CellsStill, Zenon
<1>10. FlagsOK' /\ LeaveOK'
  BY <1>3, LeaveOKStill, Zenon DEF JobInv, TableOK, FlagsOK
<1>11. LeaveInv'
  <2>1. inflight # 0
    BY <1>4
  <2> QED
    BY <1>2, <1>3, <2>1, LeaveKept DEF JobInv
<1>12. TtyInv'
  BY <1>0, <1>2, <1>3, Zenon DEF JobInv, TtyInv
<1>13. CASE /\ pc' = "idle" /\ inflight' = inflight - 1 /\ pos' = 0 /\ cur' = None
            /\ UNCHANGED <<stage, jobs>>
  <2>1. Base' /\ SameShape /\ \A h \in Pipe : Same(h)
    BY <1>2, <1>13, UntouchedIsSame, Zenon DEF JobInv
  <2>2. inflight' = 0
    BY <1>4, <1>13
  <2>3. MainOK'
    BY <1>2, <1>13, <2>2 DEF JobInv, TableOK, MainOK
  <2>4. MainInv'
    BY <1>13, <2>1, <2>2, JobAssumption, Zenon
       DEF JobInv, MainInv, TableOK, MainOK, Same, Steady, Starting
  <2>5. CellInv'
    BY <1>0, <1>1, <1>2, <1>3, <1>7, <1>13, <2>1, JobAssumption, Zenon DEF JobInv, CellInv, Same, Steady
  <2>6. OwnInv'
    BY <1>0, <1>2, <1>3, <1>13, <2>1, Zenon DEF JobInv, OwnInv, Same, Steady
  <2> QED
    BY <1>10, <1>11, <1>12, <2>1, <2>3, <2>4, <2>5, <2>6, Zenon DEF JobInv, TableOK
<1>14. CASE /\ pc' = IF pc = "check" THEN "spawn" ELSE "spawn_bg"
            /\ UNCHANGED <<stage, jobs, cur, pos, inflight>>
  <2>1. Base' /\ SameShape /\ \A h \in Pipe : Same(h)
    BY <1>2, <1>14, UntouchedIsSame, Zenon DEF JobInv
  <2>2. MainOK'
    BY <1>2, <1>14 DEF JobInv, TableOK, MainOK
  <2>3. InHand(g)'
    <3>1. Progress(g, 1)
      BY <1>4 DEF JobInv, Base, ShapeOK, Fresh, Progress
    <3>2. pos' = 1 /\ pos' >= 1 /\ pc' \in {"spawn", "spawn_bg"}
      BY <1>4, <1>14
    <3>3. Progress(g, 1)' /\ ~HasGroup(g)'
      BY <1>5, <2>1, <3>1 DEF Same, Steady
    <3>4. \A n \in Nat : n = pos' => Progress(g, n)'
      BY <3>2, <3>3
    <3> QED
      BY <3>2, <3>3, <3>4, Zenon DEF InHand, Handling, Starting
  <2>4. MainInv'
    <3>1. pc' \in Starting /\ pc' # "idle" /\ inflight' = 1 /\ cur' = g
      BY <1>1, <1>4, <1>14 DEF Starting
    <3> QED
      BY <1>4, <1>14, <2>1, <2>3, <3>1, Zenon DEF JobInv, MainInv, TableOK, MainOK, Same, Steady, Starting
  <2>5. CellInv'
    BY <1>0, <1>1, <1>2, <1>3, <1>6, <1>7, <1>14, <2>1, Zenon DEF JobInv, CellInv, Same, Steady
  <2>6. OwnInv'
    BY <1>0, <1>2, <1>3, <1>14, <2>1, Zenon DEF JobInv, OwnInv, Same, Steady
  <2> QED
    BY <1>10, <1>11, <1>12, <2>1, <2>2, <2>4, <2>5, <2>6, Zenon DEF JobInv, TableOK
<1>15. CASE /\ stage' = [stage EXCEPT ![g] = [k \in StagesOf(g) |-> "exited"]]
            /\ inflight' = inflight - 1 /\ pos' = 0
            /\ \/ pc = "check" /\ pc' = "wait" /\ jobs' = jobs /\ cur' = g
               \/ pc = "check_bg" /\ pc' = "idle" /\ jobs' = jobs \cup {g} /\ cur' = None
  <2>1. /\ Base' /\ \A h \in Pipe \ {g} : Steady(h)
        /\ Spawned(g)' /\ Finished(stage, g)' /\ ~Held(proc, g)' /\ ~HasGroup(g)'
    BY <1>2, <1>4, <1>15, PrepareFails, Zenon DEF JobInv
  <2>2. inflight' = 0
    BY <1>4, <1>15
  <2>3. MainOK'
    BY <1>2, <1>15, <2>2 DEF JobInv, TableOK, MainOK
  <2>4. \A h \in Pipe : Held(proc, h)' <=> Held(proc, h)
    BY <1>5, <2>1 DEF Steady
  <2>5. \A h \in jobs' : Spawned(h)'
    BY <1>15, <2>1 DEF JobInv, MainInv, TableOK, MainOK, Steady
  <2>6. \A h \in Pipe : h = cur' => InHand(h)'
    BY <1>15, <2>1, JobAssumption, Zenon DEF InHand, Starting, Handling
  <2>7. MainInv'
    BY <1>4, <1>15, <2>2, <2>5, <2>6, Zenon DEF MainInv, Starting
  <2>8. CellInv'
    BY <1>0, <1>1, <1>2, <1>3, <1>6, <1>7, <1>15, <2>4, JobAssumption, Zenon DEF JobInv, CellInv
  <2>9. OwnInv'
    BY <1>0, <1>2, <1>3, <1>15, <2>4, Zenon DEF JobInv, OwnInv
  <2> QED
    BY <1>10, <1>11, <1>12, <2>1, <2>3, <2>7, <2>8, <2>9, Zenon DEF JobInv, TableOK
<1> QED
  <2>1. \/ /\ pc' = "idle" /\ inflight' = inflight - 1 /\ pos' = 0 /\ cur' = None
           /\ UNCHANGED <<stage, jobs>>
        \/ /\ pc' = IF pc = "check" THEN "spawn" ELSE "spawn_bg"
           /\ UNCHANGED <<stage, jobs, cur, pos, inflight>>
        \/ /\ pc' = IF pc = "check" THEN "wait" ELSE "idle"
           /\ stage' = [stage EXCEPT ![g] = [k \in StagesOf(g) |-> "exited"]]
           /\ jobs' = IF pc = "check" THEN jobs ELSE jobs \cup {g}
           /\ cur' = IF pc = "check" THEN g ELSE None
           /\ inflight' = inflight - 1 /\ pos' = 0
    BY <1>1, Zenon DEF StartCheck, Main
  <2> QED
    BY <1>0, <1>13, <1>14, <1>15, <2>1, Zenon

LEMMA SpawnStageStep ==
  ASSUME JobInv, SpawnStage
  PROVE  JobInv'
<1>0. pc \in {"spawn", "spawn_bg"} /\ pc # "idle"
  BY Zenon DEF SpawnStage
<1>1. PICK g \in Pipe : g = cur /\ InHand(g)
  BY <1>0, HandIsFull
<1>2. /\ pc' = IF pc = "spawn" THEN "publish" ELSE "publish_bg"
      /\ UNCHANGED <<tty, jobs, fgCell, cur, pos, inflight, moved>>
  BY Zenon DEF SpawnStage, Main, histVars
<1>3. UNCHANGED <<jobCell, fault>> /\ UNCHANGED leaveVars
  BY Zenon DEF SpawnStage, histVars
<1>4. inflight = 1 /\ g # None
  BY <1>0, JobAssumption DEF JobInv, MainInv, Starting
<1>5. PICK n \in Nat : n = pos
  BY DEF JobInv, TableOK, MainOK
<1>6. n \in StagesOf(g) /\ Progress(g, n)
  <2>1. n >= 1 /\ Progress(g, n)
    BY <1>0, <1>1, <1>5, Zenon DEF InHand
  <2>2. PICK m \in Nat : m = Stages(g) /\ StagesOf(g) = 1 .. m
    BY Zenon DEF JobInv, Base, ShapeOK
  <2>3. n <= m
    BY <1>1, <1>5, <2>2, Zenon DEF SpawnStage
  <2> QED
    BY <2>1, <2>2, <2>3
<1>7. /\ Base' /\ SameShape
      /\ \A h \in Pipe \ {g} : Steady(h)
      /\ Progress(g, n + 1)'
      /\ Held(proc, g) => Held(proc, g)'
      /\ (HasGroup(g) => Held(proc, g)) => (HasGroup(g)' => Held(proc, g)')
  BY <1>1, <1>5, <1>6, SpawnAdds, Zenon DEF JobInv
<1>8. HasGroup(g) => Held(proc, g)
  BY <1>0, <1>1, Zenon DEF InHand, Starting
<1>9. pc' \in {"publish", "publish_bg"} /\ pc' # "idle" /\ pc' \in Starting
  BY <1>2 DEF Starting
<1>10. TableOK'
  <2>1. MainOK'
    BY <1>2 DEF JobInv, TableOK, MainOK
  <2> QED
    BY <1>3, <2>1, LeaveOKStill, Zenon DEF JobInv, TableOK, FlagsOK
<1>11. g \notin jobs
  BY <1>0, <1>1, Zenon DEF JobInv, CellInv
<1>12. MainInv'
  <2>1. InHand(g)'
    <3>1. \A m \in Nat : m = pos' + 1 => Progress(g, m)'
      BY <1>2, <1>5, <1>7
    <3> QED
      BY <1>7, <1>8, <1>9, <3>1, Zenon DEF InHand, Handling, Starting
  <2>2. \A h \in jobs' : Spawned(h)'
    BY <1>2, <1>7, <1>11 DEF JobInv, MainInv, TableOK, MainOK, Steady
  <2> QED
    BY <1>1, <1>2, <1>4, <1>9, <2>1, <2>2, Zenon DEF MainInv, Starting
<1>13. \A h \in Pipe : Held(proc, h) => Held(proc, h)'
  BY <1>7 DEF Steady
<1>14. \A h \in Pipe \ {g} : Held(proc, h)' => Held(proc, h)
  BY <1>7, Zenon DEF Steady
<1>15. CellInv'
  BY <1>0, <1>1, <1>2, <1>3, <1>13, Zenon DEF JobInv, CellInv
<1>16. OwnInv'
  <2> SUFFICES ASSUME ~fault
               PROVE  /\ fgCell' = None \/ (fgCell' = cur' /\ pc' = "publish")
                      /\ \A h \in Pipe : Held(proc, h)' => fgCell' = h \/ jobCell'[h] \/ cur' = h
    BY <1>3, <1>9, Zenon DEF OwnInv
  <2>1. fgCell = None \/ (fgCell = cur /\ pc = "spawn")
    BY <1>0, Zenon DEF JobInv, OwnInv
  <2>2. ASSUME NEW h \in Pipe, Held(proc, h)', h # g PROVE fgCell' = h \/ jobCell'[h]
    <3>1. Held(proc, h)
      BY <1>14, <2>2
    <3> QED
      BY <1>0, <1>2, <1>3, <3>1, Zenon DEF JobInv, OwnInv
  <2> QED
    BY <1>1, <1>2, <2>1, <2>2, Zenon
<1>17. TtyInv'
  BY <1>0, <1>2, <1>3, Zenon DEF JobInv, TtyInv
<1>18. LeaveInv'
  <2>1. inflight # 0
    BY <1>4
  <2> QED
    BY <1>2, <1>3, <2>1, LeaveKept DEF JobInv
<1> QED
  BY <1>7, <1>10, <1>12, <1>15, <1>16, <1>17, <1>18, Zenon DEF JobInv

LEMMA PublishStep ==
  ASSUME JobInv, Publish
  PROVE  JobInv'
<1>0. pc \in {"publish", "publish_bg"} /\ pc # "idle"
  BY Zenon DEF Publish, Main
<1>1. PICK g \in Pipe : g = cur /\ InHand(g)
  BY <1>0, HandIsFull
<1>2. /\ pc' = IF pc = "publish" THEN "spawn" ELSE "spawn_bg"
      /\ pos' = pos + 1
      /\ UNCHANGED <<tty, jobs, cur, inflight, moved>>
  BY <1>0, Zenon DEF Publish, Main, kernelVars, histVars
<1>3. UNCHANGED fault /\ UNCHANGED leaveVars
  BY Zenon DEF Publish, histVars
<1>4. inflight = 1 /\ g # None
  BY <1>0, JobAssumption DEF JobInv, MainInv, Starting
<1>5. Base' /\ SameShape /\ \A h \in Pipe : Same(h)
  <2>1. UNCHANGED <<proc, news, stage>>
    BY Zenon DEF Publish, kernelVars
  <2> QED
    BY <2>1, UntouchedIsSame, Zenon DEF JobInv
<1>6. \A h \in Pipe : Held(proc, h) => HasGroup(h)
  BY DEF Held, HasGroup, Alive
<1>7. fgCell' = IF pc = "publish" /\ HasGroup(g) /\ fgCell = None THEN g ELSE fgCell
  BY <1>0, <1>1, Zenon DEF Publish, Main
<1>8. /\ jobCell' \in [Pipe -> BOOLEAN]
      /\ \A h \in Pipe : jobCell'[h] <=> IF pc = "publish_bg" /\ h = g THEN HasGroup(g) ELSE jobCell[h]
  <2>1. jobCell \in [Pipe -> BOOLEAN]
    BY DEF JobInv, TableOK, FlagsOK
  <2>2. CASE pc = "publish"
    BY <2>1, <2>2 DEF Publish, Main
  <2>3. CASE pc = "publish_bg"
    <3>1. jobCell' = [jobCell EXCEPT ![g] = HasGroup(g)]
      BY <1>1, <2>3, Zenon DEF Publish, Main
    <3>2. HasGroup(g) \in BOOLEAN
      BY DEF HasGroup
    <3> QED
      BY <2>1, <2>3, <3>1, <3>2, Zenon
  <2> QED
    BY <1>0, <2>2, <2>3
<1>9. HasGroup(g) => Held(proc, g)
  BY <1>0, <1>1, Zenon DEF InHand, Starting
<1>10. pc' \in {"spawn", "spawn_bg"} /\ pc' # "idle" /\ pc' \in Starting
  BY <1>2 DEF Starting
<1>11. TableOK'
  <2>1. MainOK'
    BY <1>2, <1>7 DEF JobInv, TableOK, MainOK
  <2>2. FlagsOK'
    BY <1>3, <1>8, Zenon DEF JobInv, TableOK, FlagsOK
  <2> QED
    BY <1>3, <2>1, <2>2, LeaveOKStill, Zenon DEF JobInv, TableOK
<1>12. g \notin jobs
  BY <1>0, <1>1, Zenon DEF JobInv, CellInv
<1>13. MainInv'
  <2>1. InHand(g)'
    <3>1. pos \in Nat
      BY DEF JobInv, TableOK, MainOK
    <3>2. pos' \in Nat /\ pos' >= 1 /\ pos' = pos + 1
      BY <1>2, <3>1
    <3>3. \A m \in Nat : m = pos' => Progress(g, m)'
      BY <1>0, <1>1, <1>5, <3>2, Zenon DEF InHand, Same, Steady
    <3> QED
      BY <1>5, <1>9, <1>10, <3>2, <3>3, Zenon DEF InHand, Handling, Starting, Same, Steady
  <2>2. \A h \in jobs' : Spawned(h)'
    BY <1>2, <1>5 DEF JobInv, MainInv, TableOK, MainOK, Same, Steady
  <2> QED
    BY <1>1, <1>2, <1>4, <1>10, <2>1, <2>2, Zenon DEF MainInv, Starting
<1>14. CellInv'
  <2>1. \A h \in Pipe : Held(proc, h)' <=> Held(proc, h)
    BY <1>5, Zenon DEF Same, Steady
  <2>2. \A h \in Pipe : h = fgCell' => Held(proc, h)' /\ h \notin jobs'
    BY <1>2, <1>7, <1>9, <1>12, <2>1, Zenon DEF JobInv, CellInv
  <2>3. \A h \in Pipe : jobCell'[h] => Held(proc, h)' /\ (h \in jobs' \/ (h = cur' /\ pc' = "spawn_bg"))
    BY <1>0, <1>1, <1>2, <1>8, <1>9, <2>1, Zenon DEF JobInv, CellInv
  <2>4. pc' = "spawn_bg" => fgCell' # cur'
    BY <1>0, <1>2, <1>7, Zenon DEF JobInv, CellInv
  <2> QED
    BY <1>0, <1>2, <1>10, <2>2, <2>3, <2>4, Zenon DEF JobInv, CellInv
<1>15. OwnInv'
  <2> SUFFICES ASSUME ~fault
               PROVE  /\ fgCell' = None \/ (fgCell' = cur' /\ pc' = "spawn")
                      /\ \A h \in Pipe : Held(proc, h)' => fgCell' = h \/ jobCell'[h]
    BY <1>3, <1>10, Zenon DEF OwnInv
  <2>1. fgCell = None \/ (fgCell = g /\ pc = "publish")
    BY <1>0, <1>1, Zenon DEF JobInv, OwnInv
  <2>2. ASSUME NEW h \in Pipe, Held(proc, h)' PROVE fgCell' = h \/ jobCell'[h]
    <3>1. Held(proc, h) /\ HasGroup(h)
      BY <1>5, <1>6, <2>2, Zenon DEF Same, Steady
    <3>2. fgCell = h \/ jobCell[h] \/ h = g
      BY <1>1, <3>1, Zenon DEF JobInv, OwnInv
    <3>3. h # None
      BY JobAssumption
    <3>4. CASE h = g
      BY <1>0, <1>7, <1>8, <2>1, <3>1, <3>4, Zenon
    <3>5. CASE h # g
      BY <1>7, <1>8, <3>2, <3>3, <3>5, Zenon
    <3> QED
      BY <3>4, <3>5
  <2>3. fgCell' = None \/ (fgCell' = cur' /\ pc' = "spawn")
    BY <1>1, <1>2, <1>7, <2>1, Zenon
  <2> QED
    BY <2>2, <2>3, Zenon
<1>16. TtyInv'
  BY <1>0, <1>2, <1>3, Zenon DEF JobInv, TtyInv
<1>17. LeaveInv'
  <2>1. inflight # 0
    BY <1>4
  <2> QED
    BY <1>2, <1>3, <2>1, LeaveKept DEF JobInv
<1> QED
  BY <1>5, <1>11, <1>13, <1>14, <1>15, <1>16, <1>17, Zenon DEF JobInv

LEMMA StartedStep ==
  ASSUME JobInv, Started
  PROVE  JobInv'
<1>0. pc \in {"spawn", "spawn_bg"} /\ pc # "idle"
  BY Zenon DEF Started
<1>1. PICK g \in Pipe : g = cur /\ InHand(g)
  BY <1>0, HandIsFull
<1>2. /\ inflight' = inflight - 1 /\ pos' = 0
      /\ \/ pc = "spawn" /\ pc' = "give" /\ jobs' = jobs /\ cur' = g
         \/ pc = "spawn_bg" /\ pc' = "idle" /\ jobs' = jobs \cup {g} /\ cur' = None
      /\ UNCHANGED <<tty, fgCell, moved>>
  BY <1>1, Zenon DEF Started, Main, kernelVars, histVars
<1>3. UNCHANGED <<jobCell, fault>> /\ UNCHANGED leaveVars
  BY Zenon DEF Started, histVars
<1>4. inflight = 1 /\ inflight' = 0 /\ g # None
  BY <1>0, <1>2, JobAssumption DEF JobInv, MainInv, Starting
<1>5. Base' /\ SameShape /\ \A h \in Pipe : Same(h)
  <2>1. UNCHANGED <<proc, news, stage>>
    BY Zenon DEF Started, kernelVars
  <2> QED
    BY <2>1, UntouchedIsSame, Zenon DEF JobInv
<1>6. Spawned(g)
  <2>1. PICK n \in Nat : n = pos
    BY DEF JobInv, TableOK, MainOK
  <2>2. Progress(g, n)
    BY <1>0, <1>1, <2>1, Zenon DEF InHand
  <2>3. PICK m \in Nat : m = Stages(g) /\ StagesOf(g) = 1 .. m
    BY Zenon DEF JobInv, Base, ShapeOK
  <2>4. n > m
    BY <1>1, <2>1, <2>3, Zenon DEF Started
  <2> QED
    BY <2>2, <2>3, <2>4 DEF Progress, Spawned
<1>7. HasGroup(g) => Held(proc, g)
  BY <1>0, <1>1, Zenon DEF InHand, Starting
<1>8. TableOK'
  <2>1. MainOK'
    BY <1>1, <1>2, <1>4 DEF JobInv, TableOK, MainOK
  <2> QED
    BY <1>3, <2>1, LeaveOKStill, Zenon DEF JobInv, TableOK, FlagsOK
<1>9. MainInv'
  <2>1. ASSUME NEW h \in Pipe, h = cur' PROVE InHand(h)'
    <3>1. pc' = "give" /\ h = g
      BY <1>2, <2>1, JobAssumption, Zenon
    <3> QED
      BY <1>5, <1>6, <1>7, <3>1, Zenon DEF InHand, Handling, Starting, Same, Steady
  <2>2. \A h \in jobs' : Spawned(h)'
    BY <1>2, <1>5, <1>6 DEF JobInv, MainInv, TableOK, MainOK, Same, Steady
  <2> QED
    BY <1>2, <1>4, <2>1, <2>2, Zenon DEF MainInv, Starting
<1>10. CellInv'
  <2>1. \A h \in Pipe : Held(proc, h)' <=> Held(proc, h)
    BY <1>5, Zenon DEF Same, Steady
  <2> QED
    BY <1>0, <1>1, <1>2, <1>3, <2>1, JobAssumption, Zenon DEF JobInv, CellInv
<1>11. OwnInv'
  <2>1. \A h \in Pipe : Held(proc, h)' <=> Held(proc, h)
    BY <1>5, Zenon DEF Same, Steady
  <2> QED
    BY <1>0, <1>1, <1>2, <1>3, <2>1, Zenon DEF JobInv, OwnInv
<1>12. TtyInv'
  BY <1>0, <1>2, <1>3, Zenon DEF JobInv, TtyInv
<1>13. LeaveInv'
  <2>1. inflight # 0
    BY <1>4
  <2> QED
    BY <1>2, <1>3, <2>1, LeaveKept DEF JobInv
<1> QED
  BY <1>5, <1>8, <1>9, <1>10, <1>11, <1>12, <1>13, Zenon DEF JobInv

LEMMA GiveStep ==
  ASSUME JobInv, Give
  PROVE  JobInv'
<1>0. pc = "give"
  BY Zenon DEF Give, Main
<1>1. PICK g \in Pipe : g = cur /\ InHand(g)
  BY <1>0, HandIsFull
<1>2. UNCHANGED <<jobs, pos, inflight, moved>> /\ UNCHANGED <<jobCell, leaveVars>>
  BY Zenon DEF Give
<1>3. inflight = 0 /\ g # None /\ g \notin jobs /\ Spawned(g) /\ (HasGroup(g) => Held(proc, g))
  BY <1>0, <1>1, JobAssumption DEF JobInv, MainInv, Starting, CellInv, InHand, Handling
<1>4. ~jobCell[g]
  BY <1>0, <1>3, Zenon DEF JobInv, CellInv
<1>5. CASE /\ pc' = "wait"
           /\ tty' = IF HasGroup(g) THEN g ELSE tty
           /\ fgCell' = IF HasGroup(g) THEN g ELSE fgCell
           /\ UNCHANGED <<proc, news, stage>> /\ cur' = g /\ fault' = fault
  <2>1. Base' /\ SameShape /\ \A h \in Pipe : Same(h)
    BY <1>5, UntouchedIsSame, Zenon DEF JobInv
  <2>2. TableOK'
    <3>1. cur' = g /\ pc' = "wait" /\ (tty' = g \/ tty' = tty) /\ (fgCell' = g \/ fgCell' = fgCell)
      BY <1>5, Zenon
    <3>2. MainOK'
      BY <1>2, <3>1 DEF JobInv, TableOK, MainOK
    <3> QED
      BY <1>2, <1>5, <3>2, LeaveOKStill, Zenon DEF JobInv, TableOK, FlagsOK
  <2>3. \A h \in Pipe : Held(proc, h)' <=> Held(proc, h)
    BY <2>1, Zenon DEF Same, Steady
  <2>4. MainInv'
    <3>1. InHand(g)'
      BY <1>3, <1>5, <2>1, Zenon DEF InHand, Handling, Starting, Same, Steady
    <3>2. \A h \in jobs' : Spawned(h)'
      BY <1>2, <2>1 DEF JobInv, MainInv, TableOK, MainOK, Same, Steady
    <3> QED
      BY <1>2, <1>3, <1>5, <3>1, <3>2, Zenon DEF MainInv, Starting
  <2>5. CellInv'
    BY <1>0, <1>1, <1>2, <1>3, <1>4, <1>5, <2>3, Zenon DEF JobInv, CellInv
  <2>6. OwnInv'
    <3>1. \A h \in Pipe : Held(proc, h) => HasGroup(h)
      BY DEF Held, HasGroup, Alive
    <3> SUFFICES ASSUME ~fault
                 PROVE  /\ fgCell' = None \/ fgCell' = g
                        /\ \A h \in Pipe : Held(proc, h)' => fgCell' = h \/ jobCell'[h]
      BY <1>5, Zenon DEF OwnInv
    <3>2. fgCell = None \/ fgCell = g
      BY <1>1, Zenon DEF JobInv, OwnInv
    <3>3. ASSUME NEW h \in Pipe, Held(proc, h)' PROVE fgCell' = h \/ jobCell'[h]
      <4>1. Held(proc, h) /\ HasGroup(h) /\ h # None
        BY <2>3, <3>1, <3>3, JobAssumption
      <4>2. fgCell = h \/ jobCell[h]
        BY <1>0, <4>1, Zenon DEF JobInv, OwnInv
      <4> QED
        BY <1>2, <1>5, <3>2, <4>1, <4>2, Zenon
    <3>4. fgCell' = None \/ fgCell' = g
      BY <1>5, <3>2, Zenon
    <3> QED
      BY <3>3, <3>4
  <2>7. TtyInv'
    BY <1>5, Zenon DEF TtyInv
  <2>8. LeaveInv'
    <3>1. ASSUME ~fault', NEW h \in Pipe \ moved', GroupRuns(h)'
          PROVE  GroupRuns(h) /\ \A c \in Cells : Names(c)' = h => Names(c) = h
      <4>1. GroupRuns(h)
        BY <2>1, <3>1, Zenon DEF Same, Steady
      <4>2. Held(proc, h) /\ HasGroup(h) /\ h # None
        BY <3>1, <4>1, RunsIsHeld, JobAssumption
      <4>3. fgCell' = h => fgCell = h
        BY <1>0, <1>4, <1>5, <3>1, <4>2, Zenon DEF JobInv, OwnInv
      <4>4. ASSUME NEW c \in Cells, Names(c)' = h PROVE Names(c) = h
        BY <1>2, <4>3, <4>4, Zenon DEF Names
      <4> QED
        BY <4>1, <4>4
    <3>2. fault => fault'
      BY <1>5, Zenon
    <3> QED
      BY <1>2, <1>3, <3>1, <3>2, LeaveKept DEF JobInv
  <2> QED
    BY <2>1, <2>2, <2>4, <2>5, <2>6, <2>7, <2>8, Zenon DEF JobInv
<1>6. CASE /\ pc' = "idle"
           /\ proc' = [proc EXCEPT ![g] =
                [k \in StagesOf(g) |-> IF @[k] = "unborn" THEN @[k] ELSE "gone"]]
           /\ news' = [news EXCEPT ![g] = [k \in StagesOf(g) |-> "none"]]
           /\ stage' = [stage EXCEPT ![g] = [k \in StagesOf(g) |-> "exited"]]
           /\ fgCell' = None /\ cur' = None /\ fault' = TRUE
           /\ UNCHANGED tty
  <2>1. /\ Base' /\ SameShape
        /\ \A h \in Pipe \ {g} : Steady(h)
        /\ ~Held(proc, g)' /\ ~GroupRuns(g)' /\ Spawned(g)'
    BY <1>6, RefusalCollects, Zenon DEF JobInv
  <2>2. TableOK'
    <3>1. cur' = None /\ fgCell' = None /\ tty' = tty /\ pc' = "idle"
      BY <1>6, Zenon
    <3>2. MainOK'
      BY <1>2, <3>1 DEF JobInv, TableOK, MainOK
    <3>3. fault' \in BOOLEAN
      BY <1>6, Zenon
    <3> QED
      BY <1>2, <3>2, <3>3, LeaveOKStill, Zenon DEF JobInv, TableOK, FlagsOK
  <2>3. MainInv'
    <3>1. \A h \in jobs' : Spawned(h)'
      BY <1>2, <2>1 DEF JobInv, MainInv, TableOK, MainOK, Steady
    <3> QED
      BY <1>2, <1>3, <1>6, <3>1, JobAssumption, Zenon DEF MainInv, Starting
  <2>4. CellInv'
    <3>1. \A h \in Pipe : jobCell[h] => Held(proc, h)' /\ h \in jobs
      <4>1. \A h \in Pipe : jobCell[h] => Held(proc, h) /\ h \in jobs
        BY <1>0, Zenon DEF JobInv, CellInv
      <4> QED
        BY <1>4, <2>1, <4>1 DEF Steady
    <3> QED
      BY <1>2, <1>6, <3>1, JobAssumption, Zenon DEF CellInv
  <2>5. OwnInv' /\ TtyInv' /\ LeaveInv'
    <3>1. UNCHANGED <<terminating, lpc>>
      BY <1>2 DEF leaveVars
    <3> QED
      BY <1>6, <3>1, Zenon DEF JobInv, OwnInv, TtyInv, LeaveInv
  <2> QED
    BY <2>1, <2>2, <2>3, <2>4, <2>5, Zenon DEF JobInv
<1> QED
  BY <1>1, <1>5, <1>6, Zenon DEF Give, Main

LEMMA WaitForegroundStep ==
  ASSUME JobInv, WaitForeground
  PROVE  JobInv'
<1>0. pc = "wait" /\ pc' = "wait"
  BY Zenon DEF WaitForeground, Main
<1>1. PICK g \in Pipe : g = cur /\ InHand(g)
  BY <1>0, HandIsFull
<1>2. UNCHANGED <<tty, jobs, cur, pos, inflight, moved>>
  BY Zenon DEF WaitForeground, histVars
<1>3. UNCHANGED <<jobCell, fault>> /\ UNCHANGED leaveVars
  BY Zenon DEF WaitForeground, histVars
<1>4. inflight = 0 /\ g # None /\ g \notin jobs /\ Spawned(g)
  BY <1>0, <1>1, JobAssumption DEF JobInv, MainInv, Starting, CellInv, InHand, Handling
<1>5. ~jobCell[g]
  BY <1>0, <1>4, Zenon DEF JobInv, CellInv
<1>6. /\ KernelOK' /\ SameShape /\ Matches' /\ Collected(g)
      /\ \A h \in Pipe \ {g} : KeptAt(h)
  BY <1>1, ReapCollects, Zenon DEF WaitForeground, JobInv, Base
<1>7. Base' /\ \A h \in Pipe \ {g} : Steady(h)
  BY <1>6, ShapeKept, KeptIsSteady, Zenon DEF JobInv, Base
<1>8. Spawned(g)' /\ (Held(proc, g)' => Held(proc, g)) /\ (GroupRuns(g)' => GroupRuns(g))
  BY <1>4, <1>6, Zenon DEF Collected
<1>9. Held(proc, g)' <=> ~Finished(stage, g)'
  <2>1. \A k \in StagesOf(g)' : proc'[g][k] \in InGroup <=> stage'[g][k] # "exited"
    BY <1>6, <1>8 DEF KernelOK, Matches, Spawned, InGroup, Alive
  <2> QED
    BY <2>1, Zenon DEF Held, Finished, InGroup
<1>10. fgCell' = IF Finished(stage, g)' /\ fgCell = g THEN None ELSE fgCell
  <2>1. fgCell' = IF Finished(stage', cur) /\ fgCell = cur THEN None ELSE fgCell
    BY DEF WaitForeground
  <2>2. Finished(stage', cur) <=> Finished(stage, g)'
    BY <1>1, <1>6, Zenon DEF Finished, SameShape
  <2> QED
    BY <1>1, <2>1, <2>2, Zenon
<1>11. TableOK'
  <2>1. fgCell' = None \/ fgCell' = fgCell
    BY <1>10, Zenon
  <2>2. MainOK'
    BY <1>0, <1>2, <2>1 DEF JobInv, TableOK, MainOK
  <2> QED
    BY <1>3, <2>2, LeaveOKStill, Zenon DEF JobInv, TableOK, FlagsOK
<1>12. MainInv'
  <2>1. InHand(g)'
    BY <1>0, <1>8, Zenon DEF InHand, Handling, Starting
  <2>2. \A h \in jobs' : Spawned(h)'
    BY <1>2, <1>7, <1>4 DEF JobInv, MainInv, TableOK, MainOK, Steady
  <2> QED
    BY <1>0, <1>1, <1>2, <1>4, <2>1, <2>2, Zenon DEF MainInv, Starting
<1>13. \A h \in Pipe : h # g => (Held(proc, h)' <=> Held(proc, h))
  BY <1>7 DEF Steady
<1>14. CellInv'
  BY <1>0, <1>1, <1>2, <1>3, <1>4, <1>5, <1>9, <1>10, <1>13, JobAssumption, Zenon DEF JobInv, CellInv
<1>15. OwnInv'
  BY <1>0, <1>1, <1>2, <1>3, <1>8, <1>9, <1>10, <1>13, JobAssumption, Zenon DEF JobInv, OwnInv
<1>16. TtyInv'
  BY <1>0, Zenon DEF TtyInv
<1>17. LeaveInv'
  <2>1. \A h \in Pipe : GroupRuns(h)' => GroupRuns(h)
    BY <1>7, <1>8 DEF Steady
  <2>2. ASSUME NEW c \in Cells, NEW h \in Pipe, Names(c)' = h PROVE Names(c) = h
    <3>1. h # None
      BY JobAssumption
    <3> QED
      BY <1>3, <1>10, <2>2, <3>1, Zenon DEF Names
  <2> QED
    BY <1>2, <1>3, <2>1, <2>2, LeaveKept DEF JobInv
<1> QED
  BY <1>7, <1>11, <1>12, <1>14, <1>15, <1>16, <1>17, Zenon DEF JobInv

\* The steps between a wait and the prompt that only look at the records.
LEMMA SettlingStep ==
  ASSUME JobInv, WaitOver \/ ClearForeground \/ Reclaim
  PROVE  JobInv'
<1>0. pc \in {"wait", "clear", "reclaim"} /\ pc # "idle"
  BY Zenon DEF WaitOver, ClearForeground, Reclaim, Main
<1>1. PICK g \in Pipe : g = cur /\ InHand(g)
  BY <1>0, HandIsFull
<1>2. UNCHANGED <<jobs, pos, inflight>> /\ UNCHANGED <<jobCell, leaveVars>>
  BY Zenon DEF WaitOver, ClearForeground, Reclaim, tableVars
<1>3. inflight = 0 /\ g # None /\ g \notin jobs /\ Spawned(g)
  BY <1>0, <1>1, JobAssumption DEF JobInv, MainInv, Starting, CellInv, InHand, Handling
<1>4. Base' /\ SameShape /\ \A h \in Pipe : Same(h)
  <2>1. UNCHANGED <<proc, news, stage>>
    BY Zenon DEF WaitOver, ClearForeground, Reclaim, kernelVars, tableVars
  <2> QED
    BY <2>1, UntouchedIsSame, Zenon DEF JobInv
<1>5. \A h \in Pipe : Held(proc, h)' <=> Held(proc, h)
  BY <1>4, Zenon DEF Same, Steady
<1>6. \/ /\ pc = "wait" /\ pc' = "clear" /\ UNCHANGED <<tty, fgCell, moved, fault>> /\ cur' = g
         /\ Finished(stage, g) \/ Stopped(stage, g)
      \/ /\ pc = "clear" /\ pc' = "reclaim" /\ fgCell' = None /\ moved' = moved \cup {g}
         /\ UNCHANGED <<tty, fault>> /\ cur' = g
      \/ /\ pc = "reclaim" /\ pc' = "settle" /\ tty' = None /\ cur' = g
         /\ UNCHANGED <<fgCell, moved, fault>>
      \/ /\ pc = "reclaim" /\ pc' = "idle" /\ cur' = None /\ fault' = TRUE
         /\ UNCHANGED <<tty, fgCell, moved>>
  BY <1>1, Zenon DEF WaitOver, ClearForeground, Reclaim, Main, kernelVars, tableVars, histVars
<1>7. TableOK'
  <2>1. /\ pc' \in {"clear", "reclaim", "settle", "idle"}
        /\ tty' \in {tty, None} /\ fgCell' \in {fgCell, None} /\ moved' \in {moved, moved \cup {g}}
        /\ cur' \in {g, None}
    BY <1>6, Zenon
  <2>2. MainOK'
    BY <1>1, <1>2, <2>1 DEF JobInv, TableOK, MainOK
  <2>3. fault' \in BOOLEAN
    BY <1>6, Zenon DEF JobInv, TableOK, FlagsOK
  <2> QED
    BY <1>2, <2>2, <2>3, LeaveOKStill, Zenon DEF JobInv, TableOK, FlagsOK
<1>8. MainInv'
  <2>1. ASSUME NEW h \in Pipe, h = cur' PROVE InHand(h)'
    <3>1. h = g /\ pc' \in {"clear", "reclaim", "settle"}
      BY <1>6, <2>1, JobAssumption, Zenon
    <3>2. Spawned(g)' /\ (Finished(stage, g)' \/ Stopped(stage, g)')
      BY <1>1, <1>3, <1>4, <1>6, Zenon DEF Same, Steady, InHand
    <3>3. pc' \in {"reclaim", "settle"} => g \in moved'
      <4>1. pc = "reclaim" => g \in moved
        BY <1>1, Zenon DEF InHand
      <4>2. pc = "clear" \/ pc = "reclaim" => g \in moved'
        BY <1>6, <4>1, Zenon
      <4> QED
        BY <1>6, <4>2, Zenon
    <3> QED
      BY <3>1, <3>2, <3>3, Zenon DEF InHand, Handling, Starting
  <2>2. \A h \in jobs' : Spawned(h)'
    BY <1>2, <1>4 DEF JobInv, MainInv, TableOK, MainOK, Same, Steady
  <2> QED
    BY <1>2, <1>3, <1>6, <2>1, <2>2, Zenon DEF MainInv, Starting
<1>9. CellInv'
  <2>1. pc' \in {"reclaim", "settle"} => fgCell' = None
    BY <1>6, Zenon DEF JobInv, CellInv
  <2>2. fgCell' \in {fgCell, None} /\ cur' \in {g, None} /\ pc' \notin {"spawn_bg", "publish_bg"}
    BY <1>6, Zenon
  <2> QED
    BY <1>0, <1>1, <1>2, <1>3, <1>5, <2>1, <2>2, JobAssumption, Zenon DEF JobInv, CellInv
<1>10. OwnInv'
  <2> SUFFICES ASSUME ~fault'
               PROVE  /\ fgCell' = None \/ (fgCell' = g /\ pc' = "clear" /\ cur' = g)
                      /\ \A h \in Pipe : Held(proc, h)' =>
                           \/ fgCell' = h
                           \/ jobCell'[h]
                           \/ cur' = h /\ pc' \in {"reclaim", "settle"}
    BY Zenon DEF OwnInv
  <2>1. ~fault
    BY <1>6, Zenon
  <2>2. fgCell = None \/ (fgCell = g /\ pc \in {"wait", "clear"})
    BY <1>0, <1>1, <2>1, Zenon DEF JobInv, OwnInv
  <2>3. ASSUME NEW h \in Pipe, Held(proc, h)' 
        PROVE  fgCell' = h \/ jobCell'[h] \/ (cur' = h /\ pc' \in {"reclaim", "settle"})
    <3>1. fgCell = h \/ jobCell[h] \/ (g = h /\ pc = "reclaim")
      BY <1>0, <1>1, <1>5, <2>1, <2>3, Zenon DEF JobInv, OwnInv
    <3>2. h # None
      BY JobAssumption
    <3>3. CASE jobCell[h]
      BY <1>2, <3>3, Zenon
    <3>4. CASE g = h /\ pc = "reclaim"
      BY <1>6, <3>4, Zenon
    <3>5. CASE fgCell = h
      <4>1. h = g /\ pc \in {"wait", "clear"}
        BY <2>2, <3>2, <3>5, Zenon
      <4> QED
        BY <1>6, <3>5, <4>1, Zenon
    <3> QED
      BY <3>1, <3>3, <3>4, <3>5
  <2> QED
    BY <1>6, <2>2, <2>3, Zenon
<1>11. TtyInv'
  BY <1>6, Zenon DEF TtyInv
<1>12. LeaveInv'
  <2>1. (fault => fault') /\ moved \subseteq moved'
    BY <1>6
  <2>2. \A h \in Pipe : GroupRuns(h)' => GroupRuns(h)
    BY <1>4, Zenon DEF Same, Steady
  <2>3. ASSUME NEW c \in Cells, NEW h \in Pipe, Names(c)' = h PROVE Names(c) = h
    <3>1. h # None /\ fgCell' \in {fgCell, None}
      BY <1>6, JobAssumption
    <3> QED
      BY <1>2, <2>3, <3>1, Zenon DEF Names
  <2> QED
    BY <1>2, <2>1, <2>2, <2>3, LeaveKept DEF JobInv
<1> QED
  BY <1>4, <1>7, <1>8, <1>9, <1>10, <1>11, <1>12, Zenon DEF JobInv

\* A stage recorded as stopped has a process that was not collected.
LEMMA StoppedIsHeld ==
  ASSUME Base, NEW g \in Pipe, Stopped(stage, g)
  PROVE  Held(proc, g)
<1>1. PICK k \in StagesOf(g) : stage[g][k] = "stopped"
  BY Zenon DEF Stopped
<1>2. proc[g][k] \in InGroup
  BY <1>1 DEF Base, Matches, Alive
<1> QED
  BY <1>2, Zenon DEF Held, InGroup

LEMMA SettleStep ==
  ASSUME JobInv, Settle
  PROVE  JobInv'
<1>0. pc = "settle" /\ pc' = "idle" /\ cur' = None
  BY Zenon DEF Settle, Main
<1>1. PICK g \in Pipe : g = cur /\ InHand(g)
  BY <1>0, HandIsFull
<1>2. /\ UNCHANGED <<tty, fgCell, pos, inflight, moved>> /\ UNCHANGED <<fault, leaveVars>>
  BY Zenon DEF Settle, kernelVars, histVars
<1>3. /\ inflight = 0 /\ g # None /\ Spawned(g) /\ fgCell = None
      /\ Finished(stage, g) \/ Stopped(stage, g)
      /\ g \in moved
  BY <1>0, <1>1, JobAssumption DEF JobInv, MainInv, Starting, CellInv, InHand, Handling
<1>4. Base' /\ SameShape /\ \A h \in Pipe : Same(h)
  <2>1. UNCHANGED <<proc, news, stage>>
    BY Zenon DEF Settle, kernelVars
  <2> QED
    BY <2>1, UntouchedIsSame, Zenon DEF JobInv
<1>5. \A h \in Pipe : Held(proc, h)' <=> Held(proc, h)
  BY <1>4, Zenon DEF Same, Steady
<1>6. jobs' = IF Stopped(stage, g) THEN jobs \cup {g} ELSE jobs
  BY <1>1, Zenon DEF Settle
<1>7. /\ jobCell' \in [Pipe -> BOOLEAN]
      /\ \A h \in Pipe : jobCell'[h] <=> (Stopped(stage, g) /\ h = g) \/ jobCell[h]
  <2>1. jobCell \in [Pipe -> BOOLEAN]
    BY DEF JobInv, TableOK, FlagsOK
  <2>2. CASE Stopped(stage, g)
    <3>1. jobCell' = [jobCell EXCEPT ![g] = TRUE]
      BY <1>1, <2>2, Zenon DEF Settle
    <3> QED
      BY <2>1, <2>2, <3>1, Zenon
  <2>3. CASE ~Stopped(stage, g)
    BY <1>1, <2>1, <2>3, Zenon DEF Settle
  <2> QED
    BY <2>2, <2>3
<1>8. Held(proc, g) <=> Stopped(stage, g)
  BY <1>3, StoppedIsHeld, HeldUnlessFinished, Zenon DEF JobInv, Base
<1>9. TableOK'
  <2>1. jobs' \in {jobs, jobs \cup {g}}
    BY <1>6, Zenon
  <2>2. MainOK'
    BY <1>0, <1>2, <2>1 DEF JobInv, TableOK, MainOK
  <2> QED
    BY <1>2, <1>7, <2>2, LeaveOKStill, Zenon DEF JobInv, TableOK, FlagsOK
<1>10. MainInv'
  <2>1. \A h \in jobs' : Spawned(h)'
    BY <1>3, <1>4, <1>6, Zenon DEF JobInv, MainInv, TableOK, MainOK, Same, Steady
  <2> QED
    BY <1>0, <1>2, <1>3, <2>1, JobAssumption, Zenon DEF MainInv, Starting
<1>11. CellInv'
  <2>1. \A h \in Pipe : jobCell'[h] => Held(proc, h)' /\ h \in jobs'
    <3>1. \A h \in Pipe : jobCell[h] => Held(proc, h) /\ h \in jobs
      BY <1>0, Zenon DEF JobInv, CellInv
    <3> QED
      BY <1>5, <1>6, <1>7, <1>8, <3>1, Zenon
  <2> QED
    BY <1>0, <1>2, <1>3, <2>1, JobAssumption, Zenon DEF CellInv
<1>12. OwnInv'
  <2> SUFFICES ASSUME ~fault, NEW h \in Pipe, Held(proc, h)' PROVE jobCell'[h]
    BY <1>2, <1>3, Zenon DEF OwnInv
  <2>1. Held(proc, h) /\ h # None
    BY <1>5, JobAssumption
  <2>2. jobCell[h] \/ h = g
    BY <1>1, <1>3, <2>1, Zenon DEF JobInv, OwnInv
  <2> QED
    BY <1>7, <1>8, <2>1, <2>2, Zenon
<1>13. TtyInv'
  BY <1>0, <1>2, Zenon DEF JobInv, TtyInv
<1>14. LeaveInv'
  <2>1. \A h \in Pipe : GroupRuns(h)' => GroupRuns(h)
    BY <1>4, Zenon DEF Same, Steady
  <2>2. ASSUME NEW c \in Cells, NEW h \in Pipe \ moved', Names(c)' = h PROVE Names(c) = h
    <3>1. h # None /\ h # g
      BY <1>2, <1>3, JobAssumption
    <3>2. CASE c = Fg
      BY <1>2, <2>2, <3>2, Zenon DEF Names
    <3>3. CASE c # Fg
      <4>1. c \in Pipe /\ jobCell'[c] /\ c = h
        BY <2>2, <3>1, <3>3, Zenon DEF Names, Cells, Fg
      <4>2. jobCell[c]
        BY <1>7, <3>1, <4>1, Zenon
      <4> QED
        BY <3>3, <4>1, <4>2, Zenon DEF Names
    <3> QED
      BY <3>2, <3>3
  <2> QED
    BY <1>2, <2>1, <2>2, LeaveKept DEF JobInv
<1> QED
  BY <1>4, <1>9, <1>10, <1>11, <1>12, <1>13, <1>14, Zenon DEF JobInv

\* poll and wait: a job is collected, and its cell cleared with its last member.
LEMMA ReapJobStep ==
  ASSUME JobInv, NEW g \in Pipe, PollJob(g) \/ WaitJob(g)
  PROVE  JobInv'
<1>0. pc = "idle" /\ pc' = "idle" /\ g \in jobs
  BY Zenon DEF PollJob, WaitJob, Idle, Main
<1>1. UNCHANGED <<tty, fgCell, cur, pos, inflight, moved>> /\ UNCHANGED <<fault, leaveVars>>
  BY Zenon DEF PollJob, WaitJob, histVars
<1>2. ReapJob(g)
  BY Zenon DEF PollJob, WaitJob
<1>3. inflight = 0 /\ cur = None /\ Spawned(g) /\ g # fgCell
  BY <1>0 DEF JobInv, MainInv, Starting, CellInv
<1>4. /\ KernelOK' /\ SameShape /\ Matches' /\ Collected(g)
      /\ \A h \in Pipe \ {g} : KeptAt(h)
  BY <1>2, ReapCollects, Zenon DEF ReapJob, JobInv, Base
<1>5. Base' /\ \A h \in Pipe \ {g} : Steady(h)
  BY <1>4, ShapeKept, KeptIsSteady, Zenon DEF JobInv, Base
<1>6. Spawned(g)' /\ (Held(proc, g)' => Held(proc, g)) /\ (GroupRuns(g)' => GroupRuns(g))
  BY <1>3, <1>4, Zenon DEF Collected
<1>7. Held(proc, g)' <=> ~Finished(stage, g)'
  <2>1. \A k \in StagesOf(g)' : proc'[g][k] \in InGroup <=> stage'[g][k] # "exited"
    BY <1>4, <1>6 DEF KernelOK, Matches, Spawned, InGroup, Alive
  <2> QED
    BY <2>1, Zenon DEF Held, Finished, InGroup
<1>8. Finished(stage', g) <=> Finished(stage, g)'
  BY <1>4, Zenon DEF Finished, SameShape
<1>9. /\ jobCell' \in [Pipe -> BOOLEAN]
      /\ \A h \in Pipe : jobCell'[h] <=> jobCell[h] /\ (h = g => Held(proc, g)')
  <2>1. jobCell \in [Pipe -> BOOLEAN]
    BY DEF JobInv, TableOK, FlagsOK
  <2>2. jobCell' = [jobCell EXCEPT ![g] = jobCell[g] /\ ~Finished(stage', g)]
    BY <1>2 DEF ReapJob
  <2>3. (jobCell[g] /\ ~Finished(stage', g)) \in BOOLEAN
    BY Zenon
  <2> QED
    BY <1>7, <1>8, <2>1, <2>2, <2>3, Zenon
<1>10. jobs' = jobs \/ (jobs' = jobs \ {g} /\ ~Held(proc, g)')
  BY <1>7, <1>8, Zenon DEF PollJob, WaitJob
<1>11. \A h \in Pipe : h # g => (Held(proc, h)' <=> Held(proc, h))
  BY <1>5 DEF Steady
<1>12. TableOK'
  <2>1. jobs' \subseteq jobs
    BY <1>10
  <2>2. MainOK'
    BY <1>0, <1>1, <2>1 DEF JobInv, TableOK, MainOK
  <2> QED
    BY <1>1, <1>9, <2>2, LeaveOKStill, Zenon DEF JobInv, TableOK, FlagsOK
<1>13. MainInv'
  <2>1. \A h \in jobs : Spawned(h)'
    BY <1>5, <1>6 DEF JobInv, MainInv, TableOK, MainOK, Steady
  <2>2. \A h \in jobs' : Spawned(h)'
    BY <1>10, <2>1
  <2> QED
    BY <1>0, <1>1, <1>3, <2>2, JobAssumption, Zenon DEF MainInv, Starting
<1>14. CellInv'
  <2>1. \A h \in Pipe : h = fgCell' => Held(proc, h)' /\ h \notin jobs'
    BY <1>1, <1>3, <1>10, <1>11 DEF JobInv, CellInv
  <2>2. \A h \in Pipe : jobCell'[h] => Held(proc, h)' /\ h \in jobs'
    <3>1. \A h \in Pipe : jobCell[h] => Held(proc, h) /\ h \in jobs
      BY <1>0, Zenon DEF JobInv, CellInv
    <3>2. \A h \in Pipe : h # g /\ h \in jobs => h \in jobs'
      BY <1>10
    <3>3. Held(proc, g)' => g \in jobs'
      BY <1>0, <1>10, Zenon
    <3> QED
      BY <1>9, <1>11, <3>1, <3>2, <3>3, Zenon
  <2> QED
    BY <1>0, <1>1, <1>3, <2>1, <2>2, JobAssumption, Zenon DEF CellInv
<1>15. OwnInv'
  <2> SUFFICES ASSUME ~fault
               PROVE  fgCell' = None /\ \A h \in Pipe : Held(proc, h)' => jobCell'[h]
    BY <1>1, Zenon DEF OwnInv
  <2>1. fgCell = None
    BY <1>0, Zenon DEF JobInv, OwnInv
  <2>2. ASSUME NEW h \in Pipe, Held(proc, h)' PROVE jobCell'[h]
    <3>1. Held(proc, h) /\ h # None
      BY <1>6, <1>11, <2>2, JobAssumption
    <3>2. jobCell[h]
      BY <1>0, <2>1, <3>1, Zenon DEF JobInv, OwnInv
    <3> QED
      BY <1>9, <2>2, <3>2, Zenon
  <2> QED
    BY <1>1, <2>1, <2>2, Zenon
<1>16. TtyInv'
  BY <1>0, <1>1, Zenon DEF JobInv, TtyInv
<1>17. LeaveInv'
  <2>1. \A h \in Pipe : GroupRuns(h)' => GroupRuns(h)
    BY <1>5, <1>6 DEF Steady
  <2>2. ASSUME NEW c \in Cells, NEW h \in Pipe, Names(c)' = h PROVE Names(c) = h
    <3>1. h # None
      BY JobAssumption
    <3>2. CASE c = Fg
      BY <1>1, <2>2, <3>2, Zenon DEF Names
    <3>3. CASE c # Fg
      <4>1. c \in Pipe /\ jobCell'[c] /\ c = h
        BY <2>2, <3>1, <3>3, Zenon DEF Names, Cells, Fg
      <4>2. jobCell[c]
        BY <1>9, <4>1, Zenon
      <4> QED
        BY <3>3, <4>1, <4>2, Zenon DEF Names
    <3> QED
      BY <3>2, <3>3
  <2> QED
    BY <1>1, <2>1, <2>2, LeaveKept DEF JobInv
<1> QED
  BY <1>5, <1>12, <1>13, <1>14, <1>15, <1>16, <1>17, Zenon DEF JobInv

\* kill and bg: a job is signalled while the shell is not leaving.
LEMMA SignalJobStep ==
  ASSUME JobInv, NEW g \in Pipe,
         Background(g) \/ \E sig \in {"INT", "CONT", "KILL"} : SignalJob(g, sig)
  PROVE  JobInv'
<1>0. pc = "idle" /\ pc' = "idle"
  BY Zenon DEF Background, SignalJob, Idle, Main
<1>1. /\ UNCHANGED <<tty, jobs, fgCell, cur, pos, inflight, moved>>
      /\ UNCHANGED <<jobCell, fault, leaveVars>>
  BY Zenon DEF Background, SignalJob
<1>2. PICK sig : SignalGroup(g, sig) /\ (stage' = stage \/ stage' = Resumed(g))
  BY Zenon DEF Background, SignalJob
<1>3. KernelOK' /\ SameShape /\ Matches' /\ \A h \in Pipe : KeptAt(h)
  BY <1>2, SignalKeeps, Zenon DEF JobInv, Base
<1>4. Base' /\ \A h \in Pipe : Steady(h)
  BY <1>3, ShapeKept, KeptIsSteady, Zenon DEF JobInv, Base
<1>5. TableOK'
  <2>1. MainOK'
    BY <1>0, <1>1 DEF JobInv, TableOK, MainOK
  <2> QED
    BY <1>1, <2>1, LeaveOKStill, Zenon DEF JobInv, TableOK, FlagsOK
<1>6. \A h \in Pipe : Held(proc, h)' <=> Held(proc, h)
  BY <1>4, Zenon DEF Steady
<1>7. MainInv'
  <2>1. cur = None /\ inflight = 0
    BY <1>0 DEF JobInv, MainInv, Starting
  <2>2. \A h \in jobs' : Spawned(h)'
    BY <1>1, <1>4 DEF JobInv, MainInv, TableOK, MainOK, Steady
  <2> QED
    BY <1>0, <1>1, <2>1, <2>2, JobAssumption, Zenon DEF MainInv, Starting
<1>8. CellInv'
  BY <1>0, <1>1, <1>6, Zenon DEF JobInv, CellInv
<1>9. OwnInv'
  BY <1>0, <1>1, <1>6, Zenon DEF JobInv, OwnInv
<1>10. TtyInv'
  BY <1>0, <1>1, Zenon DEF JobInv, TtyInv
<1>11. LeaveInv'
  <2>1. \A h \in Pipe : GroupRuns(h)' => GroupRuns(h)
    BY <1>4, Zenon DEF Steady
  <2>2. \A c \in Cells : Names(c)' = Names(c)
    BY <1>1, CellsStill, Zenon
  <2> QED
    BY <1>1, <2>1, <2>2, LeaveKept DEF JobInv
<1> QED
  BY <1>4, <1>5, <1>7, <1>8, <1>9, <1>10, <1>11, Zenon DEF JobInv

LEMMA BeginForegroundStep ==
  ASSUME JobInv, NEW g \in Pipe, BeginForeground(g)
  PROVE  JobInv'
<1>0. pc = "idle" /\ pc' = "fg" /\ cur' = g /\ g \in jobs
  BY Zenon DEF BeginForeground, Main
<1>1. /\ UNCHANGED <<tty, jobs, fgCell, pos, inflight, moved>>
      /\ UNCHANGED <<jobCell, fault, leaveVars>>
  BY Zenon DEF BeginForeground, kernelVars, tableVars, histVars
<1>2. Base' /\ SameShape /\ \A h \in Pipe : Same(h)
  <2>1. UNCHANGED <<proc, news, stage>>
    BY Zenon DEF BeginForeground, kernelVars, tableVars
  <2> QED
    BY <2>1, UntouchedIsSame, Zenon DEF JobInv
<1>3. cur = None /\ inflight = 0 /\ g # None
  BY <1>0, JobAssumption DEF JobInv, MainInv, Starting
<1>4. TableOK'
  <2>1. MainOK'
    BY <1>0, <1>1 DEF JobInv, TableOK, MainOK
  <2> QED
    BY <1>1, <2>1, LeaveOKStill, Zenon DEF JobInv, TableOK, FlagsOK
<1>5. \A h \in Pipe : Held(proc, h)' <=> Held(proc, h)
  BY <1>2, Zenon DEF Same, Steady
<1>6. MainInv'
  <2>1. \A h \in jobs' : Spawned(h)'
    BY <1>1, <1>2 DEF JobInv, MainInv, TableOK, MainOK, Same, Steady
  <2>2. InHand(g)'
    BY <1>0, <1>1, <2>1, Zenon DEF InHand, Handling, Starting
  <2> QED
    BY <1>0, <1>1, <1>3, <2>1, <2>2, Zenon DEF MainInv, Starting
<1>7. CellInv'
  BY <1>0, <1>1, <1>3, <1>5, Zenon DEF JobInv, CellInv
<1>8. OwnInv'
  BY <1>0, <1>1, <1>5, Zenon DEF JobInv, OwnInv
<1>9. TtyInv'
  BY <1>0, <1>1, Zenon DEF JobInv, TtyInv
<1>10. LeaveInv'
  <2>1. \A h \in Pipe : GroupRuns(h)' => GroupRuns(h)
    BY <1>2, Zenon DEF Same, Steady
  <2>2. \A c \in Cells : Names(c)' = Names(c)
    BY <1>1, CellsStill, Zenon
  <2> QED
    BY <1>1, <2>1, <2>2, LeaveKept DEF JobInv
<1> QED
  BY <1>2, <1>4, <1>6, <1>7, <1>8, <1>9, <1>10, Zenon DEF JobInv

LEMMA MoveToForegroundStep ==
  ASSUME JobInv, MoveToForeground
  PROVE  JobInv'
<1>0. pc = "fg" /\ pc' = "fg_give"
  BY Zenon DEF MoveToForeground, Main
<1>1. PICK g \in Pipe : g = cur /\ InHand(g)
  BY <1>0, HandIsFull
<1>2. /\ UNCHANGED <<tty, cur, pos, inflight>> /\ UNCHANGED <<fault, leaveVars>>
      /\ jobs' = jobs \ {g} /\ moved' = moved \cup {g}
      /\ fgCell' = IF ~Finished(stage, g) /\ HasGroup(g) THEN g ELSE fgCell
  BY <1>1, Zenon DEF MoveToForeground, kernelVars
<1>3. inflight = 0 /\ g # None /\ Spawned(g)
  BY <1>0, <1>1, JobAssumption DEF JobInv, MainInv, Starting, InHand, Handling
<1>4. Base' /\ SameShape /\ \A h \in Pipe : Same(h)
  <2>1. UNCHANGED <<proc, news, stage>>
    BY Zenon DEF MoveToForeground, kernelVars
  <2> QED
    BY <2>1, UntouchedIsSame, Zenon DEF JobInv
<1>5. \A h \in Pipe : Held(proc, h)' <=> Held(proc, h)
  BY <1>4, Zenon DEF Same, Steady
<1>6. /\ jobCell' \in [Pipe -> BOOLEAN]
      /\ \A h \in Pipe : jobCell'[h] <=> jobCell[h] /\ h # g
  <2>1. jobCell \in [Pipe -> BOOLEAN]
    BY DEF JobInv, TableOK, FlagsOK
  <2>2. jobCell' = [jobCell EXCEPT ![g] = FALSE]
    BY <1>1, Zenon DEF MoveToForeground
  <2> QED
    BY <2>1, <2>2, Zenon
<1>7. Held(proc, g) <=> ~Finished(stage, g) /\ HasGroup(g)
  <2>1. Held(proc, g) => HasGroup(g)
    BY DEF Held, HasGroup, Alive
  <2> QED
    BY <1>3, <2>1, HeldUnlessFinished, Zenon DEF JobInv, Base
<1>8. fgCell' = IF Held(proc, g) THEN g ELSE fgCell
  BY <1>2, <1>7, Zenon
<1>9. TableOK'
  <2>1. fgCell' \in {fgCell, g} /\ jobs' \subseteq jobs /\ moved' = moved \cup {g}
    BY <1>2, <1>8
  <2>2. UNCHANGED <<tty, cur, pos, inflight>>
    BY <1>2
  <2>3. MainOK'
    BY <1>0, <2>1, <2>2 DEF JobInv, TableOK, MainOK
  <2> QED
    BY <1>2, <1>6, <2>3, LeaveOKStill, Zenon DEF JobInv, TableOK, FlagsOK
<1>10. MainInv'
  <2>1. \A h \in jobs' : Spawned(h)'
    BY <1>2, <1>4, Zenon DEF JobInv, MainInv, TableOK, MainOK, Same, Steady
  <2>2. InHand(g)'
    BY <1>0, <1>3, <1>4, Zenon DEF InHand, Handling, Starting, Same, Steady
  <2> QED
    BY <1>0, <1>1, <1>2, <1>3, <2>1, <2>2, Zenon DEF MainInv, Starting
<1>11. CellInv'
  <2>1. \A h \in Pipe : h = fgCell' => Held(proc, h)' /\ h \notin jobs'
    BY <1>2, <1>5, <1>8, Zenon DEF JobInv, CellInv
  <2>2. \A h \in Pipe : jobCell'[h] => Held(proc, h)' /\ h \in jobs'
    BY <1>0, <1>2, <1>5, <1>6, Zenon DEF JobInv, CellInv
  <2>3. g \notin jobs'
    BY <1>2
  <2> QED
    BY <1>0, <1>1, <1>2, <2>1, <2>2, <2>3, Zenon DEF CellInv
<1>12. OwnInv'
  <2> SUFFICES ASSUME ~fault
               PROVE  /\ fgCell' = None \/ fgCell' = g
                      /\ \A h \in Pipe : Held(proc, h)' => fgCell' = h \/ jobCell'[h]
    BY <1>0, <1>1, <1>2, Zenon DEF OwnInv
  <2>1. fgCell = None
    BY <1>0, Zenon DEF JobInv, OwnInv
  <2>2. ASSUME NEW h \in Pipe, Held(proc, h)' PROVE fgCell' = h \/ jobCell'[h]
    <3>1. Held(proc, h) /\ h # None
      BY <1>5, <2>2, JobAssumption
    <3>2. jobCell[h]
      BY <1>0, <2>1, <3>1, Zenon DEF JobInv, OwnInv
    <3> QED
      BY <1>6, <1>8, <3>1, <3>2, Zenon
  <2> QED
    BY <1>8, <2>1, <2>2, Zenon
<1>13. TtyInv'
  BY <1>0, <1>2, Zenon DEF JobInv, TtyInv
<1>14. LeaveInv'
  <2>1. \A h \in Pipe : GroupRuns(h)' => GroupRuns(h)
    BY <1>4, Zenon DEF Same, Steady
  <2>2. ASSUME NEW c \in Cells, NEW h \in Pipe \ moved', Names(c)' = h PROVE Names(c) = h
    <3>1. h # None /\ h # g
      BY <1>2, JobAssumption
    <3>2. CASE c = Fg
      BY <1>8, <2>2, <3>1, <3>2, Zenon DEF Names
    <3>3. CASE c # Fg
      <4>1. c \in Pipe /\ jobCell'[c] /\ c = h
        BY <2>2, <3>1, <3>3, Zenon DEF Names, Cells, Fg
      <4>2. jobCell[c]
        BY <1>6, <4>1, Zenon
      <4> QED
        BY <3>3, <4>1, <4>2, Zenon DEF Names
    <3> QED
      BY <3>2, <3>3
  <2>3. moved \subseteq moved' /\ inflight' = inflight
    BY <1>2
  <2> QED
    BY <1>2, <2>1, <2>2, <2>3, LeaveKept, Zenon DEF JobInv
<1> QED
  BY <1>4, <1>9, <1>10, <1>11, <1>12, <1>13, <1>14, Zenon DEF JobInv

\* The handover of the terminal, and the continuation, of a job brought back.
LEMMA ResumingStep ==
  ASSUME JobInv, GiveBack \/ ContinueForeground
  PROVE  JobInv'
<1>0. pc \in {"fg_give", "fg_continue"} /\ pc # "idle"
  BY Zenon DEF GiveBack, ContinueForeground, Main
<1>1. PICK g \in Pipe : g = cur /\ InHand(g)
  BY <1>0, HandIsFull
<1>2. UNCHANGED <<jobs, fgCell, pos, inflight, moved>> /\ UNCHANGED <<jobCell, leaveVars>>
  BY Zenon DEF GiveBack, ContinueForeground, tableVars
<1>3. inflight = 0 /\ g # None /\ g \notin jobs /\ Spawned(g)
  BY <1>0, <1>1, JobAssumption DEF JobInv, MainInv, Starting, CellInv, InHand, Handling
<1>4. \/ pc = "fg_give" /\ pc' = "fg_continue" /\ tty' \in {tty, g} /\ cur' = g /\ fault' = fault
      \/ pc = "fg_give" /\ pc' = "idle" /\ tty' = tty /\ cur' = None /\ fault' = TRUE
      \/ pc = "fg_continue" /\ pc' = "wait" /\ tty' = tty /\ cur' = g /\ fault' = fault
  BY <1>1, Zenon DEF GiveBack, ContinueForeground, Main
<1>5. Base' /\ SameShape /\ \A h \in Pipe : Steady(h)
  <2>1. CASE UNCHANGED <<proc, news, stage>>
    BY <2>1, Untouched, Zenon DEF JobInv
  <2>2. CASE SignalGroup(g, "CONT") /\ stage' = Resumed(g)
    <3>1. KernelOK' /\ SameShape /\ Matches' /\ \A h \in Pipe : KeptAt(h)
      BY <2>2, SignalKeeps, Zenon DEF JobInv, Base
    <3> QED
      BY <3>1, ShapeKept, KeptIsSteady, Zenon DEF JobInv, Base
  <2> QED
    <3>1. GiveBack => UNCHANGED <<proc, news, stage>>
      BY Zenon DEF GiveBack, tableVars
    <3>2. ContinueForeground => \/ UNCHANGED <<proc, news, stage>>
                                \/ SignalGroup(g, "CONT") /\ stage' = Resumed(g)
      BY <1>1, Zenon DEF ContinueForeground
    <3> QED
      BY <2>1, <2>2, <3>1, <3>2, Zenon
<1>6. TableOK'
  <2>1. /\ pc' \in {"fg_continue", "idle", "wait"} /\ tty' \in {tty, g} /\ cur' \in {g, None}
    BY <1>4, Zenon
  <2>2. MainOK'
    BY <1>2, <2>1 DEF JobInv, TableOK, MainOK
  <2>3. fault' \in BOOLEAN
    BY <1>4, Zenon DEF JobInv, TableOK, FlagsOK
  <2> QED
    BY <1>2, <2>2, <2>3, LeaveOKStill, Zenon DEF JobInv, TableOK, FlagsOK
<1>7. \A h \in Pipe : Held(proc, h)' <=> Held(proc, h)
  BY <1>5, Zenon DEF Steady
<1>8. MainInv'
  <2>1. ASSUME NEW h \in Pipe, h = cur' PROVE InHand(h)'
    <3>1. h = g /\ pc' \in {"fg_continue", "wait"}
      BY <1>4, <2>1, JobAssumption, Zenon
    <3>2. Spawned(g)'
      BY <1>3, <1>5, Zenon DEF Steady
    <3> QED
      BY <3>1, <3>2, Zenon DEF InHand, Handling, Starting
  <2>2. \A h \in jobs' : Spawned(h)'
    BY <1>2, <1>5 DEF JobInv, MainInv, TableOK, MainOK, Steady
  <2> QED
    BY <1>2, <1>3, <1>4, <2>1, <2>2, Zenon DEF MainInv, Starting
<1>9. CellInv'
  <2>1. cur' \in {g, None} /\ pc' \notin {"spawn_bg", "publish_bg", "reclaim", "settle"}
    BY <1>4, Zenon
  <2> QED
    BY <1>0, <1>2, <1>3, <1>7, <2>1, JobAssumption, Zenon DEF JobInv, CellInv
<1>10. OwnInv'
  <2> SUFFICES ASSUME ~fault'
               PROVE  /\ fgCell' = None \/ (fgCell' = cur' /\ pc' \in {"fg_continue", "wait"})
                      /\ \A h \in Pipe : Held(proc, h)' => fgCell' = h \/ jobCell'[h]
    BY Zenon DEF OwnInv
  <2>0. fault' # TRUE
    BY Zenon
  <2>1. ~fault /\ cur' = g /\ pc' \in {"fg_continue", "wait"}
    <3>1. CASE pc' = "fg_continue" /\ cur' = g /\ fault' = fault
      BY <3>1, Zenon
    <3>2. CASE pc' = "wait" /\ cur' = g /\ fault' = fault
      BY <3>2, Zenon
    <3> QED
      BY <1>4, <2>0, <3>1, <3>2, Zenon
  <2>2. fgCell = None \/ fgCell = g
    BY <1>1, <2>1, Zenon DEF JobInv, OwnInv
  <2>3. \A h \in Pipe : Held(proc, h) => fgCell = h \/ jobCell[h]
    BY <1>0, <2>1, Zenon DEF JobInv, OwnInv
  <2> QED
    BY <1>2, <1>7, <2>1, <2>2, <2>3, Zenon
<1>11. TtyInv'
  BY <1>4, Zenon DEF TtyInv
<1>12. LeaveInv'
  <2>1. \A h \in Pipe : GroupRuns(h)' => GroupRuns(h)
    BY <1>5, Zenon DEF Steady
  <2>2. \A c \in Cells : Names(c)' = Names(c)
    BY <1>2, CellsStill, Zenon
  <2>3. fault => fault'
    BY <1>4, Zenon
  <2> QED
    BY <1>2, <2>1, <2>2, <2>3, LeaveKept DEF JobInv
<1> QED
  BY <1>5, <1>6, <1>8, <1>9, <1>10, <1>11, <1>12, Zenon DEF JobInv

-----------------------------------------------------------------------------
(* Theorems                                                                *)

LEMMA JobInit == Init => JobInv
<1> SUFFICES ASSUME Init PROVE JobInv
  OBVIOUS
<1>1. PICK shape \in Shapes : proc = [g \in Pipe |-> [k \in 1 .. shape[g] |-> "unborn"]]
  BY Zenon DEF Init
<1>2. shape \in [Pipe -> Nat]
  BY <1>1, JobAssumption
<1>3. /\ DOMAIN proc = Pipe
      /\ \A g \in Pipe : StagesOf(g) = 1 .. shape[g] /\ \A k \in StagesOf(g) : proc[g][k] = "unborn"
  BY <1>1, <1>2 DEF StagesOf
<1>4. /\ news = [g \in Pipe |-> [k \in StagesOf(g) |-> "none"]]
      /\ stage = [g \in Pipe |-> [k \in StagesOf(g) |-> "unspawned"]]
  BY Zenon DEF Init
<1>5. /\ tty = None /\ fgCell = None /\ jobs = {} /\ pc = "idle" /\ cur = None
      /\ pos = 0 /\ inflight = 0 /\ lpc = "off" /\ todo = {}
      /\ asked = {} /\ clock = "grace" /\ moved = {}
  BY Zenon DEF Init
<1>6. /\ terminating = FALSE /\ found = FALSE /\ fault = FALSE
      /\ jobCell = [g \in Pipe |-> FALSE]
  BY Zenon DEF Init
<1>7. ShapeOK
  <2> SUFFICES ASSUME NEW g \in Pipe PROVE Stages(g) \in Nat /\ StagesOf(g) = 1 .. Stages(g)
    BY Zenon DEF ShapeOK
  <2>1. shape[g] \in Nat /\ StagesOf(g) = 1 .. shape[g]
    BY <1>2, <1>3
  <2>2. Cardinality(1 .. shape[g]) = IF 1 > shape[g] THEN 0 ELSE shape[g] - 1 + 1
    BY <2>1, FS_Interval
  <2>3. Stages(g) = shape[g]
    BY <2>1, <2>2 DEF Stages
  <2> QED
    BY <2>1, <2>3
<1>8. KernelOK
  <2>1. DOMAIN news = Pipe /\ DOMAIN stage = Pipe
    BY <1>4
  <2>2. ASSUME NEW g \in Pipe
        PROVE  /\ proc[g] \in [StagesOf(g) -> Alive \cup {"unborn", "zombie", "gone"}]
               /\ news[g] \in [StagesOf(g) -> {"none", "stopped", "continued"}]
               /\ stage[g] \in [StagesOf(g) -> Alive \cup {"unspawned", "exited"}]
    BY <1>1, <1>3, <1>4
  <2> QED
    BY <1>3, <2>1, <2>2 DEF KernelOK
<1>9. Matches
  BY <1>3, <1>4 DEF Matches, InGroup, Alive
<1>10. \A g \in Pipe : ~Held(proc, g)
  BY <1>3 DEF Held, Alive
<1>11. TableOK
  <2>1. MainOK
    BY <1>5 DEF MainOK
  <2>2. FlagsOK
    BY <1>6, Zenon DEF FlagsOK
  <2>3. LeaveOK
    BY <1>5, <1>6, Zenon DEF LeaveOK
  <2> QED
    BY <2>1, <2>2, <2>3 DEF TableOK
<1>12. MainInv
  BY <1>5, JobAssumption DEF MainInv, Starting
<1>13. CellInv
  <2>1. \A g \in Pipe : ~jobCell[g]
    BY <1>6, Zenon
  <2> QED
    BY <1>5, <2>1, JobAssumption, Zenon DEF CellInv
<1>14. OwnInv /\ TtyInv
  BY <1>5, <1>10, Zenon DEF OwnInv, TtyInv
<1>15. LeaveInv
  BY <1>5, <1>6, Zenon DEF LeaveInv
<1> QED
  BY <1>7, <1>8, <1>9, <1>11, <1>12, <1>13, <1>14, <1>15, Zenon DEF JobInv, Base

LEMMA JobStep == JobInv /\ [Next]_vars => JobInv'
<1> SUFFICES ASSUME JobInv, [Next]_vars PROVE JobInv'
  OBVIOUS
<1>1. CASE Statement
  BY <1>1, RunStep, ReapJobStep, SignalJobStep, BeginForegroundStep, Zenon DEF Statement
<1>2. CASE Within
  BY <1>2, StartCheckStep, SpawnStageStep, PublishStep, StartedStep, GiveStep,
     WaitForegroundStep, SettlingStep, SettleStep, MoveToForegroundStep, ResumingStep, Zenon
     DEF Within
<1>3. CASE Cancel
  BY <1>3, CancelStep
<1>4. CASE Terminate \/ Tick
  BY <1>4, PlanStep, Zenon
<1>5. CASE Leave
  BY <1>5, PlanStep, LookStep, Zenon DEF Leave
<1>6. CASE Kernel
  BY <1>6, ProcessStep, Zenon DEF Kernel
<1>7. CASE UNCHANGED vars
  <2>1. UNCHANGED <<proc, news, stage>>
    BY <1>7, Zenon DEF vars, kernelVars, tableVars
  <2>2. UNCHANGED <<tty, jobs, fgCell, jobCell, moved, fault>> /\ UNCHANGED <<mainVars, leaveVars>>
    BY <1>7, Zenon DEF vars, kernelVars, tableVars, histVars
  <2>3. Base' /\ SameShape /\ \A h \in Pipe : Steady(h)
    BY <2>1, Untouched, Zenon DEF JobInv
  <2>4. TableOK'
    BY <2>2, TableStill, Zenon DEF JobInv
  <2>5. MainInv' /\ CellInv' /\ OwnInv' /\ TtyInv'
    BY <2>1, <2>2, <2>3, QuietStep, Zenon
  <2>6. inflight' = inflight /\ \A c \in Cells : Names(c)' = Names(c)
    BY <2>2, CellsStill, Zenon DEF mainVars
  <2>7. LeaveInv'
    BY <2>2, <2>3, <2>6, LeaveKept DEF JobInv, Steady
  <2> QED
    BY <2>3, <2>4, <2>5, <2>7, Zenon DEF JobInv
<1> QED
  BY <1>1, <1>2, <1>3, <1>4, <1>5, <1>6, <1>7, Zenon DEF Next

LEMMA JobInvHolds == Spec => []JobInv
<1>1. Init => JobInv
  BY JobInit
<1>2. JobInv /\ [Next]_vars => JobInv'
  BY JobStep
<1> QED
  BY <1>1, <1>2, PTL DEF Spec

\* Every variable keeps its type: in particular no step collects a process that
\* was never started.
THEOREM JobsTyped == Spec => []TypeOK
<1>1. JobInv => TypeOK
  BY TypeParts, Zenon DEF JobInv, Base
<1> QED
  BY <1>1, JobInvHolds, PTL

\* The cells the threads share say what is there.  A cell never names a group
\* whose last member was collected, so no signal sent through one reaches a
\* stranger; and a group with a process left is named by a cell, or in the main
\* thread's hands on its way to one.
THEOREM CellsHold == Spec => []CellsAreExact
<1>1. JobInv => CellsAreExact
  <2> SUFFICES ASSUME JobInv PROVE CellsAreExact
    OBVIOUS
  <2>1. ASSUME NEW c \in Cells, Names(c) # None PROVE Held(proc, Names(c))
    <3>1. PICK g \in Pipe : g = Names(c)
      BY <2>1, NamesPipe DEF JobInv
    <3>2. fgCell = g \/ jobCell[g]
      BY <2>1, <3>1, Zenon DEF Names
    <3>3. Held(proc, g)
      BY <3>2, Zenon DEF JobInv, CellInv
    <3> QED
      BY <3>1, <3>3
  <2>2. ASSUME pc = "fg_continue", Stopped(stage, cur) PROVE Held(proc, cur)
    <3>1. PICK g \in Pipe : g = cur
      BY <2>2, HandIsFull, Zenon
    <3> QED
      BY <2>2, <3>1, StoppedIsHeld DEF JobInv
  <2>3. ASSUME NEW g \in Pipe, GroupRuns(g), ~fault
        PROVE  \/ \E c \in Cells : Names(c) = g
               \/ cur = g /\ pc \in {"publish", "publish_bg", "reclaim", "settle"}
    <3>1. Held(proc, g) /\ g # None
      BY <2>3, RunsIsHeld, JobAssumption
    <3>2. \/ fgCell = g
          \/ jobCell[g]
          \/ cur = g /\ pc \in {"publish", "publish_bg", "reclaim", "settle"}
      BY <2>3, <3>1, Zenon DEF JobInv, OwnInv
    <3>3. fgCell = g => Names(Fg) = g /\ Fg \in Cells
      BY DEF Names, Cells
    <3>4. jobCell[g] => Names(g) = g /\ g \in Cells
      BY <3>1 DEF Names, Cells, Fg
    <3> QED
      BY <3>2, <3>3, <3>4, Zenon
  <2> QED
    BY <2>1, <2>2, <2>3, Zenon DEF CellsAreExact, SignalsReachMembers, EveryGroupOwned
<1> QED
  BY <1>1, JobInvHolds, PTL

\* At the prompt the terminal is the shell's, whatever became of the pipelines it
\* was handed to, unless the terminal refused.
THEOREM PromptHasTerminal == Spec => []PromptOwnsTerminal
<1>1. JobInv => PromptOwnsTerminal
  BY Zenon DEF JobInv, TtyInv, PromptOwnsTerminal
<1> QED
  BY <1>1, JobInvHolds, PTL

\* A group still in the cell it was started in does not survive the shell: the
\* thread that ends the shell has found it in that cell on every look.
THEOREM OnlyTheMovedSurvive == Spec => []SurvivorsHadMoved
<1>1. JobInv => SurvivorsHadMoved
  <2> SUFFICES ASSUME JobInv, lpc = "dead", ~fault, NEW g \in Pipe, GroupRuns(g), g \notin moved
               PROVE  FALSE
    BY Zenon DEF SurvivorsHadMoved
  <2>1. g \in Pipe \ moved
    OBVIOUS
  <2> QED
    BY <2>1, Zenon DEF JobInv, LeaveInv, Reached
<1> QED
  BY <1>1, JobInvHolds, PTL
=============================================================================
