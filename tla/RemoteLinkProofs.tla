-------------------------- MODULE RemoteLinkProofs --------------------------
(*****************************************************************************)
(* The safety of a remote link for any number of streams, any window and     *)
(* any behaviour of the consumers, the service and the transport: the        *)
(* inductive invariant, that the caller, the agent and the transport         *)
(* preserve it, and what follows.                                            *)
(*****************************************************************************)
EXTENDS RemoteLink, TLAPS

-----------------------------------------------------------------------------
(* The invariant, and what a caller does with its streams *)

D(s) == IF held[s] = "data" THEN 1 ELSE 0

\* Nothing has happened yet on a stream whose request is not with the agent.
Unsent(s) ==
  /\ startw[s] => cpc[s] \notin Opening \cup {"refused"}
  /\ startw[s] \/ cpc[s] \in Opening \cup {"refused"} =>
       /\ spc[s] \in {"none", "gone"} /\ sent[s] = 0 /\ got[s] = 0
       /\ wire[s] = 0 /\ held[s] = "none" /\ q[s] = 0
       /\ ~endw[s] /\ ~qend[s]
       /\ alive => credit[s] = 0 /\ grantw[s] = 0 /\ unack[s] = 0

\* Credit is conserved: what was sent and what may still be sent, wherever its
\* credit is, is covered by what was taken and one window.
Credit(s) ==
  alive => sent[s] + credit[s] + grantw[s] + unack[s] <= got[s] + Window

\* Every frame on its way was sent and has not been taken.
OnItsWay(s) == wire[s] + D(s) + q[s] + got[s] <= sent[s]

\* None is missing as long as the stream is routed to a channel that is there.
NoneMissing(s) ==
  alive /\ s \in table /\ Receiving(s) =>
    wire[s] + D(s) + q[s] + got[s] = sent[s]

\* There is one End, sent when the producer is done, ...
OneEnd(s) ==
  /\ endw[s] \/ held[s] = "end" \/ qend[s] => spc[s] \in {"remove", "gone"}
  /\ ~(endw[s] /\ held[s] = "end") /\ ~(endw[s] /\ qend[s])
  /\ ~(held[s] = "end" /\ qend[s])

\* ... and it comes after everything else.
EndIsLast(s) ==
  /\ held[s] = "end" => wire[s] = 0
  /\ (held[s] = "end" \/ qend[s]) /\ Receiving(s) => q[s] + got[s] = sent[s]

\* What holds once the reader has stopped, and only then.
ReaderOver(s) ==
  /\ alive => ~qlost[s]
  /\ ~alive => held[s] = "none" /\ wire[s] = 0 /\ ~endw[s]

\* What a complete stream and a closed one have behind them.
Outcome(s) ==
  /\ cpc[s] = "complete" =>
       got[s] = sent[s] /\ spc[s] \in {"remove", "gone"} /\ ~startw[s]
  /\ cpc[s] \in {"registered", "reading"} /\ s \notin Acts =>
       s \in table \/ warned[s] \/ qlost[s] \/ qend[s]
  /\ cpc[s] = "closed" /\ s \notin Acts => warned[s]

StreamInv(s) ==
  /\ Unsent(s) /\ Credit(s) /\ OnItsWay(s) /\ NoneMissing(s)
  /\ OneEnd(s) /\ EndIsLast(s) /\ ReaderOver(s) /\ Outcome(s)

LinkInv == TypeOK /\ \A s \in Stream : StreamInv(s)

\* Credit is granted in batches of at least one.
LEMMA BatchType == Batch \in Nat \ {0}
BY LinkAssumption DEF Batch

\* What the type invariant says of one stream.
LEMMA Counts ==
  ASSUME TypeOK, NEW s \in Stream
  PROVE  /\ q[s] \in Nat /\ unack[s] \in Nat /\ got[s] \in Nat /\ wire[s] \in Nat
         /\ grantw[s] \in Nat /\ credit[s] \in Nat /\ sent[s] \in Nat
         /\ held[s] \in Held /\ spc[s] \in Tasks /\ cpc[s] \in Phases
         /\ qend[s] \in BOOLEAN /\ qlost[s] \in BOOLEAN /\ endw[s] \in BOOLEAN
         /\ warned[s] \in BOOLEAN /\ startw[s] \in BOOLEAN
BY DEF TypeOK

\* A stream none of whose own state changes keeps its invariant.
LEMMA Untouched ==
  ASSUME LinkInv, NEW t \in Stream, alive' = alive, t \in table' <=> t \in table,
         cpc'[t] = cpc[t], held'[t] = held[t], q'[t] = q[t], qend'[t] = qend[t],
         qlost'[t] = qlost[t], unack'[t] = unack[t], got'[t] = got[t],
         warned'[t] = warned[t], startw'[t] = startw[t], grantw'[t] = grantw[t],
         wire'[t] = wire[t], endw'[t] = endw[t], credit'[t] = credit[t],
         spc'[t] = spc[t], sent'[t] = sent[t]
  PROVE  StreamInv(t)'
BY DEF LinkInv, StreamInv, Unsent, Credit, OnItsWay, NoneMissing, OneEnd,
     EndIsLast, ReaderOver, Outcome, D, Receiving

-----------------------------------------------------------------------------
\* A value taken is credit granted, at once or with its batch.
LEMMA TakeDataStep ==
  ASSUME LinkInv, NEW s \in Stream, TakeData(s) PROVE LinkInv'
<1>1. /\ q' = [q EXCEPT ![s] = @ - 1] /\ q[s] > 0 /\ Reading(s)
      /\ got' = [got EXCEPT ![s] = @ + 1]
      /\ UNCHANGED <<cpc, table, alive, held, qend, qlost, warned, startw, cancelw,
                     wire, endw, cut, hung, exits, serving, open, credit,
                     cancelled, spc, performed, sent>>
  BY Zenon DEF TakeData, downVars, wayVars, serverVars
<1>2. \E n, m \in Nat :
         /\ unack' = [unack EXCEPT ![s] = n] /\ grantw' = [grantw EXCEPT ![s] = m]
         /\ n + m <= unack[s] + grantw[s] + 1
  <2>1. unack[s] \in Nat /\ grantw[s] \in Nat /\ grantw = [grantw EXCEPT ![s] = @]
    BY Zenon DEF LinkInv, TypeOK
  <2>2. CASE unack[s] + 1 >= Batch /\ UpOpen
    <3> DEFINE m == grantw[s] + (unack[s] + 1)
    <3>1. /\ unack' = [unack EXCEPT ![s] = 0] /\ grantw' = [grantw EXCEPT ![s] = m]
      BY Zenon, <2>2 DEF TakeData, Acknowledge
    <3>2. m \in Nat /\ 0 + m <= unack[s] + grantw[s] + 1
      BY SMTT(40), <2>1
    <3> HIDE DEF m
    <3> QED BY Zenon, <3>1, <3>2
  <2>3. CASE unack[s] + 1 >= Batch /\ ~UpOpen
    BY SMTT(40), <2>1, <2>3 DEF TakeData, Acknowledge
  <2>4. CASE ~(unack[s] + 1 >= Batch)
    BY SMTT(40), <2>1, <2>4 DEF TakeData, Acknowledge
  <2> QED BY Zenon, <2>2, <2>3, <2>4
<1>3. TypeOK'
  BY SMTT(40), <1>1, <1>2 DEF LinkInv, TypeOK
<1>4. ASSUME NEW t \in Stream, t # s PROVE StreamInv(t)'
  BY Zenon, <1>1, <1>2, <1>4, Untouched DEF LinkInv, TypeOK
<1>5. StreamInv(s)'
  <2>1. /\ q'[s] = q[s] - 1 /\ got'[s] = got[s] + 1
        /\ unack'[s] \in Nat /\ grantw'[s] \in Nat
        /\ unack'[s] + grantw'[s] <= unack[s] + grantw[s] + 1
    BY Zenon, <1>1, <1>2 DEF LinkInv, TypeOK
  <2>2. StreamInv(s) /\ TypeOK /\ cpc[s] \in {"reading", "stopping"} /\ q[s] > 0
    BY Zenon, <1>1 DEF LinkInv, Reading
  <2>3. UNCHANGED <<cpc, table, alive, held, qend, qlost, warned, startw, wire, endw,
                    credit, spc, sent>>
    BY Zenon, <1>1
  <2>4. Unsent(s)'
    BY SMTT(40), <2>1, <2>2, <2>3, Counts DEF StreamInv, Unsent, Opening
  <2>5. (Credit(s) /\ OnItsWay(s))'
    BY SMTT(40), <2>1, <2>2, <2>3, Counts, LinkAssumption DEF StreamInv, Credit,
         OnItsWay, D
  <2>6. NoneMissing(s)'
    BY SMTT(40), <2>1, <2>2, <2>3, Counts DEF StreamInv, NoneMissing, D,
         Receiving
  <2>7. (OneEnd(s) /\ EndIsLast(s) /\ ReaderOver(s) /\ Outcome(s))'
    BY SMTT(40), <2>1, <2>2, <2>3, Counts DEF StreamInv, OneEnd, EndIsLast,
         ReaderOver, Outcome, Receiving
  <2> QED BY Zenon, <2>4, <2>5, <2>6, <2>7 DEF StreamInv
<1> QED BY Zenon, <1>3, <1>4, <1>5 DEF LinkInv

\* An outcome drops the channel, a refusal waits for the End.
LEMMA TakeAnswerStep ==
  ASSUME LinkInv, NEW s \in Stream, TakeAnswer(s) PROVE LinkInv'
<1>1. /\ q[s] > 0 /\ Reading(s) /\ s \in Acts
      /\ got' = [got EXCEPT ![s] = @ + 1]
      /\ UNCHANGED <<alive, held, unack, warned, startw, grantw, cancelw,
                     wire, endw, cut, hung, exits, serving, open, credit,
                     cancelled, spc, performed, sent>>
  BY Zenon DEF TakeAnswer, upVars, downVars, wayVars, serverVars
<1>2. CASE s \in performed
  <2>1. /\ cpc' = [cpc EXCEPT ![s] = "answered"] /\ table' = table \ {s}
        /\ q' = [q EXCEPT ![s] = 0] /\ qend' = [qend EXCEPT ![s] = FALSE]
        /\ qlost' = [qlost EXCEPT ![s] = FALSE]
    BY Zenon, <1>2 DEF TakeAnswer, DropChannel
  <2>2. TypeOK'
    BY SMTT(40), <1>1, <2>1 DEF LinkInv, TypeOK, Phases, Ended
  <2>3. ASSUME NEW t \in Stream, t # s PROVE StreamInv(t)'
    BY Zenon, <1>1, <2>1, <2>3, Untouched DEF LinkInv, TypeOK
  <2>4. StreamInv(s)'
    <3>1. /\ q'[s] = 0 /\ got'[s] = got[s] + 1 /\ cpc'[s] = "answered"
          /\ ~qend'[s] /\ ~qlost'[s] /\ s \notin table'
      BY Zenon, <1>1, <2>1 DEF LinkInv, TypeOK
    <3>2. StreamInv(s) /\ TypeOK /\ cpc[s] \in {"reading", "stopping"} /\ q[s] > 0
      BY Zenon, <1>1 DEF LinkInv, Reading
    <3>3. UNCHANGED <<alive, held, unack, warned, startw, grantw, wire, endw, credit,
                      spc, sent>>
      BY Zenon, <1>1
    <3>4. (Unsent(s) /\ NoneMissing(s) /\ OneEnd(s) /\ EndIsLast(s))'
      BY SMTT(40), <3>1, <3>2, <3>3, Counts DEF StreamInv, Unsent, NoneMissing,
           OneEnd, EndIsLast, Receiving, Opening
    <3>5. Credit(s)'
      BY SMTT(40), <3>1, <3>2, <3>3, Counts, LinkAssumption DEF StreamInv,
           Credit
    <3>7. OnItsWay(s)'
      BY SMTT(40), <3>1, <3>2, <3>3, Counts DEF StreamInv, OnItsWay, D
    <3>6. (ReaderOver(s) /\ Outcome(s))'
      BY Zenon, <3>1, <3>2, <3>3 DEF StreamInv, ReaderOver, Outcome
    <3> QED BY Zenon, <3>4, <3>5, <3>6, <3>7 DEF StreamInv
  <2> QED BY Zenon, <2>2, <2>3, <2>4 DEF LinkInv
<1>3. CASE s \notin performed
  <2>1. q' = [q EXCEPT ![s] = @ - 1] /\ UNCHANGED <<cpc, table, qend, qlost>>
    BY Zenon, <1>3 DEF TakeAnswer
  <2>2. TypeOK'
    BY SMTT(40), <1>1, <2>1 DEF LinkInv, TypeOK
  <2>3. ASSUME NEW t \in Stream, t # s PROVE StreamInv(t)'
    BY Zenon, <1>1, <2>1, <2>3, Untouched DEF LinkInv, TypeOK
  <2>4. StreamInv(s)'
    <3>1. q'[s] = q[s] - 1 /\ got'[s] = got[s] + 1
      BY Zenon, <1>1, <2>1 DEF LinkInv, TypeOK
    <3>2. StreamInv(s) /\ TypeOK /\ cpc[s] \in {"reading", "stopping"} /\ q[s] > 0
      BY Zenon, <1>1 DEF LinkInv, Reading
    <3>3. UNCHANGED <<cpc, table, qend, qlost, alive, held, unack, warned, startw,
                      grantw, wire, endw, credit, spc, sent>>
      BY Zenon, <1>1, <2>1
    <3>4. Unsent(s)'
      BY SMTT(40), <3>1, <3>2, <3>3 DEF StreamInv, Unsent, Opening
    <3>5. NoneMissing(s)'
      BY SMTT(40), <3>1, <3>2, <3>3, Counts DEF StreamInv, NoneMissing, D, Receiving
    <3>6. (OneEnd(s) /\ EndIsLast(s))'
      BY SMTT(40), <3>1, <3>2, <3>3, Counts DEF StreamInv, OneEnd, EndIsLast,
           Receiving
    <3>7. Credit(s)'
      BY SMTT(40), <3>1, <3>2, <3>3, Counts, LinkAssumption DEF StreamInv,
           Credit
    <3>8. OnItsWay(s)'
      BY SMTT(40), <3>1, <3>2, <3>3, Counts DEF StreamInv, OnItsWay, D
    <3>9. (ReaderOver(s) /\ Outcome(s))'
      BY Zenon, <3>2, <3>3, <3>1, Counts DEF StreamInv, ReaderOver, Outcome,
           OnItsWay, D
    <3> QED BY Zenon, <3>4, <3>6, <3>7, <3>8, <3>9, <3>5 DEF StreamInv
  <2> QED BY Zenon, <2>2, <2>3, <2>4 DEF LinkInv
<1> QED BY Zenon, <1>2, <1>3

\* The End is the last thing a consumer takes, and everything came before it.
LEMMA TakeEndStep ==
  ASSUME LinkInv, NEW s \in Stream, TakeEnd(s) PROVE LinkInv'
<1>1. TypeOK'
  BY Zenon, LinkAssumption, BatchType DEF LinkInv, TypeOK, TakeEnd, DropChannel,
       Reading, chanVars, upVars, downVars, wayVars, serverVars, Phases,
       Opening, Ended, Tasks, Held
<1>2. ASSUME NEW t \in Stream, t # s PROVE StreamInv(t)'
  BY Zenon, <1>2, Untouched DEF LinkInv, TypeOK, TakeEnd, DropChannel, Reading,
       chanVars, upVars, downVars, wayVars, serverVars
<1>3. StreamInv(s)'
  BY SMTT(40), LinkAssumption, BatchType DEF LinkInv, TypeOK, TakeEnd,
       DropChannel, Reading, chanVars, upVars, downVars, wayVars, serverVars,
       StreamInv, Unsent, Credit, OnItsWay, NoneMissing, OneEnd, EndIsLast,
       ReaderOver, Outcome, D, Receiving, Opening
<1> QED BY Zenon, <1>1, <1>2, <1>3 DEF LinkInv

\* The failure of the link is taken after the link is no longer alive.
LEMMA TakeLostStep ==
  ASSUME LinkInv, NEW s \in Stream, TakeLost(s) PROVE LinkInv'
<1>1. TypeOK'
  BY SMTT(40), LinkAssumption, BatchType DEF LinkInv, TypeOK, TakeLost,
       Acknowledge, Reading, UpOpen, chanVars, upVars, downVars, wayVars,
       serverVars, Phases, Opening, Ended, Tasks, Held
<1>2. ASSUME NEW t \in Stream, t # s PROVE StreamInv(t)'
  BY Zenon, <1>2, Untouched DEF LinkInv, TypeOK, TakeLost, Acknowledge, Reading,
       UpOpen, chanVars, upVars, downVars, wayVars, serverVars
<1>3. StreamInv(s)'
  BY Zenon, LinkAssumption, BatchType DEF LinkInv, TypeOK, TakeLost,
       Acknowledge, Reading, UpOpen, chanVars, upVars, downVars, wayVars,
       serverVars, StreamInv, Unsent, Credit, OnItsWay, NoneMissing, OneEnd,
       EndIsLast, ReaderOver, Outcome, D, Receiving, Opening
<1> QED BY Zenon, <1>1, <1>2, <1>3 DEF LinkInv

\* A reading stream whose senders are gone has had its warning.
LEMMA TakeClosedStep ==
  ASSUME LinkInv, NEW s \in Stream, TakeClosed(s) PROVE LinkInv'
<1>1. TypeOK'
  BY Zenon, LinkAssumption, BatchType DEF LinkInv, TypeOK, TakeClosed,
       SendCancel, Reading, UpOpen, Occupied, chanVars, upVars, downVars,
       wayVars, serverVars, Phases, Opening, Ended, Tasks, Held
<1>2. ASSUME NEW t \in Stream, t # s PROVE StreamInv(t)'
  BY Zenon, <1>2, Untouched DEF LinkInv, TypeOK, TakeClosed, SendCancel,
       Reading, UpOpen, Occupied, chanVars, upVars, downVars, wayVars,
       serverVars
<1>3. StreamInv(s)'
  BY SMTT(40), LinkAssumption, BatchType DEF LinkInv, TypeOK, TakeClosed,
       SendCancel, Reading, UpOpen, Occupied, chanVars, upVars, downVars,
       wayVars, serverVars, StreamInv, Unsent, Credit, OnItsWay, NoneMissing,
       OneEnd, EndIsLast, ReaderOver, Outcome, D, Receiving, Opening
<1> QED BY Zenon, <1>1, <1>2, <1>3 DEF LinkInv

-----------------------------------------------------------------------------
\* LinkInner::status moves one caller only.
LEMMA CheckStep ==
  ASSUME LinkInv, NEW s \in Stream, Check(s) PROVE LinkInv'
<1>1. TypeOK'
  BY Zenon, LinkAssumption, BatchType DEF LinkInv, TypeOK, Check, chanVars,
       upVars, downVars, wayVars, serverVars, Phases, Opening, Ended, Tasks,
       Held
<1>2. ASSUME NEW t \in Stream, t # s PROVE StreamInv(t)'
  BY Zenon, <1>2, Untouched DEF LinkInv, TypeOK, Check, chanVars, upVars,
       downVars, wayVars, serverVars
<1>3. StreamInv(s)'
  BY Zenon, LinkAssumption, BatchType DEF LinkInv, TypeOK, Check, chanVars,
       upVars, downVars, wayVars, serverVars, StreamInv, Unsent, Credit,
       OnItsWay, NoneMissing, OneEnd, EndIsLast, ReaderOver, Outcome, D,
       Receiving, Opening
<1> QED BY Zenon, <1>1, <1>2, <1>3 DEF LinkInv

\* A stream that enters the table has nothing behind it.
LEMMA InsertStep ==
  ASSUME LinkInv, NEW s \in Stream, Insert(s) PROVE LinkInv'
<1>1. TypeOK'
  BY SMTT(40), LinkAssumption, BatchType DEF LinkInv, TypeOK, Insert, chanVars,
       upVars, downVars, wayVars, serverVars, Phases, Opening, Ended, Tasks,
       Held
<1>2. ASSUME NEW t \in Stream, t # s PROVE StreamInv(t)'
  BY Zenon, <1>2, Untouched DEF LinkInv, TypeOK, Insert, chanVars, upVars,
       downVars, wayVars, serverVars
<1>3. StreamInv(s)'
  BY SMTT(40), LinkAssumption, BatchType DEF LinkInv, TypeOK, Insert, chanVars,
       upVars, downVars, wayVars, serverVars, StreamInv, Unsent, Credit,
       OnItsWay, NoneMissing, OneEnd, EndIsLast, ReaderOver, Outcome, D,
       Receiving, Opening
<1> QED BY Zenon, <1>1, <1>2, <1>3 DEF LinkInv

\* The request leaves, is refused, or cannot be encoded.
LEMMA StartStep ==
  ASSUME LinkInv, NEW s \in Stream, Start(s) PROVE LinkInv'
<1>1. TypeOK'
  BY Zenon, LinkAssumption, BatchType DEF LinkInv, TypeOK, Start, UpOpen,
       chanVars, upVars, downVars, wayVars, serverVars, Phases, Opening, Ended,
       Tasks, Held
<1>2. ASSUME NEW t \in Stream, t # s PROVE StreamInv(t)'
  BY Zenon, <1>2, Untouched DEF LinkInv, TypeOK, Start, UpOpen, chanVars,
       upVars, downVars, wayVars, serverVars
<1>3. StreamInv(s)'
  BY SMTT(40), LinkAssumption, BatchType DEF LinkInv, TypeOK, Start, UpOpen,
       chanVars, upVars, downVars, wayVars, serverVars, StreamInv, Unsent,
       Credit, OnItsWay, NoneMissing, OneEnd, EndIsLast, ReaderOver, Outcome, D,
       Receiving, Opening
<1> QED BY Zenon, <1>1, <1>2, <1>3 DEF LinkInv

\* A cancelled stream leaves the table and may still be read.
LEMMA CancelStep ==
  ASSUME LinkInv, NEW s \in Stream, Cancel(s) PROVE LinkInv'
<1>1. TypeOK'
  BY Zenon, LinkAssumption, BatchType DEF LinkInv, TypeOK, Cancel, SendCancel,
       UpOpen, chanVars, upVars, downVars, wayVars, serverVars, Phases, Opening,
       Ended, Tasks, Held
<1>2. ASSUME NEW t \in Stream, t # s PROVE StreamInv(t)'
  BY Zenon, <1>2, Untouched DEF LinkInv, TypeOK, Cancel, SendCancel, UpOpen,
       chanVars, upVars, downVars, wayVars, serverVars
<1>3. StreamInv(s)'
  BY Zenon, LinkAssumption, BatchType DEF LinkInv, TypeOK, Cancel, SendCancel,
       UpOpen, chanVars, upVars, downVars, wayVars, serverVars, StreamInv,
       Unsent, Credit, OnItsWay, NoneMissing, OneEnd, EndIsLast, ReaderOver,
       Outcome, D, Receiving, Opening
<1> QED BY Zenon, <1>1, <1>2, <1>3 DEF LinkInv

\* A dropped channel only loses frames.
LEMMA DropStep ==
  ASSUME LinkInv, NEW s \in Stream, Drop(s) PROVE LinkInv'
<1>1. TypeOK'
  BY Zenon, LinkAssumption, BatchType DEF LinkInv, TypeOK, Drop, SendCancel,
       UpOpen, DropChannel, Reading, chanVars, upVars, downVars, wayVars,
       serverVars, Phases, Opening, Ended, Tasks, Held
<1>2. ASSUME NEW t \in Stream, t # s PROVE StreamInv(t)'
  BY Zenon, <1>2, Untouched DEF LinkInv, TypeOK, Drop, SendCancel, UpOpen,
       DropChannel, Reading, chanVars, upVars, downVars, wayVars, serverVars
<1>3. StreamInv(s)'
  BY SMTT(40), LinkAssumption, BatchType DEF LinkInv, TypeOK, Drop, SendCancel,
       UpOpen, DropChannel, Reading, chanVars, upVars, downVars, wayVars,
       serverVars, StreamInv, Unsent, Credit, OnItsWay, NoneMissing, OneEnd,
       EndIsLast, ReaderOver, Outcome, D, Receiving, Opening
<1> QED BY Zenon, <1>1, <1>2, <1>3 DEF LinkInv

-----------------------------------------------------------------------------
(* The caller's reader, the transport and the agent *)

\* A channel is only full when the End is in it, so a failing link tells every
\* consumer that would otherwise wait.
LEMMA FailStep ==
  ASSUME LinkInv, alive, Fail,
         UNCHANGED <<cpc, q, qend, unack, got, warned, upVars, wayVars, serverVars>>
  PROVE  LinkInv'
<1>1. TypeOK'
  BY Zenon DEF LinkInv, TypeOK, Fail, upVars, wayVars, serverVars, Held
<1>2. ASSUME NEW t \in Stream PROVE StreamInv(t)'
  <2>1. Receiving(t) => HasRoom(t) \/ qend[t]
    BY SMTT(40), LinkAssumption DEF LinkInv, TypeOK, HasRoom, Occupied,
         StreamInv, Credit, OnItsWay, ReaderOver, D
  <2>2. qlost'[t] = (qlost[t] \/ (t \in table /\ Receiving(t) /\ HasRoom(t)))
    BY Zenon DEF Fail
  <2>3. Outcome(t)'
    BY Zenon, <2>1, <2>2 DEF LinkInv, TypeOK, Fail, upVars, serverVars,
         StreamInv, Unsent, Outcome, Receiving, Opening
  <2>4. /\ Unsent(t)' /\ Credit(t)' /\ OnItsWay(t)' /\ NoneMissing(t)'
        /\ OneEnd(t)' /\ EndIsLast(t)' /\ ReaderOver(t)'
    BY SMTT(40) DEF LinkInv, TypeOK, Fail, upVars, wayVars, serverVars,
         StreamInv, Unsent, Credit, OnItsWay, NoneMissing, OneEnd, EndIsLast,
         ReaderOver, D, Receiving, Opening
  <2> QED BY Zenon, <2>3, <2>4 DEF StreamInv
<1> QED BY Zenon, <1>1, <1>2 DEF LinkInv

\* The reader stops when the transport has ended.
LEMMA LinkEndsStep ==
  ASSUME LinkInv, LinkEnds PROVE LinkInv'
BY Zenon, FailStep DEF LinkEnds, ReaderIdle

\* A frame moves from the wire to the hands of the reader, or is dropped.
LEMMA RouteStep ==
  ASSUME LinkInv, NEW s \in Stream, Route(s) PROVE LinkInv'
<1>1. /\ alive /\ held[s] = "none"
      /\ UNCHANGED <<cpc, table, alive, q, qend, qlost, unack, got, warned, startw,
                     grantw, cancelw, cut, hung, exits, serving, open, credit,
                     cancelled, spc, performed, sent>>
  BY Zenon DEF Route, ReaderIdle, chanVars, upVars, wayVars, serverVars
<1>2. CASE wire[s] > 0 /\ wire' = [wire EXCEPT ![s] = @ - 1] /\ UNCHANGED endw
           /\ held' = [held EXCEPT ![s] = IF s \in table THEN "data" ELSE @]
  <2>1. TypeOK'
    BY SMTT(40), <1>1, <1>2 DEF LinkInv, TypeOK, Held
  <2>2. ASSUME NEW t \in Stream, t # s PROVE StreamInv(t)'
    BY Zenon, <1>1, <1>2, <2>2, Untouched DEF LinkInv, TypeOK
  <2>3. StreamInv(s)'
    BY SMTT(40), <1>1, <1>2 DEF LinkInv, TypeOK, StreamInv, Unsent, Credit,
         OnItsWay, NoneMissing, OneEnd, EndIsLast, ReaderOver, Outcome, D,
         Receiving, Opening
  <2> QED BY Zenon, <2>1, <2>2, <2>3 DEF LinkInv
<1>3. CASE /\ wire[s] = 0 /\ endw[s] /\ endw' = [endw EXCEPT ![s] = FALSE]
           /\ held' = [held EXCEPT ![s] = IF s \in table THEN "end" ELSE @]
           /\ UNCHANGED wire
  <2>1. TypeOK'
    BY Zenon, <1>1, <1>3 DEF LinkInv, TypeOK, Held
  <2>2. ASSUME NEW t \in Stream, t # s PROVE StreamInv(t)'
    BY Zenon, <1>1, <1>3, <2>2, Untouched DEF LinkInv, TypeOK
  <2>3. StreamInv(s)'
    BY SMTT(40), <1>1, <1>3 DEF LinkInv, TypeOK, StreamInv, Unsent, Credit,
         OnItsWay, NoneMissing, OneEnd, EndIsLast, ReaderOver, Outcome, D,
         Receiving, Opening
  <2> QED BY Zenon, <2>1, <2>2, <2>3 DEF LinkInv
<1> QED BY Zenon, <1>2, <1>3 DEF Route

\* A frame in the hands of the reader finds its place.
LEMMA DeliverStep ==
  ASSUME LinkInv, NEW s \in Stream, Deliver(s) PROVE LinkInv'
<1>1. CASE Receiving(s) /\ HasRoom(s)
  <2>1. /\ alive /\ held[s] \in {"data", "end"}
        /\ held' = [held EXCEPT ![s] = "none"]
        /\ q' = [q EXCEPT ![s] = IF held[s] = "data" THEN @ + 1 ELSE @]
        /\ qend' = [qend EXCEPT ![s] = @ \/ held[s] = "end"]
        /\ UNCHANGED <<cpc, table, alive, qlost, unack, got, warned, startw,
                       grantw, cancelw, wire, endw, cut, hung, exits, serving,
                       open, credit, cancelled, spc, performed, sent>>
    BY Zenon, <1>1 DEF Deliver, downVars, upVars, wayVars, serverVars, LinkInv,
         TypeOK, Held
  <2>2. TypeOK'
    BY SMTT(40), <2>1 DEF LinkInv, TypeOK, Held
  <2>3. ASSUME NEW t \in Stream, t # s PROVE StreamInv(t)'
    BY Zenon, <2>1, <2>3, Untouched DEF LinkInv, TypeOK
  <2>4. StreamInv(s)'
    <3>1. /\ held'[s] = "none" /\ qend'[s] = (qend[s] \/ held[s] = "end")
          /\ q'[s] = (IF held[s] = "data" THEN q[s] + 1 ELSE q[s])
      BY Zenon, <2>1 DEF LinkInv, TypeOK
    <3>2. StreamInv(s) /\ TypeOK /\ alive /\ Receiving(s)
      BY Zenon, <1>1, <2>1 DEF LinkInv
    <3>3. UNCHANGED <<cpc, table, alive, qlost, unack, got, warned, startw, grantw,
                      wire, endw, credit, spc, sent>>
      BY Zenon, <2>1
    <3>4. CASE held[s] = "data"
      <4>1. (Unsent(s) /\ Credit(s) /\ OneEnd(s) /\ ReaderOver(s) /\ Outcome(s))'
        BY Zenon, <3>1, <3>2, <3>3, <3>4, Counts DEF StreamInv, Unsent, Credit,
             OneEnd, ReaderOver, Outcome, Opening
      <4>2. (OnItsWay(s) /\ NoneMissing(s))'
        BY SMTT(40), <3>1, <3>2, <3>3, <3>4, Counts DEF StreamInv, OnItsWay,
             NoneMissing, D, Receiving
      <4>3. EndIsLast(s)'
        BY SMTT(40), <3>1, <3>2, <3>3, <3>4, Counts DEF StreamInv, EndIsLast,
             OneEnd, OnItsWay, D, Receiving
      <4> QED BY Zenon, <4>1, <4>2, <4>3 DEF StreamInv
    <3>5. CASE held[s] = "end"
      BY Zenon, <3>1, <3>2, <3>3, <3>5, Counts DEF StreamInv, Unsent, Credit,
           OnItsWay, NoneMissing, OneEnd, EndIsLast, ReaderOver, Outcome, D,
           Receiving, Opening
    <3> QED BY Zenon, <2>1, <3>4, <3>5
  <2> QED BY Zenon, <2>2, <2>3, <2>4 DEF LinkInv
<1>2. CASE ~(Receiving(s) /\ HasRoom(s))
  BY Zenon, <1>2, FailStep DEF Deliver
<1> QED BY Zenon, <1>1, <1>2

\* A goodbye changes no stream.
LEMMA HangupStep ==
  ASSUME LinkInv, Hangup PROVE LinkInv'
<1>1. TypeOK'
  BY Zenon, LinkAssumption, BatchType DEF LinkInv, TypeOK, Hangup, chanVars,
       upVars, downVars, wayVars, serverVars, Phases, Opening, Ended, Tasks,
       Held
<1>2. ASSUME NEW t \in Stream PROVE StreamInv(t)'
  BY Zenon, LinkAssumption, BatchType DEF LinkInv, TypeOK, Hangup, chanVars,
       upVars, downVars, wayVars, serverVars, StreamInv, Unsent, Credit,
       OnItsWay, NoneMissing, OneEnd, EndIsLast, ReaderOver, Outcome, D,
       Receiving, Opening
<1> QED BY Zenon, <1>1, <1>2 DEF LinkInv

\* A cut changes no stream.
LEMMA CutStep ==
  ASSUME LinkInv, Cut PROVE LinkInv'
<1>1. TypeOK'
  BY Zenon, LinkAssumption, BatchType DEF LinkInv, TypeOK, Cut, chanVars,
       upVars, downVars, wayVars, serverVars, Phases, Opening, Ended, Tasks,
       Held
<1>2. ASSUME NEW t \in Stream PROVE StreamInv(t)'
  BY Zenon, LinkAssumption, BatchType DEF LinkInv, TypeOK, Cut, chanVars,
       upVars, downVars, wayVars, serverVars, StreamInv, Unsent, Credit,
       OnItsWay, NoneMissing, OneEnd, EndIsLast, ReaderOver, Outcome, D,
       Receiving, Opening
<1> QED BY Zenon, <1>1, <1>2 DEF LinkInv

-----------------------------------------------------------------------------
\* A stream starts with one window, or is refused with an error and End.
LEMMA AcceptStep ==
  ASSUME LinkInv, NEW s \in Stream, Accept(s) PROVE LinkInv'
<1>1. /\ startw[s] /\ startw' = [startw EXCEPT ![s] = FALSE]
      /\ UNCHANGED <<cpc, table, alive, held, q, qend, qlost, unack, got, warned,
                     grantw, cancelw, cut, hung, exits, serving, cancelled,
                     performed>>
  BY Zenon DEF Accept, chanVars, wayVars
<1>2. /\ sent[s] = 0 /\ got[s] = 0 /\ wire[s] = 0 /\ held[s] = "none" /\ q[s] = 0
      /\ ~endw[s] /\ ~qend[s]
      /\ alive => credit[s] = 0 /\ grantw[s] = 0 /\ unack[s] = 0
      /\ cpc[s] # "complete" /\ cpc[s] \notin Opening \cup {"refused"}
  BY Zenon, <1>1 DEF LinkInv, StreamInv, Unsent, Outcome
<1>3. CASE Cardinality(open) >= MaxStreams
  <2>1. /\ wire' = [wire EXCEPT ![s] = IF alive THEN @ + 1 ELSE @]
        /\ endw' = [endw EXCEPT ![s] = alive]
        /\ sent' = [sent EXCEPT ![s] = @ + 1] /\ spc' = [spc EXCEPT ![s] = "gone"]
        /\ UNCHANGED <<open, credit>>
    BY Zenon, <1>3 DEF Accept, DownOpen
  <2>2. TypeOK'
    BY SMTT(40), <1>1, <2>1 DEF LinkInv, TypeOK, Tasks
  <2>3. ASSUME NEW t \in Stream, t # s PROVE StreamInv(t)'
    BY Zenon, <1>1, <2>1, <2>3, Untouched DEF LinkInv, TypeOK
  <2>4. StreamInv(s)'
    <3>1. /\ wire'[s] = (IF alive THEN 1 ELSE 0) /\ endw'[s] = alive
          /\ sent'[s] = 1 /\ spc'[s] = "gone" /\ ~startw'[s]
      BY SMTT(40), <1>1, <1>2, <2>1 DEF LinkInv, TypeOK
    <3>2. StreamInv(s) /\ TypeOK
      BY Zenon DEF LinkInv
    <3>3. UNCHANGED <<cpc, table, alive, held, q, qend, qlost, unack, got, warned,
                      grantw, credit>>
      BY Zenon, <1>1, <2>1
    <3>4. (Unsent(s) /\ OneEnd(s) /\ EndIsLast(s))'
      BY Zenon, <1>2, <3>1, <3>3 DEF Unsent, OneEnd, EndIsLast
    <3>5. (Credit(s) /\ OnItsWay(s) /\ NoneMissing(s))'
      BY SMTT(40), <1>2, <3>1, <3>3, LinkAssumption DEF Credit, OnItsWay,
           NoneMissing, D
    <3>6. (ReaderOver(s) /\ Outcome(s))'
      BY Zenon, <1>2, <3>1, <3>2, <3>3 DEF StreamInv, ReaderOver, Outcome
    <3> QED BY Zenon, <3>4, <3>5, <3>6 DEF StreamInv
  <2> QED BY Zenon, <2>2, <2>3, <2>4 DEF LinkInv
<1>4. CASE ~(Cardinality(open) >= MaxStreams)
  <2>1. /\ credit' = [credit EXCEPT ![s] = Window] /\ open' = open \cup {s}
        /\ spc' = [spc EXCEPT ![s] = "body"] /\ UNCHANGED <<wire, endw, sent>>
    BY Zenon, <1>4 DEF Accept, downVars
  <2>2. TypeOK'
    BY SMTT(40), <1>1, <2>1, LinkAssumption DEF LinkInv, TypeOK, Tasks
  <2>3. ASSUME NEW t \in Stream, t # s PROVE StreamInv(t)'
    BY Zenon, <1>1, <2>1, <2>3, Untouched DEF LinkInv, TypeOK
  <2>4. StreamInv(s)'
    <3>1. credit'[s] = Window /\ spc'[s] = "body" /\ ~startw'[s]
      BY Zenon, <1>1, <1>2, <2>1 DEF LinkInv, TypeOK
    <3>2. StreamInv(s) /\ TypeOK
      BY Zenon DEF LinkInv
    <3>3. UNCHANGED <<cpc, table, alive, held, q, qend, qlost, unack, got, warned,
                      grantw, wire, endw, sent>>
      BY Zenon, <1>1, <2>1
    <3>4. (Unsent(s) /\ OneEnd(s) /\ EndIsLast(s))'
      BY Zenon, <1>2, <3>1, <3>3 DEF Unsent, OneEnd, EndIsLast
    <3>5. (Credit(s) /\ OnItsWay(s) /\ NoneMissing(s))'
      BY SMTT(40), <1>2, <3>1, <3>3, LinkAssumption DEF Credit, OnItsWay,
           NoneMissing, D
    <3>6. (ReaderOver(s) /\ Outcome(s))'
      BY Zenon, <1>2, <3>1, <3>2, <3>3 DEF StreamInv, ReaderOver, Outcome
    <3> QED BY Zenon, <3>4, <3>5, <3>6 DEF StreamInv
  <2> QED BY Zenon, <2>2, <2>3, <2>4 DEF LinkInv
<1> QED BY Zenon, <1>3, <1>4

\* Credit moves from the wire to the semaphore, up to its ceiling.
LEMMA GrantArrivesStep ==
  ASSUME LinkInv, NEW s \in Stream, GrantArrives(s) PROVE LinkInv'
<1>1. TypeOK'
  BY SMTT(40), LinkAssumption, BatchType DEF LinkInv, TypeOK, GrantArrives,
       chanVars, upVars, downVars, wayVars, serverVars, Phases, Opening, Ended,
       Tasks, Held
<1>2. ASSUME NEW t \in Stream, t # s PROVE StreamInv(t)'
  BY Zenon, <1>2, Untouched DEF LinkInv, TypeOK, GrantArrives, chanVars, upVars,
       downVars, wayVars, serverVars
<1>3. StreamInv(s)'
  BY SMTT(40), LinkAssumption, BatchType DEF LinkInv, TypeOK, GrantArrives,
       chanVars, upVars, downVars, wayVars, serverVars, StreamInv, Unsent,
       Credit, OnItsWay, NoneMissing, OneEnd, EndIsLast, ReaderOver, Outcome, D,
       Receiving, Opening
<1> QED BY Zenon, <1>1, <1>2, <1>3 DEF LinkInv

\* A cancelled stream loses its credit.
LEMMA CancelArrivesStep ==
  ASSUME LinkInv, NEW s \in Stream, CancelArrives(s) PROVE LinkInv'
<1>1. TypeOK'
  BY Zenon, LinkAssumption, BatchType DEF LinkInv, TypeOK, CancelArrives,
       chanVars, upVars, downVars, wayVars, serverVars, Phases, Opening, Ended,
       Tasks, Held
<1>2. ASSUME NEW t \in Stream, t # s PROVE StreamInv(t)'
  BY Zenon, <1>2, Untouched DEF LinkInv, TypeOK, CancelArrives, chanVars,
       upVars, downVars, wayVars, serverVars
<1>3. StreamInv(s)'
  BY SMTT(40), LinkAssumption, BatchType DEF LinkInv, TypeOK, CancelArrives,
       chanVars, upVars, downVars, wayVars, serverVars, StreamInv, Unsent,
       Credit, OnItsWay, NoneMissing, OneEnd, EndIsLast, ReaderOver, Outcome, D,
       Receiving, Opening
<1> QED BY Zenon, <1>1, <1>2, <1>3 DEF LinkInv

\* The loop that ends takes the frames it has not read with it.
LEMMA ServeEndsStep ==
  ASSUME LinkInv, ServeEnds PROVE LinkInv'
<1>1. TypeOK'
  BY Zenon, LinkAssumption, BatchType DEF LinkInv, TypeOK, ServeEnds, chanVars,
       upVars, downVars, wayVars, serverVars, Phases, Opening, Ended, Tasks,
       Held
<1>2. ASSUME NEW t \in Stream PROVE StreamInv(t)'
  BY SMTT(40), LinkAssumption, BatchType DEF LinkInv, TypeOK, ServeEnds,
       chanVars, upVars, downVars, wayVars, serverVars, StreamInv, Unsent,
       Credit, OnItsWay, NoneMissing, OneEnd, EndIsLast, ReaderOver, Outcome, D,
       Receiving, Opening
<1> QED BY Zenon, <1>1, <1>2 DEF LinkInv

\* The service's body only moves its own task.
LEMMA ProduceStep ==
  ASSUME LinkInv, NEW s \in Stream, Produce(s) PROVE LinkInv'
<1>1. TypeOK'
  BY Zenon, LinkAssumption, BatchType DEF LinkInv, TypeOK, Produce,
       OtherThanTask, TaskGoes, chanVars, upVars, downVars, wayVars, serverVars,
       Phases, Opening, Ended, Tasks, Held
<1>2. ASSUME NEW t \in Stream, t # s PROVE StreamInv(t)'
  BY Zenon, <1>2, Untouched DEF LinkInv, TypeOK, Produce, OtherThanTask,
       TaskGoes, chanVars, upVars, downVars, wayVars, serverVars
<1>3. StreamInv(s)'
  BY Zenon, LinkAssumption, BatchType DEF LinkInv, TypeOK, Produce,
       OtherThanTask, TaskGoes, chanVars, upVars, downVars, wayVars, serverVars,
       StreamInv, Unsent, Credit, OnItsWay, NoneMissing, OneEnd, EndIsLast,
       ReaderOver, Outcome, D, Receiving, Opening
<1> QED BY Zenon, <1>1, <1>2, <1>3 DEF LinkInv

\* An act only moves its own task.
LEMMA PerformStep ==
  ASSUME LinkInv, NEW s \in Stream, Perform(s) PROVE LinkInv'
<1>1. TypeOK'
  BY Zenon, LinkAssumption, BatchType DEF LinkInv, TypeOK, Perform,
       OtherThanTask, TaskGoes, chanVars, upVars, downVars, wayVars, serverVars,
       Phases, Opening, Ended, Tasks, Held
<1>2. ASSUME NEW t \in Stream, t # s PROVE StreamInv(t)'
  BY Zenon, <1>2, Untouched DEF LinkInv, TypeOK, Perform, OtherThanTask,
       TaskGoes, chanVars, upVars, downVars, wayVars, serverVars
<1>3. StreamInv(s)'
  BY Zenon, LinkAssumption, BatchType DEF LinkInv, TypeOK, Perform,
       OtherThanTask, TaskGoes, chanVars, upVars, downVars, wayVars, serverVars,
       StreamInv, Unsent, Credit, OnItsWay, NoneMissing, OneEnd, EndIsLast,
       ReaderOver, Outcome, D, Receiving, Opening
<1> QED BY Zenon, <1>1, <1>2, <1>3 DEF LinkInv

\* A frame costs one unit of credit.
LEMMA EmitStep ==
  ASSUME LinkInv, NEW s \in Stream, Emit(s) PROVE LinkInv'
<1>1. TypeOK'
  BY SMTT(40), LinkAssumption, BatchType DEF LinkInv, TypeOK, Emit,
       OtherThanTask, TaskGoes, DownOpen, chanVars, upVars, downVars, wayVars,
       serverVars, Phases, Opening, Ended, Tasks, Held
<1>2. ASSUME NEW t \in Stream, t # s PROVE StreamInv(t)'
  BY SMTT(40), <1>2, Untouched DEF LinkInv, TypeOK, Emit, OtherThanTask,
       TaskGoes, DownOpen, chanVars, upVars, downVars, wayVars, serverVars
<1>3. StreamInv(s)'
  <2>1. /\ spc[s] \in {"sending", "replying", "failing"}
        /\ spc'[s] \in {"body", "finish"}
        /\ UNCHANGED <<cpc, table, alive, held, q, qend, qlost, unack, got, warned,
                       startw, grantw, endw>>
    BY Zenon DEF LinkInv, TypeOK, Emit, OtherThanTask, TaskGoes, chanVars,
         upVars, downVars, wayVars, serverVars
  <2>2. StreamInv(s) /\ TypeOK
    BY Zenon DEF LinkInv
  <2>3. CASE UNCHANGED <<credit, wire, sent>>
    BY Zenon, <2>1, <2>2, <2>3, Counts DEF StreamInv, Unsent, Credit, OnItsWay,
         NoneMissing, OneEnd, EndIsLast, ReaderOver, Outcome, D, Receiving,
         Opening
  <2>4. CASE /\ credit[s] > 0 /\ credit'[s] = credit[s] - 1
             /\ sent'[s] = sent[s] + 1
             /\ wire'[s] = IF DownOpen THEN wire[s] + 1 ELSE wire[s]
    BY SMTT(40), <2>1, <2>2, <2>4, Counts DEF DownOpen, StreamInv, Unsent,
         Credit, OnItsWay, NoneMissing, OneEnd, EndIsLast, ReaderOver, Outcome,
         D, Receiving, Opening
  <2> QED BY Zenon, <2>2, <2>3, <2>4 DEF Emit, TypeOK
<1> QED BY Zenon, <1>1, <1>2, <1>3 DEF LinkInv

\* End is sent once, by a task that sends nothing after it.
LEMMA FinishStep ==
  ASSUME LinkInv, NEW s \in Stream, Finish(s) PROVE LinkInv'
<1>1. TypeOK'
  BY Zenon, LinkAssumption, BatchType DEF LinkInv, TypeOK, Finish,
       OtherThanTask, TaskGoes, DownOpen, chanVars, upVars, downVars, wayVars,
       serverVars, Phases, Opening, Ended, Tasks, Held
<1>2. ASSUME NEW t \in Stream, t # s PROVE StreamInv(t)'
  BY Zenon, <1>2, Untouched DEF LinkInv, TypeOK, Finish, OtherThanTask,
       TaskGoes, DownOpen, chanVars, upVars, downVars, wayVars, serverVars
<1>3. StreamInv(s)'
  BY Zenon, LinkAssumption, BatchType DEF LinkInv, TypeOK, Finish,
       OtherThanTask, TaskGoes, DownOpen, chanVars, upVars, downVars, wayVars,
       serverVars, StreamInv, Unsent, Credit, OnItsWay, NoneMissing, OneEnd,
       EndIsLast, ReaderOver, Outcome, D, Receiving, Opening
<1> QED BY Zenon, <1>1, <1>2, <1>3 DEF LinkInv

\* A finished stream leaves the table with its credit.
LEMMA RemoveStep ==
  ASSUME LinkInv, NEW s \in Stream, Remove(s) PROVE LinkInv'
<1>1. TypeOK'
  BY Zenon, LinkAssumption, BatchType DEF LinkInv, TypeOK, Remove,
       OtherThanTask, TaskGoes, chanVars, upVars, downVars, wayVars, serverVars,
       Phases, Opening, Ended, Tasks, Held
<1>2. ASSUME NEW t \in Stream, t # s PROVE StreamInv(t)'
  BY Zenon, <1>2, Untouched DEF LinkInv, TypeOK, Remove, OtherThanTask,
       TaskGoes, chanVars, upVars, downVars, wayVars, serverVars
<1>3. StreamInv(s)'
  BY SMTT(40), LinkAssumption, BatchType DEF LinkInv, TypeOK, Remove,
       OtherThanTask, TaskGoes, chanVars, upVars, downVars, wayVars, serverVars,
       StreamInv, Unsent, Credit, OnItsWay, NoneMissing, OneEnd, EndIsLast,
       ReaderOver, Outcome, D, Receiving, Opening
<1> QED BY Zenon, <1>1, <1>2, <1>3 DEF LinkInv

-----------------------------------------------------------------------------
(* The theorems *)

\* Every step keeps the invariant.
LEMMA LinkInvStep == LinkInv /\ [Next]_vars => LinkInv'
<1> SUFFICES ASSUME LinkInv, [Next]_vars PROVE LinkInv'
  OBVIOUS
<1>1. ASSUME NEW s \in Stream, Check(s) \/ Opens(s) \/ Cancel(s) \/ Drop(s)
      PROVE  LinkInv'
  BY Zenon, <1>1, CheckStep, InsertStep, StartStep, CancelStep, DropStep DEF
       Opens
<1>2. ASSUME NEW s \in Stream, Consumer(s) PROVE LinkInv'
  BY Zenon, <1>2, TakeDataStep, TakeAnswerStep, TakeEndStep, TakeLostStep,
       TakeClosedStep DEF Consumer
<1>3. ASSUME NEW s \in Stream, Task(s) PROVE LinkInv'
  BY Zenon, <1>3, ProduceStep, PerformStep, EmitStep, FinishStep, RemoveStep DEF
       Task
<1>4. CASE Reader
  BY Zenon, <1>4, RouteStep, DeliverStep, LinkEndsStep DEF Reader
<1>5. CASE Serve
  BY Zenon, <1>5, ServeEndsStep, AcceptStep, GrantArrivesStep, CancelArrivesStep
       DEF Serve
<1>6. CASE Hangup \/ Cut
  BY Zenon, <1>6, HangupStep, CutStep
<1>7. CASE UNCHANGED vars
  BY SMTT(40), <1>7 DEF vars, chanVars, upVars, downVars, wayVars, serverVars,
       LinkInv, TypeOK, StreamInv, Unsent, Credit, OnItsWay, NoneMissing,
       OneEnd, EndIsLast, ReaderOver, Outcome, D, Receiving
<1> QED BY Zenon, <1>1, <1>2, <1>3, <1>4, <1>5, <1>6, <1>7 DEF Next

\* The inductive invariant: credit is conserved, frames are neither lost nor
\* invented while their stream is registered, and End comes last.
THEOREM LinkInvariant == Spec => []LinkInv
<1>1. Init => LinkInv
  <2> SUFFICES ASSUME Init PROVE LinkInv
    OBVIOUS
  <2>1. TypeOK
    BY Zenon, LinkAssumption DEF Init, TypeOK, Phases, Opening, Tasks, Held
  <2>2. ASSUME NEW s \in Stream PROVE StreamInv(s)
    BY SMTT(40), LinkAssumption DEF Init, StreamInv, Unsent, Credit, OnItsWay,
         NoneMissing, OneEnd, EndIsLast, ReaderOver, Outcome, D, Receiving,
         Opening
  <2> QED BY Zenon, <2>1, <2>2 DEF LinkInv
<1> QED BY <1>1, LinkInvStep, PTL DEF Spec

\* Credit bounds what an agent of this code sends ahead of its consumer, for
\* every window, every batch it implies and every number of streams.
THEOREM SentWithinWindowHolds == Spec => []SentWithinWindow
<1>1. LinkInv => SentWithinWindow
  BY SMTT(40), LinkAssumption DEF LinkInv, TypeOK, StreamInv, Credit,
       SentWithinWindow
<1> QED BY <1>1, LinkInvariant, PTL

\* The reader never finds a full channel: its refusal of an overrun is reached
\* by no agent that keeps to its credit.
THEOREM NeverOverrunHolds == Spec => []NeverOverrun
<1>1. LinkInv => NeverOverrun
  <2> SUFFICES ASSUME LinkInv, NEW s \in Stream, held[s] # "none", Receiving(s)
               PROVE  HasRoom(s)
    BY Zenon DEF NeverOverrun
  <2>1. StreamInv(s) /\ alive /\ ~qlost[s]
    BY Zenon DEF LinkInv, TypeOK, StreamInv, ReaderOver
  <2> QED
    BY SMTT(40), <2>1, LinkAssumption DEF LinkInv, TypeOK, StreamInv, Credit,
         OnItsWay, OneEnd, D, HasRoom, Occupied, Held
<1> QED BY <1>1, LinkInvariant, PTL

\* A stream that ended in End delivered everything its producer sent.
THEOREM CompleteMeansAllHolds == Spec => []CompleteMeansAll
<1>1. LinkInv => CompleteMeansAll
  BY Zenon DEF LinkInv, StreamInv, Outcome, CompleteMeansAll
<1> QED BY <1>1, LinkInvariant, PTL

\* A query that ended without an End was told why.
THEOREM ClosedIsToldHolds == Spec => []ClosedIsTold
<1>1. LinkInv => ClosedIsTold
  BY Zenon DEF LinkInv, StreamInv, Outcome, ClosedIsTold
<1> QED BY <1>1, LinkInvariant, PTL
=============================================================================
