--------------------------- MODULE JobQueueProofs ---------------------------
(***************************************************************************)
(* Theorems about JobQueue for every set of workers and jobs, every bound  *)
(* on the attempts and every lease, heartbeat and clock skew that satisfy  *)
(* JobQueueAssumption and HeartbeatAssumption.                             *)
(***************************************************************************)
EXTENDS JobQueue, TLAPS

USE JobQueueAssumption

\* A backoff is a natural number of ticks.
LEMMA BackoffType == \A n \in Nat : Backoff(n) \in Nat
BY DEF Backoff, BackoffTable

\* Unleased builds rows.
LEMMA UnleasedType ==
    ASSUME NEW s \in Status, NEW n \in Nat, NEW t \in Int
    PROVE  Unleased(s, n, t) \in Row
BY DEF Unleased, Row, Floor

\* Counting down stays an integer.
LEMMA CountDownType == \A t \in Int : CountDown(t) \in Int
BY DEF CountDown, Floor

\* The reap of a claim leaves a table of rows.
LEMMA ReapedType ==
    ASSUME TypeOK, NEW w \in Workers
    PROVE  Reaped(w) \in [Jobs -> Row]
<1>1. ASSUME NEW j \in Jobs PROVE Unleased("queued", 0, Cooldown + Skew[w]) \in Row
  BY UnleasedType DEF Status
<1>2. ASSUME NEW j \in Jobs PROVE Unleased("failed", row[j].attempts, Floor) \in Row
  <2>1. row[j].attempts \in Nat
    BY DEF TypeOK, Row
  <2> QED BY <2>1, UnleasedType DEF Status, Floor
<1> QED BY <1>1, <1>2 DEF Reaped, TypeOK

LEMMA TypeInit == Init => TypeOK
BY DEF Init, TypeOK, NoRow, Row, Status, Phase, Floor


\* A process that has a row in hand has a row of the table.
LEMMA HeldIsJob ==
    ASSUME TypeOK, HandsAreFull, NEW w \in Workers,
           pc[w] \notin {"new", "idle", "dead"}
    PROVE  held[w] \in Jobs
BY DEF TypeOK, HandsAreFull

\* Retry leaves a row behind.
LEMMA RetriedType ==
    ASSUME NEW r \in Row, NEW j \in Jobs, NEW t \in Int
    PROVE  RetriedRow(r, j, t) \in Row
<1>1. r.attempts \in Nat
  BY DEF Row
<1>2. /\ Unleased("queued", 0, t + Cooldown) \in Row
      /\ Unleased("queued", r.attempts, t) \in Row
      /\ Unleased("failed", r.attempts, Floor) \in Row
  BY <1>1, UnleasedType DEF Status, Floor
<1> QED BY <1>2 DEF RetriedRow

\* Every step keeps the variables in their types (HandsAreFull tells that a
\* busy process has a row in hand).
LEMMA TypeStep == TypeOK /\ HandsAreFull /\ [Next]_vars => TypeOK'
<1> SUFFICES ASSUME TypeOK, HandsAreFull, [Next]_vars PROVE TypeOK'
  OBVIOUS
<1>1. ASSUME NEW j \in Jobs, Enqueue(j) PROVE TypeOK'
  <2>1. Unleased("queued", 0, 0) \in Row
    BY UnleasedType DEF Status
  <2> QED BY <1>1, <2>1 DEF Enqueue, TypeOK
<1>2. ASSUME NEW j \in Jobs, CancelQueued(j) PROVE TypeOK'
  <2>0. row[j].attempts \in Nat
    BY DEF TypeOK, Row
  <2>1. Unleased("cancelled", row[j].attempts, Floor) \in Row
    BY <2>0, UnleasedType DEF Status, Floor
  <2> QED BY <1>2, <2>1 DEF CancelQueued, TypeOK
<1>3. ASSUME NEW j \in Jobs, DeleteWithSource(j) PROVE TypeOK'
  <2>1. Unleased("deleted", 0, Floor) \in Row
    BY UnleasedType DEF Status, Floor
  <2> QED BY <1>3, <2>1 DEF DeleteWithSource, TypeOK
<1>4. ASSUME NEW w \in Workers, NEW j \in Jobs, Claim(w, j) PROVE TypeOK'
  <2>1. Reaped(w) \in [Jobs -> Row]
    BY ReapedType
  <2>2. [status |-> "running", attempts |-> Reaped(w)[j].attempts + 1, owner |-> w,
         lease |-> LeaseTime + Skew[w], wait |-> Floor] \in Row
    BY <2>1 DEF Row, Status, Floor
  <2>3. row' \in [Jobs -> Row]
    BY <1>4, <2>1, <2>2 DEF Claim
  <2>4. Reaped(w)[j].attempts + 1 \in Nat
    BY <2>1 DEF Row
  <2> QED BY <1>4, <2>3, <2>4 DEF Claim, TypeOK, Phase
<1>5. ASSUME NEW w \in Workers, ClaimNothing(w) PROVE TypeOK'
  BY <1>5, ReapedType DEF ClaimNothing, TypeOK
<1>6. ASSUME NEW w \in Workers, HeartbeatRenews(w) PROVE TypeOK'
  <2>1. held[w] \in Jobs
    BY <1>6, HeldIsJob DEF HeartbeatRenews
  <2>2. Later(row[held[w]].lease, LeaseTime + Skew[w]) \in Int
    BY <2>1 DEF Later, TypeOK, Row
  <2>3. row' \in [Jobs -> Row]
    BY <1>6, <2>1, <2>2 DEF HeartbeatRenews, TypeOK, Row
  <2> QED BY <1>6, <2>3 DEF HeartbeatRenews, TypeOK
<1>7. ASSUME NEW w \in Workers,
             HeartbeatLosesLease(w) \/ HeartbeatFails(w) \/ Start(w) \/ Stall(w)
      PROVE  TypeOK'
  BY <1>7 DEF HeartbeatLosesLease, HeartbeatFails, Start, Stall, TypeOK, Phase
<1>8. ASSUME NEW w \in Workers, NEW outcome \in {"succeeded", "erred"},
             HandlerReturns(w, outcome)
      PROVE  TypeOK'
  BY <1>8 DEF HandlerReturns, TypeOK, Phase
<1>9. ASSUME NEW w \in Workers,
             HandlerAborts(w) \/ FinishRefused(w) \/ FinishFails(w) \/ Crash(w)
      PROVE  TypeOK'
  BY <1>9 DEF HandlerAborts, FinishRefused, FinishFails, Crash, Release, TypeOK, Phase
<1>10. ASSUME NEW w \in Workers, Complete(w) PROVE TypeOK'
  <2>1. held[w] \in Jobs
    BY <1>10, HeldIsJob DEF Complete
  <2>2. /\ Unleased("deleted", 0, Floor) \in Row
        /\ Unleased("completed", row[held[w]].attempts, Floor) \in Row
    <3>1. row[held[w]].attempts \in Nat
      BY <2>1 DEF TypeOK, Row
    <3> QED BY <3>1, UnleasedType DEF Status, Floor
  <2>3. row' \in [Jobs -> Row]
    BY <1>10, <2>1, <2>2 DEF Complete, TypeOK
  <2> QED BY <1>10, <2>3 DEF Complete, Release, TypeOK, Phase
<1>11. ASSUME NEW w \in Workers, Retry(w) PROVE TypeOK'
  <2>1. held[w] \in Jobs
    BY <1>11, HeldIsJob DEF Retry
  <2>2. Backoff(tries[w]) + Skew[w] \in Int
    BY BackoffType DEF TypeOK
  <2>3. RetriedRow(row[held[w]], held[w], Backoff(tries[w]) + Skew[w]) \in Row
    BY <2>1, <2>2, RetriedType DEF TypeOK
  <2>4. row' \in [Jobs -> Row]
    BY <1>11, <2>1, <2>3 DEF Retry, TypeOK
  <2> QED BY <1>11, <2>4 DEF Retry, Release, TypeOK, Phase
<1>12. ASSUME Tick PROVE TypeOK'
  <2>1. ASSUME NEW j \in Jobs
        PROVE  [row[j] EXCEPT !.lease = IF row[j].status = "running"
                                        THEN CountDown(@) ELSE @,
                              !.wait = IF row[j].status = "queued"
                                       THEN CountDown(@) ELSE @] \in Row
    <3>1. /\ row[j] \in Row
          /\ row[j].lease \in Int
          /\ row[j].wait \in Int
      BY DEF TypeOK, Row
    <3>2. CountDown(row[j].lease) \in Int /\ CountDown(row[j].wait) \in Int
      BY <3>1, CountDownType
    <3> QED BY <3>1, <3>2 DEF Row
  <2>2. row' \in [Jobs -> Row]
    BY <1>12, <2>1 DEF Tick
  <2>3. beat' \in [Workers -> 0..HeartbeatTime]
    <3>1. ASSUME NEW w \in Workers
          PROVE  (IF beat[w] > 0 THEN beat[w] - 1 ELSE 0) \in 0..HeartbeatTime
      BY DEF TypeOK
    <3> QED BY <1>12, <3>1 DEF Tick
  <2> QED BY <1>12, <2>2, <2>3 DEF Tick, TypeOK
<1>13. CASE UNCHANGED vars
  BY <1>13 DEF vars, TypeOK
<1> QED
  BY <1>1, <1>2, <1>3, <1>4, <1>5, <1>6, <1>7, <1>8, <1>9, <1>10, <1>11,
     <1>12, <1>13 DEF Next, WorkerStep


----------------------------------------------------------------------------

\* Rows without a lease are not stranded if their attempts are not used up
\* while they are queued, and a cleanup row stays queued or goes.
LEMMA UnleasedNotStranded ==
    ASSUME NEW j \in Jobs, NEW s \in Status, NEW n \in Nat, NEW t \in Int,
           s # "running", n <= MaxAttempts,
           s = "queued" => n < MaxAttempts,
           j \in Cleanup => s \in {"queued", "deleted"}
    PROVE  NotStranded(Unleased(s, n, t), j)
BY DEF NotStranded, Unleased

\* The reap strands no row.
LEMMA ReapedNotStranded ==
    ASSUME TypeOK, NoRowIsStranded, NEW w \in Workers, NEW j \in Jobs
    PROVE  NotStranded(Reaped(w)[j], j)
<1>1. row[j].attempts \in Nat /\ NotStranded(row[j], j)
  BY DEF TypeOK, Row, NoRowIsStranded
<1>2. CASE ~ExpiredFinal(j, w)
  BY <1>1, <1>2 DEF Reaped
<1>3. CASE ExpiredFinal(j, w) /\ j \in Cleanup
  <2>1. Reaped(w)[j] = Unleased("queued", 0, Cooldown + Skew[w])
    BY <1>3 DEF Reaped
  <2> QED BY <2>1, UnleasedNotStranded DEF Status
<1>4. CASE ExpiredFinal(j, w) /\ j \notin Cleanup
  <2>1. Reaped(w)[j] = Unleased("failed", row[j].attempts, Floor)
    BY <1>4 DEF Reaped
  <2>2. row[j].attempts <= MaxAttempts
    BY <1>1 DEF NotStranded
  <2> QED BY <1>1, <1>4, <2>1, <2>2, UnleasedNotStranded DEF Status, Floor
<1> QED BY <1>2, <1>3, <1>4

\* No step strands a row.
LEMMA StrandedStep ==
    TypeOK /\ HandsAreFull /\ NoRowIsStranded /\ [Next]_vars => NoRowIsStranded'
<1> SUFFICES ASSUME TypeOK, HandsAreFull, NoRowIsStranded, [Next]_vars,
                    NEW i \in Jobs
             PROVE  NotStranded(row'[i], i)
  BY DEF NoRowIsStranded
<1>0. /\ NotStranded(row[i], i)
      /\ row[i] \in Row
      /\ row[i].attempts \in Nat
      /\ row[i].attempts <= MaxAttempts
  BY DEF NoRowIsStranded, NotStranded, TypeOK, Row
<1>1. ASSUME NEW j \in Jobs, Enqueue(j) PROVE NotStranded(row'[i], i)
  <2>1. NotStranded(Unleased("queued", 0, 0), i)
    BY UnleasedNotStranded DEF Status
  <2> QED BY <1>0, <1>1, <2>1 DEF Enqueue, TypeOK
<1>2. ASSUME NEW j \in Jobs, CancelQueued(j) PROVE NotStranded(row'[i], i)
  <2>1. CASE i = j
    <3>1. row'[i] = Unleased("cancelled", row[i].attempts, Floor)
      BY <1>2, <2>1 DEF CancelQueued, TypeOK
    <3>2. i \notin Cleanup
      BY <1>2, <2>1 DEF CancelQueued
    <3> QED BY <1>0, <3>1, <3>2, UnleasedNotStranded DEF Status, Floor
  <2> QED BY <1>0, <1>2, <2>1 DEF CancelQueued, TypeOK
<1>3. ASSUME NEW j \in Jobs, DeleteWithSource(j) PROVE NotStranded(row'[i], i)
  <2>1. NotStranded(Unleased("deleted", 0, Floor), i)
    BY UnleasedNotStranded DEF Status, Floor
  <2> QED BY <1>0, <1>3, <2>1 DEF DeleteWithSource, TypeOK
<1>4. ASSUME NEW w \in Workers, NEW j \in Jobs, Claim(w, j)
      PROVE  NotStranded(row'[i], i)
  <2>1. Reaped(w) \in [Jobs -> Row]
    BY ReapedType
  <2>2. CASE i = j
    <3>1. row'[i] = [status |-> "running", attempts |-> Reaped(w)[i].attempts + 1,
                     owner |-> w, lease |-> LeaseTime + Skew[w], wait |-> Floor]
      BY <1>4, <2>1, <2>2 DEF Claim
    <3>2. Reaped(w)[i].attempts \in Nat /\ Reaped(w)[i].attempts < MaxAttempts
      BY <1>4, <2>1, <2>2 DEF Claim, Claimable, Row
    <3> QED BY <3>1, <3>2 DEF NotStranded
  <2>3. CASE i # j
    <3>1. row'[i] = Reaped(w)[i]
      BY <1>4, <2>1, <2>3 DEF Claim
    <3> QED BY <3>1, ReapedNotStranded
  <2> QED BY <2>2, <2>3
<1>5. ASSUME NEW w \in Workers, ClaimNothing(w) PROVE NotStranded(row'[i], i)
  BY <1>5, ReapedNotStranded DEF ClaimNothing
<1>6. ASSUME NEW w \in Workers, HeartbeatRenews(w) PROVE NotStranded(row'[i], i)
  <2>1. /\ row'[i].status = row[i].status
        /\ row'[i].attempts = row[i].attempts
        /\ row'[i].owner = row[i].owner
    BY <1>0, <1>6 DEF HeartbeatRenews, TypeOK, Row
  <2> QED BY <1>0, <2>1 DEF NotStranded
<1>7. ASSUME NEW w \in Workers, Complete(w) PROVE NotStranded(row'[i], i)
  <2>1. CASE i = held[w]
    <3>1. row'[i] = IF i \in Cleanup
                    THEN Unleased("deleted", 0, Floor)
                    ELSE Unleased("completed", row[i].attempts, Floor)
      BY <1>7, <2>1 DEF Complete, TypeOK
    <3>2. NotStranded(Unleased("deleted", 0, Floor), i)
      BY UnleasedNotStranded DEF Status, Floor
    <3>3. i \notin Cleanup =>
             NotStranded(Unleased("completed", row[i].attempts, Floor), i)
      BY <1>0, UnleasedNotStranded DEF Status, Floor
    <3> QED BY <3>1, <3>2, <3>3
  <2>2. CASE i # held[w]
    BY <1>0, <1>7, <2>2 DEF Complete, TypeOK
  <2> QED BY <2>1, <2>2
<1>8. ASSUME NEW w \in Workers, Retry(w) PROVE NotStranded(row'[i], i)
  <2>1. CASE i = held[w]
    <3> DEFINE t == Backoff(tries[w]) + Skew[w]
    <3>1. row'[i] = RetriedRow(row[i], i, t)
      BY <1>8, <2>1 DEF Retry, TypeOK
    <3>2. t \in Int /\ t + Cooldown \in Int
      BY BackoffType DEF TypeOK
    <3>3. CASE i \in Cleanup /\ row[i].attempts >= MaxAttempts
      <4>1. NotStranded(Unleased("queued", 0, t + Cooldown), i)
        BY <3>2, UnleasedNotStranded DEF Status
      <4> QED BY <3>1, <3>3, <4>1 DEF RetriedRow
    <3>4. CASE row[i].attempts < MaxAttempts
      <4>1. NotStranded(Unleased("queued", row[i].attempts, t), i)
        BY <1>0, <3>2, <3>4, UnleasedNotStranded DEF Status
      <4> QED BY <1>0, <3>1, <3>4, <4>1 DEF RetriedRow
    <3>5. CASE i \notin Cleanup /\ row[i].attempts >= MaxAttempts
      <4>1. NotStranded(Unleased("failed", row[i].attempts, Floor), i)
        BY <1>0, <3>5, UnleasedNotStranded DEF Status, Floor
      <4> QED BY <3>1, <3>5, <4>1 DEF RetriedRow
    <3> QED BY <1>0, <3>3, <3>4, <3>5
  <2>2. CASE i # held[w]
    BY <1>0, <1>8, <2>2 DEF Retry, TypeOK
  <2> QED BY <2>1, <2>2
<1>9. CASE Tick
  <2>1. /\ row'[i].status = row[i].status
        /\ row'[i].attempts = row[i].attempts
        /\ row'[i].owner = row[i].owner
    BY <1>0, <1>9 DEF Tick, TypeOK, Row
  <2> QED BY <1>0, <2>1 DEF NotStranded
<1>10. CASE UNCHANGED row
  BY <1>0, <1>10
<1>11. ASSUME NEW w \in Workers,
              \/ HeartbeatLosesLease(w) \/ HeartbeatFails(w) \/ Start(w) \/ Stall(w)
              \/ HandlerAborts(w) \/ FinishRefused(w) \/ FinishFails(w) \/ Crash(w)
              \/ \E outcome \in {"succeeded", "erred"} : HandlerReturns(w, outcome)
       PROVE  NotStranded(row'[i], i)
  <2>1. UNCHANGED row
    BY <1>11 DEF HeartbeatLosesLease, HeartbeatFails, Start, Stall, HandlerAborts,
                 FinishRefused, FinishFails, Crash, HandlerReturns
  <2> QED BY <1>0, <2>1
<1> QED
  BY <1>1, <1>2, <1>3, <1>4, <1>5, <1>6, <1>7, <1>8, <1>9, <1>10, <1>11
  DEF Next, WorkerStep, vars


----------------------------------------------------------------------------

\* A tick counts deadlines down and leaves the rest of a row alone.
LEMMA TickKeepsRow ==
    ASSUME TypeOK, Tick, NEW j \in Jobs
    PROVE  /\ row'[j].status = row[j].status
           /\ row'[j].attempts = row[j].attempts
           /\ row'[j].owner = row[j].owner
           /\ row'[j].lease = IF row[j].status = "running"
                              THEN CountDown(row[j].lease) ELSE row[j].lease
<1>1. row[j] \in Row
  BY DEF TypeOK
<1> QED BY <1>1 DEF Tick, Row

\* The hands of a process are full exactly while it works on a job.
LEMMA HandsStep == TypeOK /\ HandsAreFull /\ [Next]_vars => HandsAreFull'
<1> SUFFICES ASSUME TypeOK, HandsAreFull, [Next]_vars PROVE HandsAreFull'
  OBVIOUS
<1>1. ASSUME NEW w \in Workers, NEW j \in Jobs, Claim(w, j) PROVE HandsAreFull'
  BY <1>1 DEF Claim, HandsAreFull, TypeOK
<1>2. ASSUME NEW w \in Workers,
             \/ HandlerAborts(w) \/ Complete(w) \/ Retry(w) \/ FinishRefused(w)
             \/ FinishFails(w) \/ Crash(w)
      PROVE  HandsAreFull'
  BY <1>2 DEF HandlerAborts, Complete, Retry, FinishRefused, FinishFails, Crash,
              Release, HandsAreFull, TypeOK
<1>3. ASSUME NEW w \in Workers,
             \/ HeartbeatLosesLease(w) \/ HeartbeatFails(w) \/ Start(w)
             \/ \E outcome \in {"succeeded", "erred"} : HandlerReturns(w, outcome)
      PROVE  HandsAreFull'
  BY <1>3 DEF HeartbeatLosesLease, HeartbeatFails, Start, HandlerReturns,
              HandsAreFull, TypeOK
<1>4. CASE UNCHANGED <<pc, held>>
  BY <1>4 DEF HandsAreFull
<1>5. ASSUME NEW w \in Workers, ClaimNothing(w) \/ HeartbeatRenews(w) \/ Stall(w)
      PROVE  HandsAreFull'
  BY <1>4, <1>5 DEF ClaimNothing, HeartbeatRenews, Stall
<1>6. ASSUME \/ \E j \in Jobs : Enqueue(j) \/ CancelQueued(j) \/ DeleteWithSource(j)
             \/ Tick
      PROVE  HandsAreFull'
  BY <1>4, <1>6 DEF Enqueue, CancelQueued, DeleteWithSource, Tick
<1> QED
  BY <1>1, <1>2, <1>3, <1>4, <1>5, <1>6 DEF Next, WorkerStep, vars

\* A row that a step leaves without a lease, or with the attempts and the
\* owner it had, cannot break the fencing of a worker whose hand the step
\* leaves alone or empties.
LEMMA FencingKept ==
    ASSUME TypeOK, LeaseIsFencing, NEW v \in Workers,
           held'[v] = Nobody \/ (held'[v] = held[v] /\ tries'[v] = tries[v]),
           NEW r, held[v] # Nobody => row'[held[v]] = r,
           held[v] # Nobody =>
              \/ r.owner = Nobody
              \/ r.owner = row[held[v]].owner /\ r.attempts = row[held[v]].attempts
    PROVE  held'[v] # Nobody /\ row'[held'[v]].owner = v =>
              row'[held'[v]].attempts = tries'[v]
BY DEF LeaseIsFencing, TypeOK

\* No step breaks the fencing.
LEMMA FencingStep ==
    TypeOK /\ HandsAreFull /\ LeaseIsFencing /\ [Next]_vars => LeaseIsFencing'
<1> SUFFICES ASSUME TypeOK, HandsAreFull, LeaseIsFencing, [Next]_vars,
                    NEW v \in Workers
             PROVE  held'[v] # Nobody /\ row'[held'[v]].owner = v =>
                       row'[held'[v]].attempts = tries'[v]
  BY DEF LeaseIsFencing
<1> DEFINE HandKept == held'[v] = Nobody \/ (held'[v] = held[v] /\ tries'[v] = tries[v])
           RowKept(h) == \/ row'[h].owner = Nobody
                         \/ /\ row'[h].owner = row[h].owner
                            /\ row'[h].attempts = row[h].attempts
<1>0. ASSUME HandKept, \A h \in Jobs : RowKept(h)
      PROVE  held'[v] # Nobody /\ row'[held'[v]].owner = v =>
                row'[held'[v]].attempts = tries'[v]
  <2>1. held[v] # Nobody => held[v] \in Jobs
    BY DEF TypeOK
  <2> QED BY <1>0, <2>1, FencingKept
<1>1. ASSUME NEW j \in Jobs, Enqueue(j) \/ CancelQueued(j) \/ DeleteWithSource(j)
      PROVE  HandKept /\ \A h \in Jobs : RowKept(h)
  BY <1>1 DEF Enqueue, CancelQueued, DeleteWithSource, Unleased, TypeOK
<1>2. ASSUME NEW w \in Workers, NEW h \in Jobs
      PROVE  \/ Reaped(w)[h].owner = Nobody
             \/ Reaped(w)[h] = row[h]
  BY DEF Reaped, Unleased
<1>3. ASSUME NEW w \in Workers, NEW j \in Jobs, Claim(w, j)
      PROVE  held'[v] # Nobody /\ row'[held'[v]].owner = v =>
                row'[held'[v]].attempts = tries'[v]
  <2>0. Reaped(w) \in [Jobs -> Row]
    BY ReapedType
  <2>1. row'[j].owner = w /\ row'[j].attempts = Reaped(w)[j].attempts + 1
    BY <1>3, <2>0 DEF Claim
  <2>2. CASE v = w
    BY <1>3, <2>1, <2>2 DEF Claim, TypeOK
  <2>3. CASE v # w /\ held[v] = j
    BY <1>3, <2>1, <2>3 DEF Claim, TypeOK
  <2>4. CASE v # w /\ held[v] # j
    <3>1. held'[v] = held[v] /\ tries'[v] = tries[v]
      BY <1>3, <2>4 DEF Claim, TypeOK
    <3>2. held[v] \in Jobs => row'[held[v]] = Reaped(w)[held[v]]
      BY <1>3, <2>0, <2>4 DEF Claim
    <3>3. held[v] \in Jobs => RowKept(held[v])
      BY <1>2, <3>2
    <3>4. held[v] \in Jobs \cup {Nobody}
      BY DEF TypeOK
    <3> QED BY <3>1, <3>3, <3>4, FencingKept
  <2> QED BY <2>2, <2>3, <2>4
<1>4. ASSUME NEW w \in Workers, ClaimNothing(w)
      PROVE  HandKept /\ \A h \in Jobs : RowKept(h)
  BY <1>2, <1>4 DEF ClaimNothing
<1>5. ASSUME NEW w \in Workers, HeartbeatRenews(w)
      PROVE  HandKept /\ \A h \in Jobs : RowKept(h)
  <2>1. held[w] \in Jobs
    BY <1>5, HeldIsJob DEF HeartbeatRenews
  <2> QED BY <1>5, <2>1 DEF HeartbeatRenews, TypeOK, Row
<1>6. ASSUME NEW w \in Workers, Complete(w) \/ Retry(w)
      PROVE  HandKept /\ \A h \in Jobs : RowKept(h)
  <2>1. HandKept
    BY <1>6 DEF Complete, Retry, Release, TypeOK
  <2>2. ASSUME NEW h \in Jobs PROVE RowKept(h)
    <3>1. CASE h = held[w]
      BY <1>6, <3>1 DEF Complete, Retry, RetriedRow, Unleased, TypeOK
    <3>2. CASE h # held[w]
      BY <1>6, <3>2 DEF Complete, Retry, TypeOK
    <3> QED BY <3>1, <3>2
  <2> QED BY <2>1, <2>2
<1>7. ASSUME NEW w \in Workers,
             \/ HandlerAborts(w) \/ FinishRefused(w) \/ FinishFails(w) \/ Crash(w)
             \/ HeartbeatLosesLease(w) \/ HeartbeatFails(w) \/ Start(w) \/ Stall(w)
             \/ \E outcome \in {"succeeded", "erred"} : HandlerReturns(w, outcome)
      PROVE  HandKept /\ \A h \in Jobs : RowKept(h)
  BY <1>7 DEF HandlerAborts, FinishRefused, FinishFails, Crash, Release,
              HeartbeatLosesLease, HeartbeatFails, Start, Stall, HandlerReturns, TypeOK
<1>8. ASSUME Tick PROVE HandKept /\ \A h \in Jobs : RowKept(h)
  BY <1>8, TickKeepsRow DEF Tick
<1>9. ASSUME UNCHANGED vars PROVE HandKept /\ \A h \in Jobs : RowKept(h)
  BY <1>9 DEF vars
<1> QED
  BY <1>0, <1>1, <1>3, <1>4, <1>5, <1>6, <1>7, <1>8, <1>9 DEF Next, WorkerStep


----------------------------------------------------------------------------

\* A running lease on which every clock agrees is neither reaped nor claimed.
LEMMA ValidLeaseIsKept ==
    ASSUME TypeOK, NEW w \in Workers, NEW j \in Jobs,
           row[j].status = "running", row[j].lease > MaxSkew
    PROVE  Reaped(w)[j] = row[j] /\ ~Claimable(Reaped(w)[j], w)
<1>1. row[j].lease \in Int /\ Skew[w] \in Int /\ Skew[w] <= MaxSkew
  BY DEF TypeOK, Row
<1>2. ~ExpiredFinal(j, w)
  BY <1>1 DEF ExpiredFinal
<1>3. Reaped(w)[j] = row[j]
  BY <1>2 DEF Reaped
<1> QED BY <1>1, <1>3 DEF Claimable

\* What LeaseOutlivesBeat says of a worker, with its row passed as r.
Outlives(v, r) ==
    \/ /\ r.owner = v
       /\ r.lease >= LeaseTime + Skew[v] - HeartbeatTime + beat[v]
    \/ r.status = "deleted"

\* The margin of a healthy worker is more than every clock difference.
LEMMA OutlivesIsValid ==
    ASSUME TypeOK, NoRowIsStranded, NEW v \in Workers, held[v] \in Jobs,
           row[held[v]].owner = v,
           row[held[v]].lease >= LeaseTime + Skew[v] - HeartbeatTime + beat[v]
    PROVE  row[held[v]].status = "running" /\ row[held[v]].lease > MaxSkew
<1>1. row[held[v]].lease \in Int /\ beat[v] \in Nat /\ Skew[v] \in Int
  BY DEF TypeOK, Row
<1>2. -MaxSkew <= Skew[v]
  OBVIOUS
<1>3. row[held[v]].lease > MaxSkew
  BY <1>1, <1>2, HeartbeatAssumption
<1>4. row[held[v]].status = "running"
  BY DEF NoRowIsStranded, NotStranded
<1> QED BY <1>3, <1>4

\* A healthy worker's lease outlives its next heartbeat in every step.
LEMMA OutlivesStep ==
    IInv /\ [Next]_vars => LeaseOutlivesBeat'
<1> SUFFICES ASSUME IInv, [Next]_vars, NEW v \in Workers,
                    pc'[v] = "handling", v \notin stalled'
             PROVE  \/ /\ row'[held'[v]].owner = v
                       /\ row'[held'[v]].lease
                             >= LeaseTime + Skew[v] - HeartbeatTime + beat'[v]
                    \/ row'[held'[v]].status = "deleted"
  BY DEF LeaseOutlivesBeat
<1> USE DEF IInv
<1> DEFINE Busy == pc[v] = "handling" /\ v \notin stalled /\ held'[v] = held[v]
           Good == \/ /\ row'[held'[v]].owner = v
                      /\ row'[held'[v]].lease
                            >= LeaseTime + Skew[v] - HeartbeatTime + beat'[v]
                   \/ row'[held'[v]].status = "deleted"
<1>0. Busy => /\ held[v] \in Jobs
              /\ Outlives(v, row[held[v]])
  BY HeldIsJob DEF LeaseOutlivesBeat, Outlives
<1>1. ASSUME Busy, beat'[v] = beat[v], row'[held[v]] = row[held[v]] PROVE Good
  BY <1>0, <1>1 DEF Outlives
<1>2. ASSUME NEW j \in Jobs, Enqueue(j) \/ CancelQueued(j) \/ DeleteWithSource(j)
      PROVE  Good
  <2>1. Busy /\ beat'[v] = beat[v]
    BY <1>2 DEF Enqueue, CancelQueued, DeleteWithSource
  <2>2. CASE held[v] # j
    BY <1>0, <1>1, <1>2, <2>1, <2>2 DEF Enqueue, CancelQueued, DeleteWithSource, TypeOK
  <2>3. CASE held[v] = j
    <3>1. row[j].status \in {"running", "deleted"}
      BY <1>0, <2>1, <2>3, OutlivesIsValid DEF Outlives
    <3>2. DeleteWithSource(j)
      BY <1>2, <3>1 DEF Enqueue, CancelQueued
    <3> QED BY <2>1, <2>3, <3>2 DEF DeleteWithSource, Unleased, TypeOK
  <2> QED BY <2>2, <2>3
<1>3. ASSUME NEW w \in Workers, NEW j \in Jobs, Claim(w, j) PROVE Good
  <2>0. Reaped(w) \in [Jobs -> Row]
    BY ReapedType
  <2>1. CASE v = w
    <3>1. held'[v] = j /\ beat'[v] = HeartbeatTime
      BY <1>3, <2>1 DEF Claim, TypeOK
    <3>2. row'[j].owner = v /\ row'[j].lease = LeaseTime + Skew[v]
      BY <1>3, <2>0, <2>1 DEF Claim
    <3> QED BY <3>1, <3>2
  <2>2. CASE v # w
    <3>1. Busy /\ beat'[v] = beat[v]
      BY <1>3, <2>2 DEF Claim, TypeOK
    <3>2. CASE row[held[v]].status = "deleted"
      <4>1. Reaped(w)[held[v]] = row[held[v]] /\ ~Claimable(row[held[v]], w)
        BY <1>0, <3>1, <3>2 DEF Reaped, ExpiredFinal, Claimable
      <4>2. held[v] # j
        BY <1>3, <4>1 DEF Claim
      <4> QED BY <1>0, <1>1, <1>3, <2>0, <3>1, <4>1, <4>2 DEF Claim
    <3>3. CASE row[held[v]].status # "deleted"
      <4>1. Reaped(w)[held[v]] = row[held[v]] /\ ~Claimable(Reaped(w)[held[v]], w)
        BY <1>0, <3>1, <3>3, OutlivesIsValid, ValidLeaseIsKept DEF Outlives
      <4>2. held[v] # j
        BY <1>3, <4>1 DEF Claim
      <4> QED BY <1>0, <1>1, <1>3, <2>0, <3>1, <4>1, <4>2 DEF Claim
    <3> QED BY <3>2, <3>3
  <2> QED BY <2>1, <2>2
<1>4. ASSUME NEW w \in Workers, ClaimNothing(w) PROVE Good
  <2>1. Busy /\ beat'[v] = beat[v]
    BY <1>4 DEF ClaimNothing
  <2>2. Reaped(w)[held[v]] = row[held[v]]
    <3>1. CASE row[held[v]].status = "deleted"
      BY <1>0, <2>1, <3>1 DEF Reaped, ExpiredFinal
    <3>2. CASE row[held[v]].status # "deleted"
      BY <1>0, <2>1, <3>2, OutlivesIsValid, ValidLeaseIsKept DEF Outlives
    <3> QED BY <3>1, <3>2
  <2> QED BY <1>1, <1>4, <2>1, <2>2 DEF ClaimNothing
<1>5. ASSUME NEW w \in Workers, HeartbeatRenews(w) PROVE Good
  <2>1. Busy
    BY <1>5 DEF HeartbeatRenews
  <2>2. held[w] \in Jobs
    BY <1>5, HeldIsJob DEF HeartbeatRenews
  <2>3. row[held[w]] \in Row /\ row[held[w]].lease \in Int
    BY <2>2 DEF TypeOK, Row
  <2>4. /\ row'[held[w]].owner = w
        /\ row'[held[w]].lease >= LeaseTime + Skew[w]
    BY <1>5, <2>2, <2>3 DEF HeartbeatRenews, Renewable, Later, TypeOK, Row
  <2>5. CASE v = w
    <3>1. beat'[v] = HeartbeatTime
      BY <1>5, <2>5 DEF HeartbeatRenews, TypeOK
    <3>2. row'[held[w]].lease \in Int
      BY <1>5, <2>2, <2>3 DEF HeartbeatRenews, Later, TypeOK, Row
    <3> QED BY <2>1, <2>4, <2>5, <3>1, <3>2
  <2>6. CASE v # w /\ held[v] # held[w]
    BY <1>0, <1>1, <1>5, <2>1, <2>6 DEF HeartbeatRenews, TypeOK
  <2>7. CASE v # w /\ held[v] = held[w]
    <3>1. row[held[v]].owner = w /\ row[held[v]].status = "running"
      BY <1>5, <2>7 DEF HeartbeatRenews, Renewable
    <3> QED BY <1>0, <2>1, <2>7, <3>1 DEF Outlives
  <2> QED BY <2>5, <2>6, <2>7
<1>6. ASSUME NEW w \in Workers, Complete(w) \/ Retry(w) PROVE Good
  <2>1. pc'[w] = "idle" /\ row[held[w]].owner = w /\ row[held[w]].status = "running"
    BY <1>6 DEF Complete, Retry, Release, Owns, TypeOK
  <2>2. v # w
    BY <2>1
  <2>3. Busy /\ beat'[v] = beat[v]
    BY <1>6, <2>2 DEF Complete, Retry, Release, TypeOK
  <2>4. held[v] # held[w]
    BY <1>0, <2>1, <2>2, <2>3 DEF Outlives
  <2> QED BY <1>0, <1>1, <1>6, <2>3, <2>4 DEF Complete, Retry, TypeOK
<1>7. ASSUME NEW w \in Workers,
             HandlerAborts(w) \/ FinishRefused(w) \/ FinishFails(w) \/ Crash(w)
      PROVE  Good
  <2>1. v # w
    BY <1>7 DEF HandlerAborts, FinishRefused, FinishFails, Crash, Release, TypeOK
  <2>2. Busy /\ beat'[v] = beat[v] /\ row' = row
    BY <1>7, <2>1 DEF HandlerAborts, FinishRefused, FinishFails, Crash, Release, TypeOK
  <2> QED BY <1>1, <2>2
<1>8. ASSUME NEW w \in Workers,
             \/ HeartbeatLosesLease(w) \/ HeartbeatFails(w) \/ Start(w) \/ Stall(w)
             \/ \E outcome \in {"succeeded", "erred"} : HandlerReturns(w, outcome)
      PROVE  Good
  <2>1. v # w \/ Stall(w)
    BY <1>8 DEF HeartbeatLosesLease, HeartbeatFails, Start, HandlerReturns, TypeOK
  <2>2. Busy /\ beat'[v] = beat[v] /\ row' = row
    BY <1>8, <2>1 DEF HeartbeatLosesLease, HeartbeatFails, Start, Stall,
                      HandlerReturns, TypeOK
  <2> QED BY <1>1, <2>2
<1>9. ASSUME Tick PROVE Good
  <2>1. Busy
    BY <1>9 DEF Tick
  <2>2. beat[v] # 0 /\ beat[v] \in Nat /\ beat'[v] = beat[v] - 1
    <3>1. beat[v] \in Nat
      BY DEF TypeOK
    <3>2. beat[v] # 0
      BY <1>9, <2>1 DEF Tick
    <3>3. beat'[v] = IF beat[v] > 0 THEN beat[v] - 1 ELSE 0
      BY <1>9 DEF Tick
    <3> QED BY <3>1, <3>2, <3>3
  <2>3. /\ row'[held[v]].status = row[held[v]].status
        /\ row'[held[v]].owner = row[held[v]].owner
        /\ row'[held[v]].lease = IF row[held[v]].status = "running"
                                 THEN CountDown(row[held[v]].lease)
                                 ELSE row[held[v]].lease
    BY <1>0, <1>9, <2>1, TickKeepsRow
  <2>4. CASE row[held[v]].status = "deleted"
    BY <2>1, <2>3, <2>4
  <2>5. CASE row[held[v]].status # "deleted"
    <3>1. /\ row[held[v]].owner = v
          /\ row[held[v]].lease >= LeaseTime + Skew[v] - HeartbeatTime + beat[v]
          /\ row[held[v]].lease > MaxSkew
          /\ row[held[v]].status = "running"
      BY <1>0, <2>1, <2>5, OutlivesIsValid DEF Outlives
    <3>2. row[held[v]].lease \in Int /\ Skew[v] \in Int
      BY <1>0, <2>1 DEF TypeOK, Row
    <3>3. CountDown(row[held[v]].lease) = row[held[v]].lease - 1
      BY <3>1, <3>2 DEF CountDown, Floor
    <3> QED BY <2>1, <2>2, <2>3, <3>1, <3>2, <3>3
  <2> QED BY <2>4, <2>5
<1>10. ASSUME UNCHANGED vars PROVE Good
  BY <1>1, <1>10 DEF vars
<1> QED
  BY <1>2, <1>3, <1>4, <1>5, <1>6, <1>7, <1>8, <1>9, <1>10 DEF Next, WorkerStep


----------------------------------------------------------------------------
(* The theorems.                                                           *)

LEMMA IInvInit == Init => IInv
<1> SUFFICES ASSUME Init PROVE IInv
  OBVIOUS
<1>1. TypeOK
  BY TypeInit
<1>2. NoRowIsStranded
  BY DEF Init, NoRowIsStranded, NotStranded, NoRow
<1>3. HandsAreFull /\ LeaseIsFencing /\ LeaseOutlivesBeat
  BY DEF Init, HandsAreFull, LeaseIsFencing, LeaseOutlivesBeat
<1> QED BY <1>1, <1>2, <1>3 DEF IInv

\* The inductive invariant: every step of the queue keeps all its parts.
THEOREM QueueInvariant == Spec => []IInv
<1>1. Init => IInv
  BY IInvInit
<1>2. IInv /\ [Next]_vars => IInv'
  BY TypeStep, StrandedStep, HandsStep, FencingStep, OutlivesStep DEF IInv
<1> QED BY <1>1, <1>2, PTL DEF Spec

\* Every variable keeps its type.
THEOREM QueueTypes == Spec => []TypeOK
<1>1. IInv => TypeOK
  BY DEF IInv
<1> QED BY <1>1, QueueInvariant, PTL

\* Retry and the reap leave no queued row that the claim would skip.
THEOREM NoStrandedRows == Spec => []NoRowIsStranded
<1>1. IInv => NoRowIsStranded
  BY DEF IInv
<1> QED BY <1>1, QueueInvariant, PTL

\* Heartbeats in time keep the lease whatever the clocks and the others do.
THEOREM HealthyKeepsLease == Spec => []HealthyWorkerKeepsLease
<1>1. IInv => HealthyWorkerKeepsLease
  <2> SUFFICES ASSUME IInv, NEW w \in Workers, pc[w] = "handling", w \notin stalled
               PROVE  \/ row[held[w]].owner = w /\ row[held[w]].lease > MaxSkew
                      \/ row[held[w]].status = "deleted"
    BY DEF HealthyWorkerKeepsLease
  <2>1. held[w] \in Jobs
    BY HeldIsJob DEF IInv
  <2> QED BY <2>1, OutlivesIsValid DEF IInv, LeaseOutlivesBeat
<1> QED BY <1>1, QueueInvariant, PTL


\* leased_by fences: whoever finishes a row brings its latest attempt.
THEOREM LatestAttemptFinishes == Spec => OnlyLatestAttemptFinishes
<1> DEFINE Fenced == \A w \in Workers :
                        /\ pc[w] \in {"succeeded", "erred"}
                        /\ pc'[w] = "idle"
                        /\ row' # row
                        => row[held[w]].attempts = tries[w]
<1>1. IInv /\ [Next]_vars => Fenced
  <2> SUFFICES ASSUME IInv, [Next]_vars, NEW w \in Workers,
                      pc[w] \in {"succeeded", "erred"}, pc'[w] = "idle", row' # row
               PROVE  row[held[w]].attempts = tries[w]
    OBVIOUS
  <2> USE DEF IInv
  <2>1. CASE Complete(w) \/ Retry(w)
    <3>1. held[w] \in Jobs /\ row[held[w]].owner = w
      BY <2>1, HeldIsJob DEF Complete, Retry, Owns
    <3> QED BY <3>1 DEF LeaseIsFencing
  <2>2. ASSUME NEW u \in Workers, Complete(u) \/ Retry(u), u # w PROVE FALSE
    BY <2>2 DEF Complete, Retry, Release, TypeOK
  <2>3. ASSUME NEW u \in Workers, NEW j \in Jobs, Claim(u, j) PROVE FALSE
    BY <2>3 DEF Claim, TypeOK
  <2>4. CASE UNCHANGED <<pc>> \/ UNCHANGED row
    BY <2>4
  <2>5. CASE UNCHANGED vars \/ Tick \/ \E j \in Jobs : Enqueue(j) \/ CancelQueued(j) \/ DeleteWithSource(j)
    BY <2>4, <2>5 DEF vars, Tick, Enqueue, CancelQueued, DeleteWithSource
  <2>6. ASSUME NEW u \in Workers,
               \/ ClaimNothing(u) \/ HeartbeatRenews(u) \/ HeartbeatLosesLease(u)
               \/ HeartbeatFails(u) \/ HandlerAborts(u) \/ FinishRefused(u)
               \/ FinishFails(u) \/ Start(u) \/ Crash(u) \/ Stall(u)
               \/ \E outcome \in {"succeeded", "erred"} : HandlerReturns(u, outcome)
        PROVE  UNCHANGED <<pc>> \/ UNCHANGED row
    BY <2>6 DEF ClaimNothing, HeartbeatRenews, HeartbeatLosesLease, HeartbeatFails,
                HandlerAborts, FinishRefused, FinishFails, Start, Crash, Stall,
                HandlerReturns
  <2> QED
    BY <2>1, <2>2, <2>3, <2>4, <2>5, <2>6 DEF Next, WorkerStep
<1>2. IInv /\ [Next]_vars => [Fenced]_vars
  BY <1>1
<1> QED BY <1>2, QueueInvariant, PTL DEF Spec, OnlyLatestAttemptFinishes

\* A lease that is valid on every clock cannot be taken away.
THEOREM ExclusiveLease == Spec => LeaseIsExclusive
<1> DEFINE Lost(j) == \/ row'[j].status = "deleted" /\ j \notin Cleanup
                      \/ /\ row'[j].owner = Nobody
                         /\ held[row[j].owner] = j
                         /\ pc[row[j].owner] \in {"succeeded", "erred"}
           Exclusive == \A j \in Jobs :
                           /\ row[j].status = "running"
                           /\ row[j].lease > MaxSkew
                           /\ row'[j].owner # row[j].owner
                           => Lost(j)
<1>1. IInv /\ [Next]_vars => Exclusive
  <2> SUFFICES ASSUME IInv, [Next]_vars, NEW j \in Jobs,
                      row[j].status = "running", row[j].lease > MaxSkew,
                      row'[j].owner # row[j].owner
               PROVE  Lost(j)
    OBVIOUS
  <2> USE DEF IInv
  <2>0. ASSUME row'[j] = row[j] PROVE FALSE
    BY <2>0
  <2>1. ASSUME NEW i \in Jobs, Enqueue(i) \/ CancelQueued(i) PROVE FALSE
    BY <2>0, <2>1 DEF Enqueue, CancelQueued, TypeOK
  <2>2. ASSUME NEW i \in Jobs, DeleteWithSource(i) PROVE Lost(j)
    BY <2>0, <2>2 DEF DeleteWithSource, Unleased, TypeOK
  <2>3. ASSUME NEW w \in Workers, NEW i \in Jobs, Claim(w, i) PROVE FALSE
    <3>1. Reaped(w)[j] = row[j] /\ ~Claimable(Reaped(w)[j], w)
      BY ValidLeaseIsKept
    <3>2. i # j
      BY <2>3, <3>1 DEF Claim
    <3>3. Reaped(w) \in [Jobs -> Row]
      BY ReapedType
    <3> QED BY <2>0, <2>3, <3>1, <3>2, <3>3 DEF Claim
  <2>4. ASSUME NEW w \in Workers, ClaimNothing(w) PROVE FALSE
    BY <2>0, <2>4, ValidLeaseIsKept DEF ClaimNothing
  <2>5. ASSUME NEW w \in Workers, HeartbeatRenews(w) PROVE FALSE
    BY <2>0, <2>5 DEF HeartbeatRenews, TypeOK, Row
  <2>6. ASSUME NEW w \in Workers, Complete(w) \/ Retry(w) PROVE Lost(j)
    <3>1. CASE held[w] = j
      BY <2>6, <3>1 DEF Complete, Retry, Owns, RetriedRow, Unleased, TypeOK
    <3>2. CASE held[w] # j
      BY <2>0, <2>6, <3>2 DEF Complete, Retry, TypeOK
    <3> QED BY <3>1, <3>2
  <2>7. ASSUME Tick PROVE FALSE
    BY <2>7, TickKeepsRow
  <2>8. ASSUME NEW w \in Workers,
               \/ HeartbeatLosesLease(w) \/ HeartbeatFails(w) \/ HandlerAborts(w)
               \/ FinishRefused(w) \/ FinishFails(w) \/ Start(w) \/ Crash(w) \/ Stall(w)
               \/ \E outcome \in {"succeeded", "erred"} : HandlerReturns(w, outcome)
        PROVE  FALSE
    BY <2>0, <2>8 DEF HeartbeatLosesLease, HeartbeatFails, HandlerAborts, FinishRefused,
                      FinishFails, Start, Crash, Stall, HandlerReturns
  <2>9. ASSUME UNCHANGED vars PROVE FALSE
    BY <2>0, <2>9 DEF vars
  <2> QED
    BY <2>1, <2>2, <2>3, <2>4, <2>5, <2>6, <2>7, <2>8, <2>9 DEF Next, WorkerStep
<1>2. IInv /\ [Next]_vars => [Exclusive]_vars
  BY <1>1
<1> QED BY <1>2, QueueInvariant, PTL DEF Spec, LeaseIsExclusive


----------------------------------------------------------------------------
(* The queue implements the contract of a job.                             *)

\* A step of the contract, read in the variables of the queue.
LEMMA BecomesInQueue ==
    ASSUME NEW j \in Jobs, NEW s, NEW n, NEW r,
           row'[j].status = s, row'[j].attempts = n, LatestResult(j)' = r
    PROVE  Contract!Becomes(j, s, n, r)
BY DEF Contract!Becomes

\* A job whose row, and whose owner's hand, a step leaves alone stays as it
\* is in the contract.
LEMMA SameInQueue ==
    ASSUME NEW j \in Jobs,
           row'[j].status = row[j].status,
           row'[j].attempts = row[j].attempts,
           LatestResult(j)' = LatestResult(j)
    PROVE  Contract!Same(j)
BY DEF Contract!Same, Contract!Becomes

\* Only a row that the reap left alone is claimed.
LEMMA ClaimedIsNotReaped ==
    ASSUME TypeOK, NEW w \in Workers, NEW j \in Jobs, Claimable(Reaped(w)[j], w)
    PROVE  ~ExpiredFinal(j, w) /\ Reaped(w)[j] = row[j]
<1>1. CASE ExpiredFinal(j, w)
  <2>1. Skew[w] \in Int
    OBVIOUS
  <2> QED BY <1>1, <2>1 DEF Reaped, Claimable, Unleased
<1> QED BY <1>1 DEF Reaped

\* Reaping a row uses up the attempts of its job.
LEMMA ReapIsUseUp ==
    ASSUME IInv, NEW w \in Workers, NEW j \in Jobs, ExpiredFinal(j, w),
           row'[j] = Reaped(w)[j]
    PROVE  Contract!UseUp(j)
<1>1. /\ row[j].status = "running"
      /\ row[j].attempts = MaxAttempts
  <2>1. row[j].attempts \in Nat /\ row[j].attempts <= MaxAttempts
    BY DEF IInv, TypeOK, Row, NoRowIsStranded, NotStranded
  <2> QED BY <2>1 DEF ExpiredFinal
<1>2. CASE j \in Cleanup
  <2>1. row'[j].status = "queued" /\ row'[j].attempts = 0
    BY <1>2 DEF Reaped, Unleased
  <2>2. Contract!Becomes(j, "queued", 0, "none")
    BY <2>1, BecomesInQueue DEF LatestResult
  <2> QED BY <1>1, <1>2, <2>2 DEF Contract!UseUp
<1>3. CASE j \notin Cleanup
  <2>1. row'[j].status = "failed" /\ row'[j].attempts = row[j].attempts
    BY <1>3 DEF Reaped, Unleased
  <2>2. Contract!Becomes(j, "failed", row[j].attempts, "none")
    BY <2>1, BecomesInQueue DEF LatestResult
  <2> QED BY <1>1, <1>3, <2>2 DEF Contract!UseUp
<1> QED BY <1>2, <1>3

\* Every step of the queue is a step of the contract for every job.
LEMMA ContractStep ==
    ASSUME IInv, [Next]_vars, NEW i \in Jobs
    PROVE  Contract!JobStep(i) \/ Contract!Same(i)
<1> USE DEF IInv
<1> DEFINE Goal == Contract!JobStep(i) \/ Contract!Same(i)
           o == row[i].owner
<1>0. row[i] \in Row /\ row[i].attempts \in Nat
  BY DEF TypeOK, Row
<1>1. ASSUME row'[i] = row[i], row[i].status = "running" => held'[o] = held[o] /\ pc'[o] = pc[o]
      PROVE  Goal
  BY <1>1, SameInQueue DEF LatestResult
<1>2. ASSUME NEW j \in Jobs, Enqueue(j) PROVE Goal
  <2>1. CASE i = j
    <3>1. row'[i].status = "queued" /\ row'[i].attempts = 0
      BY <1>2, <2>1 DEF Enqueue, Unleased, TypeOK
    <3>2. Contract!Becomes(i, "queued", 0, "none")
      BY <3>1, BecomesInQueue DEF LatestResult
    <3> QED BY <1>2, <2>1, <3>2 DEF Enqueue, Contract!JobStep, Contract!Submit
  <2> QED BY <1>1, <1>2, <2>1 DEF Enqueue, TypeOK
<1>3. ASSUME NEW j \in Jobs, CancelQueued(j) PROVE Goal
  <2>1. CASE i = j
    <3>1. row'[i].status = "cancelled" /\ row'[i].attempts = row[i].attempts
      BY <1>3, <2>1 DEF CancelQueued, Unleased, TypeOK
    <3>2. Contract!Becomes(i, "cancelled", row[i].attempts, "none")
      BY <3>1, BecomesInQueue DEF LatestResult
    <3> QED BY <1>3, <2>1, <3>2 DEF CancelQueued, Contract!JobStep, Contract!Withdraw
  <2> QED BY <1>1, <1>3, <2>1 DEF CancelQueued, TypeOK
<1>4. ASSUME NEW j \in Jobs, DeleteWithSource(j) PROVE Goal
  <2>1. CASE i = j
    <3>1. row'[i].status = "deleted" /\ row'[i].attempts = 0
      BY <1>4, <2>1 DEF DeleteWithSource, Unleased, TypeOK
    <3>2. Contract!Becomes(i, "deleted", 0, "none")
      BY <3>1, BecomesInQueue DEF LatestResult
    <3> QED BY <1>4, <2>1, <3>2 DEF DeleteWithSource, Contract!JobStep, Contract!Withdraw
  <2> QED BY <1>1, <1>4, <2>1 DEF DeleteWithSource, TypeOK
<1>5. ASSUME NEW w \in Workers, NEW j \in Jobs, Claim(w, j) PROVE Goal
  <2>0. Reaped(w) \in [Jobs -> Row]
    BY ReapedType
  <2>1. CASE i = j
    <3>1. Claimable(row[i], w)
      BY <1>5, <2>1, ClaimedIsNotReaped DEF Claim
    <3>2. /\ row'[i].status = "running"
          /\ row'[i].attempts = row[i].attempts + 1
          /\ row'[i].owner = w
      BY <1>5, <2>0, <2>1, ClaimedIsNotReaped DEF Claim
    <3>3. held'[w] = i /\ pc'[w] = "handling"
      BY <1>5, <2>1 DEF Claim, TypeOK
    <3>4. Contract!Becomes(i, "running", row[i].attempts + 1, "going")
      BY <3>2, <3>3, BecomesInQueue DEF LatestResult
    <3> QED BY <3>1, <3>4 DEF Claimable, Contract!JobStep, Contract!Attempt
  <2>2. CASE i # j /\ ExpiredFinal(i, w)
    BY <1>5, <2>0, <2>2, ReapIsUseUp DEF Claim, Contract!JobStep
  <2>3. CASE i # j /\ ~ExpiredFinal(i, w)
    <3>1. row'[i] = row[i]
      BY <1>5, <2>0, <2>3 DEF Claim, Reaped
    <3>2. held[w] = Nobody /\ held'[w] = j
      BY <1>5 DEF Claim, HandsAreFull, TypeOK
    <3>3. CASE o = w
      <4>1. LatestResult(i)' = LatestResult(i)
        BY <2>3, <3>1, <3>2, <3>3 DEF LatestResult
      <4> QED BY <3>1, <4>1, SameInQueue
    <3>4. CASE o # w
      BY <1>1, <1>5, <3>1, <3>4 DEF Claim, TypeOK
    <3> QED BY <3>3, <3>4
  <2> QED BY <2>1, <2>2, <2>3
<1>6. ASSUME NEW w \in Workers, ClaimNothing(w) PROVE Goal
  <2>1. CASE ExpiredFinal(i, w)
    BY <1>6, <2>1, ReapIsUseUp DEF ClaimNothing, Contract!JobStep
  <2>2. CASE ~ExpiredFinal(i, w)
    BY <1>1, <1>6, <2>2 DEF ClaimNothing, Reaped
  <2> QED BY <2>1, <2>2
<1>7. ASSUME NEW w \in Workers, HeartbeatRenews(w) PROVE Goal
  <2>1. /\ row'[i].status = row[i].status
        /\ row'[i].attempts = row[i].attempts
        /\ row'[i].owner = row[i].owner
    BY <1>0, <1>7 DEF HeartbeatRenews, TypeOK, Row
  <2> QED BY <1>7, <2>1, SameInQueue DEF HeartbeatRenews, LatestResult
<1>8. ASSUME Tick PROVE Goal
  <2>1. /\ row'[i].status = row[i].status
        /\ row'[i].attempts = row[i].attempts
        /\ row'[i].owner = row[i].owner
    BY <1>8, TickKeepsRow
  <2> QED BY <1>8, <2>1, SameInQueue DEF Tick, LatestResult
<1>9. ASSUME NEW w \in Workers,
             \/ HandlerAborts(w) \/ FinishRefused(w) \/ FinishFails(w) \/ Crash(w)
             \/ HeartbeatLosesLease(w) \/ HeartbeatFails(w) \/ Start(w)
      PROVE  Goal
  <2>0. row' = row
    BY <1>9 DEF HandlerAborts, FinishRefused, FinishFails, Crash, HeartbeatLosesLease,
                HeartbeatFails, Start
  <2>1. CASE row[i].status # "running" \/ o # w
    <3>1. row[i].status = "running" => o \in Workers
      BY <1>0 DEF Row, NoRowIsStranded, NotStranded
    <3>2. o \in Workers /\ o # w => held'[o] = held[o] /\ pc'[o] = pc[o]
      BY <1>9
      DEF HandlerAborts, FinishRefused, FinishFails, Crash, Release,
          HeartbeatLosesLease, HeartbeatFails, Start, TypeOK
    <3> QED BY <1>1, <2>0, <2>1, <3>1, <3>2
  <2>2. CASE row[i].status = "running" /\ o = w
    <3>1. LatestResult(i)' = "lost"
      <4>1. held'[w] # i \/ pc'[w] \notin {"handling", "succeeded", "erred"}
        BY <1>9 DEF HandlerAborts, FinishRefused, FinishFails, Crash, Release,
                    HeartbeatLosesLease, HeartbeatFails, Start, TypeOK
      <4> QED BY <2>0, <2>2, <4>1 DEF LatestResult
    <3>2. LatestResult(i) \in {"going", "good", "bad", "lost"}
      BY <2>2 DEF LatestResult
    <3>3. CASE LatestResult(i) = "lost"
      BY <2>0, <3>1, <3>3, SameInQueue
    <3>4. CASE LatestResult(i) # "lost"
      <4>1. Contract!Becomes(i, "running", row[i].attempts, "lost")
        BY <2>0, <2>2, <3>1, BecomesInQueue
      <4> QED BY <2>2, <3>2, <3>4, <4>1 DEF Contract!JobStep, Contract!Lose
    <3> QED BY <3>3, <3>4
  <2> QED BY <2>1, <2>2
<1>10. ASSUME NEW w \in Workers, NEW outcome \in {"succeeded", "erred"},
              HandlerReturns(w, outcome)
       PROVE  Goal
  <2>1. CASE row[i].status # "running" \/ o # w
    BY <1>1, <1>10, <2>1 DEF HandlerReturns, TypeOK
  <2>2. CASE row[i].status = "running" /\ o = w /\ held[w] # i
    <3>1. LatestResult(i)' = LatestResult(i)
      BY <1>10, <2>2 DEF HandlerReturns, LatestResult
    <3> QED BY <1>10, <3>1, SameInQueue DEF HandlerReturns
  <2>3. CASE row[i].status = "running" /\ o = w /\ held[w] = i
    <3>1. LatestResult(i) = "going"
      BY <1>10, <2>3 DEF HandlerReturns, LatestResult
    <3>2. pc'[w] = outcome
      BY <1>10 DEF HandlerReturns, TypeOK
    <3>3. PICK r \in {"good", "bad"} : LatestResult(i)' = r
      BY <1>10, <2>3, <3>2 DEF HandlerReturns, LatestResult
    <3>4. Contract!Becomes(i, "running", row[i].attempts, r)
      BY <1>10, <2>3, <3>3, BecomesInQueue DEF HandlerReturns
    <3> QED BY <2>3, <3>1, <3>4 DEF Contract!JobStep, Contract!Report
  <2> QED BY <2>1, <2>2, <2>3
<1>11. ASSUME NEW w \in Workers, Complete(w) PROVE Goal
  <2>0. row[held[w]].status = "running" /\ row[held[w]].owner = w
    BY <1>11 DEF Complete, Owns
  <2>1. CASE i = held[w]
    <3>1. LatestResult(i) = "good"
      BY <1>11, <2>0, <2>1 DEF Complete, LatestResult
    <3>2. CASE i \in Cleanup
      <4>1. row'[i].status = "deleted" /\ row'[i].attempts = 0
        BY <1>11, <2>1, <3>2 DEF Complete, Unleased, TypeOK
      <4>2. Contract!Becomes(i, "deleted", 0, "none")
        BY <4>1, BecomesInQueue DEF LatestResult
      <4> QED BY <2>0, <2>1, <3>1, <3>2, <4>2 DEF Contract!JobStep, Contract!Accept
    <3>3. CASE i \notin Cleanup
      <4>1. row'[i].status = "completed" /\ row'[i].attempts = row[i].attempts
        BY <1>11, <2>1, <3>3 DEF Complete, Unleased, TypeOK
      <4>2. Contract!Becomes(i, "completed", row[i].attempts, "none")
        BY <4>1, BecomesInQueue DEF LatestResult
      <4> QED BY <2>0, <2>1, <3>1, <3>3, <4>2 DEF Contract!JobStep, Contract!Accept
    <3> QED BY <3>2, <3>3
  <2>2. CASE i # held[w]
    <3>1. row'[i] = row[i]
      BY <1>11, <2>2 DEF Complete, TypeOK
    <3>2. LatestResult(i)' = LatestResult(i)
      BY <1>11, <2>2, <3>1 DEF Complete, Release, LatestResult, TypeOK
    <3> QED BY <3>1, <3>2, SameInQueue
  <2> QED BY <2>1, <2>2
<1>12. ASSUME NEW w \in Workers, Retry(w) PROVE Goal
  <2>0. row[held[w]].status = "running" /\ row[held[w]].owner = w
    BY <1>12 DEF Retry, Owns
  <2>1. CASE i = held[w]
    <3> DEFINE t == Backoff(tries[w]) + Skew[w]
    <3>1. LatestResult(i) = "bad"
      BY <1>12, <2>0, <2>1 DEF Retry, LatestResult
    <3>2. row'[i] = RetriedRow(row[i], i, t)
      BY <1>12, <2>1 DEF Retry, TypeOK
    <3>3. row[i].attempts <= MaxAttempts
      BY DEF NoRowIsStranded, NotStranded
    <3>4. CASE row[i].attempts < MaxAttempts
      <4>1. row'[i].status = "queued" /\ row'[i].attempts = row[i].attempts
        BY <1>0, <3>2, <3>4 DEF RetriedRow, Unleased
      <4>2. Contract!Becomes(i, "queued", row[i].attempts, "none")
        BY <4>1, BecomesInQueue DEF LatestResult
      <4> QED BY <2>0, <2>1, <3>1, <3>4, <4>2 DEF Contract!JobStep, Contract!TryAgain
    <3>5. CASE row[i].attempts = MaxAttempts /\ i \in Cleanup
      <4>1. row'[i].status = "queued" /\ row'[i].attempts = 0
        BY <3>2, <3>5 DEF RetriedRow, Unleased
      <4>2. Contract!Becomes(i, "queued", 0, "none")
        BY <4>1, BecomesInQueue DEF LatestResult
      <4> QED BY <2>0, <2>1, <3>5, <4>2 DEF Contract!JobStep, Contract!UseUp
    <3>6. CASE row[i].attempts = MaxAttempts /\ i \notin Cleanup
      <4>1. row'[i].status = "failed" /\ row'[i].attempts = row[i].attempts
        BY <3>2, <3>6 DEF RetriedRow, Unleased
      <4>2. Contract!Becomes(i, "failed", row[i].attempts, "none")
        BY <4>1, BecomesInQueue DEF LatestResult
      <4> QED BY <2>0, <2>1, <3>6, <4>2 DEF Contract!JobStep, Contract!UseUp
    <3> QED BY <1>0, <3>3, <3>4, <3>5, <3>6
  <2>2. CASE i # held[w]
    <3>1. row'[i] = row[i]
      BY <1>12, <2>2 DEF Retry, TypeOK
    <3>2. LatestResult(i)' = LatestResult(i)
      BY <1>12, <2>2, <3>1 DEF Retry, Release, LatestResult, TypeOK
    <3> QED BY <3>1, <3>2, SameInQueue
  <2> QED BY <2>1, <2>2
<1>13. ASSUME NEW w \in Workers, Stall(w) PROVE Goal
  BY <1>1, <1>13 DEF Stall
<1>14. ASSUME UNCHANGED vars PROVE Goal
  BY <1>1, <1>14 DEF vars
<1> QED
  BY <1>2, <1>3, <1>4, <1>5, <1>6, <1>7, <1>8, <1>9, <1>10, <1>11, <1>12,
     <1>13, <1>14 DEF Next, WorkerStep

\* With clocks, workers and leases hidden the queue is the contract.
THEOREM QueueImplementsContract == Spec => ImplementsContract
<1>1. Init => Contract!CInit
  BY DEF Init, NoRow, LatestResult, Contract!CInit
<1>2. IInv /\ [Next]_vars => [Contract!CNext]_(Contract!cvars)
  BY ContractStep DEF Contract!CNext
<1> QED BY <1>1, <1>2, QueueInvariant, PTL DEF Spec, ImplementsContract, Contract!CSpec

=============================================================================
