------------------------------ MODULE JobQueue ------------------------------
(***************************************************************************)
(* The durable job queue: the rows of private.transaction_jobs, the SQL    *)
(* transactions of transactionstore/postgres.go that claim, renew, finish  *)
(* and retry them, and the worker loop of jobs/jobs.go that calls them.    *)
(*                                                                         *)
(* Every action that changes `row` is one SQL transaction.  Time is kept   *)
(* as the ticks that are left until a deadline, so the state space is      *)
(* finite without a bound on the clock:                                    *)
(*   row[j].lease = lease_expires_at - now()      (the DATABASE clock)     *)
(*   row[j].wait  = run_after        - now()                               *)
(* A claim, a renewal and a reap compare deadlines with the WORKER's       *)
(* clock (they are passed time.Now()), which is Skew[w] ticks ahead of the *)
(* database's; Complete and Retry compare them with the database's now().  *)
(***************************************************************************)
EXTENDS Integers, FiniteSets

CONSTANTS
    Workers,        \* worker processes; each has a fresh id (host-uuid)
    Jobs,           \* job rows that may exist
    Cleanup,        \* the rows of kind source_attachment_cleanup
    Handles,        \* the rows whose kind is in a worker's AllowedKinds
    MaxAttempts,    \* max_attempts of every row
    LeaseTime,      \* the claim and renewal interval ('5 minutes')
    HeartbeatTime,  \* DefaultLeaseHeartbeatInterval (one minute)
    Cooldown,       \* sourceCleanupRetryCooldown (15 minutes)
    Skew,           \* worker clock minus database clock
    MaxSkew,        \* bound on the absolute skew
    Nobody          \* leased_by is null / no job in hand

ASSUME JobQueueAssumption ==
    /\ Cleanup \subseteq Jobs
    /\ Handles \in [Workers -> SUBSET Jobs]
    /\ Nobody \notin Workers \cup Jobs
    /\ MaxAttempts \in Nat \ {0}
    /\ HeartbeatTime \in Nat \ {0}
    /\ LeaseTime \in Nat \ {0}
    /\ Cooldown \in Nat \ {0}
    /\ MaxSkew \in Nat
    /\ Skew \in [Workers -> Int]
    /\ \A w \in Workers : -MaxSkew <= Skew[w] /\ Skew[w] <= MaxSkew

\* "renewing once per minute, well within the five-minute database lease".
ASSUME HeartbeatAssumption == LeaseTime > HeartbeatTime + 2 * MaxSkew

VARIABLES
    row,    \* [Jobs -> Row]: the table private.transaction_jobs
    pc,     \* [Workers -> Phase]: where each process is in ProcessOne
    held,   \* [Workers -> Jobs \cup {Nobody}]: the claimed job, in memory
    tries,  \* [Workers -> Nat]: job.Attempts as the claim returned it
    beat,   \* [Workers -> Nat]: ticks until the next heartbeat is due
    stalled \* SUBSET Workers: paused since their claim (GC, VM, network)

vars == <<row, pc, held, tries, beat, stalled>>

\* "absent": no such row yet; "deleted": the row has been removed.
Status == {"absent", "queued", "running", "completed", "failed", "cancelled",
           "deleted"}

\* "handling": the handler runs and the heartbeat goroutine is alive;
\* "aborting": renewal failed, the handler context is cancelled but Handle
\* has not returned; "succeeded"/"erred": Handle returned, the heartbeat has
\* stopped and the row is still to be finished.
Phase == {"new", "idle", "handling", "aborting", "succeeded", "erred", "dead"}

Terminal == {"completed", "failed", "cancelled", "deleted"}

Row == [status : Status, attempts : Nat, owner : Workers \cup {Nobody},
        lease : Int, wait : Int]

\* Comparisons cannot tell deadlines further in the past than every clock
\* difference apart; countdowns stop there.
Floor == -MaxSkew

NoRow == [status |-> "absent", attempts |-> 0, owner |-> Nobody,
          lease |-> Floor, wait |-> Floor]

Later(a, b) == IF a >= b THEN a ELSE b

CountDown(t) == IF t > Floor THEN t - 1 ELSE Floor

\* jobs.Backoff, in seconds: 1, 2, 4, ... capped at the seventh attempt.
BackoffTable == <<1, 2, 4, 8, 16, 32, 64>>

Backoff(attempt) ==
    IF attempt < 1 THEN BackoffTable[1]
    ELSE IF attempt > 7 THEN BackoffTable[7]
    ELSE BackoffTable[attempt]

\* A row without a lease (the check constraint of the table allows the lease
\* columns only while it is running).  run_after means nothing outside
\* "queued", where it stays at Floor.
Unleased(status, attempts, wait) ==
    [status |-> status, attempts |-> attempts, owner |-> Nobody,
     lease |-> Floor, wait |-> wait]

----------------------------------------------------------------------------
(* Rows appear, are cancelled and disappear through the rest of the system.*)

\* An insert into private.transaction_jobs: run_after defaults to now().
Enqueue(j) ==
    /\ row[j].status = "absent"
    /\ row' = [row EXCEPT ![j] = Unleased("queued", 0, 0)]
    /\ UNCHANGED <<pc, held, tries, beat, stalled>>

\* Cancelling a bulk batch, or a document that could not be prepared,
\* cancels the rows that are still queued.
CancelQueued(j) ==
    /\ j \notin Cleanup
    /\ row[j].status = "queued"
    /\ row' = [row EXCEPT ![j] = Unleased("cancelled", @.attempts, Floor)]
    /\ UNCHANGED <<pc, held, tries, beat, stalled>>

\* StageSourceDeletion: the delete of the source cascades to its jobs,
\* whatever their status; cleanup rows have no source.
DeleteWithSource(j) ==
    /\ j \notin Cleanup
    /\ row[j].status \notin {"absent", "deleted"}
    /\ row' = [row EXCEPT ![j] = Unleased("deleted", 0, Floor)]
    /\ UNCHANGED <<pc, held, tries, beat, stalled>>

----------------------------------------------------------------------------
(* Claiming.                                                               *)

\* MUTANT: a reap that does not look at the lease.
ReapsLiveLease(j, w) ==
    /\ j \in Handles[w]
    /\ row[j].status = "running"
    /\ row[j].attempts >= MaxAttempts

\* MUTANT: a reap that does not look at the attempts.
ReapsAnyAttempt(j, w) ==
    /\ j \in Handles[w]
    /\ row[j].status = "running"
    /\ row[j].lease <= Skew[w]

\* MUTANT: the claim forgets to reap.
ReapsNothing(j, w) == FALSE

\* A running row on its final attempt whose lease is over on w's clock.
ExpiredFinal(j, w) ==
    /\ j \in Handles[w]
    /\ row[j].status = "running"
    /\ row[j].lease <= Skew[w]
    /\ row[j].attempts >= MaxAttempts

\* reapExpiredFinalAttempts: the first statement of the claim transaction.
Reaped(w) ==
    [j \in Jobs |->
        IF ~ExpiredFinal(j, w) THEN row[j]
        ELSE IF j \in Cleanup
             THEN Unleased("queued", 0, Cooldown + Skew[w])
             ELSE Unleased("failed", row[j].attempts, Floor)]

Claimable(r, w) ==
    /\ r.attempts < MaxAttempts
    /\ \/ r.status = "queued" /\ r.wait <= Skew[w]
       \/ r.status = "running" /\ r.lease <= Skew[w]

\* MUTANT: the claim does not count the attempt in the row.
ClaimsUncounted(w, j) ==
    /\ pc[w] = "idle"
    /\ j \in Handles[w]
    /\ Claimable(Reaped(w)[j], w)
    /\ row' = [Reaped(w) EXCEPT
                 ![j] = [@ EXCEPT !.status = "running", !.owner = w,
                                  !.lease = LeaseTime + Skew[w], !.wait = Floor]]
    /\ pc' = [pc EXCEPT ![w] = "handling"]
    /\ held' = [held EXCEPT ![w] = j]
    /\ tries' = [tries EXCEPT ![w] = Reaped(w)[j].attempts + 1]
    /\ beat' = [beat EXCEPT ![w] = HeartbeatTime]
    /\ stalled' = stalled \ {w}

\* ProcessOne claims a row.  `order by run_after, created_at ... skip
\* locked` is any claimable row: rows locked by others are skipped.
Claim(w, j) ==
    /\ pc[w] = "idle"
    /\ j \in Handles[w]
    /\ Claimable(Reaped(w)[j], w)
    /\ row' = [Reaped(w) EXCEPT
                 ![j] = [status   |-> "running",
                         attempts |-> Reaped(w)[j].attempts + 1,
                         owner    |-> w,
                         lease    |-> LeaseTime + Skew[w],
                         wait     |-> Floor]]
    /\ pc' = [pc EXCEPT ![w] = "handling"]
    /\ held' = [held EXCEPT ![w] = j]
    /\ tries' = [tries EXCEPT ![w] = Reaped(w)[j].attempts + 1]
    /\ beat' = [beat EXCEPT ![w] = HeartbeatTime]
    /\ stalled' = stalled \ {w}

\* No row is claimable: the transaction commits what it reaped.
ClaimNothing(w) ==
    /\ pc[w] = "idle"
    /\ \A j \in Handles[w] : ~Claimable(Reaped(w)[j], w)
    /\ row' = Reaped(w)
    /\ UNCHANGED <<pc, held, tries, beat, stalled>>

----------------------------------------------------------------------------
(* The heartbeat and the handler.                                          *)

\* Where ProcessOne goes when it is done with the job.
Release(w) ==
    /\ pc' = [pc EXCEPT ![w] = "idle"]
    /\ held' = [held EXCEPT ![w] = Nobody]
    /\ tries' = [tries EXCEPT ![w] = 0]
    /\ beat' = [beat EXCEPT ![w] = 0]

\* The where clause of RenewLease.
Renewable(w) ==
    /\ row[held[w]].status = "running"
    /\ row[held[w]].owner = w
    /\ row[held[w]].lease > Skew[w]

\* MUTANT: the renewal checks the lease and forgets to extend it.
RenewsNothing(w) ==
    /\ pc[w] = "handling"
    /\ beat[w] = 0
    /\ Renewable(w)
    /\ beat' = [beat EXCEPT ![w] = HeartbeatTime]
    /\ UNCHANGED <<row, pc, held, tries, stalled>>

\* RenewLease extends the lease, never shortens it.
HeartbeatRenews(w) ==
    /\ pc[w] = "handling"
    /\ beat[w] = 0
    /\ Renewable(w)
    /\ row' = [row EXCEPT ![held[w]].lease = Later(@, LeaseTime + Skew[w])]
    /\ beat' = [beat EXCEPT ![w] = HeartbeatTime]
    /\ UNCHANGED <<pc, held, tries, stalled>>

\* ErrLeaseLost: the handler's context is cancelled.
HeartbeatLosesLease(w) ==
    /\ pc[w] = "handling"
    /\ beat[w] = 0
    /\ ~Renewable(w)
    /\ pc' = [pc EXCEPT ![w] = "aborting"]
    /\ UNCHANGED <<row, held, tries, beat, stalled>>

\* The renewal query itself fails: it is treated like a lost lease.
HeartbeatFails(w) ==
    /\ pc[w] = "handling"
    /\ beat[w] = 0
    /\ pc' = [pc EXCEPT ![w] = "aborting"]
    /\ UNCHANGED <<row, held, tries, beat, stalled>>

\* Handle returns; the heartbeat context is cancelled.
HandlerReturns(w, outcome) ==
    /\ pc[w] = "handling"
    /\ pc' = [pc EXCEPT ![w] = outcome]
    /\ beat' = [beat EXCEPT ![w] = 0]
    /\ UNCHANGED <<row, held, tries, stalled>>

\* Handle returns after the renewal failed: neither Complete nor Retry.
HandlerAborts(w) ==
    /\ pc[w] = "aborting"
    /\ Release(w)
    /\ UNCHANGED <<row, stalled>>

----------------------------------------------------------------------------
(* Finishing the row.                                                      *)

\* MUTANT: the finishing statements check the lease but not its owner.
OwnsAnyLease(w) ==
    /\ row[held[w]].status = "running"
    /\ row[held[w]].lease > 0

\* `status = 'running' and leased_by = $2 and lease_expires_at > now()`.
Owns(w) ==
    /\ row[held[w]].status = "running"
    /\ row[held[w]].owner = w
    /\ row[held[w]].lease > 0

Complete(w) ==
    /\ pc[w] = "succeeded"
    /\ Owns(w)
    /\ LET j == held[w] IN
         row' = [row EXCEPT
                   ![j] = IF j \in Cleanup
                          THEN Unleased("deleted", 0, Floor)
                          ELSE Unleased("completed", @.attempts, Floor)]
    /\ Release(w)
    /\ UNCHANGED stalled

\* MUTANT: a cleanup row keeps its used-up attempts.
RetriesUsedUp(r, j, retryAt) ==
    IF j \in Cleanup
    THEN Unleased("queued", r.attempts, retryAt)
    ELSE IF r.attempts >= MaxAttempts
         THEN Unleased("failed", r.attempts, Floor)
         ELSE Unleased("queued", r.attempts, retryAt)

\* MUTANT: a cleanup row fails like any other.
RetriesCleanupOnce(r, j, retryAt) ==
    IF r.attempts >= MaxAttempts
    THEN Unleased("failed", r.attempts, Floor)
    ELSE Unleased("queued", r.attempts, retryAt)

\* The row Retry leaves behind; retryAt is the worker's now plus Backoff.
RetriedRow(r, j, retryAt) ==
    IF j \in Cleanup
    THEN IF r.attempts >= MaxAttempts
         THEN Unleased("queued", 0, retryAt + Cooldown)
         ELSE Unleased("queued", r.attempts, retryAt)
    ELSE IF r.attempts >= MaxAttempts
         THEN Unleased("failed", r.attempts, Floor)
         ELSE Unleased("queued", r.attempts, retryAt)

Retry(w) ==
    /\ pc[w] = "erred"
    /\ Owns(w)
    /\ LET j == held[w] IN
         row' = [row EXCEPT
                   ![j] = RetriedRow(@, j, Backoff(tries[w]) + Skew[w])]
    /\ Release(w)
    /\ UNCHANGED stalled

\* Complete and Retry return ErrLeaseLost and change nothing.
FinishRefused(w) ==
    /\ pc[w] \in {"succeeded", "erred"}
    /\ ~Owns(w)
    /\ Release(w)
    /\ UNCHANGED <<row, stalled>>

\* The transaction of Complete or Retry fails and is rolled back.
FinishFails(w) ==
    /\ pc[w] \in {"succeeded", "erred"}
    /\ Release(w)
    /\ UNCHANGED <<row, stalled>>

----------------------------------------------------------------------------
(* Processes and time.                                                     *)

Alive(w) == pc[w] \notin {"new", "dead"}

Start(w) ==
    /\ pc[w] = "new"
    /\ pc' = [pc EXCEPT ![w] = "idle"]
    /\ UNCHANGED <<row, held, tries, beat, stalled>>

\* A crash, or SIGTERM (the loop returns without Complete or Retry).  A
\* restarted process has a new id, so it is another member of Workers; the
\* last process stands for the ones the platform starts in its place.
Crash(w) ==
    /\ Alive(w)
    /\ \E v \in Workers \ {w} : pc[v] # "dead"
    /\ pc' = [pc EXCEPT ![w] = "dead"]
    /\ held' = [held EXCEPT ![w] = Nobody]
    /\ tries' = [tries EXCEPT ![w] = 0]
    /\ beat' = [beat EXCEPT ![w] = 0]
    /\ stalled' = stalled \ {w}
    /\ UNCHANGED row

\* The process is paused: its heartbeat may come late.
Stall(w) ==
    /\ pc[w] = "handling"
    /\ w \notin stalled
    /\ stalled' = stalled \cup {w}
    /\ UNCHANGED <<row, pc, held, tries, beat>>

\* One tick of the database clock.  A process that is not stalled has sent
\* every heartbeat that was due.
Tick ==
    /\ \A w \in Workers : pc[w] = "handling" /\ beat[w] = 0 => w \in stalled
    /\ row' = [j \in Jobs |->
                 [row[j] EXCEPT !.lease = IF row[j].status = "running"
                                          THEN CountDown(@) ELSE @,
                                !.wait = IF row[j].status = "queued"
                                         THEN CountDown(@) ELSE @]]
    /\ beat' = [w \in Workers |-> IF beat[w] > 0 THEN beat[w] - 1 ELSE 0]
    /\ UNCHANGED <<pc, held, tries, stalled>>

----------------------------------------------------------------------------

Init ==
    /\ row = [j \in Jobs |-> NoRow]
    /\ pc = [w \in Workers |-> "new"]
    /\ held = [w \in Workers |-> Nobody]
    /\ tries = [w \in Workers |-> 0]
    /\ beat = [w \in Workers |-> 0]
    /\ stalled = {}

WorkerStep(w) ==
    \/ \E j \in Jobs : Claim(w, j)
    \/ ClaimNothing(w)
    \/ HeartbeatRenews(w)
    \/ HeartbeatLosesLease(w)
    \/ HeartbeatFails(w)
    \/ \E outcome \in {"succeeded", "erred"} : HandlerReturns(w, outcome)
    \/ HandlerAborts(w)
    \/ Complete(w)
    \/ Retry(w)
    \/ FinishRefused(w)
    \/ FinishFails(w)
    \/ Start(w)
    \/ Crash(w)
    \/ Stall(w)

Next ==
    \/ \E j \in Jobs : Enqueue(j) \/ CancelQueued(j) \/ DeleteWithSource(j)
    \/ \E w \in Workers : WorkerStep(w)
    \/ Tick

Spec == Init /\ [][Next]_vars

----------------------------------------------------------------------------
(* Safety.                                                                 *)

TypeOK ==
    /\ row \in [Jobs -> Row]
    /\ pc \in [Workers -> Phase]
    /\ held \in [Workers -> Jobs \cup {Nobody}]
    /\ tries \in [Workers -> Nat]
    /\ beat \in [Workers -> 0..HeartbeatTime]
    /\ stalled \subseteq Workers

\* A row that waits can still be claimed: no retry and no reap leaves a
\* queued row with its attempts used up (every claim would skip it), no
\* cleanup row ends in a status that nobody picks up again, and the lease
\* columns are set exactly while a row is running.
NotStranded(r, j) ==
    /\ r.status = "queued" => r.attempts < MaxAttempts
    /\ r.attempts <= MaxAttempts
    /\ j \in Cleanup => r.status \in {"absent", "queued", "running", "deleted"}
    /\ r.status = "running" <=> r.owner # Nobody

NoRowIsStranded == \A j \in Jobs : NotStranded(row[j], j)

\* A worker that was not paused keeps its lease: the heartbeat interval,
\* the lease and the clock differences leave no window in which another
\* worker may claim or reap a row whose handler is alive.  (The row may
\* still go with its source.)
HealthyWorkerKeepsLease ==
    \A w \in Workers :
        pc[w] = "handling" /\ w \notin stalled =>
            \/ row[held[w]].owner = w /\ row[held[w]].lease > MaxSkew
            \/ row[held[w]].status = "deleted"

\* Whoever finishes a row brings the result of the row's latest attempt: a
\* worker whose lease was taken over meanwhile changes neither the status
\* of the row nor its retry time.
OnlyLatestAttemptFinishes ==
    [][\A w \in Workers :
          /\ pc[w] \in {"succeeded", "erred"}
          /\ pc'[w] = "idle"
          /\ row' # row
          => row[held[w]].attempts = tries[w]]_vars

\* While a lease is valid on every clock it ends only by its holder's own
\* Complete or Retry, or with the source of the job.
LeaseIsExclusive ==
    [][\A j \in Jobs :
          /\ row[j].status = "running"
          /\ row[j].lease > MaxSkew
          /\ row'[j].owner # row[j].owner
          => \/ row'[j].status = "deleted" /\ j \notin Cleanup
             \/ /\ row'[j].owner = Nobody
                /\ held[row[j].owner] = j
                /\ pc[row[j].owner] \in {"succeeded", "erred"}]_vars

----------------------------------------------------------------------------
(* The inductive invariant the proofs use; TLC checks it as well.          *)

\* A process has a job in hand exactly between its claim and its return.
HandsAreFull ==
    \A w \in Workers : held[w] = Nobody <=> pc[w] \in {"new", "idle", "dead"}

\* leased_by is a fencing token: a row still leased by the process that
\* has it in hand is at the attempt that process was given.
LeaseIsFencing ==
    \A w \in Workers :
        held[w] # Nobody /\ row[held[w]].owner = w =>
            row[held[w]].attempts = tries[w]

\* The lease of a worker that is not stalled runs out at the earliest
\* LeaseTime - HeartbeatTime after its next heartbeat is due.
LeaseOutlivesBeat ==
    \A w \in Workers :
        pc[w] = "handling" /\ w \notin stalled =>
            \/ /\ row[held[w]].owner = w
               /\ row[held[w]].lease >= LeaseTime + Skew[w] - HeartbeatTime + beat[w]
            \/ row[held[w]].status = "deleted"

IInv ==
    /\ TypeOK
    /\ NoRowIsStranded
    /\ HandsAreFull
    /\ LeaseIsFencing
    /\ LeaseOutlivesBeat

----------------------------------------------------------------------------
(* Liveness.  Time passes, every process that is up keeps polling, and     *)
(* handlers return because every outbound call has a timeout.              *)

Poll(w) == ClaimNothing(w) \/ \E j \in Jobs : Claim(w, j)

Heartbeat(w) ==
    HeartbeatRenews(w) \/ HeartbeatLosesLease(w) \/ HeartbeatFails(w)

Finish(w) ==
    HandlerAborts(w) \/ Complete(w) \/ Retry(w) \/ FinishRefused(w) \/ FinishFails(w)

\* `order by run_after` serves the row that has been due for longest first,
\* so a row that is claimable again and again is claimed.
SchedulingFairness ==
    /\ WF_vars(Tick)
    /\ \A w \in Workers :
          /\ WF_vars(Start(w))
          /\ WF_vars(Poll(w))
          /\ WF_vars(Heartbeat(w))
          /\ WF_vars(\E outcome \in {"succeeded", "erred"} : HandlerReturns(w, outcome))
          /\ WF_vars(Finish(w))
    /\ \A j \in Jobs : SF_vars(\E w \in Workers : Claim(w, j))

FairSpec == Spec /\ SchedulingFairness

\* Storage and database recover: an attempt that is made again and again
\* succeeds at some point with its lease intact, and is recorded.
CleanupRecovers ==
    \A j \in Cleanup :
        /\ SF_vars(\E w \in Workers : /\ held[w] = j
                                      /\ Owns(w)
                                      /\ HandlerReturns(w, "succeeded"))
        /\ SF_vars(\E w \in Workers : held[w] = j /\ Complete(w))

RecoveringSpec == FairSpec /\ CleanupRecovers

\* Whatever its handlers do and whichever workers die, an ordinary job is
\* completed, failed, cancelled or deleted in the end.
OrdinaryJobSettles ==
    \A j \in Jobs \ Cleanup :
        row[j].status \in {"queued", "running"} ~> row[j].status \in Terminal

\* A cleanup job that keeps failing is retried until its objects are gone.
CleanupIsDone ==
    \A j \in Cleanup : row[j].status = "queued" ~> row[j].status = "deleted"

----------------------------------------------------------------------------
(* The queue implements the contract of a job.                             *)

\* What the latest attempt of a running row has come to: its owner still
\* holds the job in memory, or has let go of it.
LatestResult(j) ==
    LET o == row[j].owner IN
    IF row[j].status # "running" THEN "none"
    ELSE IF held[o] # j THEN "lost"
    ELSE IF pc[o] = "handling" THEN "going"
    ELSE IF pc[o] = "succeeded" THEN "good"
    ELSE IF pc[o] = "erred" THEN "bad"
    ELSE "lost"

Contract == INSTANCE JobContract
    WITH state   <- [j \in Jobs |-> row[j].status],
         attempt <- [j \in Jobs |-> row[j].attempts],
         result  <- [j \in Jobs |-> LatestResult(j)]

\* Seen without clocks, workers and leases, every step of the queue is one
\* the contract of each job allows.
ImplementsContract == Contract!CSpec

=============================================================================
