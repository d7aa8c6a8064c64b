------------------------ MODULE GmailIngestionProofs ------------------------
(***************************************************************************)
(* Theorems about GmailIngestion for every set of workers, accounts and    *)
(* messages, every order of arrival and any number of refreshes.           *)
(***************************************************************************)
EXTENDS GmailIngestion, Induction, SequenceTheorems, TLAPS

\* The state of a worker in Handle has all its fields.
Whole(l) ==
    l = [pos |-> l.pos, run |-> l.run, attempt |-> l.attempt, box |-> l.box,
         cursor |-> l.cursor, refs |-> l.refs, next |-> l.next]

LocalsFit ==
    /\ at = [w \in Workers |-> at[w]]
    /\ \A w \in Workers : Whole(at[w])

\* The rows of runs and ingestion jobs belong together: a run exists with its
\* job, ends when the job has failed, and is complete only after the job is.
RunsFit ==
    /\ run \in [Runs -> RunRow]
    /\ job \in [Runs -> JobRow]
    /\ \A r \in Runs :
         /\ run[r].status = "absent" <=> job[r].status = "absent"
         /\ job[r].status = "absent" => job[r].attempts = 0
         /\ job[r].status = "queued" => job[r].attempts < MaxAttempts
         /\ job[r].status = "failed" => run[r].status \notin Active
         /\ run[r].status = "completed" => job[r].status = "completed"

\* A worker in the latest attempt of a job owns it, or the job was reaped.
IsClaim(l, row, w) ==
    /\ l.attempt \in Nat \ {0}
    /\ l.attempt <= row.attempts
    /\ l.attempt = row.attempts =>
         row.status = "failed" \/ (row.status = "running" /\ row.owner = w)

ClaimsFit ==
    \A w \in Workers : at[w].pos # "idle" =>
        at[w].run \in Runs /\ IsClaim(at[w], job[at[w].run], w)

QueueFits == RunsFit /\ LocalsFit /\ ClaimsFit

----------------------------------------------------------------------------
\* The steps of a handler that keep its job in hand.
Kept(w) ==
    /\ LocalsFit'
    /\ \A v \in Workers \ {w} : at'[v] = at[v]
    /\ at'[w].run = at[w].run /\ at'[w].attempt = at[w].attempt

LEMMA GotoKeeps ==
    ASSUME LocalsFit, NEW w \in Workers, NEW p, Goto(w, p)
    PROVE  Kept(w) /\ at'[w].pos = p /\ at'[w].refs = at[w].refs
<1> DEFINE new == [at[w] EXCEPT !.pos = p]
<1>1. at' = [at EXCEPT ![w] = new]
  BY DEF Goto
<1>2. PICK l : l = at[w]
  OBVIOUS
<1>3. PICK n : n = [l EXCEPT !.pos = p]
  OBVIOUS
<1>4. /\ Whole(n) /\ n.pos = p /\ n.run = l.run /\ n.attempt = l.attempt
      /\ n.refs = l.refs
  BY <1>2, <1>3 DEF LocalsFit, Whole
<1>5. at' = [at EXCEPT ![w] = n]
  BY <1>1, <1>2, <1>3
<1> QED BY <1>2, <1>4, <1>5 DEF Kept, LocalsFit

\* A worker whose state is written as one record.
LEMMA MoveKeeps ==
    ASSUME LocalsFit, NEW w \in Workers, NEW n, Whole(n), at' = [at EXCEPT ![w] = n],
           n.run = at[w].run, n.attempt = at[w].attempt
    PROVE  Kept(w) /\ at'[w] = n
BY DEF Kept, LocalsFit

\* Positions of a handler that is about to look at the next message.
Between == {"list", "newest", "each", "whole"}

\* A handler that goes on in its loop or with its listing.
LEMMA ReadingKeeps ==
    ASSUME LocalsFit, NEW w \in Workers,
           \/ ReadConnection(w) \/ CaptureHistory(w) \/ ListNewest(w) \/ ListHistory(w)
           \/ HistoryExpired(w) \/ ListWhole(w) \/ SkipMessage(w) \/ EnqueueSourceParse(w)
    PROVE  Kept(w) /\ at'[w].pos \in Between
<1>1. PICK l : l = at[w] /\ Whole(l)
  BY DEF LocalsFit
<1>2. ASSUME NEW n, Whole(n), n.run = l.run, n.attempt = l.attempt, n.pos \in Between,
             at' = [at EXCEPT ![w] = n]
      PROVE  Kept(w) /\ at'[w].pos \in Between
  BY <1>1, <1>2, MoveKeeps
<1>3. CASE ReadConnection(w)
  <2>1. PICK n : n = [l EXCEPT !.pos = "list", !.box = conn.box, !.cursor = conn.cursor]
    OBVIOUS
  <2>2. at' = [at EXCEPT ![w] = n]
    BY <1>1, <1>3, <2>1 DEF ReadConnection
  <2>3. Whole(n) /\ n.run = l.run /\ n.attempt = l.attempt /\ n.pos = "list"
    BY <1>1, <2>1 DEF Whole
  <2> QED BY <1>2, <2>2, <2>3 DEF Between
<1>4. ASSUME NEW p \in Between, NEW next,
             at' = [at EXCEPT ![w].pos = p, ![w].next = next]
      PROVE  Kept(w) /\ at'[w].pos \in Between
  <2>1. PICK n : n = [l EXCEPT !.pos = p, !.next = next]
    OBVIOUS
  <2>2. at' = [at EXCEPT ![w] = n]
    BY <1>1, <1>4, <2>1
  <2>3. Whole(n) /\ n.run = l.run /\ n.attempt = l.attempt /\ n.pos = p
    BY <1>1, <2>1 DEF Whole
  <2> QED BY <1>2, <1>4, <2>2, <2>3
<1>5. ASSUME NEW refs, at' = [at EXCEPT ![w].pos = "each", ![w].refs = refs]
      PROVE  Kept(w) /\ at'[w].pos \in Between
  <2>1. PICK n : n = [l EXCEPT !.pos = "each", !.refs = refs]
    OBVIOUS
  <2>2. at' = [at EXCEPT ![w] = n]
    BY <1>1, <1>5, <2>1
  <2>3. Whole(n) /\ n.run = l.run /\ n.attempt = l.attempt /\ n.pos = "each"
    BY <1>1, <2>1 DEF Whole
  <2> QED BY <1>2, <2>2, <2>3 DEF Between
<1>6. CASE ListHistory(w)
  <2>1. PICK next, refs : at' = [at EXCEPT ![w].pos = "each", ![w].next = next, ![w].refs = refs]
    BY <1>6 DEF ListHistory
  <2>2. PICK n : n = [l EXCEPT !.pos = "each", !.next = next, !.refs = refs]
    OBVIOUS
  <2>3. at' = [at EXCEPT ![w] = n]
    BY <1>1, <2>1, <2>2
  <2>4. Whole(n) /\ n.run = l.run /\ n.attempt = l.attempt /\ n.pos = "each"
    BY <1>1, <2>2 DEF Whole
  <2> QED BY <1>2, <2>3, <2>4 DEF Between
<1>7. CASE SkipMessage(w)
  <2>1. PICK n : n = [l EXCEPT !.refs = Tail(l.refs)]
    OBVIOUS
  <2>2. at' = [at EXCEPT ![w] = n] /\ l.pos = "each"
    BY <1>1, <1>7, <2>1 DEF SkipMessage
  <2>3. Whole(n) /\ n.run = l.run /\ n.attempt = l.attempt /\ n.pos = "each"
    BY <1>1, <2>1, <2>2 DEF Whole
  <2> QED BY <1>2, <2>2, <2>3 DEF Between
<1>8. CASE EnqueueSourceParse(w)
  <2>1. at' = [at EXCEPT ![w].pos = "each", ![w].refs = Tail(l.refs)]
    BY <1>1, <1>8 DEF EnqueueSourceParse
  <2> QED BY <1>5, <2>1
<1>9. CASE CaptureHistory(w) \/ HistoryExpired(w)
  BY <1>4, <1>9 DEF CaptureHistory, HistoryExpired, Between
<1>10. CASE ListNewest(w) \/ ListWhole(w)
  BY <1>5, <1>10 DEF ListNewest, ListWhole
<1> QED BY <1>3, <1>6, <1>7, <1>8, <1>9, <1>10

\* Every step of a handler keeps its job in hand.
LEMMA HandleKeeps ==
    ASSUME LocalsFit, NEW w \in Workers,
           \/ Handle(w) \/ Errs(w) \/ ErrsUnrecorded(w) \/ FailureUnrecorded(w)
    PROVE  /\ Kept(w)
           /\ at'[w].pos \in {"metadata", "enqueue"} =>
                /\ Goto(w, at'[w].pos) /\ at'[w].refs = at[w].refs
                /\ StoreMessage(w) \/ Upload(w) \/ SaveMetadata(w)
           /\ at[w].pos # "idle" /\ at'[w].pos # "idle"
<1>1. CASE \/ ReadConnection(w) \/ CaptureHistory(w) \/ ListNewest(w) \/ ListHistory(w)
           \/ HistoryExpired(w) \/ ListWhole(w) \/ SkipMessage(w) \/ EnqueueSourceParse(w)
  <2>1. at[w].pos # "idle"
    BY <1>1 DEF ReadConnection, CaptureHistory, ListNewest, ListHistory, HistoryExpired,
                ListWhole, SkipMessage, EnqueueSourceParse
  <2> QED BY <1>1, <2>1, ReadingKeeps DEF Between
<1>2. CASE StoreMessage(w) \/ Upload(w) \/ SaveMetadata(w)
  <2>1. PICK p \in {"upload", "metadata", "enqueue"} : Goto(w, p) /\ at[w].pos # "idle"
    BY <1>2 DEF StoreMessage, Upload, SaveMetadata, AfterStore
  <2> QED BY <1>2, <2>1, GotoKeeps
<1>3. CASE \/ StartSyncRun(w) \/ UploadFails(w) \/ UpdateConnectionCursor(w)
           \/ CompleteSyncRun(w) \/ RecordSyncFailure(w)
           \/ Errs(w) \/ ErrsUnrecorded(w) \/ FailureUnrecorded(w)
  <2>1. PICK p \in {"connect", "failing", "complete", "finish", "retry"} :
          Goto(w, p) /\ at[w].pos # "idle"
    BY <1>3 DEF StartSyncRun, UploadFails, UpdateConnectionCursor, CompleteSyncRun,
                RecordSyncFailure, Errs, ErrsUnrecorded, FailureUnrecorded, Handling
  <2> QED BY <2>1, GotoKeeps
<1> QED BY <1>1, <1>2, <1>3 DEF Handle

\* A worker that returns.
LEMMA IdleKeeps ==
    ASSUME LocalsFit, NEW w \in Workers, at' = [at EXCEPT ![w] = Idle]
    PROVE  LocalsFit' /\ at'[w].pos = "idle" /\ \A v \in Workers \ {w} : at'[v] = at[v]
<1>1. Whole(Idle) /\ Idle.pos = "idle"
  BY DEF Whole, Idle
<1> QED BY <1>1 DEF LocalsFit

\* A worker that claims.
LEMMA ClaimKeeps ==
    ASSUME LocalsFit, NEW w \in Workers, NEW r \in Runs, Claim(w, r)
    PROVE  /\ LocalsFit' /\ at'[w].pos = "start" /\ at'[w].run = r
           /\ at'[w].attempt = job[r].attempts + 1
           /\ \A v \in Workers \ {w} : at'[v] = at[v]
<1> DEFINE attempt == job[r].attempts + 1
<1>1. at' = [at EXCEPT ![w] = [Idle EXCEPT !.pos = "start", !.run = r, !.attempt = attempt]]
  BY DEF Claim
<1> HIDE DEF attempt
<1>2. PICK i : i = Idle
  OBVIOUS
<1>3. PICK n : n = [i EXCEPT !.pos = "start", !.run = r, !.attempt = attempt]
  OBVIOUS
<1>4. Whole(n) /\ n.pos = "start" /\ n.run = r /\ n.attempt = attempt
  BY <1>2, <1>3 DEF Idle, Whole
<1>5. at' = [at EXCEPT ![w] = n]
  BY <1>1, <1>2, <1>3
<1> QED BY <1>4, <1>5 DEF LocalsFit, attempt

----------------------------------------------------------------------------
\* A run that moves on under a job that stays as it is.
LEMMA RunMoves ==
    ASSUME RunsFit, UNCHANGED job, NEW r \in Runs,
           NEW status \in {"running", "completed", "failed"},
           run[r].status # "absent",
           status = "running" => run[r].status \in Active,
           status = "completed" => job[r].status = "completed",
           run' \in [Runs -> RunRow], run'[r].status = status,
           \A q \in Runs \ {r} : run'[q] = run[q]
    PROVE  RunsFit'
BY DEF RunsFit, Active

\* The status of a run that is written.
LEMMA StatusIsWritten ==
    ASSUME RunsFit, NEW r \in Runs, NEW status \in {"queued", "running", "completed", "failed"},
           run' = [run EXCEPT ![r].status = status]
    PROVE  /\ run' \in [Runs -> RunRow]
           /\ run'[r].status = status
           /\ \A q \in Runs \ {r} : run'[q] = run[q]
BY DEF RunsFit, RunRow, Active

\* A refresh completes only runs whose jobs are complete.
LEMMA RefreshMoves ==
    ASSUME RunsFit, UNCHANGED job, NEW pr, NEW r, run' = Refreshed(run, job, pr, r)
    PROVE  RunsFit'
<1>1. CASE run' = run
  BY <1>1 DEF RunsFit
<1>2. CASE run' # run
  <2>1. /\ r \in Runs /\ run[r].status \in Active /\ job[r].status \notin Active
        /\ run' = [run EXCEPT ![r].status = "completed"]
    BY <1>2 DEF Refreshed
  <2>2. job[r].status = "completed"
    BY <2>1 DEF RunsFit, JobRow, Active
  <2> QED BY <2>1, <2>2, StatusIsWritten, RunMoves DEF Active
<1> QED BY <1>1, <1>2

\* What the handler writes into its run, from whichever attempt.
LEMMA HandlerKeepsRuns ==
    ASSUME QueueFits, NEW w \in Workers,
           \/ Handle(w) \/ Errs(w) \/ ErrsUnrecorded(w) \/ FailureUnrecorded(w)
    PROVE  RunsFit' /\ UNCHANGED job
<1> DEFINE r == at[w].run
<1>1. at[w].pos # "idle"
  BY HandleKeeps DEF QueueFits
<1>2. r \in Runs /\ run[r].status # "absent" /\ IsClaim(at[w], job[r], w)
  BY <1>1 DEF QueueFits, ClaimsFit, IsClaim, RunsFit, JobRow
<1>3. UNCHANGED job
  BY DEF Handle, StartSyncRun, ReadConnection, CaptureHistory, ListNewest, ListHistory,
         HistoryExpired, ListWhole, SkipMessage, StoreMessage, Upload, UploadFails,
         SaveMetadata, EnqueueSourceParse, UpdateConnectionCursor, CompleteSyncRun,
         RecordSyncFailure, Errs, ErrsUnrecorded, FailureUnrecorded, queue
<1>4. CASE UNCHANGED run
  BY <1>3, <1>4 DEF QueueFits, RunsFit
<1>5. CASE StartSyncRun(w)
  <2>1. CASE run' = [run EXCEPT ![r].status = "running"] /\ run[r].status = "queued"
    BY <1>2, <1>3, <2>1, StatusIsWritten, RunMoves DEF QueueFits, Active
  <2> QED BY <1>4, <1>5, <2>1 DEF StartSyncRun
<1>6. CASE CompleteSyncRun(w)
  <2> DEFINE new == [status |-> "running", ingested |-> TRUE]
  <2>1. CASE run' = [run EXCEPT ![r] = new] /\ run[r].status \in Active
    <3>1. new \in RunRow /\ new.status = "running"
      BY DEF RunRow, Active
    <3> HIDE DEF new
    <3>2. /\ run' \in [Runs -> RunRow] /\ run'[r].status = "running"
          /\ \A q \in Runs \ {r} : run'[q] = run[q]
      BY <1>2, <2>1, <3>1 DEF QueueFits, RunsFit
    <3> QED BY <1>2, <1>3, <2>1, <3>2, RunMoves DEF QueueFits
  <2> QED BY <1>4, <1>6, <2>1 DEF CompleteSyncRun
<1>7. CASE RecordSyncFailure(w)
  <2>1. CASE run' = [run EXCEPT ![r].status = "failed"]
    BY <1>2, <1>3, <2>1, StatusIsWritten, RunMoves DEF QueueFits
  <2>2. CASE run' = [run EXCEPT ![r].status = "running"] /\ run[r].status \in Active
    BY <1>2, <1>3, <2>2, StatusIsWritten, RunMoves DEF QueueFits
  <2> QED BY <1>4, <1>7, <2>1, <2>2 DEF RecordSyncFailure, CheckAllowsRunning
<1>8. ~StartSyncRun(w) /\ ~CompleteSyncRun(w) /\ ~RecordSyncFailure(w) => UNCHANGED run
  BY DEF Handle, ReadConnection, CaptureHistory, ListNewest, ListHistory,
         HistoryExpired, ListWhole, SkipMessage, StoreMessage, Upload, UploadFails,
         SaveMetadata, EnqueueSourceParse, UpdateConnectionCursor,
         Errs, ErrsUnrecorded, FailureUnrecorded, queue
<1> QED BY <1>3, <1>4, <1>5, <1>6, <1>7, <1>8

\* A worker that goes on in a job that stays as it is.
LEMMA HandlerFits ==
    ASSUME QueueFits, NEW w \in Workers,
           \/ Handle(w) \/ Errs(w) \/ ErrsUnrecorded(w) \/ FailureUnrecorded(w)
    PROVE  QueueFits'
<1>1. RunsFit' /\ UNCHANGED job
  BY HandlerKeepsRuns
<1>2. Kept(w) /\ at[w].pos # "idle"
  BY HandleKeeps DEF QueueFits
<1>3. ClaimsFit'
  BY <1>1, <1>2 DEF Kept, QueueFits, ClaimsFit, IsClaim
<1> QED BY <1>1, <1>2, <1>3 DEF QueueFits, Kept

\* A released job row.
LEMMA ReleasedFits ==
    ASSUME NEW status \in {"queued", "completed", "failed"}, NEW attempts \in 0 .. MaxAttempts
    PROVE  /\ Released(status, attempts) \in JobRow
           /\ Released(status, attempts).status = status
           /\ Released(status, attempts).attempts = attempts
BY DEF Released, JobRow, Active

\* What every claim reaps: jobs out of attempts fail together with their runs.
LEMMA Reaping ==
    ASSUME RunsFit
    PROVE  /\ ReapedJobs \in [Runs -> JobRow]
           /\ ReapedRuns \in [Runs -> RunRow]
           /\ \A r \in Dead : /\ job[r].status = "running"
                              /\ ReapedJobs[r].status = "failed"
                              /\ ReapedJobs[r].attempts = job[r].attempts
                              /\ ReapedRuns[r].status = IF run[r].status \in Active
                                                        THEN "failed" ELSE run[r].status
           /\ \A r \in Runs \ Dead : ReapedJobs[r] = job[r] /\ ReapedRuns[r] = run[r]
<1>1. \A r \in Runs : job[r] \in JobRow /\ job[r].attempts \in 0 .. MaxAttempts
  BY DEF RunsFit, JobRow
<1>2. \A r \in Runs : /\ Failed(run, r)[r] \in RunRow
                      /\ Failed(run, r)[r].status = IF run[r].status \in Active
                                                    THEN "failed" ELSE run[r].status
  BY DEF Failed, RunsFit, RunRow
<1>3. Dead \subseteq Runs /\ \A r \in Dead : job[r].status = "running"
  BY DEF Dead, Lapsed
<1>4. ReapedJobs \in [Runs -> JobRow]
  BY <1>1, <1>3, ReleasedFits DEF ReapedJobs
<1>5. ReapedRuns \in [Runs -> RunRow]
  BY <1>2 DEF ReapedRuns, RunsFit
<1>6. \A r \in Dead : ReapedJobs[r].status = "failed" /\ ReapedJobs[r].attempts = job[r].attempts
  BY <1>1, <1>3, ReleasedFits DEF ReapedJobs
<1> QED BY <1>2, <1>3, <1>4, <1>5, <1>6 DEF ReapedJobs, ReapedRuns

\* Reaped jobs and their runs still belong together.
LEMMA ReapedRunsFit ==
    ASSUME RunsFit, job' = ReapedJobs, run' = ReapedRuns
    PROVE  RunsFit'
<1>1. ASSUME NEW r \in Runs
      PROVE  /\ run'[r].status = "absent" <=> job'[r].status = "absent"
             /\ job'[r].status = "absent" => job'[r].attempts = 0
             /\ job'[r].status = "queued" => job'[r].attempts < MaxAttempts
             /\ job'[r].status = "failed" => run'[r].status \notin Active
             /\ run'[r].status = "completed" => job'[r].status = "completed"
  <2>1. CASE r \in Dead
    BY <2>1, Reaping DEF RunsFit, Active
  <2>2. CASE r \notin Dead
    BY <2>2, Reaping DEF RunsFit
  <2> QED BY <2>1, <2>2
<1> QED BY <1>1, Reaping DEF RunsFit

\* Claims of the others stay claims when jobs are reaped.
LEMMA ReapedClaimsFit ==
    ASSUME RunsFit, NEW v, NEW l, l.run \in Runs, IsClaim(l, job[l.run], v)
    PROVE  IsClaim(l, ReapedJobs[l.run], v)
<1>1. CASE l.run \in Dead
  BY <1>1, Reaping DEF IsClaim
<1>2. CASE l.run \notin Dead
  BY <1>2, Reaping
<1> QED BY <1>1, <1>2

\* A claim starts the next attempt of a job, so earlier claims are of earlier
\* attempts.
LEMMA ClaimFits ==
    ASSUME QueueFits, NEW w \in Workers, NEW r \in Runs, Claim(w, r)
    PROVE  QueueFits'
<1> DEFINE attempts == job[r].attempts + 1
           new == [status |-> "running", attempts |-> attempts, owner |-> w, leased |-> TRUE]
<1>1. /\ r \notin Dead /\ job[r] \in JobRow /\ job[r].attempts \in Nat
      /\ job[r].attempts < MaxAttempts /\ MaxAttempts \in Nat
      /\ job[r].status \in {"queued", "running"}
  BY GmailAssumption DEF Claim, Claimable, Lapsed, Dead, QueueFits, RunsFit, JobRow
<1>2. ReapedJobs[r] = job[r]
  BY <1>1, Reaping DEF QueueFits
<1>3. job' = [ReapedJobs EXCEPT ![r] = new] /\ run' = ReapedRuns
  BY <1>2 DEF Claim
<1>4. new \in JobRow /\ new.status = "running" /\ new.attempts = attempts /\ new.owner = w
  BY <1>1 DEF JobRow, Active
<1> HIDE DEF new
<1>5. /\ job' \in [Runs -> JobRow] /\ job'[r] = new
      /\ \A q \in Runs \ {r} : job'[q] = ReapedJobs[q]
  BY <1>3, <1>4, Reaping DEF QueueFits
<1>6. RunsFit'
  <2>1. ASSUME NEW q \in Runs
        PROVE  /\ run'[q].status = "absent" <=> job'[q].status = "absent"
               /\ job'[q].status = "absent" => job'[q].attempts = 0
               /\ job'[q].status = "queued" => job'[q].attempts < MaxAttempts
               /\ job'[q].status = "failed" => run'[q].status \notin Active
               /\ run'[q].status = "completed" => job'[q].status = "completed"
    <3>1. CASE q = r
      BY <3>1, <1>1, <1>3, <1>4, <1>5, Reaping DEF QueueFits, RunsFit
    <3>2. CASE q # r /\ q \in Dead
      BY <3>2, <1>3, <1>5, Reaping DEF QueueFits, RunsFit, Active
    <3>3. CASE q # r /\ q \notin Dead
      BY <3>3, <1>3, <1>5, Reaping DEF QueueFits, RunsFit
    <3> QED BY <3>1, <3>2, <3>3
  <2> QED BY <2>1, <1>3, <1>5, Reaping DEF QueueFits, RunsFit
<1>7. ASSUME NEW v \in Workers, at'[v].pos # "idle"
      PROVE  at'[v].run \in Runs /\ IsClaim(at'[v], job'[at'[v].run], v)
  <2>1. CASE v = w
    BY <2>1, <1>1, <1>4, <1>5, ClaimKeeps DEF QueueFits, IsClaim
  <2>2. CASE v # w
    <3>1. at'[v] = at[v] /\ at[v].run \in Runs /\ IsClaim(at[v], job[at[v].run], v)
      BY <1>7, <2>2, ClaimKeeps DEF QueueFits, ClaimsFit
    <3>2. CASE at[v].run = r
      BY <3>1, <3>2, <1>1, <1>4, <1>5 DEF IsClaim
    <3>3. CASE at[v].run # r
      BY <3>1, <3>3, <1>5, ReapedClaimsFit DEF QueueFits
    <3> QED BY <3>2, <3>3
  <2> QED BY <2>1, <2>2
<1> QED BY <1>6, <1>7, ClaimKeeps DEF QueueFits, ClaimsFit

\* A claim that only reaps.
LEMMA ClaimNothingFits ==
    ASSUME QueueFits, NEW w \in Workers, ClaimNothing(w)
    PROVE  QueueFits'
<1>1. job' = ReapedJobs /\ run' = ReapedRuns /\ at' = at
  BY DEF ClaimNothing
<1>2. ASSUME NEW v \in Workers, at[v].pos # "idle"
      PROVE  at[v].run \in Runs /\ IsClaim(at[v], ReapedJobs[at[v].run], v)
  BY <1>2, ReapedClaimsFit DEF QueueFits, ClaimsFit
<1> QED BY <1>1, <1>2, ReapedRunsFit DEF QueueFits, ClaimsFit, LocalsFit

\* The jobs that are released are those of their owners.
LEMMA ReleaseFits ==
    ASSUME QueueFits, NEW w \in Workers, at[w].pos # "idle", Owns(w),
           at' = [at EXCEPT ![w] = Idle],
           NEW status \in {"queued", "completed", "failed"},
           job' = [job EXCEPT ![at[w].run] = Released(status, job[at[w].run].attempts)],
           RunsFit'
    PROVE  QueueFits'
<1> DEFINE r == at[w].run
<1>1. r \in Runs /\ job[r].status = "running" /\ job[r].owner = w
  BY DEF QueueFits, ClaimsFit, Owns
<1>2. job'[r].attempts = job[r].attempts /\ \A q \in Runs \ {r} : job'[q] = job[q]
  <2>1. job \in [Runs -> JobRow] /\ job[r].attempts \in 0 .. MaxAttempts
    BY <1>1 DEF QueueFits, RunsFit, JobRow
  <2> DEFINE new == Released(status, job[r].attempts)
  <2>2. new.attempts = job[r].attempts
    BY <2>1, ReleasedFits
  <2> HIDE DEF new
  <2> QED BY <1>1, <2>1, <2>2 DEF new
<1>3. /\ LocalsFit' /\ at'[w].pos = "idle" /\ \A v \in Workers \ {w} : at'[v] = at[v]
  BY IdleKeeps DEF QueueFits
<1>4. ASSUME NEW v \in Workers \ {w}, at[v].pos # "idle"
      PROVE  at[v].run \in Runs /\ IsClaim(at[v], job'[at[v].run], v)
  BY <1>1, <1>2, <1>4 DEF QueueFits, ClaimsFit, IsClaim
<1> QED BY <1>3, <1>4 DEF QueueFits, ClaimsFit

\* A worker that leaves Handle releases its own job or none.
LEMMA ReturnFits ==
    ASSUME QueueFits, NEW w \in Workers, CompleteJob(w) \/ RetryJob(w) \/ Crash(w)
    PROVE  QueueFits'
<1> DEFINE r == at[w].run
<1>1. at[w].pos # "idle" /\ at' = [at EXCEPT ![w] = Idle]
  BY DEF CompleteJob, RetryJob, Crash
<1>2. r \in Runs /\ job[r] \in JobRow /\ job[r].attempts \in 0 .. MaxAttempts
  BY <1>1 DEF QueueFits, ClaimsFit, RunsFit, JobRow
<1>3. CASE UNCHANGED queue
  <2>1. RunsFit'
    BY <1>3 DEF queue, QueueFits, RunsFit
  <2>2. ClaimsFit'
    BY <1>1, <1>3, IdleKeeps DEF queue, QueueFits, ClaimsFit
  <2> QED BY <1>1, <2>1, <2>2, IdleKeeps DEF QueueFits
<1> DEFINE released(status) == Released(status, job[r].attempts)
<1>4. ASSUME Owns(w), NEW status \in {"queued", "completed", "failed"},
             job' = [job EXCEPT ![r] = released(status)]
      PROVE  /\ job' \in [Runs -> JobRow]
             /\ job'[r].status = status /\ job'[r].attempts = job[r].attempts
             /\ \A q \in Runs \ {r} : job'[q] = job[q]
             /\ run[r].status # "absent" /\ run[r].status # "completed"
  <2>1. /\ released(status) \in JobRow /\ released(status).status = status
        /\ released(status).attempts = job[r].attempts
    BY <1>2, ReleasedFits
  <2> HIDE DEF released
  <2> QED BY <1>2, <1>4, <2>1 DEF QueueFits, RunsFit, Owns
<1>5. CASE CompleteJob(w) /\ Owns(w)
  <2>1. job' = [job EXCEPT ![r] = released("completed")] /\ run' = Refreshed(run, job', parse, r)
    BY <1>5 DEF CompleteJob
  <2>2. \/ run' = run
        \/ run' = [run EXCEPT ![r].status = "completed"]
    BY <2>1 DEF Refreshed
  <2> HIDE DEF released
  <2>3. /\ run' \in [Runs -> RunRow] /\ run'[r].status \in {run[r].status, "completed"}
        /\ \A q \in Runs \ {r} : run'[q] = run[q]
    BY <1>2, <2>2, StatusIsWritten DEF QueueFits, RunsFit
  <2>4. RunsFit'
    <3>1. /\ job' \in [Runs -> JobRow]
          /\ job'[r].status = "completed" /\ \A q \in Runs \ {r} : job'[q] = job[q]
          /\ run[r].status # "absent" /\ run'[r].status # "absent"
      BY <1>4, <1>5, <2>1, <2>3
    <3> QED BY <1>2, <2>3, <3>1 DEF QueueFits, RunsFit
  <2> QED BY <1>1, <1>5, <2>1, <2>4, ReleaseFits DEF released
<1>6. CASE RetryJob(w) /\ Owns(w) /\ job[r].attempts >= MaxAttempts
  <2>1. job' = [job EXCEPT ![r] = released("failed")] /\ run' = Failed(run, r)
    BY <1>6 DEF RetryJob
  <2> HIDE DEF released
  <2>2. /\ run' \in [Runs -> RunRow]
        /\ run'[r].status = IF run[r].status \in Active THEN "failed" ELSE run[r].status
        /\ \A q \in Runs \ {r} : run'[q] = run[q]
    <3>1. CASE run[r].status \in Active
      <4>1. run' = [run EXCEPT ![r].status = "failed"]
        BY <2>1, <3>1 DEF Failed
      <4>2. /\ run' \in [Runs -> RunRow] /\ run'[r].status = "failed"
            /\ \A q \in Runs \ {r} : run'[q] = run[q]
        BY <1>2, <4>1, StatusIsWritten DEF QueueFits
      <4> QED BY <3>1, <4>2
    <3>2. CASE run[r].status \notin Active
      BY <2>1, <3>2 DEF Failed, QueueFits, RunsFit
    <3> QED BY <3>1, <3>2
  <2>3. RunsFit'
    BY <1>2, <1>4, <1>6, <2>1, <2>2 DEF QueueFits, RunsFit, Active
  <2> QED BY <1>1, <1>6, <2>1, <2>3, ReleaseFits DEF released
<1>7. CASE RetryJob(w) /\ Owns(w) /\ ~(job[r].attempts >= MaxAttempts)
  <2>1. job' = [job EXCEPT ![r] = released("queued")] /\ UNCHANGED run
    BY <1>7 DEF RetryJob
  <2> HIDE DEF released
  <2>2. job[r].attempts < MaxAttempts
    BY <1>2, <1>7, GmailAssumption
  <2>3. RunsFit'
    BY <1>2, <1>4, <1>7, <2>1, <2>2 DEF QueueFits, RunsFit
  <2> QED BY <1>1, <1>7, <2>1, <2>3, ReleaseFits DEF released
<1> QED BY <1>3, <1>5, <1>6, <1>7 DEF CompleteJob, RetryJob, Crash, queue

\* What users and the mailbox do to runs and jobs.
LEMMA CreateFits ==
    ASSUME QueueFits, NEW r \in Runs, CreateSyncRun(r)
    PROVE  QueueFits'
<1>1. /\ run[r].status = "absent" /\ run' = [run EXCEPT ![r].status = "queued"]
      /\ job' = [job EXCEPT ![r].status = "queued"] /\ UNCHANGED at
  BY DEF CreateSyncRun
<1>2. /\ run' \in [Runs -> RunRow] /\ run'[r].status = "queued"
      /\ \A q \in Runs \ {r} : run'[q] = run[q]
  BY <1>1, StatusIsWritten DEF QueueFits
<1>3. job[r].status = "absent" /\ job[r].attempts = 0
  BY <1>1 DEF QueueFits, RunsFit
<1>4. /\ job' \in [Runs -> JobRow] /\ job'[r].status = "queued" /\ job'[r].attempts = 0
      /\ \A q \in Runs \ {r} : job'[q] = job[q]
  BY <1>1, <1>3 DEF QueueFits, RunsFit, JobRow, Active
<1>5. 0 < MaxAttempts
  BY GmailAssumption
<1>6. RunsFit'
  BY <1>2, <1>4, <1>5 DEF QueueFits, RunsFit
<1>7. ClaimsFit'
  BY <1>1, <1>3, <1>4 DEF QueueFits, ClaimsFit, IsClaim
<1> QED BY <1>1, <1>6, <1>7 DEF QueueFits, LocalsFit

\* A lease that lapses leaves attempts and ownership alone.
LEMMA LapseFits ==
    ASSUME QueueFits, NEW r \in Runs, LeaseLapses(r)
    PROVE  QueueFits'
<1>1. job' = [job EXCEPT ![r].leased = FALSE] /\ UNCHANGED <<run, at>>
  BY DEF LeaseLapses
<1>2. /\ job' \in [Runs -> JobRow]
      /\ job'[r].status = job[r].status /\ job'[r].attempts = job[r].attempts
      /\ job'[r].owner = job[r].owner
      /\ \A q \in Runs \ {r} : job'[q] = job[q]
  BY <1>1 DEF QueueFits, RunsFit, JobRow
<1>3. RunsFit'
  BY <1>1, <1>2 DEF QueueFits, RunsFit
<1>4. ClaimsFit'
  BY <1>1, <1>2 DEF QueueFits, ClaimsFit, IsClaim
<1> QED BY <1>1, <1>3, <1>4 DEF QueueFits, LocalsFit

\* Steps that write no run but a refreshed one, no job and no worker.
LEMMA OutsideFits ==
    ASSUME QueueFits, UNCHANGED <<job, at>>,
           run' = run \/ \E pr, r : run' = Refreshed(run, job, pr, r)
    PROVE  QueueFits'
<1>1. RunsFit'
  <2>1. CASE run' = run
    BY <2>1 DEF QueueFits, RunsFit
  <2>2. CASE \E pr, r : run' = Refreshed(run, job, pr, r)
    BY <2>2, RefreshMoves DEF QueueFits
  <2> QED BY <2>1, <2>2
<1> QED BY <1>1 DEF QueueFits, ClaimsFit, LocalsFit

\* Every step keeps runs, jobs and claims together.
LEMMA QueueStep == QueueFits /\ [Next]_vars => QueueFits'
<1> SUFFICES ASSUME QueueFits, [Next]_vars PROVE QueueFits'
  OBVIOUS
<1>1. ASSUME NEW w \in Workers, Work(w) \/ Fault(w) PROVE QueueFits'
  BY <1>1, ClaimFits, ClaimNothingFits, HandlerFits, ReturnFits DEF Work, Fault
<1>2. CASE Mailbox
  BY <1>2, OutsideFits DEF Mailbox, Arrive, Vanish, queue
<1>3. CASE User
  <2>1. ASSUME NEW b \in Boxes, Connect(b) PROVE QueueFits'
    BY <2>1, OutsideFits DEF Connect, queue
  <2>2. ASSUME NEW m \in Messages, RetrySourceParse(m) PROVE QueueFits'
    BY <2>2, OutsideFits DEF RetrySourceParse, queue
  <2>3. ASSUME NEW m \in Messages, DeleteSource(m) PROVE QueueFits'
    <3>1. UNCHANGED <<job, at>> /\ \E pr, r : run' = Refreshed(run, job, pr, r)
      BY <2>3 DEF DeleteSource, RunAfterDeletion
    <3> QED BY <3>1, OutsideFits
  <2> QED BY <1>3, <2>1, <2>2, <2>3, CreateFits DEF User
<1>4. ASSUME NEW m \in Messages, Others(m) PROVE QueueFits'
  <2>1. UNCHANGED <<job, at>> /\ (run' = run \/ \E pr, r : run' = Refreshed(run, job, pr, r))
    BY <1>4 DEF Others, ParseSettles, CleanUp, queue
  <2> QED BY <2>1, OutsideFits
<1>5. CASE UNCHANGED vars
  BY <1>5, OutsideFits DEF vars, queue
<1> QED BY <1>1, <1>2, <1>3, <1>4, <1>5, LapseFits DEF Next

\* Before the first refresh there is no job and no claim.
LEMMA QueueInit == Init => QueueFits
<1> SUFFICES ASSUME Init PROVE QueueFits
  OBVIOUS
<1>1. 0 \in 0 .. MaxAttempts
  BY GmailAssumption
<1>2. RunsFit
  BY <1>1 DEF Init, RunsFit, RunRow, JobRow, Active
<1>3. LocalsFit /\ ClaimsFit
  BY DEF Init, LocalsFit, ClaimsFit, Whole, Idle
<1> QED BY <1>2, <1>3 DEF QueueFits

\* The row of a run that gets the status it has.
LEMMA SameStatus ==
    ASSUME RunsFit, NEW r \in Runs, NEW status, run[r].status = status,
           run' = [run EXCEPT ![r].status = status]
    PROVE  \A q \in Runs : run'[q] = run[q]
BY DEF RunsFit, RunRow

\* A run that has ended stays as it is: the only statement without a guard is
\* that of the last attempt, and a worker in the last attempt of a job knows
\* that the job is not complete.
THEOREM EndedRunsStay == Spec => TerminalRunsAreFinal
<1> DEFINE Final == \A r \in Runs : run[r].status \in {"completed", "failed"} => run'[r] = run[r]
<1>1. ASSUME QueueFits, NEW w \in Workers,
             \/ Handle(w) \/ Errs(w) \/ ErrsUnrecorded(w) \/ FailureUnrecorded(w)
      PROVE  Final
  <2> DEFINE r == at[w].run
  <2>1. at[w].pos # "idle"
    BY <1>1, HandleKeeps DEF QueueFits
  <2>2. r \in Runs /\ IsClaim(at[w], job[r], w) /\ job[r].attempts \in 0 .. MaxAttempts
    BY <1>1, <2>1 DEF QueueFits, ClaimsFit, RunsFit, JobRow
  <2>3. CASE UNCHANGED run
    BY <2>3
  <2>4. CASE \E row : run' = [run EXCEPT ![r] = row] /\ run[r].status \in Active
    BY <1>1, <2>2, <2>4 DEF QueueFits, RunsFit, Active
  <2>5. CASE RecordSyncFailure(w) /\ at[w].attempt >= MaxAttempts
    <3>1. run' = [run EXCEPT ![r].status = "failed"]
      BY <2>5 DEF RecordSyncFailure
    <3>2. MaxAttempts \in Nat
      BY GmailAssumption
    <3>3. at[w].attempt = job[r].attempts
      BY <2>2, <2>5, <3>2 DEF IsClaim
    <3>4. run[r].status # "completed"
      BY <1>1, <2>2, <3>3 DEF IsClaim, QueueFits, RunsFit
    <3>5. CASE run[r].status = "failed"
      BY <1>1, <2>2, <3>1, <3>5, SameStatus DEF QueueFits
    <3>6. CASE run[r].status # "failed"
      BY <1>1, <2>2, <3>1, <3>4, <3>6 DEF QueueFits, RunsFit
    <3> QED BY <3>5, <3>6
  <2>6. CASE StartSyncRun(w)
    BY <2>3, <2>4, <2>6 DEF StartSyncRun, Active
  <2>7. CASE CompleteSyncRun(w)
    BY <2>3, <2>4, <2>7 DEF CompleteSyncRun
  <2>8. CASE RecordSyncFailure(w) /\ ~(at[w].attempt >= MaxAttempts)
    BY <2>3, <2>4, <2>8 DEF RecordSyncFailure, CheckAllowsRunning
  <2>9. ~StartSyncRun(w) /\ ~CompleteSyncRun(w) /\ ~RecordSyncFailure(w) => UNCHANGED run
    BY <1>1 DEF Handle, ReadConnection, CaptureHistory, ListNewest, ListHistory,
           HistoryExpired, ListWhole, SkipMessage, StoreMessage, Upload, UploadFails,
           SaveMetadata, EnqueueSourceParse, UpdateConnectionCursor,
           Errs, ErrsUnrecorded, FailureUnrecorded, queue
  <2> QED BY <2>3, <2>5, <2>6, <2>7, <2>8, <2>9
<1>2. ASSUME QueueFits, NEW rn, NEW pr, NEW r, run' = Refreshed(run, rn, pr, r) PROVE Final
  BY <1>2 DEF Refreshed, Active, QueueFits, RunsFit
<1>3. ASSUME QueueFits, run' = ReapedRuns PROVE Final
  <2>1. ASSUME NEW q \in Runs, run[q].status \in {"completed", "failed"}
        PROVE  run'[q] = run[q]
    BY <1>3, <2>1 DEF ReapedRuns, Failed, Active
  <2> QED BY <2>1
<1>4. ASSUME QueueFits, NEW w \in Workers, Work(w) \/ Fault(w) PROVE Final
  <2>1. CASE ClaimNothing(w) \/ \E r \in Runs : Claim(w, r)
    BY <1>3, <1>4, <2>1 DEF Claim, ClaimNothing
  <2>2. CASE CompleteJob(w)
    BY <1>2, <1>4, <2>2 DEF CompleteJob, queue
  <2>3. CASE RetryJob(w)
    BY <1>4, <2>3 DEF RetryJob, Failed, queue, QueueFits, RunsFit, Active
  <2>4. CASE Crash(w)
    BY <2>4 DEF Crash, queue
  <2> QED BY <1>1, <1>4, <2>1, <2>2, <2>3, <2>4 DEF Work, Fault
<1>5. ASSUME QueueFits, User PROVE Final
  <2>1. CASE \E b \in Boxes : Connect(b)
    BY <2>1 DEF Connect, queue
  <2>2. ASSUME NEW r \in Runs, CreateSyncRun(r) PROVE Final
    <3>1. run' = [run EXCEPT ![r].status = "queued"] /\ run[r].status = "absent"
      BY <2>2 DEF CreateSyncRun
    <3> QED BY <1>5, <3>1, StatusIsWritten DEF QueueFits
  <2>3. ASSUME NEW m \in Messages, RetrySourceParse(m) PROVE Final
    BY <2>3 DEF RetrySourceParse, queue
  <2>4. ASSUME NEW m \in Messages, DeleteSource(m) PROVE Final
    BY <1>2, <1>5, <2>4 DEF DeleteSource, RunAfterDeletion
  <2> HIDE DEF Final
  <2> QED BY <1>5, <2>1, <2>2, <2>3, <2>4 DEF User
<1>6. ASSUME QueueFits, NEW m \in Messages, Others(m) PROVE Final
  BY <1>2, <1>6 DEF Others, ParseSettles, CleanUp, queue
<1>7. QueueFits /\ [Next]_vars => Final
  <2>1. UNCHANGED run => Final
    OBVIOUS
  <2>2. Mailbox \/ (\E r \in Runs : LeaseLapses(r)) \/ UNCHANGED vars => UNCHANGED run
    BY DEF Mailbox, Arrive, Vanish, LeaseLapses, vars, queue
  <2> HIDE DEF Final
  <2> QED BY <1>4, <1>5, <1>6, <2>1, <2>2 DEF Next
<1>8. QueueFits /\ [Next]_vars =>
        [\A r \in Runs : run[r].status \in {"completed", "failed"} => run'[r] = run[r]]_vars
  BY <1>7
<1> QED BY <1>8, QueueInit, QueueStep, PTL DEF Spec, TerminalRunsAreFinal

----------------------------------------------------------------------------
\* Sources, tombstones and objects belong together: what is deleted has no
\* source, what has no source has no parse job, only deleted messages are
\* cleaned up, and what was ever parsed is in the bucket.
SourcesFit ==
    /\ source = [m \in Messages |-> source[m]]
    /\ parse = [m \in Messages |-> parse[m]]
    /\ cleanup \subseteq tomb /\ tomb \subseteq Messages
    /\ \A m \in Messages :
         /\ m \in tomb => source[m] = "absent"
         /\ parse[m] # None => source[m] # "absent"
         /\ m \in Attached /\ (source[m] \in {"parsed", "failed"} \/ parse[m] # None) =>
              m \in objects

\* A handler past its upload holds a message whose attachment is stored,
\* unless the message has been deleted meanwhile.
Stored(l) ==
    l.pos \in {"metadata", "enqueue"} /\ Head(l.refs) \in Attached =>
        Head(l.refs) \in objects \cup tomb

MailFits == SourcesFit /\ \A w \in Workers : Stored(at[w])

\* Storing a message, uploading its attachment and queueing its parse job.
LEMMA HandlerKeepsMail ==
    ASSUME LocalsFit, MailFits, NEW w \in Workers,
           \/ Handle(w) \/ Errs(w) \/ ErrsUnrecorded(w) \/ FailureUnrecorded(w)
    PROVE  MailFits'
<1> DEFINE m == Head(at[w].refs)
<1>1. /\ Kept(w)
      /\ at'[w].pos \in {"metadata", "enqueue"} =>
           /\ Goto(w, at'[w].pos) /\ at'[w].refs = at[w].refs
           /\ StoreMessage(w) \/ Upload(w) \/ SaveMetadata(w)
  BY HandleKeeps
<1>2. UNCHANGED <<tomb, cleanup>>
  BY DEF Handle, StartSyncRun, ReadConnection, CaptureHistory, ListNewest, ListHistory,
         HistoryExpired, ListWhole, SkipMessage, StoreMessage, Upload, UploadFails,
         SaveMetadata, EnqueueSourceParse, UpdateConnectionCursor, CompleteSyncRun,
         RecordSyncFailure, Errs, ErrsUnrecorded, FailureUnrecorded, store
<1>3. objects \subseteq objects'
  BY DEF Handle, StartSyncRun, ReadConnection, CaptureHistory, ListNewest, ListHistory,
         HistoryExpired, ListWhole, SkipMessage, StoreMessage, Upload, UploadFails,
         SaveMetadata, EnqueueSourceParse, UpdateConnectionCursor, CompleteSyncRun,
         RecordSyncFailure, Errs, ErrsUnrecorded, FailureUnrecorded, store
<1>4. ~StoreMessage(w) /\ ~EnqueueSourceParse(w) => UNCHANGED <<source, parse>>
  BY DEF Handle, StartSyncRun, ReadConnection, CaptureHistory, ListNewest, ListHistory,
         HistoryExpired, ListWhole, SkipMessage, Upload, UploadFails,
         SaveMetadata, UpdateConnectionCursor, CompleteSyncRun,
         RecordSyncFailure, Errs, ErrsUnrecorded, FailureUnrecorded, store
<1>5. SourcesFit'
  <2>1. CASE UNCHANGED <<source, parse>>
    BY <1>2, <1>3, <2>1 DEF MailFits, SourcesFit
  <2>2. CASE StoreMessage(w)
    <3>1. /\ m \notin tomb /\ UNCHANGED parse
          /\ source' = [source EXCEPT ![m] = IF @ = "absent" THEN "pending" ELSE @]
      BY <2>2 DEF StoreMessage, NotDeleted
    <3>2. ASSUME NEW n \in Messages
          PROVE  \/ source'[n] = source[n]
                 \/ n = m /\ source[n] = "absent" /\ source'[n] = "pending"
      BY <3>1 DEF MailFits, SourcesFit
    <3>3. source' = [n \in Messages |-> source'[n]]
      BY <3>1 DEF MailFits, SourcesFit
    <3> QED BY <1>2, <1>3, <3>1, <3>2, <3>3 DEF MailFits, SourcesFit
  <2>3. CASE EnqueueSourceParse(w)
    <3>1. /\ at[w].pos = "enqueue" /\ source[m] # "absent" /\ UNCHANGED source
          /\ parse' = parse \/ parse' = [parse EXCEPT ![m] = at[w].run]
      BY <2>3 DEF EnqueueSourceParse
    <3>2. m \in Messages /\ m \in Attached => m \in objects
      BY <3>1 DEF MailFits, SourcesFit, Stored
    <3>3. ASSUME NEW n \in Messages PROVE n = m \/ parse'[n] = parse[n]
      BY <3>1 DEF MailFits, SourcesFit
    <3>4. parse' = [n \in Messages |-> parse'[n]]
      BY <3>1 DEF MailFits, SourcesFit
    <3> QED BY <1>2, <1>3, <3>1, <3>2, <3>3, <3>4 DEF MailFits, SourcesFit
  <2> QED BY <1>4, <2>1, <2>2, <2>3
<1>6. ASSUME NEW v \in Workers PROVE Stored(at[v])'
  <2>1. CASE v # w
    BY <1>1, <1>2, <1>3, <2>1 DEF MailFits, Stored, Kept
  <2>2. CASE v = w /\ at'[w].pos \in {"metadata", "enqueue"}
    <3>1. CASE StoreMessage(w)
      <4>1. Goto(w, AfterStore(m))
        BY <3>1 DEF StoreMessage
      <4>2. at'[w].pos = AfterStore(m)
        BY <4>1, GotoKeeps
      <4> QED BY <1>1, <2>2, <4>2 DEF AfterStore, Stored
    <3>2. CASE Upload(w)
      <4>1. m \in objects'
        BY <3>2 DEF Upload
      <4> QED BY <1>1, <2>2, <4>1 DEF Stored
    <3>3. CASE SaveMetadata(w)
      <4>1. at[w].pos = "metadata"
        BY <3>3 DEF SaveMetadata
      <4> QED BY <1>1, <1>2, <1>3, <2>2, <4>1 DEF MailFits, Stored
    <3> QED BY <1>1, <2>2, <3>1, <3>2, <3>3
  <2>3. CASE v = w /\ at'[w].pos \notin {"metadata", "enqueue"}
    BY <2>3 DEF Stored
  <2> QED BY <2>1, <2>2, <2>3
<1> QED BY <1>5, <1>6 DEF MailFits

\* Steps of the queue and of others that leave sources and objects alone.
LEMMA MailRests ==
    ASSUME MailFits, UNCHANGED <<source, parse, tomb, objects, cleanup>>,
           \A w \in Workers :
               at'[w] = at[w] \/ at'[w].pos \notin {"metadata", "enqueue"}
    PROVE  MailFits'
<1>1. SourcesFit'
  BY DEF MailFits, SourcesFit
<1>2. ASSUME NEW w \in Workers PROVE Stored(at[w])'
  BY DEF MailFits, Stored
<1> QED BY <1>1, <1>2 DEF MailFits

\* What a user retries or deletes, and what the parser settles.
LEMMA OthersKeepMail ==
    ASSUME MailFits, NEW m \in Messages,
           RetrySourceParse(m) \/ DeleteSource(m) \/ Others(m)
    PROVE  MailFits'
<1>1. UNCHANGED at
  BY DEF RetrySourceParse, DeleteSource, Others, ParseSettles, CleanUp
<1>2. objects \cup tomb \subseteq (objects \cup tomb)'
  BY DEF RetrySourceParse, DeleteSource, Others, ParseSettles, CleanUp, MailFits, SourcesFit
<1>3. SourcesFit'
  <2>1. CASE RetrySourceParse(m)
    <3>1. /\ source[m] = "failed" /\ UNCHANGED <<tomb, objects, cleanup>>
          /\ source' = [source EXCEPT ![m] = "pending"]
          /\ parse' = [parse EXCEPT ![m] = NoRun]
      BY <2>1 DEF RetrySourceParse
    <3> QED BY <3>1 DEF MailFits, SourcesFit
  <2>2. CASE DeleteSource(m)
    <3>1. /\ tomb' = tomb \cup {m} /\ UNCHANGED objects
          /\ source' = [source EXCEPT ![m] = "absent"]
          /\ parse' = [parse EXCEPT ![m] = None]
          /\ cleanup' \subseteq cleanup \cup {m}
      BY <2>2 DEF DeleteSource, SourceObjectPaths
    <3> QED BY <3>1 DEF MailFits, SourcesFit
  <2>3. ASSUME NEW outcome \in {"parsed", "failed"}, ParseSettles(m, outcome) PROVE SourcesFit'
    <3>1. /\ parse[m] # None /\ UNCHANGED <<tomb, objects, cleanup>>
          /\ source' = [source EXCEPT ![m] = outcome]
          /\ parse' = [parse EXCEPT ![m] = None]
      BY <2>3 DEF ParseSettles
    <3> QED BY <3>1 DEF MailFits, SourcesFit
  <2>4. CASE CleanUp(m)
    <3>1. /\ m \in cleanup /\ UNCHANGED <<source, parse, tomb>>
          /\ objects' = objects \ {m} /\ cleanup' = cleanup \ {m}
      BY <2>4 DEF CleanUp
    <3> QED BY <3>1 DEF MailFits, SourcesFit
  <2> QED BY <2>1, <2>2, <2>3, <2>4 DEF Others
<1>4. ASSUME NEW w \in Workers PROVE Stored(at[w])'
  BY <1>1, <1>2 DEF MailFits, Stored
<1> QED BY <1>3, <1>4 DEF MailFits

\* Every step keeps sources, tombstones and objects together.
LEMMA MailStep == LocalsFit /\ MailFits /\ [Next]_vars => MailFits'
<1> SUFFICES ASSUME LocalsFit, MailFits, [Next]_vars PROVE MailFits'
  OBVIOUS
<1>1. ASSUME NEW w \in Workers, Work(w) \/ Fault(w) PROVE MailFits'
  <2>1. ASSUME NEW r \in Runs, Claim(w, r) PROVE MailFits'
    <3>1. UNCHANGED <<source, parse, tomb, objects, cleanup>>
      BY <2>1 DEF Claim, store
    <3> QED BY <2>1, <3>1, ClaimKeeps, MailRests
  <2>2. CASE ClaimNothing(w)
    BY <2>2, MailRests DEF ClaimNothing, store
  <2>3. CASE CompleteJob(w) \/ RetryJob(w) \/ Crash(w)
    <3>1. UNCHANGED <<source, parse, tomb, objects, cleanup>> /\ at' = [at EXCEPT ![w] = Idle]
      BY <2>3 DEF CompleteJob, RetryJob, Crash, store
    <3> QED BY <3>1, IdleKeeps, MailRests
  <2> QED BY <1>1, <2>1, <2>2, <2>3, HandlerKeepsMail DEF Work, Fault
<1>2. CASE Mailbox
  BY <1>2, MailRests DEF Mailbox, Arrive, Vanish, store
<1>3. CASE User
  <2>1. ASSUME NEW b \in Boxes, Connect(b) PROVE MailFits'
    BY <2>1, MailRests DEF Connect, store
  <2>2. ASSUME NEW r \in Runs, CreateSyncRun(r) PROVE MailFits'
    BY <2>2, MailRests DEF CreateSyncRun, store
  <2> QED BY <1>3, <2>1, <2>2, OthersKeepMail DEF User
<1>4. ASSUME NEW r \in Runs, LeaseLapses(r) PROVE MailFits'
  BY <1>4, MailRests DEF LeaseLapses, store
<1>5. CASE UNCHANGED vars
  BY <1>5, MailRests DEF vars, store
<1> QED BY <1>1, <1>2, <1>3, <1>4, <1>5, OthersKeepMail DEF Next

\* Before the first refresh nothing is stored.
LEMMA MailInit == Init => MailFits
BY DEF Init, MailFits, SourcesFit, Stored, Idle

\* In every behaviour sources, tombstones and objects belong together.
LEMMA MailAlways == Spec => []MailFits
<1>1. Init => QueueFits /\ MailFits
  BY QueueInit, MailInit
<1>2. QueueFits /\ MailFits /\ [Next]_vars => QueueFits' /\ MailFits'
  BY QueueStep, MailStep DEF QueueFits
<1> QED BY <1>1, <1>2, PTL DEF Spec

\* A deleted message stays deleted: every attempt, however stale, looks at the
\* tombstones in the transaction that stores the source.
THEOREM DeletedMessagesStayDeleted == Spec => []DeletedStaysDeleted
<1>1. MailFits => DeletedStaysDeleted
  BY DEF MailFits, SourcesFit, DeletedStaysDeleted
<1> QED BY <1>1, MailAlways, PTL

\* The attachment of a message is in the bucket whenever a parse job of the
\* message exists, also when stale attempts, retries and cleanups interleave.
THEOREM AttachmentsPrecedeParsing == Spec => []ParseFindsAttachment
<1>1. MailFits => ParseFindsAttachment
  BY GmailAssumption DEF MailFits, SourcesFit, ParseFindsAttachment
<1> QED BY <1>1, MailAlways, PTL

----------------------------------------------------------------------------
\* What has arrived in some account, by the number of arrivals in each.
Received(arr) == UNION {{Mail[b][i] : i \in 1 .. arr[b]} : b \in Boxes}

\* A cursor is no later than the mailbox it was read from.
CursorFits(c, arr) == c # None => c \in Cursor /\ c.id <= arr[c.box]

\* Positions at which the listing has begun, and at which it is complete.
InLoop == {"each", "upload", "metadata", "enqueue"}

Listing == {"newest", "whole"} \cup InLoop

\* A worker reads and lists one mailbox, and what it lists has arrived there.
HandFits(l, arr) ==
    /\ l \in Local
    /\ l.pos \in Listing \cup {"list"} => l.box \in Boxes
    /\ CursorFits(l.cursor, arr) /\ CursorFits(l.next, arr)
    /\ l.pos \in Listing => l.next \in Cursor /\ l.next.box = l.box
    /\ Range(l.refs) \subseteq Received(arr)
    /\ l.pos \in InLoop \ {"each"} => l.refs # << >>

\* A run or a cursor exists only for a connected account.
MailboxFits ==
    /\ arrived \in [Boxes -> Nat]
    /\ \A b \in Boxes : arrived[b] <= Len(Mail[b])
    /\ gone \subseteq Messages
    /\ conn \in [box : Boxes \cup {None}, cursor : Cursor \cup {None}]
    /\ CursorFits(conn.cursor, arrived)
    /\ (conn.cursor # None \/ \E r \in Runs : run[r].status # "absent") => conn.box # None

\* Only what has arrived is stored.
StoreFits ==
    /\ source \in [Messages -> {"absent", "pending", "parsed", "failed"}]
    /\ meta \in [Messages -> {"none", "stored", "failed"}]
    /\ parse \in [Messages -> Runs \cup {NoRun, None}]
    /\ tomb \subseteq Messages /\ objects \subseteq Messages
    /\ cleanup \subseteq Messages /\ beyond \subseteq Messages
    /\ \A m \in Messages : source[m] # "absent" => m \in Received(arrived)

Typed ==
    /\ MailboxFits /\ StoreFits
    /\ at \in [Workers -> Local]
    /\ \A w \in Workers : HandFits(at[w], arrived)

\* The messages that need nothing more of a refresh: they have left Gmail or
\* were left out or deleted, or their source was queued for parsing.
Handled ==
    {m \in Messages : \/ m \in gone \cup tomb \cup beyond
                      \/ source[m] # "absent" /\ (source[m] = "pending" => parse[m] # None)}

CoveredTo(c, H) == c # None => \A i \in 1 .. c.id : Mail[c.box][i] \in H

\* Whatever lies before the cursor a worker is about to store is handled or
\* still on its list.
Covers(l, H) ==
    /\ l.cursor # None => l.cursor.box = l.box
    /\ CoveredTo(l.cursor, H)
    /\ l.pos = "newest" => l.cursor = None
    /\ l.pos \in InLoop =>
         \A i \in 1 .. l.next.id : Mail[l.box][i] \in H \cup Range(l.refs)

CursorCovers ==
    /\ CoveredTo(conn.cursor, Handled)
    /\ \A w \in Workers : Covers(at[w], Handled)

\* The lists a listing builds over the first n arrivals.
IsSince(b, id, n, f) ==
    f = [i \in 0 .. n |-> IF i <= id THEN << >>
                          ELSE IF Mail[b][i] \in gone THEN f[i - 1]
                          ELSE Append(f[i - 1], Mail[b][i])]

\* A listing is defined, whatever its length.
LEMMA SinceExists ==
    ASSUME NEW b, NEW id \in Nat, NEW n \in Nat
    PROVE  \E f : IsSince(b, id, n, f)
<1> DEFINE T == {k \in Nat : ~ \E f : IsSince(b, id, k, f)}
<1>1. SUFFICES ASSUME T # {} PROVE FALSE
  OBVIOUS
<1>2. PICK k \in T : \A m \in T : k <= m
  BY <1>1, LeastNumber
<1>3. k \in Nat /\ ~ \E f : IsSince(b, id, k, f)
  OBVIOUS
<1>4. CASE k = 0
  <2>1. IsSince(b, id, 0, [i \in 0 .. 0 |-> << >>])
    BY DEF IsSince
  <2> QED BY <1>3, <1>4, <2>1
<1>5. CASE k # 0
  <2>1. k - 1 \in Nat /\ k - 1 \notin T
    BY <1>2, <1>3, <1>5
  <2>2. PICK f : IsSince(b, id, k - 1, f)
    BY <2>1
  <2> DEFINE new == IF k <= id THEN << >>
                    ELSE IF Mail[b][k] \in gone THEN f[k - 1]
                    ELSE Append(f[k - 1], Mail[b][k])
             g == [i \in 0 .. k |-> IF i = k THEN new ELSE f[i]]
  <2>3. \A i \in 0 .. k - 1 : g[i] = f[i]
    BY <1>3
  <2>4. g[k] = new
    BY <1>3
  <2>5. ASSUME NEW i \in 0 .. k
        PROVE  g[i] = IF i <= id THEN << >>
                      ELSE IF Mail[b][i] \in gone THEN g[i - 1]
                      ELSE Append(g[i - 1], Mail[b][i])
    <3> HIDE DEF g
    <3>1. CASE i = k
      <4>1. k - 1 \in 0 .. k - 1
        BY <1>3, <1>5
      <4>2. g[k - 1] = f[k - 1]
        BY <2>3, <4>1
      <4> QED BY <2>4, <3>1, <4>2
    <3>2. CASE i # k
      <4>1. i \in 0 .. k - 1 /\ (~(i <= id) => i - 1 \in 0 .. k - 1)
        BY <1>3, <3>2
      <4>2. f[i] = IF i <= id THEN << >>
                   ELSE IF Mail[b][i] \in gone THEN f[i - 1]
                   ELSE Append(f[i - 1], Mail[b][i])
        BY <2>2, <4>1 DEF IsSince
      <4>3. ~(i <= id) => g[i - 1] = f[i - 1]
        BY <2>3, <4>1
      <4> QED BY <2>3, <4>1, <4>2, <4>3
    <3> QED BY <3>1, <3>2
  <2>6. IsSince(b, id, k, g)
    <3>1. g = [i \in 0 .. k |-> g[i]]
      OBVIOUS
    <3> HIDE DEF g
    <3> QED BY <2>5, <3>1 DEF IsSince
  <2> QED BY <1>3, <2>6
<1> QED BY <1>4, <1>5

\* One more element.
LEMMA AppendRange ==
    ASSUME NEW S, NEW s \in Seq(S), NEW e \in S
    PROVE  Append(s, e) \in Seq(S) /\ Range(Append(s, e)) = Range(s) \cup {e}
<1> DEFINE t == Append(s, e)
<1>1. /\ t \in Seq(S) /\ DOMAIN t = 1 .. Len(s) + 1 /\ DOMAIN s = 1 .. Len(s)
      /\ t[Len(s) + 1] = e /\ \A i \in 1 .. Len(s) : t[i] = s[i]
  BY AppendProperties
<1>2. Len(s) \in Nat
  OBVIOUS
<1> HIDE DEF t
<1>3. 1 .. Len(s) + 1 = (1 .. Len(s)) \cup {Len(s) + 1}
  BY <1>2
<1>4. Range(t) = Range(s) \cup {e}
  BY <1>1, <1>2, <1>3 DEF Range
<1> QED BY <1>1, <1>4 DEF t

\* A listing is the messages after the ID that have arrived and are not gone.
LEMMA SinceIsListing ==
    ASSUME NEW b \in Boxes, NEW id \in Nat, arrived[b] \in 0 .. Len(Mail[b])
    PROVE  /\ Since(b, id) \in Seq(Messages)
           /\ Range(Since(b, id)) = {Mail[b][i] : i \in id + 1 .. arrived[b]} \ gone
<1> DEFINE N == arrived[b]
<1>0. N \in Nat /\ Mail[b] \in Seq(Messages) /\ N \in 0 .. Len(Mail[b])
  BY GmailAssumption
<1>1. PICK f : IsSince(b, id, N, f) /\ Since(b, id) = f[N]
  <2>1. \E g : IsSince(b, id, N, g)
    BY <1>0, SinceExists
  <2>2. Since(b, id) = (CHOOSE g : IsSince(b, id, N, g))[N]
    BY DEF Since, IsSince
  <2> QED BY <2>1, <2>2
<1> DEFINE Is(k) == /\ f[k] \in Seq(Messages)
                    /\ Range(f[k]) = {Mail[b][i] : i \in id + 1 .. k} \ gone
           T == {k \in 0 .. N : ~Is(k)}
<1> HIDE DEF Is
<1>2. ASSUME T # {} PROVE FALSE
  <2>1. T \subseteq Nat
    BY <1>0
  <2>2. PICK k \in T : \A m \in T : k <= m
    BY <1>2, <2>1, LeastNumber
  <2>3. k \in 0 .. N /\ ~Is(k)
    OBVIOUS
  <2>4. f[k] = IF k <= id THEN << >>
               ELSE IF Mail[b][k] \in gone THEN f[k - 1]
               ELSE Append(f[k - 1], Mail[b][k])
    BY <1>1, <2>3 DEF IsSince
  <2>5. CASE k <= id
    <3>1. id + 1 .. k = {}
      BY <1>0, <2>3, <2>5
    <3>2. f[k] \in Seq(Messages) /\ Range(f[k]) = {}
      BY <2>4, <2>5 DEF Range
    <3> QED BY <2>3, <3>1, <3>2 DEF Is
  <2>6. CASE ~(k <= id)
    <3>1. k - 1 \in 0 .. N /\ k - 1 \notin T
      BY <1>0, <2>2, <2>3, <2>6
    <3>2. Is(k - 1)
      BY <3>1
    <3>3. Mail[b][k] \in Messages /\ id + 1 .. k = (id + 1 .. k - 1) \cup {k}
      BY <1>0, <2>3, <2>6
    <3>4. {Mail[b][i] : i \in id + 1 .. k} = {Mail[b][i] : i \in id + 1 .. k - 1} \cup {Mail[b][k]}
      BY <3>3
    <3>5. CASE Mail[b][k] \in gone
      BY <2>3, <2>4, <2>6, <3>2, <3>4, <3>5 DEF Is
    <3>6. CASE Mail[b][k] \notin gone
      <4>1. PICK s \in Seq(Messages) : s = f[k - 1]
        BY <3>2 DEF Is
      <4>2. f[k] = Append(s, Mail[b][k])
        BY <2>4, <2>6, <3>6, <4>1
      <4>3. f[k] \in Seq(Messages) /\ Range(f[k]) = Range(s) \cup {Mail[b][k]}
        BY <3>3, <4>2, AppendRange
      <4> QED BY <2>3, <3>2, <3>4, <3>6, <4>1, <4>3 DEF Is
    <3> QED BY <3>5, <3>6
  <2> QED BY <2>5, <2>6
<1>3. Is(N)
  BY <1>0, <1>2
<1> QED BY <1>1, <1>3 DEF Is

\* The same messages, in the order of the listings.
LEMMA NewestFirstLists ==
    ASSUME NEW s \in Seq(Messages)
    PROVE  NewestFirst(s) \in Seq(Messages) /\ Range(NewestFirst(s)) = Range(s)
<1> DEFINE n == Len(s)
           t == NewestFirst(s)
<1>1. n \in Nat /\ DOMAIN s = 1 .. n /\ \A i \in 1 .. n : s[i] \in Messages
  OBVIOUS
<1>2. t = [i \in 1 .. n |-> s[n + 1 - i]]
  BY <1>1 DEF NewestFirst
<1> HIDE DEF t
<1>3. \A i \in 1 .. n : n + 1 - i \in 1 .. n /\ n + 1 - (n + 1 - i) = i
  BY <1>1
<1>4. DOMAIN t = 1 .. n /\ \A i \in 1 .. n : t[i] = s[n + 1 - i]
  BY <1>2
<1>5. t \in Seq(Messages)
  BY <1>1, <1>2, <1>3
<1>6. Range(t) \subseteq Range(s)
  BY <1>1, <1>3, <1>4 DEF Range
<1>7. ASSUME NEW i \in 1 .. n PROVE s[i] \in Range(t)
  <2>1. n + 1 - i \in 1 .. n /\ t[n + 1 - i] = s[i]
    BY <1>3, <1>4
  <2> QED BY <1>4, <2>1 DEF Range
<1>8. Range(s) \subseteq Range(t)
  BY <1>1, <1>7 DEF Range
<1> QED BY <1>5, <1>6, <1>8 DEF t

\* A listing of everything: what arrived and is not gone.
LEMMA ListedLists ==
    ASSUME MailboxFits, NEW b \in Boxes
    PROVE  /\ Listed(b) \in Seq(Messages) /\ NewestFirst(Listed(b)) \in Seq(Messages)
           /\ Range(Listed(b)) = {Mail[b][i] : i \in 1 .. arrived[b]} \ gone
           /\ Range(NewestFirst(Listed(b))) = Range(Listed(b))
           /\ Range(Listed(b)) \subseteq Received(arrived)
<1>1. arrived[b] \in 0 .. Len(Mail[b])
  BY GmailAssumption DEF MailboxFits
<1>2. 0 \in Nat /\ 0 + 1 = 1
  OBVIOUS
<1>3. /\ Listed(b) \in Seq(Messages)
      /\ Range(Listed(b)) = {Mail[b][i] : i \in 1 .. arrived[b]} \ gone
  BY <1>1, <1>2, SinceIsListing DEF Listed
<1> QED BY <1>3, NewestFirstLists DEF Received

\* A listing of the history after a cursor.
LEMMA AddedLists ==
    ASSUME MailboxFits, NEW b \in Boxes, NEW id \in Nat
    PROVE  /\ Added(b, id) \in Seq(Messages)
           /\ Range(Added(b, id)) = {Mail[b][i] : i \in id + 1 .. arrived[b]} \ gone
           /\ Range(Added(b, id)) \subseteq Received(arrived)
<1>1. arrived[b] \in 0 .. Len(Mail[b])
  BY GmailAssumption DEF MailboxFits
<1>2. /\ Since(b, id) \in Seq(Messages)
      /\ Range(Since(b, id)) = {Mail[b][i] : i \in id + 1 .. arrived[b]} \ gone
  BY <1>1, SinceIsListing
<1>3. id + 1 .. arrived[b] \subseteq 1 .. arrived[b]
  BY <1>1
<1> QED BY <1>2, <1>3, NewestFirstLists DEF Added, Received

\* The newest of a listing are of the listing.
LEMMA NewestLists ==
    ASSUME MailboxFits, NEW b \in Boxes
    PROVE  /\ Newest(b, InitialMax) \in Seq(Messages)
           /\ Range(Newest(b, InitialMax)) \subseteq Range(Listed(b))
<1> DEFINE all == NewestFirst(Listed(b))
           k == IF InitialMax < Len(all) THEN InitialMax ELSE Len(all)
<1>1. all \in Seq(Messages) /\ Range(all) = Range(Listed(b))
  BY ListedLists
<1>2. InitialMax \in Nat
  BY GmailAssumption
<1>3. Newest(b, InitialMax) = SubSeq(all, 1, k)
  BY DEF Newest
<1> HIDE DEF all
<1>4. k \in 0 .. Len(all) /\ k \in Int /\ k - 1 + 1 = k
  BY <1>1, <1>2
<1> HIDE DEF k
<1>5. \A i \in 1 .. k : all[i] \in Messages /\ i \in DOMAIN all
  BY <1>1, <1>4
<1> DEFINE sub == SubSeq(all, 1, k)
<1>6. sub \in Seq(Messages) /\ Len(sub) = k /\ \A i \in 1 .. k : sub[i] = all[i]
  BY <1>1, <1>4, <1>5
<1> HIDE DEF sub
<1>7. Range(sub) \subseteq Range(all)
  BY <1>1, <1>5, <1>6 DEF Range
<1> QED BY <1>1, <1>3, <1>6, <1>7 DEF sub

----------------------------------------------------------------------------
\* A worker state with some of its fields replaced.
With(l, p, b, c, refs, next) ==
    [pos |-> p, run |-> l.run, attempt |-> l.attempt, box |-> b, cursor |-> c,
     refs |-> refs, next |-> next]

\* What each step of the handler writes into the state of its worker.
Reads(l, n) == n = With(l, "list", conn.box, conn.cursor, l.refs, l.next)

Lists(l, n) ==
    \/ l.pos = "list" /\ l.cursor = None
         /\ n = With(l, "newest", l.box, l.cursor, l.refs, Now(l.box))
    \/ l.pos = "list" /\ l.cursor # None
         /\ n = With(l, "whole", l.box, l.cursor, l.refs, Now(l.box))
    \/ l.pos = "list" /\ l.cursor # None
         /\ n = With(l, "each", l.box, l.cursor, Added(l.box, l.cursor.id), Now(l.box))
    \/ l.pos = "newest"
         /\ n = With(l, "each", l.box, l.cursor, Newest(l.box, InitialMax), l.next)
    \/ l.pos = "whole"
         /\ n = With(l, "each", l.box, l.cursor, NewestFirst(Listed(l.box)), l.next)

\* The first message of the list is done with, or the next step of it begins.
Loops(l, n) ==
    /\ l.pos \in InLoop /\ l.refs # << >>
    /\ \/ n = With(l, "each", l.box, l.cursor, Tail(l.refs), l.next)
       \/ \E p \in InLoop \ {"each"} : n = With(l, p, l.box, l.cursor, l.refs, l.next)

\* The handler is before or past its listing.
Goes(l, n) ==
    \E p \in {"connect", "complete", "failing", "finish", "retry"} :
        n = With(l, p, l.box, l.cursor, l.refs, l.next)

\* A worker state is such a record of its fields.
LEMMA IsWith ==
    ASSUME NEW l, NEW n, Whole(n), n.run = l.run, n.attempt = l.attempt
    PROVE  n = With(l, n.pos, n.box, n.cursor, n.refs, n.next)
BY DEF Whole, With

\* The fields of such a record.
LEMMA WithFields ==
    ASSUME NEW l, NEW n, NEW p, NEW b, NEW c, NEW refs, NEW next,
           n = With(l, p, b, c, refs, next)
    PROVE  /\ n.pos = p /\ n.box = b /\ n.cursor = c /\ n.refs = refs /\ n.next = next
           /\ n.run = l.run /\ n.attempt = l.attempt
BY DEF With

\* A listing step of the handler.
LEMMA ListingWrites ==
    ASSUME LocalsFit, NEW w \in Workers,
           \/ CaptureHistory(w) \/ HistoryExpired(w) \/ ListHistory(w)
           \/ ListNewest(w) \/ ListWhole(w)
    PROVE  \E n : at' = [at EXCEPT ![w] = n] /\ Lists(at[w], n)
<1>1. PICK l : l = at[w] /\ Whole(l)
  BY DEF LocalsFit
<1>2. CASE CaptureHistory(w) \/ HistoryExpired(w)
  <2>1. PICK p : /\ at' = [at EXCEPT ![w].pos = p, ![w].next = Now(l.box)]
                 /\ l.pos = "list"
                 /\ \/ p = "newest" /\ l.cursor = None
                    \/ p = "whole" /\ l.cursor # None
    BY <1>1, <1>2 DEF CaptureHistory, HistoryExpired
  <2>2. PICK n : n = [l EXCEPT !.pos = p, !.next = Now(l.box)]
    OBVIOUS
  <2>3. at' = [at EXCEPT ![w] = n]
    BY <1>1, <2>1, <2>2
  <2>4. n = With(l, p, l.box, l.cursor, l.refs, Now(l.box))
    <3>1. /\ Whole(n) /\ n.run = l.run /\ n.attempt = l.attempt
          /\ n.pos = p /\ n.box = l.box /\ n.cursor = l.cursor
          /\ n.refs = l.refs /\ n.next = Now(l.box)
      BY <1>1, <2>2 DEF Whole
    <3> QED BY <3>1, IsWith
  <2> QED BY <1>1, <2>1, <2>3, <2>4 DEF Lists
<1>3. CASE ListHistory(w)
  <2> DEFINE next == Now(l.box)
             refs == Added(l.box, l.cursor.id)
  <2>1. /\ at' = [at EXCEPT ![w].pos = "each", ![w].next = next, ![w].refs = refs]
        /\ l.pos = "list" /\ l.cursor # None
    BY <1>1, <1>3 DEF ListHistory
  <2> HIDE DEF next, refs
  <2>2. PICK n : n = [l EXCEPT !.pos = "each", !.next = next, !.refs = refs]
    OBVIOUS
  <2>3. at' = [at EXCEPT ![w] = n]
    BY <1>1, <2>1, <2>2
  <2>4. n = With(l, "each", l.box, l.cursor, refs, next)
    <3>1. /\ Whole(n) /\ n.run = l.run /\ n.attempt = l.attempt
          /\ n.pos = "each" /\ n.box = l.box /\ n.cursor = l.cursor
          /\ n.refs = refs /\ n.next = next
      BY <1>1, <2>2 DEF Whole
    <3> QED BY <3>1, IsWith
  <2> QED BY <1>1, <2>1, <2>3, <2>4 DEF Lists, next, refs
<1>4. CASE ListNewest(w) \/ ListWhole(w)
  <2>1. PICK refs : /\ at' = [at EXCEPT ![w].pos = "each", ![w].refs = refs]
                    /\ \/ l.pos = "newest" /\ refs = Newest(l.box, InitialMax)
                       \/ l.pos = "whole" /\ refs = NewestFirst(Listed(l.box))
    BY <1>1, <1>4 DEF ListNewest, ListWhole
  <2>2. PICK n : n = [l EXCEPT !.pos = "each", !.refs = refs]
    OBVIOUS
  <2>3. at' = [at EXCEPT ![w] = n]
    BY <1>1, <2>1, <2>2
  <2>4. n = With(l, "each", l.box, l.cursor, refs, l.next)
    <3>1. /\ Whole(n) /\ n.run = l.run /\ n.attempt = l.attempt
          /\ n.pos = "each" /\ n.box = l.box /\ n.cursor = l.cursor
          /\ n.refs = refs /\ n.next = l.next
      BY <1>1, <2>2 DEF Whole
    <3> QED BY <3>1, IsWith
  <2> QED BY <1>1, <2>1, <2>3, <2>4 DEF Lists
<1> QED BY <1>2, <1>3, <1>4

\* A step in the loop over the messages.
LEMMA LoopWrites ==
    ASSUME LocalsFit, NEW w \in Workers,
           at[w].pos \in InLoop \ {"each"} => at[w].refs # << >>,
           \/ SkipMessage(w) \/ StoreMessage(w) \/ Upload(w) \/ SaveMetadata(w)
           \/ EnqueueSourceParse(w)
    PROVE  \E n : at' = [at EXCEPT ![w] = n] /\ Loops(at[w], n)
<1>1. PICK l : l = at[w] /\ Whole(l)
  BY DEF LocalsFit
<1>2. l.pos \in InLoop /\ l.refs # << >>
  BY <1>1 DEF SkipMessage, StoreMessage, Upload, SaveMetadata, EnqueueSourceParse, InLoop
<1>3. CASE SkipMessage(w)
  <2>1. PICK n : n = [l EXCEPT !.refs = Tail(l.refs)]
    OBVIOUS
  <2>2. at' = [at EXCEPT ![w] = n] /\ l.pos = "each"
    BY <1>1, <1>3, <2>1 DEF SkipMessage
  <2>3. n = With(l, "each", l.box, l.cursor, Tail(l.refs), l.next)
    <3>1. /\ Whole(n) /\ n.run = l.run /\ n.attempt = l.attempt
          /\ n.pos = "each" /\ n.box = l.box /\ n.cursor = l.cursor
          /\ n.refs = Tail(l.refs) /\ n.next = l.next
      BY <1>1, <2>1, <2>2 DEF Whole
    <3> QED BY <3>1, IsWith
  <2> QED BY <1>1, <1>2, <2>2, <2>3 DEF Loops
<1>4. CASE EnqueueSourceParse(w)
  <2>1. PICK n : n = [l EXCEPT !.pos = "each", !.refs = Tail(l.refs)]
    OBVIOUS
  <2>2. at' = [at EXCEPT ![w] = n]
    BY <1>1, <1>4, <2>1 DEF EnqueueSourceParse
  <2>3. n = With(l, "each", l.box, l.cursor, Tail(l.refs), l.next)
    <3>1. /\ Whole(n) /\ n.run = l.run /\ n.attempt = l.attempt
          /\ n.pos = "each" /\ n.box = l.box /\ n.cursor = l.cursor
          /\ n.refs = Tail(l.refs) /\ n.next = l.next
      BY <1>1, <2>1 DEF Whole
    <3> QED BY <3>1, IsWith
  <2> QED BY <1>1, <1>2, <2>2, <2>3 DEF Loops
<1>5. CASE StoreMessage(w) \/ Upload(w) \/ SaveMetadata(w)
  <2>1. PICK p \in InLoop \ {"each"} : at' = [at EXCEPT ![w].pos = p]
    BY <1>5 DEF StoreMessage, Upload, SaveMetadata, AfterStore, Goto, InLoop
  <2>2. PICK n : n = [l EXCEPT !.pos = p]
    OBVIOUS
  <2>3. at' = [at EXCEPT ![w] = n]
    BY <1>1, <2>1, <2>2
  <2>4. n = With(l, p, l.box, l.cursor, l.refs, l.next)
    <3>1. /\ Whole(n) /\ n.run = l.run /\ n.attempt = l.attempt
          /\ n.pos = p /\ n.box = l.box /\ n.cursor = l.cursor /\ n.refs = l.refs /\ n.next = l.next
      BY <1>1, <2>2 DEF Whole
    <3> QED BY <3>1, IsWith
  <2> QED BY <1>1, <1>2, <2>1, <2>3, <2>4 DEF Loops
<1> QED BY <1>3, <1>4, <1>5

\* The connection is read.
LEMMA ReadWrites ==
    ASSUME LocalsFit, NEW w \in Workers, ReadConnection(w)
    PROVE  \E n : at' = [at EXCEPT ![w] = n] /\ Reads(at[w], n)
<1>1. PICK l : l = at[w] /\ Whole(l)
  BY DEF LocalsFit
<1>2. PICK n : n = [l EXCEPT !.pos = "list", !.box = conn.box, !.cursor = conn.cursor]
  OBVIOUS
<1>3. at' = [at EXCEPT ![w] = n]
  BY <1>1, <1>2 DEF ReadConnection
<1>4. n = With(l, "list", conn.box, conn.cursor, l.refs, l.next)
  <2>1. /\ Whole(n) /\ n.run = l.run /\ n.attempt = l.attempt
        /\ n.pos = "list" /\ n.box = conn.box /\ n.cursor = conn.cursor
        /\ n.refs = l.refs /\ n.next = l.next
    BY <1>1, <1>2 DEF Whole
  <2> QED BY <2>1, IsWith
<1> QED BY <1>1, <1>3, <1>4 DEF Reads

\* Every other step only moves the handler on.
LEMMA GoingWrites ==
    ASSUME LocalsFit, NEW w \in Workers,
           \/ StartSyncRun(w) \/ UploadFails(w) \/ UpdateConnectionCursor(w)
           \/ CompleteSyncRun(w) \/ RecordSyncFailure(w)
           \/ Errs(w) \/ ErrsUnrecorded(w) \/ FailureUnrecorded(w)
    PROVE  \E n : at' = [at EXCEPT ![w] = n] /\ Goes(at[w], n)
<1>1. PICK l : l = at[w] /\ Whole(l)
  BY DEF LocalsFit
<1>2. PICK p \in {"connect", "complete", "failing", "finish", "retry"} :
        at' = [at EXCEPT ![w].pos = p]
  BY DEF StartSyncRun, UploadFails, UpdateConnectionCursor, CompleteSyncRun,
         RecordSyncFailure, Errs, ErrsUnrecorded, FailureUnrecorded, Goto
<1>3. PICK n : n = [l EXCEPT !.pos = p]
  OBVIOUS
<1>4. at' = [at EXCEPT ![w] = n]
  BY <1>1, <1>2, <1>3
<1>5. n = With(l, p, l.box, l.cursor, l.refs, l.next)
  <2>1. /\ Whole(n) /\ n.run = l.run /\ n.attempt = l.attempt
        /\ n.pos = p /\ n.box = l.box /\ n.cursor = l.cursor /\ n.refs = l.refs /\ n.next = l.next
    BY <1>1, <1>3 DEF Whole
  <2> QED BY <2>1, IsWith
<1> QED BY <1>1, <1>2, <1>4, <1>5 DEF Goes

\* What is left of a list.
LEMMA TailRange ==
    ASSUME NEW s \in Seq(Messages), s # << >>
    PROVE  /\ Head(s) \in Messages /\ Tail(s) \in Seq(Messages)
           /\ Range(s) = Range(Tail(s)) \cup {Head(s)}
<1> DEFINE t == Tail(s)
<1>1. /\ Head(s) = s[1] /\ t \in Seq(Messages) /\ Len(t) = Len(s) - 1
      /\ \A i \in 1 .. Len(t) : t[i] = s[i + 1]
      /\ Len(s) \in Nat /\ Len(s) > 0 /\ s[1] \in Messages
  OBVIOUS
<1>2. DOMAIN t = 1 .. Len(s) - 1 /\ DOMAIN s = 1 .. Len(s)
  BY <1>1
<1> HIDE DEF t
<1>3. ASSUME NEW i \in 1 .. Len(s) PROVE s[i] \in Range(t) \cup {s[1]}
  <2>1. CASE i = 1
    BY <2>1
  <2>2. CASE i # 1
    <3>1. i - 1 \in 1 .. Len(t) /\ i - 1 \in DOMAIN t /\ i - 1 + 1 = i
      BY <1>1, <1>2, <2>2
    <3>2. t[i - 1] = s[i]
      BY <1>1, <3>1
    <3> QED BY <3>1, <3>2 DEF Range
  <2> QED BY <2>1, <2>2
<1>4. ASSUME NEW i \in 1 .. Len(t) PROVE t[i] \in Range(s)
  <2>1. i + 1 \in DOMAIN s /\ t[i] = s[i + 1]
    BY <1>1, <1>2
  <2> QED BY <2>1 DEF Range
<1>5. s[1] \in Range(s)
  BY <1>1, <1>2 DEF Range
<1>6. Range(s) = Range(t) \cup {s[1]}
  BY <1>1, <1>2, <1>3, <1>4, <1>5 DEF Range
<1> QED BY <1>1, <1>6 DEF t

----------------------------------------------------------------------------
\* Arrivals only add to what has been received.
LEMMA HandGrows ==
    ASSUME NEW l, NEW a1 \in [Boxes -> Nat], NEW a2 \in [Boxes -> Nat],
           \A b \in Boxes : a1[b] <= a2[b], HandFits(l, a1)
    PROVE  HandFits(l, a2)
<1>1. \A b \in Boxes : 1 .. a1[b] \subseteq 1 .. a2[b]
  OBVIOUS
<1>2. Received(a1) \subseteq Received(a2)
  BY <1>1 DEF Received
<1>3. ASSUME NEW c, CursorFits(c, a1) PROVE CursorFits(c, a2)
  BY <1>3 DEF CursorFits, Cursor
<1> QED BY <1>2, <1>3 DEF HandFits

\* Who works on a run works for a connected account.
LEMMA WorksConnected ==
    ASSUME QueueFits, MailboxFits, NEW w \in Workers, at[w].pos # "idle"
    PROVE  conn.box \in Boxes /\ \E r \in Runs : run[r].status # "absent"
<1>1. at[w].run \in Runs /\ IsClaim(at[w], job[at[w].run], w)
  BY DEF QueueFits, ClaimsFit
<1>2. job[at[w].run].status # "absent"
  BY <1>1 DEF IsClaim, QueueFits, RunsFit, JobRow
<1>3. run[at[w].run].status # "absent"
  BY <1>1, <1>2 DEF QueueFits, RunsFit
<1> QED BY <1>1, <1>3 DEF MailboxFits

\* The new state of a worker in the handler.
LEMMA HandlerHands ==
    ASSUME QueueFits, Typed, NEW w \in Workers,
           \/ Handle(w) \/ Errs(w) \/ ErrsUnrecorded(w) \/ FailureUnrecorded(w)
    PROVE  \E n : at' = [at EXCEPT ![w] = n] /\ HandFits(n, arrived)
<1>1. PICK l : l = at[w] /\ l \in Local /\ HandFits(l, arrived)
  BY DEF Typed
<1>2. LocalsFit /\ MailboxFits
  BY DEF QueueFits, Typed
<1>3. /\ l.run \in Runs \cup {None} /\ l.attempt \in 0 .. MaxAttempts
      /\ l.box \in Boxes \cup {None} /\ l.cursor \in Cursor \cup {None}
      /\ l.refs \in Seq(Messages) /\ l.next \in Cursor \cup {None}
  BY <1>1 DEF Local
<1>4. ASSUME NEW p \in Position, NEW b \in Boxes \cup {None}, NEW c \in Cursor \cup {None},
             NEW refs \in Seq(Messages), NEW next \in Cursor \cup {None}
      PROVE  With(l, p, b, c, refs, next) \in Local
  BY <1>3 DEF With, Local
<1>5. CASE ReadConnection(w)
  <2>1. PICK n : at' = [at EXCEPT ![w] = n] /\ Reads(l, n)
    BY <1>1, <1>2, <1>5, ReadWrites
  <2>2. l.pos = "connect"
    BY <1>1, <1>5 DEF ReadConnection
  <2>3. conn.box \in Boxes /\ conn.cursor \in Cursor \cup {None}
    BY <1>1, <1>2, <2>2, WorksConnected DEF MailboxFits
  <2>4. n \in Local
    BY <1>3, <1>4, <2>1, <2>3 DEF Reads, Position
  <2>5. HandFits(n, arrived)
    BY <1>1, <1>2, <2>1, <2>3, <2>4 DEF HandFits, MailboxFits, Reads, With, Listing, InLoop
  <2> QED BY <2>1, <2>5
<1>6. CASE \/ CaptureHistory(w) \/ HistoryExpired(w) \/ ListHistory(w)
           \/ ListNewest(w) \/ ListWhole(w)
  <2>1. PICK n : at' = [at EXCEPT ![w] = n] /\ Lists(l, n)
    BY <1>1, <1>2, <1>6, ListingWrites
  <2>2. l.box \in Boxes
    BY <1>1, <2>1 DEF Lists, HandFits, Listing
  <2>3. /\ Now(l.box) \in Cursor /\ Now(l.box).box = l.box
        /\ CursorFits(Now(l.box), arrived)
    <3>1. arrived[l.box] \in Nat
      BY <1>2, <2>2 DEF MailboxFits
    <3>2. Now(l.box) \in Cursor /\ Now(l.box).box = l.box /\ Now(l.box).id = arrived[l.box]
      BY <2>2, <3>1 DEF Now, Cursor
    <3> QED BY <3>1, <3>2 DEF CursorFits
  <2>4. CursorFits(l.cursor, arrived) /\ CursorFits(l.next, arrived)
    BY <1>1 DEF HandFits
  <2>5. CASE n = With(l, "newest", l.box, l.cursor, l.refs, Now(l.box))
             \/ n = With(l, "whole", l.box, l.cursor, l.refs, Now(l.box))
    <3>1. n \in Local
      BY <1>3, <1>4, <2>2, <2>3, <2>5 DEF Position
    <3>2. /\ n.pos \in {"newest", "whole"} /\ n.box = l.box /\ n.cursor = l.cursor
          /\ n.refs = l.refs /\ n.next = Now(l.box)
      BY <2>5, WithFields
    <3>3. HandFits(n, arrived)
      BY <1>1, <2>2, <2>3, <3>1, <3>2 DEF HandFits, Listing, InLoop
    <3> QED BY <2>1, <3>3
  <2>6. CASE l.pos = "list" /\ l.cursor # None
             /\ n = With(l, "each", l.box, l.cursor, Added(l.box, l.cursor.id), Now(l.box))
    <3>1. l.cursor.id \in Nat
      BY <1>3, <2>6 DEF Cursor
    <3> DEFINE refs == Added(l.box, l.cursor.id)
    <3>2. refs \in Seq(Messages) /\ Range(refs) \subseteq Received(arrived)
      BY <1>2, <2>2, <3>1, AddedLists
    <3> HIDE DEF refs
    <3>3. n = With(l, "each", l.box, l.cursor, refs, Now(l.box))
      BY <2>6 DEF refs
    <3>4. n \in Local
      BY <1>3, <1>4, <2>2, <2>3, <3>2, <3>3 DEF Position
    <3>5. /\ n.pos = "each" /\ n.box = l.box /\ n.cursor = l.cursor
          /\ n.refs = refs /\ n.next = Now(l.box)
      BY <3>3, WithFields
    <3>6. HandFits(n, arrived)
      BY <1>1, <2>2, <2>3, <3>2, <3>4, <3>5 DEF HandFits, Listing, InLoop
    <3> QED BY <2>1, <3>6
  <2>7. CASE \/ l.pos = "newest"
                  /\ n = With(l, "each", l.box, l.cursor, Newest(l.box, InitialMax), l.next)
             \/ l.pos = "whole"
                  /\ n = With(l, "each", l.box, l.cursor, NewestFirst(Listed(l.box)), l.next)
    <3>1. PICK refs : /\ refs \in Seq(Messages) /\ Range(refs) \subseteq Received(arrived)
                      /\ n = With(l, "each", l.box, l.cursor, refs, l.next)
      BY <1>2, <2>2, <2>7, ListedLists, NewestLists
    <3>2. n \in Local
      BY <1>3, <1>4, <2>2, <3>1 DEF Position
    <3>3. /\ n.pos = "each" /\ n.box = l.box /\ n.cursor = l.cursor
          /\ n.refs = refs /\ n.next = l.next
      BY <3>1, WithFields
    <3>4. l.next \in Cursor /\ l.next.box = l.box
      BY <1>1, <2>7 DEF HandFits, Listing
    <3>5. HandFits(n, arrived)
      BY <2>2, <2>4, <3>1, <3>2, <3>3, <3>4 DEF HandFits, Listing, InLoop
    <3> QED BY <2>1, <3>5
  <2> QED BY <2>1, <2>5, <2>6, <2>7 DEF Lists
<1>7. CASE \/ SkipMessage(w) \/ StoreMessage(w) \/ Upload(w) \/ SaveMetadata(w)
           \/ EnqueueSourceParse(w)
  <2>1. PICK n : at' = [at EXCEPT ![w] = n] /\ Loops(l, n)
    BY <1>1, <1>2, <1>7, LoopWrites DEF HandFits
  <2>2. l.pos \in InLoop /\ l.refs # << >>
    BY <2>1 DEF Loops
  <2>3. Tail(l.refs) \in Seq(Messages) /\ Range(Tail(l.refs)) \subseteq Range(l.refs)
    BY <1>3, <2>2, TailRange
  <2>4. PICK p \in InLoop, refs \in Seq(Messages) :
          /\ n = With(l, p, l.box, l.cursor, refs, l.next)
          /\ Range(refs) \subseteq Range(l.refs)
          /\ p # "each" => refs # << >>
    BY <1>3, <2>1, <2>2, <2>3 DEF Loops, InLoop
  <2>5. n \in Local
    BY <1>3, <1>4, <2>4 DEF Position, InLoop
  <2>6. /\ n.pos = p /\ n.box = l.box /\ n.cursor = l.cursor
        /\ n.refs = refs /\ n.next = l.next
    BY <2>4, WithFields
  <2>7. HandFits(n, arrived)
    BY <1>1, <2>2, <2>4, <2>5, <2>6 DEF HandFits, Listing, InLoop
  <2> QED BY <2>1, <2>7
<1>8. CASE \/ StartSyncRun(w) \/ UploadFails(w) \/ UpdateConnectionCursor(w)
           \/ CompleteSyncRun(w) \/ RecordSyncFailure(w)
           \/ Errs(w) \/ ErrsUnrecorded(w) \/ FailureUnrecorded(w)
  <2>1. PICK n : at' = [at EXCEPT ![w] = n] /\ Goes(l, n)
    BY <1>1, <1>2, <1>8, GoingWrites
  <2>2. PICK p \in {"connect", "complete", "failing", "finish", "retry"} :
          n = With(l, p, l.box, l.cursor, l.refs, l.next)
    BY <2>1 DEF Goes
  <2>3. n \in Local
    BY <1>3, <1>4, <2>2 DEF Position
  <2>4. /\ n.pos = p /\ n.box = l.box /\ n.cursor = l.cursor
        /\ n.refs = l.refs /\ n.next = l.next
    BY <2>2, WithFields
  <2>5. HandFits(n, arrived)
    BY <1>1, <2>3, <2>4 DEF HandFits, Listing, InLoop
  <2> QED BY <2>1, <2>5
<1> QED BY <1>5, <1>6, <1>7, <1>8 DEF Handle

\* What the mailbox and the connection are stays fitting.
LEMMA MailboxRests ==
    ASSUME MailboxFits, UNCHANGED <<mailbox, conn>>,
           run' = run \/ \E r \in Runs : run[r].status # "absent"
    PROVE  MailboxFits'
BY DEF MailboxFits, mailbox

\* A refresh ends a run that exists, or none.
LEMMA RefreshesExisting ==
    ASSUME NEW jb, NEW pr, NEW r, run' = Refreshed(run, jb, pr, r)
    PROVE  run' = run \/ \E q \in Runs : run[q].status # "absent"
BY DEF Refreshed, Active

\* A job is reaped or claimed only of a run that exists.
LEMMA ClaimsExisting ==
    ASSUME RunsFit, NEW w \in Workers, ClaimNothing(w) \/ \E r \in Runs : Claim(w, r)
    PROVE  \E q \in Runs : run[q].status # "absent"
<1>1. \E q \in Runs : job[q].status # "absent"
  BY DEF ClaimNothing, Claim, Claimable, Lapsed, Dead
<1> QED BY <1>1 DEF RunsFit

\* The handler keeps the mailbox and the connection fitting.
LEMMA HandlerKeepsMailbox ==
    ASSUME QueueFits, Typed, NEW w \in Workers,
           \/ Handle(w) \/ Errs(w) \/ ErrsUnrecorded(w) \/ FailureUnrecorded(w)
    PROVE  MailboxFits'
<1>1. at[w].pos # "idle"
  BY HandleKeeps DEF QueueFits
<1>2. conn.box \in Boxes /\ \E r \in Runs : run[r].status # "absent"
  BY <1>1, WorksConnected DEF Typed
<1>3. CASE UpdateConnectionCursor(w)
  <2>1. conn' = [conn EXCEPT !.cursor = at[w].next] /\ UNCHANGED <<mailbox, run>>
    BY <1>3 DEF UpdateConnectionCursor, queue
  <2>2. CursorFits(at[w].next, arrived) /\ at[w].next \in Cursor \cup {None}
    BY DEF Typed, HandFits, Local
  <2>3. /\ conn' \in [box : Boxes \cup {None}, cursor : Cursor \cup {None}]
        /\ conn'.cursor = at[w].next /\ conn'.box = conn.box
    BY <2>1, <2>2 DEF Typed, MailboxFits
  <2>4. conn'.box # None
    BY <1>2, <2>3, GmailAssumption
  <2> QED BY <2>1, <2>2, <2>3, <2>4 DEF Typed, MailboxFits, mailbox
<1>4. CASE ~UpdateConnectionCursor(w)
  <2>1. UNCHANGED <<mailbox, conn>>
    BY <1>4 DEF Handle, StartSyncRun, ReadConnection, CaptureHistory, ListNewest, ListHistory,
         HistoryExpired, ListWhole, SkipMessage, StoreMessage, Upload, UploadFails,
         SaveMetadata, EnqueueSourceParse, CompleteSyncRun,
         RecordSyncFailure, Errs, ErrsUnrecorded, FailureUnrecorded, mailbox
  <2> QED BY <1>2, <2>1, MailboxRests DEF Typed
<1> QED BY <1>3, <1>4

\* The tables of the sources are what they were.
LEMMA StoreRests ==
    ASSUME StoreFits, UNCHANGED <<store, beyond, arrived>>
    PROVE  StoreFits'
BY DEF StoreFits, store

\* The first message of a list that is being worked off.
LEMMA HeadIsReceived ==
    ASSUME Typed, NEW w \in Workers, at[w].refs # << >>
    PROVE  Head(at[w].refs) \in Messages /\ Head(at[w].refs) \in Received(arrived)
<1>1. at[w].refs \in Seq(Messages) /\ Range(at[w].refs) \subseteq Received(arrived)
  BY DEF Typed, HandFits, Local
<1> QED BY <1>1, TailRange

\* The handler keeps the tables of the sources fitting.
LEMMA HandlerKeepsStore ==
    ASSUME QueueFits, Typed, NEW w \in Workers,
           \/ Handle(w) \/ Errs(w) \/ ErrsUnrecorded(w) \/ FailureUnrecorded(w)
    PROVE  StoreFits'
<1> DEFINE m == Head(at[w].refs)
<1>1. StoreFits /\ MailboxFits
  BY DEF Typed
<1>2. at[w].refs # << >> => m \in Messages /\ m \in Received(arrived)
  BY HeadIsReceived
<1>3. at[w].pos \in InLoop \ {"each"} => at[w].refs # << >>
  BY DEF Typed, HandFits
<1> HIDE DEF m
<1>4. CASE StoreMessage(w)
  <2>1. /\ at[w].refs # << >> /\ UNCHANGED <<meta, parse, tomb, objects, cleanup, beyond, arrived>>
        /\ source' = [source EXCEPT ![m] = IF @ = "absent" THEN "pending" ELSE @]
    BY <1>4 DEF StoreMessage, mailbox, m
  <2>2. source' \in [Messages -> {"absent", "pending", "parsed", "failed"}]
    BY <1>1, <1>2, <2>1 DEF StoreFits
  <2>3. ASSUME NEW x \in Messages, source'[x] # "absent"
        PROVE  x \in Received(arrived)
    BY <1>1, <1>2, <2>1, <2>3 DEF StoreFits
  <2> QED BY <1>1, <2>1, <2>2, <2>3 DEF StoreFits
<1>5. CASE EnqueueSourceParse(w)
  <2>1. /\ UNCHANGED <<source, meta, tomb, objects, cleanup, beyond, arrived>>
        /\ parse' = parse \/ parse' = [parse EXCEPT ![m] = at[w].run]
        /\ at[w].pos = "enqueue"
    BY <1>5 DEF EnqueueSourceParse, mailbox, m
  <2>2. at[w].run \in Runs
    BY <2>1 DEF QueueFits, ClaimsFit
  <2>3. parse' \in [Messages -> Runs \cup {NoRun, None}]
    BY <1>1, <2>1, <2>2 DEF StoreFits
  <2> QED BY <1>1, <2>1, <2>3 DEF StoreFits
<1>6. CASE UploadFails(w) \/ SaveMetadata(w)
  <2>1. /\ UNCHANGED <<source, parse, tomb, objects, cleanup, beyond, arrived>>
        /\ \E s \in {"failed", "stored"} : meta' = [meta EXCEPT ![m] = s]
    BY <1>6 DEF UploadFails, SaveMetadata, mailbox, m
  <2>2. meta' \in [Messages -> {"none", "stored", "failed"}]
    BY <1>1, <2>1 DEF StoreFits
  <2> QED BY <1>1, <2>1, <2>2 DEF StoreFits
<1>7. CASE Upload(w)
  <2>1. /\ UNCHANGED <<source, meta, parse, tomb, cleanup, beyond, arrived>>
        /\ objects' = objects \cup {m} /\ at[w].pos = "upload"
    BY <1>7 DEF Upload, mailbox, m
  <2>2. m \in Messages
    BY <1>2, <1>3, <2>1 DEF InLoop
  <2> QED BY <1>1, <2>1, <2>2 DEF StoreFits
<1>8. CASE ListNewest(w)
  <2>1. /\ UNCHANGED <<source, meta, parse, tomb, objects, cleanup, arrived>>
        /\ at[w].pos = "newest"
        /\ beyond' \subseteq beyond \cup Range(Listed(at[w].box))
    BY <1>8 DEF ListNewest, mailbox, store
  <2>2. at[w].box \in Boxes
    BY <2>1 DEF Typed, HandFits, Listing
  <2>3. Range(Listed(at[w].box)) \subseteq Messages
    <3>1. PICK s \in Seq(Messages) : s = Listed(at[w].box)
      BY <1>1, <2>2, ListedLists
    <3>2. Range(s) \subseteq Messages
      BY <3>1 DEF Range
    <3> QED BY <3>1, <3>2
  <2> QED BY <1>1, <2>1, <2>3 DEF StoreFits
<1>9. CASE \/ StartSyncRun(w) \/ ReadConnection(w) \/ CaptureHistory(w) \/ ListHistory(w)
           \/ HistoryExpired(w) \/ ListWhole(w) \/ SkipMessage(w) \/ UpdateConnectionCursor(w)
           \/ CompleteSyncRun(w) \/ RecordSyncFailure(w)
           \/ Errs(w) \/ ErrsUnrecorded(w) \/ FailureUnrecorded(w)
  <2>1. UNCHANGED <<store, beyond, arrived>>
    BY <1>9 DEF StartSyncRun, ReadConnection, CaptureHistory, ListHistory,
         HistoryExpired, ListWhole, SkipMessage, UpdateConnectionCursor, CompleteSyncRun,
         RecordSyncFailure, Errs, ErrsUnrecorded, FailureUnrecorded, mailbox
  <2> QED BY <1>1, <2>1, StoreRests
<1> QED BY <1>4, <1>5, <1>6, <1>7, <1>8, <1>9 DEF Handle

\* Users, parsers and cleanups keep the tables of the sources fitting.
LEMMA OthersKeepStore ==
    ASSUME MailFits, StoreFits, NEW m \in Messages,
           RetrySourceParse(m) \/ DeleteSource(m) \/ Others(m)
    PROVE  StoreFits'
<1>1. CASE RetrySourceParse(m)
  <2>1. /\ source[m] = "failed" /\ source' = [source EXCEPT ![m] = "pending"]
        /\ parse' = [parse EXCEPT ![m] = NoRun]
        /\ UNCHANGED <<meta, tomb, objects, cleanup, beyond, arrived>>
    BY <1>1 DEF RetrySourceParse, mailbox
  <2> QED BY <2>1 DEF StoreFits
<1>2. CASE DeleteSource(m)
  <2>1. /\ source' = [source EXCEPT ![m] = "absent"] /\ meta' = [meta EXCEPT ![m] = "none"]
        /\ parse' = [parse EXCEPT ![m] = None] /\ tomb' = tomb \cup {m}
        /\ cleanup' \subseteq cleanup \cup {m}
        /\ UNCHANGED <<objects, beyond, arrived>>
    BY <1>2 DEF DeleteSource, SourceObjectPaths, mailbox
  <2> QED BY <2>1 DEF StoreFits
<1>3. ASSUME NEW outcome \in {"parsed", "failed"}, ParseSettles(m, outcome) PROVE StoreFits'
  <2>1. /\ parse[m] # None /\ source' = [source EXCEPT ![m] = outcome]
        /\ parse' = [parse EXCEPT ![m] = None]
        /\ UNCHANGED <<meta, tomb, objects, cleanup, beyond, arrived>>
    BY <1>3 DEF ParseSettles, mailbox
  <2>2. source[m] # "absent"
    BY <2>1 DEF MailFits, SourcesFit
  <2> QED BY <2>1, <2>2 DEF StoreFits
<1>4. CASE CleanUp(m)
  BY <1>4 DEF CleanUp, StoreFits, mailbox
<1> QED BY <1>1, <1>2, <1>3, <1>4 DEF Others

\* A worker that returns fits any mailbox.
LEMMA IdleFits == HandFits(Idle, arrived)
<1>1. Idle \in Local
  BY GmailAssumption DEF Idle, Local, Position
<1>2. Range(<< >>) = {}
  BY DEF Range
<1> QED BY <1>1, <1>2 DEF HandFits, Idle, Listing, InLoop, CursorFits

\* One worker moves, and its new state fits the mailbox.
LEMMA OneHandMoves ==
    ASSUME Typed, NEW w \in Workers, NEW n, at' = [at EXCEPT ![w] = n],
           HandFits(n, arrived), UNCHANGED arrived, MailboxFits', StoreFits'
    PROVE  Typed'
<1>1. n \in Local
  BY DEF HandFits
<1>2. at' \in [Workers -> Local]
  BY <1>1 DEF Typed
<1>3. ASSUME NEW v \in Workers PROVE HandFits(at'[v], arrived')
  <2>1. at'[v] = IF v = w THEN n ELSE at[v]
    BY DEF Typed
  <2> QED BY <2>1 DEF Typed
<1> QED BY <1>2, <1>3 DEF Typed

\* The new state of a worker that claims.
LEMMA ClaimerFits ==
    ASSUME QueueFits, NEW w \in Workers, NEW r \in Runs, Claim(w, r)
    PROVE  \E n : at' = [at EXCEPT ![w] = n] /\ HandFits(n, arrived) /\ n.pos = "start"
                    /\ n.cursor = None /\ n.box = None
<1> DEFINE attempt == job[r].attempts + 1
<1>1. at' = [at EXCEPT ![w] = [Idle EXCEPT !.pos = "start", !.run = r, !.attempt = attempt]]
  BY DEF Claim
<1>2. attempt \in 0 .. MaxAttempts
  BY GmailAssumption DEF Claim, Claimable, QueueFits, RunsFit, JobRow
<1> HIDE DEF attempt
<1>3. PICK i : i = Idle
  OBVIOUS
<1>4. PICK n : n = [i EXCEPT !.pos = "start", !.run = r, !.attempt = attempt]
  OBVIOUS
<1>5. n = [pos |-> "start", run |-> r, attempt |-> attempt, box |-> None, cursor |-> None,
           refs |-> << >>, next |-> None]
  BY <1>3, <1>4 DEF Idle
<1>6. n \in Local
  BY <1>2, <1>5 DEF Local, Position
<1>7. Range(<< >>) = {}
  BY DEF Range
<1>8. HandFits(n, arrived)
  BY <1>5, <1>6, <1>7 DEF HandFits, Listing, InLoop, CursorFits
<1>9. at' = [at EXCEPT ![w] = n]
  BY <1>1, <1>3, <1>4
<1>10. n.pos = "start" /\ n.cursor = None /\ n.box = None
  BY <1>5
<1> QED BY <1>8, <1>9, <1>10

\* The workers stay where they are, and so does the mailbox.
LEMMA HandsRest ==
    ASSUME Typed, UNCHANGED <<arrived, at>>, MailboxFits', StoreFits'
    PROVE  Typed'
BY DEF Typed

\* A message arrives.
LEMMA ArrivalFits ==
    ASSUME Typed, NEW b \in Boxes, Arrive(b)
    PROVE  Typed'
<1>1. /\ arrived[b] < Len(Mail[b]) /\ arrived' = [arrived EXCEPT ![b] = @ + 1]
      /\ UNCHANGED <<gone, conn, run, source, meta, parse, tomb, objects, cleanup, beyond, at>>
  BY DEF Arrive, queue, store
<1>2. arrived \in [Boxes -> Nat] /\ \A c \in Boxes : arrived[c] <= Len(Mail[c])
  BY DEF Typed, MailboxFits
<1>3. Len(Mail[b]) \in Nat
  BY GmailAssumption
<1>4. /\ arrived' \in [Boxes -> Nat] /\ \A c \in Boxes : arrived[c] <= arrived'[c]
      /\ \A c \in Boxes : arrived'[c] <= Len(Mail[c])
  BY <1>1, <1>2, <1>3
<1>5. \A c \in Boxes : 1 .. arrived[c] \subseteq 1 .. arrived'[c]
  BY <1>2, <1>4
<1>6. Received(arrived) \subseteq Received(arrived')
  BY <1>5 DEF Received
<1>7. MailboxFits'
  <2>1. CursorFits(conn.cursor, arrived')
    BY <1>2, <1>4 DEF Typed, MailboxFits, CursorFits, Cursor
  <2> QED BY <1>1, <1>4, <2>1 DEF Typed, MailboxFits
<1>8. StoreFits'
  BY <1>1, <1>6 DEF Typed, StoreFits
<1>9. ASSUME NEW w \in Workers PROVE HandFits(at'[w], arrived')
  <2>1. HandFits(at[w], arrived)
    BY DEF Typed
  <2>2. HandFits(at[w], arrived')
    BY <1>2, <1>4, <2>1, HandGrows
  <2> QED BY <1>1, <2>2
<1>10. at' \in [Workers -> Local]
  BY <1>1 DEF Typed
<1> QED BY <1>7, <1>8, <1>9, <1>10 DEF Typed

\* Every step keeps what is listed, stored and remembered in its types.
LEMMA TypedStep == QueueFits /\ MailFits /\ Typed /\ [Next]_vars => Typed'
<1> SUFFICES ASSUME QueueFits, MailFits, Typed, [Next]_vars PROVE Typed'
  OBVIOUS
<1>0. MailboxFits /\ StoreFits /\ RunsFit
  BY DEF Typed, QueueFits
<1>1. ASSUME NEW w \in Workers, Work(w) \/ Fault(w) PROVE Typed'
  <2>1. ASSUME NEW r \in Runs, Claim(w, r) PROVE Typed'
    <3>1. UNCHANGED <<mailbox, conn, store, beyond, arrived>>
      BY <2>1 DEF Claim, mailbox
    <3>2. MailboxFits' /\ StoreFits'
      BY <1>0, <2>1, <3>1, ClaimsExisting, MailboxRests, StoreRests
    <3> QED BY <2>1, <3>1, <3>2, ClaimerFits, OneHandMoves
  <2>2. CASE ClaimNothing(w)
    <3>1. UNCHANGED <<mailbox, conn, store, beyond, arrived, at>>
      BY <2>2 DEF ClaimNothing, mailbox
    <3>2. MailboxFits' /\ StoreFits'
      BY <1>0, <2>2, <3>1, ClaimsExisting, MailboxRests, StoreRests
    <3> QED BY <3>1, <3>2, HandsRest
  <2>3. CASE CompleteJob(w) \/ RetryJob(w) \/ Crash(w)
    <3>1. /\ UNCHANGED <<mailbox, conn, store, beyond, arrived>>
          /\ at' = [at EXCEPT ![w] = Idle] /\ at[w].pos # "idle"
      BY <2>3 DEF CompleteJob, RetryJob, Crash, mailbox
    <3>2. MailboxFits' /\ StoreFits'
      BY <1>0, <3>1, WorksConnected, MailboxRests, StoreRests
    <3> QED BY <3>1, <3>2, IdleFits, OneHandMoves
  <2>4. CASE Handle(w) \/ Errs(w) \/ ErrsUnrecorded(w) \/ FailureUnrecorded(w)
    <3>1. UNCHANGED arrived
      BY <2>4 DEF Handle, StartSyncRun, ReadConnection, CaptureHistory, ListNewest, ListHistory,
         HistoryExpired, ListWhole, SkipMessage, StoreMessage, Upload, UploadFails,
         SaveMetadata, EnqueueSourceParse, UpdateConnectionCursor, CompleteSyncRun,
         RecordSyncFailure, Errs, ErrsUnrecorded, FailureUnrecorded, mailbox
    <3> QED BY <2>4, <3>1, HandlerKeepsMailbox, HandlerKeepsStore, HandlerHands, OneHandMoves
  <2> QED BY <1>1, <2>1, <2>2, <2>3, <2>4 DEF Work, Fault
<1>2. CASE Mailbox
  <2>1. ASSUME NEW b \in Boxes, Vanish(b) PROVE Typed'
    <3>1. PICK i \in 1 .. arrived[b] :
            /\ gone' = gone \cup {Mail[b][i]}
            /\ UNCHANGED <<arrived, conn, run, store, beyond, at>>
      BY <2>1 DEF Vanish, queue
    <3>2. Mail[b][i] \in Messages
      <4>1. Mail[b] \in Seq(Messages) /\ arrived[b] \in Nat /\ arrived[b] <= Len(Mail[b])
        BY <1>0, GmailAssumption DEF MailboxFits
      <4>2. i \in 1 .. Len(Mail[b])
        BY <4>1
      <4> QED BY <4>1, <4>2
    <3>3. MailboxFits'
      BY <1>0, <3>1, <3>2 DEF MailboxFits
    <3> QED BY <1>0, <3>1, <3>3, StoreRests, HandsRest
  <2> QED BY <1>2, <2>1, ArrivalFits DEF Mailbox
<1>3. CASE User
  <2>1. ASSUME NEW b \in Boxes, Connect(b) PROVE Typed'
    <3>1. /\ conn' = [box |-> b, cursor |-> None]
          /\ UNCHANGED <<arrived, gone, run, store, beyond, at>>
      BY <2>1 DEF Connect, mailbox, queue
    <3>2. MailboxFits'
      BY <1>0, <3>1, GmailAssumption DEF MailboxFits, CursorFits
    <3> QED BY <1>0, <3>1, <3>2, StoreRests, HandsRest
  <2>2. ASSUME NEW r \in Runs, CreateSyncRun(r) PROVE Typed'
    <3>1. conn.box # None /\ UNCHANGED <<arrived, gone, conn, store, beyond, at>>
      BY <2>2 DEF CreateSyncRun, mailbox
    <3>2. MailboxFits'
      BY <1>0, <3>1 DEF MailboxFits
    <3> QED BY <1>0, <3>1, <3>2, StoreRests, HandsRest
  <2>3. ASSUME NEW m \in Messages, RetrySourceParse(m) PROVE Typed'
    <3>1. UNCHANGED <<mailbox, conn, run, arrived, at>>
      BY <2>3 DEF RetrySourceParse, mailbox, queue
    <3> QED BY <1>0, <2>3, <3>1, MailboxRests, OthersKeepStore, HandsRest
  <2>4. ASSUME NEW m \in Messages, DeleteSource(m) PROVE Typed'
    <3>1. UNCHANGED <<mailbox, conn, arrived, at>>
      BY <2>4 DEF DeleteSource, mailbox
    <3>2. run' = Refreshed(run, job, [parse EXCEPT ![m] = None], SyncRunOfJobs(m))
      BY <2>4 DEF DeleteSource, RunAfterDeletion
    <3>3. MailboxFits'
      BY <1>0, <3>1, <3>2, RefreshesExisting, MailboxRests
    <3> QED BY <1>0, <2>4, <3>1, <3>3, OthersKeepStore, HandsRest
  <2> QED BY <1>3, <2>1, <2>2, <2>3, <2>4 DEF User
<1>4. ASSUME NEW m \in Messages, Others(m) PROVE Typed'
  <2>1. ASSUME NEW outcome \in {"parsed", "failed"}, ParseSettles(m, outcome) PROVE MailboxFits'
    <3>1. UNCHANGED <<mailbox, conn>> /\ run' = Refreshed(run, job, parse', parse[m])
      BY <2>1 DEF ParseSettles
    <3> QED BY <1>0, <3>1, RefreshesExisting, MailboxRests
  <2>2. CASE CleanUp(m)
    <3>1. UNCHANGED <<mailbox, conn, run>>
      BY <2>2 DEF CleanUp, queue
    <3> QED BY <1>0, <1>4, <2>2, <3>1, MailboxRests, OthersKeepStore, HandsRest
         DEF CleanUp, mailbox
  <2>3. UNCHANGED <<arrived, at>>
    BY <1>4 DEF Others, ParseSettles, CleanUp, mailbox
  <2> QED BY <1>0, <1>4, <2>1, <2>2, <2>3, OthersKeepStore, HandsRest DEF Others
<1>5. ASSUME NEW r \in Runs, LeaseLapses(r) PROVE Typed'
  <2>1. UNCHANGED <<mailbox, conn, run, store, beyond, arrived, at>>
    BY <1>5 DEF LeaseLapses, mailbox
  <2> QED BY <1>0, <2>1, MailboxRests, StoreRests, HandsRest
<1>6. CASE UNCHANGED vars
  <2>1. UNCHANGED <<mailbox, conn, run, store, beyond, arrived, at>>
    BY <1>6 DEF vars, mailbox, queue
  <2> QED BY <1>0, <2>1, MailboxRests, StoreRests, HandsRest
<1> QED BY <1>1, <1>2, <1>3, <1>4, <1>5, <1>6 DEF Next

\* Before the first refresh nothing has arrived and nobody lists.
LEMMA TypedInit == Init => Typed
<1> SUFFICES ASSUME Init PROVE Typed
  OBVIOUS
<1>1. \A b \in Boxes : Len(Mail[b]) \in Nat
  BY GmailAssumption
<1>2. MailboxFits
  BY <1>1 DEF Init, MailboxFits, CursorFits
<1>3. StoreFits
  BY DEF Init, StoreFits
<1>4. HandFits(Idle, arrived) /\ Idle \in Local
  BY IdleFits DEF HandFits
<1>5. at = [w \in Workers |-> Idle]
  BY DEF Init
<1> QED BY <1>2, <1>3, <1>4, <1>5 DEF Typed

\* In every behaviour of a refresh all of this fits together.
LEMMA TypedAlways == Spec => [](QueueFits /\ MailFits /\ Typed)
<1>1. Init => QueueFits /\ MailFits /\ Typed
  BY QueueInit, MailInit, TypedInit
<1>2. (QueueFits /\ MailFits /\ Typed) /\ [Next]_vars => (QueueFits /\ MailFits /\ Typed)'
  BY QueueStep, MailStep, TypedStep DEF QueueFits
<1> QED BY <1>1, <1>2, PTL DEF Spec

\* Every variable keeps its type: runs, jobs and sources keep the columns'
\* values, a worker lists messages only and its cursors are of an account.
THEOREM GmailTypeCorrect == Spec => []TypeOK
<1>1. QueueFits /\ Typed => TypeOK
  BY DEF QueueFits, RunsFit, Typed, MailboxFits, StoreFits, TypeOK
<1> QED BY <1>1, TypedAlways, PTL

----------------------------------------------------------------------------
\* Nothing that is handled is taken back when sources and jobs stay.
LEMMA HandledRests ==
    ASSUME gone \subseteq gone', tomb \subseteq tomb', beyond \subseteq beyond',
           UNCHANGED <<source, parse>>
    PROVE  Handled \subseteq Handled'
BY DEF Handled

\* A source that gets a job, or whose job decides about it, is handled.
LEMMA HandledChanges ==
    ASSUME gone \subseteq gone', tomb \subseteq tomb', beyond \subseteq beyond', NEW m,
           \A x \in Messages \ {m} : source'[x] = source[x] /\ parse'[x] = parse[x],
           m \in Handled => m \in Handled'
    PROVE  Handled \subseteq Handled'
BY DEF Handled

\* What is handled once stays handled: only a deletion takes a source away,
\* and it leaves a tombstone.
LEMMA HandledStays == QueueFits /\ Typed /\ [Next]_vars => Handled \subseteq Handled'
<1> SUFFICES ASSUME QueueFits, Typed, [Next]_vars PROVE Handled \subseteq Handled'
  OBVIOUS
<1>0. /\ source \in [Messages -> {"absent", "pending", "parsed", "failed"}]
      /\ parse \in [Messages -> Runs \cup {NoRun, None}]
      /\ NoRun # None /\ \A r \in Runs : r # None
  BY GmailAssumption DEF Typed, StoreFits, Runs, NoRun
<1>1. ASSUME NEW w \in Workers, Work(w) \/ Fault(w) PROVE Handled \subseteq Handled'
  <2> DEFINE m == Head(at[w].refs)
  <2>1. CASE StoreMessage(w)
    <3>1. /\ source' = [source EXCEPT ![m] = IF @ = "absent" THEN "pending" ELSE @]
          /\ UNCHANGED <<gone, parse, tomb, beyond>>
      BY <2>1 DEF StoreMessage, mailbox
    <3> HIDE DEF m
    <3> QED BY <1>0, <3>1 DEF Handled
  <2>2. CASE EnqueueSourceParse(w)
    <3>1. /\ parse' = parse \/ parse' = [parse EXCEPT ![m] = at[w].run]
          /\ UNCHANGED <<gone, source, tomb, beyond>> /\ at[w].pos = "enqueue"
      BY <2>2 DEF EnqueueSourceParse, mailbox
    <3>2. at[w].run # None
      BY <1>0, <3>1 DEF QueueFits, ClaimsFit
    <3> HIDE DEF m
    <3> QED BY <1>0, <3>1, <3>2 DEF Handled
  <2>3. CASE ~StoreMessage(w) /\ ~EnqueueSourceParse(w)
    <3>1. CASE Handle(w)
      <4>1. UNCHANGED <<gone, source, parse, tomb>> /\ beyond \subseteq beyond'
        BY <2>3, <3>1 DEF Handle, StartSyncRun, ReadConnection, CaptureHistory, ListNewest,
           ListHistory, HistoryExpired, ListWhole, SkipMessage, Upload, UploadFails,
           SaveMetadata, UpdateConnectionCursor, CompleteSyncRun, RecordSyncFailure,
           mailbox, store
      <4> QED BY <4>1, HandledRests
    <3>2. CASE ~Handle(w)
      <4>1. UNCHANGED <<gone, source, parse, tomb, beyond>>
        BY <1>1, <3>2 DEF Work, Claim, ClaimNothing, CompleteJob, RetryJob, Fault, Errs,
           ErrsUnrecorded, FailureUnrecorded, Crash, mailbox, store
      <4> QED BY <4>1, HandledRests
    <3> QED BY <3>1, <3>2
  <2> QED BY <2>1, <2>2, <2>3
<1>2. ASSUME NEW m \in Messages, RetrySourceParse(m) PROVE Handled \subseteq Handled'
  <2>1. /\ source' = [source EXCEPT ![m] = "pending"] /\ parse' = [parse EXCEPT ![m] = NoRun]
        /\ UNCHANGED <<gone, tomb, beyond>>
    BY <1>2 DEF RetrySourceParse, mailbox
  <2> QED BY <1>0, <2>1 DEF Handled
<1>3. ASSUME NEW m \in Messages, DeleteSource(m) PROVE Handled \subseteq Handled'
  <2>1. /\ source' = [source EXCEPT ![m] = "absent"] /\ parse' = [parse EXCEPT ![m] = None]
        /\ tomb' = tomb \cup {m} /\ UNCHANGED <<gone, beyond>>
    BY <1>3 DEF DeleteSource, mailbox
  <2> QED BY <1>0, <2>1 DEF Handled
<1>4. ASSUME NEW m \in Messages, NEW outcome \in {"parsed", "failed"}, ParseSettles(m, outcome)
      PROVE  Handled \subseteq Handled'
  <2>1. /\ source' = [source EXCEPT ![m] = outcome] /\ parse' = [parse EXCEPT ![m] = None]
        /\ UNCHANGED <<gone, tomb, beyond>>
    BY <1>4 DEF ParseSettles, mailbox
  <2> QED BY <1>0, <2>1 DEF Handled
<1>5. CASE Mailbox
  <2>1. gone \subseteq gone' /\ UNCHANGED <<source, parse, tomb, beyond>>
    BY <1>5 DEF Mailbox, Arrive, Vanish, store
  <2> QED BY <2>1, HandledRests
<1>6. ASSUME \/ \E b \in Boxes : Connect(b)
             \/ \E r \in Runs : CreateSyncRun(r) \/ LeaseLapses(r)
             \/ \E m \in Messages : CleanUp(m)
             \/ UNCHANGED vars
      PROVE  Handled \subseteq Handled'
  <2>1. UNCHANGED <<gone, source, parse, tomb, beyond>>
    BY <1>6 DEF Connect, CreateSyncRun, LeaseLapses, CleanUp, vars, mailbox, store
  <2> QED BY <2>1, HandledRests
<1> QED BY <1>1, <1>2, <1>3, <1>4, <1>5, <1>6 DEF Next, User, Others

\* A worker's claim about its cursors survives whatever else is handled.
LEMMA CoverGrows ==
    ASSUME NEW l, NEW H, NEW I, H \subseteq I, Covers(l, H)
    PROVE  Covers(l, I)
BY DEF Covers, CoveredTo

\* What has arrived in a listed mailbox is listed, or has left it.
LEMMA ListedOrGone ==
    ASSUME Typed, NEW b \in Boxes, NEW i \in 1 .. arrived[b]
    PROVE  /\ Mail[b][i] \in Messages
           /\ Mail[b][i] \in gone => Mail[b][i] \in Handled
           /\ Mail[b][i] \in Range(Listed(b)) \cup gone
           /\ \A id \in Nat : i > id => Mail[b][i] \in Range(Added(b, id)) \cup gone
<1>1. MailboxFits
  BY DEF Typed
<1>2. Mail[b] \in Seq(Messages) /\ arrived[b] \in Nat /\ arrived[b] <= Len(Mail[b])
  BY <1>1, GmailAssumption DEF MailboxFits
<1>3. i \in 1 .. Len(Mail[b])
  BY <1>2
<1>4. Mail[b][i] \in Messages
  BY <1>2, <1>3
<1>5. Mail[b][i] \in Range(Listed(b)) \cup gone
  BY <1>1, ListedLists
<1>6. ASSUME NEW id \in Nat, i > id PROVE Mail[b][i] \in Range(Added(b, id)) \cup gone
  <2>1. i \in id + 1 .. arrived[b]
    BY <1>2, <1>6
  <2> QED BY <1>1, <2>1, AddedLists
<1> QED BY <1>4, <1>5, <1>6 DEF Handled

\* A listing leaves nothing before its cursor that is not handled or listed.
LEMMA ListingCovers ==
    ASSUME Typed, Typed', NEW w \in Workers, NEW n, at[w].pos \notin {"newest"} \/ ListNewest(w),
           Lists(at[w], n), Covers(at[w], Handled), Handled \subseteq Handled'
    PROVE  Covers(n, Handled')
<1> DEFINE l == at[w]
           H == Handled'
<1>1. HandFits(l, arrived) /\ l \in Local
  BY DEF Typed, HandFits
<1>2. Covers(l, H)
  BY CoverGrows
<1>3. l.box \in Boxes
  BY <1>1 DEF Lists, HandFits, Listing
<1>4. ASSUME NEW i \in 1 .. arrived[l.box], Mail[l.box][i] \in gone
      PROVE  Mail[l.box][i] \in H
  BY <1>3, <1>4, ListedOrGone
<1> HIDE DEF H
<1>5. CASE l.pos = "list"
  <2>1. CASE l.cursor = None /\ n = With(l, "newest", l.box, l.cursor, l.refs, Now(l.box))
    <3>1. n.pos = "newest" /\ n.cursor = None
      BY <2>1, WithFields
    <3> QED BY <3>1 DEF Covers, CoveredTo, InLoop
  <2>2. CASE n = With(l, "whole", l.box, l.cursor, l.refs, Now(l.box))
    <3>1. n.pos = "whole" /\ n.cursor = l.cursor /\ n.box = l.box
      BY <2>2, WithFields
    <3> QED BY <1>2, <3>1 DEF Covers, InLoop, H
  <2>3. CASE l.cursor # None
             /\ n = With(l, "each", l.box, l.cursor, Added(l.box, l.cursor.id), Now(l.box))
    <3>1. /\ n.pos = "each" /\ n.cursor = l.cursor /\ n.box = l.box
          /\ n.next = Now(l.box) /\ n.refs = Added(l.box, l.cursor.id)
      BY <2>3, WithFields
    <3>2. n.next.id = arrived[l.box]
      BY <3>1 DEF Now
    <3>3. l.cursor.box = l.box /\ l.cursor.id \in Nat
          /\ \A i \in 1 .. l.cursor.id : Mail[l.box][i] \in H
      BY <1>1, <1>2, <2>3 DEF Covers, CoveredTo, Local, Cursor
    <3>4. ASSUME NEW i \in 1 .. arrived[l.box]
          PROVE  Mail[l.box][i] \in H \cup Range(Added(l.box, l.cursor.id))
      <4>1. i \in Int /\ 1 <= i
        OBVIOUS
      <4>2. CASE i > l.cursor.id
        BY <1>3, <1>4, <3>3, <4>2, ListedOrGone
      <4>3. CASE ~(i > l.cursor.id)
        <5>1. i \in 1 .. l.cursor.id
          BY <3>3, <4>1, <4>3
        <5> QED BY <3>3, <5>1
      <4> QED BY <4>2, <4>3
    <3>5. \A i \in 1 .. n.next.id : Mail[n.box][i] \in H \cup Range(n.refs)
      BY <3>1, <3>2, <3>4
    <3> QED BY <1>2, <3>1, <3>5 DEF Covers, H
  <2> QED BY <1>5, <2>1, <2>2, <2>3 DEF Lists
<1>6. CASE l.pos \in {"newest", "whole"}
  <2>1. /\ l.next.box = l.box /\ l.next.id \in Nat /\ l.next.id <= arrived[l.box]
        /\ arrived[l.box] \in Nat
    <3>1. l.next \in Cursor /\ l.next.box = l.box /\ CursorFits(l.next, arrived)
      BY <1>1, <1>6 DEF HandFits, Listing
    <3>2. l.next # None
      BY <3>1, GmailAssumption
    <3>3. arrived[l.box] \in Nat
      BY <1>3 DEF Typed, MailboxFits
    <3> QED BY <3>1, <3>2, <3>3 DEF CursorFits, Cursor
  <2>2. 1 .. l.next.id \subseteq 1 .. arrived[l.box]
    BY <2>1
  <2>3. CASE l.pos = "whole"
    <3>1. /\ n.pos = "each" /\ n.cursor = l.cursor /\ n.box = l.box
          /\ n.next = l.next /\ n.refs = NewestFirst(Listed(l.box))
      BY <2>3, WithFields DEF Lists
    <3>2. Range(n.refs) = Range(Listed(l.box))
      BY <1>3, <3>1, ListedLists DEF Typed
    <3>3. \A i \in 1 .. n.next.id : Mail[n.box][i] \in H \cup Range(n.refs)
      BY <1>3, <1>4, <2>2, <3>1, <3>2, ListedOrGone
    <3> QED BY <1>2, <3>1, <3>3 DEF Covers, H
  <2>4. CASE l.pos = "newest"
    <3> DEFINE newest == Newest(l.box, InitialMax)
    <3>1. /\ n.pos = "each" /\ n.cursor = l.cursor /\ n.box = l.box
          /\ n.next = l.next /\ n.refs = newest
      BY <2>4, WithFields DEF Lists
    <3>2. l.cursor = None
      BY <1>2, <2>4 DEF Covers
    <3>3. beyond' = beyond \cup (Range(Listed(l.box)) \ Range(newest))
      BY <2>4, <3>2 DEF ListNewest
    <3> HIDE DEF newest
    <3>4. beyond' \cap Messages \subseteq H
      BY DEF Handled, H
    <3>5. ASSUME NEW i \in 1 .. l.next.id PROVE Mail[l.box][i] \in H \cup Range(newest)
      <4>1. i \in 1 .. arrived[l.box]
        BY <2>2
      <4>2. Mail[l.box][i] \in Messages /\ Mail[l.box][i] \in Range(Listed(l.box)) \cup gone
        BY <1>3, <4>1, ListedOrGone
      <4> QED BY <1>4, <3>3, <3>4, <4>1, <4>2
    <3>6. \A i \in 1 .. n.next.id : Mail[n.box][i] \in H \cup Range(n.refs)
      BY <3>1, <3>5
    <3> QED BY <1>2, <3>1, <3>6 DEF Covers, H
  <2> QED BY <1>6, <2>3, <2>4
<1> QED BY <1>2, <1>5, <1>6 DEF Lists, H

\* A step in the loop is done with the first message only when it is handled.
LEMMA LoopCovers ==
    ASSUME QueueFits, Typed, NEW w \in Workers, NEW n, Loops(at[w], n), at'[w] = n,
           \/ SkipMessage(w) \/ StoreMessage(w) \/ Upload(w) \/ SaveMetadata(w)
           \/ EnqueueSourceParse(w),
           Covers(at[w], Handled), Handled \subseteq Handled'
    PROVE  Covers(n, Handled')
<1> DEFINE l == at[w]
           m == Head(l.refs)
           H == Handled'
<1>1. /\ l \in Local /\ l.refs \in Seq(Messages)
      /\ l.pos \in InLoop /\ l.refs # << >>
  BY DEF Typed, HandFits, Local, Loops
<1>2. Covers(l, H)
  BY CoverGrows
<1>3. m \in Messages /\ Range(l.refs) = Range(Tail(l.refs)) \cup {m}
  BY <1>1, TailRange
<1> HIDE DEF H
<1>4. CASE /\ n = With(l, "each", l.box, l.cursor, Tail(l.refs), l.next)
           /\ m \in H
  <2>1. /\ n.pos = "each" /\ n.cursor = l.cursor /\ n.box = l.box
        /\ n.next = l.next /\ n.refs = Tail(l.refs)
    BY <1>4, WithFields
  <2>2. \A i \in 1 .. n.next.id : Mail[n.box][i] \in H \cup Range(n.refs)
    BY <1>1, <1>2, <1>3, <1>4, <2>1 DEF Covers
  <2> QED BY <1>2, <2>1, <2>2 DEF Covers, H
<1>5. CASE \E p \in InLoop \ {"each"} : n = With(l, p, l.box, l.cursor, l.refs, l.next)
  <2>1. /\ n.pos \in InLoop /\ n.pos # "each" /\ n.cursor = l.cursor /\ n.box = l.box
        /\ n.next = l.next /\ n.refs = l.refs
    BY <1>5, WithFields
  <2>2. \A i \in 1 .. n.next.id : Mail[n.box][i] \in H \cup Range(n.refs)
    BY <1>1, <1>2, <2>1 DEF Covers
  <2>3. n.pos # "newest"
    BY <2>1 DEF InLoop
  <2> QED BY <1>2, <2>1, <2>2, <2>3 DEF Covers, H
<1>6. CASE SkipMessage(w)
  <2>1. m \in gone \cup tomb /\ UNCHANGED <<gone, tomb>>
    BY <1>6 DEF SkipMessage, mailbox, store
  <2>2. m \in H
    BY <1>3, <2>1 DEF Handled, H
  <2> QED BY <1>4, <1>5, <2>2 DEF Loops
<1>7. CASE EnqueueSourceParse(w)
  <2>1. /\ source[m] # "absent" /\ UNCHANGED source /\ at[w].pos = "enqueue"
        /\ parse' = IF source[m] = "pending" /\ parse[m] = None
                    THEN [parse EXCEPT ![m] = at[w].run] ELSE parse
    BY <1>7 DEF EnqueueSourceParse
  <2>2. at[w].run # None
    BY <2>1, GmailAssumption DEF QueueFits, ClaimsFit, Runs
  <2>3. source'[m] = "pending" => parse'[m] # None
    BY <1>3, <2>1, <2>2 DEF Typed, StoreFits
  <2>4. m \in H
    BY <1>3, <2>1, <2>3 DEF Handled, H
  <2> QED BY <1>4, <1>5, <2>4 DEF Loops
<1>8. CASE StoreMessage(w) \/ Upload(w) \/ SaveMetadata(w)
  <2>1. PICK p \in InLoop \ {"each"} : at' = [at EXCEPT ![w].pos = p]
    BY <1>8 DEF StoreMessage, Upload, SaveMetadata, AfterStore, Goto, InLoop
  <2>2. n.pos = p
    <3>1. LocalsFit /\ Goto(w, p)
      BY <2>1 DEF QueueFits, Goto
    <3> QED BY <3>1, GotoKeeps
  <2>3. n # With(l, "each", l.box, l.cursor, Tail(l.refs), l.next)
    BY <2>1, <2>2, WithFields
  <2> QED BY <1>5, <2>3 DEF Loops
<1> QED BY <1>6, <1>7, <1>8

\* A handler before or past its listing claims no more than it did.
LEMMA GoingCovers ==
    ASSUME NEW l, NEW n, NEW H, Goes(l, n), Covers(l, H)
    PROVE  Covers(n, H)
<1>1. /\ n.pos \in {"connect", "complete", "failing", "finish", "retry"}
      /\ n.cursor = l.cursor /\ n.box = l.box
  BY WithFields DEF Goes
<1> QED BY <1>1 DEF Covers, InLoop

\* One worker moves; what the others claim about their cursors stays true.
LEMMA OneCoverMoves ==
    ASSUME QueueFits, CursorCovers, Handled \subseteq Handled', NEW w \in Workers, NEW n,
           at' = [at EXCEPT ![w] = n], Covers(n, Handled'), CoveredTo(conn'.cursor, Handled')
    PROVE  CursorCovers'
<1>1. ASSUME NEW v \in Workers PROVE Covers(at'[v], Handled')
  <2>1. at'[v] = IF v = w THEN n ELSE at[v]
    BY DEF QueueFits, LocalsFit
  <2>2. Covers(at[v], Handled')
    BY CoverGrows DEF CursorCovers
  <2> QED BY <2>1, <2>2
<1> QED BY <1>1 DEF CursorCovers

\* Nobody moves and the connection keeps its cursor, or loses it.
LEMMA CoversRest ==
    ASSUME CursorCovers, Handled \subseteq Handled', UNCHANGED at,
           conn'.cursor \in {conn.cursor, None}
    PROVE  CursorCovers'
<1>1. \A w \in Workers : Covers(at[w], Handled')
  BY CoverGrows DEF CursorCovers
<1>2. CoveredTo(conn'.cursor, Handled')
  BY DEF CursorCovers, CoveredTo
<1> QED BY <1>1, <1>2 DEF CursorCovers

\* While the stored cursor is of the connected account, every step keeps
\* whatever lies before a cursor handled or listed.
LEMMA CoversStep ==
    QueueFits /\ Typed /\ Typed' /\ CursorIsOfConnection /\ CursorCovers /\ [Next]_vars
      => CursorCovers'
<1> SUFFICES ASSUME QueueFits, Typed, Typed', CursorIsOfConnection, CursorCovers, [Next]_vars
             PROVE  CursorCovers'
  OBVIOUS
<1>1. Handled \subseteq Handled'
  BY HandledStays
<1>2. LocalsFit /\ MailboxFits
  BY DEF QueueFits, Typed
<1>3. CoveredTo(conn.cursor, Handled')
  BY <1>1 DEF CursorCovers, CoveredTo
<1>4. ASSUME NEW w \in Workers, Handle(w) \/ Errs(w) \/ ErrsUnrecorded(w) \/ FailureUnrecorded(w)
      PROVE  CursorCovers'
  <2> DEFINE l == at[w]
  <2>1. Covers(l, Handled) /\ Covers(l, Handled') /\ HandFits(l, arrived)
    BY <1>1, CoverGrows DEF CursorCovers, Typed
  <2>2. CASE UpdateConnectionCursor(w)
    <3>1. /\ conn' = [conn EXCEPT !.cursor = l.next] /\ l.pos = "each" /\ l.refs = << >>
      BY <2>2 DEF UpdateConnectionCursor
    <3>2. conn'.cursor = l.next
      BY <1>2, <3>1 DEF MailboxFits
    <3>3. l.next.box = l.box /\ Range(l.refs) = {}
      BY <2>1, <3>1 DEF HandFits, Listing, InLoop, Range
    <3>4. CoveredTo(l.next, Handled')
      BY <2>1, <3>1, <3>3 DEF Covers, CoveredTo, InLoop
    <3>5. PICK n : at' = [at EXCEPT ![w] = n] /\ Goes(l, n)
      BY <1>2, <2>2, GoingWrites
    <3>6. Covers(n, Handled')
      BY <2>1, <3>5, GoingCovers
    <3> QED BY <1>1, <3>2, <3>4, <3>5, <3>6, OneCoverMoves
  <2>3. ~UpdateConnectionCursor(w) => UNCHANGED conn
    BY <1>4 DEF Handle, StartSyncRun, ReadConnection, CaptureHistory, ListNewest, ListHistory,
       HistoryExpired, ListWhole, SkipMessage, StoreMessage, Upload, UploadFails,
       SaveMetadata, EnqueueSourceParse, CompleteSyncRun,
       RecordSyncFailure, Errs, ErrsUnrecorded, FailureUnrecorded
  <2>4. CASE ReadConnection(w)
    <3>1. PICK n : at' = [at EXCEPT ![w] = n] /\ Reads(l, n)
      BY <1>2, <2>4, ReadWrites
    <3>2. n.pos = "list" /\ n.cursor = conn.cursor /\ n.box = conn.box
      BY <3>1, WithFields DEF Reads
    <3>3. Covers(n, Handled')
      BY <1>3, <3>2 DEF Covers, CursorIsOfConnection, InLoop
    <3>4. UNCHANGED conn
      BY <2>4 DEF ReadConnection
    <3> QED BY <1>1, <1>3, <3>1, <3>3, <3>4, OneCoverMoves
  <2>5. CASE \/ CaptureHistory(w) \/ HistoryExpired(w) \/ ListHistory(w)
             \/ ListNewest(w) \/ ListWhole(w)
    <3>1. PICK n : at' = [at EXCEPT ![w] = n] /\ Lists(l, n)
      BY <1>2, <2>5, ListingWrites
    <3>2. l.pos # "newest" \/ ListNewest(w)
      BY <2>5 DEF CaptureHistory, HistoryExpired, ListHistory, ListWhole
    <3>3. Covers(n, Handled')
      BY <1>1, <2>1, <3>1, <3>2, ListingCovers
    <3>4. UNCHANGED conn
      BY <2>5 DEF CaptureHistory, HistoryExpired, ListHistory, ListNewest, ListWhole
    <3> QED BY <1>1, <1>3, <3>1, <3>3, <3>4, OneCoverMoves
  <2>6. CASE \/ SkipMessage(w) \/ StoreMessage(w) \/ Upload(w) \/ SaveMetadata(w)
             \/ EnqueueSourceParse(w)
    <3>1. PICK n : at' = [at EXCEPT ![w] = n] /\ Loops(l, n)
      BY <1>2, <2>1, <2>6, LoopWrites DEF HandFits
    <3>2. at'[w] = n
      BY <1>2, <3>1 DEF LocalsFit
    <3>3. Covers(n, Handled')
      BY <1>1, <2>1, <2>6, <3>1, <3>2, LoopCovers
    <3>4. UNCHANGED conn
      BY <2>6 DEF SkipMessage, StoreMessage, Upload, SaveMetadata, EnqueueSourceParse
    <3> QED BY <1>1, <1>3, <3>1, <3>3, <3>4, OneCoverMoves
  <2>7. CASE \/ StartSyncRun(w) \/ UploadFails(w) \/ CompleteSyncRun(w) \/ RecordSyncFailure(w)
             \/ Errs(w) \/ ErrsUnrecorded(w) \/ FailureUnrecorded(w)
    <3>1. PICK n : at' = [at EXCEPT ![w] = n] /\ Goes(l, n)
      BY <1>2, <2>7, GoingWrites
    <3>2. Covers(n, Handled')
      BY <2>1, <3>1, GoingCovers
    <3>3. UNCHANGED conn
      BY <2>7 DEF StartSyncRun, UploadFails, CompleteSyncRun, RecordSyncFailure, Errs,
         ErrsUnrecorded, FailureUnrecorded
    <3> QED BY <1>1, <1>3, <3>1, <3>2, <3>3, OneCoverMoves
  <2> QED BY <1>4, <2>2, <2>4, <2>5, <2>6, <2>7 DEF Handle
<1>5. ASSUME NEW w \in Workers, \/ \E r \in Runs : Claim(w, r)
                                \/ CompleteJob(w) \/ RetryJob(w) \/ Crash(w)
      PROVE  CursorCovers'
  <2>1. PICK n : /\ at' = [at EXCEPT ![w] = n]
                 /\ n.pos \in {"idle", "start"} /\ n.cursor = None
    <3>1. CASE \E r \in Runs : Claim(w, r)
      BY <3>1, ClaimerFits
    <3>2. CASE CompleteJob(w) \/ RetryJob(w) \/ Crash(w)
      <4>1. at' = [at EXCEPT ![w] = Idle]
        BY <3>2 DEF CompleteJob, RetryJob, Crash
      <4>2. Idle.pos = "idle" /\ Idle.cursor = None
        BY DEF Idle
      <4> QED BY <4>1, <4>2
    <3> QED BY <1>5, <3>1, <3>2
  <2>2. Covers(n, Handled')
    BY <2>1 DEF Covers, CoveredTo, InLoop
  <2>3. UNCHANGED conn
    BY <1>5 DEF Claim, CompleteJob, RetryJob, Crash
  <2> QED BY <1>1, <1>3, <2>1, <2>2, <2>3, OneCoverMoves
<1>6. ASSUME NEW b \in Boxes, Connect(b) PROVE CursorCovers'
  <2>1. conn'.cursor = None /\ UNCHANGED at
    BY <1>6 DEF Connect
  <2> QED BY <1>1, <2>1, CoversRest
<1>7. CASE UNCHANGED <<conn, at>>
  BY <1>1, <1>7, CoversRest
<1>8. \/ UNCHANGED <<conn, at>>
      \/ \E b \in Boxes : Connect(b)
      \/ \E w \in Workers : \/ Handle(w) \/ Errs(w) \/ ErrsUnrecorded(w) \/ FailureUnrecorded(w)
                            \/ \E r \in Runs : Claim(w, r)
                            \/ CompleteJob(w) \/ RetryJob(w) \/ Crash(w)
  <2>1. CASE UNCHANGED vars
    BY <2>1 DEF vars
  <2>2. CASE Mailbox \/ \E r \in Runs : LeaseLapses(r)
    BY <2>2 DEF Mailbox, Arrive, Vanish, LeaseLapses
  <2>3. CASE User
    BY <2>3 DEF User, CreateSyncRun, RetrySourceParse, DeleteSource
  <2>4. CASE \E m \in Messages : Others(m)
    BY <2>4 DEF Others, ParseSettles, CleanUp
  <2>5. ASSUME NEW w \in Workers, Work(w) \/ Fault(w)
        PROVE  \/ UNCHANGED <<conn, at>>
               \/ Handle(w) \/ Errs(w) \/ ErrsUnrecorded(w) \/ FailureUnrecorded(w)
               \/ \E r \in Runs : Claim(w, r)
               \/ CompleteJob(w) \/ RetryJob(w) \/ Crash(w)
    BY <2>5 DEF Work, Fault, ClaimNothing
  <2> QED BY <2>1, <2>2, <2>3, <2>4, <2>5 DEF Next
<1> QED BY <1>4, <1>5, <1>6, <1>7, <1>8

\* Before the first refresh there is no cursor.
LEMMA CoversInit == Init => CursorCovers
BY DEF Init, CursorCovers, CoveredTo, Covers, Idle, InLoop

\* What a cursor leaves behind is stored, deleted, gone or left out.
LEMMA CoveredIsStored == CursorCovers => CursorSkipsNothing
BY DEF CursorCovers, CoveredTo, Handled, CursorSkipsNothing

\* A refresh never loses a message, in any number of accounts, as long as the
\* stored cursor is of the account that is connected: the cursor moves only
\* after every message before it was stored and queued, or found deleted,
\* through crashes, lost leases, stale workers and retries.
THEOREM CursorsSkipNothing == Spec /\ []CursorIsOfConnection => []CursorSkipsNothing
<1>1. Init => CursorCovers
  BY CoversInit
<1>2. /\ QueueFits /\ MailFits /\ Typed /\ (QueueFits /\ MailFits /\ Typed)'
      /\ CursorIsOfConnection /\ CursorCovers /\ [Next]_vars
      => CursorCovers'
  BY CoversStep
<1> QED BY <1>1, <1>2, TypedAlways, CoveredIsStored, PTL DEF Spec

----------------------------------------------------------------------------
\* The user has one Google account.
OneAccount == \A b, c \in Boxes : b = c

\* With one account, every cursor is of it.
LEMMA OneAccountConnected ==
    ASSUME OneAccount PROVE Typed => CursorIsOfConnection
BY DEF OneAccount, Typed, MailboxFits, CursorFits, Cursor, CursorIsOfConnection

\* A source that is not queued is before no cursor, so the next listing has it.
LEMMA UnparsedIsListed ==
    ASSUME OneAccount, Typed, MailFits, CursorCovers PROVE NextRefreshRepairs
<1> SUFFICES ASSUME conn.cursor # None, NEW m \in Unparsed
             PROVE  m \in NextListing \cup gone \cup beyond
  BY DEF NextRefreshRepairs
<1> DEFINE c == conn.cursor
<1>1. /\ m \in Messages /\ source[m] = "pending" /\ parse[m] = None /\ m \notin tomb
  BY DEF Unparsed, MailFits, SourcesFit
<1>2. c \in Cursor /\ c.box \in Boxes /\ c.id \in Nat
  BY DEF Typed, MailboxFits, CursorFits, Cursor
<1>3. PICK b \in Boxes : \E i \in 1 .. arrived[b] : m = Mail[b][i]
  BY <1>1 DEF Typed, StoreFits, Received
<1>4. PICK i \in 1 .. arrived[b] : m = Mail[b][i]
  BY <1>3
<1>5. b = c.box
  BY <1>2 DEF OneAccount
<1>6. CASE i > c.id
  <2>1. m \in Range(Added(c.box, c.id)) \cup gone
    BY <1>2, <1>4, <1>6, <1>5, ListedOrGone
  <2> QED BY <2>1 DEF NextListing
<1>7. CASE ~(i > c.id)
  <2>1. i \in 1 .. c.id
    BY <1>2, <1>4, <1>7
  <2>2. m \in Handled
    BY <1>2, <1>4, <1>5, <2>1 DEF CursorCovers, CoveredTo
  <2> QED BY <1>1, <2>2 DEF Handled
<1> QED BY <1>6, <1>7

\* With one account every cursor covers what lies before it.
LEMMA CoversAlways ==
    ASSUME OneAccount PROVE Spec => [](MailFits /\ Typed /\ CursorCovers)
<1>1. Init => CursorCovers
  BY CoversInit
<1>2. Typed => CursorIsOfConnection
  BY OneAccountConnected
<1>3. /\ QueueFits /\ MailFits /\ Typed /\ (QueueFits /\ MailFits /\ Typed)'
      /\ CursorIsOfConnection /\ CursorCovers /\ [Next]_vars
      => CursorCovers'
  BY CoversStep
<1> QED BY <1>1, <1>2, <1>3, TypedAlways, PTL DEF Spec

\* With one account a refresh never loses a message.
THEOREM RefreshesLoseNothing ==
    ASSUME OneAccount PROVE Spec => []CursorSkipsNothing
BY CoversAlways, CoveredIsStored, PTL

\* Whatever an interrupted refresh stored and did not queue is in the listing
\* of the next one, which repairs it.
THEOREM RefreshesRepair ==
    ASSUME OneAccount PROVE Spec => []NextRefreshRepairs
<1>1. MailFits /\ Typed /\ CursorCovers => NextRefreshRepairs
  BY UnparsedIsListed
<1> QED BY <1>1, CoversAlways, PTL

=============================================================================
