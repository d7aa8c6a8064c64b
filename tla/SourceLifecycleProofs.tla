----------------------- MODULE SourceLifecycleProofs ------------------------
(***************************************************************************)
(* Theorems about SourceLifecycle for every set of workers, sources and    *)
(* transactions and any number of requests and deliveries.                 *)
(***************************************************************************)
EXTENDS SourceLifecycle, TLAPS

\* A worker that is not idle has a job of some source in hand, and carries out
\* decisions only that it has taken.
HandsFit ==
    /\ at \in [Workers -> Local]
    /\ \A w \in Workers :
         /\ at[w].pos # "idle" => at[w].source \in Sources /\ at[w].kind \in Kinds
         /\ at[w].pos = "persist" => at[w].decision \in Decision

\* A job that is queued may still be tried.
JobsFit ==
    /\ job \in [Sources -> [Kinds -> Job]]
    /\ \A s \in Sources, k \in Kinds :
         job[s][k].status = "queued" => job[s][k].attempts < MaxAttempts

LedgerFits ==
    /\ tx \in [Tx -> Transaction \cup {None, Gone}]
    /\ links \subseteq Sources \X Tx
    /\ detached \subseteq Sources \X Tx
    /\ transfers \subseteq Tx \X Tx

UnmatchingFits == unmatching \subseteq [link : Sources \X Tx, last : BOOLEAN]

Types ==
    /\ status \in [Sources -> Status]
    /\ JobsFit
    /\ LedgerFits
    /\ UnmatchingFits
    /\ HandsFit

----------------------------------------------------------------------------
\* The records of the queue.
LEMMA JobRecords ==
    /\ NoJob \in Job /\ NoJob.status = "none" /\ NoJob.attempts = 0
    /\ Queued \in Job /\ Queued.status = "queued" /\ Queued.attempts = 0
    /\ Idle \in Local /\ Idle.pos = "idle"
<1>1. 0 \in 0 .. MaxAttempts
  BY LifecycleAssumption
<1>2. NoJob \in Job /\ NoJob.status = "none" /\ NoJob.attempts = 0
  BY <1>1 DEF NoJob, Job
<1>3. Queued \in Job /\ Queued.status = "queued" /\ Queued.attempts = 0
  BY <1>2 DEF Queued, Job
<1>4. Idle \in Local /\ Idle.pos = "idle"
  BY DEF Idle, Local
<1> QED BY <1>2, <1>3, <1>4

\* Reaping takes jobs away and writes statuses, whatever it finds.
LEMMA ReapingFits ==
    ASSUME Types
    PROVE  /\ ReapedJobs \in [Sources -> [Kinds -> Job]]
           /\ ReapedStatus \in [Sources -> Status]
           /\ \A s \in Sources, k \in Kinds :
                ReapedJobs[s][k] \in {job[s][k], NoJob}
           /\ \A s \in Sources : ReapedStatus[s] \in {status[s], "failed"}
BY JobRecords DEF Types, JobsFit, ReapedJobs, ReapedStatus, Status

\* A worker that goes on keeps its job.
LEMMA GotoFits ==
    ASSUME HandsFit, NEW w \in Workers, at[w].pos # "idle",
           NEW p \in {"finish", "retry"}, Goto(w, p)
    PROVE  HandsFit'
BY DEF HandsFit, Goto, Local

\* A worker that returns has nothing in hand.
LEMMA IdleFits ==
    ASSUME HandsFit, NEW w \in Workers, at' = [at EXCEPT ![w] = Idle]
    PROVE  HandsFit'
BY JobRecords DEF HandsFit

\* A new status, of whichever source.
LEMMA StatusFits ==
    ASSUME status \in [Sources -> Status], NEW s, NEW new \in Status,
           status' = [status EXCEPT ![s] = new]
    PROVE  status' \in [Sources -> Status]
OBVIOUS

\* A job that is queued, or gone.
LEMMA JobFits ==
    ASSUME JobsFit, NEW s \in Sources, NEW k \in Kinds, NEW new \in Job,
           new.status = "queued" => new.attempts < MaxAttempts,
           job' = [job EXCEPT ![s][k] = new]
    PROVE  JobsFit'
BY DEF JobsFit

\* A job that is queued afresh.
LEMMA QueuedFits ==
    ASSUME JobsFit, NEW s \in Sources, NEW k \in Kinds, job' = [job EXCEPT ![s][k] = Queued]
    PROVE  JobsFit'
<1>1. Queued \in Job /\ Queued.attempts < MaxAttempts
  BY JobRecords, LifecycleAssumption
<1> QED BY <1>1, JobFits

\* A claim is of a job that may still be tried, and counts the attempt.
LEMMA ClaimFits ==
    ASSUME Types, NEW w \in Workers, NEW s \in Sources, NEW k \in Kinds, Claim(w, s, k)
    PROVE  Types'
<1>1. ReapedJobs[s][k] = job[s][k] /\ job[s][k].attempts \in Nat
      /\ job[s][k].attempts < MaxAttempts
  <2>1. job[s][k] \in Job
    BY DEF Types, JobsFit
  <2>2. job[s][k].attempts < MaxAttempts /\ job[s][k].attempts \in Nat
    BY <2>1, LifecycleAssumption
       DEF Claim, Claimable, Types, JobsFit, Lapsed, Spent, Job
  <2>3. <<s, k>> \notin Dead
    BY <2>2, LifecycleAssumption DEF Dead, Spent
  <2> QED BY <2>2, <2>3 DEF ReapedJobs
<1> DEFINE new == [status |-> "running", attempts |-> job[s][k].attempts + 1,
                   owner |-> w, leased |-> TRUE]
<1>2. job' = [ReapedJobs EXCEPT ![s][k] = new]
  BY <1>1 DEF Claim
<1>3. new \in Job /\ new.status = "running"
  BY <1>1, LifecycleAssumption DEF Job
<1> HIDE DEF new
<1>4. JobsFit'
  <2>1. job' \in [Sources -> [Kinds -> Job]]
    BY <1>2, <1>3, ReapingFits
  <2>2. ASSUME NEW r \in Sources, NEW l \in Kinds
        PROVE  job'[r][l] \in {new, job[r][l], NoJob}
    BY <1>2, ReapingFits
  <2> QED BY <2>1, <2>2, <1>3, JobRecords DEF Types, JobsFit
<1>5. HandsFit'
  <2> DEFINE pos == IF k = "parse" THEN "parse" ELSE "load"
             hand == [Idle EXCEPT !.pos = pos, !.source = s, !.kind = k]
  <2>1. at' = [at EXCEPT ![w] = hand] /\ pos \in {"parse", "load"}
    BY DEF Claim
  <2> HIDE DEF pos
  <2>2. hand \in Local /\ hand.source = s /\ hand.kind = k /\ hand.pos # "persist"
    BY <2>1, JobRecords DEF Local
  <2> HIDE DEF hand
  <2> QED BY <2>1, <2>2 DEF Types, HandsFit
<1> QED BY <1>4, <1>5, ReapingFits DEF Types, Claim, LedgerFits, UnmatchingFits, ledger

\* What workers do with the queue alone; a retry is queued only below MaxAttempts.
LEMMA QueueFits ==
    ASSUME Types, NEW w \in Workers,
           ClaimNothing(w) \/ CompleteJob(w) \/ RetryJob(w) \/ Crash(w)
    PROVE  Types'
<1>1. CASE ClaimNothing(w)
  <2>1. JobsFit'
    BY <1>1, ReapingFits, JobRecords DEF ClaimNothing, Types, JobsFit
  <2> QED BY <1>1, <2>1, ReapingFits
          DEF ClaimNothing, Types, LedgerFits, UnmatchingFits, HandsFit, ledger
<1>2. CASE CompleteJob(w)
  <2>1. at[w].source \in Sources /\ at[w].kind \in Kinds
    BY <1>2 DEF CompleteJob, Types, HandsFit
  <2>2. JobsFit'
    <3>1. CASE job' = job
      BY <3>1 DEF Types, JobsFit
    <3>2. CASE job' = [job EXCEPT ![at[w].source][at[w].kind] = NoJob]
      BY <3>2, <2>1, JobFits, JobRecords DEF Types
    <3> QED BY <1>2, <3>1, <3>2 DEF CompleteJob
  <2>3. HandsFit'
    BY <1>2, IdleFits DEF CompleteJob, Types
  <2> QED BY <1>2, <2>2, <2>3
          DEF CompleteJob, Types, LedgerFits, UnmatchingFits, ledger
<1>3. CASE RetryJob(w)
  <2> DEFINE s == at[w].source
             k == at[w].kind
             again == [Queued EXCEPT !.attempts = job[s][k].attempts]
  <2>1. s \in Sources /\ k \in Kinds
    BY <1>3 DEF RetryJob, Types, HandsFit
  <2>2. job[s][k] \in Job
    BY <2>1 DEF Types, JobsFit
  <2>3. again \in Job /\ again.status = "queued" /\ again.attempts = job[s][k].attempts
    BY <2>2 DEF Queued, NoJob, Job
  <2> HIDE DEF again
  <2>4. JobsFit'
    <3>1. CASE job' = job
      BY <3>1 DEF Types, JobsFit
    <3>2. CASE job' = [job EXCEPT ![s][k] = NoJob]
      BY <3>2, <2>1, JobFits, JobRecords DEF Types
    <3>3. CASE job' = [job EXCEPT ![s][k] = again] /\ ~Spent(s, k)
      <4>1. again.attempts < MaxAttempts
        BY <3>3, <2>2, <2>3, LifecycleAssumption DEF Spent, Job
      <4> QED BY <3>3, <4>1, <2>1, <2>3, JobFits DEF Types
    <3> QED BY <1>3, <3>1, <3>2, <3>3 DEF RetryJob, again
  <2>5. status' \in [Sources -> Status]
    BY <1>3 DEF RetryJob, Types, Status
  <2>6. HandsFit'
    BY <1>3, IdleFits DEF RetryJob, Types
  <2> QED BY <1>3, <2>4, <2>5, <2>6
          DEF RetryJob, Types, LedgerFits, UnmatchingFits, ledger
<1>4. CASE Crash(w)
  BY <1>4, IdleFits DEF Crash, Types, JobsFit, LedgerFits, UnmatchingFits, ledger
<1> QED BY <1>1, <1>2, <1>3, <1>4

\* A lease that lapses changes nothing else of its job.
LEMMA LapseFits ==
    ASSUME Types, NEW s \in Sources, NEW k \in Kinds, LeaseLapses(s, k)
    PROVE  Types'
<1> DEFINE new == [job[s][k] EXCEPT !.leased = FALSE]
<1>1. job[s][k] \in Job
  BY DEF Types, JobsFit
<1>2. new \in Job /\ new.status = job[s][k].status /\ new.attempts = job[s][k].attempts
  BY <1>1 DEF Job
<1>3. job' = [job EXCEPT ![s][k] = new]
  BY DEF LeaseLapses
<1> HIDE DEF new
<1>4. JobsFit'
  BY <1>2, <1>3, JobFits DEF Types, JobsFit
<1> QED BY <1>4 DEF LeaseLapses, Types, LedgerFits, UnmatchingFits, HandsFit, ledger

\* What a handler has in hand when it goes on.
LEMMA HandlerHolds ==
    ASSUME HandsFit, NEW w \in Workers, at[w].pos # "idle"
    PROVE  at[w].source \in Sources /\ at[w].kind \in Kinds
BY DEF HandsFit

\* A transaction that is inserted is one.
LEMMA InsertedFits ==
    ASSUME NEW method \in {"automatic_source", "user_source", "internal_transfer"},
           NEW event \in {Event[s] : s \in Sources} \cup {None}
    PROVE  Inserted(method, event) \in Transaction
BY DEF Inserted, Transaction

\* Reconcile answers with decisions.
LEMMA DecisionsFit ==
    ASSUME NEW s
    PROVE  Decisions(s) \subseteq Decision
BY DEF Decisions, Decision, Matches, Live

\* The decisions differ in their outcomes.
LEMMA Outcomes ==
    /\ \A t \in Tx : Attach(t).outcome = "attach"
    /\ Create.outcome = "create"
    /\ Review.outcome = "review"
    /\ Dangling.outcome = "dangling"
BY DEF Attach, Create, Review, Dangling

\* Carrying out a decision keeps the rows in their tables.
LEMMA ApplyFits ==
    ASSUME LedgerFits, status \in [Sources -> Status], NEW s \in Sources,
           NEW d \in Decision, Apply(s, d)
    PROVE  LedgerFits' /\ status' \in [Sources -> Status]
<1>1. CASE d \in {Attach(t) : t \in Tx}
  <2>1. PICK t \in Tx : d = Attach(t)
    BY <1>1
  <2>2. d.outcome = "attach" /\ d.tx = t
    BY <2>1 DEF Attach
  <2>3. links' = links \cup {<<s, t>>} /\ UNCHANGED <<status, tx, detached, transfers>>
    BY <2>2 DEF Apply
  <2> QED BY <2>3 DEF LedgerFits
<1>2. CASE d = Create
  <2>1. d.outcome = "create"
    BY <1>2 DEF Create
  <2>2. PICK t \in Free : /\ tx' = [tx EXCEPT ![t] = Inserted("automatic_source", Event[s])]
                          /\ links' = links \cup {<<s, t>>}
                          /\ UNCHANGED <<status, detached, transfers>>
    BY <2>1 DEF Apply
  <2>3. Inserted("automatic_source", Event[s]) \in Transaction
    BY InsertedFits
  <2> QED BY <2>2, <2>3 DEF LedgerFits, Free
<1>3. CASE d \in {Review, Dangling}
  <2>1. d.outcome \in {"review", "dangling"}
    BY <1>3 DEF Review, Dangling
  <2>2. UNCHANGED ledger /\ \E new \in Status : status' = [status EXCEPT ![s] = new]
    BY <2>1 DEF Apply, Status
  <2> QED BY <2>2 DEF ledger, LedgerFits
<1> QED BY <1>1, <1>2, <1>3 DEF Decision

\* The handlers go on with the job they have in hand.
LEMMA HandlerFits ==
    ASSUME Types, NEW w \in Workers,
           \/ SaveParsedSource(w) \/ RecordParseError(w) \/ LoadReconciliationInput(w)
           \/ PersistReconciliation(w) \/ Errs(w)
    PROVE  Types'
<1> DEFINE s == at[w].source
<1>1. s \in Sources
  BY HandlerHolds DEF Types, SaveParsedSource, RecordParseError, LoadReconciliationInput,
                      PersistReconciliation, Errs
<1>2. CASE SaveParsedSource(w)
  <2>1. status' \in [Sources -> Status]
    BY <1>2 DEF SaveParsedSource, Types, Status
  <2>2. JobsFit'
    <3>1. CASE job' = job
      BY <3>1 DEF Types, JobsFit
    <3>2. CASE job' = [job EXCEPT ![s]["reconcile"] = Queued]
      <4>1. "reconcile" \in Kinds
        BY DEF Kinds
      <4> QED BY <3>2, <4>1, <1>1, QueuedFits DEF Types
    <3> QED BY <1>2, <3>1, <3>2 DEF SaveParsedSource
  <2>3. HandsFit'
    BY <1>2, GotoFits DEF SaveParsedSource, Types
  <2> QED BY <1>2, <2>1, <2>2, <2>3
          DEF SaveParsedSource, Types, LedgerFits, UnmatchingFits, ledger
<1>3. CASE RecordParseError(w)
  <2>1. status' \in [Sources -> Status]
    BY <1>3 DEF RecordParseError, Types, Status
  <2>2. HandsFit'
    BY <1>3, GotoFits DEF RecordParseError, Types
  <2> QED BY <1>3, <2>1, <2>2
          DEF RecordParseError, Types, JobsFit, LedgerFits, UnmatchingFits, ledger
<1>4. CASE LoadReconciliationInput(w)
  <2>1. HandsFit'
    <3>1. CASE Goto(w, "retry")
      BY <1>4, <3>1, GotoFits DEF LoadReconciliationInput, Types
    <3>2. ASSUME NEW d \in Decision, at' = [at EXCEPT ![w].pos = "persist", ![w].decision = d]
          PROVE  HandsFit'
      <4> DEFINE new == [at[w] EXCEPT !.pos = "persist", !.decision = d]
      <4>1. at[w] \in Local /\ at[w].source \in Sources /\ at[w].kind \in Kinds
        BY <1>4, HandlerHolds DEF LoadReconciliationInput, Types, HandsFit
      <4>2. /\ new \in Local /\ new.source = at[w].source /\ new.kind = at[w].kind
            /\ new.decision = d
        BY <4>1 DEF Local
      <4>3. at' = [at EXCEPT ![w] = new]
        BY <3>2, Zenon
      <4> HIDE DEF new
      <4> QED BY <4>1, <4>2, <4>3 DEF Types, HandsFit
    <3> QED BY <1>4, <3>1, <3>2, DecisionsFit DEF LoadReconciliationInput
  <2> QED BY <1>4, <2>1
          DEF LoadReconciliationInput, Types, JobsFit, LedgerFits, UnmatchingFits, ledger
<1>5. CASE PersistReconciliation(w)
  <2>1. HandsFit'
    BY <1>5, GotoFits DEF PersistReconciliation, Types
  <2>2. Redecided(w) \subseteq Decision
    BY <1>5, DecisionsFit DEF PersistReconciliation, Redecided, Types, HandsFit
  <2>3. LedgerFits' /\ status' \in [Sources -> Status]
    <3>1. CASE UNCHANGED <<status, ledger>>
      BY <3>1 DEF Types, LedgerFits, ledger
    <3>2. ASSUME NEW d \in Redecided(w), Apply(s, d)
          PROVE  LedgerFits' /\ status' \in [Sources -> Status]
      BY <1>1, <2>2, <3>2, ApplyFits DEF Types
    <3> QED BY <1>5, <3>1, <3>2 DEF PersistReconciliation
  <2> QED BY <1>5, <2>1, <2>3 DEF PersistReconciliation, Types, JobsFit, UnmatchingFits
<1>6. CASE Errs(w)
  <2>1. HandsFit'
    BY <1>6, GotoFits DEF Errs, Types
  <2> QED BY <1>6, <2>1 DEF Errs, Types, JobsFit, LedgerFits, UnmatchingFits, ledger
<1> QED BY <1>2, <1>3, <1>4, <1>5, <1>6

\* Requests that change jobs of sources.
LEMMA SourceRequestFits ==
    ASSUME Types, NEW s \in Sources, Ingest(s) \/ RetrySourceParse(s) \/ DeleteSource(s)
    PROVE  Types'
<1>1. CASE Ingest(s) \/ RetrySourceParse(s)
  <2>1. job' = [job EXCEPT ![s]["parse"] = Queued] /\ status' = [status EXCEPT ![s] = "pending"]
    BY <1>1 DEF Ingest, RetrySourceParse
  <2>2. JobsFit'
    <3>1. "parse" \in Kinds
      BY DEF Kinds
    <3> QED BY <2>1, <3>1, QueuedFits DEF Types
  <2> QED BY <1>1, <2>1, <2>2
          DEF Ingest, RetrySourceParse, Types, Status, LedgerFits, UnmatchingFits, HandsFit, ledger
<1>2. CASE DeleteSource(s)
  <2>1. JobsFit'
    BY <1>2, JobRecords DEF DeleteSource, Types, JobsFit
  <2>2. LedgerFits'
    BY <1>2 DEF DeleteSource, Types, LedgerFits
  <2> QED BY <1>2, <2>1, <2>2 DEF DeleteSource, Types, Status, UnmatchingFits, HandsFit
<1> QED BY <1>1, <1>2

\* Requests that change transactions and evidence.
LEMMA LedgerRequestFits ==
    ASSUME Types,
           \/ \E s \in Sources, t \in Tx : AttachSource(s, t) \/ CreateTransactionFromSource(s, t)
           \/ \E t \in Tx : PatchTransaction(t)
           \/ \E d, c \in Tx, forDebit, forCredit \in SUBSET Sources :
                 CreateInternalTransfer(d, c, forDebit, forCredit)
    PROVE  Types'
<1>1. ASSUME NEW s \in Sources, NEW t \in Tx, AttachSource(s, t) PROVE Types'
  BY <1>1 DEF AttachSource, Types, Status, JobsFit, LedgerFits, UnmatchingFits, HandsFit
<1>2. ASSUME NEW s \in Sources, NEW t \in Tx, CreateTransactionFromSource(s, t) PROVE Types'
  <2>1. Inserted("user_source", Event[s]) \in Transaction
    BY InsertedFits
  <2>2. LedgerFits'
    BY <1>2, <2>1 DEF CreateTransactionFromSource, Types, LedgerFits
  <2> QED BY <1>2, <2>2
          DEF CreateTransactionFromSource, Types, Status, JobsFit, UnmatchingFits, HandsFit
<1>3. ASSUME NEW t \in Tx, PatchTransaction(t) PROVE Types'
  <2>1. PICK event \in {tx[t].event, None} :
          tx' = [tx EXCEPT ![t].event = event, ![t].edited = TRUE]
    BY <1>3 DEF PatchTransaction
  <2>2. tx[t] \in Transaction
    BY <1>3 DEF PatchTransaction, Types, LedgerFits, Live
  <2> DEFINE new == [tx[t] EXCEPT !.event = event, !.edited = TRUE]
  <2>3. new \in Transaction
    BY <2>1, <2>2 DEF Transaction
  <2>4. tx' = [tx EXCEPT ![t] = new]
    BY <2>1, Zenon
  <2> HIDE DEF new
  <2>5. LedgerFits'
    BY <1>3, <2>3, <2>4 DEF PatchTransaction, Types, LedgerFits
  <2> QED BY <1>3, <2>5 DEF PatchTransaction, Types, JobsFit, UnmatchingFits, HandsFit
<1>4. ASSUME NEW d \in Tx, NEW c \in Tx, NEW forDebit \in SUBSET Sources,
             NEW forCredit \in SUBSET Sources,
             CreateInternalTransfer(d, c, forDebit, forCredit)
      PROVE  Types'
  <2>1. Inserted("internal_transfer", None) \in Transaction
    BY InsertedFits
  <2>2. LedgerFits'
    BY <1>4, <2>1 DEF CreateInternalTransfer, Types, LedgerFits
  <2>3. status' \in [Sources -> Status]
    BY <1>4 DEF CreateInternalTransfer, Types, Status
  <2> QED BY <1>4, <2>2, <2>3
          DEF CreateInternalTransfer, Types, JobsFit, UnmatchingFits, HandsFit
<1> QED BY <1>1, <1>2, <1>3, <1>4

\* The two steps of an unmatch request.
LEMMA UnmatchFits ==
    ASSUME Types,
           \/ \E s \in Sources, t \in Tx : BeginUnmatch(s, t)
           \/ \E u \in unmatching : CommitUnmatch(u) \/ AbortUnmatch(u)
    PROVE  Types'
<1>1. ASSUME NEW s \in Sources, NEW t \in Tx, BeginUnmatch(s, t) PROVE Types'
  <2>1. PICK last \in BOOLEAN : unmatching' = unmatching \cup {[link |-> <<s, t>>, last |-> last]}
    BY <1>1 DEF BeginUnmatch, LastEvidence
  <2>2. UnmatchingFits'
    BY <2>1 DEF Types, UnmatchingFits
  <2> QED BY <1>1, <2>2 DEF BeginUnmatch, Types, JobsFit, LedgerFits, HandsFit, ledger
<1>2. ASSUME NEW u \in unmatching, CommitUnmatch(u) PROVE Types'
  <2>1. u.link \in Sources \X Tx
    BY DEF Types, UnmatchingFits
  <2>2. LedgerFits' /\ UnmatchingFits'
    BY <1>2, <2>1 DEF CommitUnmatch, Types, LedgerFits, UnmatchingFits
  <2>3. status' \in [Sources -> Status]
    BY <1>2 DEF CommitUnmatch, Types, Status
  <2> QED BY <1>2, <2>2, <2>3 DEF CommitUnmatch, Types, JobsFit, HandsFit
<1>3. ASSUME NEW u \in unmatching, AbortUnmatch(u) PROVE Types'
  BY <1>3 DEF AbortUnmatch, Types, JobsFit, LedgerFits, UnmatchingFits, HandsFit, ledger
<1> QED BY <1>1, <1>2, <1>3

\* Every step keeps the types.
LEMMA TypesStep == Types /\ [Next]_vars => Types'
<1> SUFFICES ASSUME Types, [Next]_vars PROVE Types'
  OBVIOUS
<1>1. ASSUME NEW w \in Workers, Work(w) \/ Crash(w) PROVE Types'
  BY <1>1, ClaimFits, QueueFits, HandlerFits DEF Work
<1>2. ASSUME NEW s \in Sources, NEW k \in Kinds, LeaseLapses(s, k) PROVE Types'
  BY <1>2, LapseFits
<1>3. CASE UNCHANGED vars
  BY <1>3 DEF vars, ledger, Types, JobsFit, LedgerFits, UnmatchingFits, HandsFit
<1>4. CASE System
  BY <1>1, <1>2, <1>4, SourceRequestFits, UnmatchFits DEF System
<1>5. CASE Request
  BY <1>5, SourceRequestFits, LedgerRequestFits, UnmatchFits DEF Request
<1> QED BY <1>3, <1>4, <1>5 DEF Next

\* They hold before anything is ingested.
LEMMA TypesInit == Init => Types
BY JobRecords DEF Init, Types, Status, JobsFit, LedgerFits, UnmatchingFits, HandsFit

\* Every variable has its type, and a job is never tried more than MaxAttempts times.
THEOREM LifecycleTypes == Spec => []TypeOK
<1>1. Types => TypeOK
  BY DEF Types, TypeOK, JobsFit, LedgerFits, UnmatchingFits, HandsFit
<1>2. Spec => []Types
  BY TypesInit, TypesStep, PTL DEF Spec
<1> QED BY <1>1, <1>2, PTL

----------------------------------------------------------------------------
\* What an unmatch request has locked is still there when it commits, is locked
\* by no other, and is the last evidence if it was when the request looked.
UnmatchesHold ==
    /\ \A u \in unmatching :
         /\ u.link \in links
         /\ u.last => Evidence(u.link[1]) = {u.link[2]}
    /\ \A u, v \in unmatching : u.link = v.link => u = v

\* The evidence of sources stands in the places the user is not asked about.
LinksFit == QueueHasNoLinks /\ TwoLinksAreATransfer /\ UnmatchesHold

\* An unmatch request is about a link.
LEMMA UnmatchIsALink ==
    ASSUME Types, NEW u \in unmatching
    PROVE  /\ u.link[1] \in Sources /\ u.link[2] \in Tx
           /\ u.link = <<u.link[1], u.link[2]>>
BY DEF Types, UnmatchingFits

\* Steps that leave the evidence and the requests about it alone, and bring no
\* source back to the queues or away from the user.
LEMMA LinksStay ==
    ASSUME Types, LinksFit, UNCHANGED <<links, unmatching>>, transfers \subseteq transfers',
           \A s \in Sources : Linked(s) => status'[s] = status[s]
                                           \/ status'[s] \in {"pending", "parsed", "failed"}
    PROVE  LinksFit'
<1>1. QueueHasNoLinks'
  BY DEF LinksFit, QueueHasNoLinks, InQueue, Exists, Linked, Evidence
<1>2. TwoLinksAreATransfer'
  BY DEF LinksFit, TwoLinksAreATransfer, Evidence
<1>3. UnmatchesHold'
  BY DEF LinksFit, UnmatchesHold, Evidence
<1> QED BY <1>1, <1>2, <1>3 DEF LinksFit

\* One source without evidence becomes evidence of one transaction.
LEMMA LinkIsAdded ==
    ASSUME Types, LinksFit, NEW s \in Sources, NEW t \in Tx, ~Linked(s),
           links' = links \cup {<<s, t>>}, UNCHANGED <<unmatching, transfers>>,
           status'[s] = "parsed",
           \A r \in Sources \ {s} : status'[r] = status[r]
    PROVE  LinksFit'
<1>1. Evidence(s)' = {t} /\ \A r \in Sources \ {s} : Evidence(r)' = Evidence(r)
  BY DEF Linked, Evidence
<1>2. QueueHasNoLinks'
  BY <1>1 DEF LinksFit, QueueHasNoLinks, InQueue, Exists, Linked
<1>3. TwoLinksAreATransfer'
  <2> SUFFICES ASSUME NEW r \in Sources, NEW u \in Evidence(r)', NEW v \in Evidence(r)'
               PROVE  u = v \/ <<u, v>> \in transfers \/ <<v, u>> \in transfers
    BY DEF TwoLinksAreATransfer
  <2>1. CASE r = s
    BY <2>1, <1>1
  <2>2. CASE r # s
    BY <2>2, <1>1 DEF LinksFit, TwoLinksAreATransfer
  <2> QED BY <2>1, <2>2
<1>4. UnmatchesHold'
  <2>1. ASSUME NEW u \in unmatching PROVE u.link[1] \in Sources \ {s}
    BY UnmatchIsALink DEF LinksFit, UnmatchesHold, Linked, Evidence
  <2> QED BY <1>1, <2>1 DEF LinksFit, UnmatchesHold
<1> QED BY <1>2, <1>3, <1>4 DEF LinksFit

\* The decision of a worker is carried out on a source that is no evidence yet.
LEMMA PersistKeepsLinks ==
    ASSUME Types, LinksFit, NEW w \in Workers, PersistReconciliation(w)
    PROVE  LinksFit'
<1> DEFINE s == at[w].source
<1>1. s \in Sources /\ Redecided(w) \subseteq Decision
  BY HandlerHolds, DecisionsFit DEF PersistReconciliation, Types, HandsFit, Redecided
<1>2. CASE UNCHANGED <<status, ledger>>
  BY <1>2, LinksStay DEF PersistReconciliation, ledger
<1>3. ASSUME StillWanted(s), NEW d \in Decision, Apply(s, d) PROVE LinksFit'
  <2>1. status[s] = "parsed" /\ ~Linked(s) /\ UNCHANGED unmatching
    BY <1>3 DEF StillWanted, PersistReconciliation
  <2>2. CASE d.outcome \in {"attach", "create"}
    <3>1. PICK t \in Tx : links' = links \cup {<<s, t>>} /\ UNCHANGED <<status, transfers>>
      BY <1>3, <2>2 DEF Apply, Live, Free
    <3> QED BY <1>1, <2>1, <3>1, LinkIsAdded
  <2>3. CASE d.outcome \notin {"attach", "create"}
    <3>1. d \in {Review, Dangling}
      BY <2>3 DEF Decision, Attach, Create
    <3>2. d.outcome \in {"review", "dangling"}
      BY <3>1 DEF Review, Dangling
    <3>3. UNCHANGED ledger /\ \E new : status' = [status EXCEPT ![s] = new]
      BY <1>3, <3>2 DEF Apply
    <3>4. \A r \in Sources : Linked(r) => status'[r] = status[r]
      BY <2>1, <3>3 DEF Types
    <3> QED BY <2>1, <3>3, <3>4, LinksStay DEF ledger
  <2> QED BY <2>2, <2>3
<1> QED BY <1>1, <1>2, <1>3 DEF PersistReconciliation

\* A worker moves statuses to parsed and failed, from wherever.
LEMMA WorkKeepsLinks ==
    ASSUME Types, LinksFit, NEW w \in Workers, Work(w) \/ Crash(w)
    PROVE  LinksFit'
<1>1. CASE PersistReconciliation(w)
  BY <1>1, PersistKeepsLinks
<1>2. CASE ~PersistReconciliation(w)
  <2>1. UNCHANGED <<links, unmatching, transfers>>
    BY <1>2 DEF Work, Crash, Claim, ClaimNothing, SaveParsedSource, RecordParseError,
                LoadReconciliationInput, Errs, CompleteJob, RetryJob, ledger
  <2>2. status' \in [Sources -> Status]
        /\ \A s \in Sources : status'[s] \in {status[s], "parsed", "failed"}
    BY <1>2, ReapingFits
       DEF Work, Crash, Claim, ClaimNothing, SaveParsedSource, RecordParseError,
           LoadReconciliationInput, Errs, CompleteJob, RetryJob, Types, Status
  <2> QED BY <2>1, <2>2, LinksStay
<1> QED BY <1>1, <1>2

\* A deletion waits for the requests about its source, and spares transactions
\* with other evidence.
LEMMA DeletionSpares ==
    ASSUME Types, NEW s \in Sources, DeleteSource(s)
    PROVE  /\ Evidence(s)' = {}
           /\ \A r \in Sources \ {s} : Evidence(r)' = Evidence(r)
           /\ \A l \in links : l[1] # s => l \in links'
<1>1. links' = {l \in links : l[1] # s /\ l[2] \notin Removable(s)}
  BY DEF DeleteSource
<1>2. \A r \in Sources \ {s}, t \in Tx : <<r, t>> \in links => t \notin Removable(s)
  BY DEF Removable
<1> QED BY <1>1, <1>2 DEF Evidence, Types, LedgerFits

\* So a deletion leaves the evidence of the others, and their requests, in order.
LEMMA DeletionKeepsLinks ==
    ASSUME Types, LinksFit, NEW s \in Sources, DeleteSource(s)
    PROVE  LinksFit'
<1>1. /\ UNCHANGED <<unmatching, transfers>>
      /\ \A r \in Sources \ {s} : status'[r] = status[r]
      /\ \A u \in unmatching : u.link[1] # s
  BY DEF DeleteSource, InFlight, Types
<1>2. QueueHasNoLinks' /\ TwoLinksAreATransfer'
  BY <1>1, DeletionSpares
     DEF LinksFit, QueueHasNoLinks, TwoLinksAreATransfer, InQueue, Exists, Linked
<1>3. UnmatchesHold'
  BY <1>1, DeletionSpares, UnmatchIsALink DEF LinksFit, UnmatchesHold
<1> QED BY <1>2, <1>3 DEF LinksFit

\* Both legs of a transfer are the evidence of sources that had none.
LEMMA TransferKeepsLinks ==
    ASSUME Types, LinksFit, NEW d \in Tx, NEW c \in Tx,
           NEW forDebit \in SUBSET Sources, NEW forCredit \in SUBSET Sources,
           CreateInternalTransfer(d, c, forDebit, forCredit)
    PROVE  LinksFit'
<1> DEFINE Given == forDebit \cup forCredit
<1>1. /\ \A s \in Given : ~Linked(s) /\ Evidence(s)' \subseteq {d, c} /\ status'[s] = "parsed"
      /\ \A s \in Sources \ Given : Evidence(s)' = Evidence(s) /\ status'[s] = status[s]
      /\ transfers' = transfers \cup {<<d, c>>} /\ UNCHANGED unmatching
      /\ links \subseteq links'
  BY DEF CreateInternalTransfer, Linked, Evidence
<1>2. QueueHasNoLinks'
  BY <1>1 DEF LinksFit, QueueHasNoLinks, InQueue, Exists, Linked
<1>3. TwoLinksAreATransfer'
  <2> SUFFICES ASSUME NEW r \in Sources, NEW u \in Evidence(r)', NEW v \in Evidence(r)'
               PROVE  u = v \/ <<u, v>> \in transfers' \/ <<v, u>> \in transfers'
    BY DEF TwoLinksAreATransfer
  <2>1. CASE r \in Given
    BY <2>1, <1>1
  <2>2. CASE r \notin Given
    BY <2>2, <1>1 DEF LinksFit, TwoLinksAreATransfer
  <2> QED BY <2>1, <2>2
<1>4. UnmatchesHold'
  <2>1. ASSUME NEW u \in unmatching PROVE u.link[1] \in Sources \ Given
    BY <1>1, UnmatchIsALink DEF LinksFit, UnmatchesHold, Linked, Evidence
  <2> QED BY <1>1, <2>1 DEF LinksFit, UnmatchesHold
<1> QED BY <1>2, <1>3, <1>4 DEF LinksFit

\* A request locks one link more, and looks at the others.
LEMMA BeginKeepsLinks ==
    ASSUME Types, LinksFit, NEW s \in Sources, NEW t \in Tx, BeginUnmatch(s, t)
    PROVE  LinksFit'
<1>1. PICK u : u = [link |-> <<s, t>>, last |-> LastEvidence(s, t)]
  OBVIOUS
<1>2. /\ unmatching' = unmatching \cup {u} /\ u.link = <<s, t>>
      /\ u.last => Evidence(s) = {t}
  BY <1>1 DEF BeginUnmatch, LastEvidence
<1>3. /\ UNCHANGED <<status, links, transfers>> /\ <<s, t>> \in links
      /\ \A v \in unmatching : v.link # <<s, t>>
  BY DEF BeginUnmatch, InFlight, ledger
<1>4. QueueHasNoLinks' /\ TwoLinksAreATransfer' /\ \A r \in Sources : Evidence(r)' = Evidence(r)
  BY <1>3 DEF LinksFit, QueueHasNoLinks, TwoLinksAreATransfer, InQueue, Exists, Linked, Evidence
<1>5. UnmatchesHold'
  BY <1>2, <1>3, <1>4, UnmatchIsALink DEF LinksFit, UnmatchesHold
<1> QED BY <1>4, <1>5 DEF LinksFit

\* A request that found no other evidence still has none beside its link when it
\* commits: nothing is attached to a source that is evidence, and whoever
\* removes the others found this one.
LEMMA CommitKeepsLinks ==
    ASSUME Types, LinksFit, NEW u \in unmatching, CommitUnmatch(u)
    PROVE  LinksFit'
<1> DEFINE s == u.link[1]
           t == u.link[2]
<1>1. s \in Sources /\ t \in Tx /\ u.link = <<s, t>> /\ <<s, t>> \in links
      /\ (u.last => Evidence(s) = {t})
  BY UnmatchIsALink DEF LinksFit, UnmatchesHold
<1>2. /\ unmatching' = unmatching \ {u} /\ links' = links \ {<<s, t>>}
      /\ UNCHANGED transfers
      /\ status' = IF u.last THEN [status EXCEPT ![s] = "dangling"] ELSE status
  BY <1>1 DEF CommitUnmatch
<1>3. /\ Evidence(s)' = Evidence(s) \ {t}
      /\ \A r \in Sources \ {s} : Evidence(r)' = Evidence(r)
  BY <1>1, <1>2 DEF Evidence
<1>4. QueueHasNoLinks'
  <2>1. CASE u.last
    BY <2>1, <1>1, <1>2, <1>3 DEF LinksFit, QueueHasNoLinks, InQueue, Exists, Linked, Types
  <2>2. CASE ~u.last
    BY <2>2, <1>2, <1>3 DEF LinksFit, QueueHasNoLinks, InQueue, Exists, Linked
  <2> QED BY <2>1, <2>2
<1>5. TwoLinksAreATransfer'
  BY <1>2, <1>3 DEF LinksFit, TwoLinksAreATransfer
<1>6. UnmatchesHold'
  <2>1. ASSUME NEW v \in unmatching \ {u}
        PROVE  /\ v.link \in links'
               /\ v.last => Evidence(v.link[1])' = {v.link[2]}
    <3>1. v.link # u.link /\ v.link \in links
          /\ (v.last => Evidence(v.link[1]) = {v.link[2]})
      BY <2>1 DEF LinksFit, UnmatchesHold
    <3>2. v.link[1] \in Sources /\ v.link[2] \in Tx /\ v.link = <<v.link[1], v.link[2]>>
      BY <2>1, UnmatchIsALink
    <3>3. ASSUME v.last, v.link[1] = s PROVE FALSE
      BY <3>1, <3>2, <3>3, <1>1 DEF Evidence
    <3> QED BY <3>1, <3>2, <3>3, <1>1, <1>2, <1>3
  <2> QED BY <2>1, <1>2 DEF LinksFit, UnmatchesHold
<1> QED BY <1>4, <1>5, <1>6 DEF LinksFit

\* Every step keeps the evidence in order.
LEMMA LinksStep == Types /\ LinksFit /\ [Next]_vars => LinksFit'
<1> SUFFICES ASSUME Types, LinksFit, [Next]_vars PROVE LinksFit'
  OBVIOUS
<1>1. ASSUME NEW s \in Sources, NEW k \in Kinds, LeaseLapses(s, k) PROVE LinksFit'
  BY <1>1, LinksStay DEF LeaseLapses, ledger
<1>2. ASSUME NEW s \in Sources, Ingest(s) \/ RetrySourceParse(s) PROVE LinksFit'
  <2>1. /\ UNCHANGED <<links, unmatching, transfers>>
        /\ \A r \in Sources : status'[r] \in {status[r], "pending"}
    BY <1>2 DEF Ingest, RetrySourceParse, ledger, Types
  <2> QED BY <2>1, LinksStay
<1>3. ASSUME NEW s \in Sources, NEW t \in Tx,
             AttachSource(s, t) \/ CreateTransactionFromSource(s, t)
      PROVE  LinksFit'
  <2>1. /\ ~Linked(s) /\ links' = links \cup {<<s, t>>} /\ UNCHANGED <<unmatching, transfers>>
        /\ status' = [status EXCEPT ![s] = "parsed"]
    BY <1>3 DEF AttachSource, CreateTransactionFromSource
  <2> QED BY <2>1, LinkIsAdded DEF Types
<1>4. ASSUME NEW u \in unmatching, AbortUnmatch(u) PROVE LinksFit'
  BY <1>4 DEF AbortUnmatch, ledger, LinksFit, QueueHasNoLinks, TwoLinksAreATransfer,
              UnmatchesHold, InQueue, Exists, Linked, Evidence
<1>5. ASSUME NEW t \in Tx, PatchTransaction(t) PROVE LinksFit'
  BY <1>5, LinksStay DEF PatchTransaction
<1>6. CASE UNCHANGED vars
  BY <1>6, LinksStay DEF vars, ledger
<1>7. CASE System
  BY <1>1, <1>2, <1>4, <1>7, WorkKeepsLinks, CommitKeepsLinks DEF System
<1>8. CASE Request
  BY <1>2, <1>3, <1>5, <1>8, DeletionKeepsLinks, BeginKeepsLinks, TransferKeepsLinks
     DEF Request
<1> QED BY <1>6, <1>7, <1>8 DEF Next

\* It is while there is none.
LEMMA LinksInit == Init => LinksFit
BY DEF Init, LinksFit, QueueHasNoLinks, TwoLinksAreATransfer, UnmatchesHold, Linked, Evidence

\* So it is throughout.
LEMMA LinksHold == Spec => [](Types /\ LinksFit)
BY TypesInit, TypesStep, LinksInit, LinksStep, PTL DEF Spec

\* However workers, requests and deletions overlap, a source the user is asked
\* about is evidence of nothing.
THEOREM QueuedIsNoEvidence == Spec => []QueueHasNoLinks
<1>1. LinksFit => QueueHasNoLinks
  BY DEF LinksFit
<1> QED BY <1>1, LinksHold, PTL

\* A source is evidence of one transaction or of both legs of one transfer.
THEOREM EvidenceIsOfOnePurchase == Spec => []TwoLinksAreATransfer
<1>1. LinksFit => TwoLinksAreATransfer
  BY DEF LinksFit
<1> QED BY <1>1, LinksHold, PTL

----------------------------------------------------------------------------
\* A transaction that reconciliation has created for a purchase and nobody has
\* edited away from it.
Automatic(row) == row.method = "automatic_source" /\ row.event # None

\* Steps after which every automatic transaction is one that was there before.
LEMMA NoneIsAdded ==
    ASSUME OneAutomaticTransactionPerEvent,
           \A t \in Live' : Automatic(tx'[t]) =>
               t \in Live /\ Automatic(tx[t]) /\ tx'[t].event = tx[t].event
    PROVE  OneAutomaticTransactionPerEvent'
<1>1. ASSUME NEW t \in Live', NEW u \in Live', tx'[t].event = tx'[u].event,
             tx'[t].event # None, {tx'[t].method, tx'[u].method} = {"automatic_source"}
      PROVE  t = u
  <2>1. Automatic(tx'[t]) /\ Automatic(tx'[u])
    BY <1>1 DEF Automatic
  <2>2. /\ t \in Live /\ Automatic(tx[t]) /\ tx'[t].event = tx[t].event
        /\ u \in Live /\ Automatic(tx[u]) /\ tx'[u].event = tx[u].event
    BY <1>1, <2>1
  <2> QED BY <1>1, <2>2 DEF OneAutomaticTransactionPerEvent, Automatic
<1> QED BY <1>1 DEF OneAutomaticTransactionPerEvent

\* A create is carried out only if nothing matches at that moment.
LEMMA CreatesForNone ==
    ASSUME NEW w, Create \in Redecided(w)
    PROVE  Matches(at[w].source) = {}
<1>1. Create \in Decisions(at[w].source)
  BY DEF Redecided
<1>2. Matches(at[w].source) \subseteq Tx
  BY DEF Matches, Live
<1>3. CASE Matches(at[w].source) # {}
  <2>1. PICK t \in Tx : Create \in {Review, Dangling, Attach(t)}
    BY <1>1, <1>2, <1>3, Zenon DEF Decisions
  <2> QED BY <2>1, Outcomes
<1> QED BY <1>3

\* What a worker creates is the only transaction of its purchase.
LEMMA PersistCreatesOne ==
    ASSUME Types, OneAutomaticTransactionPerEvent, NEW w \in Workers, PersistReconciliation(w)
    PROVE  OneAutomaticTransactionPerEvent'
<1> DEFINE s == at[w].source
<1>1. s \in Sources /\ Redecided(w) \subseteq Decision
  BY HandlerHolds, DecisionsFit DEF PersistReconciliation, Types, HandsFit, Redecided
<1>2. CASE UNCHANGED tx
  BY <1>2, NoneIsAdded DEF Live
<1>3. CASE tx' # tx
  <2>1. PICK d \in Redecided(w) : Apply(s, d)
    BY <1>3 DEF PersistReconciliation, ledger
  <2>2. d = Create
    <3>1. d.outcome = "create"
      <4>1. d \in Decision
        BY <1>1, <2>1
      <4>2. d.outcome \in {"attach", "create", "review", "dangling"}
        BY <4>1, Outcomes DEF Decision
      <4> QED BY <1>3, <2>1, <4>2 DEF Apply, ledger
    <3> QED BY <1>1, <2>1, <3>1, Outcomes DEF Decision
  <2>3. PICK t \in Free : tx' = [tx EXCEPT ![t] = Inserted("automatic_source", Event[s])]
    BY <2>1, <2>2 DEF Apply, Create
  <2>4. \A u \in Live : tx[u].event # Event[s]
    BY <2>2, CreatesForNone DEF Matches
  <2>5. Inserted("automatic_source", Event[s]).event = Event[s]
    BY DEF Inserted
  <2>6. tx \in [Tx -> Transaction \cup {None, Gone}]
    BY DEF Types, LedgerFits
  <2>7. /\ tx'[t].event = Event[s]
        /\ \A u \in Tx \ {t} : tx'[u] = tx[u]
        /\ Live' \subseteq Live \cup {t}
    BY <2>3, <2>5, <2>6 DEF Free, Live
  <2> QED BY <2>4, <2>7 DEF OneAutomaticTransactionPerEvent, Live
<1> QED BY <1>2, <1>3

\* What users create is not automatic, and what they edit is of the same
\* purchase or of none.
LEMMA RequestCreatesNone ==
    ASSUME Types, OneAutomaticTransactionPerEvent, Request
    PROVE  OneAutomaticTransactionPerEvent'
<1>1. tx \in [Tx -> Transaction \cup {None, Gone}]
  BY DEF Types, LedgerFits
<1>2. ASSUME NEW s \in Sources, NEW t \in Tx, CreateTransactionFromSource(s, t)
      PROVE  OneAutomaticTransactionPerEvent'
  <2>1. Inserted("user_source", Event[s]).method = "user_source"
    BY DEF Inserted
  <2>2. tx'[t].method = "user_source" /\ \A u \in Tx \ {t} : tx'[u] = tx[u]
    BY <1>1, <1>2, <2>1 DEF CreateTransactionFromSource
  <2> QED BY <2>2, NoneIsAdded DEF Live, Automatic
<1>3. ASSUME NEW d \in Tx, NEW c \in Tx, NEW forDebit \in SUBSET Sources,
             NEW forCredit \in SUBSET Sources,
             CreateInternalTransfer(d, c, forDebit, forCredit)
      PROVE  OneAutomaticTransactionPerEvent'
  <2>1. Inserted("internal_transfer", None).method = "internal_transfer"
    BY DEF Inserted
  <2>2. \A u \in Tx : tx'[u] = tx[u] \/ tx'[u].method = "internal_transfer"
    BY <1>3, <2>1 DEF CreateInternalTransfer
  <2> QED BY <2>2, NoneIsAdded DEF Live, Automatic
<1>4. ASSUME NEW t \in Tx, PatchTransaction(t) PROVE OneAutomaticTransactionPerEvent'
  <2>1. PICK event \in {tx[t].event, None} :
          tx' = [tx EXCEPT ![t].event = event, ![t].edited = TRUE]
    BY <1>4 DEF PatchTransaction
  <2>2. t \in Live /\ tx[t] \in Transaction
    BY <1>1, <1>4 DEF PatchTransaction, Live
  <2> DEFINE new == [tx[t] EXCEPT !.event = event, !.edited = TRUE]
  <2>3. new.event = event /\ new.method = tx[t].method
    BY <2>2 DEF Transaction
  <2>4. tx' = [tx EXCEPT ![t] = new]
    BY <2>1, Zenon
  <2> HIDE DEF new
  <2>5. tx'[t] = new /\ \A u \in Tx \ {t} : tx'[u] = tx[u]
    BY <1>1, <2>4
  <2> QED BY <2>1, <2>2, <2>3, <2>5, NoneIsAdded DEF Live, Automatic
<1>5. ASSUME NEW s \in Sources, DeleteSource(s) PROVE OneAutomaticTransactionPerEvent'
  <2>1. \A u \in Tx : tx'[u] = tx[u] \/ tx'[u] = Gone
    BY <1>5 DEF DeleteSource
  <2> QED BY <2>1, NoneIsAdded DEF Live
<1>6. CASE UNCHANGED tx
  BY <1>6, NoneIsAdded DEF Live
<1> QED BY <1>2, <1>3, <1>4, <1>5, <1>6
        DEF Request, RetrySourceParse, AttachSource, BeginUnmatch, ledger

\* Every step keeps one automatic transaction per purchase.
LEMMA AutomaticStep ==
    Types /\ OneAutomaticTransactionPerEvent /\ [Next]_vars => OneAutomaticTransactionPerEvent'
<1> SUFFICES ASSUME Types, OneAutomaticTransactionPerEvent, [Next]_vars
             PROVE  OneAutomaticTransactionPerEvent'
  OBVIOUS
<1>1. CASE UNCHANGED tx
  BY <1>1, NoneIsAdded DEF Live
<1>2. CASE System
  <2>1. ASSUME NEW w \in Workers, Work(w) \/ Crash(w), ~PersistReconciliation(w)
        PROVE  UNCHANGED tx
    BY <2>1 DEF Work, Crash, Claim, ClaimNothing, SaveParsedSource, RecordParseError,
                LoadReconciliationInput, Errs, CompleteJob, RetryJob, ledger
  <2>2. (\E s \in Sources, k \in Kinds : LeaseLapses(s, k)) \/ (\E s \in Sources : Ingest(s))
        \/ (\E u \in unmatching : CommitUnmatch(u) \/ AbortUnmatch(u)) => UNCHANGED tx
    BY DEF LeaseLapses, Ingest, CommitUnmatch, AbortUnmatch, ledger
  <2> QED BY <1>1, <1>2, <2>1, <2>2, PersistCreatesOne DEF System
<1> QED BY <1>1, <1>2, RequestCreatesNone DEF Next, vars, ledger

\* Whatever two workers have decided, one purchase is one automatic transaction:
\* a create is decided again where it is carried out.
THEOREM OneTransactionPerPurchase == Spec => []OneAutomaticTransactionPerEvent
<1>1. Init => OneAutomaticTransactionPerEvent
  BY DEF Init, OneAutomaticTransactionPerEvent, Live
<1>2. Spec => []OneAutomaticTransactionPerEvent
  BY <1>1, TypesInit, TypesStep, AutomaticStep, PTL DEF Spec
<1> QED BY <1>2

----------------------------------------------------------------------------
\* No worker takes a source out of the queues into reconciliation: it is parsed
\* again only with the transaction its user chose.
THEOREM QueuesAreTheUsers == Spec => QueuedStaysWithTheUser
<1> DEFINE Left == \A s \in Sources :
                      InQueue(s) /\ status'[s] = "parsed" => Evidence(s)' # {}
<1>1. ASSUME Types, \A s \in Sources : status'[s] = "parsed" => status[s] = "parsed"
      PROVE  Left
  BY <1>1 DEF InQueue
<1>2. ASSUME Types, NEW w \in Workers, Work(w) \/ Crash(w) PROVE Left
  <2>1. CASE SaveParsedSource(w)
    BY <1>2, <2>1 DEF SaveParsedSource, Decided, InQueue, Types
  <2>2. CASE PersistReconciliation(w)
    <3> DEFINE s == at[w].source
    <3>1. CASE UNCHANGED status
      BY <3>1, <1>1, <1>2
    <3>2. CASE status' # status
      <4>1. PICK d \in Redecided(w) : Apply(s, d)
        BY <2>2, <3>2 DEF PersistReconciliation
      <4>2. \E new \in {"review_required", "dangling"} : status' = [status EXCEPT ![s] = new]
        <5>1. d \in Decision
          BY <1>2, <2>2, <4>1, DecisionsFit
             DEF PersistReconciliation, Types, HandsFit, Redecided
        <5>2. d.outcome \in {"attach", "create", "review", "dangling"}
          BY <5>1, Outcomes DEF Decision
        <5> QED BY <3>2, <4>1, <5>2 DEF Apply
      <4>3. \A r \in Sources : status'[r] = "parsed" => status[r] = "parsed"
        BY <1>2, <4>2 DEF Types
      <4> QED BY <4>3, <1>1, <1>2
    <3> QED BY <3>1, <3>2
  <2>3. CASE ~SaveParsedSource(w) /\ ~PersistReconciliation(w)
    <3>1. \A s \in Sources : status'[s] \in {status[s], "failed"}
      BY <1>2, <2>3, ReapingFits
         DEF Work, Crash, Claim, ClaimNothing, RecordParseError, LoadReconciliationInput,
             Errs, CompleteJob, RetryJob, Types
    <3> QED BY <3>1, <1>1, <1>2
  <2> QED BY <2>1, <2>2, <2>3
<1>3. ASSUME Types, Request PROVE Left
  <2>1. ASSUME NEW s \in Sources, RetrySourceParse(s) \/ DeleteSource(s) PROVE Left
    BY <1>1, <1>3, <2>1 DEF RetrySourceParse, DeleteSource, Types
  <2>2. ASSUME NEW s \in Sources, NEW t \in Tx,
               AttachSource(s, t) \/ CreateTransactionFromSource(s, t)
        PROVE  Left
    BY <1>3, <2>2
       DEF AttachSource, CreateTransactionFromSource, Types, InQueue, Evidence
  <2>3. ASSUME NEW d \in Tx, NEW c \in Tx, NEW forDebit \in SUBSET Sources,
               NEW forCredit \in SUBSET Sources,
               CreateInternalTransfer(d, c, forDebit, forCredit)
        PROVE  Left
    BY <1>3, <2>3 DEF CreateInternalTransfer, InQueue, Evidence
  <2>4. CASE UNCHANGED status
    BY <1>1, <1>3, <2>4
  <2> QED BY <1>3, <2>1, <2>2, <2>3, <2>4 DEF Request, BeginUnmatch, PatchTransaction
<1>4. ASSUME Types, System PROVE Left
  <2>1. ASSUME NEW s \in Sources, Ingest(s) PROVE Left
    BY <1>1, <1>4, <2>1 DEF Ingest, Types
  <2>2. ASSUME NEW u \in unmatching, CommitUnmatch(u) PROVE Left
    BY <1>1, <1>4, <2>2 DEF CommitUnmatch, Types
  <2>3. CASE UNCHANGED status
    BY <1>1, <1>4, <2>3
  <2> QED BY <1>2, <1>4, <2>1, <2>2, <2>3 DEF System, LeaseLapses, AbortUnmatch
<1>5. Types /\ [Next]_vars => Left
  <2>1. Types /\ UNCHANGED vars => Left
    BY <1>1 DEF vars
  <2> HIDE DEF Left
  <2> QED BY <1>3, <1>4, <2>1 DEF Next
<1>6. Types /\ [Next]_vars =>
        [\A s \in Sources : InQueue(s) /\ status'[s] = "parsed" => Evidence(s)' # {}]_vars
  BY <1>5
<1> QED BY <1>6, LinksHold, PTL DEF Spec, QueuedStaysWithTheUser

\* Deleting a source takes no evidence from another: what a deletion removes with
\* it is supported by nothing else at that moment.
THEOREM DeletionsTakeNoEvidence == Spec => DeletionSparesOtherEvidence
<1> DEFINE Spared == \A s, r \in Sources :
                        status[s] # "deleted" /\ status'[s] = "deleted" /\ r # s
                            => Evidence(r)' = Evidence(r)
<1>1. ASSUME Types, NEW s \in Sources, DeleteSource(s) PROVE Spared
  <2>1. \A q \in Sources : status[q] # "deleted" /\ status'[q] = "deleted" => q = s
    BY <1>1 DEF DeleteSource, Types
  <2> QED BY <1>1, <2>1, DeletionSpares
<1>2. ASSUME Types, [Next]_vars, \A s \in Sources : ~DeleteSource(s)
      PROVE  \A s \in Sources : status'[s] = "deleted" => status[s] = "deleted"
  <2>1. ASSUME NEW w \in Workers, Work(w) \/ Crash(w)
        PROVE  \A s \in Sources : status'[s] = "deleted" => status[s] = "deleted"
    <3>1. CASE PersistReconciliation(w)
      <4>1. PICK d : UNCHANGED status \/ (Apply(at[w].source, d) /\ d \in Decision)
        BY <1>2, <3>1, DecisionsFit
           DEF PersistReconciliation, Types, HandsFit, Redecided
      <4>2. d \in Decision => d.outcome \in {"attach", "create", "review", "dangling"}
        BY Outcomes DEF Decision
      <4>3. \E new \in {"review_required", "dangling"} :
              UNCHANGED status \/ status' = [status EXCEPT ![at[w].source] = new]
        BY <4>1, <4>2 DEF Apply
      <4> QED BY <1>2, <4>3 DEF Types
    <3>2. CASE ~PersistReconciliation(w)
      BY <1>2, <2>1, <3>2, ReapingFits
         DEF Work, Crash, Claim, ClaimNothing, SaveParsedSource, RecordParseError,
             LoadReconciliationInput, Errs, CompleteJob, RetryJob, Types
    <3> QED BY <3>1, <3>2
  <2>2. CASE System
    BY <1>2, <2>1, <2>2 DEF System, LeaseLapses, Ingest, CommitUnmatch, AbortUnmatch, Types
  <2>3. CASE Request
    BY <1>2, <2>3 DEF Request, RetrySourceParse, AttachSource, CreateTransactionFromSource,
                      BeginUnmatch, PatchTransaction, CreateInternalTransfer, Types
  <2>4. CASE UNCHANGED vars
    BY <2>4 DEF vars
  <2> QED BY <1>2, <2>2, <2>3, <2>4 DEF Next
<1>3. Types /\ [Next]_vars => Spared
  BY <1>1, <1>2
<1>4. Types /\ [Next]_vars =>
        [\A s, r \in Sources : status[s] # "deleted" /\ status'[s] = "deleted" /\ r # s
            => Evidence(r)' = Evidence(r)]_vars
  BY <1>3
<1> QED BY <1>4, LinksHold, PTL DEF Spec, DeletionSparesOtherEvidence

=============================================================================
