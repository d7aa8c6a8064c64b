-------------------------- MODULE SourceLifecycle ---------------------------
(***************************************************************************)
(* What happens to stored evidence: the parse and reconcile handlers of    *)
(* transactionworker/handler.go, the store transactions they and the API   *)
(* run on sources, evidence links and canonical transactions, and the user *)
(* actions that work on the same rows at the same time.                    *)
(*                                                                         *)
(* One action is one SQL transaction that locks its source row; a handler  *)
(* is several actions, and UnmatchSourceLink, which decides before it      *)
(* locks the source, is two.  The queue is the one of JobQueue without     *)
(* time: leases of running jobs lapse at any moment.  A source is created  *)
(* here together with its parse job; GmailIngestion shows how.             *)
(***************************************************************************)
EXTENDS Integers, FiniteSets

CONSTANTS
    Workers,        \* worker processes
    Sources,        \* messages that become private.data_sources
    Tx,             \* bound: ids of rows of public.transactions
    Event,          \* [Sources -> ...]: the purchase a source reports
    MaxAttempts,    \* max_attempts of the jobs
    None            \* null

ASSUME LifecycleAssumption ==
    /\ MaxAttempts \in Nat \ {0}
    /\ None \notin Workers \cup Sources \cup Tx
    /\ \A s \in Sources : Event[s] # None

VARIABLES
    status,     \* [Sources -> Status]: parse_status of each source
    job,        \* [Sources -> [Kinds -> Job]]: the jobs of each source
    tx,         \* [Tx -> Transaction, None or Gone]
    links,      \* active rows <<source, transaction>> of evidence
    detached,   \* rows with detached_at set, kept for audit
    transfers,  \* private.transaction_links: <<debit, credit>>
    unmatching, \* UnmatchSourceLink transactions before their commit
    at          \* [Workers -> Local]: where each worker is in its handler

ledger == <<tx, links, detached, transfers>>
vars   == <<status, job, ledger, unmatching, at>>

\* "absent": not ingested yet; "deleted": removed, with a tombstone.
Status == {"absent", "pending", "parsed", "review_required", "dangling",
           "failed", "deleted"}

Kinds == {"parse", "reconcile"}

Job == [status : {"none", "queued", "running"}, attempts : 0 .. MaxAttempts,
        owner : Workers \cup {None}, leased : BOOLEAN]

NoJob == [status |-> "none", attempts |-> 0, owner |-> None, leased |-> FALSE]

Queued == [NoJob EXCEPT !.status = "queued"]

\* event: what reconciliation can match the row with; None once the user has
\* edited it away from its sources (or typed it in).
Transaction ==
    [event : {Event[s] : s \in Sources} \cup {None},
     method : {"automatic_source", "user_source", "internal_transfer"},
     edited : BOOLEAN]

\* A deleted row: its id is not used again.
Gone == [event |-> None, method |-> "deleted", edited |-> FALSE]

Inserted(method, event) ==
    [event |-> event, method |-> method, edited |-> FALSE]

Attach(t) == [outcome |-> "attach", tx |-> t]
Create    == [outcome |-> "create", tx |-> None]
Review    == [outcome |-> "review", tx |-> None]
Dangling  == [outcome |-> "dangling", tx |-> None]

Decision == {Attach(t) : t \in Tx} \cup {Create, Review, Dangling}

Local == [pos : {"idle", "parse", "load", "persist", "finish", "retry"},
          source : Sources \cup {None}, kind : Kinds \cup {None},
          decision : Decision \cup {None}]

Idle == [pos |-> "idle", source |-> None, kind |-> None, decision |-> None]

\* On to the end of a handler, which needs its decision no more.
Goto(w, p) == at' = [at EXCEPT ![w].pos = p, ![w].decision = None]

Init ==
    /\ status = [s \in Sources |-> "absent"]
    /\ job = [s \in Sources |-> [k \in Kinds |-> NoJob]]
    /\ tx = [t \in Tx |-> None]
    /\ links = {}
    /\ detached = {}
    /\ transfers = {}
    /\ unmatching = {}
    /\ at = [w \in Workers |-> Idle]

----------------------------------------------------------------------------
(* Reading the tables.                                                     *)

Exists(s) == status[s] \notin {"absent", "deleted"}

Busy(s, k) == job[s][k].status # "none"

Evidence(s) == {t \in Tx : <<s, t>> \in links}

\* sourceHasActiveLink
Linked(s) == Evidence(s) # {}

Free == {t \in Tx : tx[t] = None}

Live == {t \in Tx : tx[t] \notin {None, Gone}}

Matches(s) == {t \in Live : tx[t].event = Event[s]}

\* What Reconcile may answer for the transactions of the moment: it creates
\* only when nothing matches and attaches only when one row does; which
\* Accounts and how much evidence there is, and with it review or dangling, is
\* left open.
Decisions(s) ==
    {Review, Dangling}
        \cup (IF Matches(s) = {} THEN {Create} ELSE {})
        \cup {Attach(t) : t \in {u \in Matches(s) : Matches(s) = {u}}}

----------------------------------------------------------------------------
(* The queue.                                                              *)

Lapsed(s, k) == job[s][k].status = "running" /\ ~job[s][k].leased

Spent(s, k) == job[s][k].attempts >= MaxAttempts

\* MUTANT: jobs that are out of attempts keep their lapsed lease.
ReapsNothing == {}

Dead == {sk \in Sources \X Kinds :
            Lapsed(sk[1], sk[2]) /\ Spent(sk[1], sk[2])}

ReapedJobs == [s \in Sources |-> [k \in Kinds |->
    IF <<s, k>> \in Dead THEN NoJob ELSE job[s][k]]]

\* markTerminalJobFailure: whatever the source has become in the meantime.
ReapedStatus == [s \in Sources |->
    IF Exists(s) /\ \E k \in Kinds : <<s, k>> \in Dead
    THEN "failed" ELSE status[s]]

LeaseLapses(s, k) ==
    /\ job[s][k].leased
    /\ job' = [job EXCEPT ![s][k].leased = FALSE]
    /\ UNCHANGED <<status, ledger, unmatching, at>>

Claimable(s, k) == \/ job[s][k].status = "queued"
                   \/ Lapsed(s, k) /\ ~Spent(s, k)

Claim(w, s, k) ==
    /\ at[w].pos = "idle"
    /\ Claimable(s, k)
    /\ job' = [ReapedJobs EXCEPT
                 ![s][k] = [status |-> "running", attempts |-> @.attempts + 1,
                            owner |-> w, leased |-> TRUE]]
    /\ status' = ReapedStatus
    /\ at' = [at EXCEPT ![w] =
                [Idle EXCEPT !.pos = IF k = "parse" THEN "parse" ELSE "load",
                             !.source = s, !.kind = k]]
    /\ UNCHANGED <<ledger, unmatching>>

ClaimNothing(w) ==
    /\ at[w].pos = "idle"
    /\ Dead # {}
    /\ \A s \in Sources, k \in Kinds : ~Claimable(s, k)
    /\ job' = ReapedJobs
    /\ status' = ReapedStatus
    /\ UNCHANGED <<ledger, unmatching, at>>

Owns(w) == LET j == job[at[w].source][at[w].kind]
           IN  j.status = "running" /\ j.owner = w /\ j.leased

CompleteJob(w) ==
    /\ at[w].pos = "finish"
    /\ job' = IF Owns(w)
              THEN [job EXCEPT ![at[w].source][at[w].kind] = NoJob] ELSE job
    /\ at' = [at EXCEPT ![w] = Idle]
    /\ UNCHANGED <<status, ledger, unmatching>>

RetryJob(w) ==
    LET s == at[w].source
        k == at[w].kind
    IN
    /\ at[w].pos = "retry"
    /\ IF ~Owns(w)
       THEN UNCHANGED <<job, status>>
       ELSE IF Spent(s, k)
       THEN /\ job' = [job EXCEPT ![s][k] = NoJob]
            /\ status' = [status EXCEPT ![s] = "failed"]
       ELSE /\ job' = [job EXCEPT ![s][k] =
                         [Queued EXCEPT !.attempts = job[s][k].attempts]]
            /\ UNCHANGED status
    /\ at' = [at EXCEPT ![w] = Idle]
    /\ UNCHANGED <<ledger, unmatching>>

Crash(w) ==
    /\ at[w].pos # "idle"
    /\ at' = [at EXCEPT ![w] = Idle]
    /\ UNCHANGED <<status, job, ledger, unmatching>>

----------------------------------------------------------------------------
(* The parse handler, after the model has answered.                        *)

InQueue(s) == status[s] \in {"review_required", "dangling"}

\* MUTANT: what the user was asked about is parsed again.
NothingIsDecided(s) == FALSE

Decided(s) == InQueue(s)

\* SaveParsedSource: the status and the reconcile job in one transaction.
SaveParsedSource(w) ==
    LET s == at[w].source IN
    /\ at[w].pos = "parse"
    /\ Exists(s)
    /\ status' = IF Decided(s) THEN status ELSE [status EXCEPT ![s] = "parsed"]
    /\ job' = IF Decided(s) \/ Busy(s, "reconcile")
              THEN job ELSE [job EXCEPT ![s]["reconcile"] = Queued]
    /\ Goto(w, "finish")
    /\ UNCHANGED <<ledger, unmatching>>

\* recordSourceParseError: after a provider or Storage failure the job is
\* retried, after an invalid answer or conflicting rules it is completed.
\* The source is failed without a look at what it has become.
RecordParseError(w) ==
    /\ at[w].pos = "parse"
    /\ Exists(at[w].source)
    /\ status' = [status EXCEPT ![at[w].source] = "failed"]
    /\ \E next \in {"finish", "retry"} : Goto(w, next)
    /\ UNCHANGED <<job, ledger, unmatching>>

----------------------------------------------------------------------------
(* The reconcile handler.                                                  *)

\* LoadReconciliationInput and Reconcile: a decision on the rows of now.  A
\* source that is not parsed (any more) is an error.
LoadReconciliationInput(w) ==
    /\ at[w].pos = "load"
    /\ IF status[at[w].source] = "parsed"
       THEN \E d \in Decisions(at[w].source) :
                at' = [at EXCEPT ![w].pos = "persist", ![w].decision = d]
       ELSE Goto(w, "retry")
    /\ UNCHANGED <<status, job, ledger, unmatching>>

\* MUTANT: a create decision is carried out as it was taken.
DecidesOnce(w) == {at[w].decision}

\* A create is decided again under the per-user lock.
Redecided(w) == IF at[w].decision = Create THEN Decisions(at[w].source)
                ELSE {at[w].decision}

\* MUTANT: the evidence found since the decision is not looked at.
WantsEveryParsed(s) == status[s] = "parsed"

\* The test of PersistReconciliation under the source's row lock.
StillWanted(s) == status[s] = "parsed" /\ ~Linked(s)

\* What one decision does to the rows.
Apply(s, d) ==
    CASE d.outcome = "attach" ->
           /\ d.tx \in Live
           /\ links' = links \cup {<<s, d.tx>>}
           /\ UNCHANGED <<status, tx, detached, transfers>>
      [] d.outcome = "create" ->
           \E t \in Free :
              /\ tx' = [tx EXCEPT ![t] = Inserted("automatic_source", Event[s])]
              /\ links' = links \cup {<<s, t>>}
              /\ UNCHANGED <<status, detached, transfers>>
      [] d.outcome = "review" ->
           /\ status' = [status EXCEPT ![s] = "review_required"]
           /\ UNCHANGED ledger
      [] d.outcome = "dangling" ->
           /\ status' = [status EXCEPT ![s] = "dangling"]
           /\ UNCHANGED ledger

PersistReconciliation(w) ==
    LET s == at[w].source IN
    /\ at[w].pos = "persist"
    /\ Exists(s)
    /\ IF StillWanted(s)
       THEN \E d \in Redecided(w) : Apply(s, d)
       ELSE UNCHANGED <<status, ledger>>
    /\ Goto(w, "finish")
    /\ UNCHANGED <<job, unmatching>>

\* Any other error: a provider, the database, a source or a selected
\* transaction that no longer exists.
Errs(w) ==
    /\ at[w].pos \in {"parse", "load", "persist"}
    /\ Goto(w, "retry")
    /\ UNCHANGED <<status, job, ledger, unmatching>>

----------------------------------------------------------------------------
(* The user and the ingestion.                                             *)

\* StoreIngestedSource and EnqueueSourceParse.
Ingest(s) ==
    /\ status[s] = "absent"
    /\ status' = [status EXCEPT ![s] = "pending"]
    /\ job' = [job EXCEPT ![s]["parse"] = Queued]
    /\ UNCHANGED <<ledger, unmatching, at>>

RetrySourceParse(s) ==
    /\ status[s] = "failed"
    /\ ~Busy(s, "parse")
    /\ status' = [status EXCEPT ![s] = "pending"]
    /\ job' = [job EXCEPT ![s]["parse"] = Queued]
    /\ UNCHANGED <<ledger, unmatching, at>>

AttachSource(s, t) ==
    /\ status[s] \in {"dangling", "review_required", "parsed"}
    /\ ~Linked(s)
    /\ t \in Live
    /\ links' = links \cup {<<s, t>>}
    /\ status' = [status EXCEPT ![s] = "parsed"]
    /\ UNCHANGED <<job, tx, detached, transfers, unmatching, at>>

\* The source keeps the candidate of its last valid parse.
CreateTransactionFromSource(s, t) ==
    /\ status[s] \in {"dangling", "review_required"}
    /\ ~Linked(s)
    /\ t \in Free
    /\ tx' = [tx EXCEPT ![t] = Inserted("user_source", Event[s])]
    /\ links' = links \cup {<<s, t>>}
    /\ status' = [status EXCEPT ![s] = "parsed"]
    /\ UNCHANGED <<job, detached, transfers, unmatching, at>>

\* Both legs are typed in; the sources given for each must be free evidence.
CreateInternalTransfer(d, c, forDebit, forCredit) ==
    /\ {d, c} \subseteq Free /\ d # c
    /\ \A s \in forDebit \cup forCredit :
        /\ status[s] \in {"parsed", "review_required", "dangling"}
        /\ ~Linked(s)
    /\ tx' = [t \in Tx |-> IF t \in {d, c}
                          THEN Inserted("internal_transfer", None) ELSE tx[t]]
    /\ transfers' = transfers \cup {<<d, c>>}
    /\ links' = links \cup (forDebit \X {d}) \cup (forCredit \X {c})
    /\ status' = [s \in Sources |->
                    IF s \in forDebit \cup forCredit THEN "parsed" ELSE status[s]]
    /\ UNCHANGED <<job, detached, unmatching, at>>

\* A change of amount, date, Account or currency takes the row away from the
\* purchase of its sources; any other edit leaves it there.
PatchTransaction(t) ==
    /\ t \in Live
    /\ \E event \in {tx[t].event, None} :
        tx' = [tx EXCEPT ![t].event = event, ![t].edited = TRUE]
    /\ UNCHANGED <<status, job, links, detached, transfers, unmatching, at>>

InFlight == {u.link : u \in unmatching}

\* MUTANT: other links are not looked for.
IgnoresOthers(s, t) == TRUE

\* hasRemainingLink, negated: no other committed active row, the rows other
\* transactions are detaching included.
LastEvidence(s, t) == Evidence(s) = {t}

\* UnmatchSourceLink holds the row lock of its link and looks for others ...
BeginUnmatch(s, t) ==
    /\ <<s, t>> \in links \ InFlight
    /\ unmatching' = unmatching \cup
                      {[link |-> <<s, t>>, last |-> LastEvidence(s, t)]}
    /\ UNCHANGED <<status, job, ledger, at>>

\* ... and commits what it found.
CommitUnmatch(u) ==
    /\ u \in unmatching
    /\ unmatching' = unmatching \ {u}
    /\ links' = links \ {u.link}
    /\ detached' = detached \cup {u.link}
    /\ status' = IF u.last THEN [status EXCEPT ![u.link[1]] = "dangling"]
                 ELSE status
    /\ UNCHANGED <<job, tx, transfers, at>>

\* The request is cancelled, or chosen to break a deadlock with a deletion.
AbortUnmatch(u) ==
    /\ u \in unmatching
    /\ unmatching' = unmatching \ {u}
    /\ UNCHANGED <<status, job, ledger, at>>

\* Every row that names the source as evidence, detached ones too.
Affected(s) == {t \in Tx : <<s, t>> \in links \cup detached}

\* MUTANT: what other sources say of the transaction does not keep it.
RemovesShared(s) ==
    {t \in Affected(s) :
        /\ tx[t].method = "automatic_source" /\ ~tx[t].edited
        /\ \A x \in transfers : t \notin {x[1], x[2]}}

Removable(s) ==
    {t \in Affected(s) :
        /\ tx[t].method = "automatic_source" /\ ~tx[t].edited
        /\ \A r \in Sources \ {s} : <<r, t>> \notin links
        /\ \A x \in transfers : t \notin {x[1], x[2]}}

\* StageSourceDeletion waits for the row locks of unmatch requests.
DeleteSource(s) ==
    /\ Exists(s)
    /\ \A l \in InFlight : l[1] # s
    /\ status' = [status EXCEPT ![s] = "deleted"]
    /\ job' = [job EXCEPT ![s] = [k \in Kinds |-> NoJob]]
    /\ tx' = [t \in Tx |-> IF t \in Removable(s) THEN Gone ELSE tx[t]]
    /\ links' = {l \in links : l[1] # s /\ l[2] \notin Removable(s)}
    /\ detached' = {l \in detached : l[1] # s /\ l[2] \notin Removable(s)}
    /\ UNCHANGED <<transfers, unmatching, at>>

----------------------------------------------------------------------------
Work(w) ==
    \/ \E s \in Sources, k \in Kinds : Claim(w, s, k)
    \/ ClaimNothing(w)
    \/ SaveParsedSource(w)
    \/ RecordParseError(w)
    \/ LoadReconciliationInput(w)
    \/ PersistReconciliation(w)
    \/ Errs(w)
    \/ CompleteJob(w)
    \/ RetryJob(w)

\* What a user may ask for at any time.
Request ==
    \/ \E s \in Sources : RetrySourceParse(s) \/ DeleteSource(s)
    \/ \E s \in Sources, t \in Tx :
          \/ AttachSource(s, t)
          \/ CreateTransactionFromSource(s, t)
          \/ BeginUnmatch(s, t)
    \/ \E t \in Tx : PatchTransaction(t)
    \/ \E d, c \in Tx, forDebit, forCredit \in SUBSET Sources :
          CreateInternalTransfer(d, c, forDebit, forCredit)

\* What happens without being asked for.
System ==
    \/ \E w \in Workers : Work(w) \/ Crash(w)
    \/ \E s \in Sources, k \in Kinds : LeaseLapses(s, k)
    \/ \E s \in Sources : Ingest(s)
    \/ \E u \in unmatching : CommitUnmatch(u) \/ AbortUnmatch(u)

Next == System \/ Request

Spec == Init /\ [][Next]_vars

\* No heartbeat renews the lease of a job nobody works on.
AbandonedLapses ==
    \E s \in Sources, k \in Kinds :
        /\ \A w \in Workers : at[w].source # s \/ at[w].kind # k
        /\ LeaseLapses(s, k)

\* A worker process polls and runs its handlers, and is restarted when it
\* crashes.  Users and their requests owe nothing.
Fairness ==
    /\ \A w \in Workers : WF_vars(Work(w))
    /\ WF_vars(AbandonedLapses)

FairSpec == Spec /\ Fairness

----------------------------------------------------------------------------
(* Properties.                                                             *)

\* Every variable has its type; a job never exceeds its attempts.
TypeOK ==
    /\ status \in [Sources -> Status]
    /\ job \in [Sources -> [Kinds -> Job]]
    /\ tx \in [Tx -> Transaction \cup {None, Gone}]
    /\ links \subseteq Sources \X Tx
    /\ detached \subseteq Sources \X Tx
    /\ transfers \subseteq Tx \X Tx
    /\ unmatching \subseteq [link : Sources \X Tx, last : BOOLEAN]
    /\ at \in [Workers -> Local]

\* A source the user is asked about (Review and Dangling queues) is evidence
\* of nothing: reconciliation, attachment, transfers, unmatching and deletion
\* of its transaction leave no link behind while it is queued, and none ends
\* in the queue while a link remains.
QueueHasNoLinks ==
    \A s \in Sources :
        InQueue(s) \/ ~Exists(s) => ~Linked(s)

\* A source is evidence of one transaction, or of both legs of one transfer,
\* whatever workers and requests handle it at once: the checks under the row
\* lock suffice, and the deferred trigger never has to refuse.
TwoLinksAreATransfer ==
    \A s \in Sources : \A t, u \in Evidence(s) :
        t = u \/ <<t, u>> \in transfers \/ <<u, t>> \in transfers

\* Two sources of one purchase never become two automatic transactions, even
\* when two workers have both decided to create one.
OneAutomaticTransactionPerEvent ==
    \A t, u \in Live :
        /\ tx[t].event = tx[u].event /\ tx[t].event # None
        /\ {tx[t].method, tx[u].method} = {"automatic_source"}
        => t = u

\* A source leaves the Review and Dangling queues for "parsed" only with the
\* transaction the user gave it: no parse result that arrives late or twice
\* takes it back into automatic reconciliation.  A parse failure that arrives
\* late does take it out of the queues: recordSourceParseError fails it
\* without a look at what it has become.
QueuedStaysWithTheUser ==
    [][\A s \in Sources :
          InQueue(s) /\ status'[s] = "parsed"
              => Evidence(s)' # {}]_vars

\* Deleting a source removes no link of another source: a transaction that
\* still has evidence stays.
DeletionSparesOtherEvidence ==
    [][\A s, r \in Sources :
          status[s] # "deleted" /\ status'[s] = "deleted" /\ r # s
              => Evidence(r)' = Evidence(r)]_vars

\* A parsed source that is evidence of nothing has a job that will decide
\* about it.
NoSourceIsForgotten ==
    \A s \in Sources :
        status[s] = "parsed" /\ ~Linked(s) => \E k \in Kinds : Busy(s, k)

\* Removing the last link of a source puts it in the Dangling queue.
UnmatchReturnsToQueue ==
    [][\A s \in Sources :
          Linked(s) /\ ~Linked(s)' /\ status'[s] # "deleted"
              => status'[s] = "dangling"]_vars

Settled(s) ==
    \/ status[s] \in {"review_required", "dangling", "failed", "deleted"}
    \/ Linked(s)

\* The source is parsed, and the reconcile job that SaveParsedSource found in
\* its way has been carried out on what the source was before: it only has to
\* be completed.
DecidedBefore(s) ==
    /\ status[s] = "parsed"
    /\ \E w \in Workers :
         /\ at[w].pos = "finish" /\ at[w].source = s /\ at[w].kind = "reconcile"
         /\ Owns(w)

\* Whatever is ingested or parsed again is settled: linked, queued for the
\* user, failed where the user can retry it, or deleted, by any number of
\* workers that crash, lose leases and deliver twice.  The one way out is a
\* reconcile job that was carried out before the source was parsed and is
\* still running (NoSourceIsForgotten).
SourceSettles ==
    \A s \in Sources : status[s] = "pending" ~> Settled(s) \/ DecidedBefore(s)

=============================================================================
