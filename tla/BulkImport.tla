----------------------------- MODULE BulkImport -----------------------------
(***************************************************************************)
(* One submitted bulk import batch, from SubmitBatch to its terminal       *)
(* status: bulkworker.Handler runs the five kinds of bulk jobs over the    *)
(* transactions of bulkstore/worker.go and transactionstore/bulk.go, the   *)
(* queue finishes the jobs and refreshes the batch (transactionstore/      *)
(* postgres.go), and the user cancels, retries, resolves and deletes.      *)
(*                                                                         *)
(* Every database transaction is an operator from database to database,    *)
(* and Commit applies it only if the check constraints of the tables hold  *)
(* of the result.  A worker takes one such transaction per step, so that   *)
(* leases run out, workers die and requests arrive between any two.        *)
(* The queue itself (deadlines, backoff, clocks) is module JobQueue; here  *)
(* a lease that ran out is a running job without an owner.                 *)
(***************************************************************************)
EXTENDS Naturals, Sequences, FiniteSets, SequencesExt

CONSTANTS
    Documents,      \* the documents of the batch
    Workers,        \* worker goroutines
    Outputs,        \* what the model may answer for a chunk: purchases
    Known,          \* purchases the ledger already holds
    Chunks,         \* chunks per document (pages / 5)
    MaxAttempts,    \* transaction_jobs.max_attempts
    MaxGenerations, \* bound: generations of a document
    Faults,         \* subset of {"crash", "stall"}
    MaxLosses,      \* bound: leases that run out under a worker
    Requests,       \* which user requests arrive
    MaxRequests,    \* bound: requests of the user
    Verdicts,       \* whether the originals pass their verification
    None            \* nothing

\* A job row without an owner has the lease of no worker.
ASSUME SizesAssumption ==
    /\ IsFiniteSet(Documents)
    /\ None \notin Workers
    /\ Chunks \in Nat \ {0}
    /\ MaxAttempts \in Nat \ {0}
    /\ MaxGenerations \in Nat \ {0}
    /\ MaxLosses \in Nat
    /\ MaxRequests \in Nat
    /\ Faults \subseteq {"crash", "stall"}
    /\ Requests \subseteq {"cancel", "retry", "resolve", "delete"}
    /\ Known \subseteq {o.what : o \in Outputs}
    /\ Verdicts \subseteq BOOLEAN

VARIABLES
    db,     \* the tables
    worker, \* where each worker is in its handler
    doomed, \* documents whose deletion has read a terminal status
    losses, \* leases that ran out under a worker
    asked   \* requests of the user

vars == <<db, worker, doomed, losses, asked>>

Active == {"queued", "preparing", "parsing", "aggregating", "reconciling"}

Finished == {"completed", "completed_with_errors", "failed", "cancelled"}

DocumentStatus == Active \cup Finished \cup {"deleted"}

BatchStatus == {"queued", "running", "cancelling", "cancelled", "completed",
                "completed_with_errors"}

ChunkStatus == {"absent", "queued", "parsing", "valid", "failed"}

CandidateStatus == {"pending", "created", "attached", "review", "duplicate",
                    "failed", "cancelled"}

Generations == 1..MaxGenerations

Kinds == {"prepare", "chunk", "aggregate", "reconcile", "post"}

\* A job without its lease: n is the chunk or the candidate it is about and
\* cut the set of chunk rows these belong to (0: the job is about neither).
Work(kind, d, g, cut, n) == [kind |-> kind, doc |-> d, gen |-> g,
                             cut |-> cut, n |-> n]

WorkOf(j) == Work(j.kind, j.doc, j.gen, j.cut, j.n)

\* The row inserted for it.
Queued(w) == [kind |-> w.kind, doc |-> w.doc, gen |-> w.gen, cut |-> w.cut,
              n |-> w.n, status |-> "queued", tries |-> 0, owner |-> None]

----------------------------------------------------------------------------
(* Parts of transactions.                                                  *)

\* MUTANT: the partial unique indexes are missing.
InsertsTwice(s, w) ==
    [s EXCEPT !.jobs = @ \cup {Queued(w)}]

\* `insert into transaction_jobs ... on conflict do nothing`, under the
\* partial unique indexes over queued and running jobs.
Insert(s, w) ==
    IF \E j \in s.jobs : WorkOf(j) = w THEN s
    ELSE [s EXCEPT !.jobs = @ \cup {Queued(w)}]

SetDoc(s, d, status) == [s EXCEPT !.doc[d].status = status]

\* The row's own generation, and the document at the generation of the work.
IsCurrent(s, w) == s.doc[w.doc].status # "deleted" /\ s.doc[w.doc].gen = w.gen

ChunksOf(s, w) == s.chunk[w.doc][w.gen]

\* delete from bulk_import_chunks cascades to the parse attempts, to the
\* candidates read from them, to the evidence of these and to the jobs.
DropChunks(s, d, g) ==
    [s EXCEPT
       !.chunk[d][g] = [i \in 1..Chunks |-> [status |-> "absent", answer |-> None]],
       !.cand = {c \in @ : ~(c.doc = d /\ c.gen = g)},
       !.link = {l \in @ : ~(l.doc = d /\ l.gen = g)},
       !.jobs = {j \in @ : ~(j.doc = d /\ j.gen = g /\ j.kind \in {"chunk", "reconcile"})}]

\* MUTANT: the batch is finished as soon as one document is.
RecomputesEarly(s) ==
    LET active == \A d \in Documents : s.doc[d].status \in Active
        failed == \E d \in Documents :
                     s.doc[d].status # "deleted" /\ s.doc[d].errors
    IN [s EXCEPT
          !.batch = [status  |-> IF @.status = "cancelling" /\ ~active THEN "cancelled"
                                 ELSE IF ~active /\ failed THEN "completed_with_errors"
                                 ELSE IF ~active THEN "completed"
                                 ELSE IF @.status = "queued" THEN "running"
                                 ELSE @.status,
                     started |-> @.started \/ @.status = "queued",
                     done    |-> ~active]]

\* recomputeBulkProgress, and the last statement of refreshBulkBatchProgress.
Recompute(s) ==
    LET active == \E d \in Documents : s.doc[d].status \in Active
        failed == \E d \in Documents :
                     s.doc[d].status # "deleted" /\ s.doc[d].errors
    IN [s EXCEPT
          !.batch = [status  |-> IF @.status = "cancelling" /\ ~active THEN "cancelled"
                                 ELSE IF ~active /\ failed THEN "completed_with_errors"
                                 ELSE IF ~active THEN "completed"
                                 ELSE IF @.status = "queued" THEN "running"
                                 ELSE @.status,
                     started |-> @.started \/ @.status = "queued",
                     done    |-> ~active]]

\* refreshBulkBatchProgress: a batch that is being cancelled drops what no
\* queued or running job is going to finish.
Refresh(s) ==
    LET stop == s.batch.status = "cancelling"
        idle(c) == ~\E j \in s.jobs :
                      WorkOf(j) = Work("reconcile", c.doc, c.gen, c.cut, c.n)
        drained(d) == /\ s.doc[d].status \in Active
                      /\ ~\E j \in s.jobs : j.doc = d
    IN Recompute(
         [s EXCEPT
            !.cand = {IF stop /\ c.status = "pending" /\ idle(c)
                      THEN [c EXCEPT !.status = "cancelled"] ELSE c : c \in @},
            !.doc = [d \in Documents |->
                       IF stop /\ drained(d)
                       THEN [@[d] EXCEPT !.status = "cancelled", !.done = TRUE]
                       ELSE @[d]]])

PendingIn(s, w) ==
    {c \in s.cand : c.doc = w.doc /\ c.gen = w.gen /\ c.status = "pending"}

\* enqueuePostProcessIfReady
PostProcessIfReady(s, w) ==
    IF PendingIn(s, w) # {} THEN s
    ELSE Insert(s, Work("post", w.doc, w.gen, 0, 0))

\* MUTANT: the chunk that finishes first queues the aggregation.
AggregatesAtOnce(s, w) == Insert(s, Work("aggregate", w.doc, w.gen, 0, 0))

\* MUTANT: a chunk that failed is waited for.
WaitsForFailed(s, w) ==
    IF \E i \in 1..Chunks : ChunksOf(s, w)[i].status # "valid" THEN s
    ELSE Insert(s, Work("aggregate", w.doc, w.gen, 0, 0))

\* enqueueAggregateWhenReady
AggregateWhenReady(s, w) ==
    IF \E i \in 1..Chunks : ChunksOf(s, w)[i].status \in {"queued", "parsing"}
    THEN s
    ELSE Insert(s, Work("aggregate", w.doc, w.gen, 0, 0))

----------------------------------------------------------------------------
(* The constraints a commit has to satisfy.                                *)

\* bulk_batches_lifecycle_check
BatchLifecycle(b) ==
    \/ b.status = "queued" /\ ~b.started /\ ~b.done
    \/ b.status \in {"running", "cancelling"} /\ b.started /\ ~b.done
    \/ b.status \in {"completed", "completed_with_errors", "cancelled"} /\ b.done

\* MUTANT: bulk_documents_lifecycle_check is missing.
DocumentUnchecked(d) == TRUE

\* bulk_documents_lifecycle_check
DocumentLifecycle(d) ==
    \/ d.status = "queued" /\ ~d.done
    \/ d.status \in Active \ {"queued"} /\ d.started /\ ~d.done
    \/ d.status \in {"completed", "completed_with_errors", "failed"} /\ d.done
    \/ d.status \in {"cancelled", "deleted"}

Legal(s) ==
    /\ BatchLifecycle(s.batch)
    /\ \A d \in Documents : DocumentLifecycle(s.doc[d])

----------------------------------------------------------------------------
(* The transactions of the handlers: what they leave in the database and   *)
(* where the handler goes.  "erred" is an error the handler returns,       *)
(* "succeeded" a nil.                                                      *)

Then(s, next) == [db |-> s, next |-> next]

\* Store.IsCancelled; next is where the handler goes when it is not.
IsCancelled(s, w, next) ==
    LET stopped == s.batch.status \in {"cancelling", "cancelled"}
        status  == s.doc[w.doc].status
    IN IF status = "deleted" THEN Then(s, "succeeded")
       ELSE IF stopped /\ status \in Active
            THEN Then(Recompute([SetDoc(s, w.doc, "cancelled")
                                   EXCEPT !.doc[w.doc].done = TRUE]), "succeeded")
       ELSE IF stopped \/ status = "cancelled" \/ ~IsCurrent(s, w)
            THEN Then(s, "succeeded")
       ELSE Then(s, next)

\* LoadOriginals
LoadOriginals(s, w) ==
    LET doc == s.doc[w.doc]
    IN IF ~IsCurrent(s, w) \/ doc.status = "cancelled" THEN Then(s, "erred")
       ELSE IF doc.status \notin {"queued", "preparing"} THEN Then(s, "succeeded")
       ELSE IF ~doc.files THEN Then(s, "erred")
       ELSE Then([s EXCEPT !.doc[w.doc] = [@ EXCEPT !.status = "preparing",
                                                    !.started = TRUE,
                                                    !.done = FALSE]], "render")

\* RecordPrepareFailure: the originals are not what the browser declared.
RecordPrepareFailure(s, w) ==
    IF ~IsCurrent(s, w) THEN Then(s, "erred")
    ELSE IF s.doc[w.doc].status \in {"cancelled", "failed"} THEN Then(s, "succeeded")
    ELSE Then(Recompute(
                [s EXCEPT !.jobs = {j \in @ : ~(j.doc = w.doc /\ j.status = "queued")},
                          !.doc[w.doc] = [@ EXCEPT !.status = "failed",
                                                   !.errors = TRUE,
                                                   !.files = FALSE,
                                                   !.done = TRUE]]), "succeeded")

\* RecordPrepared: new chunk rows, each with its parse job.
RecordPrepared(s, w) ==
    LET cut   == s.doc[w.doc].cut + 1
        fresh == DropChunks(s, w.doc, w.gen)
    IN IF ~IsCurrent(s, w) THEN Then(s, "erred")
       ELSE IF s.doc[w.doc].status = "cancelled" THEN Then(s, "succeeded")
       ELSE Then([fresh EXCEPT
                    !.doc[w.doc] = [@ EXCEPT !.status = "parsing", !.files = TRUE,
                                             !.cut = cut],
                    !.chunk[w.doc][w.gen] =
                       [i \in 1..Chunks |-> [status |-> "queued", answer |-> None]],
                    !.jobs = @ \cup {Queued(Work("chunk", w.doc, w.gen, cut, i))
                                      : i \in 1..Chunks}], "succeeded")

\* The chunk row a parse job names is still there.
HasChunk(s, w) ==
    /\ s.doc[w.doc].status # "deleted"
    /\ s.doc[w.doc].cut = w.cut
    /\ ChunksOf(s, w)[w.n].status # "absent"

\* LoadChunk (claimBulkChunkSQL)
LoadChunk(s, w) ==
    IF /\ HasChunk(s, w) /\ IsCurrent(s, w)
       /\ s.batch.status \notin {"cancelling", "cancelled"}
    THEN Then([s EXCEPT !.chunk[w.doc][w.gen][w.n].status = "parsing"], "parse")
    ELSE Then(s, "erred")

\* RecordChunkResult
RecordChunkResult(s, w, answer) ==
    IF ~IsCurrent(s, w) \/ s.doc[w.doc].status \in {"cancelled", "failed"}
    THEN Then(s, "succeeded")
    ELSE IF ~HasChunk(s, w) THEN Then(s, "erred")
    ELSE Then(AggregateWhenReady(
                [s EXCEPT !.chunk[w.doc][w.gen][w.n] =
                    [status |-> "valid", answer |-> answer]], w), "succeeded")

\* RecordChunkFailure; the answer of an earlier valid attempt stays.
RecordChunkFailure(s, w, terminal) ==
    LET status == IF terminal THEN "failed" ELSE "queued"
        marked == [s EXCEPT !.chunk[w.doc][w.gen][w.n].status = status]
    IN IF ~IsCurrent(s, w) \/ ~HasChunk(s, w) THEN Then(s, "erred")
       ELSE IF terminal THEN Then(AggregateWhenReady(marked, w), "succeeded")
       ELSE Then(marked, "erred")

\* DedupeV1: an earlier record has the same fingerprint.
IsDuplicate(records, i) == \E k \in 1..(i - 1) : records[k].what = records[i].what

\* The answers of the valid chunks, in their order.
Records(chunks) ==
    LET valid == {k \in 1..Chunks : chunks[k].status = "valid" /\ chunks[k].answer # None}
        at(i) == CHOOSE k \in valid : Cardinality({m \in valid : m <= k}) = i
    IN  [i \in 1..Cardinality(valid) |-> chunks[at(i)].answer]

\* AggregateDocument: the candidates of the valid chunks, in their order.
AggregateDocument(s, w) ==
    LET chunks  == ChunksOf(s, w)
        records == Records(chunks)
        single  == {i \in DOMAIN records : ~IsDuplicate(records, i)}
        known   == {c \in s.cand : c.doc = w.doc /\ c.gen = w.gen}
        missing == {i \in DOMAIN records : \A c \in known : c.n # i}
        cut     == s.doc[w.doc].cut
        task(i) == Work("reconcile", w.doc, w.gen, cut, i)
        written ==
          [s EXCEPT
             !.cand = @ \cup {[doc |-> w.doc, gen |-> w.gen, cut |-> cut, n |-> i,
                               what |-> records[i].what, doubts |-> records[i].doubts,
                               status |-> IF i \in single THEN "pending" ELSE "duplicate",
                               tx |-> None] : i \in missing},
             !.jobs = @ \cup {Queued(task(i))
                              : i \in {k \in single : \A j \in s.jobs : WorkOf(j) # task(k)}},
             !.doc[w.doc] = [@ EXCEPT !.status = "reconciling",
                                      !.errors = \E i \in 1..Chunks :
                                                    chunks[i].status = "failed"]]
    IN IF ~IsCurrent(s, w) \/ s.doc[w.doc].status \in {"cancelled", "failed"}
       THEN Then(s, "succeeded")
       ELSE IF single = {}
            THEN Then(Insert(written, Work("post", w.doc, w.gen, 0, 0)), "succeeded")
       ELSE Then(written, "succeeded")

\* The name of a candidate row, and of the transaction created from it.
Key(c) == <<c.doc, c.gen, c.cut, c.n>>

\* MUTANT: a conflicting evidence row counts as attached.
EvidenceAlwaysFree(s, c, t) == TRUE

\* attachBulkEvidence: one active link per transaction and source; a link of
\* another candidate is a conflict.
EvidenceFree(s, c, t) ==
    \A l \in s.link : l.tx = t /\ l.doc = c.doc => l.cand = Key(c)

Evidence(c, t) == [tx |-> t, doc |-> c.doc, gen |-> c.gen, cand |-> Key(c)]

\* The insert does nothing when the transaction has a link to the source.
AddEvidence(s, c, t) ==
    IF \E l \in s.link : l.tx = t /\ l.doc = c.doc THEN s
    ELSE [s EXCEPT !.link = @ \cup {Evidence(c, t)}]

\* updateBulkCandidateOutcome: the counters of the document are those of the
\* generation of the candidate, whatever generation the document is at.
Outcome(s, c, status, t) ==
    LET cands == (s.cand \ {c}) \cup {[c EXCEPT !.status = status, !.tx = t]}
    IN [s EXCEPT
          !.cand = cands,
          !.doc[c.doc].errors =
             \/ \E k \in cands : k.doc = c.doc /\ k.gen = c.gen /\ k.status = "failed"
             \/ \E i \in 1..Chunks : s.chunk[c.doc][c.gen][i].status = "failed"]

NewTransaction(s, c, by) ==
    [s EXCEPT !.ledger = @ \cup {[id |-> Key(c), what |-> c.what, by |-> by]}]

\* MUTANT: what this document is already evidence of is not searched.
MatchesElsewhere(s, c) ==
    {t \in s.ledger : /\ t.what = c.what
                      /\ \A l \in s.link : l.tx = t.id => l.doc # c.doc}

\* matchBulkTransactions: same account, direction, amount, currency and day.
\* A row without a currency, which matches any, is not modelled.
Matches(s, c) == {t \in s.ledger : t.what = c.what}

\* What is left to the user whatever matches ("kind": a possible transfer, or
\* a bill line of the wrong direction), because it is not what it matches
\* ("match": other line items, or no payment of the bill), or because nothing
\* matches it ("create": a bill line, or not reliable enough).
NeedsUser(c, matches) ==
    \/ "kind" \in c.doubts
    \/ Cardinality(matches) > 1
    \/ matches # {} /\ "match" \in c.doubts
    \/ matches = {} /\ "create" \in c.doubts

\* ReconcileBulkCandidate, under the lock of the user.
ReconcileCandidate(s, w) ==
    LET found   == {c \in s.cand : Key(c) = <<w.doc, w.gen, w.cut, w.n>>}
        c       == CHOOSE k \in found : TRUE
        matches == Matches(s, c)
        t       == CHOOSE k \in matches : TRUE
        finish(x, status, id) ==
            Then(PostProcessIfReady(Outcome(x, c, status, id), w), "succeeded")
    IN IF found = {} \/ c.status # "pending" THEN Then(s, "succeeded")
       ELSE IF NeedsUser(c, matches) THEN finish(s, "review", None)
       ELSE IF matches # {}
            THEN IF EvidenceFree(s, c, t.id)
                 THEN finish(AddEvidence(s, c, t.id), "attached", t.id)
                 ELSE Then(s, "erred")
       ELSE finish(AddEvidence(NewTransaction(s, c, "auto"), c, Key(c)),
                   "created", Key(c))

\* LoadPostProcessInput
LoadPostProcessInput(s, w) ==
    IF IsCurrent(s, w) /\ s.doc[w.doc].status = "reconciling"
    THEN Then(s, "settle")
    ELSE Then(s, "erred")

\* RecordGenericPostProcess
RecordPostProcess(s, w) ==
    LET failed == \/ \E c \in s.cand :
                        c.doc = w.doc /\ c.gen = w.gen /\ c.status = "failed"
                  \/ \E i \in 1..Chunks : ChunksOf(s, w)[i].status = "failed"
    IN IF IsCurrent(s, w) /\ s.doc[w.doc].status = "reconciling"
       THEN Then(Recompute([s EXCEPT !.doc[w.doc] =
                              [@ EXCEPT !.errors = failed, !.done = TRUE,
                                        !.status = IF failed THEN "completed_with_errors"
                                                   ELSE "completed"]]), "succeeded")
       ELSE Then(Recompute(s), "succeeded")

\* The candidate branch of markTerminalJobFailure.
FailCandidate(s, w) ==
    LET failed == [s EXCEPT
          !.cand = {IF Key(c) = <<w.doc, w.gen, w.cut, w.n>> /\ c.status = "pending"
                    THEN [c EXCEPT !.status = "failed"] ELSE c : c \in @}]
    IN Refresh(PostProcessIfReady(failed, w))

\* Its other branch: the chunk and the document of the job fail.
FailDocument(s, w) ==
    LET chunkFails == /\ w.kind = "chunk" /\ HasChunk(s, w)
                      /\ ChunksOf(s, w)[w.n].status \in {"queued", "parsing"}
        marked == IF chunkFails
                  THEN [s EXCEPT !.chunk[w.doc][w.gen][w.n].status = "failed"]
                  ELSE s
    IN Refresh(IF /\ IsCurrent(s, w)
                  /\ s.doc[w.doc].status \notin {"completed", "completed_with_errors",
                                                 "cancelled"}
               THEN [marked EXCEPT !.doc[w.doc] = [@ EXCEPT !.status = "failed",
                                                            !.errors = TRUE,
                                                            !.done = TRUE]]
               ELSE marked)

\* markTerminalJobFailure of a bulk job.
MarkTerminalFailure(s, w) ==
    IF w.kind = "reconcile" THEN FailCandidate(s, w) ELSE FailDocument(s, w)

----------------------------------------------------------------------------
(* The queue, as far as the bulk tables are concerned.                     *)

Idle == [pc |-> "idle", work |-> None]

\* The row the worker's Complete and Retry may still finish.
Owned(s, w) ==
    {j \in s.jobs : j.status = "running" /\ j.owner = w
                    /\ worker[w].pc # "idle" /\ WorkOf(j) = worker[w].work}

Spent(s) == {j \in s.jobs : j.status = "running" /\ j.owner = None
                            /\ j.tries >= MaxAttempts}

\* reapExpiredFinalAttempts: one statement ends all of them, then each is
\* marked, in the order the statement returned them; a constraint that fails
\* stops it.
Reaped(s, spent) ==
    LET marked[i \in 0 .. Len(spent)] ==
            IF i = 0 THEN [s EXCEPT !.jobs = @ \ Spent(s)]
            ELSE LET acc == marked[i - 1]
                 IN  IF Legal(acc) THEN MarkTerminalFailure(acc, WorkOf(spent[i]))
                     ELSE acc
    IN marked[Len(spent)]

Reapings(s) == {Reaped(s, spent) : spent \in SetToSeqs(Spent(s))}

Claimable(j) ==
    /\ j.tries < MaxAttempts
    /\ j.status = "queued" \/ j.owner = None

\* claimKinds: the transaction reaps and claims, or fails as a whole.
Claim(w) ==
    /\ worker[w].pc = "idle"
    /\ \E s \in Reapings(db) : \E j \in s.jobs :
          /\ Legal(s)
          /\ Claimable(j)
          /\ db' = [s EXCEPT !.jobs = (@ \ {j}) \cup {[j EXCEPT !.status = "running",
                                                            !.tries = j.tries + 1,
                                                            !.owner = w]}]
          /\ worker' = [worker EXCEPT ![w] = [pc |-> "check", work |-> WorkOf(j)]]
    /\ UNCHANGED <<doomed, losses, asked>>

\* Nothing to claim: what was reaped is committed.
ClaimNothing(w) ==
    /\ worker[w].pc = "idle"
    /\ Spent(db) # {}
    /\ \E s \in Reapings(db) :
          /\ Legal(s)
          /\ \A j \in s.jobs : ~Claimable(j)
          /\ db' = s
    /\ UNCHANGED <<worker, doomed, losses, asked>>

\* The lease of a worker's job runs out: the row waits for another claim.
LoseLease(w) ==
    /\ losses < MaxLosses
    /\ Owned(db, w) # {}
    /\ losses' = losses + 1
    /\ db' = [db EXCEPT !.jobs = (@ \ Owned(db, w)) \cup
                                 {[j EXCEPT !.owner = None] : j \in Owned(db, w)}]
    /\ UNCHANGED <<doomed, asked>>

\* The worker dies in its handler.
Crash(w) ==
    /\ "crash" \in Faults
    /\ LoseLease(w)
    /\ worker' = [worker EXCEPT ![w] = Idle]

\* It is late with its heartbeat, and its handler goes on without noticing.
Stall(w) ==
    /\ "stall" \in Faults
    /\ LoseLease(w)
    /\ UNCHANGED worker

\* The heartbeat finds the job gone and ends the handler.
Abandon(w) ==
    /\ worker[w].pc # "idle"
    /\ Owned(db, w) = {}
    /\ worker' = [worker EXCEPT ![w] = Idle]
    /\ UNCHANGED <<db, doomed, losses, asked>>

\* The transaction that finishes the row, or its rollback: the row then stays
\* running until its lease runs out.
Finish(w, s) ==
    /\ db' = IF Owned(db, w) = {} THEN db
             ELSE IF Legal(s) THEN s
             ELSE [db EXCEPT !.jobs = (@ \ Owned(db, w)) \cup
                                      {[j EXCEPT !.owner = None] : j \in Owned(db, w)}]
    /\ worker' = [worker EXCEPT ![w] = Idle]
    /\ UNCHANGED <<doomed, losses, asked>>

WithoutJob(w) == [db EXCEPT !.jobs = @ \ Owned(db, w)]

Complete(w) ==
    /\ worker[w].pc = "succeeded"
    /\ Finish(w, Refresh(WithoutJob(w)))

Retry(w) ==
    /\ worker[w].pc = "erred"
    /\ Finish(w, IF \E j \in Owned(db, w) : j.tries >= MaxAttempts
                 THEN MarkTerminalFailure(WithoutJob(w), worker[w].work)
                 ELSE [WithoutJob(w) EXCEPT
                         !.jobs = @ \cup {[j EXCEPT !.status = "queued", !.owner = None]
                                          : j \in Owned(db, w)}])

----------------------------------------------------------------------------
(* The handlers, one transaction per step.                                 *)

\* A transaction of the handler: committed if the constraints allow it.
Commit(w, result) ==
    /\ db' = IF Legal(result.db) THEN result.db ELSE db
    /\ worker' = [worker EXCEPT
                    ![w].pc = IF Legal(result.db) THEN result.next ELSE "erred"]
    /\ UNCHANGED <<doomed, losses, asked>>

\* Handler.Handle checks for cancellation and dispatches.
Check(w) ==
    /\ worker[w].pc = "check"
    /\ Commit(w, IsCancelled(db, worker[w].work, worker[w].work.kind))

\* Handler.prepare up to the rendering.
Prepare(w) ==
    /\ worker[w].pc = "prepare"
    /\ Commit(w, LoadOriginals(db, worker[w].work))

\* Rendering or an upload fails; or the originals fail their verification.
RenderFails(w) ==
    /\ worker[w].pc = "render"
    /\ \/ Commit(w, Then(db, "erred"))
       \/ /\ ~db.doc[worker[w].work.doc].genuine
          /\ Commit(w, RecordPrepareFailure(db, worker[w].work))

\* The pages are stored; the handler checks again and records them.
RenderSucceeds(w) ==
    /\ worker[w].pc = "render"
    /\ db.doc[worker[w].work.doc].genuine
    /\ Commit(w, IsCancelled(db, worker[w].work, "pages"))

RecordPages(w) ==
    /\ worker[w].pc = "pages"
    /\ Commit(w, RecordPrepared(db, worker[w].work))

\* Handler.parseChunk up to the call of the model.
StartChunk(w) ==
    /\ worker[w].pc = "chunk"
    /\ Commit(w, LoadChunk(db, worker[w].work))

\* A page cannot be downloaded; the provider fails; the answer is invalid.
ParseFails(w) ==
    /\ worker[w].pc = "parse"
    /\ \/ Commit(w, Then(db, "erred"))
       \/ \E terminal \in BOOLEAN :
             Commit(w, RecordChunkFailure(db, worker[w].work, terminal))

\* A valid answer; the handler checks again before it records it.
ParseSucceeds(w) ==
    /\ worker[w].pc = "parse"
    /\ Commit(w, IsCancelled(db, worker[w].work, "answer"))

RecordAnswer(w) ==
    /\ worker[w].pc = "answer"
    /\ \E answer \in Outputs \cup {None} :
          Commit(w, RecordChunkResult(db, worker[w].work, answer))

Aggregate(w) ==
    /\ worker[w].pc = "aggregate"
    /\ Commit(w, AggregateDocument(db, worker[w].work))

Reconcile(w) ==
    /\ worker[w].pc = "reconcile"
    /\ Commit(w, ReconcileCandidate(db, worker[w].work))

\* Handler.postProcess: what it reads, and what it records.
PostProcess(w) ==
    /\ worker[w].pc = "post"
    /\ Commit(w, LoadPostProcessInput(db, worker[w].work))

Settle(w) ==
    /\ worker[w].pc = "settle"
    /\ Commit(w, RecordPostProcess(db, worker[w].work))

----------------------------------------------------------------------------
(* The user's requests.                                                    *)

Asks(request) ==
    /\ request \in Requests
    /\ asked < MaxRequests
    /\ asked' = asked + 1

\* CancelBatch: whether something is being worked on.
HasActiveWork(s) ==
    \/ \E j \in s.jobs : j.status = "running"
    \/ \E d \in Documents : s.doc[d].status \in Active \ {"queued"}

\* cancellationTarget
CancellationTarget(s) ==
    IF s.batch.status \in {"cancelling", "cancelled"} THEN s.batch.status
    ELSE IF HasActiveWork(s) THEN "cancelling"
    ELSE "cancelled"

\* CancelBatch; a batch that is already finished is a conflict.
CancelBatch ==
    LET target == CancellationTarget(db)
        struck == IF target = "cancelled" THEN Active ELSE {"queued"}
        new == [db EXCEPT
                  !.batch = [@ EXCEPT !.status = target, !.done = (target = "cancelled")],
                  !.jobs = {j \in @ : j.status # "queued"},
                  !.doc = [d \in Documents |->
                             IF @[d].status \in struck
                             THEN [@[d] EXCEPT !.status = "cancelled", !.done = TRUE]
                             ELSE @[d]]]
    IN /\ Asks("cancel")
       /\ db.batch.status \in {"queued", "running", "cancelling", "cancelled"}
       /\ Legal(new)
       /\ db' = new
       /\ UNCHANGED <<worker, doomed, losses>>

\* RetryDocument: the next generation of the document, in the same batch.
RetryDocument(d) ==
    /\ Asks("retry")
    /\ db.doc[d].status \in {"failed", "completed_with_errors"}
    /\ db.doc[d].gen < MaxGenerations
    /\ db' = Insert([db EXCEPT !.doc[d] = [@ EXCEPT !.status = "queued",
                                                    !.gen = db.doc[d].gen + 1,
                                                    !.started = FALSE, !.done = FALSE]],
                    Work("prepare", d, db.doc[d].gen + 1, 0, 0))
    /\ UNCHANGED <<worker, doomed, losses>>

Resolvable(c) == Asks("resolve") /\ c.status \in {"review", "pending"}

Resolved(s, c) == PostProcessIfReady(s, [doc |-> c.doc, gen |-> c.gen])

\* ResolveBulkCandidate: the candidate goes to another account.
SetAccount(c) ==
    /\ Resolvable(c)
    /\ db' = Resolved(Insert([db EXCEPT !.cand = (@ \ {c}) \cup {[c EXCEPT !.status = "pending"]}],
                             Work("reconcile", c.doc, c.gen, c.cut, c.n)), c)
    /\ UNCHANGED <<worker, doomed, losses>>

\* ResolveBulkCandidate: the user attaches it to a transaction.
Attach(c, t) ==
    /\ Resolvable(c)
    /\ EvidenceFree(db, c, t.id)
    /\ db' = Resolved(Outcome(AddEvidence(db, c, t.id), c, "attached", t.id), c)
    /\ UNCHANGED <<worker, doomed, losses>>

\* ResolveBulkCandidate: the user creates a transaction from it.
Create(c) ==
    /\ Resolvable(c)
    /\ db' = Resolved(Outcome(AddEvidence(NewTransaction(db, c, "user"), c, Key(c)),
                              c, "created", Key(c)), c)
    /\ UNCHANGED <<worker, doomed, losses>>

\* ResolveBulkCandidate: the user creates both legs of an internal transfer,
\* of which the credit is no purchase, and the candidate is evidence of both.
CreateTransfer(c) ==
    LET credit == Append(Key(c), "credit")
        legs == [NewTransaction(db, c, "user") EXCEPT
                   !.ledger = @ \cup {[id |-> credit, what |-> None, by |-> "user"]}]
    IN /\ Resolvable(c)
       /\ db' = Resolved(Outcome(AddEvidence(AddEvidence(legs, c, Key(c)), c, credit),
                                 c, "created", Key(c)), c)
       /\ UNCHANGED <<worker, doomed, losses>>

\* DeleteBulkDocument reads the status before the deletion's transaction.
AskDeletion(d) ==
    /\ Asks("delete")
    /\ db.doc[d].status \in Finished
    /\ doomed' = doomed \cup {d}
    /\ UNCHANGED <<db, worker, losses>>

\* StageSourceDeletion: everything that hangs on the source, and the
\* automatic transactions nothing else is evidence of.
StageDeletion(d) ==
    LET left == {l \in db.link : l.doc # d}
        gone == {t \in db.ledger : /\ t.by = "auto"
                                   /\ \E l \in db.link : l.tx = t.id /\ l.doc = d
                                   /\ \A l \in left : l.tx # t.id}
    IN /\ d \in doomed
       /\ doomed' = doomed \ {d}
       /\ db' = [db EXCEPT
                   !.doc[d].status = "deleted",
                   !.chunk[d] = [g \in Generations |-> [i \in 1..Chunks |->
                                   [status |-> "absent", answer |-> None]]],
                   !.cand = {c \in @ : c.doc # d},
                   !.jobs = {j \in @ : j.doc # d},
                   !.link = left,
                   !.ledger = @ \ gone]
       /\ UNCHANGED <<worker, losses, asked>>

----------------------------------------------------------------------------
\* SubmitBatch has queued every document, each with its prepare job.
Init ==
    /\ \E genuine \in [Documents -> Verdicts] :
         db = [batch  |-> [status |-> "queued", started |-> FALSE, done |-> FALSE],
               doc    |-> [d \in Documents |->
                             [status |-> "queued", gen |-> 1, cut |-> 0,
                              started |-> FALSE, done |-> FALSE, errors |-> FALSE,
                              files |-> TRUE, genuine |-> genuine[d]]],
               chunk  |-> [d \in Documents |-> [g \in Generations |-> [i \in 1..Chunks |->
                             [status |-> "absent", answer |-> None]]]],
               cand   |-> {},
               jobs   |-> {Queued(Work("prepare", d, 1, 0, 0)) : d \in Documents},
               ledger |-> {[id |-> <<None, 0, 0, p>>, what |-> p, by |-> "known"]
                           : p \in Known},
               link   |-> {}]
    /\ worker = [w \in Workers |-> Idle]
    /\ doomed = {}
    /\ losses = 0
    /\ asked = 0

HandlerStep(w) ==
    \/ Check(w)
    \/ Prepare(w) \/ RenderFails(w) \/ RenderSucceeds(w) \/ RecordPages(w)
    \/ StartChunk(w) \/ ParseFails(w) \/ ParseSucceeds(w) \/ RecordAnswer(w)
    \/ Aggregate(w) \/ Reconcile(w) \/ PostProcess(w) \/ Settle(w)

QueueStep(w) ==
    \/ Claim(w) \/ ClaimNothing(w)
    \/ Complete(w) \/ Retry(w)

Request ==
    \/ CancelBatch
    \/ \E d \in Documents : RetryDocument(d) \/ AskDeletion(d) \/ StageDeletion(d)
    \/ \E c \in db.cand : SetAccount(c) \/ Create(c) \/ CreateTransfer(c)
    \/ \E c \in db.cand : \E t \in db.ledger : Attach(c, t)

Next ==
    \/ \E w \in Workers : HandlerStep(w) \/ QueueStep(w) \/ Crash(w) \/ Stall(w) \/ Abandon(w)
    \/ Request

Spec == Init /\ [][Next]_vars

\* Workers take jobs and go on with them; nothing makes a user do anything.
WorkersRun == \A w \in Workers : WF_vars(HandlerStep(w) \/ QueueStep(w))

FairSpec == Spec /\ WorkersRun

----------------------------------------------------------------------------
(* Properties.                                                             *)

\* Every table row and every handler is in a state the code knows.
TypeOK ==
    /\ db.batch \in [status : BatchStatus, started : BOOLEAN, done : BOOLEAN]
    /\ \A d \in Documents : /\ db.doc[d].status \in DocumentStatus
                            /\ db.doc[d].gen \in Generations
                            /\ \A g \in Generations : \A i \in 1..Chunks :
                                  db.chunk[d][g][i].status \in ChunkStatus
    /\ \A c \in db.cand : c.status \in CandidateStatus
    /\ \A j, k \in db.jobs : WorkOf(j) = WorkOf(k) => j = k
    /\ Legal(db)
    /\ doomed \subseteq Documents

\* The pipeline creates a transaction for a purchase only if the ledger has
\* none for it, over documents, generations and redeliveries: of the
\* transactions of a purchase at most one is not the user's own.
\* matchBulkTransactions under the user lock is what makes it so.
OneTransactionPerPurchase ==
    \A t, u \in db.ledger :
        t.what = u.what /\ "user" \notin {t.by, u.by} => t = u

\* A candidate that says it was created or attached has an evidence row of
\* its own to a transaction that exists, through retries of its document,
\* conflicts over the one link per source, and deletions of other documents.
SettledHasEvidence ==
    \A c \in db.cand : c.status \in {"created", "attached"} =>
        /\ \E t \in db.ledger : t.id = c.tx
        /\ \E l \in db.link : l.tx = c.tx /\ l.cand = Key(c)

\* A batch that reads completed, completed with errors or cancelled has no
\* document in the works, except one the user retried: RetryDocument leaves
\* the batch as it is.
ClosedBatchIsQuiet ==
    db.batch.status \in {"completed", "completed_with_errors", "cancelled"} =>
        \A d \in Documents : db.doc[d].gen = 1 => db.doc[d].status \notin Active

\* A document leaves a terminal status only by the user's retry, which gives
\* it a new generation, or by its deletion; no late handler revives or fails it.
TerminalDocumentsStay ==
    [][\A d \in Documents : db.doc[d].status \in Finished =>
         \/ db'.doc[d].status \in {db.doc[d].status, "deleted"}
         \/ db'.doc[d].gen > db.doc[d].gen]_vars

\* Every purchase the model read in a document that completed without errors
\* is in one of the document's candidates.
PurchasesAreKept ==
    \A d \in Documents : db.doc[d].status = "completed" =>
        \A i \in 1..Chunks : LET answer == db.chunk[d][db.doc[d].gen][i].answer IN
            answer # None => \E c \in db.cand : c.doc = d /\ c.what = answer.what

\* As long as every job is delivered once, no purchase that was read is
\* dropped: the aggregation starts when the last chunk has its answer.
NothingParsedIsLost == losses = 0 => PurchasesAreKept

\* A cancelled batch stays cancelled, whatever still runs in it.  It does not
\* hold: the next refresh of its progress makes it completed.
CancelledIsFinal ==
    [][db.batch.status = "cancelled" => db'.batch.status = "cancelled"]_vars

\* The refresh at the end of every job is one the batch's check constraint
\* accepts: no job is redone or lost because its progress cannot be saved.  It
\* does not hold for a document retried in a batch that is finished.
ProgressCanBeSaved == BatchLifecycle(Refresh(db).batch)

\* Every document ends: it is completed, failed or cancelled.
DocumentsSettle ==
    \A d \in Documents : db.doc[d].status \in Active ~> db.doc[d].status \notin Active

\* A cancellation request comes to an end.  It does not: a batch whose last
\* running document has no job left stays cancelling.
CancellationEnds == db.batch.status = "cancelling" ~> db.batch.status # "cancelling"

=============================================================================
