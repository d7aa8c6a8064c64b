# Formal models of the Wealth Builder backend

TLA+ modules, TLC configurations and TLAPS proofs for the Go backend of Wealth
Builder (`src/backend`) and the parts of the database schema it relies on
(`src/supabase/migrations`). Short path names below are relative to
`src/backend/internal` unless they start with another directory of the
repository.

The backend is a set of SQL transactions on one PostgreSQL database, called by
an HTTP API and by any number of worker processes. What is hard about it is
not in any one transaction: it is in what other transactions, late workers,
crashes and users do between two of them. That is what the modules describe.

| Module | What it is |
|---|---|
| `JobQueue` | the durable job table, leases, heartbeats, retries, worker loop |
| `JobContract` | what the queue promises about a job; `JobQueue` implements it |
| `JobQueueProofs` | TLAPS proofs about `JobQueue` for any constants |
| `GmailIngestion` | Gmail refreshes: mailbox, cursor, sync runs, ingestion handler, attachments, tombstones |
| `SourceLifecycle` | stored evidence: parsing, reconciliation, links, transfers, user actions, deletion |
| `BulkImport` | a submitted batch: documents, chunks, candidates, generations, the bulk jobs, the user's requests |
| `BulkUpload` | a draft batch: reservations, signed uploads, objects, layout, submission, deletion, cleanup |
| `CardBills` | credit card bills: projection, payment resolution, payoffs, triggers, idempotency records |
| `OpeningBalances` | opening-balance revisions, retries, and the balances calculated from them |
| `SourceLifecycleProofs` | TLAPS proofs about `SourceLifecycle` for any constants |
| `GmailIngestionProofs` | TLAPS proofs about `GmailIngestion` for any constants |
| `BulkImportProofs` | TLAPS proofs about `BulkImport` for any constants |
| `BulkUploadProofs` | TLAPS proofs about `BulkUpload` for any constants |
| `CardBillsProofs` | TLAPS proofs about `CardBills` for any constants |
| `OpeningBalancesProofs` | TLAPS proofs about `OpeningBalances` for any constants |
| `Induction` | least counterexamples: induction for recursive functions, used by the two longest proofs |
| `MC...` | small instances of each module for TLC |

## 1. Inventory

### 1.1 How the parts interact

    mailbox -> providers/gmail.go -> ingestion/gmail.go -> sources, attachments
                                            |                     |
    user -> transactions/http.go -> sync run + job        source_parsing job
                   |                        |                     |
                   |                 jobs/jobs.go (worker loop, lease, heartbeat)
                   |                                              |
                   +-- attach, create, transfer,       transactionworker/handler.go
                       patch, unmatch, delete  -->  transactionstore: sources, links,
                                                    transactions, transaction_links

Everything meets in the database. The API inserts jobs; workers claim them with
`select ... for update skip locked`, keep a five-minute lease alive with a
heartbeat each minute, and finish them in a transaction that checks the lease.
A handler is a sequence of short SQL transactions with external calls (Google,
Storage, the model provider) in between; a per-user row lock (`private.transaction_user_locks`)
serialises those that decide about several rows.

### 1.2 Components

*Durable job queue* (`jobs/jobs.go`, `transactionstore/postgres.go` 408-840).
State: rows of `private.transaction_jobs` (status, attempts, leased_by,
lease_expires_at, run_after), and in every worker the claimed job and a
heartbeat goroutine. Operations: enqueue, claim (after reaping expired final
attempts), renew, complete, retry with backoff, cancel, cascade with the
source. Hard: two clocks (claim, renewal and reap compare with the worker's
clock, finishing with the database's), pauses, crashes on the last attempt,
stale workers that finish late, cleanup jobs that must never be given up.
Correct when: a live worker's row is not taken from it, only the latest
attempt decides a row, nothing is left that no claim accepts, everything ends.

*Gmail ingestion* (`ingestion/gmail.go`, `providers/gmail.go`,
`transactionstore/postgres.go` 180-408, `gmailconnection/service.go`).
State: connection and History cursor, sync runs, sources, attachment metadata,
tombstones of deleted messages, objects in the bucket. Operations: connect,
create sync run, list (initial, history, recovery), store, upload, queue the
parse, move the cursor, complete or fail the run. Hard: every call may fail and
is retried from the beginning, a lease may be lost in the middle, the user
reconnects or deletes meanwhile. Correct when: the cursor never passes a
message that is not stored, deleted messages do not come back, parsing finds
its attachments, terminal runs stay terminal, and every run ends.

*Sources, evidence and transactions* (`transactionstore/reconciliation.go`,
`actions.go`, `operations.go`, `source_admin.go`; `transactionworker/handler.go`;
`reconciliation/`). State: parse_status of each source, parse and reconcile
jobs, transactions, evidence rows (active and detached), transfers. Operations:
save a parse, record a parse error, load and persist a reconciliation, retry,
attach, create, transfer, patch, unmatch, delete. Hard: decisions are taken in
one transaction and carried out in another; jobs are delivered again; several
requests and workers touch one source. Correct when: queued sources are
evidence of nothing, one source never supports two unrelated transactions, one
purchase never becomes two automatic transactions, deletion spares what other
sources support, no source is forgotten.

*Bulk import, the draft* (`bulkimport/`, `bulkstore/postgres.go`,
`transactionstore/bulk.go` 395-490, `attachmentstorage/bulk.go`). State: the
batch, its documents and files, the objects in the bucket, cleanup jobs.
Operations: reserve, sign, upload, finalize, lay out, submit, cancel, delete a
document or the batch. Hard: rows and objects change in different systems, the
browser may upload late or twice, deletions lock nothing. Correct when: what is
submitted is in the bucket as declared, the numbering leaves room for the next
reservation, every PDF is a document of its own.

*Bulk import, the pipeline* (`bulkworker/`, `bulkstore/worker.go`,
`transactionstore/bulk.go`). State: documents with a retry generation, chunks,
candidates, evidence, jobs per stage, the progress of the batch. Operations:
prepare, parse a chunk, aggregate, reconcile, post-process, and their terminal
failures; cancel, retry, resolve, delete. Hard: fan-out and fan-in over chunk
jobs, stale deliveries, cancel and retry against running jobs, progress
computed by whoever finishes. Correct when: nothing read is dropped, no
purchase becomes two transactions, settled candidates have their evidence,
terminal documents stay, a finished batch has no work in it, everything ends.

*Credit card statements* (`creditcard/`, `creditcardstore/`). State: bills with
a version, payment candidates, payoff transfers, locked treatments, idempotency
records. Operations: projection, header correction, lines, select, confirm, pay
in full, void, discard. Hard: the search for payments locks what it found but
does not look again, versions, repeated requests, edits of the ledger under a
paid bill. Correct when: a paid bill is paid exactly, by a transfer of its own
that no total counts, requests take effect once and on what the user saw.

*Account balances* (`accountbalances/`, `accountbalancestore/`). State:
opening-balance revisions, their projection on the account, idempotency
records. Operations: set or correct, get, list. Hard: validation outside of the
transaction, repeated requests that race on a key and a version, integer
width. Correct when: a baseline is replaced only by whoever saw it, and a
balance is the baseline plus the movements after it, exactly or refused.

*OAuth state* (`transactionstore/postgres.go` 180-268). A single-use row with an
expiry. Only its effect, the replaced connection, is in `GmailIngestion`.

*Settings, parser rules, prompts* (`transactionstore/settings.go`,
`global_settings.go`, `parserrules/`, `transactionprompt/`). Optimistic
versions on single rows and pure matching. Not modelled.

*Without protocol state, not modelled*: the HTTP layer, the script engine, the
model provider client, e-mail sanitising, secrets, authentication,
configuration, bulk decoding and prompts, the browser application. Their
requests and answers are the inputs of the models.

*Database constraints and triggers* (`src/supabase/migrations`) are in the
actions that rely on them: the lease columns check (a row has an owner exactly
while it runs), the `completed_at` check of sync runs, the lifecycle checks of
batches and documents, the unique keys of bulk orders and jobs, the foreign keys
that cascade, the deferred triggers of bills and payoffs, the storage policy of
uploads, and the deferred cardinality trigger of
`20260902230000_complete_transaction_operations.sql` 211-262, which
`TwoLinksAreATransfer` shows never has to refuse. Row level security is left
out.

`PROJECT.json` holds the same list with the status of each part, the source
lines of every definition ("map") and the hazards with the properties that
address them.

## 2. Plan

Done: the queue with its contract and proofs, the ingestion, the lifecycle of
a source, the bulk import from draft to result, the bills and the balances.
Next, in this order:

1. `BulkImport` composed with `CardBills`: the post-processing of a statement
   between the reconciliation of its candidates and the end of its document.
2. Pure modules: `reconciliation.Reconcile` (scoring and corroboration)
   against a reference definition over bounded inputs.
3. An abstract specification of idempotency that `CardBills` and
   `OpeningBalances` implement: each key takes effect at most once.

## 3. The models

### 3.1 JobQueue

One action per SQL transaction of the queue, one per step of
`Worker.ProcessOne`.

| Code | Action |
|---|---|
| inserts into `private.transaction_jobs` | `Enqueue` |
| cancellation of queued rows by bulk import | `CancelQueued` |
| cascade of `StageSourceDeletion` | `DeleteWithSource` |
| `Claim` with `reapExpiredFinalAttempts` | `Claim`, `ClaimNothing` |
| heartbeat goroutine, `RenewLease` | `HeartbeatRenews`, `HeartbeatLosesLease`, `HeartbeatFails` |
| `Handle` returns | `HandlerReturns`, `HandlerAborts` |
| `Complete`, `Retry`, `ErrLeaseLost`, a rolled-back transaction | `Complete`, `Retry`, `FinishRefused`, `FinishFails` |
| process start, crash or SIGTERM, pause | `Start`, `Crash`, `Stall` |

Time is kept as countdowns, `lease = lease_expires_at - now()` and
`wait = run_after - now()` on the database clock, so the state space is finite
without a bound on the clock. A worker's clock is `Skew[w]` ticks ahead; SQL
statements that are passed `time.Now()` compare with it, `Complete` and `Retry`
compare with the database's `now()`. `Tick` does not pass a due heartbeat of a
worker that is not `stalled`: that is what "healthy" means, and the only
assumption about the speed of workers. A `stalled` worker may be arbitrarily
late. A restarted process has a fresh id (hostname and UUID), so it is another
member of `Workers`. The last worker does not crash: it stands for whatever the
platform starts next.

The retry time is `Backoff` (`jobs.Backoff`: 1, 2, 4, ... 64), the cooldown of
cleanup rows is `Cooldown`. Countdowns stop at `-MaxSkew`, below which no
comparison can tell two deadlines apart.

`JobContract` is the promise without clocks, workers and leases: attempts are
counted and bounded, only a reported result of the latest attempt or running
out of attempts decides a job, decided jobs stay decided, cleanup jobs are
never given up. The refinement mapping takes the status and the attempts from
the row and derives the result of the latest attempt from the memory of the
row's owner (`LatestResult`).

### 3.2 GmailIngestion

The handler of `ingestion/gmail.go`, one action per SQL transaction or external
call, in every worker at once, with a program position (`at[w].pos`) and the
values it read earlier (`cursor`, `refs`, `next`): they may be stale when used.

| Code | Action |
|---|---|
| `StartSyncRun`, `accessToken` | `StartSyncRun`, `ReadConnection` |
| `initialLabelMessages` (profile, then list) | `CaptureHistory`, `ListNewest` |
| `historyAddedMessages` | `ListHistory` |
| 404 of the History API, `recoverLabelMessages` | `HistoryExpired`, `ListWhole` |
| `GetMessage` and `StoreIngestedSource`, or a skip | `StoreMessage`, `SkipMessage` |
| attachment upload and its metadata | `Upload`, `UploadFails`, `SaveMetadata` |
| `EnqueueSourceParse` | `EnqueueSourceParse` |
| `UpdateConnectionCursor`, `CompleteSyncRun` | same names |
| errors, `RecordSyncFailure` | `Errs`, `ErrsUnrecorded`, `RecordSyncFailure`, `FailureUnrecorded` |
| `UpsertGmailConnection`, `CreateSyncRun`, `RetrySourceParse` | `Connect`, `CreateSyncRun`, `RetrySourceParse` |
| `StageSourceDeletion`, attachment cleanup | `DeleteSource`, `CleanUp` |

The mailbox is a fixed order of messages of which a prefix has arrived; the
length of the prefix is the History ID. Labels are not modelled beyond "the
messages under the label". The queue appears without time: `LeaseLapses` may
happen to any running job at any moment, also while its owner works, which is
a superset of what `JobQueue` allows. `parse[m]` stands for the chain of parse
and reconcile jobs of a source and keeps the run it counts for; each link of
that chain is inserted by the transaction that precedes the completion of the
previous one, so the run cannot see a gap. The counters shown for a run are
left out. `beyond` is a history variable: messages an initial import left out
because it is bounded to the newest ones, which is intended.

### 3.3 SourceLifecycle

One action per transaction that locks the source row. `UnmatchSourceLink`
decides whether other links remain before it takes that lock, so it is two
actions with the decision in between (`BeginUnmatch`, `CommitUnmatch`), and it
may be aborted.

| Code | Action |
|---|---|
| `SaveParsedSource`, `recordSourceParseError` | `SaveParsedSource`, `RecordParseError` |
| `LoadReconciliationInput` + `Reconcile` | `LoadReconciliationInput` |
| `PersistReconciliation` | `PersistReconciliation` (with `StillWanted`, `Redecided`, `Apply`) |
| any other error of a handler | `Errs` |
| `markTerminalJobFailure` in reap and retry | in `Claim`, `ClaimNothing`, `RetryJob` |
| `AttachSource`, `CreateTransactionFromSource`, `CreateInternalTransfer`, `PatchTransaction` | same names |
| `RetrySourceParse`, `StageSourceDeletion` | `RetrySourceParse`, `DeleteSource` |

`Decisions(s)` is the set of outcomes `reconciliation.Reconcile` may return for
the transactions of the moment: create only when nothing matches, attach only
when exactly one row does, review or dangling in any case (they depend on the
Account and the amount of evidence, which are not modelled). Matching is an
equivalence here, `Event`; the code matches within a time window, which is not
transitive, so for three or more sources the model says less than the code.
The model's answer and the parser rules are nondeterministic. `PatchTransaction`
either keeps a transaction recognisable or takes it away from its event.

Left out: transactions the browser inserts directly, bulk-import evidence, the
audit of parse attempts, listing endpoints, cascades from Accounts. The lock
that keeps a deletion away from a running ingestion is in `GmailIngestion`.

### 3.4 BulkImport

Every transaction is an operator from database to database (`LoadOriginals`,
`RecordPrepared`, `RecordChunkResult`, `AggregateDocument`, ...); `Commit`
applies it only if the lifecycle checks of the tables hold of the result. A
worker takes one transaction per step, and its program position says what its
handler does next with what it read.

| Code | Action |
|---|---|
| `Handler.Handle`, `IsCancelled` | `Check` |
| `Handler.prepare` | `Prepare`, `RenderFails`, `RenderSucceeds`, `RecordPages` |
| `Handler.parseChunk` | `StartChunk`, `ParseFails`, `ParseSucceeds`, `RecordAnswer` |
| `AggregateDocument` with `DedupeV1` | `Aggregate` |
| `ReconcileBulkCandidate` | `Reconcile` |
| `Handler.postProcess` | `PostProcess`, `Settle` |
| `Claim`, `Complete`, `Retry`, `markTerminalJobFailure`, `refreshBulkBatchProgress` | `Claim`, `ClaimNothing`, `Complete`, `Retry` (with `Reaped`, `MarkTerminalFailure`, `Refresh`) |
| a lease that runs out | `Crash`, `Stall`, `Abandon` |
| `CancelBatch`, `RetryDocument`, `DeleteBulkDocument`, `StageSourceDeletion` | `CancelBatch`, `RetryDocument`, `AskDeletion`, `StageDeletion` |
| `ResolveBulkCandidate` | `SetAccount`, `Attach`, `Create`, `CreateTransfer` |

A purchase stands for account, direction, amount, currency and day, which is
what `matchBulkTransactions` compares. It also matches rows whose currency is
empty (`transactionstore/bulk.go:264`), which the model does not have. `doubts`
says why a candidate goes to the user although it is read well: its kind (a
possible transfer, a bill line of the wrong direction), what it matches (other
line items, no payment of the bill), or that it matches nothing and is not
reliable enough to create from (`NeedsUser`). A chunk has at most one purchase. `cut` numbers the
sets of chunk rows of a document: `RecordPrepared` deletes the old ones, and a
job that names them finds nothing. A claim first ends all jobs that ran out on
their last attempt, in one statement, and then marks what they were about, one
after the other in the order the statement returned them (`Reapings` has every
order). Left out: templates and snapshots, page
images, the statement-specific branch of reconciliation, counters other than
whether something failed.

### 3.5 BulkUpload

A request of the browser is as many steps as it has transactions and calls to
the bucket, and each tab has one request at a time (`calls[t]`); the API may
die between two steps (`Abandon`).

| Code | Action |
|---|---|
| `ReserveFile` (rows, then the signature) | `ReserveFile`, `CreateSignedUpload`, `MarkReservationFailed` |
| the browser's upload, under the signature or the storage policy | `Put` |
| `FinalizeFile` (rows, object, row) | `FinalizeFile`, `StatObject`, `MarkFinalized` |
| `ReplaceDocumentLayout`, `SubmitBatch`, `CancelBatch` | same names |
| `DeleteBulkDocument` of a draft, `DeleteBulkBatch` | `DeleteDocument`, `DeleteBatch`, `SweepReads`, `DeleteRow`, `SweepEnds` |
| `handleSourceAttachmentCleanup` | `Clean`, any number of times per job |
| `reservation_expires_at` | `Expire` |

A file, the document reserved for it and the path of its object share one
number; `StatObject` builds the path from the document the file is in when the
request reads it, as the code does. Nothing keeps a deletion apart from the
other requests: it reads a document and its files, and deletes the row by its id
in a later step, while any other tab submits, regroups or deletes in between.
`torn` is a history variable: the files whose cleanup a deletion queued although
a layout had moved them to another document since they were read (`Tears`).

### 3.6 CardBills

A transaction that searches the ledger is two steps: the search, which leaves
what it found locked (`flight`), and the writes with the deferred triggers
(`Legal`). `FOR UPDATE` returns a row after the wait although another
transaction has linked it meanwhile; `Held` and `Fly` keep exactly that.

| Code | Action |
|---|---|
| `ProjectBillFromBulk` | `Project` |
| `CorrectHeader`, `AttachLine`, `CreateFromLine`, `IgnoreLine` and `resolvePayment` | `Mutate`, then `CommitSearch` or `Rollback` |
| `SelectPaymentCandidate`, `PayInFull`, `VoidBill`, `DiscardReviewBill` | `SelectPayment`, `PayInFull`, `VoidBill`, `DiscardReviewBill` |
| `ConfirmPaymentCandidate` | `Confirm`, `CommitConfirm` |
| `ClaimIdempotency`: replay, expiry | `Replay`, `Expire` |
| edits, transfers, treatments and archival by the user | `EditAmount`, `MakeTransfer`, `Treat`, `Archive` |

A request remembers the bill its client saw (`view`), so a mutation can be
compared with what the user decided on; it may be delivered any number of
times, and its answers are collected; an error such as 409 is not an answer and
changes nothing. A header is its amount due, which stands for currency and dates
too, so a search finds what has the amount. `BillIsValid` lets an equal amount
stand for the whole comparison of the trigger, which looks at the distance of the
two legs in time and not at the window of the bill
(`20260904043721_create_account_balances_and_credit_card_bills.sql:685-725`):
an edit of a date that this trigger lets pass is not a step here. A bill
has at most one line.

### 3.7 OpeningBalances

| Code | Action |
|---|---|
| `Service.SetOpeningBalance` before the transaction | `Validate` |
| `Store.ReplaceOpeningBalance` | `Replay`, `Replace` |
| `Service.GetBalance`, `ListBalances`: accounts, then movements of each | `ReadAccounts`, `View` |
| client: request, repeated request | `Send`, `SendAgain` |
| transactions confirmed, moved, deleted | `Book`, `Transfer`, `Unbook` |
| the clock; a key's record expires | `Tick`, `Expire` |

Amounts are integers of the width given by `Top`; `Add` wraps around where the
code would, and `Overflows` is the test that keeps it from happening.

## 4. The runs

Every property of a passing run has a mutant, a plausible bug in one definition
that TLC finds with the run's own configuration; the mutated definitions stand
before the original and are marked `MUTANT`.

| Run | Instance | Shows |
|---|---|---|
| `queue_safety` | 2 workers with clocks one tick ahead and one behind, an ordinary and a cleanup row, 2 attempts, lease 4, heartbeat 1 | `IInv`, `NoRowIsStranded`, `HealthyWorkerKeepsLease`, `OnlyLatestAttemptFinishes`, `LeaseIsExclusive`, and the refinement `ImplementsContract` |
| `queue_liveness` | the same rows, synchronous clocks, lease 2 | `OrdinaryJobSettles`, `CleanupIsDone` |
| `gmail_safety` | 2 workers, 2 messages (one with an attachment), 1 run of 2 attempts | `CursorSkipsNothing`, `DeletedStaysDeleted`, `ParseFindsAttachment`, `TerminalRunsAreFinal` with a stale worker |
| `gmail_refreshes` | 1 worker, 2 messages, 2 runs | `NextRefreshRepairs` and, under fairness, `SyncRunEnds` |
| `source_races` | 2 workers, 2 sources of one purchase, 2 transactions, 1 user request | `OneAutomaticTransactionPerEvent`, `DeletionSparesOtherEvidence` |
| `source_requests` | 2 workers, 1 source, 2 transactions, 2 attempts, 2 requests | `QueueHasNoLinks`, `TwoLinksAreATransfer`, `QueuedStaysWithTheUser` and, under fairness, `SourceSettles` |
| `bulk_pipeline` | 1 document of 2 chunks, 2 workers one of which may die, 2 attempts | `NothingParsedIsLost` and, under fairness, `DocumentsSettle` |
| `bulk_requests` | 2 documents, 2 workers one of which may be stale, 1 attempt, 2 generations, 1 request | `OneTransactionPerPurchase`, `SettledHasEvidence`, `ClosedBatchIsQuiet`, `TerminalDocumentsStay` |
| `bulk_upload` | 2 tabs, 2 files | `RowsFit`, `SubmittedIsStored`, `PdfsStandAlone` |
| `card_bills` | 2 bills, 2 bank debits, 2 amounts, 1 key, 2 requests, 2 edits | `PaidIsExactAndExcluded`, `SelectionIsHonoured`, `RepeatsChangeNothing`, `DecisionsAreInformed` |
| `balances` | 2 accounts, 2 keys, 2 requests sent twice, 2 changes of the ledger, width 2 | `RetriesApplyOnce`, `CorrectionsAreInformed`, `BalancesAreExact` |
| `bulk_cancel` | 1 worker, 1 document | violates `CancellationEnds` |

Further configurations are kept beside the runs. Each but the last two shows,
with a short trace, one of the divergences of section 6; the last two are further
instances that pass.

| Configuration | Module | Result |
|---|---|---|
| `GmailRepair` | `MCGmailIngestion` | violates `RetryRepairsSources` |
| `GmailReconnect` | `MCGmailIngestion` | violates `CursorIsOfConnection` |
| `SourceForgotten` | `MCSourceLifecycle` | violates `NoSourceIsForgotten` |
| `SourceUnmatch` | `MCSourceLifecycle` | violates `UnmatchReturnsToQueue` |
| `BulkCancelled` | `MCBulkImport` | violates `CancelledIsFinal` |
| `BulkRetry` | `MCBulkImport` | violates `ProgressCanBeSaved` |
| `BulkStale` | `MCBulkImport` | violates `DocumentsSettle` with a worker that goes on without its lease |
| `BulkDeleteRaces`, `BulkLateUpload` | `MCBulkUpload` | violate `SubmittedIsComplete` and `ObjectsAreAccounted` |
| `BillPayable` | `MCCardBills` | violates `UnpaidIsPayable` |
| `BalancesRetry`, `BalancesNeutral` | `MCOpeningBalances` | violate `RetriesReturnPriorResult` and `TransfersAreNeutral` |
| `SourceSharing` | `MCSourceLifecycle` | 2 sources, 2 transactions, 3 requests: passes |
| `SourceUnbounded` | `MCSourceLifecycle` | the properties of `source_requests` but `TwoLinksAreATransfer`, with 2 workers, 1 transaction and requests without a bound: passes |

### Bounds and why they are enough

* Two workers: every race of the queue is between the holder of a lease and one
  that takes over; a third one is a further takeover of the same kind. The
  proofs hold for any number.
* Two attempts: the first is not the last, the second is. A lease of 4 with a
  heartbeat of 1 and clocks off by one is the smallest that satisfies the
  assumption `LeaseTime > HeartbeatTime + 2 * MaxSkew`; the code's values are 5
  and 1 minutes.
* Two messages with `InitialMax` 1, `HistoryCap` 1 and `RecoveryCap` 2: the
  initial import is truncated, the History listing goes over its cap, and the
  recovery does not. One run of two attempts already lists by cursor after an
  import, because the cursor is stored before the run is completed.
* Two sources and two transactions: one source per side of every race, and the
  two legs of a transfer. Ids of transactions are bounded by `Tx` and never
  reused, so a create is impossible when `Free` is empty; this removes
  behaviours of the bound, not of the code, and no property needs them.
* `MaxRequests` bounds the user requests. In `source_requests` there are two of
  them, because `SourceSettles` depends on two workers and the state space of two
  workers, two transactions and any number of requests is too large;
  `SourceUnbounded` has no bound on the requests and one transaction instead.
* Bulk import: two chunks make a fan-in, two documents of one purchase a race
  for it, two generations a retry. `MaxLosses` 1 is one stale or dead worker; a
  second one repeats the takeover. One request at an arbitrary moment is every
  race of a request with the pipeline; races of two requests are not explored.
  `bulk_requests` has a single attempt: a worker that lost its lease goes on while
  the row is reaped, but no job is delivered a second time. Of redeliveries the
  theorems of `BulkImportProofs` speak, which have any number of attempts.
  `ClosedBatchIsQuiet` is about first generations, for the reason `BulkRetry`
  shows, and about whole transactions: a refresh that works on a snapshot others
  have overtaken does not occur in the model.
* Upload: with two files there is a layout that groups, splits, repeats a
  document and drops one, and with two tabs every request meets every other.
  Once a batch is cancelled the run follows it only while at most one tab waits for
  an answer (`CancelledIsCalm`): the request the other tab had sent before goes on,
  and later ones come one at a time. All three properties are theorems too, which
  have no such bound.
* Bills: two bills and two debits make a search ambiguous, a debit wanted
  twice and a transfer found twice; the requests repeat one key, and are two
  because every conflict of versions or keys is between two.
* Balances: with `Top = 1` the amounts -2 and 1 are the least and the greatest
  number of their width, so two movements overflow in either direction.
* Workers, sources, documents, bills, debits, tabs and keys are interchangeable
  in safety runs and declared symmetric there; runs with a liveness property
  use no symmetry.

Deadlock is checked for the queue, whose clock ticks for ever. The other
models may stop: the mailbox is finite, documents end, requests are used up.

### Fairness

* `JobQueue`: time passes; a process that is up starts, polls, sends its
  heartbeats and finishes (weak fairness), handlers return because every
  outbound call of the repository has a timeout; and a row that is claimable
  again and again is claimed (strong fairness), because the claim is ordered by
  `run_after, created_at` and so serves the row that is due for longest.
  That is the queue taken by itself. In the whole system a claim can fail: when it
  reaps a job of a document that was retried in a closed batch, the transaction is
  refused by `bulk_batches_lifecycle_check` (`BulkRetry` in section 6) and the
  poll ends in an error, again and again. `OrdinaryJobSettles` is not claimed there.
  `CleanupIsDone` also assumes that Storage recovers (`CleanupRecovers`): an
  attempt made again and again succeeds at some point with its lease intact.
  Without it a cleanup job is retried for ever, as the code intends.
* `GmailIngestion`: a worker does something while it can (a step or a failure),
  an abandoned lease lapses, a parse chain ends (which is
  `JobQueue!OrdinaryJobSettles`). Nothing is assumed of the user, of Google or
  of success.
* `BulkImport`: weak fairness of each worker: it goes on with its handler and
  takes jobs while there are any, which is the polling loop. The outcome of a
  step is not fair: a model that fails for ever makes a document fail.
  `DocumentsSettle` is checked with workers that die and are taken over; a worker
  that goes on without its lease breaks it (`BulkStale` in section 6).
* `SourceLifecycle`: the same for its workers. Users, crashes and lapses of
  leases that are worked on have no fairness. With that, `SourceSettles` says that
  a pending source is settled at some point (linked, in a queue, failed, or
  deleted), or is parsed while a worker at the end of its reconcile job has
  decided about it before it was parsed again (`DecidedBefore`). The exception
  is the case of `SourceForgotten` in section 6, and it occurs within the run: with
  one worker it cannot, and the same property without it fails.

## 5. What is proved

`JobQueueProofs` proves, with TLAPS and for every value of the constants that
satisfies `JobQueueAssumption` and `HeartbeatAssumption`:

| Theorem | Statement |
|---|---|
| `QueueInvariant` | `Spec => []IInv` |
| `QueueTypes`, `NoStrandedRows` | its parts `TypeOK` and `NoRowIsStranded` |
| `HealthyKeepsLease` | `Spec => []HealthyWorkerKeepsLease` |
| `LatestAttemptFinishes` | `Spec => OnlyLatestAttemptFinishes` |
| `ExclusiveLease` | `Spec => LeaseIsExclusive` |
| `QueueImplementsContract` | `Spec => ImplementsContract` |

`IInv` is the conjunction of

* `TypeOK` and `NoRowIsStranded`, which are wanted in themselves; the second
  also says that a row has an owner exactly while it runs, which every
  statement of the queue relies on;
* `HandsAreFull`: a process has a job in hand exactly between its claim and its
  return, without which the finishing actions would name no row and the
  refinement could not tell a lost attempt from one that is going;
* `LeaseIsFencing`: a row still leased under the name of the process that has
  it in hand is at the attempt this process was given. `leased_by` does not
  contain the attempt, so this is what `OnlyLatestAttemptFinishes` depends on:
  a process that lost a row cannot hold an older claim of it when it claims it
  again, because it claims one job at a time;
* `LeaseOutlivesBeat`: the lease of a healthy worker is at least
  `LeaseTime + Skew[w] - HeartbeatTime + beat[w]`. A due heartbeat
  (`beat[w] = 0`) then still has more than `MaxSkew` left, whichever clock looks
  at it; this is where `HeartbeatAssumption` is used. `HealthyWorkerKeepsLease`
  follows, and the step of `Claim` by another worker is impossible.

Each conjunct of `IInv` is preserved by a lemma of its own (`TypeStep`,
`StrandedStep`, `HandsStep`, `FencingStep`, `OutlivesStep`) with one step per
action; the action properties and the refinement (`ContractStep`) are proved
per action from `IInv`. The refinement
handles each row separately because `JobContract` lets several jobs take a step
at once, which a claim that reaps does.

`SourceLifecycleProofs` proves under `LifecycleAssumption`, for every set of
workers, sources and transactions and any number of requests and deliveries:

| Theorem | Statement |
|---|---|
| `QueuedIsNoEvidence` | `Spec => []QueueHasNoLinks` |
| `EvidenceIsOfOnePurchase` | `Spec => []TwoLinksAreATransfer` |
| `OneTransactionPerPurchase` | `Spec => []OneAutomaticTransactionPerEvent` |
| `QueuesAreTheUsers` | `Spec => QueuedStaysWithTheUser` |
| `DeletionsTakeNoEvidence` | `Spec => DeletionSparesOtherEvidence` |
| `LifecycleTypes` | `Spec => []TypeOK` |

`QueuedStaysWithTheUser` is about the way from a queue to `parsed`. A parse failure
that arrives late does take a source out of the queue, to `failed` (section 6).

All of them need `Types`: `TypeOK`, that a worker in a handler has a job of some
source in hand and, before it persists, a decision it has taken (`HandsFit`),
and that a queued job may still be tried (`JobsFit`), which bounds the attempts.

The two invariants about evidence are proved together, as `LinksFit`, with

* `UnmatchesHold`: the link an unmatch request has locked is still there when it
  commits, no other request has locked it, and it is the only one of its source
  if it was when the request looked. This is the window between
  `hasRemainingLink` and the commit. It holds because nothing is attached to a
  source that is evidence already (`LinkIsAdded`, `TransferKeepsLinks`), because
  a deletion spares transactions with other evidence (`DeletionSpares`) and
  because another request that removes the rest found this link. Without it
  `CommitUnmatch` could put a linked source into the Dangling queue.

`UnmatchesHold` says nothing of a request that did find other links: two of them
may each leave the source to the other, which is how `SourceUnmatch.cfg` breaks
`UnmatchReturnsToQueue`. `OneTransactionPerPurchase` rests on `CreatesForNone`: a
worker that carries out a create does so on rows of that moment none of which
matches, whatever it decided before. `Types` and `LinksFit` were model-checked
on the instance of `SourceSharing.cfg` before they were proved.

`GmailIngestionProofs` proves under `GmailAssumption`, for every set of workers,
accounts and messages, every order of arrival and any number of refreshes:

| Theorem | Statement |
|---|---|
| `EndedRunsStay` | `Spec => TerminalRunsAreFinal` |
| `DeletedMessagesStayDeleted` | `Spec => []DeletedStaysDeleted` |
| `AttachmentsPrecedeParsing` | `Spec => []ParseFindsAttachment` |
| `GmailTypeCorrect` | `Spec => []TypeOK` |
| `CursorsSkipNothing` | `Spec /\ []CursorIsOfConnection => []CursorSkipsNothing` |
| `RefreshesLoseNothing` | `OneAccount => (Spec => []CursorSkipsNothing)` |
| `RefreshesRepair` | `OneAccount => (Spec => []NextRefreshRepairs)` |

`EndedRunsStay` is about `RecordSyncFailure`, whose statement for the last attempt
has no guard on the status of the run. Its invariant `QueueFits` is

* `RunsFit`: a run exists with its job, has ended when its job has failed, and is
  complete only after its job is;
* `ClaimsFit`: a worker in the latest attempt of a job owns it, or the job was
  reaped and has failed. A worker that was given the last attempt is always in
  the latest one, because nothing is claimed beyond it; its job is then not
  complete, so by `RunsFit` neither is its run, and setting a failed run to failed
  changes nothing.

The next two share `MailFits`: a tombstone has no source, what has no source has
no parse job, only deleted messages are cleaned up, whatever was parsed is in the
bucket, and a handler between its upload and its enqueueing holds a message whose
object is there unless the message was deleted meanwhile (`Stored`), which it then
finds out because the source is missing. `HandleKeeps` says once what every step
of the handler does to its worker.

The last four are about the cursor and the listings. `Typed` gives the variables
their ranges and says what `TypeOK` does not: cursors and lists name only what has
arrived, whoever holds them, and a worker lists the mailbox it read the
connection of (`HandFits`). `CursorCovers` is what a cursor promises. A message is
`Handled` when no refresh owes it anything: it left Gmail, was deleted or left out
on purpose, or its source was queued for parsing. Every message up to a stored
cursor is handled (`CoveredTo`), and so is, of every worker, every message up to
the cursor it has read; every message up to the one it is about to store is
handled or still on its list (`Covers`). A worker that lost its lease is one of
them: it may store its older cursor late, and that one still covers what it
passes. `HandledStays` shows that nothing becomes unhandled again, `ListingCovers`
that a listing starts with everything it owes, `LoopCovers` that the loop gives
up a message only when it is handled.

A user who reconnects another account during a refresh breaks this: the refresh
stores a cursor of the old mailbox, and the next one lists the new mailbox from
there. That is the divergence `GmailReconnect` shows, so `CursorsSkipNothing`
has `CursorIsOfConnection` as its hypothesis, and with a single account
(`OneAccount`) the hypothesis is itself an invariant and falls away.

The listings are recursive functions over the arrivals (`Since`). That they are
defined and contain what they should is an induction, and the library's rules
for it take a predicate as a parameter, which the provers cannot instantiate.
`Induction` states them for sets instead: a set of counterexamples has a least
element. `SinceExists` and `SinceIsListing` refute the least one.

`BulkImportProofs` proves under `SizesAssumption`, for every set of documents,
workers and purchases and any number of chunks, attempts, generations, leases
that run out and requests:

| Theorem | Statement |
|---|---|
| `PipelineIsLawful` | `Spec => []PipelineInv` |
| `RowsFitTheirTables` | `Spec => []TypeOK` |
| `PurchasesAreCreatedOnce` | `Spec => []OneTransactionPerPurchase` |
| `SettledIsEvidenced` | `Spec => []SettledHasEvidence` |
| `FinishedBatchIsQuiet` | `Spec => []ClosedBatchIsQuiet` |
| `EndedDocumentsStay` | `Spec => TerminalDocumentsStay` |
| `NothingReadIsLost` | `Spec => []((\A d \in Documents : db.doc[d].gen = 1) => NothingParsedIsLost)` |

`PipelineInv` says of the tables that they are `Sound` and `Legal` and that a
closed batch is `Quiet`, and of every handler where it may be (`WorkersFit`).
`Sound` is

* `Shape`: the types of the rows, finitely many jobs, one job for a piece of work;
* `Evidenced`, of which `Single` and `Settled` are the two properties about
  evidence. They are not inductive alone. `KeysFit` and `NamesFit` say that the
  name of a candidate is new when it is inserted, and that a transaction of the
  present cut of a document is named after a candidate that is still there:
  otherwise a candidate could create a transaction under a name that is taken, by
  one that was read again after a second preparation. `OwnIsCreated`: if that
  candidate's own transaction exists, it reads created, so that an open candidate
  never creates twice. `LinksFit`: an evidence row is of the candidate it names and
  of a transaction that exists, which is why a deletion that removes automatic
  transactions without other evidence takes none from another document's candidate;
* `Vetted`: a document whose originals fail their verification has no jobs but
  prepare jobs and no candidates, and never gets beyond preparing.
  `RecordPrepareFailure` looks at the status no further than cancelled and failed,
  so this is why a late delivery of it cannot fail a document that has completed.

The proofs are about one transaction at a time, an operator from tables to
tables. A transaction leaves `Sound` tables and says what it did to the
documents and the batch: `Advances` for those that keep the chunks of a
document, `Follows` for those that replace them, `Resolution` for the user's,
`Touches` for a retry and a deletion. `FollowsIsLawful` and `TouchesIsLawful`
derive `Quiet` and `Fates`, what a step may do to a document that has ended, from
these, so that a step of a handler (`CommitIsLawful`), of the queue
(`QueueIsLawful`) or of the user has nothing else to show. `Legal` is checked by
the commit itself where the code leaves it to the check constraints; it is proved
where the model applies a request without a check (`RetryIsSound`,
`DeletionIsSound`, `Resolution`). What a claim reaps is a recursive function over
the expired jobs in any order (`Reaped`); `ReapedAdvances` refutes the least prefix
that leaves unsound tables. `PipelineInv` was model-checked on instances with two
chunks, unverifiable originals and three requests before it was proved.

`NothingReadIsLost` is about jobs that are delivered once, which
`NothingParsedIsLost` says itself (`losses = 0`), of documents that were not
retried. Its invariant, `OnceInv`, relates four tables and the handlers:

* `Held`: a row is queued, or it runs under the worker that has its work; a
  handler has such a row unless its document was deleted. So nothing is ever
  reaped, and no second handler has the same work.
* `Named`: a chunk job is of the present cut of its document.
* `Ahead`: what a handler has not done yet was not done by anybody. A document
  whose preparation is open has no other jobs and no candidates, an open chunk job
  finds its chunk without an answer, an open aggregation finds no candidates.
* `Behind`: only a valid chunk has an answer, an aggregation is queued when no
  chunk waits, and a document that has candidates or was aggregated has one for
  every answer.

As before the proof is about one transaction at a time. `Continues` holds of
those that read nothing (most of them), `Carries` of those that write a chunk,
`Recut` of `RecordPrepared`, `Gathered` of `AggregateDocument` and `Removed` of
the deletion. The finishing transactions take the row away or put it back in
line; they must not be refused by the check constraint (`RefreshIsLegal`,
`FailDocumentIsLegal`), or the job would be delivered again. That is where the
retry matters: in a batch that was closed before the retry they are refused.

`BulkUploadProofs` proves for every set of tabs and every limit on the files,
under `UploadAssumption`:

| Theorem | Statement |
|---|---|
| `RowsAlwaysFit` | `Spec => []RowsFit` |
| `PdfsAlwaysStandAlone` | `Spec => []PdfsStandAlone` |
| `SubmissionIsStored` | `Spec => []SubmittedIsStored` |

None of them assumes anything of the clients: deletions overlap every other
request. `RowsInv`, the invariant of the first two, is `Shape` (types; every request is about
files that exist) and `Arranged`, the conjunction of

* `FilesHaveDocuments`: the document of a file that is kept exists and stands,
  so that a layout, which deletes what it does not name, leaves no file behind;
* `OrdersDiffer`: the orders of the documents that stand differ and are below
  `file_count`, because `file_count` never shrinks and a layout numbers from 0 no
  more documents than there are files (`KeptBound`);
* `PdfsStandAlone` itself. `NumberedType` and `ArrangedLayout` are where the key
  on the order of the files is used: it makes the names of a layout differ,
  without which two entries could put a PDF beside another file.

`SubmittedIsStored` has one exception, the files in `torn`: a deletion read them
in its document, a layout moved them to another one, and the deletion then
removed the document and queued the cleanup of what it had read. The theorem
says that this is the only way to lose evidence of a submitted batch. It cannot be
proved from the status of the rows alone. A file is `Intact` when its object is in
the bucket as declared or it is torn; `StoredInv` follows that through every place
where the evidence can be lost:

* `DoomedAreTorn`: a file that is kept although its cleanup was queued is torn.
  Cleanup jobs, delivered however often, therefore take only objects of files that
  are gone or torn. This is the step at which a deletion finishes (`StoredRow`):
  the paths it dooms are of files in the document it deletes, which are kept no
  longer, or of files that have left it, which `Tears` records;
* `UploadedIsIntact` and `MarkedIsIntact`: a file is intact that is finalized, and
  one whose request has seen the object and has yet to update the row;
* `QueuedIsUploaded`: what a submitted batch keeps is finalized, also when a
  deletion that began before the submission takes a document out of it
  (`StoredWithout`).

That the batch keeps its files at all is not part of it: a deletion that read the
status of the draft before the submission deletes the row after it. The statement
without any exception is `SubmittedIsComplete`, which `BulkDeleteRaces.cfg` refutes.

`ShapeStep`, `RowsStep` and `StoredStep` have one step per action. The steps that
only move a request, or only change the status of a file, share `StoredFrame`
and `StoredCalls`; deletions share `StoredWithout`. The order in which a sweep
takes the documents is a `CHOOSE` of the community modules and is left opaque:
nothing proved depends on it. Both invariants were model-checked on the
instance of `bulk_upload` before they were proved.

`CardBillsProofs` proves under `BillsAssumption`, for every set of bills, debits,
amounts, statements and keys and any number of requests, edits and
projections:

| Theorem | Statement |
|---|---|
| `PaidStaysPaid` | `Spec => []PaidIsExactAndExcluded` |
| `SelectionsHold` | `Spec => []SelectionIsHonoured` |
| `RepeatsAreHarmless` | `Spec => []RepeatsChangeNothing` |
| `EffectsAreInformed` | `Spec => DecisionsAreInformed` |
| `RowsStayTyped` | `Spec => []TypeOK` |

Their common invariant `BillsInv` ties the tables, the requests and the
transactions under way together:

* `TablesFit`: the shape of the tables; a candidate is a row of the ledger and
  a bill has at most one that is selected, which with `PaymentCandidate` makes
  `TypeOK`'s "at most one candidate to confirm";
* `Paid`: a bill has a payoff exactly if it is paid, and it is an exact transfer
  with the system's treatment that no other bill has. `PaidCommit` shows why a
  commit keeps it: the ledger a transaction leaves differs in treatments and in
  the one leg it links (`Saved`), and the deferred triggers and the key on the
  payoffs (`Legal`) do the rest;
* `FlightFits`: a transaction holds the row its request names, at the version it
  names, and what it found is still in the ledger when it writes;
* `Seen`: what a client was shown is the present version of the row or an older
  one; if the version is the present one, so is the rest, candidates included.

Two theorems need an invariant of their own on top. `Repeats` is about requests
and idempotency records: a request that took effect or was answered is `Spent`,
the version it names has passed, and so is the version in the digest of every
record. That is why an expired record does no harm, and why the answer a replay
finds is the only one. `Honoured`: a selected debit has no credit leg. The step that
matters is `WroteHonours`: a confirmation that links the debit of another
bill's selection makes it the choice of two bills and is refused.

`BillsStep`, `RepeatsStep` and `HonouredStep` have one step per action; what the
statements write is in one lemma each (`SaveBillWrites`, `LockWrites`,
`LinkWrites`, `TransferWrites`, `DiscardWrites`), and every commit of a request
goes through `SucceedFits`.

`OpeningBalancesProofs` proves under `BalancesAssumption`, for every set of
accounts, amounts and keys and any number of requests, sendings and movements:

| Theorem | Statement |
|---|---|
| `BaselinesChangeAsShown` | `Spec => CorrectionsAreInformed` |
| `EachRequestAppliesOnce` | `Spec => []RetriesApplyOnce` |
| `ProjectionsFollowRevisions` | `Spec => []TypeOK` |

Their invariant `BalancesInv` relates the three places where a version is kept:

* `AccountsFit`: the version of a projection is the number of revisions, which
  is `TypeOK` with the shape of the variables;
* `RecordsFit`: an idempotency record answers with the version after the one its
  digest names. This is why a replay, whichever request it is for, answers with
  the version that request was to make;
* `RequestsFit`, of every request that sets a baseline: `IsInformed`, its client
  was shown the account as it was at the version it expects, so that the version
  check of the replacement compares baselines; `IsSpent`, once it took effect
  the version it expects is history, so that a key that expired between two
  sendings does no harm; `IsAnswered`, what it is about to answer and has
  answered is the version it made.

`EachRequestAppliesOnce` cannot do without `IsSpent`: the idempotency record
alone does not stop the second sending after `Expire`, the version does. The
step that matters is `ReplaceFits`; those of the steps that only move their
request share `RequestMoves`.

Only model-checked: everything temporal that needs fairness
(`OrdinaryJobSettles`, `CleanupIsDone`, `SyncRunEnds`, `SourceSettles`,
`DocumentsSettle`), which is beyond the prover; and `BalancesAreExact`, a sum in
the order of a sorted sequence against a sum in any order. `NothingParsedIsLost` is
proved for documents that were not retried. With a retry it does not hold for every
value of the constants: the jobs of the retry roll back at their end (`BulkRetry` in
section 6), so that a chunk that was read is delivered again and can be read once
more after the aggregation.

## 6. Where code and documentation disagree

Shown by a run:

* `bulk_cancel`, `bulkstore/postgres.go:500`. `CancelBatch` takes a document in
  a status of the pipeline for running work and sets the batch to cancelling,
  also when the only job of the document is queued and the request cancels it.
  Progress is refreshed only when a job ends, so the batch stays cancelling.
  `original_docs/features/bulk-insert/README.md:186` has it end at a safe
  boundary.

Shown by a configuration beside the runs:

* `GmailRepair`, `ingestion/gmail.go:83`. A retried initial import lists the
  newest messages again; a message stored by the first attempt but not yet
  queued may have been pushed out of that list. The retry succeeds and stores
  the current History ID, and the source stays pending.
  `original_docs/features/transactions/technical.md:61` says that a retry can
  repair a partially completed ingestion.
* `GmailReconnect`, `transactionstore/postgres.go:399`. A refresh that runs
  while the user reconnects replaces the reset cursor by one of the previous
  mailbox, so the bounded initial import promised by
  `original_docs/features/transactions/technical.md:28` does not happen.
* `SourceUnmatch`, `transactionstore/actions.go:281`. Two concurrent unmatch
  requests for both legs of a transfer each see the other's link; the source
  ends parsed, without evidence and in no queue, against the comment at
  `transactionstore/actions.go:259`.
* `SourceForgotten`, `transactionstore/reconciliation.go:320`. A running
  reconcile job that has decided already keeps `SaveParsedSource` from queueing
  a new one; after a failure and a retry in between the source is parsed,
  unlinked and without a job. `SourceSettles` names it as its exception
  (`DecidedBefore`).
* `BulkCancelled`, `bulkstore/worker.go:640`. A job that ends after the batch
  was cancelled refreshes it to completed;
  `original_docs/features/bulk-insert/README.md:174` describes cancelled as the
  end.
* `BulkRetry`, `bulkstore/postgres.go:550`. `RetryDocument` leaves a finished
  batch as it is. The next refresh finds an active document, clears
  `completed_at` and keeps the status, which `bulk_batches_lifecycle_check`
  refuses: every job of the retry rolls back at its end until its attempts are
  used up.
* `BulkLateUpload`, `bulkimport/service.go:131`. A signature outlives its
  reservation, so an object put after the cleanup ran belongs to nothing;
  `original_docs/features/bulk-insert/technical.md:298` says the cleanup
  workflow removes it.
* `BulkStale`, `bulkstore/worker.go:43` and `:423`. Neither the start of a chunk nor
  the report of its failure asks whether the worker still has the lease or the
  chunk still waits. A worker that lost its lease puts a chunk back to parsing or
  queued after the last delivery of its job has recorded the result and ended; the
  other chunk then finds one that waits, no aggregation is queued, and the document
  stays in parsing, its batch open for ever; to cancel it ends in `bulk_cancel`.
* `BulkDeleteRaces`, `transactionstore/bulk.go:428-447`. The deletion of a draft
  document reads its status and files, then deletes the row by its id alone. A
  submission in between loses a queued document; a layout in between queues the
  cleanup of a file that has moved and is still in use, or loses the path of one
  that has moved in.
* `BillPayable`, `creditcardstore/transfers.go` and the deferred candidate
  trigger. A suggestion stays although its debit was edited; the next write of
  the bill is then refused, Pay in full included, which
  `original_docs/features/account-balances/README.md:133` has always available.
* `BalancesRetry`, `accountbalances/service.go`. A matching retry is answered
  with a balance calculated anew;
  `original_docs/features/account-balances/technical.md:302` promises the prior
  result.
* `BalancesNeutral`, `accountbalances/service.go`. The list reads the movements
  of each Account by a query of its own, so a transfer in between shows one leg;
  `original_docs/features/account-balances/README.md:52` calls transfers
  neutral.

Known divergences without a configuration:

* `transactionstore/reconciliation.go:390` and `markTerminalJobFailure` set a
  source to failed without a look at its status, so a redelivered job can fail
  a source that is linked or waits in a queue; `documentation/data-flow.md:158`
  has only parsing lead there. `RecordParseError` and `ReapedStatus` model it.
* `transactionstore/source_admin.go:272` considers detached evidence too, so
  deleting a source can remove an automatic transaction the user had already
  unmatched from it; `original_docs/features/transactions/README.md:154` asks
  for final active evidence. `Affected` models it.
* `ingestion/gmail.go:145`: an upload by a worker that lost its lease may reach
  the bucket after the deletion of its source listed the objects, and nothing
  removes it. `Upload` and `DeleteSource` model it.
* Unmatching a bulk link. `UnmatchSourceLink` (`transactionstore/actions.go:262-297`)
  takes any evidence link, that of a bulk candidate as well. It keeps the row for
  the audit, detached, and sets the source of the document to dangling if no other
  link is left, while the candidate still reads attached or created. `BulkImport`
  has no such step: `SettledHasEvidence` is about the pipeline, the resolutions and
  the deletions, and counts no detached rows.
* Bulk pipeline. A chunk failure reported by a stale worker sets a valid chunk
  back to queued (`bulkstore/worker.go:423`); if it happens before the aggregation
  its purchase is lost, and `NothingParsedIsLost` is therefore stated for jobs
  delivered once. A second prepare delivery deletes chunks, candidates and their
  evidence while transactions stay (`RecordPrepared`). A retried generation that
  meets the evidence of the earlier one ends in a conflict instead of attached
  (`EvidenceFree`). Resolving a candidate of an earlier generation writes its
  counters over those of the current one (`Outcome`). Originals that failed their
  verification are left `cleanup_pending`, so every retry fails
  (`RecordPrepareFailure`). Cancelling while the first prepare job runs is
  refused by `bulk_batches_lifecycle_check` because the batch has not started.
* Upload. A file moved to another document before it is finalized cannot be
  finalized any more, because `FinalizeFile` builds the path from the scope of the
  document it is in (`ObjectFits`). An expired or failed reservation blocks the
  submission until its document is removed. `file_count` of a draft never falls, so
  a draft with many deletions runs into the limit.
* Bills. `original_docs/features/account-balances/technical.md:281` lets a Review
  bill be voided, `VoidBill` only an Unpaid one; `technical.md:297` says that
  selecting dismisses nothing, the code dismisses the alternatives
  (`SelectPayment`). A voided bill still blocks its period. A Review bill with two
  exact transfers has no operation to choose one. A projection whose line was
  attached by another bill meanwhile fails at every delivery.
* Balances. The service tolerates a moment one second ahead, the trigger none
  (`NotAhead`). A sum that overflows on the way is refused although the total
  would fit, depending on the order; one such Account fails the whole list.
  `SetUserTreatment` checks the line items outside of its transaction.

## 7. Running

In this directory, with TLC and TLAPS installed:

    tlc -config JobQueueSafety.cfg MCJobQueue
    tlc -config GmailSafety.cfg MCGmailIngestion
    tlc -config BulkRequests.cfg MCBulkImport
    tlc -config CardBills.cfg MCCardBills
    tlapm JobQueueProofs.tla

`PROJECT.json` names the module, configuration and expected result of every
run. The longest ones take about three minutes with two TLC workers.

## 8. Not modelled

* The HTTP layer (`transactions/http.go`, `bulkimport/http.go` beyond its order
  of calls), authentication, configuration, secrets and database plumbing:
  decoding and wiring around operations that are modelled.
* The Gmail client's HTTP and MIME decoding, e-mail sanitising, the model
  provider client, bulk decoding and prompts, the script engine: conversions
  without shared state. Their results are the inputs of the models.
* The scoring and corroboration of `reconciliation/`: the models let it return
  any decision its guards allow for the rows that match.
* Settings, parser rules, global rules and prompts: single-row updates guarded
  by a version. OAuth state: one guarded delete.
* In the bulk import, the user's unmatch of a bulk link (section 6), rows without a
  currency, templates, snapshots, page images and the statement branch
  of reconciliation; in the bills, several lines per bill and refunds; in the
  balances, line-item exclusions.
* Lock acquisition: transactions are atomic steps, so deadlocks that PostgreSQL
  breaks by aborting one of them appear as failed steps only.
* The browser application. Its requests are the user's actions of the models.
