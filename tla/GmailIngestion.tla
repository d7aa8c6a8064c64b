--------------------------- MODULE GmailIngestion ---------------------------
(***************************************************************************)
(* One user's Gmail refreshes: the mailbox, the stored connection and its  *)
(* cursor, the sync runs with their ingestion jobs, the ingestion handler  *)
(* of ingestion/gmail.go step by step in every worker, the sources it      *)
(* stores, their attachments and their parse jobs.                         *)
(*                                                                         *)
(* One action is one SQL transaction or one external call.  The queue is   *)
(* the one of module JobQueue with time left out: a lease of a running job *)
(* may lapse at any moment (also while its owner still runs the handler,   *)
(* which then is a stale worker), and a lapsed job can be claimed again or *)
(* reaped.  A parse job stands for the chain of source_parsing and         *)
(* reconciliation jobs of its source: each link of that chain is inserted  *)
(* by the transaction before the previous one is finished.                 *)
(***************************************************************************)
EXTENDS Integers, Sequences, FiniteSets, Functions

CONSTANTS
    Workers,        \* worker processes
    Boxes,          \* Google accounts the user may connect
    Messages,       \* Gmail messages under the configured label
    Mail,           \* [Boxes -> Seq(Messages)]: the order of arrival
    Attached,       \* the messages that carry a supported attachment
    InitialMax,     \* GMAIL_INITIAL_BACKFILL_MAX (five)
    HistoryCap,     \* events in maxHistoryPages * historyPageSize
    RecoveryCap,    \* messages in maxRecoveryPages pages
    MaxAttempts,    \* max_attempts of the ingestion job
    MaxRuns,        \* bound: sync runs the user may start
    None            \* null

Runs == 1 .. MaxRuns

\* The sync_run_id of a job that the user queued from "Failed sources".
NoRun == 0

\* A History cursor belongs to the mailbox it was read from.
Cursor == [box : Boxes, id : Nat]

ASSUME GmailAssumption ==
    /\ Mail \in [Boxes -> Seq(Messages)]
    /\ \A b, c \in Boxes : b # c => Range(Mail[b]) \cap Range(Mail[c]) = {}
    /\ \A b \in Boxes : Cardinality(Range(Mail[b])) = Len(Mail[b])
    /\ Attached \subseteq Messages
    /\ {InitialMax, MaxAttempts, MaxRuns} \subseteq Nat \ {0}
    /\ {HistoryCap, RecoveryCap} \subseteq Nat
    /\ None \notin Workers \cup Boxes \cup Messages \cup Nat \cup Cursor

VARIABLES
    arrived,    \* [Boxes -> Nat]: messages so far; also the History ID
    gone,       \* SUBSET Messages: deleted by the user in Gmail
    conn,       \* private.gmail_connections: the account and sync_cursor
    run,        \* [Runs -> RunRow]: public.transaction_sync_runs
    job,        \* [Runs -> JobRow]: the gmail_ingestion job of each run
    source,     \* [Messages -> parse_status]: private.data_sources
    meta,       \* [Messages -> storage status in raw_data.attachments]
    parse,      \* [Messages -> run of the active parse job, or None]
    tomb,       \* SUBSET Messages: private.deleted_provider_messages
    objects,    \* SUBSET Messages: whose attachment is in the bucket
    cleanup,    \* SUBSET Messages: with a source_attachment_cleanup job
    beyond,     \* history: messages an initial import left out by design
    at          \* [Workers -> Local]: where each worker is in Handle

mailbox == <<arrived, gone>>
queue   == <<run, job>>
store   == <<source, meta, parse, tomb, objects, cleanup>>
vars    == <<mailbox, conn, queue, store, beyond, at>>

Active == {"queued", "running"}

RunRow == [status : {"absent", "completed", "failed"} \cup Active,
           ingested : BOOLEAN]

JobRow == [status : {"absent", "completed", "failed"} \cup Active,
           attempts : 0 .. MaxAttempts, owner : Workers \cup {None},
           leased : BOOLEAN]

\* Positions in Handle: before its calls, inside the loop over the refs
\* ("each" .. "enqueue"), and after Handle has returned ("finish", "retry").
Position == {"idle", "start", "connect", "list", "newest", "whole", "each",
             "upload", "metadata", "enqueue", "complete", "failing",
             "finish", "retry"}

Handling == Position \ {"idle", "failing", "finish", "retry"}

Local == [pos : Position, run : Runs \cup {None}, attempt : 0 .. MaxAttempts,
          box : Boxes \cup {None}, cursor : Cursor \cup {None},
          refs : Seq(Messages), next : Cursor \cup {None}]

Idle == [pos |-> "idle", run |-> None, attempt |-> 0, box |-> None,
         cursor |-> None, refs |-> << >>, next |-> None]

Goto(w, p) == at' = [at EXCEPT ![w].pos = p]

Init ==
    /\ arrived = [b \in Boxes |-> 0]
    /\ gone = {}
    /\ conn = [box |-> None, cursor |-> None]
    /\ run = [r \in Runs |-> [status |-> "absent", ingested |-> FALSE]]
    /\ job = [r \in Runs |-> [status |-> "absent", attempts |-> 0,
                              owner |-> None, leased |-> FALSE]]
    /\ source = [m \in Messages |-> "absent"]
    /\ meta = [m \in Messages |-> "none"]
    /\ parse = [m \in Messages |-> None]
    /\ tomb = {}
    /\ objects = {}
    /\ cleanup = {}
    /\ beyond = {}
    /\ at = [w \in Workers |-> Idle]

----------------------------------------------------------------------------
(* The mailbox, and what Gmail answers.                                    *)

\* A message gets the label; the mailbox's History ID grows.
Arrive(b) ==
    /\ arrived[b] < Len(Mail[b])
    /\ arrived' = [arrived EXCEPT ![b] = @ + 1]
    /\ UNCHANGED <<gone, conn, queue, store, beyond, at>>

\* The owner of the mailbox deletes a message.
Vanish(b) ==
    \E i \in 1 .. arrived[b] :
        /\ Mail[b][i] \notin gone
        /\ gone' = gone \cup {Mail[b][i]}
        /\ UNCHANGED <<arrived, conn, queue, store, beyond, at>>

Now(b) == [box |-> b, id |-> arrived[b]]

\* The messages after an ID that Gmail still has, in their order of arrival.
Since(b, id) ==
    LET upTo[i \in 0 .. arrived[b]] ==
            IF i <= id THEN << >>
            ELSE IF Mail[b][i] \in gone THEN upTo[i - 1]
            ELSE Append(upTo[i - 1], Mail[b][i])
    IN  upTo[arrived[b]]

Listed(b) == Since(b, 0)

\* Newest first, as every listing returns its refs.
NewestFirst(s) == [i \in DOMAIN s |-> s[Len(s) + 1 - i]]

Newest(b, k) ==
    LET all == NewestFirst(Listed(b))
    IN  SubSeq(all, 1, IF k < Len(all) THEN k ELSE Len(all))

\* History after an ID: the added messages whose metadata still exists.
Added(b, id) == NewestFirst(Since(b, id))

----------------------------------------------------------------------------
(* The user, through the API.                                              *)

\* UpsertGmailConnection after the OAuth callback, possibly for another
\* account; it takes no lock and does not look at the runs.
Connect(b) ==
    /\ conn.box # b \/ conn.cursor # None
    /\ conn' = [box |-> b, cursor |-> None]
    /\ UNCHANGED <<mailbox, queue, store, beyond, at>>

CreateSyncRun(r) ==
    /\ run[r].status = "absent"
    /\ \A q \in Runs : q < r => run[q].status # "absent"
    /\ \A q \in Runs : run[q].status \notin Active
    /\ conn.box # None
    /\ run' = [run EXCEPT ![r].status = "queued"]
    /\ job' = [job EXCEPT ![r].status = "queued"]
    /\ UNCHANGED <<mailbox, conn, store, beyond, at>>

\* RetrySourceParse: only a failed source, and its job belongs to no run.
RetrySourceParse(m) ==
    /\ source[m] = "failed"
    /\ parse[m] = None
    /\ source' = [source EXCEPT ![m] = "pending"]
    /\ parse' = [parse EXCEPT ![m] = NoRun]
    /\ UNCHANGED <<mailbox, conn, queue, meta, tomb, objects, cleanup,
                   beyond, at>>

\* refreshSyncRunProgress: the last finished job of an ingested run ends it.
Refreshed(rn, jb, pr, r) ==
    IF /\ r \in Runs
       /\ rn[r].ingested
       /\ rn[r].status \in Active
       /\ jb[r].status \notin Active
       /\ \A m \in Messages : pr[m] # r
    THEN [rn EXCEPT ![r].status = "completed"]
    ELSE rn

SyncRunOfJobs(m) == parse[m]

\* MUTANT: the deletion leaves the run of the cancelled job alone.
IgnoresRun(m) == run

\* The end of StageSourceDeletion: the runs of the cancelled jobs.
RunAfterDeletion(m) ==
    Refreshed(run, job, [parse EXCEPT ![m] = None], SyncRunOfJobs(m))

\* What the metadata calls stored, and what lies under the source's prefix.
SourceObjectPaths(m) ==
    IF m \in objects \/ meta[m] = "stored" THEN {m} ELSE {}

\* StageSourceDeletion: refused during an ingestion; writes the tombstone,
\* cancels and removes the jobs of the source, queues the cleanup of every
\* object found under the source's prefix and refreshes the jobs' run.
DeleteSource(m) ==
    /\ source[m] # "absent"
    /\ \A r \in Runs : job[r].status \notin Active
    /\ tomb' = tomb \cup {m}
    /\ source' = [source EXCEPT ![m] = "absent"]
    /\ meta' = [meta EXCEPT ![m] = "none"]
    /\ parse' = [parse EXCEPT ![m] = None]
    /\ cleanup' = cleanup \cup SourceObjectPaths(m)
    /\ run' = RunAfterDeletion(m)
    /\ UNCHANGED <<mailbox, conn, job, objects, beyond, at>>

----------------------------------------------------------------------------
(* The other handlers, as far as ingestion can see them.                   *)

\* The chain of parse and reconcile jobs of a source ends.
ParseSettles(m, outcome) ==
    /\ parse[m] # None
    /\ source' = [source EXCEPT ![m] = outcome]
    /\ parse' = [parse EXCEPT ![m] = None]
    /\ run' = Refreshed(run, job, parse', parse[m])
    /\ UNCHANGED <<mailbox, conn, job, meta, tomb, objects, cleanup, beyond,
                   at>>

\* The attachment cleanup job deletes the object and then its own row.
CleanUp(m) ==
    /\ m \in cleanup
    /\ objects' = objects \ {m}
    /\ cleanup' = cleanup \ {m}
    /\ UNCHANGED <<mailbox, conn, queue, source, meta, parse, tomb, beyond,
                   at>>

----------------------------------------------------------------------------
(* The queue, for the ingestion jobs.                                      *)

\* A lease is not renewed in time: its owner crashed, was paused or could
\* not reach the database.
LeaseLapses(r) ==
    /\ job[r].leased
    /\ job' = [job EXCEPT ![r].leased = FALSE]
    /\ UNCHANGED <<mailbox, conn, run, store, beyond, at>>

Lapsed(r) == job[r].status = "running" /\ ~job[r].leased

Dead == {r \in Runs : Lapsed(r) /\ job[r].attempts >= MaxAttempts}

\* MUTANT: the attempts are not counted against the limit.
ClaimsForever(r) == job[r].status = "queued" \/ Lapsed(r)

Claimable(r) == \/ job[r].status = "queued"
                \/ Lapsed(r) /\ job[r].attempts < MaxAttempts

Released(status, attempts) ==
    [status |-> status, attempts |-> attempts, owner |-> None,
     leased |-> FALSE]

Failed(rn, r) == IF rn[r].status \in Active
                 THEN [rn EXCEPT ![r].status = "failed"] ELSE rn

\* reapExpiredFinalAttempts, the first statement of every claim.
ReapedJobs == [r \in Runs |->
    IF r \in Dead THEN Released("failed", job[r].attempts) ELSE job[r]]

ReapedRuns == [r \in Runs |-> IF r \in Dead THEN Failed(run, r)[r] ELSE run[r]]

Claim(w, r) ==
    /\ at[w].pos = "idle"
    /\ Claimable(r)
    /\ job' = [ReapedJobs EXCEPT
                  ![r] = [status |-> "running", attempts |-> @.attempts + 1,
                          owner |-> w, leased |-> TRUE]]
    /\ run' = ReapedRuns
    /\ at' = [at EXCEPT ![w] = [Idle EXCEPT !.pos = "start", !.run = r,
                                   !.attempt = job[r].attempts + 1]]
    /\ UNCHANGED <<mailbox, conn, store, beyond>>

\* A claim that finds nothing to do still commits what it reaped.
ClaimNothing(w) ==
    /\ at[w].pos = "idle"
    /\ Dead # {}
    /\ \A r \in Runs : ~Claimable(r)
    /\ job' = ReapedJobs
    /\ run' = ReapedRuns
    /\ UNCHANGED <<mailbox, conn, store, beyond, at>>

\* A live lease under this worker's name, on any attempt.
Owns(w) == LET j == job[at[w].run]
           IN  j.status = "running" /\ j.owner = w /\ j.leased

\* Complete: refused (an error the loop logs) without the lease.
CompleteJob(w) ==
    LET r == at[w].run IN
    /\ at[w].pos = "finish"
    /\ IF Owns(w)
       THEN /\ job' = [job EXCEPT ![r] = Released("completed", @.attempts)]
            /\ run' = Refreshed(run, job', parse, r)
       ELSE UNCHANGED queue
    /\ at' = [at EXCEPT ![w] = Idle]
    /\ UNCHANGED <<mailbox, conn, store, beyond>>

\* Retry: back to the queue, or terminal on the last attempt.
RetryJob(w) ==
    LET r == at[w].run IN
    /\ at[w].pos = "retry"
    /\ IF ~Owns(w)
       THEN UNCHANGED queue
       ELSE IF job[r].attempts >= MaxAttempts
       THEN /\ job' = [job EXCEPT ![r] = Released("failed", @.attempts)]
            /\ run' = Failed(run, r)
       ELSE /\ job' = [job EXCEPT ![r] = Released("queued", @.attempts)]
            /\ UNCHANGED run
    /\ at' = [at EXCEPT ![w] = Idle]
    /\ UNCHANGED <<mailbox, conn, store, beyond>>

\* The process dies, or its context is cancelled because the lease is lost:
\* nothing more is written.
Crash(w) ==
    /\ at[w].pos # "idle"
    /\ at' = [at EXCEPT ![w] = Idle]
    /\ UNCHANGED <<mailbox, conn, queue, store, beyond>>

----------------------------------------------------------------------------
(* The ingestion handler.                                                  *)

StartSyncRun(w) ==
    /\ at[w].pos = "start"
    /\ run' = IF run[at[w].run].status = "queued"
              THEN [run EXCEPT ![at[w].run].status = "running"] ELSE run
    /\ Goto(w, "connect")
    /\ UNCHANGED <<mailbox, conn, job, store, beyond>>

\* accessToken: the account and the cursor are read once, here.
ReadConnection(w) ==
    /\ at[w].pos = "connect"
    /\ at' = [at EXCEPT ![w].pos = "list", ![w].box = conn.box,
                         ![w].cursor = conn.cursor]
    /\ UNCHANGED <<mailbox, conn, queue, store, beyond>>

\* initialLabelMessages, first request: the profile's History ID.
CaptureHistory(w) ==
    /\ at[w].pos = "list"
    /\ at[w].cursor = None
    /\ at' = [at EXCEPT ![w].pos = "newest", ![w].next = Now(at[w].box)]
    /\ UNCHANGED <<mailbox, conn, queue, store, beyond>>

\* ... second request: the newest messages under the label.
ListNewest(w) ==
    LET newest == Newest(at[w].box, InitialMax) IN
    /\ at[w].pos = "newest"
    /\ at' = [at EXCEPT ![w].pos = "each", ![w].refs = newest]
    /\ beyond' = IF at[w].cursor = None
                 THEN beyond \cup (Range(Listed(at[w].box)) \ Range(newest))
                 ELSE beyond
    /\ UNCHANGED <<mailbox, conn, queue, store>>

\* MUTANT: over the cap, what was read is kept and the cursor moves on.
KeepsPartOfHistory(w) ==
    LET added == Added(at[w].box, at[w].cursor.id) IN
    /\ at[w].pos = "list"
    /\ at[w].cursor # None
    /\ at' = [at EXCEPT ![w].pos = "each", ![w].next = Now(at[w].box),
                         ![w].refs = IF Len(added) > HistoryCap
                                     THEN SubSeq(added, 1, HistoryCap)
                                     ELSE added]
    /\ UNCHANGED <<mailbox, conn, queue, store, beyond>>

\* historyAddedMessages; over the cap it is an error (see Errs).
ListHistory(w) ==
    /\ at[w].pos = "list"
    /\ at[w].cursor # None
    /\ arrived[at[w].box] - at[w].cursor.id <= HistoryCap
    /\ at' = [at EXCEPT ![w].pos = "each", ![w].next = Now(at[w].box),
                         ![w].refs = Added(at[w].box, at[w].cursor.id)]
    /\ UNCHANGED <<mailbox, conn, queue, store, beyond>>

\* Gmail no longer knows the History ID: recoverLabelMessages starts.
HistoryExpired(w) ==
    /\ at[w].pos = "list"
    /\ at[w].cursor # None
    /\ at' = [at EXCEPT ![w].pos = "whole", ![w].next = Now(at[w].box)]
    /\ UNCHANGED <<mailbox, conn, queue, store, beyond>>

ListWhole(w) ==
    /\ at[w].pos = "whole"
    /\ Len(Listed(at[w].box)) <= RecoveryCap
    /\ at' = [at EXCEPT ![w].pos = "each",
                         ![w].refs = NewestFirst(Listed(at[w].box))]
    /\ UNCHANGED <<mailbox, conn, queue, store, beyond>>

\* Refs that need no more work: 404 from Gmail, or a tombstone.
SkipMessage(w) ==
    /\ at[w].pos = "each"
    /\ at[w].refs # << >>
    /\ Head(at[w].refs) \in gone \cup tomb
    /\ at' = [at EXCEPT ![w].refs = Tail(@)]
    /\ UNCHANGED <<mailbox, conn, queue, store, beyond>>

\* MUTANT: a source is stored without a look at the tombstones.
IgnoresTombstone(m) == TRUE

\* The test of private.deleted_provider_messages under the user lock.
NotDeleted(m) == m \notin tomb

\* MUTANT: the parse job is queued before the attachment is uploaded.
QueuesBeforeUpload(m) == "enqueue"

\* Attachments are persisted before the parse job is queued.
AfterStore(m) == IF m \in Attached THEN "upload" ELSE "enqueue"

\* MUTANT: a duplicate needs no more work.
SkipsDuplicates(w) ==
    LET m == Head(at[w].refs) IN
    /\ at[w].pos = "each"
    /\ at[w].refs # << >>
    /\ m \notin gone
    /\ NotDeleted(m)
    /\ source[m] = "absent" => run[at[w].run].status \in Active
    /\ source' = [source EXCEPT ![m] = IF @ = "absent" THEN "pending" ELSE @]
    /\ at' = IF source[m] # "absent"
             THEN [at EXCEPT ![w].refs = Tail(@)]
             ELSE [at EXCEPT ![w].pos = AfterStore(m)]
    /\ UNCHANGED <<mailbox, conn, queue, meta, parse, tomb, objects, cleanup,
                   beyond>>

\* GetMessage, then StoreIngestedSource (or FindIngestedSourceID of a source
\* an earlier attempt stored).  A new row needs an active run.
StoreMessage(w) ==
    LET m == Head(at[w].refs) IN
    /\ at[w].pos = "each"
    /\ at[w].refs # << >>
    /\ m \notin gone
    /\ NotDeleted(m)
    /\ source[m] = "absent" => run[at[w].run].status \in Active
    /\ source' = [source EXCEPT ![m] = IF @ = "absent" THEN "pending" ELSE @]
    /\ Goto(w, AfterStore(m))
    /\ UNCHANGED <<mailbox, conn, queue, meta, parse, tomb, objects, cleanup,
                   beyond>>

\* Upload to the deterministic path; the source is not looked at.
Upload(w) ==
    /\ at[w].pos = "upload"
    /\ objects' = objects \cup {Head(at[w].refs)}
    /\ Goto(w, "metadata")
    /\ UNCHANGED <<mailbox, conn, queue, source, meta, parse, tomb, cleanup,
                   beyond>>

\* The upload fails: the status of every attachment is overwritten, and the
\* handler fails.
UploadFails(w) ==
    LET m == Head(at[w].refs) IN
    /\ at[w].pos = "upload"
    /\ source[m] # "absent"
    /\ meta' = [meta EXCEPT ![m] = "failed"]
    /\ Goto(w, "failing")
    /\ UNCHANGED <<mailbox, conn, queue, source, parse, tomb, objects,
                   cleanup, beyond>>

\* UpdateIngestedSourceRawData.
SaveMetadata(w) ==
    LET m == Head(at[w].refs) IN
    /\ at[w].pos = "metadata"
    /\ source[m] # "absent"
    /\ meta' = [meta EXCEPT ![m] = "stored"]
    /\ Goto(w, "enqueue")
    /\ UNCHANGED <<mailbox, conn, queue, source, parse, tomb, objects,
                   cleanup, beyond>>

\* EnqueueSourceParse: idempotent under the source's row lock.
EnqueueSourceParse(w) ==
    LET m == Head(at[w].refs) IN
    /\ at[w].pos = "enqueue"
    /\ source[m] # "absent"
    /\ parse' = IF source[m] = "pending" /\ parse[m] = None
                THEN [parse EXCEPT ![m] = at[w].run] ELSE parse
    /\ at' = [at EXCEPT ![w].pos = "each", ![w].refs = Tail(@)]
    /\ UNCHANGED <<mailbox, conn, queue, source, meta, tomb, objects,
                   cleanup, beyond>>

\* UpdateConnectionCursor: whatever the connection holds by now.
UpdateConnectionCursor(w) ==
    /\ at[w].pos = "each"
    /\ at[w].refs = << >>
    /\ conn' = [conn EXCEPT !.cursor = at[w].next]
    /\ Goto(w, "complete")
    /\ UNCHANGED <<mailbox, queue, store, beyond>>

CompleteSyncRun(w) ==
    LET r == at[w].run IN
    /\ at[w].pos = "complete"
    /\ run' = IF run[r].status \in Active
              THEN [run EXCEPT ![r] = [status |-> "running",
                                       ingested |-> TRUE]]
              ELSE run
    /\ Goto(w, "finish")
    /\ UNCHANGED <<mailbox, conn, job, store, beyond>>

\* Any call of the handler fails: Google, Storage, the database, a cap, a
\* source that is no longer there.
Errs(w) ==
    /\ at[w].pos \in Handling \ {"start", "complete"}
    /\ Goto(w, "failing")
    /\ UNCHANGED <<mailbox, conn, queue, store, beyond>>

\* The two calls whose error is returned without RecordSyncFailure.
ErrsUnrecorded(w) ==
    /\ at[w].pos \in {"start", "complete"}
    /\ Goto(w, "retry")
    /\ UNCHANGED <<mailbox, conn, queue, store, beyond>>

\* MUTANT: without the check constraint on completed_at, a late failure of
\* an earlier attempt revives the run.
Revives(w) == TRUE

\* transaction_sync_runs_completed_at_check: completed_at is not cleared by
\* RecordSyncFailure, so a terminal run cannot be set to running.
CheckAllowsRunning(w) == run[at[w].run].status \in Active

\* RecordSyncFailure: failed on the last attempt, running otherwise; the
\* statement has no guard on the status.
RecordSyncFailure(w) ==
    LET r == at[w].run IN
    /\ at[w].pos = "failing"
    /\ run' = IF at[w].attempt >= MaxAttempts
              THEN [run EXCEPT ![r].status = "failed"]
              ELSE IF CheckAllowsRunning(w)
              THEN [run EXCEPT ![r].status = "running"] ELSE run
    /\ Goto(w, "retry")
    /\ UNCHANGED <<mailbox, conn, job, store, beyond>>

\* The statement itself fails.
FailureUnrecorded(w) ==
    /\ at[w].pos = "failing"
    /\ Goto(w, "retry")
    /\ UNCHANGED <<mailbox, conn, queue, store, beyond>>

----------------------------------------------------------------------------
Handle(w) ==
    \/ StartSyncRun(w) \/ ReadConnection(w)
    \/ CaptureHistory(w) \/ ListNewest(w) \/ ListHistory(w)
    \/ HistoryExpired(w) \/ ListWhole(w)
    \/ SkipMessage(w) \/ StoreMessage(w)
    \/ Upload(w) \/ UploadFails(w) \/ SaveMetadata(w)
    \/ EnqueueSourceParse(w) \/ UpdateConnectionCursor(w)
    \/ CompleteSyncRun(w) \/ RecordSyncFailure(w)

Fault(w) == Errs(w) \/ ErrsUnrecorded(w) \/ FailureUnrecorded(w) \/ Crash(w)

Work(w) ==
    \/ \E r \in Runs : Claim(w, r)
    \/ ClaimNothing(w) \/ Handle(w) \/ CompleteJob(w) \/ RetryJob(w)

Mailbox == \E b \in Boxes : Arrive(b) \/ Vanish(b)

User ==
    \/ \E b \in Boxes : Connect(b)
    \/ \E r \in Runs : CreateSyncRun(r)
    \/ \E m \in Messages : RetrySourceParse(m) \/ DeleteSource(m)

Others(m) ==
    \/ \E outcome \in {"parsed", "failed"} : ParseSettles(m, outcome)
    \/ CleanUp(m)

Next ==
    \/ Mailbox
    \/ User
    \/ \E m \in Messages : Others(m)
    \/ \E r \in Runs : LeaseLapses(r)
    \/ \E w \in Workers : Work(w) \/ Fault(w)

Spec == Init /\ [][Next]_vars

\* Nobody renews the lease of a job whose owner no longer runs it.
Abandoned(r) == job[r].owner # None => at[job[r].owner].run # r

\* A worker that is up keeps polling and its calls return (or fail, or it
\* crashes: each attempt ends); a lease nobody renews lapses; a parse chain
\* ends (JobQueue!OrdinaryJobSettles).
Fairness ==
    /\ \A w \in Workers : WF_vars(Work(w) \/ Fault(w))
    /\ \A r \in Runs : WF_vars(Abandoned(r) /\ LeaseLapses(r))
    /\ \A m \in Messages :
         WF_vars(\E outcome \in {"parsed", "failed"} : ParseSettles(m, outcome))

FairSpec == Spec /\ Fairness

----------------------------------------------------------------------------
(* Properties.                                                             *)

TypeOK ==
    /\ arrived \in [Boxes -> Nat]
    /\ gone \in SUBSET Messages
    /\ conn \in [box : Boxes \cup {None}, cursor : Cursor \cup {None}]
    /\ run \in [Runs -> RunRow]
    /\ job \in [Runs -> JobRow]
    /\ source \in [Messages -> {"absent", "pending", "parsed", "failed"}]
    /\ meta \in [Messages -> {"none", "stored", "failed"}]
    /\ parse \in [Messages -> Runs \cup {NoRun, None}]
    /\ {tomb, objects, cleanup, beyond} \subseteq SUBSET Messages
    /\ at \in [Workers -> Local]

\* The stored cursor never runs ahead of what is stored: every message it
\* covers has a source or a tombstone, unless it left Gmail or the bounded
\* initial import left it out.  (The order of the listing, the storing and
\* the cursor update in Handle, on every path and with stale workers.)
CursorSkipsNothing ==
    conn.cursor # None =>
        \A i \in 1 .. conn.cursor.id :
            LET m == Mail[conn.cursor.box][i]
            IN  source[m] # "absent" \/ m \in tomb \cup gone \cup beyond

\* No retry, backfill, reconnect or stale worker brings a deleted message
\* back.  (The tombstone test of StoreIngestedSource.)
DeletedStaysDeleted == \A m \in tomb : source[m] = "absent"

\* A terminal run never changes again, whatever a stale attempt records.
\* (The unguarded update of RecordSyncFailure against the check constraint.)
TerminalRunsAreFinal ==
    [][\A r \in Runs : run[r].status \in {"completed", "failed"} =>
                           run'[r] = run[r]]_vars

\* A parse job never runs before the attachment of its message is in the
\* bucket: attachments are persisted before the job is queued, and cleanup
\* only removes what has no source.  (Handle; StageSourceDeletion.)
ParseFindsAttachment ==
    \A m \in Attached : parse[m] # None => m \in objects

\* Every sync run ends: no crash, lost lease, late child job or deletion of
\* a source leaves it "running", which would refuse every later refresh.
SyncRunEnds ==
    \A r \in Runs : run[r].status \in Active ~>
                       run[r].status \in {"completed", "failed"}

NoIngestion == \A r \in Runs : job[r].status \notin Active

Unparsed == {m \in Messages : source[m] = "pending" /\ parse[m] = None}

NextListing == Range(Added(conn.cursor.box, conn.cursor.id))

\* Once a cursor is stored, a source that was never queued for parsing is in
\* the next listing, which repairs it, unless its message left Gmail or an
\* initial import left it out.  (EnqueueSourceParse comes before the cursor
\* update and is idempotent; a failed attempt keeps the cursor.)
NextRefreshRepairs ==
    (NoIngestion /\ conn.cursor # None) =>
        Unparsed \subseteq NextListing \cup gone \cup beyond

\* "source-parse enqueueing is idempotent, so retry can repair a partially
\* completed ingestion": a retry that completed the run has repaired every
\* source whose message still is in Gmail, or the next refresh will.
RetryRepairsSources ==
    (/\ NoIngestion
     /\ conn.cursor # None
     /\ \E r \in Runs : run[r].status = "completed") =>
        Unparsed \subseteq NextListing \cup gone

\* The stored cursor was read from the account that is connected, so that
\* connecting again is followed by the bounded initial import.
CursorIsOfConnection ==
    conn.cursor # None => conn.cursor.box = conn.box

=============================================================================
