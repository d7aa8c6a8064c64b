----------------------------- MODULE BulkUpload -----------------------------
(***************************************************************************)
(* The draft of a bulk import: bulkimport.Service over bulkstore and the   *)
(* private bucket, from the creation of a batch to its submission.         *)
(*                                                                         *)
(* The browser reserves a file, which makes a document for it and a row    *)
(* with the only path its object may have, and gets a signed URL.  It puts *)
(* the object, has the server compare it with what was declared, groups    *)
(* the files into documents and submits.  Any tab may send any of these    *)
(* requests at any time; a request is as many steps as it has              *)
(* transactions and calls to the bucket, and the API may die between two.  *)
(*                                                                         *)
(* A file, the document reserved for it, the scope of that document and    *)
(* the path of the object have the same number: the path is                *)
(* <user>/<scope>/<file>, fixed when the file is reserved.                 *)
(*                                                                         *)
(* What a submitted batch does is BulkImport's.  Left out: the template    *)
(* and account snapshots of the batch, sizes and checksums (an object is   *)
(* the one declared or is not), and document_count, which is displayed.    *)
(***************************************************************************)
EXTENDS Integers, Sequences, FiniteSets, SequencesExt

CONSTANTS
    Tabs,    \* clients of the API, each with one request at a time
    MaxFiles \* bulkimport.MaxFilesPerBatch

ASSUME UploadAssumption == MaxFiles \in Nat \ {0}

VARIABLES
    batch,     \* bulk_import_batches.status, or "deleted"
    fileCount, \* bulk_import_batches.file_count
    documents, \* bulk_import_documents by number
    files,     \* bulk_import_files by number
    objects,   \* what the bucket holds at the path of each file
    signed,    \* files whose upload was signed
    doomed,    \* files with a source_attachment_cleanup job for their path
    torn,      \* history: files a deletion doomed without deleting their row
    calls      \* the request each tab waits for

vars ==
    <<batch, fileCount, documents, files, objects, signed, doomed, torn, calls>>

rows == <<batch, fileCount, documents, files>>

bucket == <<objects, signed, doomed, torn>>

\* All that the declared type of a file is needed for here.
Kinds == {"pdf", "image"}

NoDocument == 0

Deleted == [status |-> "deleted", order |-> 0]

Gone == [document |-> NoDocument, kind |-> "image", status |-> "gone",
         fresh |-> FALSE]

Kept(f) == files[f].document # NoDocument

Stands(d) == documents[d].status # "deleted"

FilesOf(d) == {f \in DOMAIN files : files[f].document = d}

\* A request about a file, and one that deletes what is left of its documents.
Upload(op, file, document) ==
    [op |-> op, file |-> file, document |-> document, paths |-> {}, rest |-> <<>>]

Deletion(op, document, paths, rest) ==
    [op |-> op, file |-> 0, document |-> document, paths |-> paths, rest |-> rest]

Idle == Upload("none", 0, NoDocument)

Deletions == {"delete", "sweep"}

\* A tab may send a request, a deletion as well, whatever the others wait for.
MaySend(t) == calls[t] = Idle

Start(t, call) == calls' = [calls EXCEPT ![t] = call]

Answer(t) == calls' = [calls EXCEPT ![t] = Idle]

Init ==
    /\ batch = "draft"
    /\ fileCount = 0
    /\ documents = <<>>
    /\ files = <<>>
    /\ objects = <<>>
    /\ signed = {}
    /\ doomed = {}
    /\ torn = {}
    /\ calls = [t \in Tabs |-> Idle]
----------------------------------------------------------------------------
(* Reservation: the transaction, then the signature.                       *)

HasRoom == batch = "draft" /\ fileCount < MaxFiles

\* bulk_documents_batch_sort_key.
OrderIsFree(order) ==
    \A d \in DOMAIN documents : Stands(d) => documents[d].order # order

ReserveFile(t, kind) ==
    /\ MaySend(t)
    /\ HasRoom
    /\ OrderIsFree(fileCount)
    /\ fileCount' = fileCount + 1
    /\ documents' = Append(documents, [status |-> "draft", order |-> fileCount])
    /\ files' = Append(files, [document |-> Len(files) + 1, kind |-> kind,
                               status |-> "reserved", fresh |-> TRUE])
    /\ objects' = Append(objects, "none")
    /\ Start(t, Upload("sign", Len(files) + 1, NoDocument))
    /\ UNCHANGED <<batch, signed, doomed, torn>>

\* The provider's token is for one path and outlives the reservation.
Signs(f) == signed' = signed \cup {f}

CreateSignedUpload(t) ==
    /\ calls[t].op = "sign"
    /\ Signs(calls[t].file)
    /\ Answer(t)
    /\ UNCHANGED <<rows, objects, doomed, torn>>

MarkReservationFailed(t) ==
    /\ calls[t].op = "sign"
    /\ files' = [f \in DOMAIN files |->
                   IF f = calls[t].file /\ files[f].status = "reserved"
                   THEN [files[f] EXCEPT !.status = "failed"] ELSE files[f]]
    /\ Answer(t)
    /\ UNCHANGED <<batch, fileCount, documents, bucket>>

\* reservation_expires_at passes.
Expire(f) ==
    /\ files[f].fresh
    /\ files' = [files EXCEPT ![f].fresh = FALSE]
    /\ UNCHANGED <<batch, fileCount, documents, bucket, calls>>
----------------------------------------------------------------------------
(* The object: the bucket takes one per path and never a second one, for   *)
(* whoever has the signature, or from the owner while the row allows it.   *)

InsertAllowed(f) ==
    /\ files[f].status = "reserved"
    /\ files[f].fresh
    /\ batch = "draft"

Put(f, content) ==
    /\ f \in signed \/ InsertAllowed(f)
    /\ objects[f] = "none"
    /\ objects' = [objects EXCEPT ![f] = content]
    /\ UNCHANGED <<rows, signed, doomed, torn, calls>>

\* A cleanup job deletes the object and may be delivered again.
Clean(f) ==
    /\ f \in doomed
    /\ objects' = [objects EXCEPT ![f] = "none"]
    /\ doomed' \in {doomed, doomed \ {f}}
    /\ UNCHANGED <<rows, signed, torn, calls>>
----------------------------------------------------------------------------
(* Finalization: read the rows, look at the object, update the row.        *)

FinalizeFile(t, f) ==
    /\ MaySend(t)
    /\ Kept(f)
    /\ Start(t, Upload("stat", f, files[f].document))
    /\ UNCHANGED <<rows, bucket>>

\* The path is made of the scope of the document the file was in, not of
\* the one it was reserved under.
ObjectFits(call) ==
    /\ call.document = call.file
    /\ objects[call.file] = "right"

StatObject(t) ==
    /\ calls[t].op = "stat"
    /\ IF ObjectFits(calls[t])
       THEN Start(t, Upload("mark", calls[t].file, calls[t].document))
       ELSE Answer(t)
    /\ UNCHANGED <<rows, bucket>>

MarkFinalized(t) ==
    LET f == calls[t].file
        accepted == files[f].status \in {"reserved", "uploaded"} /\ files[f].fresh
    IN  /\ calls[t].op = "mark"
        /\ files' = IF accepted THEN [files EXCEPT ![f].status = "uploaded"]
                    ELSE files
        /\ Answer(t)
        /\ UNCHANGED <<batch, fileCount, documents, bucket>>
----------------------------------------------------------------------------
(* Layout: the entries name a document each and share out all the files.   *)

KeptFiles == {f \in DOMAIN files : Kept(f)}

Layouts ==
    UNION {{[names |-> names, entry |-> entry] :
              names \in [1..n -> {d \in DOMAIN documents : Stands(d)}],
              entry \in {e \in [KeptFiles -> 1..n] :
                           \A k \in 1..n : \E f \in KeptFiles : e[f] = k}} :
           n \in 1..Cardinality(KeptFiles)}

PdfsApart(entry) ==
    \A f, g \in KeptFiles :
      f # g /\ entry[f] = entry[g] => files[f].kind = "image"

\* MUTANT: no key on the order of the files of a document.
NamesMayRepeat(names) == TRUE

\* bulk_files_document_sort_key: each entry numbers its files from 0, so two
\* entries of one document give it two first files.
NamesDiffer(names) == \A j, k \in DOMAIN names : names[j] = names[k] => j = k

\* MUTANT: the documents are numbered from 1.
NumberedFromOne(names) ==
    [d \in DOMAIN documents |->
       IF \E k \in DOMAIN names : names[k] = d
       THEN [documents[d] EXCEPT !.order = CHOOSE k \in DOMAIN names : names[k] = d]
       ELSE Deleted]

\* The last entry that names a document gives it its order; a document that
\* is not named has lost its files and is deleted.
Numbered(names) ==
    [d \in DOMAIN documents |->
       LET ks == {k \in DOMAIN names : names[k] = d}
       IN  IF ks = {} THEN Deleted
           ELSE [documents[d] EXCEPT !.order =
                   (CHOOSE k \in ks : \A j \in ks : j <= k) - 1]]

Rearranges(layout) ==
    /\ batch = "draft"
    /\ PdfsApart(layout.entry)
    /\ NamesDiffer(layout.names)
    /\ documents' = Numbered(layout.names)
    /\ files' = [f \in DOMAIN files |->
                   IF Kept(f)
                   THEN [files[f] EXCEPT !.document = layout.names[layout.entry[f]]]
                   ELSE files[f]]

ReplaceDocumentLayout(t, layout) ==
    /\ MaySend(t)
    /\ Rearranges(layout)
    /\ UNCHANGED <<batch, fileCount, bucket, calls>>
----------------------------------------------------------------------------
(* Submission and cancellation of the draft, a transaction each.           *)

\* MUTANT: only reservations that were not answered count as unready.
ReadyUnlessReserved ==
    /\ KeptFiles # {}
    /\ \A f \in KeptFiles : files[f].status # "reserved"

Ready ==
    /\ KeptFiles # {}
    /\ \A f \in KeptFiles : files[f].status = "uploaded"

SetDocuments(status) ==
    [d \in DOMAIN documents |->
       IF Stands(d) THEN [documents[d] EXCEPT !.status = status]
       ELSE documents[d]]

SubmitBatch(t) ==
    /\ MaySend(t)
    /\ batch = "draft"
    /\ Ready
    /\ batch' = "queued"
    /\ documents' = SetDocuments("queued")
    /\ UNCHANGED <<fileCount, files, bucket, calls>>

CancelBatch(t) ==
    /\ MaySend(t)
    /\ batch = "draft"
    /\ batch' = "cancelled"
    /\ documents' = SetDocuments("cancelled")
    /\ UNCHANGED <<fileCount, files, bucket, calls>>
----------------------------------------------------------------------------
(* Deletion: the paths are read, then the row is deleted by its id, and    *)
(* what was read is handed to a cleanup job in that transaction.  No row   *)
(* is locked in between.  A batch is swept document by document, and what  *)
(* is left of it goes with its row.                                        *)

Deletable(d) == documents[d].status \in {"draft", "cancelled"}

DeleteDocument(t, d) ==
    /\ MaySend(t)
    /\ Deletable(d)
    /\ Start(t, Deletion("delete", d, FilesOf(d), <<>>))
    /\ UNCHANGED <<rows, bucket>>

\* ListDocuments
InOrder ==
    SetToSortSeq({d \in DOMAIN documents : Stands(d)},
                 LAMBDA d, e : documents[d].order < documents[e].order)

DeleteBatch(t) ==
    /\ MaySend(t)
    /\ batch \in {"draft", "cancelled"}
    /\ Start(t, Deletion("sweep", NoDocument, {}, InOrder))
    /\ UNCHANGED <<rows, bucket>>

\* A document that is gone is passed over; one that was submitted ends the
\* sweep with a conflict.
SweepReads(t) ==
    /\ calls[t].op = "sweep"
    /\ calls[t].document = NoDocument
    /\ calls[t].rest # <<>>
    /\ LET d == Head(calls[t].rest)
           rest == Tail(calls[t].rest)
       IN  CASE Deletable(d)  -> Start(t, Deletion("sweep", d, FilesOf(d), rest))
             [] ~Stands(d)    -> Start(t, Deletion("sweep", NoDocument, {}, rest))
             [] OTHER         -> Answer(t)
    /\ UNCHANGED <<rows, bucket>>

Without(ds) ==
    /\ documents' = [d \in DOMAIN documents |->
                       IF d \in ds THEN Deleted ELSE documents[d]]
    /\ files' = [f \in DOMAIN files |->
                   IF files[f].document \in ds THEN Gone ELSE files[f]]

\* A job per scope, and every path has a scope of its own.
EnqueueCleanup(paths) == doomed' = doomed \cup paths

\* A layout moved files out of the document after their paths were read.
Tears(paths, d) == torn' = torn \cup (paths \ FilesOf(d))

DeleteRow(t) ==
    /\ calls[t].op \in Deletions
    /\ calls[t].document # NoDocument
    /\ Without({calls[t].document})
    /\ EnqueueCleanup(calls[t].paths)
    /\ Tears(calls[t].paths, calls[t].document)
    /\ IF calls[t].op = "delete"
       THEN Answer(t)
       ELSE Start(t, Deletion("sweep", NoDocument, {}, calls[t].rest))
    /\ UNCHANGED <<batch, fileCount, objects, signed>>

SweepEnds(t) ==
    /\ calls[t].op = "sweep"
    /\ calls[t].document = NoDocument
    /\ calls[t].rest = <<>>
    /\ IF batch \in {"draft", "cancelled"}
       THEN batch' = "deleted" /\ Without(DOMAIN documents)
       ELSE UNCHANGED <<batch, documents, files>>
    /\ Answer(t)
    /\ UNCHANGED <<fileCount, bucket>>

\* The API dies, or the client goes away, between two steps of a request.
Abandon(t) ==
    /\ calls[t] # Idle
    /\ Answer(t)
    /\ UNCHANGED <<rows, bucket>>
----------------------------------------------------------------------------
Next ==
    \/ \E t \in Tabs :
         \/ \E kind \in Kinds : ReserveFile(t, kind)
         \/ CreateSignedUpload(t)
         \/ MarkReservationFailed(t)
         \/ \E f \in DOMAIN files : FinalizeFile(t, f)
         \/ StatObject(t)
         \/ MarkFinalized(t)
         \/ \E layout \in Layouts : ReplaceDocumentLayout(t, layout)
         \/ SubmitBatch(t)
         \/ CancelBatch(t)
         \/ \E d \in DOMAIN documents : DeleteDocument(t, d)
         \/ DeleteBatch(t)
         \/ SweepReads(t)
         \/ DeleteRow(t)
         \/ SweepEnds(t)
         \/ Abandon(t)
    \/ \E f \in DOMAIN files :
         \/ Expire(f)
         \/ \E content \in {"right", "wrong"} : Put(f, content)
         \/ Clean(f)

Spec == Init /\ [][Next]_vars
----------------------------------------------------------------------------
(* Properties.                                                             *)

\* The rows are of their types, the quota of ReserveFile holds, and the order
\* the next reservation will ask for is free: file_count only grows and
\* ReplaceDocumentLayout numbers the documents from 0, so that deletions and
\* layouts never make a reservation collide with a document that is there.
RowsFit ==
    /\ batch \in {"draft", "queued", "cancelled", "deleted"}
    /\ fileCount \in 0..MaxFiles
    /\ Len(documents) = fileCount
    /\ Len(files) = fileCount
    /\ \A f \in DOMAIN files :
         /\ files[f].status \in {"reserved", "uploaded", "failed", "gone"}
         /\ objects[f] \in {"none", "right", "wrong"}
         /\ Kept(f) => Stands(files[f].document)
    /\ signed \cup doomed \cup torn \subseteq DOMAIN files
    /\ \A d \in DOMAIN documents :
         Stands(d) =>
           /\ documents[d].order < fileCount
           /\ \A e \in DOMAIN documents \ {d} :
                Stands(e) => documents[e].order # documents[d].order

\* A submitted batch has its evidence: SubmitBatch looks only at the status
\* of the rows, and the object of every file it hands to the workers is in
\* the bucket as it was declared, whatever was put, finalized, regrouped,
\* deleted, cleaned up or expired on the way, in any order, and whatever
\* comes late.  The one exception is a file that a layout moved to another
\* document between the two statements of the deletion of its own.
SubmittedIsStored ==
    batch = "queued" =>
      \A f \in KeptFiles : objects[f] = "right" \/ f \in torn

\* A submitted batch has all its evidence.  It does not hold: a deletion reads
\* the paths of a document, a layout moves its files, the row is deleted and
\* the cleanup job removes the objects of files the batch keeps; and the
\* document of a batch that was just submitted is deleted all the same.
SubmittedIsComplete ==
    batch = "queued" =>
      /\ KeptFiles # {}
      /\ \A f \in KeptFiles : objects[f] = "right"

\* Every PDF is a document of its own, also after a layout that names a
\* document in two entries: ReplaceDocumentLayout counts the PDFs entry by
\* entry, and only the key on the order of the files refuses the repetition.
PdfsStandAlone ==
    \A f, g \in KeptFiles :
      f # g /\ files[f].document = files[g].document => files[f].kind = "image"

\* What the bucket holds belongs to a file or awaits a cleanup job.  It does
\* not hold: a signature outlives the reservation, so an object put after the
\* cleanup ran stays, and the rows a batch takes with it have no job.
ObjectsAreAccounted ==
    \A f \in DOMAIN files : objects[f] # "none" => Kept(f) \/ f \in doomed
=============================================================================
