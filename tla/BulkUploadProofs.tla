-------------------------- MODULE BulkUploadProofs --------------------------
(***************************************************************************)
(* Theorems about BulkUpload for every set of tabs and every limit on the  *)
(* files.                                                                  *)
(*                                                                         *)
(* RowsInv says how documents, files and calls fit together.  StoredInv    *)
(* relates the rows to the bucket, the cleanup jobs and the requests under *)
(* way.  Neither asks anything of the clients: their deletions overlap     *)
(* every other request.                                                    *)
(***************************************************************************)
EXTENDS BulkUpload, FiniteSetTheorems, SequenceTheorems, TLAPS

USE UploadAssumption

DocumentRow ==
    [status : {"draft", "queued", "cancelled", "deleted"}, order : Int]

FileRow ==
    [document : Nat, kind : Kinds, fresh : BOOLEAN,
     status : {"reserved", "uploaded", "failed", "gone"}]

Contents == {"none", "right", "wrong"}

Numbers == 1..fileCount

\* A call is one of the two kinds, about files that exist; the rest of a
\* sweep is any value.
IsCall(call, n) ==
    \/ /\ call = Upload(call.op, call.file, call.document)
       /\ call.op \in {"none", "sign", "stat", "mark"}
       /\ call.op # "none" => call.file \in 1..n
    \/ /\ call = Deletion(call.op, call.document, call.paths, call.rest)
       /\ call.op \in Deletions
       /\ call.paths \subseteq 1..n

Shape ==
    /\ batch \in {"draft", "queued", "cancelled", "deleted"}
    /\ fileCount \in 0..MaxFiles
    /\ documents \in [Numbers -> DocumentRow]
    /\ files \in [Numbers -> FileRow]
    /\ objects \in [Numbers -> Contents]
    /\ signed \subseteq Numbers
    /\ doomed \subseteq Numbers
    /\ torn \subseteq Numbers
    /\ calls = [t \in Tabs |-> calls[t]]
    /\ \A t \in Tabs : IsCall(calls[t], fileCount)

\* A file that is kept has a document that stands.
FilesHaveDocuments ==
    \A f \in Numbers : Kept(f) => files[f].document \in Numbers /\ Stands(files[f].document)

\* Documents that stand have orders of their own below file_count.
OrdersDiffer ==
    \A d \in Numbers : Stands(d) =>
       /\ documents[d].order < fileCount
       /\ \A e \in Numbers \ {d} : Stands(e) => documents[e].order # documents[d].order

Arranged == FilesHaveDocuments /\ OrdersDiffer /\ PdfsStandAlone

\* The invariant of the rows.
RowsInv == Shape /\ Arranged

\* The object of a file is there as declared, or its path was handed to a
\* cleanup job by the deletion of a document it had left.
Intact(f) == objects[f] = "right" \/ f \in torn

\* A cleanup job is about a file that is gone, or that had left its document.
DoomedAreTorn == \A f \in doomed : Kept(f) => f \in torn

\* A file that was finalized, or is about to be, is intact.
UploadedIsIntact ==
    \A f \in Numbers : Kept(f) /\ files[f].status = "uploaded" => Intact(f)

MarkedIsIntact ==
    \A t \in Tabs : calls[t].op = "mark" /\ Kept(calls[t].file) => Intact(calls[t].file)

\* The files that a submitted batch keeps were finalized.
QueuedIsUploaded ==
    batch = "queued" =>
      \A f \in Numbers : Kept(f) => files[f].status = "uploaded"

\* The invariant of the evidence.
StoredInv == DoomedAreTorn /\ UploadedIsIntact /\ MarkedIsIntact /\ QueuedIsUploaded

----------------------------------------------------------------------------
(* Calls.                                                                  *)

\* A request about a file is a call with no paths.
LEMMA UploadCall ==
    ASSUME NEW op \in {"none", "sign", "stat", "mark"}, NEW file, NEW document,
           NEW n, op # "none" => file \in 1..n
    PROVE  /\ IsCall(Upload(op, file, document), n)
           /\ Upload(op, file, document).op = op
           /\ Upload(op, file, document).file = file
           /\ Upload(op, file, document).document = document
           /\ Upload(op, file, document).paths = {}
BY DEF IsCall, Upload

\* A deletion is a call about the paths it has read.
LEMMA DeletionCall ==
    ASSUME NEW op \in Deletions, NEW document, NEW paths, NEW rest, NEW n,
           paths \subseteq 1..n
    PROVE  /\ IsCall(Deletion(op, document, paths, rest), n)
           /\ Deletion(op, document, paths, rest).op = op
           /\ Deletion(op, document, paths, rest).document = document
           /\ Deletion(op, document, paths, rest).paths = paths
BY DEF IsCall, Deletion

\* The fields of a call.
LEMMA CallParts ==
    ASSUME NEW call, NEW n, IsCall(call, n)
    PROVE  /\ call.op \in {"none", "sign", "stat", "mark", "delete", "sweep"}
           /\ call.op \in {"sign", "stat", "mark"} => call.file \in 1..n
           /\ call.paths \subseteq 1..n
           /\ call.op = "none" \/ call = Upload(call.op, call.file, call.document)
              \/ call = Deletion(call.op, call.document, call.paths, call.rest)
BY DEF IsCall, Upload, Deletion, Deletions

\* A tab without a request has a call too.
LEMMA IdleIsCall ==
    /\ \A n \in Nat : IsCall(Idle, n)
    /\ Idle.op = "none"
BY UploadCall DEF Idle

----------------------------------------------------------------------------
(* Sequences as functions.                                                 *)

\* A function on 1..n is a sequence of length n.
LEMMA RowsOf ==
    ASSUME NEW S, NEW n \in Nat, NEW s \in [1..n -> S]
    PROVE  s \in Seq(S) /\ Len(s) = n /\ DOMAIN s = 1..n
OBVIOUS

\* There are no rows at first.
LEMMA NoRowsAtAll ==
    ASSUME NEW S
    PROVE  <<>> \in [1..0 -> S]
OBVIOUS

\* Appending keeps the rows there are and adds one.
LEMMA OneMore ==
    ASSUME NEW S, NEW n \in Nat, NEW s \in [1..n -> S], NEW e \in S
    PROVE  /\ Append(s, e) \in [1..(n + 1) -> S]
           /\ Append(s, e)[n + 1] = e
           /\ \A i \in 1..n : Append(s, e)[i] = s[i]
<1>1. s \in Seq(S) /\ Len(s) = n
  BY RowsOf
<1>2. /\ Append(s, e) \in Seq(S)
      /\ Len(Append(s, e)) = n + 1
      /\ \A i \in 1..n : Append(s, e)[i] = s[i]
      /\ Append(s, e)[n + 1] = e
  BY <1>1, AppendProperties
<1>3. Append(s, e) \in [1..(n + 1) -> S]
  BY <1>2, LenProperties
<1> QED BY <1>2, <1>3

\* file_count counts the files, those that were deleted too.
LEMMA FileCountType == Shape => fileCount \in Nat /\ Len(files) = fileCount
<1> SUFFICES ASSUME Shape PROVE fileCount \in Nat /\ Len(files) = fileCount
  OBVIOUS
<1>1. fileCount \in Nat
  BY DEF Shape
<1>2. files \in [1..fileCount -> FileRow]
  BY DEF Shape, Numbers
<1> QED BY <1>1, <1>2, RowsOf

\* A request that goes on, or is answered, leaves proper calls.
LEMMA CallsStep ==
    ASSUME Shape, NEW t \in Tabs, NEW call, NEW n \in Nat, fileCount <= n,
           IsCall(call, n), calls' = [calls EXCEPT ![t] = call]
    PROVE  /\ calls' = [u \in Tabs |-> calls'[u]]
           /\ \A u \in Tabs : IsCall(calls'[u], n)
<1>1. calls' = [u \in Tabs |-> calls'[u]]
  BY DEF Shape
<1>2. ASSUME NEW u \in Tabs, u # t PROVE IsCall(calls'[u], n)
  <2>1. calls'[u] = calls[u]
    BY <1>2, <1>1 DEF Shape
  <2>2. IsCall(calls[u], fileCount)
    BY DEF Shape
  <2>3. 1..fileCount \subseteq 1..n
    BY FileCountType
  <2> QED BY <2>1, <2>2, <2>3 DEF IsCall
<1>3. calls'[t] = call
  BY DEF Shape
<1> QED BY <1>1, <1>2, <1>3

\* Steps that touch nothing but the calls.
LEMMA OnlyCalls ==
    ASSUME Shape, NEW t \in Tabs, NEW call, IsCall(call, fileCount),
           calls' = [calls EXCEPT ![t] = call], UNCHANGED rows, UNCHANGED bucket
    PROVE  Shape'
<1>1. fileCount \in Nat /\ fileCount <= fileCount
  BY FileCountType
<1>2. /\ calls' = [u \in Tabs |-> calls'[u]]
      /\ \A u \in Tabs : IsCall(calls'[u], fileCount)
  BY <1>1, CallsStep
<1> QED BY <1>2 DEF Shape, rows, bucket, Numbers

\* An empty draft is in shape.
LEMMA ShapeInit == Init => Shape
<1> SUFFICES ASSUME Init PROVE Shape
  OBVIOUS
<1>1. fileCount = 0 /\ fileCount \in 0..MaxFiles
  BY DEF Init, UploadAssumption
<1>2. /\ documents \in [Numbers -> DocumentRow]
      /\ files \in [Numbers -> FileRow]
      /\ objects \in [Numbers -> Contents]
  BY <1>1, NoRowsAtAll DEF Init, Numbers
<1>3. \A t \in Tabs : IsCall(calls[t], fileCount)
  BY <1>1, IdleIsCall DEF Init
<1> QED BY <1>1, <1>2, <1>3 DEF Init, Shape

\* The last entry of an order is a number.
LEMMA NumberedType ==
    ASSUME Shape, NEW n \in Nat, NEW names \in [1..n -> DOMAIN documents],
           NamesDiffer(names)
    PROVE  /\ Numbered(names) \in [Numbers -> DocumentRow]
           /\ \A d \in Numbers :
                (\A k \in 1..n : names[k] # d) => Numbered(names)[d].status = "deleted"
           /\ \A k \in 1..n :
                /\ Numbered(names)[names[k]].order = k - 1
                /\ Numbered(names)[names[k]].status = documents[names[k]].status
<1> DEFINE ks(d) == {k \in DOMAIN names : names[k] = d}
           last(d) == CHOOSE k \in ks(d) : \A j \in ks(d) : j <= k
           row(d) == IF ks(d) = {} THEN Deleted
                     ELSE [documents[d] EXCEPT !.order = last(d) - 1]
<1>1. Numbered(names) = [d \in Numbers |-> row(d)]
  BY DEF Numbered, Shape
<1>2. ASSUME NEW k \in 1..n PROVE ks(names[k]) = {k} /\ last(names[k]) = k
  <2>1. ks(names[k]) = {k}
    BY DEF NamesDiffer
  <2>2. \A j \in {k} : j <= k
    OBVIOUS
  <2>3. last(names[k]) = CHOOSE m \in {k} : \A j \in {k} : j <= m
    BY <2>1
  <2> QED BY <2>1, <2>2, <2>3
<1> HIDE DEF last
<1>3. ASSUME NEW k \in 1..n
      PROVE  /\ names[k] \in Numbers
             /\ row(names[k]) \in DocumentRow
             /\ row(names[k]).order = k - 1
             /\ row(names[k]).status = documents[names[k]].status
  <2>1. names[k] \in Numbers /\ documents[names[k]] \in DocumentRow
    BY DEF Shape
  <2>2. row(names[k]) = [documents[names[k]] EXCEPT !.order = k - 1]
    BY <1>2
  <2>3. k - 1 \in Int
    OBVIOUS
  <2> HIDE DEF row
  <2> QED BY <2>1, <2>2, <2>3 DEF DocumentRow
<1>4. ASSUME NEW d \in Numbers, \A k \in 1..n : names[k] # d
      PROVE  row(d) = Deleted
  <2>1. ks(d) = {}
    BY <1>4
  <2> QED BY <2>1
<1>5. Deleted \in DocumentRow /\ Deleted.status = "deleted"
  BY DEF Deleted, DocumentRow
<1> HIDE DEF row
<1>6. ASSUME NEW d \in Numbers PROVE row(d) \in DocumentRow
  <2>1. CASE \E k \in 1..n : names[k] = d
    BY <1>3, <2>1
  <2>2. CASE \A k \in 1..n : names[k] # d
    BY <1>4, <1>5, <2>2
  <2> QED BY <2>1, <2>2
<1> QED BY <1>1, <1>3, <1>4, <1>5, <1>6

\* What a layout is.
LEMMA LayoutParts ==
    ASSUME Shape, NEW layout \in Layouts
    PROVE  \E n \in 1..Cardinality(KeptFiles) :
              \E names \in [1..n -> {d \in DOMAIN documents : Stands(d)}],
                 entry \in [KeptFiles -> 1..n] :
                 /\ layout = [names |-> names, entry |-> entry]
                 /\ \A k \in 1..n : \E f \in KeptFiles : entry[f] = k
BY DEF Layouts

\* A layout has no more entries than there are files.
LEMMA KeptBound ==
    ASSUME Shape
    PROVE  Cardinality(KeptFiles) \in Nat /\ Cardinality(KeptFiles) <= fileCount
<1>1. KeptFiles \subseteq 1..fileCount
  BY DEF KeptFiles, Shape, Numbers
<1>2. IsFiniteSet(1..fileCount) /\ Cardinality(1..fileCount) = fileCount
  BY FileCountType, FS_Interval
<1> QED BY <1>1, <1>2, FS_Subset, FS_CardinalityType

\* Every step keeps the rows, the objects and the calls in shape.
LEMMA ShapeStep == Shape /\ [Next]_vars => Shape'
<1> SUFFICES ASSUME Shape, [Next]_vars PROVE Shape'
  OBVIOUS
<1>0. fileCount \in Nat /\ Len(files) = fileCount /\ fileCount <= fileCount
  BY FileCountType
<1>1. ASSUME NEW t \in Tabs, NEW kind \in Kinds, ReserveFile(t, kind) PROVE Shape'
  <2>1. fileCount' = fileCount + 1 /\ fileCount' \in 0..MaxFiles
    BY <1>1, <1>0 DEF ReserveFile, HasRoom, Shape, UploadAssumption
  <2>2. documents' \in [Numbers' -> DocumentRow]
    <3>1. [status |-> "draft", order |-> fileCount] \in DocumentRow
      BY <1>0 DEF DocumentRow
    <3> QED BY <3>1, <2>1, <1>1, <1>0, OneMore DEF ReserveFile, Shape, Numbers
  <2>3. files' \in [Numbers' -> FileRow]
    <3>1. [document |-> Len(files) + 1, kind |-> kind, status |-> "reserved",
           fresh |-> TRUE] \in FileRow
      BY <1>0 DEF FileRow
    <3> QED BY <3>1, <2>1, <1>1, <1>0, OneMore DEF ReserveFile, Shape, Numbers
  <2>4. objects' \in [Numbers' -> Contents]
    BY <2>1, <1>1, <1>0, OneMore DEF ReserveFile, Shape, Numbers, Contents
  <2>5. Numbers \subseteq Numbers'
    BY <2>1, <1>0 DEF Numbers
  <2> DEFINE new == Len(files) + 1
             call == Upload("sign", new, NoDocument)
  <2>6. new \in 1..(fileCount + 1)
    BY <1>0
  <2> HIDE DEF new
  <2>8. IsCall(call, fileCount + 1)
    BY <2>6, UploadCall
  <2>9. calls' = [calls EXCEPT ![t] = call]
    BY <1>1 DEF ReserveFile, Start, new
  <2> HIDE DEF call
  <2>7. /\ calls' = [u \in Tabs |-> calls'[u]]
        /\ \A u \in Tabs : IsCall(calls'[u], fileCount')
    <3>1. fileCount + 1 \in Nat /\ fileCount <= fileCount + 1
      BY <1>0
    <3>2. /\ calls' = [u \in Tabs |-> calls'[u]]
          /\ \A u \in Tabs : IsCall(calls'[u], fileCount + 1)
      BY <3>1, <2>8, <2>9, CallsStep
    <3> QED BY <3>2, <2>1
  <2> QED BY <2>1, <2>2, <2>3, <2>4, <2>5, <2>7, <1>1 DEF ReserveFile, Shape
<1>2. ASSUME NEW t \in Tabs, CreateSignedUpload(t) PROVE Shape'
  <2>1. calls[t].file \in Numbers
    BY <1>2, CallParts DEF CreateSignedUpload, Shape, Numbers
  <2>2. /\ calls' = [u \in Tabs |-> calls'[u]]
        /\ \A u \in Tabs : IsCall(calls'[u], fileCount)
    BY <1>2, <1>0, IdleIsCall, CallsStep DEF CreateSignedUpload, Answer
  <2> QED BY <2>1, <2>2, <1>2 DEF CreateSignedUpload, Signs, Shape, rows, Numbers
<1>3. ASSUME NEW t \in Tabs, MarkReservationFailed(t) PROVE Shape'
  <2>1. files' \in [Numbers -> FileRow]
    BY <1>3 DEF MarkReservationFailed, Shape, FileRow
  <2>2. /\ calls' = [u \in Tabs |-> calls'[u]]
        /\ \A u \in Tabs : IsCall(calls'[u], fileCount)
    BY <1>3, <1>0, IdleIsCall, CallsStep DEF MarkReservationFailed, Answer
  <2> QED BY <2>1, <2>2, <1>3 DEF MarkReservationFailed, Shape, bucket, Numbers
<1>4. ASSUME NEW t \in Tabs, NEW f \in DOMAIN files, FinalizeFile(t, f) PROVE Shape'
  <2> DEFINE call == Upload("stat", f, files[f].document)
  <2>1. IsCall(call, fileCount)
    BY UploadCall DEF Shape, Numbers
  <2>2. calls' = [calls EXCEPT ![t] = call]
    BY <1>4 DEF FinalizeFile, Start
  <2> HIDE DEF call
  <2> QED BY <2>1, <2>2, <1>4, OnlyCalls DEF FinalizeFile
<1>5. ASSUME NEW t \in Tabs, StatObject(t) PROVE Shape'
  <2>1. IsCall(Upload("mark", calls[t].file, calls[t].document), fileCount)
    BY <1>5, CallParts, UploadCall DEF StatObject, Shape
  <2>2. CASE ObjectFits(calls[t])
    BY <2>1, <2>2, <1>5, OnlyCalls DEF StatObject, Start
  <2>3. CASE ~ObjectFits(calls[t])
    BY <2>3, <1>5, <1>0, IdleIsCall, OnlyCalls DEF StatObject, Answer
  <2> QED BY <2>2, <2>3
<1>6. ASSUME NEW t \in Tabs, MarkFinalized(t) PROVE Shape'
  <2>1. files' \in [Numbers -> FileRow]
    <3>1. CASE files' = files
      BY <3>1 DEF Shape
    <3>2. CASE files' = [files EXCEPT ![calls[t].file].status = "uploaded"]
      BY <3>2 DEF Shape, FileRow
    <3> QED BY <3>1, <3>2, <1>6 DEF MarkFinalized
  <2>2. /\ calls' = [u \in Tabs |-> calls'[u]]
        /\ \A u \in Tabs : IsCall(calls'[u], fileCount)
    BY <1>6, <1>0, IdleIsCall, CallsStep DEF MarkFinalized, Answer
  <2> QED BY <2>1, <2>2, <1>6 DEF MarkFinalized, Shape, bucket, Numbers
<1>7. ASSUME NEW t \in Tabs, NEW layout \in Layouts, ReplaceDocumentLayout(t, layout)
      PROVE  Shape'
  <2>0. PICK n \in 1..Cardinality(KeptFiles) :
              \E names \in [1..n -> {d \in DOMAIN documents : Stands(d)}],
                 entry \in [KeptFiles -> 1..n] : layout = [names |-> names, entry |-> entry]
    BY LayoutParts
  <2>1. PICK names \in [1..n -> {d \in DOMAIN documents : Stands(d)}],
             entry \in [KeptFiles -> 1..n] : layout = [names |-> names, entry |-> entry]
    BY <2>0
  <2>2. n \in Nat /\ names \in [1..n -> DOMAIN documents] /\ NamesDiffer(names)
    BY <2>1, <1>7, KeptBound DEF ReplaceDocumentLayout, Rearranges
  <2>3. documents' \in [Numbers -> DocumentRow]
    BY <2>1, <2>2, <1>7, NumberedType DEF ReplaceDocumentLayout, Rearranges
  <2>4. ASSUME NEW f \in Numbers, Kept(f)
        PROVE  [files[f] EXCEPT !.document = layout.names[layout.entry[f]]] \in FileRow
    <3>1. f \in KeptFiles
      BY <2>4 DEF KeptFiles, Shape
    <3>2. names[entry[f]] \in Nat
      BY <3>1, <2>1, <2>2 DEF Shape, Numbers
    <3> QED BY <3>2, <2>1 DEF Shape, FileRow
  <2>5. files' \in [Numbers -> FileRow]
    BY <2>4, <1>7 DEF ReplaceDocumentLayout, Rearranges, Shape
  <2> QED BY <2>3, <2>5, <1>7 DEF ReplaceDocumentLayout, Shape, bucket, Numbers
<1>8. ASSUME NEW status \in {"queued", "cancelled"}, documents' = SetDocuments(status),
             batch' = status, UNCHANGED <<fileCount, files, bucket, calls>>
      PROVE  Shape'
  <2>1. documents' \in [Numbers -> DocumentRow]
    BY <1>8 DEF SetDocuments, Shape, DocumentRow
  <2> QED BY <2>1, <1>8 DEF Shape, bucket, Numbers
<1>9. ASSUME NEW t \in Tabs, SubmitBatch(t) \/ CancelBatch(t) PROVE Shape'
  BY <1>9, <1>8 DEF SubmitBatch, CancelBatch
<1>10. ASSUME NEW d PROVE FilesOf(d) \subseteq Numbers
  BY DEF FilesOf, Shape
<1>11. ASSUME NEW t \in Tabs, NEW d \in DOMAIN documents, DeleteDocument(t, d)
       PROVE  Shape'
  <2>1. IsCall(Deletion("delete", d, FilesOf(d), <<>>), fileCount)
    BY <1>10, DeletionCall DEF Numbers, Deletions
  <2> QED BY <2>1, <1>11, OnlyCalls DEF DeleteDocument, Start
<1>12. ASSUME NEW t \in Tabs, DeleteBatch(t) PROVE Shape'
  <2>1. IsCall(Deletion("sweep", NoDocument, {}, InOrder), fileCount)
    BY DeletionCall DEF Deletions
  <2> QED BY <2>1, <1>12, OnlyCalls DEF DeleteBatch, Start
<1>13. ASSUME NEW t \in Tabs, SweepReads(t) PROVE Shape'
  <2> DEFINE d == Head(calls[t].rest)
             rest == Tail(calls[t].rest)
  <2> HIDE DEF d, rest
  <2>1. IsCall(Deletion("sweep", d, FilesOf(d), rest), fileCount)
    BY <1>10, DeletionCall DEF Deletions, Numbers
  <2>2. IsCall(Deletion("sweep", NoDocument, {}, rest), fileCount)
    BY DeletionCall DEF Deletions
  <2>3. \E call : IsCall(call, fileCount) /\ calls' = [calls EXCEPT ![t] = call]
    <3>1. \/ calls' = [calls EXCEPT ![t] = Deletion("sweep", d, FilesOf(d), rest)]
          \/ calls' = [calls EXCEPT ![t] = Deletion("sweep", NoDocument, {}, rest)]
          \/ calls' = [calls EXCEPT ![t] = Idle]
      BY <1>13 DEF SweepReads, Start, Answer, d, rest
    <3> QED BY <3>1, <2>1, <2>2, <1>0, IdleIsCall
  <2> QED BY <2>3, <1>13, OnlyCalls DEF SweepReads
<1>14. ASSUME NEW ds, Without(ds)
       PROVE  /\ documents' \in [Numbers -> DocumentRow]
              /\ files' \in [Numbers -> FileRow]
  <2>1. Deleted \in DocumentRow /\ Gone \in FileRow
    BY DEF Deleted, DocumentRow, Gone, FileRow, NoDocument, Kinds
  <2> QED BY <2>1, <1>14 DEF Without, Shape
<1>15. ASSUME NEW t \in Tabs, DeleteRow(t) PROVE Shape'
  <2>1. IsCall(Deletion("sweep", NoDocument, {}, calls[t].rest), fileCount)
    BY DeletionCall DEF Deletions
  <2>2. \E call : IsCall(call, fileCount) /\ calls' = [calls EXCEPT ![t] = call]
    BY <2>1, <1>15, <1>0, IdleIsCall DEF DeleteRow, Start, Answer
  <2>3. /\ calls' = [u \in Tabs |-> calls'[u]]
        /\ \A u \in Tabs : IsCall(calls'[u], fileCount)
    BY <2>2, <1>0, CallsStep
  <2>4. doomed' \subseteq Numbers /\ torn' \subseteq Numbers
    BY <1>15, CallParts DEF DeleteRow, EnqueueCleanup, Tears, Shape, Numbers
  <2>5. Without({calls[t].document})
    BY <1>15 DEF DeleteRow
  <2> QED BY <2>3, <2>4, <2>5, <1>14, <1>15 DEF DeleteRow, Shape, Numbers
<1>16. ASSUME NEW t \in Tabs, SweepEnds(t) PROVE Shape'
  <2>1. /\ calls' = [u \in Tabs |-> calls'[u]]
        /\ \A u \in Tabs : IsCall(calls'[u], fileCount)
    BY <1>16, <1>0, IdleIsCall, CallsStep DEF SweepEnds, Answer
  <2>2. /\ documents' \in [Numbers -> DocumentRow]
        /\ files' \in [Numbers -> FileRow]
        /\ batch' \in {"draft", "queued", "cancelled", "deleted"}
    BY <1>16, <1>14 DEF SweepEnds, Shape
  <2> QED BY <2>1, <2>2, <1>16 DEF SweepEnds, Shape, bucket, Numbers
<1>17. ASSUME NEW t \in Tabs, Abandon(t) PROVE Shape'
  BY <1>17, <1>0, IdleIsCall, OnlyCalls DEF Abandon, Answer
<1>18. ASSUME NEW f \in DOMAIN files, Expire(f) PROVE Shape'
  <2>1. files' \in [Numbers -> FileRow]
    BY <1>18 DEF Expire, Shape, FileRow
  <2> QED BY <2>1, <1>18 DEF Expire, Shape, bucket, Numbers
<1>19. ASSUME NEW f \in DOMAIN files, NEW content \in {"right", "wrong"}, Put(f, content)
       PROVE  Shape'
  <2>1. objects' \in [Numbers -> Contents]
    BY <1>19 DEF Put, Shape, Contents
  <2> QED BY <2>1, <1>19 DEF Put, Shape, rows, Numbers
<1>20. ASSUME NEW f \in DOMAIN files, Clean(f) PROVE Shape'
  <2>1. objects' \in [Numbers -> Contents]
    BY <1>20 DEF Clean, Shape, Contents
  <2> QED BY <2>1, <1>20 DEF Clean, Shape, rows, Numbers
<1>21. CASE UNCHANGED vars
  BY <1>21 DEF vars, Shape, Numbers
<1> QED
  BY <1>1, <1>2, <1>3, <1>4, <1>5, <1>6, <1>7, <1>9, <1>11, <1>12, <1>13, <1>15, <1>16,
     <1>17, <1>18, <1>19, <1>20, <1>21 DEF Next

----------------------------------------------------------------------------
(* The arrangement of the files in documents.                              *)

\* An empty draft is arranged.
LEMMA ArrangedInit == Init => Arranged
<1> SUFFICES ASSUME Init PROVE Arranged
  OBVIOUS
<1>1. Numbers = {} /\ KeptFiles = {}
  BY DEF Init, Numbers, KeptFiles
<1> QED BY <1>1 DEF Arranged, FilesHaveDocuments, OrdersDiffer, PdfsStandAlone

\* Steps that move no file and give no document another order.
LEMMA Unarranged ==
    ASSUME Shape, Arranged, fileCount' = fileCount, DOMAIN files' = Numbers,
           \A d \in Numbers : /\ documents'[d].order = documents[d].order
                              /\ Stands(d)' <=> Stands(d),
           \A f \in Numbers : /\ files'[f].document = files[f].document
                              /\ files'[f].kind = files[f].kind
    PROVE  Arranged'
<1>1. Numbers' = Numbers /\ DOMAIN files = Numbers
  BY DEF Numbers, Shape
<1>2. FilesHaveDocuments'
  BY <1>1 DEF Arranged, FilesHaveDocuments, Kept
<1>3. OrdersDiffer'
  BY <1>1 DEF Arranged, OrdersDiffer
<1>4. PdfsStandAlone'
  BY <1>1 DEF Arranged, PdfsStandAlone, KeptFiles, Kept
<1> QED BY <1>2, <1>3, <1>4 DEF Arranged

\* A new file stands in a new document, behind all others.
LEMMA ArrangedReserve ==
    ASSUME Shape, Arranged, NEW t \in Tabs, NEW kind \in Kinds, ReserveFile(t, kind)
    PROVE  Arranged'
<1> DEFINE n == fileCount
           document == [status |-> "draft", order |-> n]
           file == [document |-> n + 1, kind |-> kind, status |-> "reserved",
                    fresh |-> TRUE]
<1>0. n \in Nat /\ Len(files) = n /\ Numbers = 1..n
  BY FileCountType DEF Numbers
<1>1. /\ DOMAIN documents' = 1..(n + 1)
      /\ documents'[n + 1] = document
      /\ \A d \in 1..n : documents'[d] = documents[d]
  <2>1. document \in DocumentRow /\ documents \in [1..n -> DocumentRow]
    BY <1>0 DEF DocumentRow, Shape
  <2>2. documents' = Append(documents, document)
    BY DEF ReserveFile
  <2> HIDE DEF document
  <2> QED BY <1>0, <2>1, <2>2, OneMore
<1>2. /\ DOMAIN files' = 1..(n + 1)
      /\ files'[n + 1] = file
      /\ \A f \in 1..n : files'[f] = files[f]
  <2>1. file \in FileRow /\ files \in [1..n -> FileRow]
    BY <1>0 DEF FileRow, Shape
  <2>2. files' = Append(files, file)
    BY <1>0 DEF ReserveFile
  <2> HIDE DEF file
  <2> QED BY <1>0, <2>1, <2>2, OneMore
<1>3. Numbers' = 1..(n + 1) /\ fileCount' = n + 1
  BY <1>0 DEF ReserveFile, Numbers
<1>4. FilesHaveDocuments'
  BY <1>0, <1>1, <1>2, <1>3 DEF Arranged, FilesHaveDocuments, Kept, Stands
<1>5. \A d \in 1..n : documents[d].order \in Int
  BY <1>0 DEF Shape, DocumentRow
<1>6. OrdersDiffer'
  BY <1>0, <1>1, <1>3, <1>5 DEF Arranged, OrdersDiffer, Stands
<1>7. \A f \in 1..n : Kept(f) => files[f].document \in 1..n
  BY <1>0 DEF Arranged, FilesHaveDocuments
<1>8. PdfsStandAlone'
  <2> SUFFICES ASSUME NEW f \in KeptFiles', NEW g \in KeptFiles', f # g,
                      files'[f].document = files'[g].document
               PROVE  files'[f].kind = "image"
    BY DEF PdfsStandAlone
  <2>1. f \in 1..(n + 1) /\ g \in 1..(n + 1) /\ Kept(f)' /\ Kept(g)'
    BY <1>2 DEF KeptFiles
  <2>2. CASE f \in 1..n /\ g \in 1..n
    <3>1. f \in KeptFiles /\ g \in KeptFiles
      BY <2>1, <2>2, <1>2, <1>0 DEF KeptFiles, Kept, Shape
    <3> QED BY <3>1, <2>2, <1>2 DEF Arranged, PdfsStandAlone
  <2>3. CASE f = n + 1 /\ g \in 1..n
    BY <2>1, <2>3, <1>0, <1>2, <1>7 DEF Kept
  <2>4. CASE g = n + 1 /\ f \in 1..n
    BY <2>1, <2>4, <1>0, <1>2, <1>7 DEF Kept
  <2> QED BY <2>1, <2>2, <2>3, <2>4, <1>0
<1> QED BY <1>4, <1>6, <1>8 DEF Arranged

\* What is deleted leaves the rest as it is.
LEMMA ArrangedWithout ==
    ASSUME Shape, Arranged, NEW ds, Without(ds), fileCount' = fileCount
    PROVE  Arranged'
<1>1. /\ Numbers' = Numbers
      /\ DOMAIN documents = Numbers
      /\ DOMAIN files = Numbers
      /\ DOMAIN files' = Numbers
  BY DEF Numbers, Shape, Without
<1>2. ASSUME NEW d \in Numbers, Stands(d)'
      PROVE  Stands(d) /\ d \notin ds /\ documents'[d] = documents[d]
  BY <1>1, <1>2 DEF Without, Stands, Deleted
<1>3. ASSUME NEW f \in Numbers, Kept(f)'
      PROVE  Kept(f) /\ files[f].document \notin ds /\ files'[f] = files[f]
  BY <1>1, <1>3 DEF Without, Kept, Gone
<1>4. FilesHaveDocuments'
  <2> SUFFICES ASSUME NEW f \in Numbers, Kept(f)'
               PROVE  files'[f].document \in Numbers /\ Stands(files[f].document)'
    BY <1>1 DEF FilesHaveDocuments
  <2>1. Kept(f) /\ files[f].document \notin ds /\ files'[f] = files[f]
    BY <1>3
  <2>2. files[f].document \in Numbers /\ Stands(files[f].document)
    BY <2>1 DEF Arranged, FilesHaveDocuments
  <2>3. documents'[files[f].document] = documents[files[f].document]
    BY <2>1, <2>2, <1>1 DEF Without
  <2> QED BY <2>1, <2>2, <2>3 DEF Stands
<1>5. OrdersDiffer'
  BY <1>1, <1>2 DEF Arranged, OrdersDiffer
<1>6. PdfsStandAlone'
  <2> SUFFICES ASSUME NEW f \in KeptFiles', NEW g \in KeptFiles', f # g,
                      files'[f].document = files'[g].document
               PROVE  files'[f].kind = "image"
    BY DEF PdfsStandAlone
  <2>1. /\ f \in Numbers /\ Kept(f) /\ files'[f] = files[f]
        /\ g \in Numbers /\ Kept(g) /\ files'[g] = files[g]
    BY <1>1, <1>3 DEF KeptFiles
  <2> QED BY <2>1, <1>1 DEF Arranged, PdfsStandAlone, KeptFiles
<1> QED BY <1>4, <1>5, <1>6 DEF Arranged

\* A layout names each document once, numbers them from 0 and puts no PDF
\* beside another file.
LEMMA ArrangedLayout ==
    ASSUME Shape, NEW layout \in Layouts, Rearranges(layout), fileCount' = fileCount
    PROVE  Arranged'
<1>1. /\ Numbers' = Numbers
      /\ DOMAIN documents = Numbers
      /\ DOMAIN files = Numbers
      /\ DOMAIN files' = Numbers
  BY DEF Numbers, Shape, Rearranges
<1>2. PICK n \in 1..Cardinality(KeptFiles) :
            \E names \in [1..n -> {d \in DOMAIN documents : Stands(d)}],
               entry \in [KeptFiles -> 1..n] : layout = [names |-> names, entry |-> entry]
  BY LayoutParts
<1>3. PICK names \in [1..n -> {d \in DOMAIN documents : Stands(d)}],
           entry \in [KeptFiles -> 1..n] : layout = [names |-> names, entry |-> entry]
  BY <1>2
<1>4. layout.names = names /\ layout.entry = entry
  BY <1>3
<1>5. /\ n \in Nat /\ n <= fileCount
      /\ names \in [1..n -> DOMAIN documents]
      /\ \A k \in 1..n : names[k] \in Numbers /\ Stands(names[k])
      /\ NamesDiffer(names)
  BY <1>1, <1>4, KeptBound, FileCountType DEF Rearranges
<1>6. /\ \A d \in Numbers : (\A k \in 1..n : names[k] # d) => documents'[d].status = "deleted"
      /\ \A k \in 1..n : /\ documents'[names[k]].order = k - 1
                         /\ documents'[names[k]].status = documents[names[k]].status
  BY <1>4, <1>5, NumberedType DEF Rearranges
<1>7. ASSUME NEW f \in Numbers, Kept(f)'
      PROVE  /\ f \in KeptFiles
             /\ entry[f] \in 1..n
             /\ files'[f].document = names[entry[f]]
             /\ files'[f].kind = files[f].kind
  <2>1. CASE Kept(f)
    <3>1. f \in KeptFiles
      BY <2>1, <1>1 DEF KeptFiles
    <3>2. files'[f] = [files[f] EXCEPT !.document = names[entry[f]]]
      BY <2>1, <1>1, <1>4 DEF Rearranges
    <3>3. files[f] \in FileRow
      BY DEF Shape
    <3> QED BY <3>1, <3>2, <3>3, <1>3 DEF FileRow
  <2>2. CASE ~Kept(f)
    BY <2>2, <1>7, <1>1 DEF Rearranges, Kept
  <2> QED BY <2>1, <2>2
<1>8. FilesHaveDocuments'
  <2> SUFFICES ASSUME NEW f \in Numbers, Kept(f)'
               PROVE  files'[f].document \in Numbers /\ Stands(files[f].document)'
    BY <1>1 DEF FilesHaveDocuments
  <2>1. PICK k \in 1..n : files'[f].document = names[k]
    BY <1>7
  <2>2. names[k] \in Numbers /\ documents[names[k]].status # "deleted"
    BY <1>5 DEF Stands
  <2>3. documents'[names[k]].status # "deleted"
    BY <2>2, <1>6
  <2> QED BY <2>1, <2>2, <2>3 DEF Stands
<1>9. OrdersDiffer'
  <2>1. ASSUME NEW d \in Numbers, Stands(d)'
        PROVE  \E k \in 1..n : names[k] = d /\ documents'[d].order = k - 1
    BY <2>1, <1>6 DEF Stands
  <2>2. ASSUME NEW d \in Numbers, NEW e \in Numbers, Stands(d)', Stands(e)', d # e
        PROVE  documents'[e].order # documents'[d].order
    <3>1. PICK j \in 1..n : names[j] = d /\ documents'[d].order = j - 1
      BY <2>1, <2>2
    <3>2. PICK k \in 1..n : names[k] = e /\ documents'[e].order = k - 1
      BY <2>1, <2>2
    <3> QED BY <3>1, <3>2, <2>2
  <2>3. ASSUME NEW d \in Numbers, Stands(d)' PROVE documents'[d].order < fileCount
    <3>1. PICK j \in 1..n : names[j] = d /\ documents'[d].order = j - 1
      BY <2>1, <2>3
    <3> QED BY <3>1, <1>5, FileCountType
  <2> QED BY <2>2, <2>3, <1>1 DEF OrdersDiffer
<1>10. PdfsStandAlone'
  <2> SUFFICES ASSUME NEW f \in KeptFiles', NEW g \in KeptFiles', f # g,
                      files'[f].document = files'[g].document
               PROVE  files'[f].kind = "image"
    BY DEF PdfsStandAlone
  <2>1. f \in Numbers /\ g \in Numbers /\ Kept(f)' /\ Kept(g)'
    BY <1>1 DEF KeptFiles
  <2>2. entry[f] = entry[g]
    BY <2>1, <1>7, <1>5, <1>3 DEF NamesDiffer
  <2> QED BY <2>1, <2>2, <1>4, <1>7 DEF Rearranges, PdfsApart
<1> QED BY <1>8, <1>9, <1>10 DEF Arranged

\* Every step keeps the rows arranged.
LEMMA RowsStep == RowsInv /\ [Next]_vars => RowsInv'
<1> SUFFICES ASSUME Shape, Arranged, [Next]_vars PROVE Arranged'
  BY ShapeStep DEF RowsInv
<1>0. DOMAIN files = Numbers /\ DOMAIN documents = Numbers
  BY DEF Shape
<1>1. ASSUME UNCHANGED <<fileCount, documents, files>> PROVE Arranged'
  BY <1>1, <1>0, Unarranged DEF Stands
<1>2. ASSUME NEW t \in Tabs, NEW kind \in Kinds, ReserveFile(t, kind) PROVE Arranged'
  BY <1>2, ArrangedReserve
<1>3. ASSUME NEW t \in Tabs,
             CreateSignedUpload(t) \/ StatObject(t) \/ DeleteBatch(t) \/ SweepReads(t)
               \/ Abandon(t)
      PROVE  Arranged'
  BY <1>3, <1>1 DEF CreateSignedUpload, StatObject, DeleteBatch, SweepReads, Abandon, rows
<1>4. ASSUME NEW t \in Tabs, MarkReservationFailed(t) PROVE Arranged'
  <2>1. \A f \in Numbers : files[f] \in FileRow
    BY DEF Shape
  <2>2. /\ DOMAIN files' = Numbers
        /\ \A f \in Numbers : /\ files'[f].document = files[f].document
                              /\ files'[f].kind = files[f].kind
    BY <1>4, <1>0, <2>1 DEF MarkReservationFailed, FileRow
  <2> QED BY <2>2, <1>4, Unarranged DEF MarkReservationFailed, Stands
<1>5. ASSUME NEW t \in Tabs, NEW f \in DOMAIN files, FinalizeFile(t, f) PROVE Arranged'
  BY <1>5, <1>1 DEF FinalizeFile, rows
<1>6. ASSUME NEW t \in Tabs, MarkFinalized(t) PROVE Arranged'
  <2>1. files \in [Numbers -> FileRow]
    BY DEF Shape
  <2>2. /\ DOMAIN files' = Numbers
        /\ \A f \in Numbers : /\ files'[f].document = files[f].document
                              /\ files'[f].kind = files[f].kind
    <3>1. CASE files' = files
      BY <3>1, <1>0
    <3>2. CASE files' = [files EXCEPT ![calls[t].file].status = "uploaded"]
      BY <3>2, <1>0, <2>1 DEF FileRow
    <3> QED BY <3>1, <3>2, <1>6 DEF MarkFinalized
  <2> QED BY <2>2, <1>6, Unarranged DEF MarkFinalized, Stands
<1>7. ASSUME NEW t \in Tabs, NEW layout \in Layouts, ReplaceDocumentLayout(t, layout)
      PROVE  Arranged'
  BY <1>7, ArrangedLayout DEF ReplaceDocumentLayout
<1>8. ASSUME NEW t \in Tabs, SubmitBatch(t) \/ CancelBatch(t) PROVE Arranged'
  <2>1. PICK status \in {"queued", "cancelled"} : documents' = SetDocuments(status)
    BY <1>8 DEF SubmitBatch, CancelBatch
  <2>2. documents \in [Numbers -> DocumentRow]
    BY DEF Shape
  <2>3. \A d \in Numbers : /\ documents'[d].order = documents[d].order
                           /\ Stands(d)' <=> Stands(d)
    BY <2>1, <2>2 DEF SetDocuments, DocumentRow, Stands
  <2>4. files' = files /\ fileCount' = fileCount
    BY <1>8 DEF SubmitBatch, CancelBatch
  <2> QED BY <2>3, <2>4, <1>0, Unarranged
<1>9. ASSUME NEW t \in Tabs, NEW d \in DOMAIN documents, DeleteDocument(t, d) PROVE Arranged'
  BY <1>9, <1>1 DEF DeleteDocument, rows
<1>10. ASSUME NEW t \in Tabs, DeleteRow(t) PROVE Arranged'
  BY <1>10, ArrangedWithout DEF DeleteRow
<1>11. ASSUME NEW t \in Tabs, SweepEnds(t) PROVE Arranged'
  <2>1. CASE UNCHANGED <<documents, files>>
    BY <2>1, <1>11, <1>1 DEF SweepEnds
  <2>2. CASE Without(DOMAIN documents)
    BY <2>2, <1>11, ArrangedWithout DEF SweepEnds
  <2> QED BY <2>1, <2>2, <1>11 DEF SweepEnds
<1>12. ASSUME NEW f \in DOMAIN files, Expire(f) PROVE Arranged'
  <2>1. files \in [Numbers -> FileRow]
    BY DEF Shape
  <2>2. /\ DOMAIN files' = Numbers
        /\ \A g \in Numbers : /\ files'[g].document = files[g].document
                              /\ files'[g].kind = files[g].kind
    BY <1>12, <1>0, <2>1 DEF Expire, FileRow
  <2> QED BY <2>2, <1>12, Unarranged DEF Expire, Stands
<1>13. ASSUME NEW f \in DOMAIN files, NEW content \in {"right", "wrong"}, Put(f, content)
       PROVE  Arranged'
  BY <1>13, <1>1 DEF Put, rows
<1>14. ASSUME NEW f \in DOMAIN files, Clean(f) PROVE Arranged'
  BY <1>14, <1>1 DEF Clean, rows
<1>15. CASE UNCHANGED vars
  BY <1>15, <1>1 DEF vars
<1> QED
  BY <1>2, <1>3, <1>4, <1>5, <1>6, <1>7, <1>8, <1>9, <1>10, <1>11, <1>12, <1>13, <1>14,
     <1>15 DEF Next

\* The invariant of the rows holds for any clients.
LEMMA RowsHold == Spec => []RowsInv
<1>1. Init => RowsInv
  BY ShapeInit, ArrangedInit DEF RowsInv
<1> QED BY <1>1, RowsStep, PTL DEF Spec

\* The invariant of the rows is stronger than RowsFit.
LEMMA RowsInvFits == RowsInv => RowsFit
<1> SUFFICES ASSUME RowsInv PROVE RowsFit
  OBVIOUS
<1>1. /\ fileCount \in Nat
      /\ Len(files) = fileCount
      /\ DOMAIN files = Numbers
      /\ DOMAIN documents = Numbers
      /\ files \in [Numbers -> FileRow]
      /\ objects \in [Numbers -> Contents]
  BY FileCountType DEF RowsInv, Shape
<1>2. Len(documents) = fileCount
  <2>1. documents \in [1..fileCount -> DocumentRow]
    BY DEF RowsInv, Shape, Numbers
  <2> QED BY <2>1, <1>1, RowsOf
<1>3. \A f \in DOMAIN files :
         /\ files[f].status \in {"reserved", "uploaded", "failed", "gone"}
         /\ objects[f] \in {"none", "right", "wrong"}
         /\ Kept(f) => Stands(files[f].document)
  BY <1>1 DEF FileRow, Contents, RowsInv, Arranged, FilesHaveDocuments
<1>4. \A d \in DOMAIN documents :
         Stands(d) =>
           /\ documents[d].order < fileCount
           /\ \A e \in DOMAIN documents \ {d} :
                Stands(e) => documents[e].order # documents[d].order
  BY <1>1 DEF RowsInv, Arranged, OrdersDiffer
<1> QED BY <1>1, <1>2, <1>3, <1>4 DEF RowsInv, Shape, RowsFit

\* Whatever the clients send, and whatever the limit on the files is, the rows
\* of a draft fit: a reservation never finds its order taken, and no file is
\* left in a document that was deleted.
THEOREM RowsAlwaysFit == Spec => []RowsFit
BY RowsHold, RowsInvFits, PTL

\* Whatever the clients send, no layout, reservation or deletion leaves a PDF
\* in one document with another file.
THEOREM PdfsAlwaysStandAlone == Spec => []PdfsStandAlone
<1>1. RowsInv => PdfsStandAlone
  BY DEF RowsInv, Arranged
<1> QED BY <1>1, RowsHold, PTL

----------------------------------------------------------------------------
(* The evidence of a submitted batch.                                      *)

\* A step of a tab leaves the calls of the others.
LEMMA OthersStay ==
    ASSUME Shape, NEW t \in Tabs, NEW call, calls' = [calls EXCEPT ![t] = call]
    PROVE  calls'[t] = call /\ \A u \in Tabs \ {t} : calls'[u] = calls[u]
BY DEF Shape

\* Steps that neither arrange nor delete: they may finalize what is there.
LEMMA StoredFrame ==
    ASSUME Shape, StoredInv, UNCHANGED <<batch, fileCount, documents, torn>>,
           DOMAIN files' = Numbers, doomed' \subseteq doomed,
           \A f \in Numbers :
              /\ files'[f].document = files[f].document
              /\ Kept(f) /\ files'[f].status = "uploaded" => Intact(f)
              /\ files[f].status = "uploaded" => files'[f].status = "uploaded"
              /\ Kept(f) /\ Intact(f) => Intact(f)',
           \A t \in Tabs : calls'[t].op = "mark" =>
              /\ calls'[t].file \in Numbers
              /\ Kept(calls'[t].file) => Intact(calls'[t].file)
    PROVE  StoredInv'
<1>1. /\ Numbers' = Numbers
      /\ \A f \in Numbers : Kept(f)' <=> Kept(f)
  BY DEF Numbers, Kept
<1>2. DoomedAreTorn'
  BY <1>1 DEF StoredInv, DoomedAreTorn, Shape
<1>3. UploadedIsIntact'
  BY <1>1 DEF UploadedIsIntact
<1>4. MarkedIsIntact'
  <2> SUFFICES ASSUME NEW t \in Tabs, calls'[t].op = "mark", Kept(calls[t].file)'
               PROVE  Intact(calls[t].file)'
    BY DEF MarkedIsIntact
  <2>1. calls'[t].file \in Numbers /\ Kept(calls'[t].file)
    BY DEF Kept
  <2>2. \A f \in Numbers : f = calls'[t].file => Intact(f)'
    BY <2>1
  <2> QED BY <2>1, <2>2 DEF Intact
<1>5. QueuedIsUploaded'
  BY <1>1 DEF StoredInv, QueuedIsUploaded
<1> QED BY <1>2, <1>3, <1>4, <1>5 DEF StoredInv

\* A file that is about to be finalized is one that exists.
LEMMA MarksAreIntact ==
    ASSUME Shape, StoredInv, NEW t \in Tabs, calls[t].op = "mark"
    PROVE  /\ calls[t].file \in Numbers
           /\ Kept(calls[t].file) => Intact(calls[t].file)
<1>1. IsCall(calls[t], fileCount)
  BY DEF Shape
<1> QED BY <1>1, CallParts DEF StoredInv, MarkedIsIntact, Numbers

\* Steps that only move a request on.
LEMMA StoredCalls ==
    ASSUME Shape, StoredInv, UNCHANGED rows, UNCHANGED bucket, NEW t \in Tabs, NEW call,
           calls' = [calls EXCEPT ![t] = call],
           call.op = "mark" => call.file \in Numbers /\ Intact(call.file)
    PROVE  StoredInv'
<1>1. ASSUME NEW u \in Tabs, calls'[u].op = "mark"
      PROVE  /\ calls'[u].file \in Numbers
             /\ Kept(calls'[u].file) => Intact(calls'[u].file)
  BY <1>1, OthersStay, MarksAreIntact
<1>2. /\ DOMAIN files' = Numbers
      /\ UNCHANGED <<batch, fileCount, documents, files, objects, doomed, torn>>
  BY DEF rows, bucket, Shape
<1>3. \A f \in Numbers : Kept(f) /\ files[f].status = "uploaded" => Intact(f)
  BY DEF StoredInv, UploadedIsIntact
<1>4. \A f \in Numbers : Intact(f) => Intact(f)'
  BY <1>2 DEF Intact
<1> QED BY <1>1, <1>2, <1>3, <1>4, StoredFrame

\* A deletion takes the rows of its documents.  What it hands to a cleanup job
\* went with them or is torn.
LEMMA StoredWithout ==
    ASSUME Shape, StoredInv, UNCHANGED fileCount, NEW ds, Without(ds), UNCHANGED objects,
           batch' = "queued" => batch = "queued", torn \subseteq torn',
           \A t \in Tabs : calls'[t].op = "mark" => calls'[t] = calls[t],
           \A f \in doomed' : /\ f \in Numbers
                              /\ f \in doomed \cup torn' \/ files[f].document \in ds
    PROVE  StoredInv'
<1>1. /\ Numbers' = Numbers
      /\ DOMAIN files = Numbers
  BY DEF Numbers, Shape
<1>2. ASSUME NEW f \in Numbers, Kept(f)'
      PROVE  Kept(f) /\ files[f].document \notin ds /\ files'[f] = files[f]
  BY <1>1, <1>2 DEF Without, Kept, Gone
<1>3. \A f \in Numbers : Intact(f) => Intact(f)'
  BY DEF Intact
<1>4. DoomedAreTorn'
  BY <1>2 DEF StoredInv, DoomedAreTorn
<1>5. UploadedIsIntact'
  BY <1>1, <1>2, <1>3 DEF StoredInv, UploadedIsIntact
<1>6. MarkedIsIntact'
  <2> SUFFICES ASSUME NEW t \in Tabs, calls'[t].op = "mark", Kept(calls[t].file)'
               PROVE  Intact(calls[t].file)'
    BY DEF MarkedIsIntact
  <2>1. calls'[t] = calls[t] /\ calls[t].op = "mark"
    OBVIOUS
  <2>2. calls[t].file \in Numbers /\ (Kept(calls[t].file) => Intact(calls[t].file))
    BY <2>1, MarksAreIntact
  <2>3. \A f \in Numbers : f = calls[t].file => Kept(f)'
    BY <2>1 DEF Kept
  <2>4. Kept(calls[t].file)
    BY <2>2, <2>3, <1>2
  <2> QED BY <2>1, <2>2, <2>4 DEF Intact
<1>7. QueuedIsUploaded'
  BY <1>1, <1>2 DEF StoredInv, QueuedIsUploaded
<1> QED BY <1>4, <1>5, <1>6, <1>7 DEF StoredInv

\* A reservation adds a file that is not finalized to a draft.
LEMMA StoredReserve ==
    ASSUME Shape, StoredInv, NEW t \in Tabs, NEW kind \in Kinds, ReserveFile(t, kind)
    PROVE  StoredInv'
<1> DEFINE n == fileCount
           file == [document |-> n + 1, kind |-> kind, status |-> "reserved",
                    fresh |-> TRUE]
<1>0. n \in Nat /\ Len(files) = n /\ Numbers = 1..n /\ Numbers' = 1..(n + 1)
  BY FileCountType DEF Numbers, ReserveFile
<1>1. /\ files'[n + 1] = file
      /\ \A f \in 1..n : files'[f] = files[f]
  <2>1. file \in FileRow /\ files \in [1..n -> FileRow]
    BY <1>0 DEF FileRow, Shape
  <2>2. files' = Append(files, file)
    BY <1>0 DEF ReserveFile
  <2> HIDE DEF file
  <2> QED BY <1>0, <2>1, <2>2, OneMore
<1>2. \A f \in 1..n : objects'[f] = objects[f]
  BY <1>0, OneMore DEF ReserveFile, Shape, Contents
<1>3. batch' = "draft" /\ doomed' = doomed /\ torn' = torn
  BY DEF ReserveFile, HasRoom
<1>4. DoomedAreTorn'
  BY <1>0, <1>1, <1>3 DEF StoredInv, DoomedAreTorn, Shape, Kept
<1>5. UploadedIsIntact'
  BY <1>0, <1>1, <1>2, <1>3 DEF StoredInv, UploadedIsIntact, Intact, Kept
<1>6. MarkedIsIntact'
  <2> SUFFICES ASSUME NEW u \in Tabs, calls'[u].op = "mark", Kept(calls[u].file)'
               PROVE  Intact(calls[u].file)'
    BY DEF MarkedIsIntact
  <2> DEFINE call == Upload("sign", Len(files) + 1, NoDocument)
  <2>1. calls' = [calls EXCEPT ![t] = call]
    BY DEF ReserveFile, Start
  <2>2. call.op = "sign"
    BY DEF Upload
  <2> HIDE DEF call
  <2>3. calls'[u] = calls[u]
    BY <2>1, <2>2, OthersStay
  <2>4. calls[u].file \in 1..n /\ (Kept(calls[u].file) => Intact(calls[u].file))
    BY <2>3, <1>0, MarksAreIntact
  <2>5. files'[calls[u].file].document # NoDocument
    BY <2>3 DEF Kept
  <2> QED BY <2>3, <2>4, <2>5, <1>1, <1>2, <1>3 DEF Kept, Intact
<1>7. QueuedIsUploaded'
  BY <1>3 DEF QueuedIsUploaded
<1> QED BY <1>4, <1>5, <1>6, <1>7 DEF StoredInv

\* A layout moves the files of a draft and keeps what they are.
LEMMA StoredLayout ==
    ASSUME Shape, StoredInv, NEW t \in Tabs, NEW layout \in Layouts,
           ReplaceDocumentLayout(t, layout)
    PROVE  StoredInv'
<1>1. /\ UNCHANGED <<batch, fileCount, objects, doomed, torn, calls>>
      /\ batch = "draft"
      /\ Numbers' = Numbers
      /\ DOMAIN files = Numbers
  BY DEF ReplaceDocumentLayout, Rearranges, bucket, Shape, Numbers
<1>2. ASSUME NEW f \in Numbers
      PROVE  files'[f].status = files[f].status /\ (Kept(f)' => Kept(f))
  <2>1. files[f] \in FileRow
    BY DEF Shape
  <2>2. files'[f] = IF Kept(f)
                    THEN [files[f] EXCEPT !.document = layout.names[layout.entry[f]]]
                    ELSE files[f]
    BY <1>1 DEF ReplaceDocumentLayout, Rearranges
  <2>3. CASE Kept(f)
    BY <2>1, <2>2, <2>3 DEF FileRow
  <2>4. CASE ~Kept(f)
    BY <2>2, <2>4 DEF Kept
  <2> QED BY <2>3, <2>4
<1>3. DoomedAreTorn'
  BY <1>1, <1>2 DEF StoredInv, DoomedAreTorn, Shape
<1>4. UploadedIsIntact'
  BY <1>1, <1>2 DEF StoredInv, UploadedIsIntact, Intact
<1>5. MarkedIsIntact'
  <2> SUFFICES ASSUME NEW u \in Tabs, calls[u].op = "mark", Kept(calls[u].file)'
               PROVE  Intact(calls[u].file)
    BY <1>1 DEF MarkedIsIntact, Intact
  <2>1. calls[u].file \in Numbers /\ (Kept(calls[u].file) => Intact(calls[u].file))
    BY MarksAreIntact
  <2>2. \A f \in Numbers : f = calls[u].file => (Kept(f)' => Kept(f))
    BY <1>2
  <2>3. \A f \in Numbers : f = calls[u].file => Kept(f)'
    BY <1>1 DEF Kept
  <2> QED BY <2>1, <2>2, <2>3
<1>6. QueuedIsUploaded'
  BY <1>1 DEF QueuedIsUploaded
<1> QED BY <1>3, <1>4, <1>5, <1>6 DEF StoredInv

\* Submission looks at every file that is kept.
LEMMA StoredSubmit ==
    ASSUME Shape, StoredInv, NEW t \in Tabs, SubmitBatch(t) \/ CancelBatch(t)
    PROVE  StoredInv'
<1>1. /\ UNCHANGED <<fileCount, files, objects, doomed, torn, calls>>
      /\ Numbers' = Numbers
      /\ DOMAIN files = Numbers
  BY DEF SubmitBatch, CancelBatch, bucket, Shape, Numbers
<1>2. DoomedAreTorn' /\ UploadedIsIntact' /\ MarkedIsIntact'
  BY <1>1 DEF StoredInv, DoomedAreTorn, UploadedIsIntact, MarkedIsIntact, Intact, Kept
<1>3. batch' = "queued" => \A f \in Numbers : Kept(f) => files[f].status = "uploaded"
  BY <1>1 DEF SubmitBatch, CancelBatch, Ready, KeptFiles
<1>4. QueuedIsUploaded'
  BY <1>1, <1>3 DEF QueuedIsUploaded, Kept
<1> QED BY <1>2, <1>4 DEF StoredInv

\* An answered request neither deletes nor finalizes.
LEMMA IdleDeletesNothing == Idle.op \notin Deletions /\ Idle.op # "mark"
BY IdleIsCall DEF Deletions

\* A deletion finalizes nothing.
LEMMA DeletionMarksNothing ==
    ASSUME NEW op \in Deletions, NEW document, NEW paths, NEW rest
    PROVE  Deletion(op, document, paths, rest).op # "mark"
BY DEF Deletion, Deletions

\* Answering a request leaves the finalizations of the others.
LEMMA AnsweredMarks ==
    ASSUME Shape, StoredInv, NEW t \in Tabs, calls' = [calls EXCEPT ![t] = Idle]
    PROVE  \A u \in Tabs : calls'[u].op = "mark" =>
              /\ calls'[u].file \in Numbers
              /\ Kept(calls'[u].file) => Intact(calls'[u].file)
BY OthersStay, IdleDeletesNothing, MarksAreIntact

\* A deletion reads what it will delete, in whatever order.
LEMMA StoredReads ==
    ASSUME Shape, StoredInv, NEW t \in Tabs,
           (\E d \in DOMAIN documents : DeleteDocument(t, d)) \/ DeleteBatch(t)
             \/ SweepReads(t)
    PROVE  StoredInv'
<1>1. UNCHANGED rows /\ UNCHANGED bucket
  BY DEF DeleteDocument, DeleteBatch, SweepReads
<1>2. \E call : call.op # "mark" /\ calls' = [calls EXCEPT ![t] = call]
  <2> DEFINE reads(op, d, paths, rest) ==
               calls' = [calls EXCEPT ![t] = Deletion(op, d, paths, rest)]
  <2>1. \/ \E op \in Deletions : \E d, paths, rest : reads(op, d, paths, rest)
        \/ calls' = [calls EXCEPT ![t] = Idle]
    <3>1. CASE \E d \in DOMAIN documents : DeleteDocument(t, d)
      BY <3>1 DEF DeleteDocument, Start, Deletions
    <3>2. CASE DeleteBatch(t)
      BY <3>2 DEF DeleteBatch, Start, Deletions
    <3>3. CASE SweepReads(t)
      <4>1. "sweep" \in Deletions
        BY DEF Deletions
      <4> DEFINE d == Head(calls[t].rest)
                 rest == Tail(calls[t].rest)
      <4>2. \/ reads("sweep", d, FilesOf(d), rest)
            \/ reads("sweep", NoDocument, {}, rest)
            \/ calls' = [calls EXCEPT ![t] = Idle]
        BY <3>3 DEF SweepReads, Start, Answer
      <4> HIDE DEF d, rest, reads
      <4> QED BY <4>1, <4>2
    <3> QED BY <3>1, <3>2, <3>3
  <2> QED BY <2>1, DeletionMarksNothing, IdleDeletesNothing
<1> QED BY <1>1, <1>2, StoredCalls

\* The row goes by its id, with the files that are then in the document.
LEMMA StoredRow ==
    ASSUME Shape, StoredInv, NEW t \in Tabs, DeleteRow(t)
    PROVE  StoredInv'
<1> DEFINE d == calls[t].document
           paths == calls[t].paths
<1>1. /\ Without({d})
      /\ UNCHANGED <<batch, fileCount, objects>>
      /\ doomed' = doomed \cup paths
      /\ torn' = torn \cup (paths \ FilesOf(d))
  BY DEF DeleteRow, EnqueueCleanup, Tears
<1>2. paths \subseteq Numbers /\ doomed \subseteq Numbers
  BY CallParts DEF Shape, Numbers
<1>3. ASSUME NEW f \in doomed'
      PROVE  f \in Numbers /\ (f \in doomed \cup torn' \/ files[f].document \in {d})
  BY <1>1, <1>2, <1>3 DEF FilesOf
<1>4. \A u \in Tabs : calls'[u].op = "mark" => calls'[u] = calls[u]
  <2>1. PICK call : call.op # "mark" /\ calls' = [calls EXCEPT ![t] = call]
    <3>1. Deletion("sweep", NoDocument, {}, calls[t].rest).op # "mark"
      BY DeletionMarksNothing DEF Deletions
    <3> QED BY <3>1, IdleDeletesNothing DEF DeleteRow, Start, Answer
  <2> QED BY <2>1, OthersStay
<1> HIDE DEF d, paths
<1> QED BY <1>1, <1>3, <1>4, StoredWithout

\* What is left of a batch goes with its row, when it was not submitted.
LEMMA StoredEnds ==
    ASSUME Shape, StoredInv, NEW t \in Tabs, SweepEnds(t)
    PROVE  StoredInv'
<1>1. /\ calls' = [calls EXCEPT ![t] = Idle]
      /\ UNCHANGED <<fileCount, objects, signed, doomed, torn>>
  BY DEF SweepEnds, Answer, bucket
<1>2. CASE batch \in {"draft", "cancelled"}
  <2>1. batch' = "deleted" /\ Without(DOMAIN documents)
    BY <1>2 DEF SweepEnds
  <2>2. \A u \in Tabs : calls'[u].op = "mark" => calls'[u] = calls[u]
    BY <1>1, OthersStay, IdleDeletesNothing
  <2>3. \A f \in doomed' : f \in Numbers /\ f \in doomed
    BY <1>1 DEF Shape
  <2> QED BY <1>1, <2>1, <2>2, <2>3, StoredWithout
<1>3. CASE batch \notin {"draft", "cancelled"}
  <2>1. UNCHANGED rows /\ UNCHANGED bucket
    BY <1>1, <1>3 DEF SweepEnds, rows, bucket
  <2> QED BY <1>1, <2>1, StoredCalls, IdleDeletesNothing
<1> QED BY <1>2, <1>3

\* Every step keeps the evidence.
LEMMA StoredStep == RowsInv /\ StoredInv /\ [Next]_vars => StoredInv'
<1> SUFFICES ASSUME RowsInv, StoredInv, [Next]_vars PROVE StoredInv'
  OBVIOUS
<1>0. /\ Shape
      /\ DOMAIN files = Numbers
      /\ files \in [Numbers -> FileRow]
      /\ objects \in [Numbers -> Contents]
      /\ \A f \in Numbers : Kept(f) /\ files[f].status = "uploaded" => Intact(f)
  BY DEF RowsInv, Shape, StoredInv, UploadedIsIntact
<1>1. ASSUME UNCHANGED calls
      PROVE  \A u \in Tabs : calls'[u].op = "mark" =>
                /\ calls'[u].file \in Numbers
                /\ Kept(calls'[u].file) => Intact(calls'[u].file)
  BY <1>1, <1>0, MarksAreIntact
<1>2. ASSUME UNCHANGED <<objects, torn>>
      PROVE  \A f \in Numbers : Intact(f) => Intact(f)'
  BY <1>2 DEF Intact
<1>3. ASSUME NEW t \in Tabs, NEW kind \in Kinds, ReserveFile(t, kind) PROVE StoredInv'
  BY <1>0, <1>3, StoredReserve
<1>4. ASSUME NEW t \in Tabs, CreateSignedUpload(t) PROVE StoredInv'
  <2>1. /\ UNCHANGED <<batch, fileCount, documents, files, objects, doomed, torn>>
        /\ calls' = [calls EXCEPT ![t] = Idle]
    BY <1>4 DEF CreateSignedUpload, Answer, rows
  <2>2. \A f \in Numbers : Intact(f) => Intact(f)'
    BY <2>1, <1>2
  <2>3. \A u \in Tabs : calls'[u].op = "mark" =>
           /\ calls'[u].file \in Numbers
           /\ Kept(calls'[u].file) => Intact(calls'[u].file)
    BY <2>1, <1>0, AnsweredMarks
  <2> QED BY <2>1, <2>2, <2>3, <1>0, StoredFrame
<1>5. ASSUME NEW t \in Tabs, MarkReservationFailed(t) PROVE StoredInv'
  <2>1. /\ UNCHANGED <<batch, fileCount, documents, objects, doomed, torn>>
        /\ calls' = [calls EXCEPT ![t] = Idle]
    BY <1>5 DEF MarkReservationFailed, Answer, bucket
  <2>2. \A f \in Numbers : Intact(f) => Intact(f)'
    BY <2>1, <1>2
  <2>3. \A u \in Tabs : calls'[u].op = "mark" =>
           /\ calls'[u].file \in Numbers
           /\ Kept(calls'[u].file) => Intact(calls'[u].file)
    BY <2>1, <1>0, AnsweredMarks
  <2>4. /\ DOMAIN files' = Numbers
        /\ \A f \in Numbers :
             /\ files'[f].document = files[f].document
             /\ files'[f].status = "uploaded" <=> files[f].status = "uploaded"
    BY <1>0, <1>5 DEF MarkReservationFailed, FileRow
  <2> QED BY <2>1, <2>2, <2>3, <2>4, <1>0, StoredFrame
<1>6. ASSUME NEW t \in Tabs, NEW f \in DOMAIN files, FinalizeFile(t, f) PROVE StoredInv'
  <2> DEFINE call == Upload("stat", f, files[f].document)
  <2>1. calls' = [calls EXCEPT ![t] = call] /\ UNCHANGED rows /\ UNCHANGED bucket
    BY <1>6 DEF FinalizeFile, Start
  <2>2. call.op # "mark"
    BY DEF Upload
  <2> HIDE DEF call
  <2> QED BY <2>1, <2>2, <1>0, StoredCalls
<1>7. ASSUME NEW t \in Tabs, StatObject(t) PROVE StoredInv'
  <2> DEFINE call == IF ObjectFits(calls[t])
                     THEN Upload("mark", calls[t].file, calls[t].document) ELSE Idle
  <2>1. /\ calls' = [calls EXCEPT ![t] = call] /\ calls[t].op = "stat"
        /\ UNCHANGED rows /\ UNCHANGED bucket
    BY <1>7 DEF StatObject, Start, Answer
  <2>2. call.op = "mark" => call.file \in Numbers /\ Intact(call.file)
    <3>1. CASE ObjectFits(calls[t])
      <4>1. call.file = calls[t].file
        BY <3>1 DEF Upload
      <4>2. calls[t].file \in Numbers
        BY <2>1, <1>0, CallParts DEF Shape, Numbers
      <4> QED BY <3>1, <4>1, <4>2 DEF ObjectFits, Intact
    <3>2. CASE ~ObjectFits(calls[t])
      BY <3>2, IdleDeletesNothing
    <3> QED BY <3>1, <3>2
  <2> HIDE DEF call
  <2> QED BY <2>1, <2>2, <1>0, StoredCalls
<1>8. ASSUME NEW t \in Tabs, MarkFinalized(t) PROVE StoredInv'
  <2>1. /\ UNCHANGED <<batch, fileCount, documents, objects, doomed, torn>>
        /\ calls' = [calls EXCEPT ![t] = Idle]
    BY <1>8 DEF MarkFinalized, Answer, bucket
  <2>2. \A f \in Numbers : Intact(f) => Intact(f)'
    BY <2>1, <1>2
  <2>3. \A u \in Tabs : calls'[u].op = "mark" =>
           /\ calls'[u].file \in Numbers
           /\ Kept(calls'[u].file) => Intact(calls'[u].file)
    BY <2>1, <1>0, AnsweredMarks
  <2>4. Kept(calls[t].file) => Intact(calls[t].file)
    BY <1>0, <1>8, MarksAreIntact DEF MarkFinalized
  <2>5. /\ DOMAIN files' = Numbers
        /\ \A f \in Numbers :
             /\ files'[f].document = files[f].document
             /\ Kept(f) /\ files'[f].status = "uploaded" => Intact(f)
             /\ files[f].status = "uploaded" => files'[f].status = "uploaded"
    <3>1. CASE files' = files
      BY <3>1, <1>0
    <3>2. CASE files' = [files EXCEPT ![calls[t].file].status = "uploaded"]
      BY <3>2, <2>4, <1>0 DEF FileRow
    <3> QED BY <3>1, <3>2, <1>8 DEF MarkFinalized
  <2> QED BY <2>1, <2>2, <2>3, <2>5, <1>0, StoredFrame
<1>9. ASSUME NEW t \in Tabs, NEW layout \in Layouts, ReplaceDocumentLayout(t, layout)
      PROVE  StoredInv'
  BY <1>0, <1>9, StoredLayout
<1>10. ASSUME NEW t \in Tabs, SubmitBatch(t) \/ CancelBatch(t) PROVE StoredInv'
  BY <1>0, <1>10, StoredSubmit
<1>11. ASSUME NEW t \in Tabs, Abandon(t) PROVE StoredInv'
  <2>1. calls' = [calls EXCEPT ![t] = Idle] /\ UNCHANGED rows /\ UNCHANGED bucket
    BY <1>11 DEF Abandon, Answer
  <2> QED BY <2>1, <1>0, StoredCalls, IdleDeletesNothing
<1>12. ASSUME NEW f \in DOMAIN files, Expire(f) PROVE StoredInv'
  <2>1. /\ DOMAIN files' = Numbers
        /\ \A g \in Numbers : /\ files'[g].document = files[g].document
                              /\ files'[g].status = files[g].status
    BY <1>0, <1>12 DEF Expire, FileRow
  <2>2. UNCHANGED <<batch, fileCount, documents, objects, doomed, torn, calls>>
    BY <1>12 DEF Expire, bucket
  <2>3. \A g \in Numbers : Intact(g) => Intact(g)'
    BY <2>2, <1>2
  <2> QED BY <2>1, <2>2, <2>3, <1>0, <1>1, StoredFrame
<1>13. ASSUME NEW f \in DOMAIN files, NEW content \in {"right", "wrong"}, Put(f, content)
       PROVE  StoredInv'
  <2>1. UNCHANGED <<batch, fileCount, documents, files, doomed, torn, calls>>
    BY <1>13 DEF Put, rows
  <2>2. \A g \in Numbers : Intact(g) => Intact(g)'
    BY <2>1, <1>0, <1>13 DEF Put, Intact
  <2> QED BY <2>1, <2>2, <1>0, <1>1, StoredFrame
<1>14. ASSUME NEW f \in DOMAIN files, Clean(f) PROVE StoredInv'
  <2>1. /\ UNCHANGED <<batch, fileCount, documents, files, torn, calls>>
        /\ doomed' \subseteq doomed
        /\ f \in doomed
    BY <1>14 DEF Clean, rows
  <2>2. \A g \in Numbers : Kept(g) /\ Intact(g) => Intact(g)'
    BY <2>1, <1>0, <1>14 DEF Clean, StoredInv, DoomedAreTorn, Intact
  <2> QED BY <2>1, <2>2, <1>0, <1>1, StoredFrame
<1>15. CASE UNCHANGED vars
  <2>1. UNCHANGED <<batch, fileCount, documents, files, objects, doomed, torn, calls>>
    BY <1>15 DEF vars
  <2>2. \A g \in Numbers : Intact(g) => Intact(g)'
    BY <2>1, <1>2
  <2> QED BY <2>1, <2>2, <1>0, <1>1, StoredFrame
<1>16. ASSUME NEW t \in Tabs,
              (\E d \in DOMAIN documents : DeleteDocument(t, d)) \/ DeleteBatch(t)
                \/ SweepReads(t)
       PROVE  StoredInv'
  BY <1>0, <1>16, StoredReads
<1>17. ASSUME NEW t \in Tabs, DeleteRow(t) PROVE StoredInv'
  BY <1>0, <1>17, StoredRow
<1>18. ASSUME NEW t \in Tabs, SweepEnds(t) PROVE StoredInv'
  BY <1>0, <1>18, StoredEnds
<1> QED
  BY <1>3, <1>4, <1>5, <1>6, <1>7, <1>8, <1>9, <1>10, <1>11, <1>12, <1>13, <1>14, <1>15,
     <1>16, <1>17, <1>18 DEF Next

\* An empty draft has all its evidence.
LEMMA StoredInit == Init => StoredInv
<1> SUFFICES ASSUME Init PROVE StoredInv
  OBVIOUS
<1>1. \A t \in Tabs : calls[t] = Idle
  BY DEF Init
<1>2. Numbers = {} /\ doomed = {} /\ batch = "draft"
  BY DEF Init, Numbers
<1> QED BY <1>1, <1>2, IdleDeletesNothing
        DEF StoredInv, DoomedAreTorn, UploadedIsIntact, MarkedIsIntact, QueuedIsUploaded

\* Every file of a submitted batch is in the bucket as it was declared, for any
\* number of tabs and files and with deletions that overlap every other request,
\* except a file that a layout moved between the two statements of a deletion.
THEOREM SubmissionIsStored == Spec => []SubmittedIsStored
<1>1. Init => RowsInv /\ StoredInv
  BY ShapeInit, ArrangedInit, StoredInit DEF RowsInv
<1>2. RowsInv /\ StoredInv /\ [Next]_vars => (RowsInv /\ StoredInv)'
  BY RowsStep, StoredStep
<1>3. RowsInv /\ StoredInv => SubmittedIsStored
  BY DEF RowsInv, Shape, StoredInv, UploadedIsIntact, QueuedIsUploaded, Intact,
         KeptFiles, SubmittedIsStored
<1> QED BY <1>1, <1>2, <1>3, PTL DEF Spec

=============================================================================
