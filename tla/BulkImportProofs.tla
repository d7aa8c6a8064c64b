-------------------------- MODULE BulkImportProofs --------------------------
(***************************************************************************)
(* Theorems about BulkImport for every set of documents, workers and       *)
(* purchases, and any number of chunks, attempts, generations, leases      *)
(* that run out and requests.                                              *)
(*                                                                         *)
(* The tables are proved about one transaction at a time: a transaction    *)
(* leaves a Sound database, and says what it did to the documents and the  *)
(* batch (Advances, or Follows where a cut is made).  What a step does to  *)
(* the invariant and to the documents that have ended (Fates) follows from *)
(* these two, in the same way for every step.                              *)
(*                                                                         *)
(* The last part follows the jobs while none was delivered twice (Once):   *)
(* what a handler is about to do was not done before, and what was done is *)
(* complete.                                                               *)
(***************************************************************************)
EXTENDS BulkImport, Induction, TLAPS

BatchRow == [status : BatchStatus, started : BOOLEAN, done : BOOLEAN]

DocumentRow ==
    [status : DocumentStatus, gen : Generations, cut : Nat, started : BOOLEAN,
     done : BOOLEAN, errors : BOOLEAN, files : BOOLEAN, genuine : BOOLEAN]

ChunkRow == [status : ChunkStatus, answer : Outputs \cup {None}]

\* A database is the record of its seven tables.
IsDatabase(s) ==
    s = [batch |-> s.batch, doc |-> s.doc, chunk |-> s.chunk, cand |-> s.cand,
         jobs |-> s.jobs, ledger |-> s.ledger, link |-> s.link]

IsCandidate(c) ==
    /\ c = [doc |-> c.doc, gen |-> c.gen, cut |-> c.cut, n |-> c.n, what |-> c.what,
            doubts |-> c.doubts, status |-> c.status, tx |-> c.tx]
    /\ c.doc \in Documents
    /\ c.gen \in Generations
    /\ c.cut \in Nat
    /\ c.status \in CandidateStatus

IsWork(w) ==
    /\ w = Work(w.kind, w.doc, w.gen, w.cut, w.n)
    /\ w.kind \in Kinds
    /\ w.doc \in Documents
    /\ w.gen \in Generations

IsJob(j) ==
    /\ j = [kind |-> j.kind, doc |-> j.doc, gen |-> j.gen, cut |-> j.cut, n |-> j.n,
            status |-> j.status, tries |-> j.tries, owner |-> j.owner]
    /\ IsWork(WorkOf(j))
    /\ j.tries \in Nat

CandidatesFit(cand) == \A c \in cand : IsCandidate(c)

\* The partial unique indexes: one job for a piece of work.
JobsFit(jobs) ==
    /\ IsFiniteSet(jobs)
    /\ \A j \in jobs : IsJob(j)
    /\ \A j, k \in jobs : WorkOf(j) = WorkOf(k) => j = k

Shape(s) ==
    /\ IsDatabase(s)
    /\ s.batch \in BatchRow
    /\ s.doc \in [Documents -> DocumentRow]
    /\ s.chunk \in [Documents -> [Generations -> [1..Chunks -> ChunkRow]]]
    /\ CandidatesFit(s.cand)
    /\ JobsFit(s.jobs)

\* A transaction with the name of a candidate row of the document.
NamedAfter(t, d) == t.id = <<d, t.id[2], t.id[3], t.id[4]>>

\* Rows have names of their own, in the generations and cuts there have been.
KeysFit(doc, cand) ==
    /\ \A c, k \in cand : Key(c) = Key(k) => c = k
    /\ \A c \in cand : c.gen <= doc[c.doc].gen /\ c.cut <= doc[c.doc].cut

\* So have transactions; one of the present cut of a document that is not
\* deleted is named after a candidate that is still there.
NamesFit(doc, cand, ledger) ==
    \A t \in ledger : \A d \in Documents : NamedAfter(t, d) =>
       /\ t.id[2] \in Nat /\ t.id[2] <= doc[d].gen
       /\ t.id[3] \in Nat /\ t.id[3] <= doc[d].cut
       /\ \/ doc[d].status = "deleted"
          \/ t.id[2] # doc[d].gen
          \/ t.id[3] # doc[d].cut
          \/ \E c \in cand : Key(c) = t.id

\* The transaction named after a candidate is the one it created.
OwnIsCreated(cand, ledger) ==
    \A t \in ledger : \A c \in cand : t.id = Key(c) => c.status = "created"

\* An evidence row is of the candidate it names, to a transaction there is.
LinksFit(ledger, link) ==
    \A l \in link : /\ l.cand = <<l.doc, l.gen, l.cand[3], l.cand[4]>>
                    /\ \E t \in ledger : t.id = l.tx

Settled(cand, ledger, link) ==
    \A c \in cand : c.status \in {"created", "attached"} =>
        /\ \E t \in ledger : t.id = c.tx
        /\ \E l \in link : l.tx = c.tx /\ l.cand = Key(c)

Single(ledger) ==
    \A t, u \in ledger : t.what = u.what /\ "user" \notin {t.by, u.by} => t = u

Evidenced(doc, cand, ledger, link) ==
    /\ KeysFit(doc, cand)
    /\ NamesFit(doc, cand, ledger)
    /\ OwnIsCreated(cand, ledger)
    /\ LinksFit(ledger, link)
    /\ Settled(cand, ledger, link)
    /\ Single(ledger)

\* A document that fails its verification gets no further than that.
Unread == {"queued", "preparing", "failed", "cancelled", "deleted"}

Vetted(doc, cand, jobs) ==
    \A d \in Documents : ~doc[d].genuine =>
       /\ doc[d].status \in Unread
       /\ \A j \in jobs : j.doc = d => j.kind = "prepare"
       /\ \A c \in cand : c.doc # d

Closed == {"completed", "completed_with_errors", "cancelled"}

Quiet(s) ==
    s.batch.status \in Closed =>
       \A d \in Documents : s.doc[d].gen = 1 => s.doc[d].status \notin Active

Sound(s) ==
    /\ Shape(s)
    /\ Evidenced(s.doc, s.cand, s.ledger, s.link)
    /\ Vetted(s.doc, s.cand, s.jobs)

\* Where a handler may be with its work.
IsWorker(s, x) ==
    /\ x = [pc |-> x.pc, work |-> x.work]
    /\ x.pc = "idle" \/ IsWork(x.work)
    /\ x.pc # "idle" /\ ~s.doc[x.work.doc].genuine =>
          /\ x.work.kind = "prepare"
          /\ x.pc \in {"check", "prepare", "render", "succeeded", "erred"}

WorkersFit ==
    /\ worker = [w \in Workers |-> worker[w]]
    /\ \A w \in Workers : IsWorker(db, worker[w])

PipelineInv ==
    /\ Sound(db)
    /\ Legal(db)
    /\ Quiet(db)
    /\ WorkersFit
    /\ doomed \subseteq Documents

----------------------------------------------------------------------------
(* Databases, table by table.                                              *)

\* The tables of s2 are those of s, but for the batch, documents, chunks,
\* candidates and jobs given.
Becomes(s, s2, batch, doc, chunk, cand, jobs) ==
    /\ IsDatabase(s2)
    /\ s2.batch = batch
    /\ s2.doc = doc
    /\ s2.chunk = chunk
    /\ s2.cand = cand
    /\ s2.jobs = jobs
    /\ s2.ledger = s.ledger
    /\ s2.link = s.link

\* Replacing one table.
LEMMA Replacing ==
    ASSUME NEW s, IsDatabase(s), NEW x
    PROVE  /\ Becomes(s, [s EXCEPT !.batch = x], x, s.doc, s.chunk, s.cand, s.jobs)
           /\ Becomes(s, [s EXCEPT !.doc = x], s.batch, x, s.chunk, s.cand, s.jobs)
           /\ Becomes(s, [s EXCEPT !.chunk = x], s.batch, s.doc, x, s.cand, s.jobs)
           /\ Becomes(s, [s EXCEPT !.cand = x], s.batch, s.doc, s.chunk, x, s.jobs)
           /\ Becomes(s, [s EXCEPT !.jobs = x], s.batch, s.doc, s.chunk, s.cand, x)
BY DEF IsDatabase, Becomes

\* Replacing another table.
LEMMA ReplacingNext ==
    ASSUME NEW s, NEW x, NEW batch, NEW doc, NEW chunk, NEW cand, NEW jobs,
           Becomes(s, x, batch, doc, chunk, cand, jobs), NEW v
    PROVE  /\ Becomes(s, [x EXCEPT !.batch = v], v, doc, chunk, cand, jobs)
           /\ Becomes(s, [x EXCEPT !.doc = v], batch, v, chunk, cand, jobs)
           /\ Becomes(s, [x EXCEPT !.chunk = v], batch, doc, v, cand, jobs)
           /\ Becomes(s, [x EXCEPT !.cand = v], batch, doc, chunk, v, jobs)
           /\ Becomes(s, [x EXCEPT !.jobs = v], batch, doc, chunk, cand, v)
<1>1. /\ IsDatabase(x) /\ x.batch = batch /\ x.doc = doc /\ x.chunk = chunk /\ x.cand = cand
      /\ x.jobs = jobs /\ x.ledger = s.ledger /\ x.link = s.link
  BY DEF Becomes
<1>2. /\ Becomes(x, [x EXCEPT !.batch = v], v, x.doc, x.chunk, x.cand, x.jobs)
      /\ Becomes(x, [x EXCEPT !.doc = v], x.batch, v, x.chunk, x.cand, x.jobs)
      /\ Becomes(x, [x EXCEPT !.chunk = v], x.batch, x.doc, v, x.cand, x.jobs)
      /\ Becomes(x, [x EXCEPT !.cand = v], x.batch, x.doc, x.chunk, v, x.jobs)
      /\ Becomes(x, [x EXCEPT !.jobs = v], x.batch, x.doc, x.chunk, x.cand, v)
  BY <1>1, Replacing
<1>3. Becomes(s, [x EXCEPT !.batch = v], v, doc, chunk, cand, jobs)
  BY <1>1, <1>2 DEF Becomes
<1>4. Becomes(s, [x EXCEPT !.doc = v], batch, v, chunk, cand, jobs)
  BY <1>1, <1>2 DEF Becomes
<1>5. Becomes(s, [x EXCEPT !.chunk = v], batch, doc, v, cand, jobs)
  BY <1>1, <1>2 DEF Becomes
<1>6. Becomes(s, [x EXCEPT !.cand = v], batch, doc, chunk, v, jobs)
  BY <1>1, <1>2 DEF Becomes
<1>7. Becomes(s, [x EXCEPT !.jobs = v], batch, doc, chunk, cand, v)
  BY <1>1, <1>2 DEF Becomes
<1> QED BY <1>3, <1>4, <1>5, <1>6, <1>7

\* The progress of the batch is a row; once the check constraint lets it read
\* closed, no document is in the works.
LEMMA RecomputeParts ==
    ASSUME NEW s, IsDatabase(s)
    PROVE  /\ Becomes(s, Recompute(s), Recompute(s).batch, s.doc, s.chunk, s.cand, s.jobs)
           /\ s.batch \in BatchRow => Recompute(s).batch \in BatchRow
           /\ BatchLifecycle(Recompute(s).batch) /\ Recompute(s).batch.status \in Closed
              => \A d \in Documents : s.doc[d].status \notin Active
<1> DEFINE active == \E d \in Documents : s.doc[d].status \in Active
           failed == \E d \in Documents : s.doc[d].status # "deleted" /\ s.doc[d].errors
           status == IF s.batch.status = "cancelling" /\ ~active THEN "cancelled"
                     ELSE IF ~active /\ failed THEN "completed_with_errors"
                     ELSE IF ~active THEN "completed"
                     ELSE IF s.batch.status = "queued" THEN "running"
                     ELSE s.batch.status
           row == [status |-> status, started |-> s.batch.started \/ s.batch.status = "queued",
                   done |-> ~active]
<1>1. Recompute(s) = [s EXCEPT !.batch = row]
  BY DEF Recompute
<1> HIDE DEF row
<1>2. Becomes(s, Recompute(s), row, s.doc, s.chunk, s.cand, s.jobs)
  BY <1>1, Replacing
<1>3. Recompute(s).batch = row
  BY <1>2 DEF Becomes
<1>4. /\ row.status = status /\ row.done = ~active
      /\ row.started = (s.batch.started \/ s.batch.status = "queued")
      /\ row = [status |-> row.status, started |-> row.started, done |-> row.done]
  BY DEF row
<1>5. s.batch \in BatchRow => row \in BatchRow
  <2> HAVE s.batch \in BatchRow
  <2> HIDE DEF active, failed
  <2>1. status \in BatchStatus
    BY DEF BatchRow, BatchStatus
  <2> HIDE DEF status
  <2>2. row.started \in BOOLEAN /\ row.done \in BOOLEAN
    BY <1>4 DEF active
  <2> QED BY <1>4, <2>1, <2>2 DEF BatchRow
<1>6. BatchLifecycle(row) /\ row.status \in Closed => ~active
  <2> HIDE DEF active, status
  <2> QED BY <1>4 DEF BatchLifecycle, Closed
<1> QED BY <1>2, <1>3, <1>5, <1>6

----------------------------------------------------------------------------
(* Candidates that are struck.                                             *)

\* The candidates of P go to another status.
Struck(cand, P, x) == {IF c \in P THEN [c EXCEPT !.status = x] ELSE c : c \in cand}

\* A candidate with another status is a candidate with the same name.
LEMMA StruckRow ==
    ASSUME NEW c, IsCandidate(c), NEW x \in CandidateStatus
    PROVE  LET k == [c EXCEPT !.status = x] IN
           /\ IsCandidate(k)
           /\ Key(k) = Key(c)
           /\ k.status = x
           /\ k.doc = c.doc /\ k.gen = c.gen /\ k.cut = c.cut /\ k.n = c.n
           /\ k.what = c.what /\ k.tx = c.tx
<1> DEFINE k == [c EXCEPT !.status = x]
<1>1. /\ k = [doc |-> k.doc, gen |-> k.gen, cut |-> k.cut, n |-> k.n, what |-> k.what,
              doubts |-> k.doubts, status |-> k.status, tx |-> k.tx]
      /\ k.status = x
      /\ k.doc = c.doc /\ k.gen = c.gen /\ k.cut = c.cut /\ k.n = c.n
      /\ k.what = c.what /\ k.tx = c.tx
  BY DEF IsCandidate
<1> HIDE DEF k
<1>2. k.doc \in Documents /\ k.gen \in Generations /\ k.cut \in Nat /\ k.status \in CandidateStatus
  BY <1>1 DEF IsCandidate
<1>3. IsCandidate(k) /\ Key(k) = Key(c)
  BY <1>1, <1>2 DEF IsCandidate, Key
<1> QED BY <1>1, <1>3 DEF k

\* What is left of each candidate.
LEMMA StruckMember ==
    ASSUME NEW cand, CandidatesFit(cand), NEW P, NEW x \in CandidateStatus,
           NEW k \in Struck(cand, P, x)
    PROVE  \E c \in cand :
             /\ k = IF c \in P THEN [c EXCEPT !.status = x] ELSE c
             /\ IsCandidate(k)
             /\ Key(k) = Key(c)
             /\ k.status = IF c \in P THEN x ELSE c.status
             /\ k.doc = c.doc /\ k.gen = c.gen /\ k.cut = c.cut /\ k.n = c.n
             /\ k.what = c.what /\ k.tx = c.tx
<1>1. PICK c \in cand : k = IF c \in P THEN [c EXCEPT !.status = x] ELSE c
  BY DEF Struck
<1>2. IsCandidate(c)
  BY DEF CandidatesFit
<1>3. CASE c \in P
  BY <1>1, <1>2, <1>3, StruckRow
<1>4. CASE c \notin P
  BY <1>1, <1>2, <1>4
<1> QED BY <1>3, <1>4

\* And each candidate leaves something with its name.
LEMMA StruckKeeps ==
    ASSUME NEW cand, CandidatesFit(cand), NEW P, NEW x \in CandidateStatus, NEW c \in cand
    PROVE  \E k \in Struck(cand, P, x) : Key(k) = Key(c)
<1> DEFINE k == IF c \in P THEN [c EXCEPT !.status = x] ELSE c
<1>1. k \in Struck(cand, P, x)
  BY DEF Struck
<1>2. Key(k) = Key(c)
  BY StruckRow DEF CandidatesFit
<1> HIDE DEF k
<1> QED BY <1>1, <1>2

\* A document goes on, or stays as it is.
RowOnward(row, new) ==
    /\ new.gen = row.gen
    /\ new.cut = row.cut
    /\ new.genuine = row.genuine
    /\ row.status \in Finished => new.status = row.status
    /\ row.status = "deleted" <=> new.status = "deleted"
    /\ new.status \in Active => row.status \in Active
    /\ ~row.genuine /\ row.status \in Unread => new.status \in Unread

Onward(doc, new) == \A d \in Documents : RowOnward(doc[d], new[d])

\* Striking pending candidates takes no evidence from anything.
LEMMA StruckEvidence ==
    ASSUME NEW doc, NEW new, NEW cand, NEW ledger, NEW link, NEW P, NEW x,
           doc \in [Documents -> DocumentRow], new \in [Documents -> DocumentRow],
           CandidatesFit(cand), Evidenced(doc, cand, ledger, link), Onward(doc, new),
           P \subseteq cand, \A c \in P : c.status = "pending", x \in {"cancelled", "failed"}
    PROVE  /\ CandidatesFit(Struck(cand, P, x))
           /\ Evidenced(new, Struck(cand, P, x), ledger, link)
<1> DEFINE left == Struck(cand, P, x)
<1>1. x \in CandidateStatus
  BY DEF CandidateStatus
<1>2. \A k \in left : \E c \in cand :
             /\ k = IF c \in P THEN [c EXCEPT !.status = x] ELSE c
             /\ IsCandidate(k)
             /\ Key(k) = Key(c)
             /\ k.status = IF c \in P THEN x ELSE c.status
             /\ k.doc = c.doc /\ k.gen = c.gen /\ k.cut = c.cut /\ k.n = c.n
             /\ k.what = c.what /\ k.tx = c.tx
  BY <1>1, StruckMember
<1>3. \A c \in cand : \E k \in left : Key(k) = Key(c)
  BY <1>1, StruckKeeps
<1> HIDE DEF left
<1>4. CandidatesFit(left)
  BY <1>2 DEF CandidatesFit
<1>5. KeysFit(new, left)
  <2>1. ASSUME NEW k \in left, NEW m \in left, Key(k) = Key(m) PROVE k = m
    <3>1. PICK c \in cand : /\ k = IF c \in P THEN [c EXCEPT !.status = x] ELSE c
                            /\ Key(k) = Key(c)
      BY <1>2
    <3>2. PICK b \in cand : /\ m = IF b \in P THEN [b EXCEPT !.status = x] ELSE b
                            /\ Key(m) = Key(b)
      BY <1>2
    <3>3. c = b
      BY <2>1, <3>1, <3>2 DEF Evidenced, KeysFit
    <3> QED BY <3>1, <3>2, <3>3
  <2>2. ASSUME NEW k \in left PROVE k.gen <= new[k.doc].gen /\ k.cut <= new[k.doc].cut
    <3>1. PICK c \in cand : k.doc = c.doc /\ k.gen = c.gen /\ k.cut = c.cut
      BY <1>2
    <3>2. c.gen <= doc[c.doc].gen /\ c.cut <= doc[c.doc].cut /\ c.doc \in Documents
      BY DEF Evidenced, KeysFit, CandidatesFit, IsCandidate
    <3> QED BY <3>1, <3>2 DEF Onward, RowOnward
  <2> QED BY <2>1, <2>2 DEF KeysFit
<1>6. NamesFit(new, left, ledger)
  <2> SUFFICES ASSUME NEW t \in ledger, NEW d \in Documents, NamedAfter(t, d)
               PROVE  /\ t.id[2] \in Nat /\ t.id[2] <= new[d].gen
                      /\ t.id[3] \in Nat /\ t.id[3] <= new[d].cut
                      /\ \/ new[d].status = "deleted"
                         \/ t.id[2] # new[d].gen
                         \/ t.id[3] # new[d].cut
                         \/ \E k \in left : Key(k) = t.id
    BY DEF NamesFit
  <2>1. new[d].gen = doc[d].gen /\ new[d].cut = doc[d].cut
        /\ (doc[d].status = "deleted" <=> new[d].status = "deleted")
    BY DEF Onward, RowOnward
  <2>2. /\ t.id[2] \in Nat /\ t.id[2] <= doc[d].gen
        /\ t.id[3] \in Nat /\ t.id[3] <= doc[d].cut
        /\ \/ doc[d].status = "deleted"
           \/ t.id[2] # doc[d].gen
           \/ t.id[3] # doc[d].cut
           \/ \E c \in cand : Key(c) = t.id
    BY DEF Evidenced, NamesFit
  <2> QED BY <1>3, <2>1, <2>2
<1>7. OwnIsCreated(left, ledger)
  <2> SUFFICES ASSUME NEW t \in ledger, NEW k \in left, t.id = Key(k)
               PROVE  k.status = "created"
    BY DEF OwnIsCreated
  <2>1. PICK c \in cand : Key(k) = Key(c) /\ k.status = IF c \in P THEN x ELSE c.status
    BY <1>2
  <2>2. c.status = "created"
    BY <2>1 DEF Evidenced, OwnIsCreated
  <2> QED BY <2>1, <2>2
<1>8. Settled(left, ledger, link)
  <2> SUFFICES ASSUME NEW k \in left, k.status \in {"created", "attached"}
               PROVE  /\ \E t \in ledger : t.id = k.tx
                      /\ \E l \in link : l.tx = k.tx /\ l.cand = Key(k)
    BY DEF Settled
  <2>1. PICK c \in cand : /\ Key(k) = Key(c) /\ k.status = (IF c \in P THEN x ELSE c.status)
                          /\ k.tx = c.tx
    BY <1>2
  <2>2. c.status \in {"created", "attached"}
    BY <2>1
  <2> QED BY <2>1, <2>2 DEF Evidenced, Settled
<1> QED BY <1>4, <1>5, <1>6, <1>7, <1>8 DEF Evidenced, left

\* A transaction that strikes pending candidates and lets documents go on
\* keeps a sound database sound.
LEMMA RoutineIsSound ==
    ASSUME NEW s, NEW s2, Sound(s), NEW P, NEW x,
           P \subseteq s.cand, \A c \in P : c.status = "pending", x \in {"cancelled", "failed"},
           Becomes(s, s2, s2.batch, s2.doc, s2.chunk, Struck(s.cand, P, x), s2.jobs),
           s2.batch \in BatchRow,
           s2.doc \in [Documents -> DocumentRow],
           s2.chunk \in [Documents -> [Generations -> [1..Chunks -> ChunkRow]]],
           JobsFit(s2.jobs),
           Onward(s.doc, s2.doc),
           \A j \in s2.jobs : j \in s.jobs \/ s.doc[j.doc].genuine
    PROVE  Sound(s2)
<1>1. /\ CandidatesFit(Struck(s.cand, P, x))
      /\ Evidenced(s2.doc, Struck(s.cand, P, x), s.ledger, s.link)
  BY StruckEvidence DEF Sound, Shape
<1>2. /\ s2.cand = Struck(s.cand, P, x) /\ s2.ledger = s.ledger /\ s2.link = s.link
      /\ IsDatabase(s2)
  BY DEF Becomes
<1>3. Shape(s2)
  BY <1>1, <1>2 DEF Shape
<1>4. Vetted(s2.doc, s2.cand, s2.jobs)
  <2> SUFFICES ASSUME NEW d \in Documents, ~s2.doc[d].genuine
               PROVE  /\ s2.doc[d].status \in Unread
                      /\ \A j \in s2.jobs : j.doc = d => j.kind = "prepare"
                      /\ \A c \in s2.cand : c.doc # d
    BY DEF Vetted
  <2>1. ~s.doc[d].genuine
    BY DEF Onward, RowOnward
  <2>2. /\ s.doc[d].status \in Unread
        /\ \A j \in s.jobs : j.doc = d => j.kind = "prepare"
        /\ \A c \in s.cand : c.doc # d
    BY <2>1 DEF Sound, Vetted
  <2>3. s2.doc[d].status \in Unread
    BY <2>1, <2>2 DEF Onward, RowOnward
  <2>4. \A j \in s2.jobs : j.doc = d => j.kind = "prepare"
    BY <2>1, <2>2
  <2>5. ASSUME NEW k \in s2.cand PROVE k.doc # d
    <3>1. x \in CandidateStatus /\ CandidatesFit(s.cand)
      BY DEF CandidateStatus, Sound, Shape
    <3>2. PICK c \in s.cand : k.doc = c.doc
      BY <1>2, <3>1, StruckMember
    <3> QED BY <2>2, <3>2
  <2> QED BY <2>3, <2>4, <2>5
<1> QED BY <1>1, <1>2, <1>3, <1>4 DEF Sound

\* Striking nothing changes nothing.
LEMMA StruckNothing == ASSUME NEW cand, NEW x PROVE Struck(cand, {}, x) = cand
BY DEF Struck

----------------------------------------------------------------------------
(* Jobs.                                                                   *)

\* Some of the jobs fit too.
LEMMA FewerJobs ==
    ASSUME NEW jobs, JobsFit(jobs), NEW some, some \subseteq jobs
    PROVE  JobsFit(some)
<1>1. IsFiniteSet(some)
  BY FS_Subset DEF JobsFit
<1> QED BY <1>1 DEF JobsFit

\* Work is its five fields.
LEMMA WorkParts ==
    ASSUME NEW kind \in Kinds, NEW d \in Documents, NEW g \in Generations, NEW cut, NEW n
    PROVE  LET w == Work(kind, d, g, cut, n) IN
           /\ IsWork(w)
           /\ w.kind = kind /\ w.doc = d /\ w.gen = g /\ w.cut = cut /\ w.n = n
BY DEF Work, IsWork

\* The row inserted for work is a job for it.
LEMMA QueuedParts ==
    ASSUME NEW w, IsWork(w)
    PROVE  /\ IsJob(Queued(w))
           /\ WorkOf(Queued(w)) = w
           /\ Queued(w).doc = w.doc /\ Queued(w).kind = w.kind
           /\ Queued(w).status = "queued"
<1> DEFINE j == Queued(w)
<1>1. /\ j.kind = w.kind /\ j.doc = w.doc /\ j.gen = w.gen /\ j.cut = w.cut /\ j.n = w.n
      /\ j.status = "queued" /\ j.tries = 0
      /\ j = [kind |-> j.kind, doc |-> j.doc, gen |-> j.gen, cut |-> j.cut, n |-> j.n,
              status |-> j.status, tries |-> j.tries, owner |-> j.owner]
  BY DEF Queued
<1> HIDE DEF j
<1>2. WorkOf(j) = w
  BY <1>1 DEF WorkOf, IsWork
<1>3. IsJob(j)
  BY <1>1, <1>2 DEF IsJob
<1> QED BY <1>1, <1>2, <1>3 DEF j

\* What a job is about.
LEMMA JobParts ==
    ASSUME NEW j, IsJob(j)
    PROVE  /\ IsWork(WorkOf(j))
           /\ WorkOf(j).kind = j.kind /\ WorkOf(j).doc = j.doc /\ WorkOf(j).gen = j.gen
           /\ WorkOf(j).cut = j.cut /\ WorkOf(j).n = j.n
           /\ j.kind \in Kinds /\ j.doc \in Documents /\ j.gen \in Generations
BY DEF IsJob, WorkOf, Work, IsWork

\* A row as its eight fields, and with one of them replaced.
IsJobRow(j) ==
    j = [kind |-> j.kind, doc |-> j.doc, gen |-> j.gen, cut |-> j.cut, n |-> j.n,
         status |-> j.status, tries |-> j.tries, owner |-> j.owner]

\* k is the row j as far as its work is concerned.
SameWork(k, j) ==
    /\ IsJobRow(k)
    /\ k.kind = j.kind /\ k.doc = j.doc /\ k.gen = j.gen /\ k.cut = j.cut /\ k.n = j.n

\* The other fields of a row can be replaced one at a time.
LEMMA JobWith ==
    ASSUME NEW j, IsJobRow(j), NEW x
    PROVE  /\ SameWork([j EXCEPT !.status = x], j) /\ [j EXCEPT !.status = x].status = x
           /\ [j EXCEPT !.status = x].tries = j.tries
           /\ SameWork([j EXCEPT !.tries = x], j) /\ [j EXCEPT !.tries = x].tries = x
           /\ [j EXCEPT !.tries = x].status = j.status
           /\ SameWork([j EXCEPT !.owner = x], j) /\ [j EXCEPT !.owner = x].tries = j.tries
           /\ [j EXCEPT !.owner = x].status = j.status
           /\ [j EXCEPT !.owner = x].owner = x
BY DEF IsJobRow, SameWork

\* What matters of a row when it is about the same work.
LEMMA SameJob ==
    ASSUME NEW j, IsJob(j), NEW k, SameWork(k, j), k.tries \in Nat
    PROVE  IsJob(k) /\ WorkOf(k) = WorkOf(j) /\ k.doc = j.doc /\ k.kind = j.kind
<1>1. WorkOf(k) = WorkOf(j)
  BY DEF WorkOf, SameWork
<1> QED BY <1>1 DEF IsJob, SameWork, IsJobRow

\* A row that changes hands, is put back in line, or is claimed.
Handed(j, owner) == [j EXCEPT !.owner = owner]

Requeued(j) == [j EXCEPT !.status = "queued", !.owner = None]

Claimed(j, w) == [j EXCEPT !.status = "running", !.tries = j.tries + 1, !.owner = w]

\* Each is a job for the same work.
LEMMA JobChanges ==
    ASSUME NEW j, IsJob(j), NEW w
    PROVE  /\ IsJob(Handed(j, w)) /\ WorkOf(Handed(j, w)) = WorkOf(j)
           /\ IsJob(Requeued(j)) /\ WorkOf(Requeued(j)) = WorkOf(j)
           /\ IsJob(Claimed(j, w)) /\ WorkOf(Claimed(j, w)) = WorkOf(j)
<1>1. IsJobRow(j) /\ j.tries \in Nat /\ j.tries + 1 \in Nat
  BY DEF IsJob, IsJobRow
<1>2. ASSUME NEW k, IsJobRow(k), SameWork(k, j), k.tries \in Nat, NEW owner
      PROVE  IsJob(Handed(k, owner)) /\ WorkOf(Handed(k, owner)) = WorkOf(j)
  <2>1. PICK a : a = [k EXCEPT !.owner = owner]
    OBVIOUS
  <2>2. SameWork(a, k) /\ a.tries = k.tries
    BY <1>2, <2>1, JobWith
  <2>3. SameWork(a, j) /\ a.tries \in Nat
    BY <1>2, <2>2 DEF SameWork
  <2> QED BY <2>1, <2>3, SameJob DEF Handed
<1>3. SameWork(j, j)
  BY <1>1 DEF SameWork
<1>4. IsJob(Handed(j, w)) /\ WorkOf(Handed(j, w)) = WorkOf(j)
  BY <1>1, <1>2, <1>3
<1>5. IsJob(Requeued(j)) /\ WorkOf(Requeued(j)) = WorkOf(j)
  <2>1. PICK a : a = [j EXCEPT !.status = "queued"]
    OBVIOUS
  <2>2. SameWork(a, j) /\ a.tries = j.tries
    BY <1>1, <2>1, JobWith
  <2>3. IsJobRow(a)
    BY <2>2 DEF SameWork
  <2>4. Requeued(j) = Handed(a, None)
    BY <2>1 DEF Requeued, Handed
  <2> QED BY <1>1, <1>2, <2>2, <2>3, <2>4
<1>6. IsJob(Claimed(j, w)) /\ WorkOf(Claimed(j, w)) = WorkOf(j)
  <2>1. PICK a : a = [j EXCEPT !.status = "running"]
    OBVIOUS
  <2>2. SameWork(a, j)
    BY <1>1, <2>1, JobWith
  <2>3. IsJobRow(a)
    BY <2>2 DEF SameWork
  <2>4. PICK b : b = [a EXCEPT !.tries = j.tries + 1]
    OBVIOUS
  <2>5. SameWork(b, a) /\ b.tries = j.tries + 1
    BY <2>3, <2>4, JobWith
  <2>6. IsJobRow(b) /\ SameWork(b, j) /\ b.tries \in Nat
    BY <1>1, <2>2, <2>5 DEF SameWork
  <2>7. Claimed(j, w) = Handed(b, w)
    BY <2>1, <2>4 DEF Claimed, Handed
  <2> QED BY <1>2, <2>6, <2>7
<1> QED BY <1>4, <1>5, <1>6

\* New jobs for work that has none.
LEMMA MoreJobs ==
    ASSUME NEW jobs, JobsFit(jobs), NEW more, IsFiniteSet(more),
           \A j \in more : IsJob(j),
           \A j, k \in more : WorkOf(j) = WorkOf(k) => j = k,
           \A j \in more : \A k \in jobs : WorkOf(j) # WorkOf(k)
    PROVE  JobsFit(jobs \cup more)
<1>1. IsFiniteSet(jobs \cup more)
  BY FS_Union DEF JobsFit
<1> QED BY <1>1 DEF JobsFit

\* `on conflict do nothing` keeps the index, whatever is inserted.
LEMMA InsertParts ==
    ASSUME NEW s, IsDatabase(s), JobsFit(s.jobs), NEW w, IsWork(w)
    PROVE  /\ Becomes(s, Insert(s, w), s.batch, s.doc, s.chunk, s.cand, Insert(s, w).jobs)
           /\ JobsFit(Insert(s, w).jobs)
           /\ \A j \in Insert(s, w).jobs : j \in s.jobs \/ (j.doc = w.doc /\ j.kind = w.kind)
<1>1. CASE \E j \in s.jobs : WorkOf(j) = w
  <2>1. Insert(s, w) = s
    BY <1>1 DEF Insert
  <2> QED BY <2>1 DEF Becomes
<1>2. CASE ~ \E j \in s.jobs : WorkOf(j) = w
  <2>1. Insert(s, w) = [s EXCEPT !.jobs = s.jobs \cup {Queued(w)}]
    BY <1>2 DEF Insert
  <2>2. Becomes(s, Insert(s, w), s.batch, s.doc, s.chunk, s.cand, s.jobs \cup {Queued(w)})
    BY <2>1, Replacing
  <2>3. IsFiniteSet({Queued(w)})
    BY FS_Singleton
  <2>4. JobsFit(s.jobs \cup {Queued(w)})
    BY <1>2, <2>3, QueuedParts, MoreJobs
  <2>5. Insert(s, w).jobs = s.jobs \cup {Queued(w)}
    BY <2>2 DEF Becomes
  <2> QED BY <2>2, <2>4, <2>5, QueuedParts
<1> QED BY <1>1, <1>2

----------------------------------------------------------------------------
(* Documents.                                                              *)

\* Every document that stays as it is goes on.
LEMMA SameRow == ASSUME NEW row PROVE RowOnward(row, row)
BY DEF RowOnward

\* Going on is transitive.
LEMMA OnwardOnward ==
    ASSUME NEW a, NEW b, NEW c, Onward(a, b), Onward(b, c)
    PROVE  Onward(a, c)
BY DEF Onward, RowOnward

\* One document gets another row.
LEMMA OneDocument ==
    ASSUME NEW doc \in [Documents -> DocumentRow], NEW d \in Documents,
           NEW row \in DocumentRow
    PROVE  /\ [doc EXCEPT ![d] = row] \in [Documents -> DocumentRow]
           /\ [doc EXCEPT ![d] = row][d] = row
           /\ \A e \in Documents : e # d => [doc EXCEPT ![d] = row][e] = doc[e]
           /\ RowOnward(doc[d], row) => Onward(doc, [doc EXCEPT ![d] = row])
<1>1. /\ [doc EXCEPT ![d] = row] \in [Documents -> DocumentRow]
      /\ [doc EXCEPT ![d] = row][d] = row
      /\ \A e \in Documents : e # d => [doc EXCEPT ![d] = row][e] = doc[e]
  OBVIOUS
<1>2. ASSUME RowOnward(doc[d], row) PROVE Onward(doc, [doc EXCEPT ![d] = row])
  <2>1. ASSUME NEW e \in Documents PROVE RowOnward(doc[e], [doc EXCEPT ![d] = row][e])
    <3>1. CASE e = d
      BY <1>1, <1>2, <3>1
    <3>2. CASE e # d
      BY <1>1, <3>2, SameRow
    <3> QED BY <3>1, <3>2
  <2> QED BY <2>1 DEF Onward
<1> QED BY <1>1, <1>2

\* A document that is cancelled at work goes on.
LEMMA CancelledRow ==
    ASSUME NEW row \in DocumentRow, row.status \in Active
    PROVE  LET new == [row EXCEPT !.status = "cancelled", !.done = TRUE] IN
           /\ new \in DocumentRow
           /\ RowOnward(row, new)
           /\ new.status = "cancelled"
<1> DEFINE new == [row EXCEPT !.status = "cancelled", !.done = TRUE]
<1>1. new \in DocumentRow
  BY DEF DocumentRow, DocumentStatus, Finished
<1>2. /\ new.status = "cancelled" /\ new.gen = row.gen /\ new.cut = row.cut
      /\ new.genuine = row.genuine
  BY DEF DocumentRow
<1> HIDE DEF new
<1>3. RowOnward(row, new)
  BY <1>2 DEF RowOnward, Active, Finished, Unread
<1> QED BY <1>1, <1>2, <1>3 DEF new

\* Documents struck at work: the rest stays.
LEMMA CancelledDocuments ==
    ASSUME NEW doc \in [Documents -> DocumentRow], NEW P,
           \A d \in P : doc[d].status \in Active
    PROVE  LET new == [d \in Documents |-> IF d \in P
                         THEN [doc[d] EXCEPT !.status = "cancelled", !.done = TRUE]
                         ELSE doc[d]] IN
           /\ new \in [Documents -> DocumentRow]
           /\ Onward(doc, new)
<1> DEFINE new == [d \in Documents |-> IF d \in P
                     THEN [doc[d] EXCEPT !.status = "cancelled", !.done = TRUE]
                     ELSE doc[d]]
<1>1. ASSUME NEW d \in Documents PROVE new[d] \in DocumentRow /\ RowOnward(doc[d], new[d])
  <2>1. CASE d \in P
    <3>1. new[d] = [doc[d] EXCEPT !.status = "cancelled", !.done = TRUE]
      BY <2>1
    <3> HIDE DEF new
    <3> QED BY <2>1, <3>1, CancelledRow
  <2>2. CASE d \notin P
    BY <2>2, SameRow
  <2> QED BY <2>1, <2>2
<1>2. new \in [Documents -> DocumentRow]
  BY <1>1
<1> HIDE DEF new
<1> QED BY <1>1, <1>2 DEF Onward, new

----------------------------------------------------------------------------
(* The progress of the batch.                                              *)

\* A batch that reads closed was closed before, or has nothing in the works.
Accounted(s, s2) ==
    s2.batch.status \in Closed =>
       \/ s.batch.status \in Closed
       \/ \A d \in Documents : s2.doc[d].status \notin Active

\* A step of the pipeline: the documents go on and the batch is accounted for.
Advances(s, s2) == Onward(s.doc, s2.doc) /\ Accounted(s, s2)

\* Such steps add up.
LEMMA AdvancesAdd ==
    ASSUME NEW a, NEW b, NEW c, Advances(a, b), Advances(b, c)
    PROVE  Advances(a, c)
<1>1. Onward(a.doc, c.doc)
  BY OnwardOnward DEF Advances
<1>2. Accounted(a, c)
  BY DEF Advances, Accounted, Onward, RowOnward
<1> QED BY <1>1, <1>2 DEF Advances

\* refreshBulkBatchProgress strikes candidates and documents that wait.
LEMMA RefreshParts ==
    ASSUME NEW s, Shape(s)
    PROVE  \E P \in SUBSET s.cand :
             /\ \A c \in P : c.status = "pending"
             /\ Becomes(s, Refresh(s), Refresh(s).batch, Refresh(s).doc, s.chunk,
                        Struck(s.cand, P, "cancelled"), s.jobs)
             /\ Refresh(s).batch \in BatchRow
             /\ Refresh(s).doc \in [Documents -> DocumentRow]
             /\ Onward(s.doc, Refresh(s).doc)
             /\ BatchLifecycle(Refresh(s).batch) /\ Refresh(s).batch.status \in Closed
                => \A d \in Documents : Refresh(s).doc[d].status \notin Active
<1> DEFINE stop == s.batch.status = "cancelling"
           idle(c) == ~\E j \in s.jobs :
                         WorkOf(j) = Work("reconcile", c.doc, c.gen, c.cut, c.n)
           drained(d) == /\ s.doc[d].status \in Active
                         /\ ~\E j \in s.jobs : j.doc = d
           P == {c \in s.cand : stop /\ c.status = "pending" /\ idle(c)}
           Q == {d \in Documents : stop /\ drained(d)}
           cand == Struck(s.cand, P, "cancelled")
           doc == [d \in Documents |-> IF d \in Q
                     THEN [s.doc[d] EXCEPT !.status = "cancelled", !.done = TRUE]
                     ELSE s.doc[d]]
           waiting == [s EXCEPT !.cand = cand, !.doc = doc]
<1>1. Refresh(s) = Recompute(waiting)
  <2>1. cand = {IF stop /\ c.status = "pending" /\ idle(c)
                THEN [c EXCEPT !.status = "cancelled"] ELSE c : c \in s.cand}
    BY DEF Struck
  <2>2. doc = [d \in Documents |-> IF stop /\ drained(d)
                 THEN [s.doc[d] EXCEPT !.status = "cancelled", !.done = TRUE]
                 ELSE s.doc[d]]
    OBVIOUS
  <2> HIDE DEF cand, doc
  <2> QED BY <2>1, <2>2 DEF Refresh
<1>2. doc \in [Documents -> DocumentRow] /\ Onward(s.doc, doc)
  BY CancelledDocuments DEF Shape
<1>3. P \in SUBSET s.cand /\ \A c \in P : c.status = "pending"
  OBVIOUS
<1> HIDE DEF P, doc
<1>4. Becomes(s, waiting, s.batch, doc, s.chunk, cand, s.jobs)
  <2> HIDE DEF cand
  <2>1. PICK x : x = [s EXCEPT !.cand = cand]
    OBVIOUS
  <2>2. Becomes(s, x, s.batch, s.doc, s.chunk, cand, s.jobs)
    BY <2>1, Replacing DEF Shape
  <2>3. Becomes(s, [x EXCEPT !.doc = doc], s.batch, doc, s.chunk, cand, s.jobs)
    BY <2>2, ReplacingNext
  <2>4. waiting = [x EXCEPT !.doc = doc]
    BY <2>1
  <2> QED BY <2>3, <2>4
<1> HIDE DEF waiting, cand
<1>5. /\ Becomes(waiting, Recompute(waiting), Recompute(waiting).batch, doc, s.chunk, cand, s.jobs)
      /\ Recompute(waiting).batch \in BatchRow
      /\ BatchLifecycle(Recompute(waiting).batch) /\ Recompute(waiting).batch.status \in Closed
         => \A d \in Documents : doc[d].status \notin Active
  BY <1>4, RecomputeParts DEF Becomes, Shape
<1>6. Becomes(s, Refresh(s), Refresh(s).batch, Refresh(s).doc, s.chunk, cand, s.jobs)
      /\ Refresh(s).doc = doc
  BY <1>1, <1>4, <1>5 DEF Becomes
<1> QED BY <1>1, <1>2, <1>3, <1>5, <1>6 DEF cand

----------------------------------------------------------------------------
(* Chunks.                                                                 *)

ChunkRows == [1..Chunks -> ChunkRow]

\* The rows of one generation of a document are replaced.
LEMMA OneCut ==
    ASSUME NEW chunk \in [Documents -> [Generations -> ChunkRows]],
           NEW d \in Documents, NEW g \in Generations, NEW rows \in ChunkRows
    PROVE  [chunk EXCEPT ![d][g] = rows] \in [Documents -> [Generations -> ChunkRows]]
<1> DEFINE Cuts == [Generations -> ChunkRows]
<1>1. [chunk[d] EXCEPT ![g] = rows] \in Cuts
  OBVIOUS
<1>2. [chunk EXCEPT ![d][g] = rows] = [chunk EXCEPT ![d] = [chunk[d] EXCEPT ![g] = rows]]
  OBVIOUS
<1> HIDE DEF Cuts
<1>3. [chunk EXCEPT ![d] = [chunk[d] EXCEPT ![g] = rows]] \in [Documents -> Cuts]
  BY <1>1 DEF Cuts
<1> QED BY <1>2, <1>3 DEF Cuts

\* One of the rows gets another status; the row of a chunk that does not
\* exist is no row.
LEMMA OneChunkStatus ==
    ASSUME NEW rows \in ChunkRows, NEW n, NEW x \in ChunkStatus
    PROVE  [rows EXCEPT ![n].status = x] \in ChunkRows
<1>1. CASE n \in 1..Chunks
  <2>1. [rows[n] EXCEPT !.status = x] \in ChunkRow
    BY <1>1 DEF ChunkRows, ChunkRow
  <2> QED BY <1>1, <2>1 DEF ChunkRows
<1>2. CASE n \notin 1..Chunks
  <2>1. [rows EXCEPT ![n].status = x] = rows
    BY <1>2 DEF ChunkRows
  <2> QED BY <2>1
<1> QED BY <1>1, <1>2

\* One of them is replaced.
LEMMA OneChunk ==
    ASSUME NEW rows \in ChunkRows, NEW n, NEW row \in ChunkRow
    PROVE  [rows EXCEPT ![n] = row] \in ChunkRows
BY DEF ChunkRows

\* The row of a chunk gets another status in the database.
LEMMA ChunkStatusParts ==
    ASSUME NEW s, Shape(s), NEW d \in Documents, NEW g \in Generations, NEW n,
           NEW x \in ChunkStatus
    PROVE  LET s2 == [s EXCEPT !.chunk[d][g][n].status = x] IN
           /\ Becomes(s, s2, s.batch, s.doc, s2.chunk, s.cand, s.jobs)
           /\ s2.chunk \in [Documents -> [Generations -> [1..Chunks -> ChunkRow]]]
<1> DEFINE rows == [s.chunk[d][g] EXCEPT ![n].status = x]
           chunk == [s.chunk EXCEPT ![d][g] = rows]
           s2 == [s EXCEPT !.chunk[d][g][n].status = x]
<1>1. s2 = [s EXCEPT !.chunk = chunk]
  OBVIOUS
<1>2. /\ s.chunk \in [Documents -> [Generations -> ChunkRows]]
      /\ IsDatabase(s)
  BY DEF Shape, ChunkRows
<1>3. s.chunk[d][g] \in ChunkRows
  BY <1>2
<1>4. rows \in ChunkRows
  BY <1>3, OneChunkStatus
<1> HIDE DEF rows
<1>5. chunk \in [Documents -> [Generations -> ChunkRows]]
  BY <1>2, <1>4, OneCut
<1> HIDE DEF s2, chunk
<1>6. Becomes(s, s2, s.batch, s.doc, chunk, s.cand, s.jobs)
  BY <1>1, <1>2, Replacing
<1>7. s2.chunk = chunk
  BY <1>6 DEF Becomes
<1> QED BY <1>5, <1>6, <1>7 DEF s2, ChunkRows

----------------------------------------------------------------------------
(* Transactions that create neither candidates nor transactions.           *)

\* As RoutineIsSound, when no candidate is struck.
LEMMA PlainIsSound ==
    ASSUME NEW s, NEW s2, Sound(s),
           Becomes(s, s2, s2.batch, s2.doc, s2.chunk, s.cand, s2.jobs),
           s2.batch \in BatchRow,
           s2.doc \in [Documents -> DocumentRow],
           s2.chunk \in [Documents -> [Generations -> [1..Chunks -> ChunkRow]]],
           JobsFit(s2.jobs),
           Onward(s.doc, s2.doc),
           \A j \in s2.jobs : j \in s.jobs \/ s.doc[j.doc].genuine
    PROVE  Sound(s2)
<1>1. PICK P : P = {}
  OBVIOUS
<1>2. Becomes(s, s2, s2.batch, s2.doc, s2.chunk, Struck(s.cand, P, "failed"), s2.jobs)
  BY <1>1, StruckNothing
<1>3. P \subseteq s.cand /\ \A c \in P : c.status = "pending"
  BY <1>1
<1> QED BY <1>2, <1>3, RoutineIsSound

\* The tables of a sound database.
LEMMA SoundParts ==
    ASSUME NEW s, Sound(s)
    PROVE  /\ Shape(s) /\ IsDatabase(s)
           /\ s.batch \in BatchRow
           /\ s.doc \in [Documents -> DocumentRow]
           /\ s.chunk \in [Documents -> [Generations -> [1..Chunks -> ChunkRow]]]
           /\ CandidatesFit(s.cand)
           /\ JobsFit(s.jobs)
BY DEF Sound, Shape

\* Nothing changed is onward.
LEMMA SameDocuments == ASSUME NEW doc PROVE Onward(doc, doc)
BY SameRow DEF Onward

\* Fewer jobs keep a database sound.
LEMMA FewerIsSound ==
    ASSUME NEW s, Sound(s), NEW s2, NEW jobs, jobs \subseteq s.jobs,
           Becomes(s, s2, s.batch, s.doc, s.chunk, s.cand, jobs)
    PROVE  Sound(s2)
<1>1. JobsFit(jobs)
  BY FewerJobs, SoundParts
<1>2. /\ s2.batch = s.batch /\ s2.doc = s.doc /\ s2.chunk = s.chunk /\ s2.cand = s.cand
      /\ s2.jobs = jobs
  BY DEF Becomes
<1> QED BY <1>1, <1>2, PlainIsSound, SoundParts, SameDocuments

\* So does work for a document that passed its verification.
LEMMA InsertIsSound ==
    ASSUME NEW s, Sound(s), NEW w, IsWork(w), s.doc[w.doc].genuine
    PROVE  /\ Sound(Insert(s, w))
           /\ Becomes(s, Insert(s, w), s.batch, s.doc, s.chunk, s.cand, Insert(s, w).jobs)
<1> DEFINE s2 == Insert(s, w)
<1>1. /\ Becomes(s, s2, s.batch, s.doc, s.chunk, s.cand, s2.jobs)
      /\ JobsFit(s2.jobs)
      /\ \A j \in s2.jobs : j \in s.jobs \/ (j.doc = w.doc /\ j.kind = w.kind)
  BY InsertParts, SoundParts
<1> HIDE DEF s2
<1>2. s2.batch = s.batch /\ s2.doc = s.doc /\ s2.chunk = s.chunk
  BY <1>1 DEF Becomes
<1>3. Sound(s2)
  BY <1>1, <1>2, PlainIsSound, SoundParts, SameDocuments
<1> QED BY <1>1, <1>3 DEF s2

\* The refresh of the batch at the end of a transaction that let the
\* documents go on.
LEMMA RefreshAdvances ==
    ASSUME NEW s, NEW x, Sound(x), Onward(s.doc, x.doc)
    PROVE  /\ Sound(Refresh(x))
           /\ Legal(Refresh(x)) => Advances(s, Refresh(x))
<1> DEFINE r == Refresh(x)
<1>1. PICK P \in SUBSET x.cand :
             /\ \A c \in P : c.status = "pending"
             /\ Becomes(x, r, r.batch, r.doc, x.chunk, Struck(x.cand, P, "cancelled"), x.jobs)
             /\ r.batch \in BatchRow
             /\ r.doc \in [Documents -> DocumentRow]
             /\ Onward(x.doc, r.doc)
             /\ BatchLifecycle(r.batch) /\ r.batch.status \in Closed
                => \A d \in Documents : r.doc[d].status \notin Active
  BY RefreshParts, SoundParts
<1> HIDE DEF r
<1>2. r.chunk = x.chunk /\ r.jobs = x.jobs
  BY <1>1 DEF Becomes
<1>3. Sound(r)
  BY <1>1, <1>2, RoutineIsSound, SoundParts
<1>4. Legal(r) => Advances(s, r)
  BY <1>1, OnwardOnward DEF Legal, Advances, Accounted
<1> QED BY <1>3, <1>4 DEF r

\* The same of the recomputation alone.
LEMMA RecomputeAdvances ==
    ASSUME NEW s, NEW x, Sound(x), Onward(s.doc, x.doc)
    PROVE  /\ Sound(Recompute(x))
           /\ Legal(Recompute(x)) => Advances(s, Recompute(x))
<1> DEFINE r == Recompute(x)
<1>1. /\ Becomes(x, r, r.batch, x.doc, x.chunk, x.cand, x.jobs)
      /\ r.batch \in BatchRow
      /\ BatchLifecycle(r.batch) /\ r.batch.status \in Closed
         => \A d \in Documents : x.doc[d].status \notin Active
  BY RecomputeParts, SoundParts
<1> HIDE DEF r
<1>2. r.doc = x.doc /\ r.chunk = x.chunk /\ r.jobs = x.jobs
  BY <1>1 DEF Becomes
<1>3. Sound(r)
  BY <1>1, <1>2, PlainIsSound, SoundParts, SameDocuments
<1>4. Legal(r) => Advances(s, r)
  BY <1>1, <1>2 DEF Legal, Advances, Accounted
<1> QED BY <1>3, <1>4 DEF r

\* enqueuePostProcessIfReady and enqueueAggregateWhenReady.
LEMMA EnqueueIsSound ==
    ASSUME NEW s, Sound(s), NEW w, w.doc \in Documents, w.gen \in Generations,
           s.doc[w.doc].genuine
    PROVE  /\ Sound(PostProcessIfReady(s, w))
           /\ Sound(AggregateWhenReady(s, w))
           /\ Becomes(s, PostProcessIfReady(s, w), s.batch, s.doc, s.chunk, s.cand,
                      PostProcessIfReady(s, w).jobs)
           /\ Becomes(s, AggregateWhenReady(s, w), s.batch, s.doc, s.chunk, s.cand,
                      AggregateWhenReady(s, w).jobs)
<1>1. "post" \in Kinds /\ "aggregate" \in Kinds
  BY DEF Kinds
<1>2. /\ IsWork(Work("post", w.doc, w.gen, 0, 0))
      /\ Work("post", w.doc, w.gen, 0, 0).doc = w.doc
      /\ IsWork(Work("aggregate", w.doc, w.gen, 0, 0))
      /\ Work("aggregate", w.doc, w.gen, 0, 0).doc = w.doc
  BY <1>1, WorkParts
<1>3. Becomes(s, s, s.batch, s.doc, s.chunk, s.cand, s.jobs)
  BY SoundParts DEF Becomes
<1>4. /\ PostProcessIfReady(s, w) \in {s, Insert(s, Work("post", w.doc, w.gen, 0, 0))}
      /\ AggregateWhenReady(s, w) \in {s, Insert(s, Work("aggregate", w.doc, w.gen, 0, 0))}
  BY DEF PostProcessIfReady, AggregateWhenReady
<1>5. /\ Sound(PostProcessIfReady(s, w))
      /\ Becomes(s, PostProcessIfReady(s, w), s.batch, s.doc, s.chunk, s.cand,
                 PostProcessIfReady(s, w).jobs)
  BY <1>2, <1>3, <1>4, InsertIsSound
<1>6. /\ Sound(AggregateWhenReady(s, w))
      /\ Becomes(s, AggregateWhenReady(s, w), s.batch, s.doc, s.chunk, s.cand,
                 AggregateWhenReady(s, w).jobs)
  BY <1>2, <1>3, <1>4, InsertIsSound
<1> QED BY <1>5, <1>6

----------------------------------------------------------------------------
(* Jobs that failed for good.                                              *)

\* A job about a candidate fails its candidate.
LEMMA FailCandidateAdvances ==
    ASSUME NEW s, Sound(s), NEW w, IsWork(w), s.doc[w.doc].genuine
    PROVE  /\ Sound(FailCandidate(s, w))
           /\ Legal(FailCandidate(s, w)) => Advances(s, FailCandidate(s, w))
<1> DEFINE P == {c \in s.cand : Key(c) = <<w.doc, w.gen, w.cut, w.n>> /\ c.status = "pending"}
           cand == Struck(s.cand, P, "failed")
           failed == [s EXCEPT !.cand = cand]
           posted == PostProcessIfReady(failed, w)
<1>1. FailCandidate(s, w) = Refresh(posted)
  <2>1. cand = {IF Key(c) = <<w.doc, w.gen, w.cut, w.n>> /\ c.status = "pending"
                THEN [c EXCEPT !.status = "failed"] ELSE c : c \in s.cand}
    BY DEF Struck
  <2> HIDE DEF cand
  <2> QED BY <2>1 DEF FailCandidate
<1>2. P \subseteq s.cand /\ \A c \in P : c.status = "pending"
  OBVIOUS
<1>3. w.doc \in Documents /\ w.gen \in Generations
  BY DEF IsWork
<1> HIDE DEF P
<1>4. Becomes(s, failed, s.batch, s.doc, s.chunk, cand, s.jobs)
  BY Replacing, SoundParts
<1> HIDE DEF failed
<1>5. /\ failed.batch = s.batch /\ failed.doc = s.doc /\ failed.chunk = s.chunk
      /\ failed.jobs = s.jobs
  BY <1>4 DEF Becomes
<1>6. Sound(failed)
  BY <1>2, <1>4, <1>5, RoutineIsSound, SoundParts, SameDocuments
<1>7. Sound(posted) /\ Becomes(failed, posted, s.batch, s.doc, failed.chunk, failed.cand, posted.jobs)
  BY <1>3, <1>5, <1>6, EnqueueIsSound
<1> HIDE DEF posted
<1>8. Onward(s.doc, posted.doc)
  BY <1>7, SameDocuments DEF Becomes
<1> QED BY <1>1, <1>7, <1>8, RefreshAdvances

\* A document that fails goes on, unless it had ended otherwise.
LEMMA FailedRow ==
    ASSUME NEW row \in DocumentRow,
           row.status \notin {"completed", "completed_with_errors", "cancelled", "deleted"}
    PROVE  LET new == [row EXCEPT !.status = "failed", !.errors = TRUE, !.done = TRUE] IN
           new \in DocumentRow /\ RowOnward(row, new)
<1> DEFINE new == [row EXCEPT !.status = "failed", !.errors = TRUE, !.done = TRUE]
<1>1. new \in DocumentRow
  BY DEF DocumentRow, DocumentStatus, Finished
<1>2. /\ new.status = "failed" /\ new.gen = row.gen /\ new.cut = row.cut
      /\ new.genuine = row.genuine
  BY DEF DocumentRow
<1> HIDE DEF new
<1>3. RowOnward(row, new)
  BY <1>2 DEF RowOnward, Active, Finished, Unread
<1> QED BY <1>1, <1>3 DEF new

\* Another job fails its chunk and its document.
LEMMA FailDocumentAdvances ==
    ASSUME NEW s, Sound(s), NEW w, IsWork(w)
    PROVE  /\ Sound(FailDocument(s, w))
           /\ Legal(FailDocument(s, w)) => Advances(s, FailDocument(s, w))
<1> DEFINE chunkFails == /\ w.kind = "chunk" /\ HasChunk(s, w)
                         /\ ChunksOf(s, w)[w.n].status \in {"queued", "parsing"}
           struck == [s EXCEPT !.chunk[w.doc][w.gen][w.n].status = "failed"]
           marked == IF chunkFails THEN struck ELSE s
           fails == /\ IsCurrent(s, w)
                    /\ s.doc[w.doc].status \notin {"completed", "completed_with_errors",
                                                   "cancelled"}
           row == [s.doc[w.doc] EXCEPT !.status = "failed", !.errors = TRUE, !.done = TRUE]
           doc == [s.doc EXCEPT ![w.doc] = row]
           ended == [marked EXCEPT !.doc[w.doc] = [@ EXCEPT !.status = "failed",
                                                            !.errors = TRUE,
                                                            !.done = TRUE]]
<1>1. FailDocument(s, w) = Refresh(IF fails THEN ended ELSE marked)
  BY DEF FailDocument
<1>2. w.doc \in Documents /\ w.gen \in Generations /\ "failed" \in ChunkStatus
  BY DEF IsWork, ChunkStatus
<1>3. /\ Becomes(s, marked, s.batch, s.doc, marked.chunk, s.cand, s.jobs)
      /\ marked.chunk \in [Documents -> [Generations -> [1..Chunks -> ChunkRow]]]
  <2>1. /\ Becomes(s, struck, s.batch, s.doc, struck.chunk, s.cand, s.jobs)
        /\ struck.chunk \in [Documents -> [Generations -> [1..Chunks -> ChunkRow]]]
    BY <1>2, ChunkStatusParts, SoundParts
  <2>2. Becomes(s, s, s.batch, s.doc, s.chunk, s.cand, s.jobs)
    BY SoundParts DEF Becomes
  <2> HIDE DEF struck, chunkFails
  <2> QED BY <2>1, <2>2, SoundParts
<1> HIDE DEF marked
<1>4. /\ marked.batch = s.batch /\ marked.doc = s.doc /\ marked.jobs = s.jobs
  BY <1>3 DEF Becomes
<1>5. Sound(marked)
  BY <1>3, <1>4, PlainIsSound, SoundParts, SameDocuments
<1>6. ASSUME fails PROVE Sound(ended) /\ Onward(s.doc, ended.doc)
  <2>1. row \in DocumentRow /\ RowOnward(s.doc[w.doc], row)
    BY <1>2, <1>6, FailedRow, SoundParts DEF IsCurrent
  <2>2. ended = [marked EXCEPT !.doc = doc]
    BY <1>4
  <2> HIDE DEF row, ended
  <2>3. doc \in [Documents -> DocumentRow] /\ Onward(s.doc, doc)
    BY <1>2, <2>1, OneDocument, SoundParts
  <2> HIDE DEF doc
  <2>4. Becomes(s, ended, s.batch, doc, marked.chunk, s.cand, s.jobs)
    BY <1>3, <2>2, ReplacingNext
  <2>5. /\ ended.batch = s.batch /\ ended.doc = doc /\ ended.chunk = marked.chunk
        /\ ended.jobs = s.jobs
    BY <2>4 DEF Becomes
  <2> QED BY <1>3, <2>3, <2>4, <2>5, PlainIsSound, SoundParts
<1> HIDE DEF ended, fails
<1>7. Onward(s.doc, marked.doc)
  BY <1>4, SameDocuments
<1>8. CASE fails
  BY <1>1, <1>6, <1>8, RefreshAdvances
<1>9. CASE ~fails
  BY <1>1, <1>5, <1>7, <1>9, RefreshAdvances
<1> QED BY <1>8, <1>9

\* markTerminalJobFailure, for a job of a document that is what its jobs
\* take it to be.
LEMMA MarkTerminalFailureAdvances ==
    ASSUME NEW s, Sound(s), NEW w, IsWork(w), w.kind = "prepare" \/ s.doc[w.doc].genuine
    PROVE  /\ Sound(MarkTerminalFailure(s, w))
           /\ Legal(MarkTerminalFailure(s, w)) => Advances(s, MarkTerminalFailure(s, w))
<1>1. CASE w.kind = "reconcile"
  BY <1>1, FailCandidateAdvances DEF MarkTerminalFailure
<1>2. CASE w.kind # "reconcile"
  BY <1>2, FailDocumentAdvances DEF MarkTerminalFailure
<1> QED BY <1>1, <1>2

\* A job's document is what the job takes it to be.
LEMMA JobsAreVetted ==
    ASSUME NEW s, Sound(s), NEW j \in s.jobs
    PROVE  /\ IsJob(j) /\ IsWork(WorkOf(j))
           /\ WorkOf(j).kind = "prepare" \/ s.doc[WorkOf(j).doc].genuine
<1>1. IsJob(j)
  BY DEF Sound, Shape, JobsFit
<1>2. /\ IsWork(WorkOf(j)) /\ WorkOf(j).kind = j.kind /\ WorkOf(j).doc = j.doc
      /\ j.doc \in Documents
  BY <1>1, JobParts
<1>3. j.kind = "prepare" \/ s.doc[j.doc].genuine
  BY <1>2 DEF Sound, Vetted
<1> QED BY <1>1, <1>2, <1>3

\* Fewer jobs leave a database as legal as it was.
LEMMA SameLegal ==
    ASSUME NEW s, NEW s2, s2.batch = s.batch, s2.doc = s.doc
    PROVE  Legal(s2) <=> Legal(s)
BY DEF Legal

----------------------------------------------------------------------------
(* What a claim reaps.                                                     *)

\* What the next job that failed for good makes of a database.
Marked(acc, j) == IF Legal(acc) THEN MarkTerminalFailure(acc, WorkOf(j)) ELSE acc

\* f[i] is the database after the first i of the spent jobs.
IsMarking(s, spent, n, f) ==
    f = [i \in 0 .. n |-> IF i = 0 THEN [s EXCEPT !.jobs = s.jobs \ Spent(s)]
                          ELSE Marked(f[i - 1], spent[i])]

\* There are such databases, however many jobs there are.
LEMMA MarkingExists ==
    ASSUME NEW s, NEW spent, NEW n \in Nat
    PROVE  \E f : IsMarking(s, spent, n, f)
<1> DEFINE T == {k \in Nat : ~ \E f : IsMarking(s, spent, k, f)}
           base == [s EXCEPT !.jobs = s.jobs \ Spent(s)]
<1>1. SUFFICES ASSUME T # {} PROVE FALSE
  OBVIOUS
<1>2. PICK k \in T : \A m \in T : k <= m
  BY <1>1, LeastNumber
<1>3. k \in Nat /\ ~ \E f : IsMarking(s, spent, k, f)
  OBVIOUS
<1>4. CASE k = 0
  <2> HIDE DEF base
  <2> DEFINE g == [i \in 0 .. 0 |-> base]
  <2>1. g = [i \in 0 .. 0 |-> IF i = 0 THEN base ELSE Marked(g[i - 1], spent[i])]
    OBVIOUS
  <2> HIDE DEF g
  <2>2. IsMarking(s, spent, 0, g)
    BY <2>1 DEF IsMarking, base
  <2> QED BY <1>3, <1>4, <2>2
<1>5. CASE k # 0
  <2>1. k - 1 \in Nat /\ k - 1 \notin T
    BY <1>2, <1>3, <1>5
  <2>2. PICK f : IsMarking(s, spent, k - 1, f)
    BY <2>1
  <2> HIDE DEF T, base
  <2> DEFINE g == [i \in 0 .. k |-> IF i = k THEN Marked(f[k - 1], spent[k]) ELSE f[i]]
  <2>3. \A i \in 0 .. k - 1 : g[i] = f[i]
    BY <1>3
  <2>4. g[k] = Marked(f[k - 1], spent[k])
    BY <1>3
  <2>5. ASSUME NEW i \in 0 .. k
        PROVE  g[i] = IF i = 0 THEN base ELSE Marked(g[i - 1], spent[i])
    <3> HIDE DEF g
    <3>1. CASE i = k
      <4>1. k - 1 \in 0 .. k - 1
        BY <1>3, <1>5
      <4>2. g[k - 1] = f[k - 1]
        BY <2>3, <4>1
      <4> QED BY <1>5, <2>4, <3>1, <4>2
    <3>2. CASE i # k
      <4>1. i \in 0 .. k - 1 /\ (i # 0 => i - 1 \in 0 .. k - 1)
        BY <1>3, <3>2
      <4>2. f[i] = IF i = 0 THEN base ELSE Marked(f[i - 1], spent[i])
        BY <2>2, <4>1 DEF IsMarking, base
      <4>3. i # 0 => g[i - 1] = f[i - 1]
        BY <2>3, <4>1
      <4> QED BY <2>3, <4>1, <4>2, <4>3
    <3> QED BY <3>1, <3>2
  <2>6. IsMarking(s, spent, k, g)
    <3>1. g = [i \in 0 .. k |-> g[i]]
      OBVIOUS
    <3> HIDE DEF g
    <3> QED BY <2>5, <3>1 DEF IsMarking, base
  <2> QED BY <1>3, <2>6
<1> QED BY <1>4, <1>5

\* The database a claim finds is the last of them.
LEMMA ReapedIsLast ==
    ASSUME NEW s, NEW spent, Len(spent) \in Nat
    PROVE  \E f : /\ f[Len(spent)] = Reaped(s, spent)
                  /\ f[0] = [s EXCEPT !.jobs = s.jobs \ Spent(s)]
                  /\ \A i \in 1 .. Len(spent) : f[i] = Marked(f[i - 1], spent[i])
<1> DEFINE f == CHOOSE g : IsMarking(s, spent, Len(spent), g)
<1>1. IsMarking(s, spent, Len(spent), f)
  BY MarkingExists
<1>2. Reaped(s, spent) = f[Len(spent)]
  BY DEF Reaped, IsMarking, Marked
<1> HIDE DEF f
<1>3. /\ f[0] = [s EXCEPT !.jobs = s.jobs \ Spent(s)]
      /\ \A i \in 1 .. Len(spent) : f[i] = Marked(f[i - 1], spent[i])
  BY <1>1 DEF IsMarking
<1> QED BY <1>2, <1>3

\* The order in which a statement returns rows is a sequence of them.
LEMMA OrderParts ==
    ASSUME NEW S, IsFiniteSet(S), NEW spent \in SetToSeqs(S)
    PROVE  Len(spent) \in Nat /\ \A i \in 1 .. Len(spent) : spent[i] \in S
<1>1. PICK n : n = Cardinality(S)
  OBVIOUS
<1>2. n \in Nat
  BY <1>1, FS_CardinalityType
<1>3. spent \in [1..n -> S]
  BY <1>1 DEF SetToSeqs
<1>4. Len(spent) = n
  BY <1>2, <1>3
<1> QED BY <1>2, <1>3, <1>4

\* What a claim finds is sound and has advanced, once it is legal: each of
\* the marks is, or ends the claim.
LEMMA ReapedAdvances ==
    ASSUME NEW s, Sound(s), NEW spent \in SetToSeqs(Spent(s)), Legal(Reaped(s, spent))
    PROVE  Sound(Reaped(s, spent)) /\ Advances(s, Reaped(s, spent))
<1>1. IsFiniteSet(Spent(s)) /\ Spent(s) \subseteq s.jobs
  <2>1. Spent(s) \subseteq s.jobs
    BY DEF Spent
  <2> QED BY <2>1, FewerJobs, SoundParts DEF JobsFit
<1>2. Len(spent) \in Nat /\ \A i \in 1 .. Len(spent) : spent[i] \in s.jobs
  BY <1>1, OrderParts
<1>3. PICK f : /\ f[Len(spent)] = Reaped(s, spent)
               /\ f[0] = [s EXCEPT !.jobs = s.jobs \ Spent(s)]
               /\ \A i \in 1 .. Len(spent) : f[i] = Marked(f[i - 1], spent[i])
  BY <1>2, ReapedIsLast
<1> DEFINE T == {i \in 0 .. Len(spent) : Legal(f[i]) /\ ~(Sound(f[i]) /\ Advances(s, f[i]))}
<1>4. SUFFICES ASSUME T # {} PROVE FALSE
  BY <1>2, <1>3
<1>5. PICK k \in T : \A m \in T : k <= m
  <2>1. T \subseteq Nat
    BY <1>2
  <2> QED BY <1>4, <2>1, LeastNumber
<1>6. /\ k \in 0 .. Len(spent) /\ Legal(f[k]) /\ ~(Sound(f[k]) /\ Advances(s, f[k]))
      /\ \A m \in 0 .. Len(spent) : m < k /\ Legal(f[m]) => Sound(f[m]) /\ Advances(s, f[m])
  BY <1>2, <1>5
<1> HIDE DEF T
<1>7. CASE k = 0
  <2>1. Becomes(s, f[0], s.batch, s.doc, s.chunk, s.cand, s.jobs \ Spent(s))
    <3>1. Becomes(s, [s EXCEPT !.jobs = s.jobs \ Spent(s)], s.batch, s.doc, s.chunk, s.cand,
                  s.jobs \ Spent(s))
      BY Replacing, SoundParts
    <3> QED BY <1>3, <3>1
  <2>2. Sound(f[0])
    BY <2>1, FewerIsSound
  <2>3. Advances(s, f[0])
    BY <2>1, SameDocuments DEF Advances, Accounted, Becomes
  <2> QED BY <1>6, <1>7, <2>2, <2>3
<1>8. CASE k # 0
  <2>1. k \in 1 .. Len(spent) /\ k - 1 \in 0 .. Len(spent) /\ k - 1 < k
    BY <1>2, <1>6, <1>8
  <2>2. PICK a : a = f[k - 1]
    OBVIOUS
  <2>3. PICK w : w = WorkOf(spent[k])
    OBVIOUS
  <2>4. f[k] = IF Legal(a) THEN MarkTerminalFailure(a, w) ELSE a
    BY <1>3, <2>1, <2>2, <2>3 DEF Marked
  <2>5. Legal(a)
    BY <1>6, <2>4
  <2>6. Sound(a) /\ Advances(s, a)
    BY <1>6, <2>1, <2>2, <2>5
  <2>7. IsWork(w) /\ (w.kind = "prepare" \/ s.doc[w.doc].genuine)
    BY <1>2, <2>1, <2>3, JobsAreVetted
  <2>8. w.kind = "prepare" \/ a.doc[w.doc].genuine
    BY <2>6, <2>7 DEF Advances, Onward, RowOnward, IsWork
  <2>9. f[k] = MarkTerminalFailure(a, w)
    BY <2>4, <2>5
  <2>10. Sound(f[k]) /\ Advances(a, f[k])
    BY <1>6, <2>6, <2>7, <2>8, <2>9, MarkTerminalFailureAdvances
  <2> QED BY <1>6, <2>6, <2>10, AdvancesAdd
<1> QED BY <1>7, <1>8

----------------------------------------------------------------------------
(* Handlers that create neither candidates nor transactions.               *)

\* What every transaction of a worker does: documents keep their generation,
\* the ended ones stay as they are, and nothing ended is revived.
Follows(s, s2) ==
    /\ \A d \in Documents :
          /\ s2.doc[d].gen = s.doc[d].gen
          /\ s2.doc[d].genuine = s.doc[d].genuine
          /\ s.doc[d].status \in Finished => s2.doc[d].status = s.doc[d].status
          /\ s2.doc[d].status \in Active => s.doc[d].status \in Active
    /\ Accounted(s, s2)

\* One document of the database gets another row.
LEMMA OneRow ==
    ASSUME NEW s, Sound(s), NEW x, NEW jobs, NEW chunk,
           Becomes(s, x, s.batch, s.doc, chunk, s.cand, jobs), jobs \subseteq s.jobs,
           chunk \in [Documents -> [Generations -> [1..Chunks -> ChunkRow]]],
           NEW d \in Documents, NEW row \in DocumentRow, RowOnward(s.doc[d], row)
    PROVE  /\ Sound([x EXCEPT !.doc[d] = row])
           /\ Onward(s.doc, [x EXCEPT !.doc[d] = row].doc)
           /\ Becomes(s, [x EXCEPT !.doc[d] = row], s.batch, [s.doc EXCEPT ![d] = row], chunk,
                      s.cand, jobs)
<1> DEFINE doc == [s.doc EXCEPT ![d] = row]
           s2 == [x EXCEPT !.doc[d] = row]
<1>1. doc \in [Documents -> DocumentRow] /\ Onward(s.doc, doc)
  BY OneDocument, SoundParts
<1>2. s2 = [x EXCEPT !.doc = doc]
  BY DEF Becomes
<1> HIDE DEF doc, s2
<1>3. Becomes(s, s2, s.batch, doc, chunk, s.cand, jobs)
  BY <1>2, ReplacingNext
<1>4. s2.batch = s.batch /\ s2.doc = doc /\ s2.chunk = chunk /\ s2.jobs = jobs
  BY <1>3 DEF Becomes
<1>5. JobsFit(jobs)
  BY FewerJobs, SoundParts
<1>6. Sound(s2)
  BY <1>1, <1>3, <1>4, <1>5, PlainIsSound, SoundParts
<1> QED BY <1>1, <1>3, <1>4, <1>6 DEF doc, s2

\* A database is itself.
LEMMA Itself ==
    ASSUME NEW s, Sound(s)
    PROVE  /\ Becomes(s, s, s.batch, s.doc, s.chunk, s.cand, s.jobs)
           /\ Advances(s, s)
BY SoundParts, SameDocuments DEF Becomes, Advances, Accounted

\* The batch is left as it is.
LEMMA SameBatch ==
    ASSUME NEW s, NEW s2, s2.batch = s.batch, Onward(s.doc, s2.doc)
    PROVE  Advances(s, s2)
BY DEF Advances, Accounted

\* Store.IsCancelled ends the document of a batch that is being cancelled.
LEMMA IsCancelledAdvances ==
    ASSUME NEW s, Sound(s), NEW w, IsWork(w), NEW next,
           Legal(IsCancelled(s, w, next).db)
    PROVE  /\ Sound(IsCancelled(s, w, next).db)
           /\ Advances(s, IsCancelled(s, w, next).db)
           /\ IsCancelled(s, w, next).next \in {next, "succeeded"}
<1> DEFINE r == IsCancelled(s, w, next)
           row == [s.doc[w.doc] EXCEPT !.status = "cancelled", !.done = TRUE]
           x == [s EXCEPT !.doc[w.doc] = row]
<1>1. w.doc \in Documents
  BY DEF IsWork
<1>2. CASE r = Then(Recompute([SetDoc(s, w.doc, "cancelled") EXCEPT !.doc[w.doc].done = TRUE]),
                    "succeeded")
           /\ s.doc[w.doc].status \in Active
  <2>1. row \in DocumentRow /\ RowOnward(s.doc[w.doc], row)
    BY <1>1, <1>2, CancelledRow, SoundParts
  <2>2. [SetDoc(s, w.doc, "cancelled") EXCEPT !.doc[w.doc].done = TRUE] = x
    BY <1>1, SoundParts DEF SetDoc, IsDatabase
  <2>3. r.db = Recompute(x) /\ r.next = "succeeded"
    BY <1>2, <2>2 DEF Then
  <2> HIDE DEF row, r
  <2>4. Sound(x) /\ Onward(s.doc, x.doc)
    BY <1>1, <2>1, Itself, OneRow, SoundParts
  <2> HIDE DEF x
  <2> QED BY <2>3, <2>4, RecomputeAdvances DEF r
<1>3. CASE r = Then(s, "succeeded") \/ r = Then(s, next)
  <2>1. r.db = s /\ r.next \in {next, "succeeded"}
    BY <1>3 DEF Then
  <2> HIDE DEF r
  <2> QED BY <2>1, Itself DEF r
<1> QED BY <1>2, <1>3 DEF IsCancelled

\* LoadOriginals takes the document up.
LEMMA LoadOriginalsAdvances ==
    ASSUME NEW s, Sound(s), NEW w, IsWork(w)
    PROVE  /\ Sound(LoadOriginals(s, w).db)
           /\ Advances(s, LoadOriginals(s, w).db)
           /\ LoadOriginals(s, w).next \in {"render", "succeeded", "erred"}
<1> DEFINE r == LoadOriginals(s, w)
           row == [s.doc[w.doc] EXCEPT !.status = "preparing", !.started = TRUE, !.done = FALSE]
           x == [s EXCEPT !.doc[w.doc] = row]
<1>1. w.doc \in Documents /\ s.doc[w.doc] \in DocumentRow
  BY SoundParts DEF IsWork
<1>2. CASE r = Then(x, "render") /\ s.doc[w.doc].status \in {"queued", "preparing"}
  <2>1. row \in DocumentRow
    BY <1>1 DEF DocumentRow, DocumentStatus, Active
  <2>2. /\ row.status = "preparing" /\ row.gen = s.doc[w.doc].gen
        /\ row.cut = s.doc[w.doc].cut /\ row.genuine = s.doc[w.doc].genuine
    BY <1>1 DEF DocumentRow
  <2> HIDE DEF row, r
  <2>3. RowOnward(s.doc[w.doc], row)
    BY <1>2, <2>2 DEF RowOnward, Active, Finished, Unread
  <2>4. /\ Sound(x) /\ Onward(s.doc, x.doc)
        /\ Becomes(s, x, s.batch, [s.doc EXCEPT ![w.doc] = row], s.chunk, s.cand, s.jobs)
    BY <1>1, <2>1, <2>3, Itself, OneRow, SoundParts
  <2>5. r.db = x /\ r.next = "render"
    BY <1>2 DEF Then
  <2> HIDE DEF x
  <2>6. x.batch = s.batch
    BY <2>4 DEF Becomes
  <2> QED BY <2>4, <2>5, <2>6, SameBatch DEF r
<1>3. CASE r = Then(s, "succeeded") \/ r = Then(s, "erred")
  <2>1. r.db = s /\ r.next \in {"succeeded", "erred"}
    BY <1>3 DEF Then
  <2> HIDE DEF r
  <2> QED BY <2>1, Itself DEF r
<1>4. r = Then(s, "erred") \/ r = Then(s, "succeeded")
      \/ (r = Then(x, "render") /\ s.doc[w.doc].status \in {"queued", "preparing"})
  BY DEF LoadOriginals
<1> QED BY <1>2, <1>3, <1>4

\* RecordPrepareFailure fails a document that was at its preparation.
LEMMA RecordPrepareFailureAdvances ==
    ASSUME NEW s, Sound(s), NEW w, IsWork(w), ~s.doc[w.doc].genuine,
           Legal(RecordPrepareFailure(s, w).db)
    PROVE  /\ Sound(RecordPrepareFailure(s, w).db)
           /\ Advances(s, RecordPrepareFailure(s, w).db)
           /\ RecordPrepareFailure(s, w).next \in {"succeeded", "erred"}
<1> DEFINE r == RecordPrepareFailure(s, w)
           row == [s.doc[w.doc] EXCEPT !.status = "failed", !.errors = TRUE,
                                       !.files = FALSE, !.done = TRUE]
           jobs == {j \in s.jobs : ~(j.doc = w.doc /\ j.status = "queued")}
           fewer == [s EXCEPT !.jobs = jobs]
           x == [s EXCEPT !.jobs = {j \in @ : ~(j.doc = w.doc /\ j.status = "queued")},
                          !.doc[w.doc] = [@ EXCEPT !.status = "failed",
                                                   !.errors = TRUE,
                                                   !.files = FALSE,
                                                   !.done = TRUE]]
<1>1. w.doc \in Documents /\ s.doc[w.doc] \in DocumentRow
  BY SoundParts DEF IsWork
<1>2. \/ r = Then(s, "erred") \/ r = Then(s, "succeeded")
      \/ /\ r = Then(Recompute(x), "succeeded")
         /\ s.doc[w.doc].status \notin {"cancelled", "failed", "deleted"}
  BY DEF RecordPrepareFailure, IsCurrent
<1>3. CASE r = Then(Recompute(x), "succeeded")
           /\ s.doc[w.doc].status \notin {"cancelled", "failed", "deleted"}
  <2>1. row \in DocumentRow
    BY <1>1 DEF DocumentRow, DocumentStatus, Finished
  <2>2. /\ row.status = "failed" /\ row.gen = s.doc[w.doc].gen
        /\ row.cut = s.doc[w.doc].cut /\ row.genuine = s.doc[w.doc].genuine
    BY <1>1 DEF DocumentRow
  <2>3. s.doc[w.doc].status \in {"queued", "preparing"}
    BY <1>1, <1>3 DEF Sound, Vetted, Unread
  <2>4. Becomes(s, fewer, s.batch, s.doc, s.chunk, s.cand, jobs) /\ jobs \subseteq s.jobs
    BY Replacing, SoundParts
  <2>5. x = [fewer EXCEPT !.doc[w.doc] = row]
    OBVIOUS
  <2>6. r.db = Recompute(x) /\ r.next = "succeeded"
    BY <1>3 DEF Then
  <2> HIDE DEF row, r, jobs, fewer, x
  <2>7. RowOnward(s.doc[w.doc], row)
    BY <2>2, <2>3 DEF RowOnward, Active, Finished, Unread
  <2>8. Sound(x) /\ Onward(s.doc, x.doc)
    BY <1>1, <2>1, <2>4, <2>5, <2>7, OneRow, SoundParts
  <2> QED BY <2>6, <2>8, RecomputeAdvances DEF r
<1>4. CASE r = Then(s, "succeeded") \/ r = Then(s, "erred")
  <2>1. r.db = s /\ r.next \in {"succeeded", "erred"}
    BY <1>4 DEF Then
  <2> HIDE DEF r
  <2> QED BY <2>1, Itself DEF r
<1> HIDE DEF r, x
<1> QED BY <1>2, <1>3, <1>4 DEF r

\* The rows of a document's chunks are replaced.
LEMMA ChunkIsSound ==
    ASSUME NEW s, Sound(s), NEW x,
           Becomes(s, x, s.batch, s.doc, x.chunk, s.cand, s.jobs),
           x.chunk \in [Documents -> [Generations -> [1..Chunks -> ChunkRow]]]
    PROVE  Sound(x) /\ Advances(s, x)
<1>1. x.batch = s.batch /\ x.doc = s.doc /\ x.jobs = s.jobs
  BY DEF Becomes
<1>2. Sound(x)
  BY <1>1, PlainIsSound, SoundParts, SameDocuments
<1>3. Advances(s, x)
  BY <1>1, SameBatch, SameDocuments
<1> QED BY <1>2, <1>3

\* Queueing the aggregation after that.
LEMMA ThenAggregate ==
    ASSUME NEW s, NEW x, Sound(x), Advances(s, x), x.batch = s.batch, x.doc = s.doc,
           NEW w, IsWork(w), s.doc[w.doc].genuine
    PROVE  Sound(AggregateWhenReady(x, w)) /\ Advances(s, AggregateWhenReady(x, w))
<1> DEFINE y == AggregateWhenReady(x, w)
<1>1. w.doc \in Documents /\ w.gen \in Generations
  BY DEF IsWork
<1>2. Sound(y) /\ Becomes(x, y, x.batch, x.doc, x.chunk, x.cand, y.jobs)
  BY <1>1, EnqueueIsSound
<1> HIDE DEF y
<1>3. y.batch = s.batch /\ y.doc = s.doc
  BY <1>2 DEF Becomes
<1> QED BY <1>2, <1>3, SameBatch, SameDocuments DEF y

\* LoadChunk marks the chunk.
LEMMA LoadChunkAdvances ==
    ASSUME NEW s, Sound(s), NEW w, IsWork(w)
    PROVE  Sound(LoadChunk(s, w).db) /\ Advances(s, LoadChunk(s, w).db)
<1> DEFINE r == LoadChunk(s, w)
           x == [s EXCEPT !.chunk[w.doc][w.gen][w.n].status = "parsing"]
<1>1. w.doc \in Documents /\ w.gen \in Generations /\ "parsing" \in ChunkStatus
  BY DEF IsWork, ChunkStatus
<1>2. r.db = x \/ r.db = s
  BY DEF LoadChunk, Then
<1>3. Sound(x) /\ Advances(s, x)
  <2>1. /\ Becomes(s, x, s.batch, s.doc, x.chunk, s.cand, s.jobs)
        /\ x.chunk \in [Documents -> [Generations -> [1..Chunks -> ChunkRow]]]
    BY <1>1, ChunkStatusParts, SoundParts
  <2> HIDE DEF x
  <2> QED BY <2>1, ChunkIsSound
<1> HIDE DEF x, r
<1> QED BY <1>2, <1>3, Itself DEF r

\* RecordChunkFailure.
LEMMA RecordChunkFailureAdvances ==
    ASSUME NEW s, Sound(s), NEW w, IsWork(w), s.doc[w.doc].genuine, NEW terminal \in BOOLEAN
    PROVE  /\ Sound(RecordChunkFailure(s, w, terminal).db)
           /\ Advances(s, RecordChunkFailure(s, w, terminal).db)
<1> DEFINE r == RecordChunkFailure(s, w, terminal)
           status == IF terminal THEN "failed" ELSE "queued"
           x == [s EXCEPT !.chunk[w.doc][w.gen][w.n].status = status]
<1>1. w.doc \in Documents /\ w.gen \in Generations /\ status \in ChunkStatus
  BY DEF IsWork, ChunkStatus
<1>2. r.db = x \/ r.db = AggregateWhenReady(x, w) \/ r.db = s
  BY DEF RecordChunkFailure, Then
<1> HIDE DEF status
<1>3. Sound(x) /\ Advances(s, x) /\ x.batch = s.batch /\ x.doc = s.doc
  <2>1. /\ Becomes(s, x, s.batch, s.doc, x.chunk, s.cand, s.jobs)
        /\ x.chunk \in [Documents -> [Generations -> [1..Chunks -> ChunkRow]]]
    BY <1>1, ChunkStatusParts, SoundParts
  <2> HIDE DEF x
  <2>2. x.batch = s.batch /\ x.doc = s.doc
    BY <2>1 DEF Becomes
  <2> QED BY <2>1, <2>2, ChunkIsSound
<1> HIDE DEF x, r
<1> QED BY <1>2, <1>3, Itself, ThenAggregate DEF r

\* RecordChunkResult.
LEMMA RecordChunkResultAdvances ==
    ASSUME NEW s, Sound(s), NEW w, IsWork(w), s.doc[w.doc].genuine,
           NEW answer \in Outputs \cup {None}
    PROVE  /\ Sound(RecordChunkResult(s, w, answer).db)
           /\ Advances(s, RecordChunkResult(s, w, answer).db)
<1> DEFINE r == RecordChunkResult(s, w, answer)
           row == [status |-> "valid", answer |-> answer]
           rows == [s.chunk[w.doc][w.gen] EXCEPT ![w.n] = row]
           chunk == [s.chunk EXCEPT ![w.doc][w.gen] = rows]
           x == [s EXCEPT !.chunk[w.doc][w.gen][w.n] = row]
<1>1. w.doc \in Documents /\ w.gen \in Generations /\ row \in ChunkRow
  BY DEF IsWork, ChunkStatus, ChunkRow
<1>2. r.db = AggregateWhenReady(x, w) \/ r.db = s
  BY DEF RecordChunkResult, Then
<1>3. x = [s EXCEPT !.chunk = chunk]
  OBVIOUS
<1> HIDE DEF row, x
<1>4. /\ s.chunk \in [Documents -> [Generations -> ChunkRows]]
      /\ s.chunk[w.doc][w.gen] \in ChunkRows
  BY <1>1, SoundParts DEF ChunkRows
<1>5. rows \in ChunkRows
  BY <1>1, <1>4, OneChunk
<1> HIDE DEF rows
<1>6. chunk \in [Documents -> [Generations -> ChunkRows]]
  BY <1>1, <1>4, <1>5, OneCut
<1> HIDE DEF chunk
<1>7. Becomes(s, x, s.batch, s.doc, chunk, s.cand, s.jobs)
  BY <1>3, Replacing, SoundParts
<1>8. x.chunk = chunk /\ x.batch = s.batch /\ x.doc = s.doc
  BY <1>7 DEF Becomes
<1>9. Sound(x) /\ Advances(s, x)
  BY <1>6, <1>7, <1>8, ChunkIsSound DEF ChunkRows
<1> HIDE DEF r
<1> QED BY <1>2, <1>8, <1>9, Itself, ThenAggregate DEF r

\* RecordGenericPostProcess completes the document.
LEMMA RecordPostProcessAdvances ==
    ASSUME NEW s, Sound(s), NEW w, IsWork(w), Legal(RecordPostProcess(s, w).db)
    PROVE  Sound(RecordPostProcess(s, w).db) /\ Advances(s, RecordPostProcess(s, w).db)
<1> DEFINE r == RecordPostProcess(s, w)
           failed == \/ \E c \in s.cand :
                          c.doc = w.doc /\ c.gen = w.gen /\ c.status = "failed"
                     \/ \E i \in 1..Chunks : ChunksOf(s, w)[i].status = "failed"
           status == IF failed THEN "completed_with_errors" ELSE "completed"
           row == [s.doc[w.doc] EXCEPT !.errors = failed, !.done = TRUE, !.status = status]
           x == [s EXCEPT !.doc[w.doc] = row]
<1>1. w.doc \in Documents /\ s.doc[w.doc] \in DocumentRow
  BY SoundParts DEF IsWork
<1>2. \/ r.db = Recompute(x) /\ s.doc[w.doc].status = "reconciling"
      \/ r.db = Recompute(s)
  BY DEF RecordPostProcess, Then
<1> HIDE DEF r
<1>3. failed \in BOOLEAN /\ status \in {"completed", "completed_with_errors"}
  OBVIOUS
<1> HIDE DEF failed, status
<1>4. CASE r.db = Recompute(x) /\ s.doc[w.doc].status = "reconciling"
  <2>1. row \in DocumentRow
    BY <1>1, <1>3 DEF DocumentRow, DocumentStatus, Finished
  <2>2. /\ row.status = status /\ row.gen = s.doc[w.doc].gen
        /\ row.cut = s.doc[w.doc].cut /\ row.genuine = s.doc[w.doc].genuine
    BY <1>1 DEF DocumentRow
  <2> HIDE DEF row
  <2>3. RowOnward(s.doc[w.doc], row)
    BY <1>3, <1>4, <2>2 DEF RowOnward, Active, Finished, Unread
  <2>4. Sound(x) /\ Onward(s.doc, x.doc)
    BY <1>1, <2>1, <2>3, Itself, OneRow, SoundParts
  <2> HIDE DEF x
  <2> QED BY <1>4, <2>4, RecomputeAdvances DEF r
<1>5. CASE r.db = Recompute(s)
  BY <1>5, RecomputeAdvances, SameDocuments DEF r
<1> QED BY <1>2, <1>4, <1>5

----------------------------------------------------------------------------
(* Candidates that are resolved.                                           *)

\* Names tell candidates' documents, generations and cuts.
LEMMA SameKey ==
    ASSUME NEW c, NEW k, Key(c) = Key(k)
    PROVE  c.doc = k.doc /\ c.gen = k.gen /\ c.cut = k.cut /\ c.n = k.n
BY DEF Key

\* A candidate's name is one of its document.
LEMMA KeyIsName ==
    ASSUME NEW t, NEW c, t.id = Key(c)
    PROVE  NamedAfter(t, c.doc) /\ t.id[2] = c.gen /\ t.id[3] = c.cut
BY DEF Key, NamedAfter

\* A candidate that waited gets a row of its own name, with at most the
\* transaction named after it and evidence of its own.
LEMMA ResolvedEvidence ==
    ASSUME NEW doc, NEW new, NEW cand, NEW ledger, NEW link, NEW ledger2, NEW link2,
           doc \in [Documents -> DocumentRow], new \in [Documents -> DocumentRow],
           CandidatesFit(cand), Evidenced(doc, cand, ledger, link), Onward(doc, new),
           NEW c \in cand, c.status \in {"pending", "review"},
           NEW k, IsCandidate(k), Key(k) = Key(c),
           ledger \subseteq ledger2, link \subseteq link2, Single(ledger2),
           \A t \in ledger2 \ ledger : \/ t.id = Key(c) /\ k.status = "created"
                                       \/ \A d \in Documents : ~NamedAfter(t, d),
           \A l \in link2 \ link : /\ l.cand = Key(c) /\ l.doc = c.doc /\ l.gen = c.gen
                                   /\ \E t \in ledger2 : t.id = l.tx,
           k.status \in {"created", "attached"} =>
              /\ \E t \in ledger2 : t.id = k.tx
              /\ \E l \in link2 : l.tx = k.tx /\ l.cand = Key(k)
    PROVE  /\ CandidatesFit((cand \ {c}) \cup {k})
           /\ Evidenced(new, (cand \ {c}) \cup {k}, ledger2, link2)
<1> DEFINE left == (cand \ {c}) \cup {k}
<1>1. CandidatesFit(left)
  BY DEF CandidatesFit
<1>2. \A b \in left : b = k \/ (b \in cand /\ b # c)
  OBVIOUS
<1>3. \A b \in cand : \E m \in left : Key(m) = Key(b)
  OBVIOUS
<1>4. k.doc = c.doc /\ k.gen = c.gen /\ k.cut = c.cut
  BY SameKey
<1>5. IsCandidate(c)
  BY DEF CandidatesFit
<1>6. ASSUME NEW t \in ledger PROVE t.id # Key(c)
  BY DEF Evidenced, OwnIsCreated
<1> HIDE DEF left
<1>7. KeysFit(new, left)
  <2>1. ASSUME NEW a \in left, NEW b \in left, Key(a) = Key(b) PROVE a = b
    BY <1>2, <2>1 DEF Evidenced, KeysFit
  <2>2. ASSUME NEW b \in left PROVE b.gen <= new[b.doc].gen /\ b.cut <= new[b.doc].cut
    <3>1. c.gen <= doc[c.doc].gen /\ c.cut <= doc[c.doc].cut /\ c.doc \in Documents
      BY <1>5 DEF Evidenced, KeysFit, IsCandidate
    <3>2. CASE b = k
      BY <1>4, <3>1, <3>2 DEF Onward, RowOnward
    <3>3. CASE b \in cand
      <4>1. b.gen <= doc[b.doc].gen /\ b.cut <= doc[b.doc].cut /\ b.doc \in Documents
        BY <3>3 DEF Evidenced, KeysFit, CandidatesFit, IsCandidate
      <4> QED BY <4>1 DEF Onward, RowOnward
    <3> QED BY <1>2, <3>2, <3>3
  <2> QED BY <2>1, <2>2 DEF KeysFit
<1>8. NamesFit(new, left, ledger2)
  <2> SUFFICES ASSUME NEW t \in ledger2, NEW d \in Documents, NamedAfter(t, d)
               PROVE  /\ t.id[2] \in Nat /\ t.id[2] <= new[d].gen
                      /\ t.id[3] \in Nat /\ t.id[3] <= new[d].cut
                      /\ \/ new[d].status = "deleted"
                         \/ t.id[2] # new[d].gen
                         \/ t.id[3] # new[d].cut
                         \/ \E b \in left : Key(b) = t.id
    BY DEF NamesFit
  <2>1. new[d].gen = doc[d].gen /\ new[d].cut = doc[d].cut
        /\ (doc[d].status = "deleted" <=> new[d].status = "deleted")
    BY DEF Onward, RowOnward
  <2>2. CASE t \in ledger
    <3>1. /\ t.id[2] \in Nat /\ t.id[2] <= doc[d].gen
          /\ t.id[3] \in Nat /\ t.id[3] <= doc[d].cut
          /\ \/ doc[d].status = "deleted"
             \/ t.id[2] # doc[d].gen
             \/ t.id[3] # doc[d].cut
             \/ \E b \in cand : Key(b) = t.id
      BY <2>2 DEF Evidenced, NamesFit
    <3> QED BY <1>3, <2>1, <3>1
  <2>3. CASE t \notin ledger
    <3>1. t.id = Key(c)
      BY <2>3
    <3>2. NamedAfter(t, c.doc) /\ t.id[2] = c.gen /\ t.id[3] = c.cut
      BY <3>1, KeyIsName
    <3>3. d = c.doc
      BY <3>2 DEF NamedAfter
    <3>4. c.gen <= doc[d].gen /\ c.cut <= doc[d].cut /\ c.gen \in Nat /\ c.cut \in Nat
      BY <1>5, <3>3 DEF Evidenced, KeysFit, IsCandidate, Generations
    <3>5. k \in left
      BY DEF left
    <3> QED BY <2>1, <3>1, <3>2, <3>4, <3>5
  <2> QED BY <2>2, <2>3
<1>9. OwnIsCreated(left, ledger2)
  <2> SUFFICES ASSUME NEW t \in ledger2, NEW b \in left, t.id = Key(b)
               PROVE  b.status = "created"
    BY DEF OwnIsCreated
  <2>1. NamedAfter(t, b.doc) /\ b.doc \in Documents
    BY <1>1, KeyIsName DEF CandidatesFit, IsCandidate
  <2>2. CASE t \in ledger
    <3>1. b # k
      BY <1>6, <2>2
    <3> QED BY <1>2, <2>2, <3>1 DEF Evidenced, OwnIsCreated
  <2>3. CASE t \notin ledger
    <3>1. t.id = Key(c) /\ k.status = "created"
      BY <2>1, <2>3
    <3>2. b = k
      BY <1>2, <3>1 DEF Evidenced, KeysFit
    <3> QED BY <3>1, <3>2
  <2> QED BY <2>2, <2>3
<1>10. LinksFit(ledger2, link2)
  <2> SUFFICES ASSUME NEW l \in link2
               PROVE  /\ l.cand = <<l.doc, l.gen, l.cand[3], l.cand[4]>>
                      /\ \E t \in ledger2 : t.id = l.tx
    BY DEF LinksFit
  <2>1. CASE l \in link
    BY <2>1 DEF Evidenced, LinksFit
  <2>2. CASE l \notin link
    BY <2>2 DEF Key
  <2> QED BY <2>1, <2>2
<1>11. Settled(left, ledger2, link2)
  <2> SUFFICES ASSUME NEW b \in left, b.status \in {"created", "attached"}
               PROVE  /\ \E t \in ledger2 : t.id = b.tx
                      /\ \E l \in link2 : l.tx = b.tx /\ l.cand = Key(b)
    BY DEF Settled
  <2>1. CASE b = k
    BY <2>1
  <2>2. CASE b \in cand
    BY <2>2 DEF Evidenced, Settled
  <2> QED BY <1>2, <2>1, <2>2
<1> QED BY <1>1, <1>7, <1>8, <1>9, <1>10, <1>11 DEF Evidenced, left

\* The databases that differ in transactions and evidence only.
Books(s, x, ledger, link) ==
    /\ IsDatabase(x)
    /\ x.batch = s.batch /\ x.doc = s.doc /\ x.chunk = s.chunk
    /\ x.cand = s.cand /\ x.jobs = s.jobs
    /\ x.ledger = ledger
    /\ x.link = link

\* Entering a transaction or an evidence row.
LEMMA Entering ==
    ASSUME NEW s, NEW x, NEW ledger, NEW link, Books(s, x, ledger, link), NEW v
    PROVE  /\ Books(s, [x EXCEPT !.ledger = v], v, link)
           /\ Books(s, [x EXCEPT !.link = v], ledger, v)
<1>1. Books(s, [x EXCEPT !.ledger = v], v, link)
  BY DEF Books, IsDatabase
<1>2. Books(s, [x EXCEPT !.link = v], ledger, v)
  BY DEF Books, IsDatabase
<1> QED BY <1>1, <1>2

\* A document that has a candidate passed its verification.
LEMMA CandidatesAreVetted ==
    ASSUME NEW s, Sound(s), NEW c \in s.cand
    PROVE  IsCandidate(c) /\ c.doc \in Documents /\ c.gen \in Generations
           /\ s.doc[c.doc].genuine
BY DEF Sound, Shape, CandidatesFit, IsCandidate, Vetted

\* The outcome of a candidate keeps a database sound, with the transaction and
\* the evidence it takes.
LEMMA OutcomeIsSound ==
    ASSUME NEW s, Sound(s), NEW c \in s.cand, c.status \in {"pending", "review"},
           NEW x, NEW ledger, NEW link, Books(s, x, ledger, link),
           NEW status \in {"review", "attached", "created"}, NEW tx,
           s.ledger \subseteq ledger, s.link \subseteq link, Single(ledger),
           \A t \in ledger \ s.ledger : \/ t.id = Key(c) /\ status = "created"
                                        \/ \A d \in Documents : ~NamedAfter(t, d),
           \A l \in link \ s.link : /\ l.cand = Key(c) /\ l.doc = c.doc /\ l.gen = c.gen
                                    /\ \E t \in ledger : t.id = l.tx,
           status # "review" => /\ \E t \in ledger : t.id = tx
                                /\ \E l \in link : l.tx = tx /\ l.cand = Key(c)
    PROVE  /\ Sound(Outcome(x, c, status, tx))
           /\ Onward(s.doc, Outcome(x, c, status, tx).doc)
           /\ Outcome(x, c, status, tx).batch = s.batch
           /\ \A d \in Documents : Outcome(x, c, status, tx).doc[d].status = s.doc[d].status
           /\ \A d \in Documents : DocumentLifecycle(Outcome(x, c, status, tx).doc[d])
                                   <=> DocumentLifecycle(s.doc[d])
<1> DEFINE k == [c EXCEPT !.status = status, !.tx = tx]
           cands == (s.cand \ {c}) \cup {k}
           errors == \/ \E b \in cands : b.doc = c.doc /\ b.gen = c.gen /\ b.status = "failed"
                     \/ \E i \in 1..Chunks : s.chunk[c.doc][c.gen][i].status = "failed"
           row == [s.doc[c.doc] EXCEPT !.errors = errors]
           doc == [s.doc EXCEPT ![c.doc] = row]
           r == Outcome(x, c, status, tx)
<1>1. IsCandidate(c) /\ c.doc \in Documents /\ s.doc[c.doc].genuine
  BY CandidatesAreVetted
<1>2. s.doc \in [Documents -> DocumentRow] /\ s.doc[c.doc] \in DocumentRow /\ IsDatabase(s)
  BY <1>1, SoundParts
<1>3. r = [x EXCEPT !.cand = cands, !.doc = doc]
  BY DEF Outcome, Books
<1>4. status \in CandidateStatus
  BY DEF CandidateStatus
<1>5. IsCandidate(k) /\ Key(k) = Key(c) /\ k.status = status /\ k.tx = tx
  <2>1. PICK a : a = [c EXCEPT !.status = status]
    OBVIOUS
  <2>2. k = [a EXCEPT !.tx = tx]
    BY <2>1
  <2>3. IsCandidate(a) /\ Key(a) = Key(c) /\ a.status = status
    BY <1>1, <1>4, <2>1, StruckRow
  <2> HIDE DEF k
  <2>4. /\ k = [doc |-> k.doc, gen |-> k.gen, cut |-> k.cut, n |-> k.n, what |-> k.what,
                doubts |-> k.doubts, status |-> k.status, tx |-> k.tx]
        /\ k.status = a.status /\ k.tx = tx
        /\ k.doc = a.doc /\ k.gen = a.gen /\ k.cut = a.cut /\ k.n = a.n
    BY <2>2, <2>3 DEF IsCandidate
  <2> QED BY <2>3, <2>4 DEF IsCandidate, Key
<1>6. errors \in BOOLEAN
  OBVIOUS
<1> HIDE DEF k, errors
<1>7. row \in DocumentRow
  BY <1>2, <1>6 DEF DocumentRow
<1>8. /\ row.status = s.doc[c.doc].status /\ row.gen = s.doc[c.doc].gen
      /\ row.cut = s.doc[c.doc].cut /\ row.genuine = s.doc[c.doc].genuine
      /\ row.done = s.doc[c.doc].done /\ row.started = s.doc[c.doc].started
  BY <1>2 DEF DocumentRow
<1> HIDE DEF row
<1>9. RowOnward(s.doc[c.doc], row)
  BY <1>8 DEF RowOnward
<1>10. /\ doc \in [Documents -> DocumentRow] /\ Onward(s.doc, doc) /\ doc[c.doc] = row
       /\ \A d \in Documents : d # c.doc => doc[d] = s.doc[d]
  BY <1>1, <1>2, <1>7, <1>9, OneDocument
<1> HIDE DEF doc, r, cands
<1>11. /\ IsDatabase(r) /\ r.batch = s.batch /\ r.doc = doc /\ r.chunk = s.chunk
       /\ r.cand = cands /\ r.jobs = s.jobs /\ r.ledger = ledger /\ r.link = link
  <2>1. PICK y : y = [x EXCEPT !.cand = cands]
    OBVIOUS
  <2>2. /\ IsDatabase(y) /\ y.batch = s.batch /\ y.doc = s.doc /\ y.chunk = s.chunk
        /\ y.cand = cands /\ y.jobs = s.jobs /\ y.ledger = ledger /\ y.link = link
    BY <2>1 DEF IsDatabase, Books
  <2>3. r = [y EXCEPT !.doc = doc]
    BY <1>3, <2>1
  <2>4. IsDatabase(r) /\ r.batch = y.batch /\ r.doc = doc /\ r.chunk = y.chunk
       /\ r.cand = y.cand /\ r.jobs = y.jobs /\ r.ledger = y.ledger /\ r.link = y.link
    BY <2>2, <2>3 DEF IsDatabase
  <2> QED BY <2>2, <2>4
<1>12. CandidatesFit(cands) /\ Evidenced(doc, cands, ledger, link)
  <2>1. CandidatesFit(s.cand) /\ Evidenced(s.doc, s.cand, s.ledger, s.link)
    BY DEF Sound, Shape
  <2>2. k.status \in {"created", "attached"} =>
          /\ \E t \in ledger : t.id = k.tx
          /\ \E l \in link : l.tx = k.tx /\ l.cand = Key(k)
    BY <1>5
  <2>3. \A t \in ledger \ s.ledger : \/ t.id = Key(c) /\ k.status = "created"
                                     \/ \A d \in Documents : ~NamedAfter(t, d)
    BY <1>5
  <2> QED BY <1>2, <1>5, <1>10, <2>1, <2>2, <2>3, ResolvedEvidence DEF cands
<1>13. Shape(r)
  BY <1>10, <1>11, <1>12, SoundParts DEF Shape
<1>14. Vetted(r.doc, r.cand, r.jobs)
  <2> SUFFICES ASSUME NEW d \in Documents, ~r.doc[d].genuine
               PROVE  /\ r.doc[d].status \in Unread
                      /\ \A j \in r.jobs : j.doc = d => j.kind = "prepare"
                      /\ \A b \in r.cand : b.doc # d
    BY DEF Vetted
  <2>1. ~s.doc[d].genuine /\ d # c.doc /\ r.doc[d] = s.doc[d]
    BY <1>1, <1>10, <1>11 DEF Onward, RowOnward
  <2>2. /\ s.doc[d].status \in Unread
        /\ \A j \in s.jobs : j.doc = d => j.kind = "prepare"
        /\ \A b \in s.cand : b.doc # d
    BY <2>1 DEF Sound, Vetted
  <2>3. k.doc = c.doc
    BY <1>5, SameKey
  <2> QED BY <1>11, <2>1, <2>2, <2>3 DEF cands
<1>15. Sound(r)
  BY <1>11, <1>12, <1>13, <1>14 DEF Sound
<1>16. \A d \in Documents : /\ doc[d].status = s.doc[d].status
                            /\ DocumentLifecycle(doc[d]) <=> DocumentLifecycle(s.doc[d])
  BY <1>8, <1>10 DEF DocumentLifecycle
<1> QED BY <1>10, <1>11, <1>15, <1>16 DEF r

\* The evidence rows with one of a candidate to a transaction, unless it has
\* one of another candidate of the source.
WithEvidence(link, more, c, t) ==
    /\ link \subseteq more
    /\ \A l \in more \ link : /\ l.cand = Key(c) /\ l.doc = c.doc /\ l.gen = c.gen
                              /\ l.tx = t
    /\ (\A l \in link : l.tx = t /\ l.doc = c.doc => l.cand = Key(c))
       => \E l \in more : l.tx = t /\ l.cand = Key(c)

\* An evidence row to a transaction is added, unless the
\* transaction has one of the source.
LEMMA EvidenceIsAdded ==
    ASSUME NEW s, NEW x, NEW ledger, NEW link, Books(s, x, ledger, link), NEW c, NEW t
    PROVE  \E more : /\ Books(s, AddEvidence(x, c, t), ledger, more)
                     /\ WithEvidence(link, more, c, t)
<1>1. x.link = link
  BY DEF Books
<1>2. CASE \E l \in link : l.tx = t /\ l.doc = c.doc
  <2>1. AddEvidence(x, c, t) = x
    BY <1>1, <1>2 DEF AddEvidence
  <2>2. Books(s, AddEvidence(x, c, t), ledger, link)
    BY <2>1
  <2>3. WithEvidence(link, link, c, t)
    BY <1>2 DEF WithEvidence
  <2> QED BY <2>2, <2>3
<1>3. CASE ~\E l \in link : l.tx = t /\ l.doc = c.doc
  <2> DEFINE more == link \cup {Evidence(c, t)}
  <2>1. AddEvidence(x, c, t) = [x EXCEPT !.link = more]
    BY <1>1, <1>3 DEF AddEvidence
  <2>2. Books(s, AddEvidence(x, c, t), ledger, more)
    <3> HIDE DEF more
    <3>1. Books(s, [x EXCEPT !.link = more], ledger, more)
      BY Entering
    <3> QED BY <2>1, <3>1
  <2>3. LET l == Evidence(c, t) IN
        l.cand = Key(c) /\ l.doc = c.doc /\ l.gen = c.gen /\ l.tx = t /\ l \in more
    BY DEF Evidence
  <2>4. \A l \in more \ link : l = Evidence(c, t)
    OBVIOUS
  <2> HIDE DEF more
  <2>5. link \subseteq more
    BY DEF more
  <2>6. WithEvidence(link, more, c, t)
    BY <2>3, <2>4, <2>5 DEF WithEvidence
  <2> QED BY <2>2, <2>6
<1> QED BY <1>2, <1>3

\* A transaction named after a candidate.
LEMMA TransactionIsEntered ==
    ASSUME NEW s, IsDatabase(s), NEW c, NEW by
    PROVE  /\ Books(s, s, s.ledger, s.link)
           /\ Books(s, NewTransaction(s, c, by),
                    s.ledger \cup {[id |-> Key(c), what |-> c.what, by |-> by]}, s.link)
<1>1. Books(s, s, s.ledger, s.link)
  BY DEF Books
<1>2. PICK v : v = s.ledger \cup {[id |-> Key(c), what |-> c.what, by |-> by]}
  OBVIOUS
<1>3. NewTransaction(s, c, by) = [s EXCEPT !.ledger = v]
  BY <1>2 DEF NewTransaction
<1>4. Books(s, [s EXCEPT !.ledger = v], v, s.link)
  BY <1>1, Entering
<1> QED BY <1>1, <1>2, <1>3, <1>4

\* What is entered in the books for a candidate: at most the transaction named
\* after it, and evidence of the candidate.
Entered(s, c, status, tx, ledger, link) ==
    /\ s.ledger \subseteq ledger
    /\ s.link \subseteq link
    /\ Single(ledger)
    /\ \A t \in ledger \ s.ledger : \/ t.id = Key(c) /\ status = "created"
                                    \/ \A d \in Documents : ~NamedAfter(t, d)
    /\ \A l \in link \ s.link : /\ l.cand = Key(c) /\ l.doc = c.doc /\ l.gen = c.gen
                                /\ \E t \in ledger : t.id = l.tx
    /\ status # "review" => /\ \E t \in ledger : t.id = tx
                            /\ \E l \in link : l.tx = tx /\ l.cand = Key(c)

\* What a resolution does to the rest of the database.
Resolution(s, y) ==
    /\ Sound(y)
    /\ Onward(s.doc, y.doc)
    /\ y.batch = s.batch
    /\ Legal(s) => Legal(y)

\* A resolution with its entries, and the post processing it may queue.
LEMMA ResolvedIsSound ==
    ASSUME NEW s, Sound(s), NEW c \in s.cand, c.status \in {"pending", "review"},
           NEW x, NEW ledger, NEW link, Books(s, x, ledger, link),
           NEW status \in {"review", "attached", "created"}, NEW tx,
           Entered(s, c, status, tx, ledger, link),
           NEW w, w.doc = c.doc, w.gen = c.gen
    PROVE  Resolution(s, PostProcessIfReady(Outcome(x, c, status, tx), w))
<1> DEFINE o == Outcome(x, c, status, tx)
           y == PostProcessIfReady(o, w)
<1>1. /\ Sound(o) /\ Onward(s.doc, o.doc) /\ o.batch = s.batch
      /\ \A d \in Documents : o.doc[d].status = s.doc[d].status
      /\ \A d \in Documents : DocumentLifecycle(o.doc[d]) <=> DocumentLifecycle(s.doc[d])
  <2>1. /\ s.ledger \subseteq ledger /\ s.link \subseteq link /\ Single(ledger)
        /\ \A t \in ledger \ s.ledger : \/ t.id = Key(c) /\ status = "created"
                                        \/ \A d \in Documents : ~NamedAfter(t, d)
        /\ \A l \in link \ s.link : /\ l.cand = Key(c) /\ l.doc = c.doc /\ l.gen = c.gen
                                    /\ \E t \in ledger : t.id = l.tx
        /\ status # "review" => /\ \E t \in ledger : t.id = tx
                                /\ \E l \in link : l.tx = tx /\ l.cand = Key(c)
    BY DEF Entered
  <2> QED BY <2>1, OutcomeIsSound
<1>2. w.doc \in Documents /\ w.gen \in Generations /\ s.doc[w.doc].genuine
  BY CandidatesAreVetted
<1> HIDE DEF o
<1>3. o.doc[w.doc].genuine
  BY <1>1, <1>2 DEF Onward, RowOnward
<1>4. Sound(y) /\ Becomes(o, y, o.batch, o.doc, o.chunk, o.cand, y.jobs)
  BY <1>1, <1>2, <1>3, EnqueueIsSound
<1> HIDE DEF y
<1>5. y.batch = s.batch /\ y.doc = o.doc
  BY <1>1, <1>4 DEF Becomes
<1> QED BY <1>1, <1>4, <1>5 DEF Resolution, Legal, o, y

\* Nothing is entered for a review.
LEMMA NothingEntered ==
    ASSUME NEW s, Sound(s), NEW c
    PROVE  Entered(s, c, "review", None, s.ledger, s.link)
BY DEF Entered, Sound, Evidenced

\* A transaction there is gets evidence of the candidate, if the evidence is
\* free.
LEMMA AttachedEntered ==
    ASSUME NEW s, Sound(s), NEW c \in s.cand, NEW t \in s.ledger, EvidenceFree(s, c, t.id)
    PROVE  \E link : /\ Books(s, AddEvidence(s, c, t.id), s.ledger, link)
                     /\ Entered(s, c, "attached", t.id, s.ledger, link)
<1>1. Books(s, s, s.ledger, s.link)
  BY SoundParts, TransactionIsEntered
<1>2. PICK tx : tx = t.id
  OBVIOUS
<1>3. PICK more : /\ Books(s, AddEvidence(s, c, tx), s.ledger, more)
                  /\ WithEvidence(s.link, more, c, tx)
  BY <1>1, EvidenceIsAdded
<1>4. \E l \in more : l.tx = tx /\ l.cand = Key(c)
  BY <1>2, <1>3 DEF EvidenceFree, WithEvidence
<1>5. Single(s.ledger)
  BY DEF Sound, Evidenced
<1>6. Entered(s, c, "attached", tx, s.ledger, more)
  BY <1>2, <1>3, <1>4, <1>5 DEF Entered, WithEvidence
<1> QED BY <1>2, <1>3, <1>6

\* A candidate that waits has no transaction, and no transaction of its name
\* has evidence.
LEMMA NoneOfItsName ==
    ASSUME NEW s, Sound(s), NEW c \in s.cand, c.status \in {"pending", "review"}
    PROVE  /\ \A t \in s.ledger : t.id # Key(c)
           /\ \A l \in s.link : l.tx # Key(c)
<1>1. \A t \in s.ledger : t.id # Key(c)
  BY DEF Sound, Evidenced, OwnIsCreated
<1> QED BY <1>1 DEF Sound, Evidenced, LinksFit

\* The ledger with a transaction of a purchase it has none of, or of the
\* user's own.
LEMMA StillSingle ==
    ASSUME NEW ledger, Single(ledger), NEW t,
           t.by = "user" \/ \A u \in ledger : u.what # t.what
    PROVE  Single(ledger \cup {t})
BY DEF Single

\* A transaction is created for the candidate, with its evidence.
LEMMA CreatedEntered ==
    ASSUME NEW s, Sound(s), NEW c \in s.cand, c.status \in {"pending", "review"}, NEW by,
           by = "user" \/ \A u \in s.ledger : u.what # c.what
    PROVE  \E link :
             LET ledger == s.ledger \cup {[id |-> Key(c), what |-> c.what, by |-> by]} IN
             /\ Books(s, AddEvidence(NewTransaction(s, c, by), c, Key(c)), ledger, link)
             /\ Entered(s, c, "created", Key(c), ledger, link)
<1>1. PICK t : t = [id |-> Key(c), what |-> c.what, by |-> by]
  OBVIOUS
<1>2. PICK ledger : ledger = s.ledger \cup {t}
  OBVIOUS
<1>3. Books(s, NewTransaction(s, c, by), ledger, s.link)
  BY <1>1, <1>2, SoundParts, TransactionIsEntered
<1>4. t.id = Key(c) /\ t.what = c.what /\ t.by = by
  BY <1>1
<1>5. Single(ledger)
  BY <1>2, <1>4, StillSingle DEF Sound, Evidenced
<1>6. PICK more : /\ Books(s, AddEvidence(NewTransaction(s, c, by), c, Key(c)), ledger, more)
                  /\ WithEvidence(s.link, more, c, Key(c))
  BY <1>3, EvidenceIsAdded
<1>7. \E l \in more : l.tx = Key(c) /\ l.cand = Key(c)
  BY <1>6, NoneOfItsName DEF WithEvidence
<1>8. Entered(s, c, "created", Key(c), ledger, more)
  BY <1>2, <1>4, <1>5, <1>6, <1>7 DEF Entered, WithEvidence
<1> QED BY <1>1, <1>2, <1>6, <1>8

\* ReconcileBulkCandidate: matched, created, or left to the user.
LEMMA ReconcileCandidateIsSound ==
    ASSUME NEW s, Sound(s), NEW w, IsWork(w)
    PROVE  \/ Resolution(s, ReconcileCandidate(s, w).db)
           \/ ReconcileCandidate(s, w).db = s
<1> DEFINE found == {b \in s.cand : Key(b) = <<w.doc, w.gen, w.cut, w.n>>}
           c == CHOOSE k \in found : TRUE
           matches == Matches(s, c)
           t == CHOOSE k \in matches : TRUE
           finish(x, status, id) ==
               Then(PostProcessIfReady(Outcome(x, c, status, id), w), "succeeded")
           r == ReconcileCandidate(s, w)
<1>1. SUFFICES ASSUME found # {}, c.status = "pending" PROVE Resolution(s, r.db) \/ r.db = s
  <2>1. found = {} \/ c.status # "pending" => r.db = s
    BY DEF ReconcileCandidate, Then
  <2> QED BY <2>1
<1>2. c \in found
  BY <1>1
<1>3. c \in s.cand /\ Key(c) = <<w.doc, w.gen, w.cut, w.n>>
  BY <1>2
<1>4. w.doc = c.doc /\ w.gen = c.gen
  BY <1>3 DEF Key
<1>5. matches # {} => t \in matches
  OBVIOUS
<1>6. r = IF NeedsUser(c, matches) THEN finish(s, "review", None)
          ELSE IF matches # {}
               THEN IF EvidenceFree(s, c, t.id)
                    THEN finish(AddEvidence(s, c, t.id), "attached", t.id)
                    ELSE Then(s, "erred")
          ELSE finish(AddEvidence(NewTransaction(s, c, "auto"), c, Key(c)),
                      "created", Key(c))
  BY <1>1 DEF ReconcileCandidate
<1>7. \A x, status, id :
         finish(x, status, id).db = PostProcessIfReady(Outcome(x, c, status, id), w)
  BY DEF Then
<1>8. Then(s, "erred").db = s
  BY DEF Then
<1> HIDE DEF found, c, finish, r
<1>9. matches = {u \in s.ledger : u.what = c.what}
  BY DEF Matches
<1> HIDE DEF matches, t
<1>10. CASE r = finish(s, "review", None)
  <2>1. Books(s, s, s.ledger, s.link) /\ Entered(s, c, "review", None, s.ledger, s.link)
    BY SoundParts, TransactionIsEntered, NothingEntered
  <2> QED BY <1>1, <1>3, <1>4, <1>7, <1>10, <2>1, ResolvedIsSound
<1>11. CASE r = finish(AddEvidence(s, c, t.id), "attached", t.id)
            /\ matches # {} /\ EvidenceFree(s, c, t.id)
  <2>1. t \in s.ledger
    BY <1>5, <1>9, <1>11
  <2>2. PICK link : /\ Books(s, AddEvidence(s, c, t.id), s.ledger, link)
                    /\ Entered(s, c, "attached", t.id, s.ledger, link)
    BY <1>3, <1>11, <2>1, AttachedEntered
  <2> QED BY <1>1, <1>3, <1>4, <1>7, <1>11, <2>2, ResolvedIsSound
<1>12. CASE r = finish(AddEvidence(NewTransaction(s, c, "auto"), c, Key(c)),
                       "created", Key(c)) /\ matches = {}
  <2>1. \A u \in s.ledger : u.what # c.what
    BY <1>9, <1>12
  <2>2. PICK ledger : ledger = s.ledger \cup {[id |-> Key(c), what |-> c.what, by |-> "auto"]}
    OBVIOUS
  <2>3. PICK link :
          /\ Books(s, AddEvidence(NewTransaction(s, c, "auto"), c, Key(c)), ledger, link)
          /\ Entered(s, c, "created", Key(c), ledger, link)
    BY <1>1, <1>3, <2>1, <2>2, CreatedEntered
  <2> QED BY <1>1, <1>3, <1>4, <1>7, <1>12, <2>3, ResolvedIsSound
<1> QED BY <1>6, <1>8, <1>10, <1>11, <1>12

----------------------------------------------------------------------------
(* What the user resolves.                                                 *)

\* ResolveBulkCandidate puts a candidate that waits back in line.
LEMMA SetAccountIsSound ==
    ASSUME NEW s, Sound(s), NEW c \in s.cand, c.status \in {"pending", "review"}
    PROVE  Resolution(s, Resolved(Insert([s EXCEPT !.cand =
                                            (@ \ {c}) \cup {[c EXCEPT !.status = "pending"]}],
                                         Work("reconcile", c.doc, c.gen, c.cut, c.n)), c))
<1> DEFINE k == [c EXCEPT !.status = "pending"]
           cands == (s.cand \ {c}) \cup {k}
           x == [s EXCEPT !.cand = (@ \ {c}) \cup {[c EXCEPT !.status = "pending"]}]
           w == Work("reconcile", c.doc, c.gen, c.cut, c.n)
           y == Insert(x, w)
           p == [doc |-> c.doc, gen |-> c.gen]
           z == PostProcessIfReady(y, p)
<1>1. IsCandidate(c) /\ c.doc \in Documents /\ c.gen \in Generations /\ s.doc[c.doc].genuine
  BY CandidatesAreVetted
<1>2. IsCandidate(k) /\ Key(k) = Key(c) /\ k.status = "pending" /\ k.doc = c.doc
  BY <1>1, StruckRow DEF CandidateStatus
<1>3. x = [s EXCEPT !.cand = cands]
  OBVIOUS
<1>4. IsWork(w) /\ w.doc = c.doc
  BY <1>1, WorkParts DEF Kinds
<1>5. p.doc = c.doc /\ p.gen = c.gen
  OBVIOUS
<1> HIDE DEF k, x, w, p
<1>6. CandidatesFit(cands) /\ Evidenced(s.doc, cands, s.ledger, s.link)
  <2>1. CandidatesFit(s.cand) /\ Evidenced(s.doc, s.cand, s.ledger, s.link)
    BY DEF Sound, Shape
  <2>2. Single(s.ledger) /\ Onward(s.doc, s.doc) /\ k.status \notin {"created", "attached"}
    BY <1>2, SameDocuments DEF Sound, Evidenced
  <2> QED BY <1>2, <2>1, <2>2, SoundParts, ResolvedEvidence
<1>7. Becomes(s, x, s.batch, s.doc, s.chunk, cands, s.jobs)
  <2> HIDE DEF cands
  <2> QED BY <1>3, Replacing, SoundParts
<1>8. Vetted(s.doc, cands, s.jobs)
  BY <1>1, <1>2 DEF Sound, Vetted
<1> HIDE DEF cands
<1>9. Sound(x) /\ x.doc = s.doc /\ x.batch = s.batch
  <2>1. /\ IsDatabase(x) /\ x.batch = s.batch /\ x.doc = s.doc /\ x.chunk = s.chunk
        /\ x.cand = cands /\ x.jobs = s.jobs /\ x.ledger = s.ledger /\ x.link = s.link
    BY <1>7 DEF Becomes
  <2>2. Shape(x)
    BY <1>6, <2>1, SoundParts DEF Shape
  <2> QED BY <1>6, <1>8, <2>1, <2>2 DEF Sound
<1>10. Sound(y) /\ Becomes(x, y, x.batch, x.doc, x.chunk, x.cand, y.jobs)
  BY <1>1, <1>4, <1>9, InsertIsSound
<1> HIDE DEF y
<1>11. y.doc = s.doc /\ y.batch = s.batch
  BY <1>9, <1>10 DEF Becomes
<1>12. Sound(z) /\ Becomes(y, z, y.batch, y.doc, y.chunk, y.cand, z.jobs)
  BY <1>1, <1>5, <1>10, <1>11, EnqueueIsSound
<1> HIDE DEF z
<1>13. z.doc = s.doc /\ z.batch = s.batch
  BY <1>11, <1>12 DEF Becomes
<1>14. Resolution(s, z)
  BY <1>12, <1>13, SameDocuments, SameLegal DEF Resolution
<1> QED BY <1>14 DEF Resolved, z, y, x, w, p

\* ResolveBulkCandidate attaches a candidate to a transaction.
LEMMA AttachIsSound ==
    ASSUME NEW s, Sound(s), NEW c \in s.cand, c.status \in {"pending", "review"},
           NEW t \in s.ledger, EvidenceFree(s, c, t.id)
    PROVE  Resolution(s, Resolved(Outcome(AddEvidence(s, c, t.id), c, "attached", t.id), c))
<1>1. PICK link : /\ Books(s, AddEvidence(s, c, t.id), s.ledger, link)
                  /\ Entered(s, c, "attached", t.id, s.ledger, link)
  BY AttachedEntered
<1>2. PICK p : p = [doc |-> c.doc, gen |-> c.gen]
  OBVIOUS
<1>3. p.doc = c.doc /\ p.gen = c.gen
  BY <1>2
<1>4. Resolution(s, PostProcessIfReady(Outcome(AddEvidence(s, c, t.id), c, "attached", t.id), p))
  BY <1>1, <1>3, ResolvedIsSound
<1> QED BY <1>2, <1>4 DEF Resolved

\* ResolveBulkCandidate creates a transaction from it.
LEMMA CreateIsSound ==
    ASSUME NEW s, Sound(s), NEW c \in s.cand, c.status \in {"pending", "review"}
    PROVE  Resolution(s, Resolved(Outcome(AddEvidence(NewTransaction(s, c, "user"), c, Key(c)),
                                          c, "created", Key(c)), c))
<1>1. PICK ledger : ledger = s.ledger \cup {[id |-> Key(c), what |-> c.what, by |-> "user"]}
  OBVIOUS
<1>2. PICK link :
        /\ Books(s, AddEvidence(NewTransaction(s, c, "user"), c, Key(c)), ledger, link)
        /\ Entered(s, c, "created", Key(c), ledger, link)
  BY <1>1, CreatedEntered
<1>3. PICK p : p = [doc |-> c.doc, gen |-> c.gen]
  OBVIOUS
<1>4. p.doc = c.doc /\ p.gen = c.gen
  BY <1>3
<1>5. Resolution(s, PostProcessIfReady(
           Outcome(AddEvidence(NewTransaction(s, c, "user"), c, Key(c)), c, "created", Key(c)), p))
  BY <1>2, <1>4, ResolvedIsSound
<1> QED BY <1>3, <1>5 DEF Resolved

\* The credit leg of a transfer is not named after a candidate.
LEMMA CreditHasNoName ==
    ASSUME NEW c, NEW d, NEW t, t.id = Append(Key(c), "credit")
    PROVE  ~NamedAfter(t, d)
<1>1. Len(Append(Key(c), "credit")) = 5
  BY DEF Key
<1>2. ASSUME NamedAfter(t, d) PROVE Len(t.id) = 4
  <2>1. \A a, b, e : Len(<<d, a, b, e>>) = 4
    OBVIOUS
  <2>2. Len(<<d, t.id[2], t.id[3], t.id[4]>>) = 4
    BY <2>1
  <2> QED BY <1>2, <2>2, Zenon DEF NamedAfter
<1> QED BY <1>1, <1>2

\* ResolveBulkCandidate creates both legs of a transfer.
LEMMA CreateTransferIsSound ==
    ASSUME NEW s, Sound(s), NEW c \in s.cand, c.status \in {"pending", "review"}
    PROVE  LET credit == Append(Key(c), "credit")
               legs == [NewTransaction(s, c, "user") EXCEPT
                          !.ledger = @ \cup {[id |-> credit, what |-> None, by |-> "user"]}]
           IN  Resolution(s, Resolved(Outcome(AddEvidence(AddEvidence(legs, c, Key(c)), c, credit),
                                              c, "created", Key(c)), c))
<1> DEFINE credit == Append(Key(c), "credit")
           legs == [NewTransaction(s, c, "user") EXCEPT
                      !.ledger = @ \cup {[id |-> credit, what |-> None, by |-> "user"]}]
<1>1. PICK t : t = [id |-> Key(c), what |-> c.what, by |-> "user"]
  OBVIOUS
<1>2. PICK u : u = [id |-> credit, what |-> None, by |-> "user"]
  OBVIOUS
<1>3. t.id = Key(c) /\ t.by = "user" /\ u.id = credit /\ u.by = "user"
  BY <1>1, <1>2
<1>4. \A d \in Documents : ~NamedAfter(u, d)
  BY <1>3, CreditHasNoName
<1>5. PICK debit : debit = s.ledger \cup {t}
  OBVIOUS
<1>6. PICK ledger : ledger = debit \cup {u}
  OBVIOUS
<1>7. Books(s, NewTransaction(s, c, "user"), debit, s.link)
  BY <1>1, <1>5, SoundParts, TransactionIsEntered
<1>8. legs = [NewTransaction(s, c, "user") EXCEPT !.ledger = ledger]
  BY <1>2, <1>6, <1>7 DEF Books
<1> HIDE DEF credit, legs
<1>9. Books(s, legs, ledger, s.link)
  BY <1>7, <1>8, Entering
<1>10. Single(ledger)
  BY <1>3, <1>5, <1>6, StillSingle DEF Sound, Evidenced
<1>11. PICK first : /\ Books(s, AddEvidence(legs, c, Key(c)), ledger, first)
                    /\ WithEvidence(s.link, first, c, Key(c))
  BY <1>9, EvidenceIsAdded
<1>12. PICK more : /\ Books(s, AddEvidence(AddEvidence(legs, c, Key(c)), c, credit), ledger, more)
                   /\ WithEvidence(first, more, c, credit)
  BY <1>11, EvidenceIsAdded
<1>13. \E l \in first : l.tx = Key(c) /\ l.cand = Key(c)
  BY <1>11, NoneOfItsName DEF WithEvidence
<1>14. Entered(s, c, "created", Key(c), ledger, more)
  BY <1>3, <1>4, <1>5, <1>6, <1>10, <1>11, <1>12, <1>13 DEF Entered, WithEvidence
<1>15. PICK p : p = [doc |-> c.doc, gen |-> c.gen]
  OBVIOUS
<1>16. p.doc = c.doc /\ p.gen = c.gen
  BY <1>15
<1>17. PICK x : x = AddEvidence(AddEvidence(legs, c, Key(c)), c, credit)
  OBVIOUS
<1>18. Resolution(s, PostProcessIfReady(Outcome(x, c, "created", Key(c)), p))
  BY <1>12, <1>14, <1>16, <1>17, ResolvedIsSound
<1> QED BY <1>15, <1>17, <1>18 DEF Resolved, legs, credit

----------------------------------------------------------------------------
(* Transactions that drop or write candidates.                             *)

\* Candidates and evidence go together, and only where the document of a
\* candidate is deleted or cut anew.
Drops(doc, new, cand, left, ledger, ledger2, link, kept) ==
    /\ left \subseteq cand /\ ledger2 \subseteq ledger /\ kept \subseteq link
    /\ \A d \in Documents :
          /\ new[d].gen >= doc[d].gen /\ new[d].cut >= doc[d].cut
          /\ doc[d].status = "deleted" => new[d].status = "deleted"
    /\ \A c \in cand \ left : \/ new[c.doc].status = "deleted"
                              \/ new[c.doc].cut > doc[c.doc].cut
    /\ \A c \in left : \A l \in link : l.doc = c.doc /\ l.gen = c.gen => l \in kept
    /\ \A t \in ledger \ ledger2 : \A l \in kept : l.tx # t.id

\* What is left has its evidence.
LEMMA DroppedEvidence ==
    ASSUME NEW doc, NEW new, doc \in [Documents -> DocumentRow],
           new \in [Documents -> DocumentRow],
           NEW cand, NEW left, NEW ledger, NEW ledger2, NEW link, NEW kept,
           CandidatesFit(cand), Evidenced(doc, cand, ledger, link),
           Drops(doc, new, cand, left, ledger, ledger2, link, kept)
    PROVE  /\ CandidatesFit(left)
           /\ Evidenced(new, left, ledger2, kept)
<1> USE DEF Drops
<1>1. CandidatesFit(left)
  BY DEF CandidatesFit
<1>2. KeysFit(new, left)
  <2>1. ASSUME NEW a \in left, NEW b \in left, Key(a) = Key(b) PROVE a = b
    BY <2>1 DEF Evidenced, KeysFit
  <2>2. ASSUME NEW c \in left PROVE c.gen <= new[c.doc].gen /\ c.cut <= new[c.doc].cut
    <3>1. c.gen <= doc[c.doc].gen /\ c.cut <= doc[c.doc].cut /\ IsCandidate(c)
      BY DEF Evidenced, KeysFit, CandidatesFit
    <3>2. c.doc \in Documents /\ c.gen \in Nat /\ c.cut \in Nat
      BY <3>1 DEF IsCandidate, Generations
    <3>3. /\ doc[c.doc].gen \in Nat /\ doc[c.doc].cut \in Nat
          /\ new[c.doc].gen \in Nat /\ new[c.doc].cut \in Nat
      BY <3>2 DEF DocumentRow, Generations
    <3> QED BY <3>1, <3>2, <3>3
  <2> QED BY <2>1, <2>2 DEF KeysFit
<1>3. NamesFit(new, left, ledger2)
  <2> SUFFICES ASSUME NEW t \in ledger2, NEW d \in Documents, NamedAfter(t, d)
               PROVE  /\ t.id[2] \in Nat /\ t.id[2] <= new[d].gen
                      /\ t.id[3] \in Nat /\ t.id[3] <= new[d].cut
                      /\ \/ new[d].status = "deleted"
                         \/ t.id[2] # new[d].gen
                         \/ t.id[3] # new[d].cut
                         \/ \E b \in left : Key(b) = t.id
    BY DEF NamesFit
  <2>1. /\ t.id[2] \in Nat /\ t.id[2] <= doc[d].gen
        /\ t.id[3] \in Nat /\ t.id[3] <= doc[d].cut
        /\ \/ doc[d].status = "deleted"
           \/ t.id[2] # doc[d].gen
           \/ t.id[3] # doc[d].cut
           \/ \E b \in cand : Key(b) = t.id
    BY DEF Evidenced, NamesFit
  <2>2. /\ doc[d].gen \in Nat /\ doc[d].cut \in Nat
        /\ new[d].gen \in Nat /\ new[d].cut \in Nat
    BY DEF DocumentRow, Generations
  <2>3. new[d].gen >= doc[d].gen /\ new[d].cut >= doc[d].cut
        /\ (doc[d].status = "deleted" => new[d].status = "deleted")
    OBVIOUS
  <2>4. ASSUME NEW b \in cand, Key(b) = t.id
        PROVE  new[d].status = "deleted" \/ new[d].cut > doc[d].cut \/ b \in left
    <3>1. b.doc = d
      BY <2>4 DEF NamedAfter, Key
    <3> QED BY <3>1
  <2>5. t.id[2] <= new[d].gen /\ t.id[3] <= new[d].cut
    BY <2>1, <2>2, <2>3
  <2>6. CASE doc[d].status = "deleted"
    BY <2>1, <2>3, <2>5, <2>6
  <2>7. CASE t.id[2] # doc[d].gen
    BY <2>1, <2>2, <2>3, <2>5, <2>7
  <2>8. CASE t.id[3] # doc[d].cut
    BY <2>1, <2>2, <2>3, <2>5, <2>8
  <2>9. CASE \E b \in cand : Key(b) = t.id
    <3>1. PICK b \in cand : Key(b) = t.id
      BY <2>9
    <3>2. new[d].cut > doc[d].cut => t.id[3] # new[d].cut
      BY <2>1, <2>2
    <3> QED BY <2>1, <2>4, <2>5, <3>1, <3>2
  <2> QED BY <2>1, <2>6, <2>7, <2>8, <2>9
<1>4. OwnIsCreated(left, ledger2)
  BY DEF Evidenced, OwnIsCreated
<1>5. LinksFit(ledger2, kept)
  BY DEF Evidenced, LinksFit
<1>6. Settled(left, ledger2, kept)
  <2> SUFFICES ASSUME NEW c \in left, c.status \in {"created", "attached"}
               PROVE  /\ \E t \in ledger2 : t.id = c.tx
                      /\ \E l \in kept : l.tx = c.tx /\ l.cand = Key(c)
    BY DEF Settled
  <2>1. PICK l \in link : l.tx = c.tx /\ l.cand = Key(c)
    BY DEF Evidenced, Settled
  <2>2. l.cand = <<l.doc, l.gen, l.cand[3], l.cand[4]>>
    BY DEF Evidenced, LinksFit
  <2>3. l.doc = c.doc /\ l.gen = c.gen
    BY <2>1, <2>2 DEF Key
  <2>4. l \in kept
    BY <2>3
  <2> QED BY <1>5, <2>1, <2>4 DEF LinksFit
<1>7. Single(ledger2)
  BY DEF Evidenced, Single
<1> QED BY <1>1, <1>2, <1>3, <1>4, <1>5, <1>6, <1>7 DEF Evidenced

\* A row that may still be worked on was worked on, or is past that.
LEMMA NotDone ==
    ASSUME NEW row, NEW new, DocumentLifecycle(row), DocumentLifecycle(new),
           row.status \in DocumentStatus, new.done = row.done,
           new.status \in Active, row.status \notin {"cancelled", "deleted"}
    PROVE  row.status \in Active
BY DEF DocumentLifecycle, DocumentStatus, Active, Finished

\* A database that is written table by table.
Written(s, x, doc, chunk, cand, jobs, link) ==
    /\ IsDatabase(x)
    /\ x.batch = s.batch /\ x.doc = doc /\ x.chunk = chunk
    /\ x.cand = cand /\ x.jobs = jobs /\ x.ledger = s.ledger /\ x.link = link

\* Writing another table.
LEMMA Writing ==
    ASSUME NEW s, NEW x, NEW doc, NEW chunk, NEW cand, NEW jobs, NEW link,
           Written(s, x, doc, chunk, cand, jobs, link), NEW v
    PROVE  /\ Written(s, [x EXCEPT !.doc = v], v, chunk, cand, jobs, link)
           /\ Written(s, [x EXCEPT !.chunk = v], doc, v, cand, jobs, link)
           /\ Written(s, [x EXCEPT !.cand = v], doc, chunk, v, jobs, link)
           /\ Written(s, [x EXCEPT !.jobs = v], doc, chunk, cand, v, link)
           /\ Written(s, [x EXCEPT !.link = v], doc, chunk, cand, jobs, v)
<1>1. Written(s, [x EXCEPT !.doc = v], v, chunk, cand, jobs, link)
  BY DEF Written, IsDatabase
<1>2. Written(s, [x EXCEPT !.chunk = v], doc, v, cand, jobs, link)
  BY DEF Written, IsDatabase
<1>3. Written(s, [x EXCEPT !.cand = v], doc, chunk, v, jobs, link)
  BY DEF Written, IsDatabase
<1>4. Written(s, [x EXCEPT !.jobs = v], doc, chunk, cand, v, link)
  BY DEF Written, IsDatabase
<1>5. Written(s, [x EXCEPT !.link = v], doc, chunk, cand, jobs, v)
  BY DEF Written, IsDatabase
<1> QED BY <1>1, <1>2, <1>3, <1>4, <1>5

\* The image of a finite set under a function is finite.
LEMMA ImageIsFinite ==
    ASSUME NEW S, IsFiniteSet(S), NEW f, f = [x \in S |-> f[x]]
    PROVE  IsFiniteSet({f[x] : x \in S})
<1> DEFINE T == {f[x] : x \in S}
<1>1. f \in Surjection(S, T)
  BY DEF Surjection
<1> HIDE DEF T
<1> QED BY <1>1, FS_Surjection DEF T

\* The parse jobs of a new cut.
ChunkJobs(d, g, cut) == {Queued(Work("chunk", d, g, cut, i)) : i \in 1..Chunks}

\* They are in the place of those of the cut before.
LEMMA ChunkJobsFit ==
    ASSUME NEW d \in Documents, NEW g \in Generations, NEW cut, NEW jobs, JobsFit(jobs),
           \A j \in jobs : ~(j.doc = d /\ j.gen = g /\ j.kind = "chunk")
    PROVE  /\ JobsFit(jobs \cup ChunkJobs(d, g, cut))
           /\ \A j \in jobs \cup ChunkJobs(d, g, cut) : j \in jobs \/ j.doc = d
<1> DEFINE task(i) == Work("chunk", d, g, cut, i)
           more == {Queued(task(i)) : i \in 1..Chunks}
<1>1. ASSUME NEW i \in 1..Chunks
      PROVE  /\ IsWork(task(i)) /\ task(i).n = i
             /\ IsJob(Queued(task(i))) /\ WorkOf(Queued(task(i))) = task(i)
             /\ Queued(task(i)).doc = d
  <2>1. IsWork(task(i)) /\ task(i).n = i /\ task(i).doc = d
    BY WorkParts DEF Kinds
  <2> QED BY <2>1, QueuedParts
<1>2. IsFiniteSet(more)
  <2>1. IsFiniteSet(1..Chunks)
    BY FS_Interval, SizesAssumption
  <2> DEFINE f == [i \in 1..Chunks |-> Queued(task(i))]
  <2>2. f = [i \in 1..Chunks |-> f[i]]
    OBVIOUS
  <2>3. more = {f[i] : i \in 1..Chunks}
    OBVIOUS
  <2> HIDE DEF f, more
  <2> QED BY <2>1, <2>2, <2>3, ImageIsFinite
<1>3. \A j \in more : IsJob(j) /\ j.doc = d
  BY <1>1
<1>4. \A j, k \in more : WorkOf(j) = WorkOf(k) => j = k
  BY <1>1
<1>5. ASSUME NEW j \in more, NEW k \in jobs PROVE WorkOf(j) # WorkOf(k)
  <2>1. PICK i \in 1..Chunks : j = Queued(task(i))
    OBVIOUS
  <2>2. WorkOf(j) = task(i)
    BY <1>1, <2>1
  <2>3. task(i).kind = "chunk" /\ task(i).doc = d /\ task(i).gen = g
    BY WorkParts DEF Kinds
  <2>4. WorkOf(k).kind = k.kind /\ WorkOf(k).doc = k.doc /\ WorkOf(k).gen = k.gen
    BY JobParts DEF JobsFit
  <2> HIDE DEF more, task
  <2> QED BY <2>2, <2>3, <2>4
<1> HIDE DEF more
<1>6. JobsFit(jobs \cup more)
  BY <1>2, <1>3, <1>4, <1>5, MoreJobs
<1>7. \A j \in jobs \cup more : j \in jobs \/ j.doc = d
  BY <1>3
<1>8. ChunkJobs(d, g, cut) = more
  BY DEF more, ChunkJobs
<1> QED BY <1>6, <1>7, <1>8

\* A document that is cut anew.
Recut(s, y, w) ==
    /\ s.doc[w.doc].status # "deleted"
    /\ y.doc[w.doc].status = "parsing"
    /\ y.doc[w.doc].gen = s.doc[w.doc].gen
    /\ y.doc[w.doc].cut = s.doc[w.doc].cut + 1
    /\ \A e \in Documents : e # w.doc => y.doc[e] = s.doc[e] /\ y.chunk[e] = s.chunk[e]
    /\ \A i \in 1..Chunks : y.chunk[w.doc][w.gen][i] = [status |-> "queued", answer |-> None]
    /\ y.cand = {c \in s.cand : ~(c.doc = w.doc /\ c.gen = w.gen)}
    /\ y.jobs = {j \in s.jobs : ~(/\ j.doc = w.doc /\ j.gen = w.gen
                                  /\ j.kind \in {"chunk", "reconcile"})}
                \cup ChunkJobs(w.doc, w.gen, s.doc[w.doc].cut + 1)

\* RecordPrepared cuts the document anew, in a document at work.
LEMMA RecordPreparedFollows ==
    ASSUME NEW s, Sound(s), Legal(s), NEW w, IsWork(w), s.doc[w.doc].genuine,
           Legal(RecordPrepared(s, w).db)
    PROVE  /\ Sound(RecordPrepared(s, w).db)
           /\ Follows(s, RecordPrepared(s, w).db)
           /\ RecordPrepared(s, w).db = s \/ Recut(s, RecordPrepared(s, w).db, w)
<1> DEFINE r == RecordPrepared(s, w)
           d == w.doc
           g == w.gen
           cut == s.doc[d].cut + 1
           none == [i \in 1..Chunks |-> [status |-> "absent", answer |-> None]]
           rows == [i \in 1..Chunks |-> [status |-> "queued", answer |-> None]]
           bare == [s.chunk EXCEPT ![d][g] = none]
           chunk == [bare EXCEPT ![d][g] = rows]
           left == {c \in s.cand : ~(c.doc = d /\ c.gen = g)}
           kept == {l \in s.link : ~(l.doc = d /\ l.gen = g)}
           rest == {j \in s.jobs : ~(j.doc = d /\ j.gen = g /\ j.kind \in {"chunk", "reconcile"})}
           more == ChunkJobs(d, g, cut)
           row == [s.doc[d] EXCEPT !.status = "parsing", !.files = TRUE, !.cut = cut]
           doc == [s.doc EXCEPT ![d] = row]
           fresh == [s EXCEPT !.chunk = bare, !.cand = left, !.link = kept, !.jobs = rest]
           x == [fresh EXCEPT !.doc = doc, !.chunk = chunk, !.jobs = rest \cup more]
<1>1. d \in Documents /\ g \in Generations /\ s.doc[d] \in DocumentRow /\ IsDatabase(s)
  BY SoundParts DEF IsWork
<1>2. SUFFICES ASSUME s.doc[d].status \notin {"deleted", "cancelled"}, s.doc[d].gen = g, r.db = x,
                      Legal(x)
               PROVE  Sound(x) /\ Follows(s, x) /\ Recut(s, x, w)
  <2>1. DropChunks(s, d, g) = fresh
    BY DEF DropChunks
  <2>2. \/ r.db = s
        \/ /\ IsCurrent(s, w) /\ s.doc[d].status # "cancelled"
           /\ r.db = [fresh EXCEPT
                    !.doc[w.doc] = [@ EXCEPT !.status = "parsing", !.files = TRUE,
                                             !.cut = cut],
                    !.chunk[w.doc][w.gen] =
                       [i \in 1..Chunks |-> [status |-> "queued", answer |-> None]],
                    !.jobs = @ \cup more]
    BY <2>1 DEF RecordPrepared, Then, ChunkJobs
  <2>3. fresh.doc = s.doc /\ fresh.chunk = bare /\ fresh.jobs = rest
    BY <1>1 DEF IsDatabase
  <2>4. Advances(s, s) /\ Follows(s, s)
    BY Itself DEF Advances, Onward, RowOnward, Follows
  <2> HIDE DEF fresh, rest, bare, r
  <2>5. r.db = s \/ (IsCurrent(s, w) /\ s.doc[d].status # "cancelled" /\ r.db = x)
    BY <2>2, <2>3
  <2> QED BY <1>2, <2>4, <2>5 DEF IsCurrent, r
<1>3. /\ row \in DocumentRow
      /\ row.status = "parsing" /\ row.gen = s.doc[d].gen /\ row.cut = s.doc[d].cut + 1
      /\ row.genuine = s.doc[d].genuine /\ row.done = s.doc[d].done
  <2>1. s.doc[d].cut \in Nat /\ cut \in Nat /\ "parsing" \in DocumentStatus
    BY <1>1 DEF DocumentRow, DocumentStatus, Active
  <2> QED BY <1>1, <2>1 DEF DocumentRow
<1> HIDE DEF row, r
<1>4. /\ doc \in [Documents -> DocumentRow] /\ doc[d] = row
      /\ \A e \in Documents : e # d => doc[e] = s.doc[e]
  BY <1>1, <1>3, OneDocument, SoundParts
<1> HIDE DEF doc, cut
<1>5. bare \in [Documents -> [Generations -> ChunkRows]]
      /\ chunk \in [Documents -> [Generations -> ChunkRows]]
  <2>1. none \in ChunkRows /\ rows \in ChunkRows
    BY DEF ChunkRows, ChunkRow, ChunkStatus
  <2>2. s.chunk \in [Documents -> [Generations -> ChunkRows]]
    BY SoundParts DEF ChunkRows
  <2> HIDE DEF none, rows
  <2>3. bare \in [Documents -> [Generations -> ChunkRows]]
    BY <1>1, <2>1, <2>2, OneCut
  <2> HIDE DEF bare
  <2> QED BY <1>1, <2>1, <2>3, OneCut
<1>16. /\ \A e \in Documents : e # d => chunk[e] = s.chunk[e]
       /\ \A i \in 1..Chunks : chunk[d][g][i] = [status |-> "queued", answer |-> None]
  <2>1. s.chunk \in [Documents -> [Generations -> ChunkRows]]
    BY SoundParts DEF ChunkRows
  <2> HIDE DEF none, rows
  <2>2. \A e \in Documents : e # d => bare[e] = s.chunk[e]
    BY <2>1
  <2> HIDE DEF bare
  <2>3. chunk[d][g] = rows /\ \A e \in Documents : e # d => chunk[e] = bare[e]
    BY <1>1, <1>5
  <2> HIDE DEF chunk
  <2>4. \A i \in 1..Chunks : rows[i] = [status |-> "queued", answer |-> None]
    BY DEF rows
  <2> QED BY <2>2, <2>3, <2>4
<1> HIDE DEF bare, chunk
<1>6. JobsFit(rest \cup more) /\ \A j \in rest \cup more : j \in s.jobs \/ j.doc = d
  <2>1. JobsFit(rest) /\ rest \subseteq s.jobs
    BY FewerJobs, SoundParts
  <2>2. \A j \in rest : ~(j.doc = d /\ j.gen = g /\ j.kind = "chunk")
    OBVIOUS
  <2> HIDE DEF rest
  <2>3. JobsFit(rest \cup more) /\ \A j \in rest \cup more : j \in rest \/ j.doc = d
    BY <1>1, <2>1, <2>2, ChunkJobsFit
  <2> QED BY <2>1, <2>3
<1>7. left \subseteq s.cand /\ kept \subseteq s.link
  OBVIOUS
<1>8. CandidatesFit(left) /\ Evidenced(doc, left, s.ledger, kept)
  <2>1. CandidatesFit(s.cand) /\ Evidenced(s.doc, s.cand, s.ledger, s.link)
    BY DEF Sound, Shape
  <2>2. ASSUME NEW e \in Documents
        PROVE  /\ doc[e].gen >= s.doc[e].gen /\ doc[e].cut >= s.doc[e].cut
               /\ s.doc[e].status = "deleted" => doc[e].status = "deleted"
    <3>1. s.doc[e].gen \in Nat /\ s.doc[e].cut \in Nat
      BY SoundParts DEF DocumentRow, Generations
    <3> QED BY <1>2, <1>3, <1>4, <3>1
  <2>3. \A c \in s.cand \ left : doc[c.doc].cut > s.doc[c.doc].cut
    <3>1. s.doc[d].cut \in Nat
      BY <1>1 DEF DocumentRow
    <3>2. doc[d].cut > s.doc[d].cut
      BY <1>3, <1>4, <3>1
    <3> QED BY <3>2
  <2>4. \A c \in left : \A l \in s.link : l.doc = c.doc /\ l.gen = c.gen => l \in kept
    OBVIOUS
  <2> HIDE DEF left, kept
  <2>5. Drops(s.doc, doc, s.cand, left, s.ledger, s.ledger, s.link, kept)
    BY <1>7, <2>2, <2>3, <2>4 DEF Drops
  <2> QED BY <1>4, <2>1, <2>5, SoundParts, DroppedEvidence
<1> HIDE DEF left, kept, rest, more
<1>9. Written(s, x, doc, chunk, left, rest \cup more, kept)
  <2>1. Written(s, s, s.doc, s.chunk, s.cand, s.jobs, s.link)
    BY <1>1 DEF Written
  <2>2. PICK a : a = [s EXCEPT !.chunk = bare]
    OBVIOUS
  <2>3. PICK b : b = [a EXCEPT !.cand = left]
    OBVIOUS
  <2>4. PICK e : e = [b EXCEPT !.link = kept]
    OBVIOUS
  <2>5. fresh = [e EXCEPT !.jobs = rest]
    BY <2>2, <2>3, <2>4
  <2> HIDE DEF fresh
  <2>6. Written(s, a, s.doc, bare, s.cand, s.jobs, s.link)
    BY <2>1, <2>2, Writing
  <2>7. Written(s, b, s.doc, bare, left, s.jobs, s.link)
    BY <2>3, <2>6, Writing
  <2>8. Written(s, e, s.doc, bare, left, s.jobs, kept)
    BY <2>4, <2>7, Writing
  <2>9. Written(s, fresh, s.doc, bare, left, rest, kept)
    BY <2>5, <2>8, Writing
  <2>10. PICK h : h = [fresh EXCEPT !.doc = doc]
    OBVIOUS
  <2>11. PICK k : k = [h EXCEPT !.chunk = chunk]
    OBVIOUS
  <2>12. PICK jobs : jobs = rest \cup more
    OBVIOUS
  <2>13. x = [k EXCEPT !.jobs = jobs]
    BY <2>10, <2>11, <2>12
  <2> HIDE DEF x
  <2>14. Written(s, h, doc, bare, left, rest, kept)
    BY <2>9, <2>10, Writing
  <2>15. Written(s, k, doc, chunk, left, rest, kept)
    BY <2>11, <2>14, Writing
  <2>16. Written(s, x, doc, chunk, left, jobs, kept)
    BY <2>13, <2>15, Writing
  <2> QED BY <2>12, <2>16
<1> HIDE DEF x
<1>10. /\ IsDatabase(x) /\ x.batch = s.batch /\ x.doc = doc /\ x.chunk = chunk
       /\ x.cand = left /\ x.jobs = rest \cup more /\ x.ledger = s.ledger /\ x.link = kept
  BY <1>9 DEF Written
<1>11. Shape(x)
  BY <1>4, <1>5, <1>6, <1>8, <1>10, SoundParts DEF Shape, ChunkRows
<1>12. Vetted(doc, left, rest \cup more)
  <2> SUFFICES ASSUME NEW e \in Documents, ~doc[e].genuine
               PROVE  /\ doc[e].status \in Unread
                      /\ \A j \in rest \cup more : j.doc = e => j.kind = "prepare"
                      /\ \A b \in left : b.doc # e
    BY DEF Vetted
  <2>1. e # d /\ doc[e] = s.doc[e]
    BY <1>3, <1>4
  <2> QED BY <1>6, <1>7, <2>1 DEF Sound, Vetted
<1>13. Sound(x)
  BY <1>8, <1>10, <1>11, <1>12 DEF Sound
<1>14. s.doc[d].status \in Active
  <2>1. DocumentLifecycle(s.doc[d]) /\ DocumentLifecycle(row)
    BY <1>1, <1>2, <1>4, <1>10 DEF Legal
  <2>2. s.doc[d].status \in DocumentStatus /\ row.status \in Active
    BY <1>1, <1>3 DEF DocumentRow, Active
  <2> QED BY <1>2, <1>3, <2>1, <2>2, NotDone
<1>15. Follows(s, x)
  <2>1. ASSUME NEW e \in Documents
        PROVE  /\ doc[e].gen = s.doc[e].gen
               /\ doc[e].genuine = s.doc[e].genuine
               /\ s.doc[e].status \in Finished => doc[e].status = s.doc[e].status
               /\ doc[e].status \in Active => s.doc[e].status \in Active
    BY <1>3, <1>4, <1>14 DEF Active, Finished
  <2> QED BY <1>10, <2>1 DEF Follows, Accounted
<1>17. Recut(s, x, w)
  BY <1>2, <1>3, <1>4, <1>10, <1>16 DEF Recut, left, rest, more, cut
<1> QED BY <1>13, <1>15, <1>17

\* The answers of a document are finitely many.
LEMMA RecordsAreFinite ==
    ASSUME NEW chunks
    PROVE  IsFiniteSet(DOMAIN Records(chunks))
<1> DEFINE valid == {k \in 1..Chunks : chunks[k].status = "valid" /\ chunks[k].answer # None}
           at(i) == CHOOSE k \in valid : Cardinality({m \in valid : m <= k}) = i
<1>1. IsFiniteSet(1..Chunks) /\ valid \subseteq 1..Chunks
  BY FS_Interval, SizesAssumption
<1>2. Records(chunks) = [i \in 1..Cardinality(valid) |-> chunks[at(i)].answer]
  BY DEF Records
<1> HIDE DEF at, valid
<1>3. IsFiniteSet(valid)
  BY <1>1, FS_Subset
<1>4. Cardinality(valid) \in Nat
  BY <1>3, FS_CardinalityType
<1>5. IsFiniteSet(1..Cardinality(valid))
  BY <1>4, FS_Interval
<1>6. DOMAIN Records(chunks) = 1..Cardinality(valid)
  BY <1>2
<1> QED BY <1>5, <1>6

\* The reconcile jobs of some records.
ReconcileJobs(d, g, cut, some) == {Queued(Work("reconcile", d, g, cut, i)) : i \in some}

\* They join the jobs of the document, where there is none for the record.
LEMMA ReconcileJobsFit ==
    ASSUME NEW d \in Documents, NEW g \in Generations, NEW cut, NEW some, IsFiniteSet(some),
           NEW jobs, JobsFit(jobs),
           \A i \in some : \A j \in jobs : WorkOf(j) # Work("reconcile", d, g, cut, i)
    PROVE  /\ JobsFit(jobs \cup ReconcileJobs(d, g, cut, some))
           /\ \A j \in jobs \cup ReconcileJobs(d, g, cut, some) : j \in jobs \/ j.doc = d
<1> DEFINE task(i) == Work("reconcile", d, g, cut, i)
           more == ReconcileJobs(d, g, cut, some)
           f == [i \in some |-> Queued(task(i))]
<1>1. ASSUME NEW i \in some
      PROVE  /\ IsWork(task(i)) /\ task(i).n = i
             /\ IsJob(Queued(task(i))) /\ WorkOf(Queued(task(i))) = task(i)
             /\ Queued(task(i)).doc = d
  <2>1. IsWork(task(i)) /\ task(i).n = i /\ task(i).doc = d
    BY WorkParts DEF Kinds
  <2> QED BY <2>1, QueuedParts
<1>2. more = {Queued(task(i)) : i \in some}
  BY DEF ReconcileJobs
<1>3. IsFiniteSet(more)
  <2>1. f = [i \in some |-> f[i]]
    OBVIOUS
  <2>2. more = {f[i] : i \in some}
    BY <1>2
  <2> HIDE DEF f, more
  <2> QED BY <2>1, <2>2, ImageIsFinite
<1> HIDE DEF more, f
<1>4. \A j \in more : IsJob(j) /\ j.doc = d
  BY <1>1, <1>2
<1>5. \A j, k \in more : WorkOf(j) = WorkOf(k) => j = k
  BY <1>1, <1>2
<1>6. ASSUME NEW j \in more, NEW k \in jobs PROVE WorkOf(j) # WorkOf(k)
  <2>1. PICK i \in some : j = Queued(task(i))
    BY <1>2
  <2>2. WorkOf(j) = task(i)
    BY <1>1, <2>1
  <2> QED BY <2>2
<1>7. JobsFit(jobs \cup more)
  BY <1>3, <1>4, <1>5, <1>6, MoreJobs
<1>8. \A j \in jobs \cup more : j \in jobs \/ j.doc = d
  BY <1>4
<1> QED BY <1>7, <1>8 DEF more

\* New candidates of the present cut of a document that is not deleted, under
\* numbers of their own, disturb no evidence.
LEMMA ReadEvidence ==
    ASSUME NEW doc \in [Documents -> DocumentRow], NEW new \in [Documents -> DocumentRow],
           NEW cand, NEW more, NEW ledger, NEW link,
           CandidatesFit(cand), Evidenced(doc, cand, ledger, link),
           \A d \in Documents : /\ new[d].gen = doc[d].gen /\ new[d].cut = doc[d].cut
                                /\ doc[d].status = "deleted" => new[d].status = "deleted",
           NEW d \in Documents, doc[d].status # "deleted",
           \A c \in more : /\ IsCandidate(c)
                           /\ c.doc = d /\ c.gen = doc[d].gen /\ c.cut = doc[d].cut
                           /\ c.status \in {"pending", "duplicate"},
           \A c, k \in more : c.n = k.n => c = k,
           \A c \in more : \A k \in cand : k.doc = d /\ k.gen = doc[d].gen => k.n # c.n
    PROVE  /\ CandidatesFit(cand \cup more)
           /\ Evidenced(new, cand \cup more, ledger, link)
<1>1. CandidatesFit(cand \cup more)
  BY DEF CandidatesFit
<1>2. ASSUME NEW c \in more, NEW k \in cand PROVE Key(c) # Key(k)
  BY SameKey
<1>3. KeysFit(new, cand \cup more)
  <2>1. ASSUME NEW a \in cand \cup more, NEW b \in cand \cup more, Key(a) = Key(b)
        PROVE  a = b
    <3>1. CASE a \in cand /\ b \in cand
      BY <2>1, <3>1 DEF Evidenced, KeysFit
    <3>2. CASE a \in more /\ b \in more
      BY <2>1, <3>2, SameKey
    <3> QED BY <1>2, <2>1, <3>1, <3>2
  <2>2. ASSUME NEW c \in cand \cup more PROVE c.gen <= new[c.doc].gen /\ c.cut <= new[c.doc].cut
    <3>1. c.doc \in Documents
      BY <1>1 DEF CandidatesFit, IsCandidate
    <3>2. doc[c.doc].gen \in Nat /\ doc[c.doc].cut \in Nat
      BY <3>1 DEF DocumentRow, Generations
    <3>3. c.gen <= doc[c.doc].gen /\ c.cut <= doc[c.doc].cut
      BY <3>2 DEF Evidenced, KeysFit
    <3> QED BY <3>1, <3>3
  <2> QED BY <2>1, <2>2 DEF KeysFit
<1>4. NamesFit(new, cand \cup more, ledger)
  <2> SUFFICES ASSUME NEW t \in ledger, NEW e \in Documents, NamedAfter(t, e)
               PROVE  /\ t.id[2] \in Nat /\ t.id[2] <= new[e].gen
                      /\ t.id[3] \in Nat /\ t.id[3] <= new[e].cut
                      /\ \/ new[e].status = "deleted"
                         \/ t.id[2] # new[e].gen
                         \/ t.id[3] # new[e].cut
                         \/ \E b \in cand \cup more : Key(b) = t.id
    BY DEF NamesFit
  <2>1. /\ t.id[2] \in Nat /\ t.id[2] <= doc[e].gen
        /\ t.id[3] \in Nat /\ t.id[3] <= doc[e].cut
        /\ \/ doc[e].status = "deleted"
           \/ t.id[2] # doc[e].gen
           \/ t.id[3] # doc[e].cut
           \/ \E b \in cand : Key(b) = t.id
    BY DEF Evidenced, NamesFit
  <2> QED BY <2>1
<1>5. OwnIsCreated(cand \cup more, ledger)
  <2> SUFFICES ASSUME NEW t \in ledger, NEW c \in more, t.id = Key(c) PROVE FALSE
    BY DEF Evidenced, OwnIsCreated
  <2>1. NamedAfter(t, d) /\ t.id[2] = doc[d].gen /\ t.id[3] = doc[d].cut
    <3>1. c.doc = d /\ c.gen = doc[d].gen /\ c.cut = doc[d].cut
      OBVIOUS
    <3>2. t.id = <<d, doc[d].gen, doc[d].cut, c.n>>
      BY <3>1 DEF Key
    <3> QED BY <3>2 DEF NamedAfter
  <2>2. \E b \in cand : Key(b) = t.id
    BY <2>1 DEF Evidenced, NamesFit
  <2> QED BY <1>2, <2>2
<1>6. Settled(cand \cup more, ledger, link)
  BY DEF Evidenced, Settled
<1> QED BY <1>1, <1>3, <1>4, <1>5, <1>6 DEF Evidenced

\* The records of a document for which there is no candidate.
Missing(s, w) ==
    {i \in DOMAIN Records(ChunksOf(s, w)) :
       \A c \in s.cand : c.doc = w.doc /\ c.gen = w.gen => c.n # i}

\* A document of which the records are gathered.
Gathered(s, y, w) ==
    /\ s.doc[w.doc].status # "deleted"
    /\ y.doc[w.doc].status = "reconciling"
    /\ y.doc[w.doc].gen = s.doc[w.doc].gen
    /\ y.doc[w.doc].cut = s.doc[w.doc].cut
    /\ \A e \in Documents : e # w.doc => y.doc[e] = s.doc[e]
    /\ y.chunk = s.chunk
    /\ s.cand \subseteq y.cand
    /\ \A c \in y.cand : c \in s.cand \/ c.doc = w.doc
    /\ \A i \in Missing(s, w) : \E c \in y.cand :
          c.doc = w.doc /\ c.what = Records(ChunksOf(s, w))[i].what
    /\ s.jobs \subseteq y.jobs
    /\ \A j \in y.jobs : \/ j \in s.jobs
                          \/ /\ j.status = "queued" /\ j.kind \in {"reconcile", "post"}
                             /\ j.doc = w.doc /\ j.gen = w.gen

\* AggregateDocument makes candidates of what was read, in a document at work.
LEMMA AggregateDocumentFollows ==
    ASSUME NEW s, Sound(s), Legal(s), NEW w, IsWork(w), s.doc[w.doc].genuine,
           Legal(AggregateDocument(s, w).db)
    PROVE  /\ Sound(AggregateDocument(s, w).db)
           /\ Follows(s, AggregateDocument(s, w).db)
           /\ AggregateDocument(s, w).db = s \/ Gathered(s, AggregateDocument(s, w).db, w)
<1> DEFINE r == AggregateDocument(s, w)
           d == w.doc
           g == w.gen
           cut == s.doc[d].cut
           chunks == ChunksOf(s, w)
           records == Records(chunks)
           single == {i \in DOMAIN records : ~IsDuplicate(records, i)}
           known == {c \in s.cand : c.doc = d /\ c.gen = g}
           missing == {i \in DOMAIN records : \A c \in known : c.n # i}
           new(i) == [doc |-> d, gen |-> g, cut |-> cut, n |-> i,
                      what |-> records[i].what, doubts |-> records[i].doubts,
                      status |-> IF i \in single THEN "pending" ELSE "duplicate",
                      tx |-> None]
           some == {k \in single : \A j \in s.jobs : WorkOf(j) # Work("reconcile", d, g, cut, k)}
           more == {new(i) : i \in missing}
           jobs == s.jobs \cup ReconcileJobs(d, g, cut, some)
           cand == s.cand \cup more
           errors == \E i \in 1..Chunks : chunks[i].status = "failed"
           row == [s.doc[d] EXCEPT !.status = "reconciling", !.errors = errors]
           doc == [s.doc EXCEPT ![d] = row]
           x == [s EXCEPT !.cand = cand, !.jobs = jobs, !.doc = doc]
           p == Work("post", d, g, 0, 0)
<1>1. d \in Documents /\ g \in Generations /\ s.doc[d] \in DocumentRow /\ IsDatabase(s)
  BY SoundParts DEF IsWork
<1>2. IsWork(p) /\ p.doc = d
  BY <1>1, WorkParts DEF Kinds
<1>3. \/ r.db = s
      \/ /\ r.db = x \/ r.db = Insert(x, p)
         /\ s.doc[d].gen = g
         /\ s.doc[d].status \notin {"deleted", "cancelled", "failed"}
  BY DEF AggregateDocument, Then, IsCurrent, ReconcileJobs
<1>4. Sound(s) /\ Follows(s, s)
  BY Itself DEF Advances, Onward, RowOnward, Follows
<1> HIDE DEF r
<1>5. SUFFICES ASSUME r.db = x \/ r.db = Insert(x, p), s.doc[d].gen = g, Legal(r.db),
                      s.doc[d].status \notin {"deleted", "cancelled", "failed"}
               PROVE  Sound(r.db) /\ Follows(s, r.db) /\ Gathered(s, r.db, w)
  BY <1>3, <1>4 DEF r
<1>6. /\ row \in DocumentRow
      /\ row.status = "reconciling" /\ row.gen = s.doc[d].gen /\ row.cut = s.doc[d].cut
      /\ row.genuine = s.doc[d].genuine /\ row.done = s.doc[d].done
  <2>1. errors \in BOOLEAN
    OBVIOUS
  <2> HIDE DEF errors
  <2>2. "reconciling" \in DocumentStatus
    BY DEF DocumentStatus, Active
  <2> QED BY <1>1, <2>1, <2>2 DEF DocumentRow
<1> HIDE DEF row
<1>7. /\ doc \in [Documents -> DocumentRow] /\ doc[d] = row
      /\ \A e \in Documents : e # d => doc[e] = s.doc[e]
  BY <1>1, <1>6, OneDocument, SoundParts
<1> HIDE DEF doc
<1>8. JobsFit(jobs) /\ \A j \in jobs : j \in s.jobs \/ j.doc = d
  <2>1. IsFiniteSet(DOMAIN records)
    BY RecordsAreFinite
  <2>2. some \subseteq DOMAIN records
    OBVIOUS
  <2>3. IsFiniteSet(some)
    <3> HIDE DEF some, records
    <3> QED BY <2>1, <2>2, FS_Subset
  <2>4. \A i \in some : \A j \in s.jobs : WorkOf(j) # Work("reconcile", d, g, cut, i)
    OBVIOUS
  <2> HIDE DEF some, cut
  <2> QED BY <1>1, <2>3, <2>4, SoundParts, ReconcileJobsFit
<1>21. \A j \in jobs : j \in s.jobs \/ (j.status = "queued" /\ j.kind = "reconcile"
                                       /\ j.doc = d /\ j.gen = g)
  BY DEF ReconcileJobs, Queued, Work
<1> HIDE DEF jobs
<1>9. \A c \in more : \E i \in missing : c = new(i)
  OBVIOUS
<1>10. \A i : /\ IsCandidate(new(i))
              /\ new(i).doc = d /\ new(i).gen = g /\ new(i).cut = cut /\ new(i).n = i
              /\ new(i).status \in {"pending", "duplicate"}
  <2>1. cut \in Nat
    BY <1>1 DEF DocumentRow
  <2> QED BY <1>1, <2>1 DEF IsCandidate, CandidateStatus
<1>11. CandidatesFit(cand) /\ Evidenced(doc, cand, s.ledger, s.link)
  <2>1. CandidatesFit(s.cand) /\ Evidenced(s.doc, s.cand, s.ledger, s.link)
    BY DEF Sound, Shape
  <2>2. \A c \in more : /\ IsCandidate(c)
                        /\ c.doc = d /\ c.gen = s.doc[d].gen /\ c.cut = s.doc[d].cut
                        /\ c.status \in {"pending", "duplicate"}
    <3> HIDE DEF new, more, missing
    <3> QED BY <1>5, <1>9, <1>10 DEF cut
  <2>3. \A c, k \in more : c.n = k.n => c = k
    <3> HIDE DEF new, more, missing
    <3> QED BY <1>9, <1>10
  <2>4. \A c \in more : \A k \in s.cand : k.doc = d /\ k.gen = s.doc[d].gen => k.n # c.n
    <3>1. \A i \in missing : \A k \in s.cand : k.doc = d /\ k.gen = g => k.n # i
      OBVIOUS
    <3> HIDE DEF new, more, missing
    <3> QED BY <1>5, <1>9, <1>10, <3>1
  <2>5. \A e \in Documents : /\ doc[e].gen = s.doc[e].gen /\ doc[e].cut = s.doc[e].cut
                             /\ s.doc[e].status = "deleted" => doc[e].status = "deleted"
    BY <1>5, <1>6, <1>7
  <2>6. s.doc[d].status # "deleted"
    BY <1>5
  <2>7. s.doc \in [Documents -> DocumentRow] /\ doc \in [Documents -> DocumentRow]
    BY <1>7, SoundParts
  <2>8. d \in Documents
    BY <1>1
  <2> HIDE DEF more, cut, g, d
  <2> QED BY <2>1, <2>2, <2>3, <2>4, <2>5, <2>6, <2>7, <2>8, ReadEvidence, Zenon
<1>12. \A c \in cand : c \in s.cand \/ c.doc = d
  <2> HIDE DEF new, missing
  <2> QED BY <1>9, <1>10
<1>22. \A i \in Missing(s, w) : \E c \in cand : c.doc = d /\ c.what = records[i].what
  <2> SUFFICES ASSUME NEW i \in Missing(s, w)
               PROVE  \E c \in cand : c.doc = d /\ c.what = records[i].what
    OBVIOUS
  <2>1. i \in missing
    BY DEF Missing
  <2>2. new(i) \in cand /\ new(i).doc = d /\ new(i).what = records[i].what
    BY <2>1
  <2> HIDE DEF new, cand
  <2> QED BY <2>2
<1>23. s.cand \subseteq cand
  OBVIOUS
<1> HIDE DEF cand, cut
<1>13. Written(s, x, doc, s.chunk, cand, jobs, s.link)
  <2>1. Written(s, s, s.doc, s.chunk, s.cand, s.jobs, s.link)
    BY <1>1 DEF Written
  <2>2. PICK a : a = [s EXCEPT !.cand = cand]
    OBVIOUS
  <2>3. PICK b : b = [a EXCEPT !.jobs = jobs]
    OBVIOUS
  <2>4. x = [b EXCEPT !.doc = doc]
    BY <2>2, <2>3
  <2> HIDE DEF x
  <2>5. Written(s, a, s.doc, s.chunk, cand, s.jobs, s.link)
    BY <2>1, <2>2, Writing
  <2>6. Written(s, b, s.doc, s.chunk, cand, jobs, s.link)
    BY <2>3, <2>5, Writing
  <2> QED BY <2>4, <2>6, Writing
<1> HIDE DEF x
<1>14. /\ IsDatabase(x) /\ x.batch = s.batch /\ x.doc = doc /\ x.chunk = s.chunk
       /\ x.cand = cand /\ x.jobs = jobs /\ x.ledger = s.ledger /\ x.link = s.link
  BY <1>13 DEF Written
<1>15. Shape(x)
  BY <1>7, <1>8, <1>11, <1>14, SoundParts DEF Shape
<1>16. Vetted(doc, cand, jobs)
  <2> SUFFICES ASSUME NEW e \in Documents, ~doc[e].genuine
               PROVE  /\ doc[e].status \in Unread
                      /\ \A j \in jobs : j.doc = e => j.kind = "prepare"
                      /\ \A b \in cand : b.doc # e
    BY DEF Vetted
  <2>1. e # d /\ doc[e] = s.doc[e]
    BY <1>6, <1>7
  <2> QED BY <1>8, <1>12, <2>1 DEF Sound, Vetted
<1>17. Sound(x) /\ x.doc[d].genuine
  BY <1>6, <1>7, <1>11, <1>14, <1>15, <1>16 DEF Sound
<1>24. /\ Queued(p).status = "queued" /\ Queued(p).kind = "post"
       /\ Queued(p).doc = d /\ Queued(p).gen = g
  BY DEF Queued, Work
<1> HIDE DEF p
<1>18. /\ Sound(r.db) /\ r.db.doc = doc /\ r.db.batch = s.batch
       /\ r.db.chunk = s.chunk /\ r.db.cand = cand /\ jobs \subseteq r.db.jobs
       /\ \A j \in r.db.jobs : j \in jobs \/ j = Queued(p)
  <2>1. CASE r.db = x
    BY <1>14, <1>17, <2>1
  <2>2. CASE r.db = Insert(x, p)
    <3>1. /\ Sound(Insert(x, p))
          /\ Becomes(x, Insert(x, p), x.batch, x.doc, x.chunk, x.cand, Insert(x, p).jobs)
      BY <1>2, <1>17, InsertIsSound
    <3>2. /\ Insert(x, p).doc = doc /\ Insert(x, p).batch = s.batch
          /\ Insert(x, p).chunk = s.chunk /\ Insert(x, p).cand = cand
      BY <1>14, <3>1 DEF Becomes
    <3>3. Insert(x, p).jobs \in {jobs, jobs \cup {Queued(p)}}
      <4>1. Insert(x, p) \in {x, [x EXCEPT !.jobs = jobs \cup {Queued(p)}]}
        BY <1>14 DEF Insert
      <4>2. [x EXCEPT !.jobs = jobs \cup {Queued(p)}].jobs = jobs \cup {Queued(p)}
        BY <1>14 DEF IsDatabase
      <4> QED BY <1>14, <4>1, <4>2
    <3> QED BY <2>2, <3>1, <3>2, <3>3
  <2> QED BY <1>5, <2>1, <2>2
<1>19. s.doc[d].status \in Active
  <2>1. DocumentLifecycle(s.doc[d]) /\ DocumentLifecycle(row)
    BY <1>1, <1>5, <1>7, <1>18 DEF Legal
  <2>2. s.doc[d].status \in DocumentStatus /\ row.status \in Active
    BY <1>1, <1>6 DEF DocumentRow, Active
  <2> QED BY <1>5, <1>6, <2>1, <2>2, NotDone
<1>20. Follows(s, r.db)
  <2>1. ASSUME NEW e \in Documents
        PROVE  /\ doc[e].gen = s.doc[e].gen
               /\ doc[e].genuine = s.doc[e].genuine
               /\ s.doc[e].status \in Finished => doc[e].status = s.doc[e].status
               /\ doc[e].status \in Active => s.doc[e].status \in Active
    BY <1>6, <1>7, <1>19 DEF Active, Finished
  <2> QED BY <1>18, <2>1 DEF Follows, Accounted
<1>25. \A j \in r.db.jobs : j \in s.jobs \/ (/\ j.status = "queued" /\ j.kind \in {"reconcile", "post"}
                                             /\ j.doc = d /\ j.gen = g)
  BY <1>18, <1>21, <1>24
<1>26. s.jobs \subseteq r.db.jobs
  BY <1>18 DEF jobs
<1>27. Gathered(s, r.db, w)
  BY <1>5, <1>6, <1>7, <1>12, <1>18, <1>22, <1>23, <1>25, <1>26 DEF Gathered, cut
<1> QED BY <1>18, <1>20, <1>27

----------------------------------------------------------------------------
(* The user's requests that change documents.                              *)

\* CancelBatch strikes what waits, or all that is at work.
LEMMA CancelBatchAdvances ==
    ASSUME NEW s, Sound(s),
           s.batch.status \in {"queued", "running", "cancelling", "cancelled"}
    PROVE  LET target == CancellationTarget(s)
               struck == IF target = "cancelled" THEN Active ELSE {"queued"}
               new == [s EXCEPT
                         !.batch = [@ EXCEPT !.status = target, !.done = (target = "cancelled")],
                         !.jobs = {j \in @ : j.status # "queued"},
                         !.doc = [d \in Documents |->
                                    IF @[d].status \in struck
                                    THEN [@[d] EXCEPT !.status = "cancelled", !.done = TRUE]
                                    ELSE @[d]]]
           IN  Sound(new) /\ Advances(s, new)
<1> DEFINE target == CancellationTarget(s)
           struck == IF target = "cancelled" THEN Active ELSE {"queued"}
           batch == [s.batch EXCEPT !.status = target, !.done = (target = "cancelled")]
           jobs == {j \in s.jobs : j.status # "queued"}
           P == {d \in Documents : s.doc[d].status \in struck}
           doc == [d \in Documents |-> IF d \in P
                     THEN [s.doc[d] EXCEPT !.status = "cancelled", !.done = TRUE]
                     ELSE s.doc[d]]
           new == [s EXCEPT
                     !.batch = [@ EXCEPT !.status = target, !.done = (target = "cancelled")],
                     !.jobs = {j \in @ : j.status # "queued"},
                     !.doc = [d \in Documents |->
                                IF @[d].status \in struck
                                THEN [@[d] EXCEPT !.status = "cancelled", !.done = TRUE]
                                ELSE @[d]]]
<1>1. target \in {"cancelling", "cancelled"}
  BY DEF CancellationTarget
<1>2. "queued" \in Active /\ \A d \in P : s.doc[d].status \in Active
  BY DEF Active
<1>3. [d \in Documents |-> IF s.doc[d].status \in struck
                           THEN [s.doc[d] EXCEPT !.status = "cancelled", !.done = TRUE]
                           ELSE s.doc[d]] = doc
  OBVIOUS
<1>4. new = [s EXCEPT !.batch = batch, !.jobs = jobs, !.doc = doc]
  BY <1>3
<1> HIDE DEF target
<1>5. batch \in BatchRow /\ batch.status = target
  <2>1. s.batch \in BatchRow /\ target \in BatchStatus /\ (target = "cancelled") \in BOOLEAN
    BY <1>1, SoundParts DEF BatchStatus
  <2> QED BY <2>1 DEF BatchRow
<1>6. doc \in [Documents -> DocumentRow] /\ Onward(s.doc, doc)
  <2>1. s.doc \in [Documents -> DocumentRow]
    BY SoundParts
  <2> HIDE DEF P
  <2> QED BY <1>2, <2>1, CancelledDocuments, Zenon
<1>7. target = "cancelled" => \A d \in Documents : doc[d].status \notin Active
  <2> SUFFICES ASSUME target = "cancelled", NEW d \in Documents
               PROVE  doc[d].status \notin Active
    OBVIOUS
  <2>1. s.doc[d] \in DocumentRow
    BY SoundParts
  <2>2. CASE d \in P
    <3>1. doc[d].status = "cancelled"
      BY <2>1, <2>2 DEF DocumentRow
    <3> QED BY <3>1 DEF Active
  <2>3. CASE d \notin P
    <3>1. doc[d] = s.doc[d] /\ s.doc[d].status \notin struck
      BY <2>3
    <3> QED BY <3>1
  <2> QED BY <2>2, <2>3
<1>8. jobs \subseteq s.jobs
  OBVIOUS
<1> HIDE DEF batch, jobs, doc, new, P, struck
<1>9. Becomes(s, new, batch, doc, s.chunk, s.cand, jobs)
  <2>1. PICK a : a = [s EXCEPT !.batch = batch]
    OBVIOUS
  <2>2. PICK b : b = [a EXCEPT !.jobs = jobs]
    OBVIOUS
  <2>3. new = [b EXCEPT !.doc = doc]
    BY <1>4, <2>1, <2>2
  <2>4. Becomes(s, a, batch, s.doc, s.chunk, s.cand, s.jobs)
    BY <2>1, Replacing, SoundParts
  <2>5. Becomes(s, b, batch, s.doc, s.chunk, s.cand, jobs)
    BY <2>2, <2>4, ReplacingNext
  <2> QED BY <2>3, <2>5, ReplacingNext
<1>10. new.batch = batch /\ new.doc = doc /\ new.chunk = s.chunk /\ new.jobs = jobs
  BY <1>9 DEF Becomes
<1>11. JobsFit(jobs)
  BY <1>8, FewerJobs, SoundParts
<1>12. Sound(new)
  BY <1>5, <1>6, <1>8, <1>9, <1>10, <1>11, PlainIsSound, SoundParts
<1>13. Advances(s, new)
  BY <1>1, <1>5, <1>6, <1>7, <1>10 DEF Advances, Accounted, Closed
<1> QED BY <1>12, <1>13 DEF new, struck, target

\* What one request makes of the documents: of the one it is about, and of the
\* others nothing.
Touches(s, y, d) ==
    /\ y.batch = s.batch
    /\ y.doc[d].genuine = s.doc[d].genuine
    /\ \A e \in Documents : e # d => y.doc[e] = s.doc[e]

\* RetryDocument begins another generation.
LEMMA RetryIsSound ==
    ASSUME NEW s, Sound(s), Legal(s), NEW d \in Documents,
           s.doc[d].gen < MaxGenerations
    PROVE  LET y == Insert([s EXCEPT !.doc[d] = [@ EXCEPT !.status = "queued",
                                                          !.gen = s.doc[d].gen + 1,
                                                          !.started = FALSE, !.done = FALSE]],
                           Work("prepare", d, s.doc[d].gen + 1, 0, 0))
           IN  Sound(y) /\ Legal(y) /\ Touches(s, y, d) /\ y.doc[d].gen = s.doc[d].gen + 1
<1> DEFINE gen == s.doc[d].gen + 1
           row == [s.doc[d] EXCEPT !.status = "queued", !.gen = gen,
                                   !.started = FALSE, !.done = FALSE]
           doc == [s.doc EXCEPT ![d] = row]
           x == [s EXCEPT !.doc[d] = [@ EXCEPT !.status = "queued", !.gen = s.doc[d].gen + 1,
                                               !.started = FALSE, !.done = FALSE]]
           w == Work("prepare", d, s.doc[d].gen + 1, 0, 0)
           y == Insert(x, w)
<1>1. s.doc[d] \in DocumentRow /\ IsDatabase(s)
  BY SoundParts
<1>2. s.doc[d].gen \in Nat /\ gen \in Generations /\ gen \in Nat
  BY <1>1, SizesAssumption DEF DocumentRow, Generations
<1>3. IsWork(w) /\ w.doc = d /\ w.kind = "prepare"
  BY <1>2, WorkParts DEF Kinds
<1>4. x = [s EXCEPT !.doc = doc]
  OBVIOUS
<1> HIDE DEF gen
<1>5. /\ row \in DocumentRow
      /\ row.status = "queued" /\ row.gen = gen /\ row.cut = s.doc[d].cut
      /\ row.genuine = s.doc[d].genuine /\ row.done = FALSE
  <2>1. "queued" \in DocumentStatus
    BY DEF DocumentStatus, Active
  <2> QED BY <1>1, <1>2, <2>1 DEF DocumentRow
<1> HIDE DEF row, x, w
<1>6. /\ doc \in [Documents -> DocumentRow] /\ doc[d] = row
      /\ \A e \in Documents : e # d => doc[e] = s.doc[e]
  BY <1>5, OneDocument, SoundParts
<1> HIDE DEF doc
<1>7. Becomes(s, x, s.batch, doc, s.chunk, s.cand, s.jobs)
  BY <1>1, <1>4, Replacing
<1>8. /\ IsDatabase(x) /\ x.batch = s.batch /\ x.doc = doc /\ x.chunk = s.chunk
      /\ x.cand = s.cand /\ x.jobs = s.jobs /\ x.ledger = s.ledger /\ x.link = s.link
  BY <1>7 DEF Becomes
<1>9. /\ Becomes(x, y, x.batch, x.doc, x.chunk, x.cand, y.jobs)
      /\ JobsFit(y.jobs)
      /\ \A j \in y.jobs : j \in x.jobs \/ (j.doc = d /\ j.kind = "prepare")
  BY <1>3, <1>8, InsertParts, SoundParts
<1> HIDE DEF y
<1>10. /\ IsDatabase(y) /\ y.batch = s.batch /\ y.doc = doc /\ y.chunk = s.chunk
       /\ y.cand = s.cand /\ y.ledger = s.ledger /\ y.link = s.link
  BY <1>8, <1>9 DEF Becomes
<1>11. Evidenced(doc, s.cand, s.ledger, s.link)
  <2>1. Evidenced(s.doc, s.cand, s.ledger, s.link) /\ CandidatesFit(s.cand)
    BY DEF Sound, Shape
  <2>2. ASSUME NEW e \in Documents
        PROVE  /\ s.doc[e].gen \in Nat /\ s.doc[e].cut \in Nat /\ doc[e].cut = s.doc[e].cut
               /\ \/ doc[e].gen = s.doc[e].gen /\ doc[e].status = s.doc[e].status
                  \/ doc[e].gen = s.doc[e].gen + 1
    <3>1. s.doc[e].gen \in Nat /\ s.doc[e].cut \in Nat
      BY SoundParts DEF DocumentRow, Generations
    <3> QED BY <1>5, <1>6, <3>1 DEF gen
  <2>3. KeysFit(doc, s.cand)
    <3>1. ASSUME NEW c \in s.cand PROVE c.gen <= doc[c.doc].gen /\ c.cut <= doc[c.doc].cut
      <4>1. c.doc \in Documents /\ c.gen \in Nat /\ c.cut \in Nat
        BY <2>1 DEF CandidatesFit, IsCandidate, Generations
      <4>2. c.gen <= s.doc[c.doc].gen /\ c.cut <= s.doc[c.doc].cut
        BY <2>1 DEF Evidenced, KeysFit
      <4> QED BY <2>2, <4>1, <4>2
    <3> QED BY <2>1, <3>1 DEF Evidenced, KeysFit
  <2>4. NamesFit(doc, s.cand, s.ledger)
    <3> SUFFICES ASSUME NEW t \in s.ledger, NEW e \in Documents, NamedAfter(t, e)
                 PROVE  /\ t.id[2] \in Nat /\ t.id[2] <= doc[e].gen
                        /\ t.id[3] \in Nat /\ t.id[3] <= doc[e].cut
                        /\ \/ doc[e].status = "deleted"
                           \/ t.id[2] # doc[e].gen
                           \/ t.id[3] # doc[e].cut
                           \/ \E b \in s.cand : Key(b) = t.id
      BY DEF NamesFit
    <3>1. /\ t.id[2] \in Nat /\ t.id[2] <= s.doc[e].gen
          /\ t.id[3] \in Nat /\ t.id[3] <= s.doc[e].cut
          /\ \/ s.doc[e].status = "deleted"
             \/ t.id[2] # s.doc[e].gen
             \/ t.id[3] # s.doc[e].cut
             \/ \E b \in s.cand : Key(b) = t.id
      BY <2>1 DEF Evidenced, NamesFit
    <3>2. CASE doc[e].gen = s.doc[e].gen + 1
      BY <2>2, <3>1, <3>2
    <3>3. CASE doc[e].gen = s.doc[e].gen /\ doc[e].status = s.doc[e].status
      BY <2>2, <3>1, <3>3
    <3> QED BY <2>2, <3>2, <3>3
  <2> QED BY <2>1, <2>3, <2>4 DEF Evidenced
<1>12. Shape(y)
  BY <1>6, <1>9, <1>10, SoundParts DEF Shape
<1>13. Vetted(doc, s.cand, y.jobs)
  <2>1. "queued" \in Unread
    BY DEF Unread
  <2> QED BY <1>5, <1>6, <1>8, <1>9, <2>1 DEF Sound, Vetted
<1>14. Sound(y)
  BY <1>10, <1>11, <1>12, <1>13 DEF Sound
<1>15. Legal(y)
  <2>1. DocumentLifecycle(row)
    BY <1>5 DEF DocumentLifecycle
  <2> QED BY <1>6, <1>10, <2>1 DEF Legal
<1>16. Touches(s, y, d) /\ y.doc[d].gen = gen
  BY <1>5, <1>6, <1>10 DEF Touches
<1> QED BY <1>14, <1>15, <1>16 DEF y, x, w, gen

\* What hangs on a document, and the automatic transactions nothing else is
\* evidence of.
Orphans(s, d) ==
    {t \in s.ledger : /\ t.by = "auto"
                      /\ \E l \in s.link : l.tx = t.id /\ l.doc = d
                      /\ \A l \in {k \in s.link : k.doc # d} : l.tx # t.id}

\* What is left when a document is deleted.
Removed(s, y, d) ==
    /\ y.doc[d].status = "deleted"
    /\ y.doc[d].gen = s.doc[d].gen
    /\ y.chunk = [s.chunk EXCEPT ![d] = [g \in Generations |-> [i \in 1..Chunks |->
                                          [status |-> "absent", answer |-> None]]]]
    /\ y.cand = {c \in s.cand : c.doc # d}
    /\ y.jobs = {j \in s.jobs : j.doc # d}

\* StageSourceDeletion takes a document with all that hangs on it.
LEMMA DeletionIsSound ==
    ASSUME NEW s, Sound(s), Legal(s), NEW d \in Documents
    PROVE  LET y == [s EXCEPT
                       !.doc[d].status = "deleted",
                       !.chunk[d] = [g \in Generations |-> [i \in 1..Chunks |->
                                       [status |-> "absent", answer |-> None]]],
                       !.cand = {c \in @ : c.doc # d},
                       !.jobs = {j \in @ : j.doc # d},
                       !.link = {l \in s.link : l.doc # d},
                       !.ledger = @ \ Orphans(s, d)]
           IN  Sound(y) /\ Legal(y) /\ Touches(s, y, d) /\ Removed(s, y, d)
<1> DEFINE none == [g \in Generations |-> [i \in 1..Chunks |->
                      [status |-> "absent", answer |-> None]]]
           chunk == [s.chunk EXCEPT ![d] = none]
           row == [s.doc[d] EXCEPT !.status = "deleted"]
           doc == [s.doc EXCEPT ![d] = row]
           cand == {c \in s.cand : c.doc # d}
           jobs == {j \in s.jobs : j.doc # d}
           link == {l \in s.link : l.doc # d}
           ledger == s.ledger \ Orphans(s, d)
           y == [s EXCEPT
                   !.doc[d].status = "deleted",
                   !.chunk[d] = [g \in Generations |-> [i \in 1..Chunks |->
                                   [status |-> "absent", answer |-> None]]],
                   !.cand = {c \in @ : c.doc # d},
                   !.jobs = {j \in @ : j.doc # d},
                   !.link = {l \in s.link : l.doc # d},
                   !.ledger = @ \ Orphans(s, d)]
<1>1. s.doc[d] \in DocumentRow /\ IsDatabase(s)
  BY SoundParts
<1>2. /\ row \in DocumentRow
      /\ row.status = "deleted" /\ row.gen = s.doc[d].gen /\ row.cut = s.doc[d].cut
      /\ row.genuine = s.doc[d].genuine
  BY <1>1 DEF DocumentRow, DocumentStatus
<1>3. y = [s EXCEPT !.doc = doc, !.chunk = chunk, !.cand = cand, !.jobs = jobs,
                    !.link = link, !.ledger = ledger]
  OBVIOUS
<1>4. chunk \in [Documents -> [Generations -> [1..Chunks -> ChunkRow]]]
  <2>1. none \in [Generations -> [1..Chunks -> ChunkRow]]
    BY DEF ChunkRow, ChunkStatus
  <2> HIDE DEF none
  <2> QED BY <2>1, SoundParts
<1> HIDE DEF row, y, chunk
<1>5. /\ doc \in [Documents -> DocumentRow] /\ doc[d] = row
      /\ \A e \in Documents : e # d => doc[e] = s.doc[e]
  BY <1>2, OneDocument, SoundParts
<1> HIDE DEF doc
<1>6. CandidatesFit(cand) /\ Evidenced(doc, cand, ledger, link)
  <2>1. CandidatesFit(s.cand) /\ Evidenced(s.doc, s.cand, s.ledger, s.link)
    BY DEF Sound, Shape
  <2>2. \A e \in Documents :
           /\ doc[e].gen >= s.doc[e].gen /\ doc[e].cut >= s.doc[e].cut
           /\ s.doc[e].status = "deleted" => doc[e].status = "deleted"
    <3> TAKE e \in Documents
    <3>1. s.doc[e].gen \in Nat /\ s.doc[e].cut \in Nat
      BY SoundParts DEF DocumentRow, Generations
    <3>2. doc[e].gen = s.doc[e].gen /\ doc[e].cut = s.doc[e].cut
      BY <1>2, <1>5
    <3> QED BY <1>2, <1>5, <3>1, <3>2
  <2>3. \A c \in s.cand \ cand : \/ doc[c.doc].status = "deleted"
                                 \/ doc[c.doc].cut > s.doc[c.doc].cut
    BY <1>2, <1>5
  <2>4. \A c \in cand : \A l \in s.link : l.doc = c.doc /\ l.gen = c.gen => l \in link
    OBVIOUS
  <2>5. \A t \in s.ledger \ ledger : \A l \in link : l.tx # t.id
    BY DEF Orphans
  <2>6. cand \subseteq s.cand /\ ledger \subseteq s.ledger /\ link \subseteq s.link
    OBVIOUS
  <2>7. s.doc \in [Documents -> DocumentRow] /\ doc \in [Documents -> DocumentRow]
    BY <1>5, SoundParts
  <2> HIDE DEF cand, link, ledger
  <2>8. Drops(s.doc, doc, s.cand, cand, s.ledger, ledger, s.link, link)
    BY <2>2, <2>3, <2>4, <2>5, <2>6 DEF Drops
  <2> QED BY <2>1, <2>7, <2>8, DroppedEvidence
<1>7. JobsFit(jobs) /\ jobs \subseteq s.jobs /\ cand \subseteq s.cand
      /\ (\A j \in jobs : j.doc # d) /\ \A c \in cand : c.doc # d
  BY FewerJobs, SoundParts
<1> HIDE DEF cand, jobs, link, ledger
<1>8. /\ IsDatabase(y) /\ y.batch = s.batch /\ y.doc = doc /\ y.chunk = chunk
      /\ y.cand = cand /\ y.jobs = jobs /\ y.ledger = ledger /\ y.link = link
  <2>1. Written(s, s, s.doc, s.chunk, s.cand, s.jobs, s.link)
    BY <1>1 DEF Written
  <2>2. PICK a : a = [s EXCEPT !.doc = doc]
    OBVIOUS
  <2>3. PICK b : b = [a EXCEPT !.chunk = chunk]
    OBVIOUS
  <2>4. PICK e : e = [b EXCEPT !.cand = cand]
    OBVIOUS
  <2>5. PICK h : h = [e EXCEPT !.jobs = jobs]
    OBVIOUS
  <2>6. PICK k : k = [h EXCEPT !.link = link]
    OBVIOUS
  <2>7. y = [k EXCEPT !.ledger = ledger]
    BY <1>3, <2>2, <2>3, <2>4, <2>5, <2>6
  <2>8. Written(s, a, doc, s.chunk, s.cand, s.jobs, s.link)
    BY <2>1, <2>2, Writing
  <2>9. Written(s, b, doc, chunk, s.cand, s.jobs, s.link)
    BY <2>3, <2>8, Writing
  <2>10. Written(s, e, doc, chunk, cand, s.jobs, s.link)
    BY <2>4, <2>9, Writing
  <2>11. Written(s, h, doc, chunk, cand, jobs, s.link)
    BY <2>5, <2>10, Writing
  <2>12. Written(s, k, doc, chunk, cand, jobs, link)
    BY <2>6, <2>11, Writing
  <2> QED BY <2>7, <2>12 DEF Written, IsDatabase
<1>9. Shape(y)
  BY <1>4, <1>5, <1>6, <1>7, <1>8, SoundParts DEF Shape
<1>10. Vetted(doc, cand, jobs)
  <2>1. "deleted" \in Unread
    BY DEF Unread
  <2> QED BY <1>2, <1>5, <1>7, <2>1 DEF Sound, Vetted
<1>11. Sound(y)
  BY <1>6, <1>8, <1>9, <1>10 DEF Sound
<1>12. Legal(y)
  <2>1. DocumentLifecycle(row)
    BY <1>2 DEF DocumentLifecycle
  <2> QED BY <1>5, <1>8, <2>1 DEF Legal
<1>13. Touches(s, y, d) /\ Removed(s, y, d)
  BY <1>2, <1>5, <1>8 DEF Touches, Removed, chunk, cand, jobs
<1> QED BY <1>11, <1>12, <1>13 DEF y

----------------------------------------------------------------------------
(* The steps.                                                              *)

\* What a step may do to documents, and to those that have ended.
Fates(s, s2) ==
    \A d \in Documents :
        /\ s2.doc[d].gen = s.doc[d].gen \/ s2.doc[d].gen > s.doc[d].gen
        /\ s.doc[d].status \in Finished =>
              \/ s2.doc[d].status \in {s.doc[d].status, "deleted"}
              \/ s2.doc[d].gen > s.doc[d].gen

\* What the invariant says of a database.
Lawful(s) == Sound(s) /\ Legal(s) /\ Quiet(s)

\* Documents that go on are followed.
LEMMA AdvancesFollows ==
    ASSUME NEW s, NEW s2, Advances(s, s2)
    PROVE  Follows(s, s2)
BY DEF Advances, Onward, RowOnward, Follows

\* What the transactions of the workers establish.
LEMMA FollowsIsLawful ==
    ASSUME NEW s, NEW s2, Lawful(s), Sound(s2), Legal(s2), Follows(s, s2)
    PROVE  /\ Lawful(s2)
           /\ Fates(s, s2)
           /\ \A d \in Documents : s2.doc[d].genuine = s.doc[d].genuine
<1>1. Quiet(s2)
  BY DEF Lawful, Quiet, Follows, Accounted
<1>2. Fates(s, s2)
  BY DEF Fates, Follows
<1>3. \A d \in Documents : s2.doc[d].genuine = s.doc[d].genuine
  BY DEF Follows
<1> QED BY <1>1, <1>2, <1>3 DEF Lawful

\* Of the batch, a request about one document changes nothing.
LEMMA TouchesIsLawful ==
    ASSUME NEW s, NEW s2, NEW d \in Documents, Lawful(s), Sound(s2), Legal(s2),
           Touches(s, s2, d),
           \/ s2.doc[d].status = "deleted" /\ s2.doc[d].gen = s.doc[d].gen
           \/ s2.doc[d].gen = s.doc[d].gen + 1
    PROVE  /\ Lawful(s2)
           /\ Fates(s, s2)
           /\ \A e \in Documents : s2.doc[e].genuine = s.doc[e].genuine
<1>1. s.doc[d].gen \in Nat /\ s.doc[d].gen >= 1
  BY SoundParts DEF Lawful, DocumentRow, Generations
<1>2. Quiet(s2)
  BY <1>1 DEF Lawful, Quiet, Touches, Active
<1>3. Fates(s, s2)
  BY <1>1 DEF Fates, Touches
<1>4. \A e \in Documents : s2.doc[e].genuine = s.doc[e].genuine
  BY DEF Touches
<1> QED BY <1>2, <1>3, <1>4 DEF Lawful

\* Where a handler may be depends on no more than the verdicts.
LEMMA WorkerStays ==
    ASSUME NEW s, NEW s2, NEW x, IsWorker(s, x),
           \A d \in Documents : s2.doc[d].genuine = s.doc[d].genuine
    PROVE  IsWorker(s2, x)
BY DEF IsWorker, IsWork

\* The invariant after a step that may move a worker.
LEMMA WorkerMoves ==
    ASSUME PipelineInv, Lawful(db)', doomed' \subseteq Documents,
           \A d \in Documents : db'.doc[d].genuine = db.doc[d].genuine,
           \/ UNCHANGED worker
           \/ \E w \in Workers : \E x :
                 worker' = [worker EXCEPT ![w] = x] /\ IsWorker(db', x)
    PROVE  PipelineInv'
<1>1. WorkersFit
  BY DEF PipelineInv
<1>2. \A w \in Workers : IsWorker(db', worker[w])
  BY <1>1, WorkerStays DEF WorkersFit
<1>3. worker' = [w \in Workers |-> worker'[w]] /\ \A w \in Workers : IsWorker(db', worker'[w])
  <2>1. worker = [w \in Workers |-> worker[w]]
    BY <1>1 DEF WorkersFit
  <2>2. CASE UNCHANGED worker
    BY <1>2, <2>1, <2>2
  <2>3. ASSUME NEW w \in Workers, NEW x, worker' = [worker EXCEPT ![w] = x], IsWorker(db', x)
        PROVE  /\ worker' = [v \in Workers |-> worker'[v]]
               /\ \A v \in Workers : IsWorker(db', worker'[v])
    <3>1. worker' = [v \in Workers |-> IF v = w THEN x ELSE worker[v]]
      BY <2>1, <2>3
    <3>2. \A v \in Workers : worker'[v] = IF v = w THEN x ELSE worker[v]
      BY <3>1
    <3>3. worker' = [v \in Workers |-> worker'[v]]
      BY <3>1
    <3> QED BY <1>2, <2>3, <3>2, <3>3
  <2> QED BY <2>2, <2>3
<1>4. WorkersFit'
  BY <1>3 DEF WorkersFit
<1> QED BY <1>4 DEF PipelineInv, Lawful

\* A transaction of a handler.
LEMMA CommitIsLawful ==
    ASSUME PipelineInv, NEW w \in Workers, worker[w].pc # "idle",
           NEW result, Commit(w, result),
           Legal(result.db) =>
              /\ Sound(result.db)
              /\ Follows(db, result.db)
              /\ ~db.doc[worker[w].work.doc].genuine =>
                    result.next \in {"check", "prepare", "render", "succeeded", "erred"}
    PROVE  PipelineInv' /\ Fates(db, db')
<1> DEFINE pc == IF Legal(result.db) THEN result.next ELSE "erred"
           x == [worker[w] EXCEPT !.pc = pc]
<1>1. Lawful(db) /\ doomed \subseteq Documents /\ WorkersFit
  BY DEF PipelineInv, Lawful
<1>2. /\ db' = IF Legal(result.db) THEN result.db ELSE db
      /\ worker' = [worker EXCEPT ![w] = x]
      /\ doomed' = doomed
  BY DEF Commit
<1>3. /\ Lawful(db') /\ Fates(db, db')
      /\ \A d \in Documents : db'.doc[d].genuine = db.doc[d].genuine
  <2>1. CASE Legal(result.db)
    BY <1>1, <1>2, <2>1, FollowsIsLawful
  <2>2. CASE ~Legal(result.db)
    BY <1>1, <1>2, <2>2 DEF Fates
  <2> QED BY <2>1, <2>2
<1>4. IsWorker(db, worker[w])
  BY <1>1 DEF WorkersFit
<1>5. IsWorker(db, x)
  <2>1. /\ worker[w] = [pc |-> worker[w].pc, work |-> worker[w].work]
        /\ IsWork(worker[w].work)
        /\ ~db.doc[worker[w].work.doc].genuine => worker[w].work.kind = "prepare"
    BY <1>4 DEF IsWorker
  <2>2. ~db.doc[worker[w].work.doc].genuine =>
           pc \in {"check", "prepare", "render", "succeeded", "erred"}
    OBVIOUS
  <2> HIDE DEF pc
  <2>3. x.pc = pc /\ x.work = worker[w].work /\ x = [pc |-> x.pc, work |-> x.work]
    BY <2>1
  <2> HIDE DEF x
  <2> QED BY <2>1, <2>2, <2>3 DEF IsWorker
<1>6. IsWorker(db', x)
  BY <1>3, <1>5, WorkerStays
<1> HIDE DEF x
<1> QED BY <1>1, <1>2, <1>3, <1>6, WorkerMoves

\* Where the handlers of a document that fails its verification are not.
LEMMA WorkerIsVetted ==
    ASSUME PipelineInv, NEW w \in Workers, worker[w].pc # "idle"
    PROVE  /\ Sound(db) /\ Legal(db)
           /\ IsWork(worker[w].work)
           /\ worker[w].work.kind = "prepare" \/ db.doc[worker[w].work.doc].genuine
           /\ \/ db.doc[worker[w].work.doc].genuine
              \/ worker[w].pc \in {"check", "prepare", "render", "succeeded", "erred"}
BY DEF PipelineInv, WorkersFit, IsWorker

\* A transaction that advances, and says where the handler goes.
LEMMA AdvancesIsLawful ==
    ASSUME PipelineInv, NEW w \in Workers, worker[w].pc # "idle",
           NEW result, Commit(w, result),
           Legal(result.db) => Sound(result.db) /\ Advances(db, result.db),
           \/ db.doc[worker[w].work.doc].genuine
           \/ Legal(result.db) =>
                 result.next \in {"check", "prepare", "render", "succeeded", "erred"}
    PROVE  PipelineInv' /\ Fates(db, db')
BY CommitIsLawful, AdvancesFollows

\* The steps of Handler.prepare.
LEMMA PrepareStepsAreLawful ==
    ASSUME PipelineInv, NEW w \in Workers,
           \/ Check(w) \/ Prepare(w) \/ RenderFails(w) \/ RenderSucceeds(w) \/ RecordPages(w)
    PROVE  PipelineInv' /\ Fates(db, db')
<1> DEFINE v == worker[w].work
<1>1. worker[w].pc \in {"check", "prepare", "render", "pages"}
  BY DEF Check, Prepare, RenderFails, RenderSucceeds, RecordPages
<1>2. /\ worker[w].pc # "idle"
      /\ Sound(db) /\ Legal(db) /\ IsWork(v)
      /\ v.kind = "prepare" \/ db.doc[v.doc].genuine
      /\ \/ db.doc[v.doc].genuine
         \/ worker[w].pc \in {"check", "prepare", "render", "succeeded", "erred"}
  BY <1>1, WorkerIsVetted
<1> HIDE DEF v
<1>3. CASE Check(w)
  <2>1. Commit(w, IsCancelled(db, v, v.kind))
    BY <1>3, Zenon DEF Check, v
  <2>2. Legal(IsCancelled(db, v, v.kind).db) =>
           /\ Sound(IsCancelled(db, v, v.kind).db)
           /\ Advances(db, IsCancelled(db, v, v.kind).db)
           /\ IsCancelled(db, v, v.kind).next \in {v.kind, "succeeded"}
    BY <1>2, IsCancelledAdvances
  <2> QED BY <1>2, <2>1, <2>2, AdvancesIsLawful DEF v
<1>4. CASE Prepare(w)
  <2>1. Commit(w, LoadOriginals(db, v))
    BY <1>4, Zenon DEF Prepare, v
  <2>2. /\ Sound(LoadOriginals(db, v).db)
        /\ Advances(db, LoadOriginals(db, v).db)
        /\ LoadOriginals(db, v).next \in {"render", "succeeded", "erred"}
    BY <1>2, LoadOriginalsAdvances
  <2> QED BY <1>2, <2>1, <2>2, AdvancesIsLawful DEF v
<1>5. CASE RenderFails(w)
  <2>1. \/ Commit(w, Then(db, "erred"))
        \/ ~db.doc[v.doc].genuine /\ Commit(w, RecordPrepareFailure(db, v))
    BY <1>5, Zenon DEF RenderFails, v
  <2>2. CASE Commit(w, Then(db, "erred"))
    <3>1. PICK r : r = Then(db, "erred")
      OBVIOUS
    <3>2. r.db = db /\ r.next = "erred" /\ Commit(w, r)
      BY <2>2, <3>1 DEF Then
    <3> QED BY <1>2, <3>2, Itself, AdvancesIsLawful DEF v
  <2>3. CASE ~db.doc[v.doc].genuine /\ Commit(w, RecordPrepareFailure(db, v))
    <3>1. Legal(RecordPrepareFailure(db, v).db) =>
             /\ Sound(RecordPrepareFailure(db, v).db)
             /\ Advances(db, RecordPrepareFailure(db, v).db)
             /\ RecordPrepareFailure(db, v).next \in {"succeeded", "erred"}
      BY <1>2, <2>3, RecordPrepareFailureAdvances
    <3> QED BY <1>2, <2>3, <3>1, AdvancesIsLawful DEF v
  <2> QED BY <2>1, <2>2, <2>3
<1>6. CASE RenderSucceeds(w)
  <2>1. db.doc[v.doc].genuine /\ Commit(w, IsCancelled(db, v, "pages"))
    BY <1>6, Zenon DEF RenderSucceeds, v
  <2>2. Legal(IsCancelled(db, v, "pages").db) =>
           /\ Sound(IsCancelled(db, v, "pages").db)
           /\ Advances(db, IsCancelled(db, v, "pages").db)
    BY <1>2, IsCancelledAdvances
  <2> QED BY <1>2, <2>1, <2>2, AdvancesIsLawful DEF v
<1>7. CASE RecordPages(w)
  <2>1. worker[w].pc = "pages" /\ Commit(w, RecordPrepared(db, v))
    BY <1>7, Zenon DEF RecordPages, v
  <2>2. db.doc[v.doc].genuine
    BY <1>2, <2>1
  <2>3. Legal(RecordPrepared(db, v).db) =>
           Sound(RecordPrepared(db, v).db) /\ Follows(db, RecordPrepared(db, v).db)
    BY <1>2, <2>2, RecordPreparedFollows
  <2> QED BY <1>2, <2>1, <2>2, <2>3, CommitIsLawful DEF v
<1> QED BY <1>3, <1>4, <1>5, <1>6, <1>7

\* The steps of Handler.parseChunk.
LEMMA ParseStepsAreLawful ==
    ASSUME PipelineInv, NEW w \in Workers,
           StartChunk(w) \/ ParseFails(w) \/ ParseSucceeds(w) \/ RecordAnswer(w)
    PROVE  PipelineInv' /\ Fates(db, db')
<1> DEFINE v == worker[w].work
<1>1. worker[w].pc \in {"chunk", "parse", "answer"}
  BY DEF StartChunk, ParseFails, ParseSucceeds, RecordAnswer
<1>2. /\ worker[w].pc # "idle"
      /\ Sound(db) /\ Legal(db) /\ IsWork(v) /\ db.doc[v.doc].genuine
  BY <1>1, WorkerIsVetted
<1> HIDE DEF v
<1>3. CASE StartChunk(w)
  <2>1. Commit(w, LoadChunk(db, v))
    BY <1>3, Zenon DEF StartChunk, v
  <2>2. Sound(LoadChunk(db, v).db) /\ Advances(db, LoadChunk(db, v).db)
    BY <1>2, LoadChunkAdvances
  <2> QED BY <1>2, <2>1, <2>2, AdvancesIsLawful DEF v
<1>4. CASE ParseFails(w)
  <2>1. \/ Commit(w, Then(db, "erred"))
        \/ \E terminal \in BOOLEAN : Commit(w, RecordChunkFailure(db, v, terminal))
    BY <1>4, Zenon DEF ParseFails, v
  <2>2. CASE Commit(w, Then(db, "erred"))
    <3>1. PICK r : r = Then(db, "erred")
      OBVIOUS
    <3>2. r.db = db /\ Commit(w, r)
      BY <2>2, <3>1 DEF Then
    <3> QED BY <1>2, <3>2, Itself, AdvancesIsLawful DEF v
  <2>3. ASSUME NEW terminal \in BOOLEAN, Commit(w, RecordChunkFailure(db, v, terminal))
        PROVE  PipelineInv' /\ Fates(db, db')
    <3>1. /\ Sound(RecordChunkFailure(db, v, terminal).db)
          /\ Advances(db, RecordChunkFailure(db, v, terminal).db)
      BY <1>2, RecordChunkFailureAdvances
    <3> QED BY <1>2, <2>3, <3>1, AdvancesIsLawful DEF v
  <2> QED BY <2>1, <2>2, <2>3
<1>5. CASE ParseSucceeds(w)
  <2>1. Commit(w, IsCancelled(db, v, "answer"))
    BY <1>5, Zenon DEF ParseSucceeds, v
  <2>2. Legal(IsCancelled(db, v, "answer").db) =>
           /\ Sound(IsCancelled(db, v, "answer").db)
           /\ Advances(db, IsCancelled(db, v, "answer").db)
    BY <1>2, IsCancelledAdvances
  <2> QED BY <1>2, <2>1, <2>2, AdvancesIsLawful DEF v
<1>6. CASE RecordAnswer(w)
  <2>1. PICK answer \in Outputs \cup {None} : Commit(w, RecordChunkResult(db, v, answer))
    BY <1>6, Zenon DEF RecordAnswer, v
  <2>2. /\ Sound(RecordChunkResult(db, v, answer).db)
        /\ Advances(db, RecordChunkResult(db, v, answer).db)
    BY <1>2, RecordChunkResultAdvances
  <2> QED BY <1>2, <2>1, <2>2, AdvancesIsLawful DEF v
<1> QED BY <1>3, <1>4, <1>5, <1>6

\* The steps that turn answers into candidates and settle these.
LEMMA SettlingStepsAreLawful ==
    ASSUME PipelineInv, NEW w \in Workers,
           Aggregate(w) \/ Reconcile(w) \/ PostProcess(w) \/ Settle(w)
    PROVE  PipelineInv' /\ Fates(db, db')
<1> DEFINE v == worker[w].work
<1>1. worker[w].pc \in {"aggregate", "reconcile", "post", "settle"}
  BY DEF Aggregate, Reconcile, PostProcess, Settle
<1>2. /\ worker[w].pc # "idle"
      /\ Sound(db) /\ Legal(db) /\ IsWork(v) /\ db.doc[v.doc].genuine
  BY <1>1, WorkerIsVetted
<1> HIDE DEF v
<1>3. CASE Aggregate(w)
  <2>1. Commit(w, AggregateDocument(db, v))
    BY <1>3, Zenon DEF Aggregate, v
  <2>2. Legal(AggregateDocument(db, v).db) =>
           Sound(AggregateDocument(db, v).db) /\ Follows(db, AggregateDocument(db, v).db)
    BY <1>2, AggregateDocumentFollows
  <2> QED BY <1>2, <2>1, <2>2, CommitIsLawful DEF v
<1>4. CASE Reconcile(w)
  <2>1. Commit(w, ReconcileCandidate(db, v))
    BY <1>4, Zenon DEF Reconcile, v
  <2>2. Sound(ReconcileCandidate(db, v).db) /\ Advances(db, ReconcileCandidate(db, v).db)
    <3>1. CASE Resolution(db, ReconcileCandidate(db, v).db)
      BY <3>1, SameBatch DEF Resolution
    <3>2. CASE ReconcileCandidate(db, v).db = db
      BY <1>2, <3>2, Itself
    <3> QED BY <1>2, <3>1, <3>2, ReconcileCandidateIsSound
  <2> QED BY <1>2, <2>1, <2>2, AdvancesIsLawful DEF v
<1>5. CASE PostProcess(w)
  <2>1. Commit(w, LoadPostProcessInput(db, v))
    BY <1>5, Zenon DEF PostProcess, v
  <2>2. LoadPostProcessInput(db, v).db = db
    BY DEF LoadPostProcessInput, Then
  <2> QED BY <1>2, <2>1, <2>2, Itself, AdvancesIsLawful DEF v
<1>6. CASE Settle(w)
  <2>1. Commit(w, RecordPostProcess(db, v))
    BY <1>6, Zenon DEF Settle, v
  <2>2. Legal(RecordPostProcess(db, v).db) =>
           Sound(RecordPostProcess(db, v).db) /\ Advances(db, RecordPostProcess(db, v).db)
    BY <1>2, RecordPostProcessAdvances
  <2> QED BY <1>2, <2>1, <2>2, AdvancesIsLawful DEF v
<1> QED BY <1>3, <1>4, <1>5, <1>6

\* Jobs in the place of some of the jobs.
Rejobs(jobs, P, f) == (jobs \ P) \cup {f[j] : j \in P}

\* They fit, when they are for the same work.
LEMMA RejobbedFit ==
    ASSUME NEW jobs, JobsFit(jobs), NEW P, P \subseteq jobs, NEW f, f = [j \in P |-> f[j]],
           \A j \in P : IsJob(f[j]) /\ WorkOf(f[j]) = WorkOf(j)
    PROVE  JobsFit(Rejobs(jobs, P, f))
<1> DEFINE more == {f[j] : j \in P}
<1>1. JobsFit(jobs \ P)
  BY FewerJobs
<1>2. IsFiniteSet(P)
  BY FS_Subset DEF JobsFit
<1>3. IsFiniteSet(more)
  BY <1>2, ImageIsFinite
<1>4. \A j \in more : \E k \in P : j = f[k]
  OBVIOUS
<1>5. \A j \in more : IsJob(j)
  BY <1>4
<1>6. \A j, k \in more : WorkOf(j) = WorkOf(k) => j = k
  <2> SUFFICES ASSUME NEW j \in more, NEW k \in more, WorkOf(j) = WorkOf(k) PROVE j = k
    OBVIOUS
  <2>1. PICK a \in P : j = f[a]
    BY <1>4
  <2>2. PICK b \in P : k = f[b]
    BY <1>4
  <2>3. a = b
    BY <2>1, <2>2 DEF JobsFit
  <2> QED BY <2>1, <2>2, <2>3
<1>7. \A j \in more : \A k \in jobs \ P : WorkOf(j) # WorkOf(k)
  <2> SUFFICES ASSUME NEW j \in more, NEW k \in jobs \ P, WorkOf(j) = WorkOf(k) PROVE FALSE
    OBVIOUS
  <2>1. PICK a \in P : j = f[a]
    BY <1>4
  <2>2. a = k
    BY <2>1 DEF JobsFit
  <2> QED BY <2>2
<1> HIDE DEF more
<1>8. JobsFit((jobs \ P) \cup more)
  BY <1>1, <1>3, <1>5, <1>6, <1>7, MoreJobs
<1> QED BY <1>8 DEF more, Rejobs

\* The jobs change, and with them nothing else.
Rejobbed(s, s2, P, f) ==
    /\ P \subseteq s.jobs
    /\ f = [j \in P |-> f[j]]
    /\ \A j \in P : IsJob(f[j]) /\ WorkOf(f[j]) = WorkOf(j)
    /\ Becomes(s, s2, s.batch, s.doc, s.chunk, s.cand, Rejobs(s.jobs, P, f))

\* That keeps a database sound.
LEMMA RejobbedAdvances ==
    ASSUME NEW s, Sound(s), NEW s2, NEW P, NEW f, Rejobbed(s, s2, P, f)
    PROVE  Sound(s2) /\ Advances(s, s2) /\ (Legal(s) => Legal(s2))
<1> DEFINE jobs == Rejobs(s.jobs, P, f)
<1>1. /\ P \subseteq s.jobs /\ f = [j \in P |-> f[j]]
      /\ \A j \in P : IsJob(f[j]) /\ WorkOf(f[j]) = WorkOf(j)
  BY DEF Rejobbed
<1>2. /\ IsDatabase(s2) /\ s2.batch = s.batch /\ s2.doc = s.doc /\ s2.chunk = s.chunk
      /\ s2.cand = s.cand /\ s2.jobs = jobs /\ s2.ledger = s.ledger /\ s2.link = s.link
  BY DEF Rejobbed, Becomes
<1>3. JobsFit(jobs)
  BY <1>1, RejobbedFit, SoundParts
<1>4. Shape(s2)
  BY <1>2, <1>3, SoundParts DEF Shape
<1>5. \A k \in jobs : \E j \in s.jobs : k.doc = j.doc /\ k.kind = j.kind
  <2> SUFFICES ASSUME NEW j \in P PROVE f[j].doc = j.doc /\ f[j].kind = j.kind
    BY <1>1 DEF Rejobs
  <2>1. IsJob(j) /\ IsJob(f[j]) /\ WorkOf(f[j]) = WorkOf(j)
    BY <1>1, SoundParts DEF JobsFit
  <2> QED BY <2>1, JobParts
<1> HIDE DEF jobs
<1>6. Vetted(s2.doc, s2.cand, s2.jobs)
  BY <1>2, <1>5 DEF Sound, Vetted
<1>7. Sound(s2)
  BY <1>2, <1>4, <1>6 DEF Sound
<1>8. Advances(s, s2)
  BY <1>2, SameBatch, SameDocuments
<1> QED BY <1>2, <1>7, <1>8, SameLegal

\* Jobs change hands.
HandedOver(s, P, owner) ==
    [s EXCEPT !.jobs = (@ \ P) \cup {[j EXCEPT !.owner = owner] : j \in P}]

\* Nothing else does.
LEMMA Reowned ==
    ASSUME NEW s, Sound(s), NEW P, P \subseteq s.jobs, NEW owner
    PROVE  /\ Sound(HandedOver(s, P, owner))
           /\ Advances(s, HandedOver(s, P, owner))
           /\ Legal(s) => Legal(HandedOver(s, P, owner))
<1> DEFINE f == [j \in P |-> [j EXCEPT !.owner = owner]]
           jobs == Rejobs(s.jobs, P, f)
           s2 == HandedOver(s, P, owner)
<1>1. s2 = [s EXCEPT !.jobs = jobs]
  BY DEF Rejobs, HandedOver
<1>2. f = [j \in P |-> f[j]]
  OBVIOUS
<1>3. ASSUME NEW j \in P PROVE IsJob(f[j]) /\ WorkOf(f[j]) = WorkOf(j)
  <2>1. IsJob(j)
    BY SoundParts DEF JobsFit
  <2>2. f[j] = Handed(j, owner)
    BY DEF Handed
  <2> HIDE DEF f
  <2> QED BY <2>1, <2>2, JobChanges
<1> HIDE DEF f, s2
<1>4. Becomes(s, s2, s.batch, s.doc, s.chunk, s.cand, jobs)
  <2> HIDE DEF jobs
  <2> QED BY <1>1, Replacing, SoundParts
<1>5. Rejobbed(s, s2, P, f)
  BY <1>2, <1>3, <1>4 DEF Rejobbed
<1>6. Sound(s2) /\ Advances(s, s2) /\ (Legal(s) => Legal(s2))
  BY <1>5, RejobbedAdvances
<1> QED BY <1>6 DEF s2

\* A claim takes a job.
LEMMA ClaimedAdvances ==
    ASSUME NEW s, Sound(s), NEW j \in s.jobs, NEW w
    PROVE  LET s2 == [s EXCEPT !.jobs = (@ \ {j}) \cup {[j EXCEPT !.status = "running",
                                                                  !.tries = j.tries + 1,
                                                                  !.owner = w]}] IN
           Sound(s2) /\ Advances(s, s2) /\ (Legal(s) => Legal(s2))
<1> DEFINE k == Claimed(j, w)
           P == {j}
           f == [i \in P |-> k]
           jobs == Rejobs(s.jobs, P, f)
           s2 == [s EXCEPT !.jobs = (@ \ {j}) \cup {[j EXCEPT !.status = "running",
                                                              !.tries = j.tries + 1,
                                                              !.owner = w]}]
<1>1. IsJob(k) /\ WorkOf(k) = WorkOf(j)
  <2>1. IsJob(j)
    BY SoundParts DEF JobsFit
  <2> QED BY <2>1, JobChanges
<1>2. s2 = [s EXCEPT !.jobs = (s.jobs \ {j}) \cup {k}]
  BY DEF Claimed
<1> HIDE DEF k, s2
<1>3. jobs = (s.jobs \ {j}) \cup {k}
  BY DEF Rejobs
<1>4. f = [i \in P |-> f[i]] /\ \A i \in P : IsJob(f[i]) /\ WorkOf(f[i]) = WorkOf(i)
  BY <1>1
<1>5. P \subseteq s.jobs
  OBVIOUS
<1> HIDE DEF f, P
<1>6. Becomes(s, s2, s.batch, s.doc, s.chunk, s.cand, jobs)
  <2> HIDE DEF jobs
  <2> QED BY <1>2, <1>3, Replacing, SoundParts
<1>7. Rejobbed(s, s2, P, f)
  BY <1>4, <1>5, <1>6 DEF Rejobbed
<1>8. Sound(s2) /\ Advances(s, s2) /\ (Legal(s) => Legal(s2))
  BY <1>7, RejobbedAdvances
<1> QED BY <1>8 DEF s2, k

\* A retry puts jobs that were taken out back in line.
LEMMA RequeuedAdvances ==
    ASSUME NEW s, Sound(s), NEW P, P \subseteq s.jobs
    PROVE  LET s2 == [[s EXCEPT !.jobs = @ \ P] EXCEPT
                        !.jobs = @ \cup {[j EXCEPT !.status = "queued", !.owner = None]
                                         : j \in P}] IN
           Sound(s2) /\ Advances(s, s2)
<1> DEFINE f == [j \in P |-> [j EXCEPT !.status = "queued", !.owner = None]]
           jobs == Rejobs(s.jobs, P, f)
           out == [s EXCEPT !.jobs = @ \ P]
           s2 == [out EXCEPT
                    !.jobs = @ \cup {[j EXCEPT !.status = "queued", !.owner = None] : j \in P}]
<1>1. (s.jobs \ P) \cup {[j EXCEPT !.status = "queued", !.owner = None] : j \in P} = jobs
  BY DEF Rejobs
<1>2. f = [j \in P |-> f[j]]
  OBVIOUS
<1>3. ASSUME NEW j \in P PROVE IsJob(f[j]) /\ WorkOf(f[j]) = WorkOf(j)
  <2>1. IsJob(j)
    BY SoundParts DEF JobsFit
  <2>2. f[j] = Requeued(j)
    BY DEF Requeued
  <2> HIDE DEF f
  <2> QED BY <2>1, <2>2, JobChanges
<1>4. Becomes(s, out, s.batch, s.doc, s.chunk, s.cand, s.jobs \ P)
  <2>1. PICK rest : rest = s.jobs \ P
    OBVIOUS
  <2>2. out = [s EXCEPT !.jobs = rest]
    BY <2>1
  <2> HIDE DEF out
  <2>3. Becomes(s, out, s.batch, s.doc, s.chunk, s.cand, rest)
    BY <2>2, Replacing, SoundParts
  <2> QED BY <2>1, <2>3
<1>5. out.jobs = s.jobs \ P
  BY <1>4 DEF Becomes
<1>6. s2 = [out EXCEPT !.jobs = jobs]
  BY <1>1, <1>5
<1> HIDE DEF f, s2, out
<1>7. Becomes(s, s2, s.batch, s.doc, s.chunk, s.cand, jobs)
  <2> HIDE DEF jobs
  <2> QED BY <1>4, <1>6, ReplacingNext
<1>8. Rejobbed(s, s2, P, f)
  BY <1>2, <1>3, <1>7 DEF Rejobbed
<1>9. Sound(s2) /\ Advances(s, s2)
  BY <1>8, RejobbedAdvances
<1> QED BY <1>9 DEF s2, out

\* A transaction of the queue, and what becomes of the worker.
LEMMA QueueIsLawful ==
    ASSUME PipelineInv, Sound(db'), Legal(db'), Advances(db, db'), doomed' = doomed,
           \/ UNCHANGED worker
           \/ \E w \in Workers : worker' = [worker EXCEPT ![w] = Idle]
    PROVE  PipelineInv' /\ Fates(db, db')
<1>1. Lawful(db) /\ doomed' \subseteq Documents
  BY DEF PipelineInv, Lawful
<1>2. /\ Lawful(db') /\ Fates(db, db')
      /\ \A d \in Documents : db'.doc[d].genuine = db.doc[d].genuine
  BY <1>1, AdvancesFollows, FollowsIsLawful
<1>3. IsWorker(db', Idle)
  BY DEF IsWorker, Idle
<1> QED BY <1>1, <1>2, <1>3, WorkerMoves

\* What was reaped of the jobs is sound.
LEMMA ReapingsAdvance ==
    ASSUME NEW s, Sound(s), NEW s2 \in Reapings(s), Legal(s2)
    PROVE  Sound(s2) /\ Advances(s, s2)
<1>1. PICK spent \in SetToSeqs(Spent(s)) : s2 = Reaped(s, spent)
  BY DEF Reapings
<1> QED BY <1>1, ReapedAdvances

\* claimKinds.
LEMMA ClaimsAreLawful ==
    ASSUME PipelineInv, NEW w \in Workers, Claim(w) \/ ClaimNothing(w)
    PROVE  PipelineInv' /\ Fates(db, db')
<1>1. Sound(db) /\ Lawful(db) /\ doomed \subseteq Documents
  BY DEF PipelineInv, Lawful
<1>2. CASE Claim(w)
  <2>1. PICK s \in Reapings(db) : \E j \in s.jobs :
          /\ Legal(s)
          /\ db' = [s EXCEPT !.jobs = (@ \ {j}) \cup {[j EXCEPT !.status = "running",
                                                                !.tries = j.tries + 1,
                                                                !.owner = w]}]
          /\ worker' = [worker EXCEPT ![w] = [pc |-> "check", work |-> WorkOf(j)]]
          /\ doomed' = doomed
    BY <1>2, Zenon DEF Claim
  <2>2. PICK j \in s.jobs :
          /\ Legal(s)
          /\ db' = [s EXCEPT !.jobs = (@ \ {j}) \cup {[j EXCEPT !.status = "running",
                                                                !.tries = j.tries + 1,
                                                                !.owner = w]}]
          /\ worker' = [worker EXCEPT ![w] = [pc |-> "check", work |-> WorkOf(j)]]
          /\ doomed' = doomed
    BY <2>1
  <2>3. Sound(s) /\ Advances(db, s)
    BY <1>1, <2>2, ReapingsAdvance
  <2>4. PICK s2 : s2 = [s EXCEPT !.jobs = (@ \ {j}) \cup {[j EXCEPT !.status = "running",
                                                                    !.tries = j.tries + 1,
                                                                    !.owner = w]}]
    OBVIOUS
  <2>5. Sound(s2) /\ Advances(s, s2) /\ Legal(s2) /\ db' = s2
    BY <2>2, <2>3, <2>4, ClaimedAdvances
  <2>6. Advances(db, db') /\ Sound(db') /\ Legal(db')
    BY <2>3, <2>5, AdvancesAdd
  <2>7. /\ Lawful(db') /\ Fates(db, db')
        /\ \A d \in Documents : db'.doc[d].genuine = db.doc[d].genuine
    BY <1>1, <2>6, AdvancesFollows, FollowsIsLawful
  <2>8. /\ IsWork(WorkOf(j))
        /\ WorkOf(j).kind = "prepare" \/ s.doc[WorkOf(j).doc].genuine
    BY <2>3, JobsAreVetted
  <2>9. db'.doc[WorkOf(j).doc].genuine = s.doc[WorkOf(j).doc].genuine
    <3>1. WorkOf(j).doc \in Documents
      BY <2>8 DEF IsWork
    <3> QED BY <2>5, <3>1 DEF Advances, Onward, RowOnward
  <2>10. PICK x : x = [pc |-> "check", work |-> WorkOf(j)]
    OBVIOUS
  <2>11. x.pc = "check" /\ x.work = WorkOf(j) /\ x = [pc |-> x.pc, work |-> x.work]
    BY <2>10
  <2>12. IsWorker(db', x)
    BY <2>8, <2>9, <2>11 DEF IsWorker
  <2>13. worker' = [worker EXCEPT ![w] = x] /\ doomed' \subseteq Documents
    BY <1>1, <2>2, <2>10
  <2> QED BY <2>7, <2>12, <2>13, WorkerMoves
<1>3. CASE ClaimNothing(w)
  <2>1. PICK s \in Reapings(db) : Legal(s) /\ db' = s /\ worker' = worker /\ doomed' = doomed
    BY <1>3, Zenon DEF ClaimNothing
  <2>2. Sound(db') /\ Legal(db') /\ Advances(db, db')
    BY <1>1, <2>1, ReapingsAdvance
  <2> QED BY <2>1, <2>2, QueueIsLawful
<1> QED BY <1>2, <1>3

\* The database after the lease of a worker's job ran out.
Released(w) ==
    [db EXCEPT !.jobs = (@ \ Owned(db, w)) \cup {[j EXCEPT !.owner = None] : j \in Owned(db, w)}]

\* It is as sound as before.
LEMMA ReleasedIsSound ==
    ASSUME Sound(db), Legal(db), NEW w
    PROVE  Sound(Released(w)) /\ Advances(db, Released(w)) /\ Legal(Released(w))
<1>1. Owned(db, w) \subseteq db.jobs
  BY DEF Owned
<1>2. Released(w) = HandedOver(db, Owned(db, w), None)
  BY DEF Released, HandedOver
<1> QED BY <1>1, <1>2, Reowned

\* Leases that run out, and workers that die or give up.
LEMMA LossesAreLawful ==
    ASSUME PipelineInv, NEW w \in Workers, Crash(w) \/ Stall(w) \/ Abandon(w)
    PROVE  PipelineInv' /\ Fates(db, db')
<1>1. Sound(db) /\ Legal(db)
  BY DEF PipelineInv
<1>2. CASE Crash(w) \/ Stall(w)
  <2>1. db' = Released(w) /\ doomed' = doomed
        /\ (UNCHANGED worker \/ worker' = [worker EXCEPT ![w] = Idle])
    BY <1>2, Zenon DEF Crash, Stall, LoseLease, Released
  <2> QED BY <1>1, <2>1, ReleasedIsSound, QueueIsLawful
<1>3. CASE Abandon(w)
  <2>1. db' = db /\ doomed' = doomed /\ worker' = [worker EXCEPT ![w] = Idle]
    BY <1>3, Zenon DEF Abandon
  <2> QED BY <1>1, <2>1, Itself, QueueIsLawful
<1> QED BY <1>2, <1>3

\* Finishing a job, or leaving it to another claim.
LEMMA FinishIsLawful ==
    ASSUME PipelineInv, NEW w \in Workers, NEW s, Finish(w, s),
           Legal(s) => Sound(s) /\ Advances(db, s)
    PROVE  PipelineInv' /\ Fates(db, db')
<1>1. Sound(db) /\ Legal(db)
  BY DEF PipelineInv
<1>2. /\ \/ db' = db
         \/ Legal(s) /\ db' = s
         \/ db' = Released(w)
      /\ worker' = [worker EXCEPT ![w] = Idle]
      /\ doomed' = doomed
  BY DEF Finish, Released
<1>3. Sound(db') /\ Legal(db') /\ Advances(db, db')
  <2>1. CASE db' = db
    BY <1>1, <2>1, Itself
  <2>2. CASE Legal(s) /\ db' = s
    BY <2>2
  <2>3. CASE db' = Released(w)
    BY <1>1, <2>3, ReleasedIsSound
  <2> QED BY <1>2, <2>1, <2>2, <2>3
<1> QED BY <1>2, <1>3, QueueIsLawful

\* Complete and Retry.
LEMMA FinishesAreLawful ==
    ASSUME PipelineInv, NEW w \in Workers, Complete(w) \/ Retry(w)
    PROVE  PipelineInv' /\ Fates(db, db')
<1> DEFINE out == WithoutJob(w)
           P == Owned(db, w)
<1>1. Sound(db) /\ Legal(db) /\ P \subseteq db.jobs
  BY DEF PipelineInv, Owned
<1>2. out = [db EXCEPT !.jobs = @ \ P]
  BY DEF WithoutJob
<1> HIDE DEF P, out
<1>3. Becomes(db, out, db.batch, db.doc, db.chunk, db.cand, db.jobs \ P)
  <2>1. PICK rest : rest = db.jobs \ P
    OBVIOUS
  <2>2. out = [db EXCEPT !.jobs = rest]
    BY <1>2, <2>1
  <2>3. Becomes(db, out, db.batch, db.doc, db.chunk, db.cand, rest)
    BY <1>1, <2>2, Replacing, SoundParts
  <2> QED BY <2>1, <2>3
<1>4. Sound(out) /\ out.doc = db.doc /\ out.batch = db.batch
  <2>1. Sound(out)
    BY <1>1, <1>3, FewerIsSound
  <2>2. out.doc = db.doc /\ out.batch = db.batch
    BY <1>3 DEF Becomes
  <2> QED BY <2>1, <2>2
<1>5. CASE Complete(w)
  <2>1. Finish(w, Refresh(out))
    BY <1>5, Zenon DEF Complete, out
  <2>2. Onward(db.doc, out.doc)
    BY <1>4, SameDocuments
  <2>3. Sound(Refresh(out)) /\ (Legal(Refresh(out)) => Advances(db, Refresh(out)))
    BY <1>4, <2>2, RefreshAdvances
  <2> QED BY <2>1, <2>3, FinishIsLawful
<1>6. CASE Retry(w)
  <2> DEFINE v == worker[w].work
             back == [out EXCEPT
                        !.jobs = @ \cup {[j EXCEPT !.status = "queued", !.owner = None]
                                         : j \in P}]
  <2>1. worker[w].pc = "erred"
        /\ (Finish(w, MarkTerminalFailure(out, v)) \/ Finish(w, back))
    BY <1>6 DEF Retry, out, P
  <2>2. IsWork(v) /\ (v.kind = "prepare" \/ db.doc[v.doc].genuine)
    BY <2>1, WorkerIsVetted
  <2> HIDE DEF v
  <2>3. CASE Finish(w, MarkTerminalFailure(out, v))
    <3>1. PICK r : r = MarkTerminalFailure(out, v)
      OBVIOUS
    <3>2. Sound(r) /\ (Legal(r) => Advances(out, r))
      BY <1>4, <2>2, <3>1, MarkTerminalFailureAdvances
    <3>3. Advances(db, out)
      BY <1>4, SameBatch, SameDocuments
    <3>4. Finish(w, r)
      BY <2>3, <3>1
    <3> QED BY <3>2, <3>3, <3>4, AdvancesAdd, FinishIsLawful
  <2>4. CASE Finish(w, back)
    <3>1. Sound(back) /\ Advances(db, back)
      BY <1>1, <1>2, RequeuedAdvances
    <3> HIDE DEF back
    <3> QED BY <2>4, <3>1, FinishIsLawful
  <2> QED BY <2>1, <2>3, <2>4
<1> QED BY <1>5, <1>6

\* The user resolves a candidate.
LEMMA ResolutionIsLawful ==
    ASSUME PipelineInv, Resolution(db, db'), UNCHANGED <<worker, doomed>>
    PROVE  PipelineInv' /\ Fates(db, db')
<1>1. Sound(db) /\ Legal(db)
  BY DEF PipelineInv
<1>2. Sound(db') /\ Legal(db') /\ Advances(db, db')
  BY <1>1, SameBatch DEF Resolution
<1> QED BY <1>2, QueueIsLawful

\* ResolveBulkCandidate in its four forms.
LEMMA ResolutionsAreLawful ==
    ASSUME PipelineInv, NEW c \in db.cand,
           \/ SetAccount(c) \/ Create(c) \/ CreateTransfer(c)
           \/ \E t \in db.ledger : Attach(c, t)
    PROVE  PipelineInv' /\ Fates(db, db')
<1>1. Sound(db)
  BY DEF PipelineInv
<1>2. c.status \in {"pending", "review"} /\ UNCHANGED <<worker, doomed>>
  BY DEF SetAccount, Create, CreateTransfer, Attach, Resolvable
<1>3. CASE SetAccount(c)
  <2>1. db' = Resolved(Insert([db EXCEPT !.cand =
                                  (@ \ {c}) \cup {[c EXCEPT !.status = "pending"]}],
                              Work("reconcile", c.doc, c.gen, c.cut, c.n)), c)
    BY <1>3, Zenon DEF SetAccount
  <2>2. Resolution(db, db')
    BY <1>1, <1>2, <2>1, SetAccountIsSound
  <2> QED BY <1>2, <2>2, ResolutionIsLawful
<1>4. CASE Create(c)
  <2>1. db' = Resolved(Outcome(AddEvidence(NewTransaction(db, c, "user"), c, Key(c)),
                               c, "created", Key(c)), c)
    BY <1>4, Zenon DEF Create
  <2>2. Resolution(db, db')
    BY <1>1, <1>2, <2>1, CreateIsSound
  <2> QED BY <1>2, <2>2, ResolutionIsLawful
<1>5. CASE CreateTransfer(c)
  <2> DEFINE credit == Append(Key(c), "credit")
             legs == [NewTransaction(db, c, "user") EXCEPT
                        !.ledger = @ \cup {[id |-> credit, what |-> None, by |-> "user"]}]
  <2>1. db' = Resolved(Outcome(AddEvidence(AddEvidence(legs, c, Key(c)), c, credit),
                               c, "created", Key(c)), c)
    BY <1>5, Zenon DEF CreateTransfer
  <2>2. Resolution(db, Resolved(Outcome(AddEvidence(AddEvidence(legs, c, Key(c)), c, credit),
                                        c, "created", Key(c)), c))
    BY <1>1, <1>2, CreateTransferIsSound
  <2>3. Resolution(db, db')
    BY <2>1, <2>2, Zenon
  <2> QED BY <1>2, <2>3, ResolutionIsLawful
<1>6. CASE \E t \in db.ledger : Attach(c, t)
  <2>1. PICK t \in db.ledger : Attach(c, t)
    BY <1>6
  <2>2. /\ db' = Resolved(Outcome(AddEvidence(db, c, t.id), c, "attached", t.id), c)
        /\ EvidenceFree(db, c, t.id)
    BY <2>1, Zenon DEF Attach
  <2>3. Resolution(db, db')
    BY <1>1, <1>2, <2>2, AttachIsSound
  <2> QED BY <1>2, <2>3, ResolutionIsLawful
<1> QED BY <1>3, <1>4, <1>5, <1>6

\* The user cancels the batch.
LEMMA CancelIsLawful ==
    ASSUME PipelineInv, CancelBatch
    PROVE  PipelineInv' /\ Fates(db, db')
<1>1. Sound(db)
  BY DEF PipelineInv
<1> DEFINE target == CancellationTarget(db)
           struck == IF target = "cancelled" THEN Active ELSE {"queued"}
           new == [db EXCEPT
                     !.batch = [@ EXCEPT !.status = target, !.done = (target = "cancelled")],
                     !.jobs = {j \in @ : j.status # "queued"},
                     !.doc = [d \in Documents |->
                                IF @[d].status \in struck
                                THEN [@[d] EXCEPT !.status = "cancelled", !.done = TRUE]
                                ELSE @[d]]]
<1>2. /\ db.batch.status \in {"queued", "running", "cancelling", "cancelled"}
      /\ Legal(new) /\ db' = new
      /\ worker' = worker /\ doomed' = doomed
  BY Zenon DEF CancelBatch
<1>3. Sound(new) /\ Advances(db, new)
  BY <1>1, <1>2, CancelBatchAdvances
<1> HIDE DEF new
<1> QED BY <1>2, <1>3, QueueIsLawful

\* The user retries a document.
LEMMA RetryDocumentIsLawful ==
    ASSUME PipelineInv, NEW d \in Documents, RetryDocument(d)
    PROVE  PipelineInv' /\ Fates(db, db')
<1>1. Lawful(db) /\ doomed \subseteq Documents
  BY DEF PipelineInv, Lawful
<1> DEFINE y == Insert([db EXCEPT !.doc[d] = [@ EXCEPT !.status = "queued",
                                                       !.gen = db.doc[d].gen + 1,
                                                       !.started = FALSE, !.done = FALSE]],
                       Work("prepare", d, db.doc[d].gen + 1, 0, 0))
<1>2. db' = y /\ worker' = worker /\ doomed' = doomed /\ db.doc[d].gen < MaxGenerations
  BY Zenon DEF RetryDocument
<1>3. Sound(y) /\ Legal(y) /\ Touches(db, y, d) /\ y.doc[d].gen = db.doc[d].gen + 1
  BY <1>1, <1>2, RetryIsSound DEF Lawful
<1> HIDE DEF y
<1>4. /\ Lawful(db') /\ Fates(db, db')
      /\ \A e \in Documents : db'.doc[e].genuine = db.doc[e].genuine
  BY <1>1, <1>2, <1>3, TouchesIsLawful
<1> QED BY <1>1, <1>2, <1>4, WorkerMoves

\* The user deletes a document, in two steps.
LEMMA DeletionIsLawful ==
    ASSUME PipelineInv, NEW d \in Documents, AskDeletion(d) \/ StageDeletion(d)
    PROVE  PipelineInv' /\ Fates(db, db')
<1>1. Lawful(db) /\ doomed \subseteq Documents
  BY DEF PipelineInv, Lawful
<1>2. CASE AskDeletion(d)
  <2>1. db' = db /\ worker' = worker /\ doomed' = doomed \cup {d}
    BY <1>2, Zenon DEF AskDeletion
  <2>2. Fates(db, db') /\ Lawful(db') /\ doomed' \subseteq Documents
    BY <1>1, <2>1 DEF Fates
  <2>3. \A e \in Documents : db'.doc[e].genuine = db.doc[e].genuine
    BY <2>1
  <2> QED BY <2>1, <2>2, <2>3, WorkerMoves
<1>3. CASE StageDeletion(d)
  <2> DEFINE y == [db EXCEPT
                     !.doc[d].status = "deleted",
                     !.chunk[d] = [g \in Generations |-> [i \in 1..Chunks |->
                                     [status |-> "absent", answer |-> None]]],
                     !.cand = {c \in @ : c.doc # d},
                     !.jobs = {j \in @ : j.doc # d},
                     !.link = {l \in db.link : l.doc # d},
                     !.ledger = @ \ Orphans(db, d)]
  <2>1. db' = y /\ worker' = worker /\ doomed' = doomed \ {d}
    BY <1>3, Zenon DEF StageDeletion, Orphans
  <2>2. Sound(y) /\ Legal(y) /\ Touches(db, y, d) /\ Removed(db, y, d)
    BY <1>1, DeletionIsSound DEF Lawful
  <2> HIDE DEF y
  <2>3. /\ Lawful(db') /\ Fates(db, db')
        /\ \A e \in Documents : db'.doc[e].genuine = db.doc[e].genuine
    BY <1>1, <2>1, <2>2, TouchesIsLawful DEF Removed
  <2>4. doomed' \subseteq Documents
    BY <1>1, <2>1
  <2> QED BY <2>1, <2>3, <2>4, WorkerMoves
<1> QED BY <1>2, <1>3

----------------------------------------------------------------------------
(* The batch as SubmitBatch left it.                                       *)

\* Its prepare jobs, one for each document.
LEMMA FirstJobs ==
    ASSUME NEW jobs, jobs = {Queued(Work("prepare", d, 1, 0, 0)) : d \in Documents}
    PROVE  JobsFit(jobs) /\ \A j \in jobs : j.kind = "prepare"
<1> DEFINE first == [d \in Documents |-> Queued(Work("prepare", d, 1, 0, 0))]
<1>1. IsFiniteSet({first[d] : d \in Documents})
  <2>1. first = [d \in Documents |-> first[d]] /\ IsFiniteSet(Documents)
    BY SizesAssumption
  <2> HIDE DEF first
  <2> QED BY <2>1, ImageIsFinite
<1>2. jobs = {first[d] : d \in Documents}
  OBVIOUS
<1>3. 1 \in Generations
  BY SizesAssumption DEF Generations
<1>4. ASSUME NEW d \in Documents
      PROVE  LET j == Queued(Work("prepare", d, 1, 0, 0)) IN
             IsJob(j) /\ j.kind = "prepare" /\ WorkOf(j) = Work("prepare", d, 1, 0, 0)
                /\ j.doc = d
  BY <1>3 DEF Queued, Work, WorkOf, IsJob, IsWork, Kinds
<1>5. \A j, k \in jobs : WorkOf(j) = WorkOf(k) => j = k
  BY <1>4 DEF Work
<1> QED BY <1>1, <1>2, <1>4, <1>5 DEF JobsFit

\* What the ledger holds was there before.
LEMMA FirstLedger ==
    ASSUME NEW ledger,
           ledger = {[id |-> <<None, 0, 0, p>>, what |-> p, by |-> "known"] : p \in Known}
    PROVE  /\ Single(ledger)
           /\ \A t \in ledger : t.id[2] = 0 /\ t.id[3] = 0
BY DEF Single

\* The invariant holds at first.
LEMMA InitIsLawful == Init => PipelineInv
<1> SUFFICES ASSUME Init PROVE PipelineInv
  OBVIOUS
<1>1. PICK genuine \in [Documents -> Verdicts] :
        db = [batch  |-> [status |-> "queued", started |-> FALSE, done |-> FALSE],
              doc    |-> [d \in Documents |->
                            [status |-> "queued", gen |-> 1, cut |-> 0,
                             started |-> FALSE, done |-> FALSE, errors |-> FALSE,
                             files |-> TRUE, genuine |-> genuine[d]]],
              chunk  |-> [d \in Documents |-> [g \in Generations |-> [i \in 1..Chunks |->
                            [status |-> "absent", answer |-> None]]]],
              cand   |-> {},
              jobs   |-> {Queued(Work("prepare", d, 1, 0, 0)) : d \in Documents},
              ledger |-> {[id |-> <<None, 0, 0, p>>, what |-> p, by |-> "known"]
                          : p \in Known},
              link   |-> {}]
  BY Zenon DEF Init
<1>2. IsDatabase(db)
  BY <1>1 DEF IsDatabase
<1>3. db.batch \in BatchRow /\ db.batch.status = "queued" /\ BatchLifecycle(db.batch)
  BY <1>1 DEF BatchRow, BatchStatus, BatchLifecycle
<1>4. /\ db.doc \in [Documents -> DocumentRow]
      /\ \A d \in Documents : /\ db.doc[d].status = "queued" /\ ~db.doc[d].done
                              /\ db.doc[d].gen = 1 /\ db.doc[d].cut = 0
  <2>1. 1 \in Generations /\ \A d \in Documents : genuine[d] \in BOOLEAN
    BY SizesAssumption DEF Generations
  <2>2. db.doc = [d \in Documents |->
                    [status |-> "queued", gen |-> 1, cut |-> 0,
                     started |-> FALSE, done |-> FALSE, errors |-> FALSE,
                     files |-> TRUE, genuine |-> genuine[d]]]
    BY <1>1
  <2> QED BY <2>1, <2>2 DEF DocumentRow, DocumentStatus, Active
<1>5. db.chunk \in [Documents -> [Generations -> [1..Chunks -> ChunkRow]]]
  <2>1. [status |-> "absent", answer |-> None] \in ChunkRow
    BY DEF ChunkRow, ChunkStatus
  <2>2. db.chunk = [d \in Documents |-> [g \in Generations |-> [i \in 1..Chunks |->
                      [status |-> "absent", answer |-> None]]]]
    BY <1>1
  <2> QED BY <2>1, <2>2
<1>6. JobsFit(db.jobs) /\ \A j \in db.jobs : j.kind = "prepare"
  <2>1. db.jobs = {Queued(Work("prepare", d, 1, 0, 0)) : d \in Documents}
    BY <1>1
  <2> QED BY <2>1, FirstJobs
<1>7. /\ Single(db.ledger)
      /\ \A t \in db.ledger : t.id[2] = 0 /\ t.id[3] = 0
  <2>1. db.ledger = {[id |-> <<None, 0, 0, p>>, what |-> p, by |-> "known"] : p \in Known}
    BY <1>1
  <2> QED BY <2>1, FirstLedger
<1>8. db.cand = {} /\ db.link = {}
  BY <1>1
<1>9. Shape(db)
  BY <1>2, <1>3, <1>4, <1>5, <1>6, <1>8 DEF Shape, CandidatesFit
<1>10. NamesFit(db.doc, db.cand, db.ledger)
  BY <1>4, <1>7 DEF NamesFit
<1>11. Evidenced(db.doc, db.cand, db.ledger, db.link)
  BY <1>7, <1>8, <1>10 DEF Evidenced, KeysFit, OwnIsCreated, LinksFit, Settled
<1>12. Vetted(db.doc, db.cand, db.jobs)
  BY <1>4, <1>6, <1>8 DEF Vetted, Unread
<1>13. Sound(db)
  BY <1>9, <1>11, <1>12 DEF Sound
<1>14. Legal(db)
  BY <1>3, <1>4 DEF Legal, DocumentLifecycle
<1>15. Quiet(db)
  BY <1>3 DEF Quiet, Closed
<1>16. worker = [w \in Workers |-> Idle] /\ doomed = {}
  BY DEF Init
<1>17. WorkersFit
  BY <1>16 DEF WorkersFit, IsWorker, Idle
<1> QED BY <1>13, <1>14, <1>15, <1>16, <1>17 DEF PipelineInv

----------------------------------------------------------------------------
(* The pipeline.                                                           *)

\* Every step keeps the invariant and the fates of the documents.
LEMMA StepIsLawful ==
    ASSUME PipelineInv, [Next]_vars
    PROVE  PipelineInv' /\ Fates(db, db')
<1>1. ASSUME NEW w \in Workers, HandlerStep(w)
      PROVE  PipelineInv' /\ Fates(db, db')
  BY <1>1, PrepareStepsAreLawful, ParseStepsAreLawful, SettlingStepsAreLawful DEF HandlerStep
<1>2. ASSUME NEW w \in Workers, QueueStep(w)
      PROVE  PipelineInv' /\ Fates(db, db')
  BY <1>2, ClaimsAreLawful, FinishesAreLawful DEF QueueStep
<1>3. ASSUME NEW w \in Workers, Crash(w) \/ Stall(w) \/ Abandon(w)
      PROVE  PipelineInv' /\ Fates(db, db')
  BY <1>3, LossesAreLawful
<1>4. CASE Request
  BY <1>4, CancelIsLawful, RetryDocumentIsLawful, DeletionIsLawful, ResolutionsAreLawful
     DEF Request
<1>5. CASE UNCHANGED vars
  <2>1. db' = db /\ worker' = worker /\ doomed' = doomed
    BY <1>5 DEF vars
  <2>2. Lawful(db) /\ doomed \subseteq Documents
    BY DEF PipelineInv, Lawful
  <2>3. Lawful(db') /\ Fates(db, db') /\ doomed' \subseteq Documents
    BY <2>1, <2>2 DEF Fates
  <2>4. \A d \in Documents : db'.doc[d].genuine = db.doc[d].genuine
    BY <2>1
  <2> QED BY <2>1, <2>3, <2>4, WorkerMoves
<1> QED BY <1>1, <1>2, <1>3, <1>4, <1>5 DEF Next

\* The pipeline's invariant holds of every reachable state: rows fit their
\* tables and constraints, settled candidates have their evidence, documents
\* that fail verification get nowhere, and handlers are where they may be.
THEOREM PipelineIsLawful == Spec => []PipelineInv
<1>1. PipelineInv /\ [Next]_vars => PipelineInv'
  BY StepIsLawful
<1> QED BY <1>1, InitIsLawful, PTL DEF Spec

\* Every row is in a state the tables allow, and a piece of work has one job:
\* no handler, refresh, reaping or request commits anything else.
THEOREM RowsFitTheirTables == Spec => []TypeOK
<1>1. PipelineInv => TypeOK
  <2> SUFFICES ASSUME PipelineInv PROVE TypeOK
    OBVIOUS
  <2>1. /\ Shape(db) /\ Legal(db) /\ doomed \subseteq Documents
    BY DEF PipelineInv, Sound
  <2>2. db.batch \in [status : BatchStatus, started : BOOLEAN, done : BOOLEAN]
    BY <2>1 DEF Shape, BatchRow
  <2>3. \A d \in Documents : /\ db.doc[d].status \in DocumentStatus
                             /\ db.doc[d].gen \in Generations
    BY <2>1 DEF Shape, DocumentRow
  <2>4. \A d \in Documents : \A g \in Generations : \A i \in 1..Chunks :
           db.chunk[d][g][i].status \in ChunkStatus
    <3>1. \A d \in Documents : \A g \in Generations : \A i \in 1..Chunks :
             db.chunk[d][g][i] \in ChunkRow
      <4>1. db.chunk \in [Documents -> [Generations -> [1..Chunks -> ChunkRow]]]
        BY <2>1 DEF Shape
      <4>2. \A d \in Documents : db.chunk[d] \in [Generations -> [1..Chunks -> ChunkRow]]
        BY <4>1
      <4> QED BY <4>2
    <3>2. \A r \in ChunkRow : r.status \in ChunkStatus
      BY DEF ChunkRow
    <3> QED BY <3>1, <3>2, Zenon
  <2>5. \A c \in db.cand : c.status \in CandidateStatus
    BY <2>1 DEF Shape, CandidatesFit, IsCandidate
  <2>6. \A j, k \in db.jobs : WorkOf(j) = WorkOf(k) => j = k
    BY <2>1 DEF Shape, JobsFit
  <2> QED BY <2>1, <2>2, <2>3, <2>4, <2>5, <2>6 DEF TypeOK
<1> QED BY <1>1, PipelineIsLawful, PTL

\* The workers never create a second transaction for a purchase, over any
\* number of documents, generations, lost leases and requests.
THEOREM PurchasesAreCreatedOnce == Spec => []OneTransactionPerPurchase
<1>1. PipelineInv => OneTransactionPerPurchase
  BY DEF PipelineInv, Sound, Evidenced, Single, OneTransactionPerPurchase
<1> QED BY <1>1, PipelineIsLawful, PTL

\* What reads created or attached has its transaction and its evidence row,
\* whatever was retried, resolved or deleted.
THEOREM SettledIsEvidenced == Spec => []SettledHasEvidence
<1>1. PipelineInv => SettledHasEvidence
  BY DEF PipelineInv, Sound, Evidenced, Settled, SettledHasEvidence
<1> QED BY <1>1, PipelineIsLawful, PTL

\* A batch that reads finished has no first generation at work.
THEOREM FinishedBatchIsQuiet == Spec => []ClosedBatchIsQuiet
<1>1. PipelineInv => ClosedBatchIsQuiet
  BY DEF PipelineInv, Quiet, Closed, ClosedBatchIsQuiet
<1> QED BY <1>1, PipelineIsLawful, PTL

\* No late handler, refresh or reaping takes a document out of the status it
\* ended in: only a retry, to a new generation, and a deletion do.
THEOREM EndedDocumentsStay == Spec => TerminalDocumentsStay
<1>1. ASSUME PipelineInv, [Next]_vars
      PROVE  [\A d \in Documents : db.doc[d].status \in Finished =>
                \/ db'.doc[d].status \in {db.doc[d].status, "deleted"}
                \/ db'.doc[d].gen > db.doc[d].gen]_vars
  BY <1>1, StepIsLawful DEF Fates
<1> QED BY <1>1, PipelineIsLawful, PTL DEF Spec, TerminalDocumentsStay

----------------------------------------------------------------------------
(* Every job is done once.                                                 *)
(*                                                                         *)
(* While no lease was lost and no document retried, a row is held by the   *)
(* one worker that has its work, and what it is about is still to be done  *)
(* until that worker has done it: a document is cut once, a chunk is read  *)
(* once, and what was read is aggregated once, after the last chunk.       *)

Waiting == {"queued", "parsing"}

Aggregated == {"reconciling", "completed", "completed_with_errors"}

\* Where a handler may be with a job of the kind.
Places(kind) ==
    {"check", "succeeded", "erred", kind} \cup
    CASE kind = "prepare" -> {"render", "pages"}
      [] kind = "chunk" -> {"parse", "answer"}
      [] kind = "post" -> {"settle"}
      [] OTHER -> {}

Running(j, w) == j.status = "running" /\ j.owner = w

\* A row waits, or runs under the worker that has its work.
JobsHeld(s, x) ==
    \A j \in s.jobs :
       \/ j.status = "queued"
       \/ /\ j.status = "running"
          /\ j.owner \in Workers
          /\ x[j.owner].pc # "idle"
          /\ x[j.owner].work = WorkOf(j)

\* A handler has a row, unless its document was deleted.
WorkersHold(s, x) ==
    \A w \in Workers : x[w].pc # "idle" =>
       /\ x[w].pc \in Places(x[w].work.kind)
       /\ \/ s.doc[x[w].work.doc].status = "deleted"
          \/ \E j \in s.jobs : Running(j, w)

Held(s, x) == JobsHeld(s, x) /\ WorkersHold(s, x)

\* Rows whose handler has not done what they are about.
IsOpen(j, x) == j.status = "running" => x[j.owner].pc # "succeeded"

OpenWork(s, x) == {WorkOf(j) : j \in {k \in s.jobs : IsOpen(k, x)}}

AllFirst(s) == \A d \in Documents : s.doc[d].gen = 1

Cell(s, d, i) == s.chunk[d][1][i]

NoneWaits(s, d) == \A i \in 1..Chunks : Cell(s, d, i).status \notin Waiting

HasCandidate(s, d, answer) == \E c \in s.cand : c.doc = d /\ c.what = answer.what

\* What was read of a document is in its candidates.
Read(s, d) ==
    /\ NoneWaits(s, d)
    /\ \A i \in 1..Chunks :
          Cell(s, d, i).answer # None => HasCandidate(s, d, Cell(s, d, i).answer)

\* Work that is named after the document or its present cut.
Named(s, w) ==
    /\ w.gen = 1
    /\ w.kind \in {"prepare", "aggregate"} => w.cut = 0 /\ w.n = 0
    /\ w.kind = "chunk" => w.n \in 1..Chunks /\ w.cut = s.doc[w.doc].cut

\* What is about to be done was not done yet.
Ahead(s, w) ==
    /\ w.kind = "prepare" => /\ \A j \in s.jobs : j.doc = w.doc => j.kind = "prepare"
                             /\ \A c \in s.cand : c.doc # w.doc
    /\ w.kind = "chunk" => /\ Cell(s, w.doc, w.n).status \in Waiting
                           /\ Cell(s, w.doc, w.n).answer = None
    /\ w.kind = "aggregate" => \A c \in s.cand : c.doc # w.doc

\* What was done is complete.
Behind(s) ==
    /\ \A d \in Documents : \A i \in 1..Chunks :
          Cell(s, d, i).answer # None => Cell(s, d, i).status = "valid"
    /\ \A d \in Documents :
          s.doc[d].status \in Aggregated \/ (\E c \in s.cand : c.doc = d) => Read(s, d)
    /\ \A j \in s.jobs : j.kind = "aggregate" => NoneWaits(s, j.doc)

Staged(s, open) ==
    /\ \A j \in s.jobs : Named(s, WorkOf(j))
    /\ \A w \in open : Ahead(s, w)
    /\ Behind(s)

Once(s, x) == Held(s, x) /\ Staged(s, OpenWork(s, x))

----------------------------------------------------------------------------
(* Transactions that read nothing again.                                   *)

\* The documents for which there has been more than their preparation.
Past(s) ==
    {d \in Documents : \/ \E c \in s.cand : c.doc = d
                       \/ \E j \in s.jobs : j.doc = d /\ j.kind # "prepare"}

\* A row that is inserted after the aggregation.
Later(j, D) ==
    /\ j.status = "queued"
    /\ j.kind \in {"reconcile", "post"}
    /\ j.gen = 1
    /\ j.doc \in D

Stays(row, new) ==
    /\ new.gen = row.gen
    /\ new.cut = row.cut
    /\ row.status = "deleted" => new.status = "deleted"
    /\ new.status \in Aggregated => row.status \in Aggregated

DocumentsStay(doc, new) == \A d \in Documents : Stays(doc[d], new[d])

\* The same purchases of the same documents.
SamePurchases(cand, new) ==
    /\ \A k \in new : \E c \in cand : k.doc = c.doc /\ k.what = c.what
    /\ \A c \in cand : \E k \in new : k.doc = c.doc /\ k.what = c.what

\* The running rows but for P are left, and new ones come after the aggregation.
JobsGoOn(jobs, new, P, D) ==
    /\ \A j \in new : j \in jobs \ P \/ Later(j, D)
    /\ \A j \in jobs \ P : j.status = "running" => j \in new

Continues(s, s2, P, D) ==
    /\ s2.chunk = s.chunk
    /\ DocumentsStay(s.doc, s2.doc)
    /\ SamePurchases(s.cand, s2.cand)
    /\ JobsGoOn(s.jobs, s2.jobs, P, D)

\* One after the other.
LEMMA ContinuesAdd ==
    ASSUME NEW a, NEW b, NEW c, NEW P, NEW D, Continues(a, b, P, D), Continues(b, c, {}, D)
    PROVE  Continues(a, c, P, D)
<1>1. DocumentsStay(a.doc, c.doc)
  BY DEF Continues, DocumentsStay, Stays
<1>2. SamePurchases(a.cand, c.cand)
  <2>1. SamePurchases(a.cand, b.cand) /\ SamePurchases(b.cand, c.cand)
    BY DEF Continues
  <2>2. \A k \in c.cand : \E e \in a.cand : k.doc = e.doc /\ k.what = e.what
    BY <2>1 DEF SamePurchases
  <2>3. \A e \in a.cand : \E k \in c.cand : k.doc = e.doc /\ k.what = e.what
    BY <2>1 DEF SamePurchases
  <2> QED BY <2>2, <2>3 DEF SamePurchases
<1>3. JobsGoOn(a.jobs, c.jobs, P, D)
  <2>1. JobsGoOn(a.jobs, b.jobs, P, D) /\ JobsGoOn(b.jobs, c.jobs, {}, D)
    BY DEF Continues
  <2> QED BY <2>1 DEF JobsGoOn
<1> QED BY <1>1, <1>2, <1>3 DEF Continues

\* A database continues as it is, and with documents that stay.
LEMMA Staying ==
    ASSUME NEW cand, NEW jobs, NEW doc, NEW D
    PROVE  SamePurchases(cand, cand) /\ JobsGoOn(jobs, jobs, {}, D) /\ DocumentsStay(doc, doc)
BY DEF SamePurchases, JobsGoOn, DocumentsStay, Stays

\* What of it a transaction replaces.
LEMMA ContinuesBy ==
    ASSUME NEW s, NEW s2, NEW batch, NEW doc, NEW cand, NEW jobs, NEW P, NEW D,
           Becomes(s, s2, batch, doc, s.chunk, cand, jobs),
           DocumentsStay(s.doc, doc), SamePurchases(s.cand, cand), JobsGoOn(s.jobs, jobs, P, D)
    PROVE  Continues(s, s2, P, D)
BY DEF Becomes, Continues

----------------------------------------------------------------------------
(* Transactions about a chunk.                                             *)

\* The row of an aggregation, queued when no chunk waits.
Ready(j, s, X) ==
    /\ j.status = "queued"
    /\ WorkOf(j) = Work("aggregate", j.doc, 1, 0, 0)
    /\ j.kind = "aggregate"
    /\ NoneWaits(s, j.doc)
    /\ \E w \in X : w.kind = "chunk" /\ w.doc = j.doc

About(X, d, i) == \E w \in X : w.kind = "chunk" /\ w.doc = d /\ w.n = i

\* The chunks of X are written, the rows of P are done with.
Carries(s, s2, X, P, D) ==
    /\ DocumentsStay(s.doc, s2.doc)
    /\ SamePurchases(s.cand, s2.cand)
    /\ \A d \in Documents : \A i \in 1..Chunks :
          \/ Cell(s2, d, i) = Cell(s, d, i)
          \/ /\ About(X, d, i)
             /\ Cell(s2, d, i).answer # None => Cell(s2, d, i).status = "valid"
    /\ \A j \in s2.jobs : j \in s.jobs \ P \/ Later(j, D) \/ Ready(j, s2, X)
    /\ \A j \in s.jobs \ P : j.status = "running" => j \in s2.jobs

\* What continues carries no chunk.
LEMMA ContinuesCarries ==
    ASSUME NEW s, NEW s2, NEW P, NEW D, Continues(s, s2, P, D), NEW X
    PROVE  Carries(s, s2, X, P, D)
BY DEF Continues, Carries, JobsGoOn, Cell

\* A chunk is written, and then the transaction continues.
LEMMA CarriesThen ==
    ASSUME NEW a, NEW b, NEW c, NEW X, NEW P, NEW D,
           Carries(a, b, X, P, D), Continues(b, c, {}, D)
    PROVE  Carries(a, c, X, P, D)
<1>1. DocumentsStay(a.doc, c.doc)
  BY DEF Carries, Continues, DocumentsStay, Stays
<1>2. SamePurchases(a.cand, c.cand)
  <2>1. SamePurchases(a.cand, b.cand) /\ SamePurchases(b.cand, c.cand)
    BY DEF Continues, Carries
  <2>2. \A k \in c.cand : \E e \in a.cand : k.doc = e.doc /\ k.what = e.what
    BY <2>1 DEF SamePurchases
  <2>3. \A e \in a.cand : \E k \in c.cand : k.doc = e.doc /\ k.what = e.what
    BY <2>1 DEF SamePurchases
  <2> QED BY <2>2, <2>3 DEF SamePurchases
<1>3. c.chunk = b.chunk /\ JobsGoOn(b.jobs, c.jobs, {}, D)
  BY DEF Continues
<1>4. \A d : \A i : Cell(c, d, i) = Cell(b, d, i)
  BY <1>3 DEF Cell
<1>5. \A j : Ready(j, b, X) => Ready(j, c, X)
  BY <1>4 DEF Ready, NoneWaits
<1>6. \A j \in c.jobs : j \in a.jobs \ P \/ Later(j, D) \/ Ready(j, c, X)
  BY <1>3, <1>5 DEF Carries, JobsGoOn
<1>7. \A j \in a.jobs \ P : j.status = "running" => j \in c.jobs
  BY <1>3 DEF Carries, JobsGoOn
<1>8. \A d \in Documents : \A i \in 1..Chunks :
         \/ Cell(c, d, i) = Cell(a, d, i)
         \/ /\ About(X, d, i)
            /\ Cell(c, d, i).answer # None => Cell(c, d, i).status = "valid"
  BY <1>4 DEF Carries
<1> QED BY <1>1, <1>2, <1>6, <1>7, <1>8 DEF Carries

\* A chunk that is written was waiting, so its document has no candidate and
\* is not aggregated.
LEMMA WrittenWaits ==
    ASSUME NEW s, NEW open, Staged(s, open), NEW X, X \subseteq open,
           JobsFit(s.jobs), \A w \in open : \E j \in s.jobs : w = WorkOf(j),
           NEW w \in X, w.kind = "chunk"
    PROVE  /\ w.doc \in Documents /\ w.n \in 1..Chunks
           /\ w = Work("chunk", w.doc, 1, s.doc[w.doc].cut, w.n)
           /\ Cell(s, w.doc, w.n).status \in Waiting
           /\ Cell(s, w.doc, w.n).answer = None
           /\ ~NoneWaits(s, w.doc)
           /\ s.doc[w.doc].status \notin Aggregated
           /\ \A c \in s.cand : c.doc # w.doc
           /\ w.doc \in Past(s)
<1>1. PICK j \in s.jobs : w = WorkOf(j)
  OBVIOUS
<1>2. /\ IsWork(w) /\ j.doc = w.doc /\ j.kind = w.kind /\ w.doc \in Documents
  BY <1>1, JobParts DEF JobsFit
<1>3. w.gen = 1 /\ w.n \in 1..Chunks /\ w.cut = s.doc[w.doc].cut
  BY <1>1 DEF Staged, Named
<1>4. w = Work("chunk", w.doc, 1, s.doc[w.doc].cut, w.n)
  BY <1>2, <1>3 DEF IsWork
<1>5. Cell(s, w.doc, w.n).status \in Waiting /\ Cell(s, w.doc, w.n).answer = None
  BY DEF Staged, Ahead
<1>6. ~NoneWaits(s, w.doc)
  BY <1>3, <1>5 DEF NoneWaits
<1>7. ~Read(s, w.doc)
  BY <1>6 DEF Read
<1>8. s.doc[w.doc].status \notin Aggregated /\ \A c \in s.cand : c.doc # w.doc
  BY <1>2, <1>7 DEF Staged, Behind
<1>9. w.doc \in Past(s)
  BY <1>2 DEF Past
<1> QED BY <1>2, <1>3, <1>4, <1>5, <1>6, <1>8, <1>9

\* The stages of the documents after a transaction that carries them on.
LEMMA StagedCarries ==
    ASSUME NEW s, NEW s2, NEW open, NEW open2, NEW X, NEW P,
           JobsFit(s.jobs), JobsFit(s2.jobs),
           Staged(s, open), Carries(s, s2, X, P, Past(s)), X \subseteq open,
           \A w \in open : \E j \in s.jobs : w = WorkOf(j),
           \A w \in open2 : \E j \in s2.jobs : w = WorkOf(j) /\ (j \in s.jobs => w \in open),
           \A w \in X : w.kind = "chunk" /\ w \in open2 => Ahead(s2, w)
    PROVE  Staged(s2, open2)
<1>1. ASSUME NEW w \in X, w.kind = "chunk"
      PROVE  /\ w.doc \in Documents /\ w.n \in 1..Chunks
             /\ w = Work("chunk", w.doc, 1, s.doc[w.doc].cut, w.n)
             /\ Cell(s, w.doc, w.n).status \in Waiting
             /\ ~NoneWaits(s, w.doc)
             /\ s.doc[w.doc].status \notin Aggregated
             /\ \A c \in s.cand : c.doc # w.doc
             /\ w.doc \in Past(s)
  BY <1>1, WrittenWaits
<1>2. \A j \in s2.jobs : j \in s.jobs \/ Later(j, Past(s)) \/ Ready(j, s2, X)
  BY DEF Carries
<1>3. \A j \in s.jobs \cup s2.jobs :
         /\ IsJob(j) /\ IsWork(WorkOf(j))
         /\ WorkOf(j).kind = j.kind /\ WorkOf(j).doc = j.doc /\ WorkOf(j).gen = j.gen
         /\ WorkOf(j).cut = j.cut /\ WorkOf(j).n = j.n
         /\ j.doc \in Documents /\ j.gen \in Generations
  BY JobParts DEF JobsFit
<1>4. \A k \in s2.cand : \E c \in s.cand : k.doc = c.doc /\ k.what = c.what
  BY DEF Carries, SamePurchases
<1>5. \A d \in Documents : Stays(s.doc[d], s2.doc[d])
  BY DEF Carries, DocumentsStay
<1>7. ASSUME NEW d \in Documents, NoneWaits(s, d)
      PROVE  \A i \in 1..Chunks : Cell(s2, d, i) = Cell(s, d, i)
  <2>1. \A i \in 1..Chunks : ~About(X, d, i)
    BY <1>1, <1>7 DEF About
  <2> QED BY <2>1 DEF Carries
<1>8. ASSUME NEW j \in s2.jobs PROVE Named(s2, WorkOf(j))
  <2>1. CASE j \in s.jobs
    <3>1. Named(s, WorkOf(j))
      BY <2>1 DEF Staged
    <3>2. s2.doc[WorkOf(j).doc].cut = s.doc[WorkOf(j).doc].cut
      BY <1>3, <1>5 DEF Stays
    <3> QED BY <3>1, <3>2 DEF Named
  <2>2. CASE Later(j, Past(s))
    BY <1>3, <2>2 DEF Later, Named
  <2>3. CASE Ready(j, s2, X)
    <3>1. WorkOf(j) = Work("aggregate", j.doc, 1, 0, 0)
      BY <2>3 DEF Ready
    <3> QED BY <3>1 DEF Work, Named
  <2> QED BY <1>2, <2>1, <2>2, <2>3
<1>9. ASSUME NEW w \in open2 PROVE Ahead(s2, w)
  <2>1. PICK j \in s2.jobs : w = WorkOf(j) /\ (j \in s.jobs => w \in open)
    OBVIOUS
  <2>2. w.kind = j.kind /\ w.doc = j.doc /\ w.doc \in Documents /\ IsWork(w)
    BY <1>3, <2>1
  <2>3. ASSUME j \in s.jobs PROVE Ahead(s, w) /\ Named(s, w)
    BY <2>1, <2>3 DEF Staged
  <2>4. CASE w.kind = "prepare"
    <3>1. j \in s.jobs
      BY <1>2, <2>2, <2>4 DEF Later, Ready
    <3>2. (\A k \in s.jobs : k.doc = w.doc => k.kind = "prepare") /\ \A c \in s.cand : c.doc # w.doc
      BY <2>3, <2>4, <3>1 DEF Ahead
    <3>3. w.doc \notin Past(s)
      BY <3>2 DEF Past
    <3>4. \A k \in s2.jobs : k.doc = w.doc => k.kind = "prepare"
      BY <1>1, <1>2, <3>2, <3>3 DEF Later, Ready
    <3>5. \A c \in s2.cand : c.doc # w.doc
      BY <1>4, <3>2
    <3> QED BY <2>4, <3>4, <3>5 DEF Ahead
  <2>5. CASE w.kind = "chunk"
    <3>1. j \in s.jobs
      BY <1>2, <2>2, <2>5 DEF Later, Ready
    <3>2. /\ w.gen = 1 /\ w.n \in 1..Chunks /\ w.cut = s.doc[w.doc].cut
          /\ Cell(s, w.doc, w.n).status \in Waiting /\ Cell(s, w.doc, w.n).answer = None
      BY <2>3, <2>5, <3>1 DEF Ahead, Named
    <3>3. CASE About(X, w.doc, w.n)
      <4>1. PICK v \in X : v.kind = "chunk" /\ v.doc = w.doc /\ v.n = w.n
        BY <3>3 DEF About
      <4>2. v = Work("chunk", w.doc, 1, s.doc[w.doc].cut, w.n)
        BY <1>1, <4>1
      <4>3. w = Work("chunk", w.doc, 1, s.doc[w.doc].cut, w.n)
        BY <2>2, <2>5, <3>2 DEF IsWork
      <4> QED BY <2>5, <4>1, <4>2, <4>3
    <3>4. CASE ~About(X, w.doc, w.n)
      <4>1. Cell(s2, w.doc, w.n) = Cell(s, w.doc, w.n)
        BY <2>2, <3>2, <3>4 DEF Carries
      <4> QED BY <2>5, <3>2, <4>1 DEF Ahead
    <3> QED BY <3>3, <3>4
  <2>6. CASE w.kind = "aggregate"
    <3>1. \A c \in s.cand : c.doc # w.doc
      <4>1. CASE j \in s.jobs
        BY <2>3, <2>6, <4>1 DEF Ahead
      <4>2. CASE Ready(j, s2, X)
        BY <1>1, <2>2, <4>2 DEF Ready
      <4> QED BY <1>2, <2>2, <2>6, <4>1, <4>2 DEF Later
    <3>2. \A c \in s2.cand : c.doc # w.doc
      BY <1>4, <3>1
    <3> QED BY <2>6, <3>2 DEF Ahead
  <2> QED BY <2>4, <2>5, <2>6 DEF Ahead
<1>10. Behind(s2)
  <2>1. Behind(s)
    BY DEF Staged
  <2>2. ASSUME NEW d \in Documents, NEW i \in 1..Chunks, Cell(s2, d, i).answer # None
        PROVE  Cell(s2, d, i).status = "valid"
    <3>1. Cell(s, d, i).answer # None => Cell(s, d, i).status = "valid"
      BY <2>1 DEF Behind
    <3> QED BY <2>2, <3>1 DEF Carries
  <2>3. ASSUME NEW d \in Documents,
               s2.doc[d].status \in Aggregated \/ \E c \in s2.cand : c.doc = d
        PROVE  Read(s2, d)
    <3>1. s.doc[d].status \in Aggregated \/ \E c \in s.cand : c.doc = d
      BY <1>4, <1>5, <2>3 DEF Stays
    <3>2. Read(s, d)
      BY <2>1, <3>1 DEF Behind
    <3>3. \A i \in 1..Chunks : Cell(s2, d, i) = Cell(s, d, i)
      BY <1>7, <3>2 DEF Read
    <3>4. NoneWaits(s2, d)
      BY <3>2, <3>3 DEF Read, NoneWaits
    <3>5. ASSUME NEW i \in 1..Chunks, Cell(s2, d, i).answer # None
          PROVE  HasCandidate(s2, d, Cell(s2, d, i).answer)
      <4>1. PICK c \in s.cand : c.doc = d /\ c.what = Cell(s2, d, i).answer.what
        BY <3>2, <3>3, <3>5 DEF Read, HasCandidate
      <4>2. PICK k \in s2.cand : k.doc = c.doc /\ k.what = c.what
        BY <4>1 DEF Carries, SamePurchases
      <4> QED BY <4>1, <4>2 DEF HasCandidate
    <3> QED BY <3>4, <3>5 DEF Read
  <2>4. ASSUME NEW j \in s2.jobs, j.kind = "aggregate" PROVE NoneWaits(s2, j.doc)
    <3>1. CASE j \in s.jobs
      <4>1. NoneWaits(s, j.doc)
        BY <2>1, <2>4, <3>1 DEF Behind
      <4>2. \A i \in 1..Chunks : Cell(s2, j.doc, i) = Cell(s, j.doc, i)
        BY <1>3, <1>7, <4>1
      <4> QED BY <4>1, <4>2 DEF NoneWaits
    <3>2. CASE Ready(j, s2, X)
      BY <3>2 DEF Ready
    <3> QED BY <1>2, <2>4, <3>1, <3>2 DEF Later
  <2> QED BY <2>2, <2>3, <2>4 DEF Behind
<1> QED BY <1>8, <1>9, <1>10 DEF Staged

----------------------------------------------------------------------------
(* Workers and their rows.                                                 *)

\* Only w moves: it goes on with its work, or it is done with the rows of P.
Moves(s, x, x2, w, P) ==
    /\ \A v \in Workers : v # w => x2[v] = x[v]
    /\ \A j \in P : Running(j, w)
    /\ w \in Workers =>
          \/ /\ x2[w].pc = "idle"
             /\ \A j \in s.jobs \ P : ~Running(j, w)
          \/ /\ P = {}
             /\ x[w].pc \notin {"idle", "succeeded"}
             /\ x2[w].work = x[w].work
             /\ x2[w].pc \in Places(x[w].work.kind)

\* The running rows are kept, but for P.
RunsOn(s, s2, P) ==
    /\ \A j \in s2.jobs : j \in s.jobs \ P \/ j.status = "queued"
    /\ \A j \in s.jobs \ P : j.status = "running" =>
          j \in s2.jobs \/ s2.doc[j.doc].status = "deleted"
    /\ \A d \in Documents : s.doc[d].status = "deleted" => s2.doc[d].status = "deleted"

\* What carries a chunk lets the running rows be.
LEMMA CarriesRunsOn ==
    ASSUME NEW s, NEW s2, NEW X, NEW P, NEW D, Carries(s, s2, X, P, D)
    PROVE  RunsOn(s, s2, P)
BY DEF Carries, RunsOn, DocumentsStay, Stays, Later, Ready

\* No place is the idle one.
LEMMA PlacesAreBusy ==
    ASSUME NEW kind \in Kinds
    PROVE  "idle" \notin Places(kind)
BY DEF Places, Kinds

\* Every row is held, and every handler has its row, after such a step.
LEMMA HeldMoves ==
    ASSUME NEW s, NEW s2, NEW x, NEW x2, NEW w, NEW P, JobsFit(s.jobs),
           \A v \in Workers : x[v].pc # "idle" => IsWork(x[v].work),
           Held(s, x), RunsOn(s, s2, P), Moves(s, x, x2, w, P)
    PROVE  /\ Held(s2, x2)
           /\ \A y \in OpenWork(s2, x2) :
                 \E j \in s2.jobs : y = WorkOf(j) /\ (j \in s.jobs => y \in OpenWork(s, x))
<1>1. ASSUME NEW j \in s.jobs \ P, j.status # "queued"
      PROVE  /\ j.status = "running" /\ j.owner \in Workers
             /\ x2[j.owner].pc # "idle" /\ x2[j.owner].work = WorkOf(j)
             /\ x2[j.owner].pc # "succeeded" => x[j.owner].pc # "succeeded"
  <2>1. /\ j.status = "running" /\ j.owner \in Workers
        /\ x[j.owner].pc # "idle" /\ x[j.owner].work = WorkOf(j)
    BY <1>1 DEF Held, JobsHeld
  <2>2. CASE j.owner # w
    BY <2>1, <2>2 DEF Moves
  <2>3. CASE j.owner = w
    <3>1. Running(j, w)
      BY <2>1, <2>3 DEF Running
    <3>2. /\ x[w].pc \notin {"idle", "succeeded"}
          /\ x2[w].work = x[w].work
          /\ x2[w].pc \in Places(x[w].work.kind)
      BY <2>1, <2>3, <3>1 DEF Moves
    <3>3. x[w].work.kind \in Kinds
      BY <2>1, <2>3 DEF IsWork
    <3> QED BY <2>1, <2>3, <3>2, <3>3, PlacesAreBusy
  <2> QED BY <2>2, <2>3
<1>2. JobsHeld(s2, x2)
  <2>1. \A j \in s2.jobs : j.status = "queued" \/ j \in s.jobs \ P
    BY DEF RunsOn
  <2> QED BY <1>1, <2>1 DEF JobsHeld
<1>3. WorkersHold(s2, x2)
  <2> SUFFICES ASSUME NEW v \in Workers, x2[v].pc # "idle"
               PROVE  /\ x2[v].pc \in Places(x2[v].work.kind)
                      /\ \/ s2.doc[x2[v].work.doc].status = "deleted"
                         \/ \E j \in s2.jobs : Running(j, v)
    BY DEF WorkersHold
  <2>1. /\ x[v].pc # "idle" /\ x2[v].work = x[v].work
        /\ x[v].pc \in Places(x[v].work.kind) => x2[v].pc \in Places(x[v].work.kind)
        /\ \A j \in P : ~Running(j, v)
    <3>1. CASE v # w
      BY <3>1 DEF Moves, Running
    <3>2. CASE v = w
      BY <3>2 DEF Moves
    <3> QED BY <3>1, <3>2
  <2>2. IsWork(x[v].work) /\ x[v].work.doc \in Documents
    BY <2>1 DEF IsWork
  <2>3. /\ x[v].pc \in Places(x[v].work.kind)
        /\ \/ s.doc[x[v].work.doc].status = "deleted"
           \/ \E j \in s.jobs : Running(j, v)
    BY <2>1 DEF Held, WorkersHold
  <2>4. CASE s.doc[x[v].work.doc].status = "deleted"
    BY <2>1, <2>2, <2>3, <2>4 DEF RunsOn
  <2>5. ASSUME NEW j \in s.jobs, Running(j, v)
        PROVE  \/ s2.doc[x2[v].work.doc].status = "deleted"
               \/ \E k \in s2.jobs : Running(k, v)
    <3>1. j.status = "running" /\ j.owner = v /\ j \notin P
      BY <2>1, <2>5 DEF Running
    <3>2. x[v].work = WorkOf(j)
      BY <3>1 DEF Held, JobsHeld
    <3>3. x2[v].work.doc = j.doc
      BY <2>1, <3>2, JobParts DEF JobsFit
    <3> QED BY <2>5, <3>1, <3>3 DEF RunsOn
  <2> QED BY <2>1, <2>3, <2>4, <2>5
<1>4. ASSUME NEW y \in OpenWork(s2, x2)
      PROVE  \E j \in s2.jobs : y = WorkOf(j) /\ (j \in s.jobs => y \in OpenWork(s, x))
  <2>1. PICK j \in s2.jobs : y = WorkOf(j) /\ IsOpen(j, x2)
    BY DEF OpenWork
  <2>2. ASSUME j \in s.jobs PROVE y \in OpenWork(s, x)
    <3>1. IsOpen(j, x)
      <4>1. CASE j.status = "queued"
        BY <4>1 DEF IsOpen
      <4>2. CASE j.status # "queued"
        <5>1. j \in s.jobs \ P
          BY <4>2 DEF RunsOn
        <5> QED BY <1>1, <2>1, <4>2, <5>1 DEF IsOpen
      <4> QED BY <4>1, <4>2
    <3> QED BY <2>1, <2>2, <3>1 DEF OpenWork
  <2> QED BY <2>1, <2>2
<1> QED BY <1>2, <1>3, <1>4 DEF Held

----------------------------------------------------------------------------
(* The transactions that read nothing again.                               *)

\* The recomputation of the batch changes nothing else.
LEMMA RecomputeContinues ==
    ASSUME NEW s, IsDatabase(s), NEW D
    PROVE  Continues(s, Recompute(s), {}, D)
BY RecomputeParts, Staying, ContinuesBy

\* A candidate that is struck is of the same purchase.
LEMMA StruckPurchases ==
    ASSUME NEW cand, CandidatesFit(cand), NEW P, NEW x \in CandidateStatus
    PROVE  SamePurchases(cand, Struck(cand, P, x))
<1>1. \A k \in Struck(cand, P, x) : \E c \in cand : k.doc = c.doc /\ k.what = c.what
  BY StruckMember
<1>2. ASSUME NEW c \in cand
      PROVE  \E k \in Struck(cand, P, x) : k.doc = c.doc /\ k.what = c.what
  <2> DEFINE k == IF c \in P THEN [c EXCEPT !.status = x] ELSE c
  <2>1. k \in Struck(cand, P, x)
    BY DEF Struck
  <2>2. k.doc = c.doc /\ k.what = c.what
    BY StruckRow DEF CandidatesFit
  <2> HIDE DEF k
  <2> QED BY <2>1, <2>2
<1> QED BY <1>1, <1>2 DEF SamePurchases

\* The refresh leaves a document as it is, or cancels it.
LEMMA RefreshCancels ==
    ASSUME NEW s, Shape(s), NEW d \in Documents
    PROVE  Refresh(s).doc[d] = s.doc[d] \/ Refresh(s).doc[d].status = "cancelled"
<1> DEFINE stop == s.batch.status = "cancelling"
           drained(e) == /\ s.doc[e].status \in Active
                         /\ ~\E j \in s.jobs : j.doc = e
           cand == {IF /\ stop /\ c.status = "pending"
                       /\ ~\E j \in s.jobs :
                             WorkOf(j) = Work("reconcile", c.doc, c.gen, c.cut, c.n)
                    THEN [c EXCEPT !.status = "cancelled"] ELSE c : c \in s.cand}
           doc == [e \in Documents |-> IF stop /\ drained(e)
                     THEN [s.doc[e] EXCEPT !.status = "cancelled", !.done = TRUE]
                     ELSE s.doc[e]]
<1>1. doc[d] = s.doc[d] \/ doc[d].status = "cancelled"
  <2>1. s.doc[d] \in DocumentRow
    BY DEF Shape
  <2> QED BY <2>1 DEF DocumentRow
<1>2. PICK x : x = [s EXCEPT !.cand = cand, !.doc = doc]
  OBVIOUS
<1>3. Refresh(s) = Recompute(x)
  BY <1>2 DEF Refresh
<1> HIDE DEF cand, doc
<1>4. IsDatabase(x) /\ x.doc = doc
  <2>1. PICK y : y = [s EXCEPT !.cand = cand]
    OBVIOUS
  <2>2. Becomes(s, y, s.batch, s.doc, s.chunk, cand, s.jobs)
    BY <2>1, Replacing DEF Shape
  <2>3. Becomes(s, [y EXCEPT !.doc = doc], s.batch, doc, s.chunk, cand, s.jobs)
    BY <2>2, ReplacingNext
  <2>4. x = [y EXCEPT !.doc = doc]
    BY <1>2, <2>1
  <2> QED BY <2>3, <2>4 DEF Becomes
<1>5. Refresh(s).doc = doc
  BY <1>3, <1>4, RecomputeParts DEF Becomes
<1> QED BY <1>1, <1>5

\* The refresh continues.
LEMMA RefreshContinues ==
    ASSUME NEW s, Shape(s), NEW D
    PROVE  Continues(s, Refresh(s), {}, D)
<1>1. PICK P \in SUBSET s.cand :
         /\ Becomes(s, Refresh(s), Refresh(s).batch, Refresh(s).doc, s.chunk,
                    Struck(s.cand, P, "cancelled"), s.jobs)
         /\ Onward(s.doc, Refresh(s).doc)
  BY RefreshParts
<1>2. "cancelled" \in CandidateStatus /\ "cancelled" \notin Aggregated
  BY DEF CandidateStatus, Aggregated
<1>3. SamePurchases(s.cand, Struck(s.cand, P, "cancelled"))
  BY <1>2, StruckPurchases DEF Shape
<1>4. DocumentsStay(s.doc, Refresh(s).doc)
  BY <1>1, <1>2, RefreshCancels DEF DocumentsStay, Stays, Onward, RowOnward
<1> QED BY <1>1, <1>3, <1>4, Staying, ContinuesBy

\* Work after the aggregation is inserted.
LEMMA InsertContinues ==
    ASSUME NEW s, IsDatabase(s), NEW D, NEW w, IsWork(w),
           w.kind \in {"reconcile", "post"}, w.gen = 1, w.doc \in D
    PROVE  IsDatabase(Insert(s, w)) /\ Continues(s, Insert(s, w), {}, D)
<1>1. CASE \E j \in s.jobs : WorkOf(j) = w
  <2>1. Insert(s, w) = s
    BY <1>1 DEF Insert
  <2> QED BY <2>1, Staying DEF Continues
<1>2. CASE ~ \E j \in s.jobs : WorkOf(j) = w
  <2>1. Insert(s, w) = [s EXCEPT !.jobs = s.jobs \cup {Queued(w)}]
    BY <1>2 DEF Insert
  <2>2. Becomes(s, Insert(s, w), s.batch, s.doc, s.chunk, s.cand, s.jobs \cup {Queued(w)})
    BY <2>1, Replacing
  <2>3. Queued(w).gen = w.gen /\ Queued(w).kind = w.kind /\ Queued(w).doc = w.doc
        /\ Queued(w).status = "queued"
    BY DEF Queued
  <2>4. Later(Queued(w), D)
    BY <2>3 DEF Later
  <2>5. JobsGoOn(s.jobs, s.jobs \cup {Queued(w)}, {}, D)
    BY <2>4 DEF JobsGoOn
  <2>6. Continues(s, Insert(s, w), {}, D)
    BY <2>2, <2>5, Staying, ContinuesBy
  <2> QED BY <2>2, <2>6 DEF Becomes
<1> QED BY <1>1, <1>2

\* enqueuePostProcessIfReady.
LEMMA PostContinues ==
    ASSUME NEW s, IsDatabase(s), NEW D, NEW w, w.doc \in D, w.doc \in Documents, w.gen = 1
    PROVE  Continues(s, PostProcessIfReady(s, w), {}, D)
<1>1. "post" \in Kinds /\ 1 \in Generations
  BY SizesAssumption DEF Kinds, Generations
<1>2. /\ IsWork(Work("post", w.doc, w.gen, 0, 0))
      /\ Work("post", w.doc, w.gen, 0, 0).doc = w.doc
      /\ Work("post", w.doc, w.gen, 0, 0).kind = "post"
      /\ Work("post", w.doc, w.gen, 0, 0).gen = 1
  BY <1>1, WorkParts
<1>3. Continues(s, Insert(s, Work("post", w.doc, w.gen, 0, 0)), {}, D)
  BY <1>2, InsertContinues
<1>4. Continues(s, s, {}, D)
  BY Staying DEF Continues
<1> QED BY <1>3, <1>4 DEF PostProcessIfReady

\* One document gets another row.
LEMMA RowContinues ==
    ASSUME NEW s, NEW x, NEW d \in Documents, NEW row, NEW batch, NEW jobs, NEW P, NEW D,
           s.doc \in [Documents -> DocumentRow],
           Becomes(s, x, batch, [s.doc EXCEPT ![d] = row], s.chunk, s.cand, jobs),
           Stays(s.doc[d], row), JobsGoOn(s.jobs, jobs, P, D)
    PROVE  Continues(s, x, P, D)
<1>1. DocumentsStay(s.doc, [s.doc EXCEPT ![d] = row])
  BY DEF DocumentsStay, Stays
<1> QED BY <1>1, Staying, ContinuesBy

\* The outcome of a candidate.
LEMMA OutcomeContinues ==
    ASSUME NEW s, Sound(s), NEW c \in s.cand, NEW x, NEW ledger, NEW link,
           Books(s, x, ledger, link), NEW status, NEW tx, NEW D
    PROVE  IsDatabase(Outcome(x, c, status, tx)) /\ Continues(s, Outcome(x, c, status, tx), {}, D)
<1> DEFINE k == [c EXCEPT !.status = status, !.tx = tx]
           cands == (s.cand \ {c}) \cup {k}
           errors == \/ \E b \in cands : b.doc = c.doc /\ b.gen = c.gen /\ b.status = "failed"
                     \/ \E i \in 1..Chunks : s.chunk[c.doc][c.gen][i].status = "failed"
           row == [s.doc[c.doc] EXCEPT !.errors = errors]
           doc == [s.doc EXCEPT ![c.doc] = row]
           r == Outcome(x, c, status, tx)
<1>1. IsCandidate(c) /\ c.doc \in Documents
  BY CandidatesAreVetted
<1>2. s.doc \in [Documents -> DocumentRow] /\ s.doc[c.doc] \in DocumentRow
  BY <1>1, SoundParts
<1>3. r = [x EXCEPT !.cand = cands, !.doc = doc]
  BY DEF Outcome, Books
<1>4. k.doc = c.doc /\ k.what = c.what
  <2>1. PICK a : a = [c EXCEPT !.status = status]
    OBVIOUS
  <2>2. k = [a EXCEPT !.tx = tx]
    BY <2>1
  <2>3. a = [doc |-> c.doc, gen |-> c.gen, cut |-> c.cut, n |-> c.n, what |-> c.what,
             doubts |-> c.doubts, status |-> status, tx |-> c.tx]
    BY <1>1, <2>1 DEF IsCandidate
  <2> HIDE DEF k
  <2> QED BY <2>2, <2>3
<1>5. SamePurchases(s.cand, cands)
  BY <1>4 DEF SamePurchases
<1>6. Stays(s.doc[c.doc], row)
  BY <1>2 DEF DocumentRow, Stays
<1> HIDE DEF k, errors, row
<1>7. DocumentsStay(s.doc, doc)
  BY <1>2, <1>6 DEF DocumentsStay, Stays
<1> HIDE DEF doc, r, cands
<1>8. /\ IsDatabase(r) /\ r.doc = doc /\ r.chunk = s.chunk /\ r.cand = cands
      /\ r.jobs = s.jobs
  <2>1. PICK y : y = [x EXCEPT !.cand = cands]
    OBVIOUS
  <2>2. /\ IsDatabase(y) /\ y.chunk = s.chunk /\ y.cand = cands /\ y.jobs = s.jobs
    BY <2>1 DEF IsDatabase, Books
  <2>3. r = [y EXCEPT !.doc = doc]
    BY <1>3, <2>1
  <2>4. IsDatabase(r) /\ r.doc = doc /\ r.chunk = y.chunk /\ r.cand = y.cand /\ r.jobs = y.jobs
    BY <2>2, <2>3 DEF IsDatabase
  <2> QED BY <2>2, <2>4
<1> QED BY <1>5, <1>7, <1>8, Staying DEF Continues, r

\* A candidate is resolved, and the post processing queued after it.
LEMMA ResolvedContinues ==
    ASSUME NEW s, Sound(s), NEW c \in s.cand, NEW x, NEW ledger, NEW link,
           Books(s, x, ledger, link), NEW status, NEW tx, NEW D, c.doc \in D,
           NEW w, w.doc = c.doc, w.gen = 1
    PROVE  Continues(s, PostProcessIfReady(Outcome(x, c, status, tx), w), {}, D)
<1>1. IsDatabase(Outcome(x, c, status, tx)) /\ Continues(s, Outcome(x, c, status, tx), {}, D)
  BY OutcomeContinues
<1>2. w.doc \in Documents
  BY CandidatesAreVetted
<1>3. Continues(Outcome(x, c, status, tx), PostProcessIfReady(Outcome(x, c, status, tx), w), {}, D)
  BY <1>1, <1>2, PostContinues
<1> QED BY <1>1, <1>3, ContinuesAdd

\* A candidate of a first generation is one of it.
LEMMA CandidatesAreFirst ==
    ASSUME NEW s, Sound(s), AllFirst(s), NEW c \in s.cand
    PROVE  c.gen = 1 /\ c.doc \in Past(s) /\ c.doc \in Documents
<1>1. c.doc \in Documents /\ c.gen \in Generations
  BY CandidatesAreVetted
<1>2. c.gen <= s.doc[c.doc].gen
  BY DEF Sound, Evidenced, KeysFit
<1>3. c.gen = 1
  BY <1>1, <1>2, SizesAssumption DEF AllFirst, Generations
<1> QED BY <1>1, <1>3 DEF Past

\* A row of a database is replaced, and its progress recomputed.
LEMMA RowThenRecompute ==
    ASSUME NEW s, Sound(s), NEW d \in Documents, NEW row, NEW x, NEW jobs, NEW D,
           Becomes(s, x, s.batch, s.doc, s.chunk, s.cand, jobs),
           JobsGoOn(s.jobs, jobs, {}, D), Stays(s.doc[d], row)
    PROVE  /\ Continues(s, [x EXCEPT !.doc[d] = row], {}, D)
           /\ Continues(s, Recompute([x EXCEPT !.doc[d] = row]), {}, D)
<1> DEFINE doc == [s.doc EXCEPT ![d] = row]
           y == [x EXCEPT !.doc[d] = row]
<1>1. y = [x EXCEPT !.doc = doc]
  BY DEF Becomes
<1> HIDE DEF doc, y
<1>2. Becomes(s, y, s.batch, doc, s.chunk, s.cand, jobs)
  BY <1>1, ReplacingNext
<1>3. Continues(s, y, {}, D)
  BY <1>2, SoundParts, RowContinues DEF doc
<1>4. Continues(y, Recompute(y), {}, D)
  BY <1>2, RecomputeContinues DEF Becomes
<1>5. Continues(s, Recompute(y), {}, D)
  BY <1>3, <1>4, ContinuesAdd
<1> QED BY <1>3, <1>5 DEF y

\* Store.IsCancelled.
LEMMA IsCancelledContinues ==
    ASSUME NEW s, Sound(s), NEW w, IsWork(w), NEW next, NEW D
    PROVE  /\ Continues(s, IsCancelled(s, w, next).db, {}, D)
           /\ IsCancelled(s, w, next).next \in {next, "succeeded"}
<1> DEFINE r == IsCancelled(s, w, next)
           row == [s.doc[w.doc] EXCEPT !.status = "cancelled", !.done = TRUE]
           x == [s EXCEPT !.doc[w.doc] = row]
<1>1. w.doc \in Documents /\ s.doc[w.doc] \in DocumentRow
  BY SoundParts DEF IsWork
<1>2. CASE r = Then(Recompute([SetDoc(s, w.doc, "cancelled") EXCEPT !.doc[w.doc].done = TRUE]),
                    "succeeded")
           /\ s.doc[w.doc].status \in Active
  <2>1. Stays(s.doc[w.doc], row)
    BY <1>1, <1>2 DEF Stays, DocumentRow, Active, Aggregated
  <2>2. [SetDoc(s, w.doc, "cancelled") EXCEPT !.doc[w.doc].done = TRUE] = x
    BY <1>1, SoundParts DEF SetDoc, IsDatabase
  <2>3. r.db = Recompute(x) /\ r.next = "succeeded"
    BY <1>2, <2>2 DEF Then
  <2> HIDE DEF row, r
  <2>4. Continues(s, Recompute(x), {}, D)
    BY <1>1, <2>1, Itself, Staying, RowThenRecompute
  <2> QED BY <2>3, <2>4 DEF r
<1>3. CASE r = Then(s, "succeeded") \/ r = Then(s, next)
  <2>1. r.db = s /\ r.next \in {next, "succeeded"}
    BY <1>3 DEF Then
  <2> HIDE DEF r
  <2> QED BY <2>1, Staying DEF r, Continues
<1> QED BY <1>2, <1>3 DEF IsCancelled

\* LoadOriginals.
LEMMA LoadOriginalsContinues ==
    ASSUME NEW s, Sound(s), NEW w, IsWork(w), NEW D
    PROVE  Continues(s, LoadOriginals(s, w).db, {}, D)
<1> DEFINE row == [s.doc[w.doc] EXCEPT !.status = "preparing", !.started = TRUE, !.done = FALSE]
           x == [s EXCEPT !.doc[w.doc] = row]
<1>1. w.doc \in Documents /\ s.doc[w.doc] \in DocumentRow
  BY SoundParts DEF IsWork
<1>2. \/ LoadOriginals(s, w).db = s
      \/ LoadOriginals(s, w).db = x /\ s.doc[w.doc].status \in {"queued", "preparing"}
  BY DEF LoadOriginals, Then
<1>3. s.doc[w.doc].status \in {"queued", "preparing"} => Stays(s.doc[w.doc], row)
  BY <1>1 DEF Stays, DocumentRow, Aggregated
<1> HIDE DEF row
<1>4. s.doc[w.doc].status \in {"queued", "preparing"} => Continues(s, x, {}, D)
  BY <1>1, <1>3, Itself, Staying, RowThenRecompute
<1>5. Continues(s, s, {}, D)
  BY Staying DEF Continues
<1> QED BY <1>2, <1>4, <1>5

\* RecordPrepareFailure drops what is queued.
LEMMA RecordPrepareFailureContinues ==
    ASSUME NEW s, Sound(s), NEW w, IsWork(w), NEW D
    PROVE  Continues(s, RecordPrepareFailure(s, w).db, {}, D)
<1> DEFINE row == [s.doc[w.doc] EXCEPT !.status = "failed", !.errors = TRUE,
                                       !.files = FALSE, !.done = TRUE]
           jobs == {j \in s.jobs : ~(j.doc = w.doc /\ j.status = "queued")}
           fewer == [s EXCEPT !.jobs = jobs]
           x == [s EXCEPT !.jobs = {j \in @ : ~(j.doc = w.doc /\ j.status = "queued")},
                          !.doc[w.doc] = [@ EXCEPT !.status = "failed",
                                                   !.errors = TRUE,
                                                   !.files = FALSE,
                                                   !.done = TRUE]]
<1>1. w.doc \in Documents /\ s.doc[w.doc] \in DocumentRow
  BY SoundParts DEF IsWork
<1>2. \/ RecordPrepareFailure(s, w).db = s
      \/ /\ RecordPrepareFailure(s, w).db = Recompute(x)
         /\ s.doc[w.doc].status # "deleted"
  BY DEF RecordPrepareFailure, IsCurrent, Then
<1>3. ASSUME s.doc[w.doc].status # "deleted" PROVE Continues(s, Recompute(x), {}, D)
  <2>1. Stays(s.doc[w.doc], row)
    BY <1>1, <1>3 DEF Stays, DocumentRow, Aggregated
  <2>2. Becomes(s, fewer, s.batch, s.doc, s.chunk, s.cand, jobs)
    BY Replacing, SoundParts
  <2>3. JobsGoOn(s.jobs, jobs, {}, D)
    BY DEF JobsGoOn
  <2>4. x = [fewer EXCEPT !.doc[w.doc] = row]
    OBVIOUS
  <2> HIDE DEF row, jobs, fewer, x
  <2> QED BY <1>1, <2>1, <2>2, <2>3, <2>4, RowThenRecompute
<1>4. Continues(s, s, {}, D)
  BY Staying DEF Continues
<1> QED BY <1>2, <1>3, <1>4

\* RecordGenericPostProcess.
LEMMA RecordPostProcessContinues ==
    ASSUME NEW s, Sound(s), NEW w, IsWork(w), NEW D
    PROVE  Continues(s, RecordPostProcess(s, w).db, {}, D)
<1> DEFINE failed == \/ \E c \in s.cand :
                          c.doc = w.doc /\ c.gen = w.gen /\ c.status = "failed"
                     \/ \E i \in 1..Chunks : ChunksOf(s, w)[i].status = "failed"
           status == IF failed THEN "completed_with_errors" ELSE "completed"
           row == [s.doc[w.doc] EXCEPT !.errors = failed, !.done = TRUE, !.status = status]
           x == [s EXCEPT !.doc[w.doc] = row]
<1>1. w.doc \in Documents /\ s.doc[w.doc] \in DocumentRow
  BY SoundParts DEF IsWork
<1>2. \/ RecordPostProcess(s, w).db = Recompute(x) /\ s.doc[w.doc].status = "reconciling"
      \/ RecordPostProcess(s, w).db = Recompute(s)
  BY DEF RecordPostProcess, Then
<1> HIDE DEF failed, status
<1>3. s.doc[w.doc].status = "reconciling" => Stays(s.doc[w.doc], row)
  BY <1>1 DEF Stays, DocumentRow, Aggregated
<1> HIDE DEF row
<1>4. s.doc[w.doc].status = "reconciling" => Continues(s, Recompute(x), {}, D)
  BY <1>1, <1>3, Itself, Staying, RowThenRecompute
<1>5. Continues(s, Recompute(s), {}, D)
  BY SoundParts, RecomputeContinues
<1> QED BY <1>2, <1>4, <1>5

\* ReconcileBulkCandidate.
LEMMA ReconcileCandidateContinues ==
    ASSUME NEW s, Sound(s), AllFirst(s), NEW w, IsWork(w)
    PROVE  Continues(s, ReconcileCandidate(s, w).db, {}, Past(s))
<1> DEFINE found == {b \in s.cand : Key(b) = <<w.doc, w.gen, w.cut, w.n>>}
           c == CHOOSE k \in found : TRUE
           matches == Matches(s, c)
           t == CHOOSE k \in matches : TRUE
           finish(x, status, id) ==
               Then(PostProcessIfReady(Outcome(x, c, status, id), w), "succeeded")
           r == ReconcileCandidate(s, w)
<1>1. Continues(s, s, {}, Past(s))
  BY Staying DEF Continues
<1>2. SUFFICES ASSUME found # {}, c.status = "pending" PROVE Continues(s, r.db, {}, Past(s))
  <2>1. found = {} \/ c.status # "pending" => r.db = s
    BY DEF ReconcileCandidate, Then
  <2> QED BY <1>1, <2>1
<1>3. c \in s.cand /\ Key(c) = <<w.doc, w.gen, w.cut, w.n>>
  BY <1>2
<1>4. r = IF NeedsUser(c, matches) THEN finish(s, "review", None)
          ELSE IF matches # {}
               THEN IF EvidenceFree(s, c, t.id)
                    THEN finish(AddEvidence(s, c, t.id), "attached", t.id)
                    ELSE Then(s, "erred")
          ELSE finish(AddEvidence(NewTransaction(s, c, "auto"), c, Key(c)),
                      "created", Key(c))
  BY <1>2 DEF ReconcileCandidate
<1>5. \A x, status, id :
         finish(x, status, id).db = PostProcessIfReady(Outcome(x, c, status, id), w)
  BY DEF Then
<1>6. Then(s, "erred").db = s
  BY DEF Then
<1> HIDE DEF found, c, finish, r, matches, t
<1>7. w.doc = c.doc /\ w.gen = 1 /\ c.doc \in Past(s)
  BY <1>3, CandidatesAreFirst DEF Key
<1>8. Books(s, s, s.ledger, s.link)
  BY SoundParts, TransactionIsEntered
<1>9. PICK ledger : Books(s, NewTransaction(s, c, "auto"), ledger, s.link)
  BY SoundParts, TransactionIsEntered
<1>10. PICK more : Books(s, AddEvidence(s, c, t.id), s.ledger, more)
  BY <1>8, EvidenceIsAdded
<1>11. PICK link : Books(s, AddEvidence(NewTransaction(s, c, "auto"), c, Key(c)), ledger, link)
  BY <1>9, EvidenceIsAdded
<1>12. Continues(s, finish(s, "review", None).db, {}, Past(s))
  BY <1>3, <1>5, <1>7, <1>8, ResolvedContinues
<1>13. Continues(s, finish(AddEvidence(s, c, t.id), "attached", t.id).db, {}, Past(s))
  <2>1. PICK id : id = t.id
    OBVIOUS
  <2>2. Books(s, AddEvidence(s, c, id), s.ledger, more)
    BY <1>10, <2>1
  <2>3. Continues(s, PostProcessIfReady(Outcome(AddEvidence(s, c, id), c, "attached", id), w), {},
                  Past(s))
    BY <1>3, <1>7, <2>2, ResolvedContinues
  <2> QED BY <1>5, <2>1, <2>3
<1>14. Continues(s, finish(AddEvidence(NewTransaction(s, c, "auto"), c, Key(c)),
                           "created", Key(c)).db, {}, Past(s))
  BY <1>3, <1>5, <1>7, <1>11, ResolvedContinues
<1> QED BY <1>1, <1>4, <1>6, <1>12, <1>13, <1>14

\* The candidate branch of markTerminalJobFailure.
LEMMA FailCandidateContinues ==
    ASSUME NEW s, Sound(s), NEW w, IsWork(w), s.doc[w.doc].genuine,
           NEW D, w.doc \in D, w.gen = 1
    PROVE  Continues(s, FailCandidate(s, w), {}, D)
<1> DEFINE P == {c \in s.cand : Key(c) = <<w.doc, w.gen, w.cut, w.n>> /\ c.status = "pending"}
           cand == Struck(s.cand, P, "failed")
           failed == [s EXCEPT !.cand = cand]
           posted == PostProcessIfReady(failed, w)
<1>1. FailCandidate(s, w) = Refresh(posted)
  <2>1. cand = {IF Key(c) = <<w.doc, w.gen, w.cut, w.n>> /\ c.status = "pending"
                THEN [c EXCEPT !.status = "failed"] ELSE c : c \in s.cand}
    BY DEF Struck
  <2> HIDE DEF cand
  <2> QED BY <2>1 DEF FailCandidate
<1>2. P \subseteq s.cand /\ \A c \in P : c.status = "pending"
  OBVIOUS
<1>3. w.doc \in Documents /\ w.gen \in Generations
  BY DEF IsWork
<1> HIDE DEF P
<1>4. Becomes(s, failed, s.batch, s.doc, s.chunk, cand, s.jobs)
  BY Replacing, SoundParts
<1> HIDE DEF failed
<1>5. /\ failed.batch = s.batch /\ failed.doc = s.doc /\ failed.chunk = s.chunk
      /\ failed.jobs = s.jobs
  BY <1>4 DEF Becomes
<1>6. Sound(failed)
  BY <1>2, <1>4, <1>5, RoutineIsSound, SoundParts, SameDocuments
<1>7. SamePurchases(s.cand, cand)
  <2>1. "failed" \in CandidateStatus
    BY DEF CandidateStatus
  <2> QED BY <2>1, SoundParts, StruckPurchases
<1>8. Continues(s, failed, {}, D)
  BY <1>4, <1>7, Staying, ContinuesBy
<1>9. Continues(failed, posted, {}, D) /\ Sound(posted)
  BY <1>3, <1>5, <1>6, SoundParts, PostContinues, EnqueueIsSound
<1> HIDE DEF posted
<1>10. Continues(posted, Refresh(posted), {}, D)
  BY <1>9, SoundParts, RefreshContinues
<1> QED BY <1>1, <1>8, <1>9, <1>10, ContinuesAdd

----------------------------------------------------------------------------
(* The transactions that write a chunk.                                    *)

\* Work that is still to be done, on a chunk that is still to be read.
Opened(s, w) ==
    /\ w.gen = 1
    /\ w.kind = "chunk" => /\ w.n \in 1..Chunks
                           /\ Cell(s, w.doc, w.n).status \in Waiting
                           /\ Cell(s, w.doc, w.n).answer = None

\* The chunk of w, and nothing else of the chunks, gets the row.
Writes(s, x, w, row) ==
    \A d \in Documents : \A i \in 1..Chunks :
       Cell(x, d, i) = IF d = w.doc /\ i = w.n THEN row ELSE Cell(s, d, i)

\* A first one, and then one that continues.
LEMMA ThenCarries ==
    ASSUME NEW a, NEW b, NEW c, NEW X, NEW P, NEW D,
           Continues(a, b, P, D), Carries(b, c, X, {}, D)
    PROVE  Carries(a, c, X, P, D)
<1>1. DocumentsStay(a.doc, c.doc)
  BY DEF Carries, Continues, DocumentsStay, Stays
<1>2. SamePurchases(a.cand, c.cand)
  <2>1. SamePurchases(a.cand, b.cand) /\ SamePurchases(b.cand, c.cand)
    BY DEF Continues, Carries
  <2>2. \A k \in c.cand : \E e \in a.cand : k.doc = e.doc /\ k.what = e.what
    BY <2>1 DEF SamePurchases
  <2>3. \A e \in a.cand : \E k \in c.cand : k.doc = e.doc /\ k.what = e.what
    BY <2>1 DEF SamePurchases
  <2> QED BY <2>2, <2>3 DEF SamePurchases
<1>3. b.chunk = a.chunk /\ JobsGoOn(a.jobs, b.jobs, P, D)
  BY DEF Continues
<1>4. \A d : \A i : Cell(b, d, i) = Cell(a, d, i)
  BY <1>3 DEF Cell
<1>5. \A j \in c.jobs : j \in a.jobs \ P \/ Later(j, D) \/ Ready(j, c, X)
  BY <1>3 DEF Carries, JobsGoOn
<1>6. \A j \in a.jobs \ P : j.status = "running" => j \in c.jobs
  BY <1>3 DEF Carries, JobsGoOn
<1>7. \A d \in Documents : \A i \in 1..Chunks :
         \/ Cell(c, d, i) = Cell(a, d, i)
         \/ /\ About(X, d, i)
            /\ Cell(c, d, i).answer # None => Cell(c, d, i).status = "valid"
  BY <1>4 DEF Carries
<1> QED BY <1>1, <1>2, <1>5, <1>6, <1>7 DEF Carries

\* A chunk is written.
LEMMA WritingCarries ==
    ASSUME NEW s, NEW x, NEW w, NEW row, NEW chunk, NEW D,
           Becomes(s, x, s.batch, s.doc, chunk, s.cand, s.jobs),
           w.kind = "chunk", Writes(s, x, w, row), row.answer # None => row.status = "valid"
    PROVE  Carries(s, x, {w}, {}, D)
<1>1. x.doc = s.doc /\ x.cand = s.cand /\ x.jobs = s.jobs
  BY DEF Becomes
<1>2. \A d \in Documents : \A i \in 1..Chunks :
         \/ Cell(x, d, i) = Cell(s, d, i)
         \/ /\ About({w}, d, i)
            /\ Cell(x, d, i).answer # None => Cell(x, d, i).status = "valid"
  BY DEF Writes, About
<1>3. SamePurchases(s.cand, s.cand) /\ DocumentsStay(s.doc, s.doc)
  BY Staying
<1> QED BY <1>1, <1>2, <1>3 DEF Carries

\* It gets another status.
LEMMA StatusWrites ==
    ASSUME NEW s, Shape(s), NEW w, IsWork(w), Opened(s, w), w.kind = "chunk",
           NEW x \in ChunkStatus
    PROVE  LET s2 == [s EXCEPT !.chunk[w.doc][w.gen][w.n].status = x] IN
           /\ Becomes(s, s2, s.batch, s.doc, s2.chunk, s.cand, s.jobs)
           /\ Writes(s, s2, w, [status |-> x, answer |-> None])
<1> DEFINE s2 == [s EXCEPT !.chunk[w.doc][w.gen][w.n].status = x]
           row == [s.chunk[w.doc][1][w.n] EXCEPT !.status = x]
           rows == [s.chunk[w.doc][1] EXCEPT ![w.n] = row]
           gens == [s.chunk[w.doc] EXCEPT ![1] = rows]
           chunk == [s.chunk EXCEPT ![w.doc] = gens]
<1>1. w.doc \in Documents /\ w.gen = 1 /\ w.gen \in Generations /\ w.n \in 1..Chunks
  BY DEF IsWork, Opened
<1>2. Becomes(s, s2, s.batch, s.doc, s2.chunk, s.cand, s.jobs)
  BY <1>1, ChunkStatusParts
<1>3. /\ s.chunk \in [Documents -> [Generations -> ChunkRows]]
      /\ s.chunk[w.doc] \in [Generations -> ChunkRows]
      /\ s.chunk[w.doc][1] \in ChunkRows
      /\ s.chunk[w.doc][1][w.n] \in ChunkRow
      /\ s.chunk[w.doc][1][w.n].answer = None
  <2>1. s.chunk \in [Documents -> [Generations -> ChunkRows]]
    BY DEF Shape, ChunkRows
  <2>2. s.chunk[w.doc] \in [Generations -> ChunkRows]
    BY <1>1, <2>1
  <2>3. s.chunk[w.doc][1] \in ChunkRows
    BY <1>1, <2>2
  <2>4. s.chunk[w.doc][1][w.n] \in ChunkRow
    BY <1>1, <2>3 DEF ChunkRows
  <2>5. s.chunk[w.doc][1][w.n].answer = None
    BY DEF Opened, Cell
  <2> QED BY <2>1, <2>2, <2>3, <2>4, <2>5
<1>4. row = [status |-> x, answer |-> None]
  BY <1>3 DEF ChunkRow
<1>5. s2.chunk = chunk
  <2>1. s2 = [s EXCEPT !.chunk = chunk]
    BY <1>1
  <2> HIDE DEF chunk, s2
  <2>2. IsDatabase(s)
    BY DEF Shape
  <2> QED BY <2>1, <2>2, Replacing DEF Becomes
<1> HIDE DEF s2, row
<1>6. ASSUME NEW d \in Documents, NEW i \in 1..Chunks
      PROVE  Cell(s2, d, i) = IF d = w.doc /\ i = w.n THEN row ELSE Cell(s, d, i)
  <2>1. DOMAIN s.chunk = Documents /\ DOMAIN s.chunk[w.doc] = Generations
        /\ DOMAIN s.chunk[w.doc][1] = 1..Chunks
    BY <1>3 DEF ChunkRows
  <2>2. CASE d # w.doc
    <3>1. chunk[d] = s.chunk[d]
      BY <2>1, <2>2
    <3> QED BY <1>5, <2>2, <3>1 DEF Cell
  <2>3. CASE d = w.doc
    <3>1. chunk[d] = gens
      BY <2>1, <2>3
    <3>2. gens[1] = rows
      BY <1>1, <2>1
    <3>3. rows[i] = IF i = w.n THEN row ELSE s.chunk[w.doc][1][i]
      BY <2>1
    <3> QED BY <1>5, <2>3, <3>1, <3>2, <3>3 DEF Cell
  <2> QED BY <2>2, <2>3
<1> QED BY <1>2, <1>4, <1>6 DEF Writes, s2

\* It gets an answer.
LEMMA AnswerWrites ==
    ASSUME NEW s, Shape(s), NEW w, IsWork(w), Opened(s, w), w.kind = "chunk", NEW row
    PROVE  LET s2 == [s EXCEPT !.chunk[w.doc][w.gen][w.n] = row] IN
           /\ Becomes(s, s2, s.batch, s.doc, s2.chunk, s.cand, s.jobs)
           /\ Writes(s, s2, w, row)
<1> DEFINE s2 == [s EXCEPT !.chunk[w.doc][w.gen][w.n] = row]
           rows == [s.chunk[w.doc][1] EXCEPT ![w.n] = row]
           gens == [s.chunk[w.doc] EXCEPT ![1] = rows]
           chunk == [s.chunk EXCEPT ![w.doc] = gens]
<1>1. w.doc \in Documents /\ w.gen = 1 /\ w.gen \in Generations /\ w.n \in 1..Chunks
  BY DEF IsWork, Opened
<1>2. /\ s.chunk \in [Documents -> [Generations -> ChunkRows]]
      /\ s.chunk[w.doc] \in [Generations -> ChunkRows]
      /\ s.chunk[w.doc][1] \in ChunkRows
  <2>1. s.chunk \in [Documents -> [Generations -> ChunkRows]]
    BY DEF Shape, ChunkRows
  <2>2. s.chunk[w.doc] \in [Generations -> ChunkRows]
    BY <1>1, <2>1
  <2> QED BY <1>1, <2>1, <2>2
<1>3. s2 = [s EXCEPT !.chunk = chunk]
  BY <1>1
<1>4. Becomes(s, s2, s.batch, s.doc, chunk, s.cand, s.jobs)
  <2> HIDE DEF chunk, s2
  <2>1. IsDatabase(s)
    BY DEF Shape
  <2> QED BY <1>3, <2>1, Replacing
<1>5. s2.chunk = chunk
  BY <1>4 DEF Becomes
<1> HIDE DEF s2
<1>6. ASSUME NEW d \in Documents, NEW i \in 1..Chunks
      PROVE  Cell(s2, d, i) = IF d = w.doc /\ i = w.n THEN row ELSE Cell(s, d, i)
  <2>1. DOMAIN s.chunk = Documents /\ DOMAIN s.chunk[w.doc] = Generations
        /\ DOMAIN s.chunk[w.doc][1] = 1..Chunks
    BY <1>2 DEF ChunkRows
  <2>2. CASE d # w.doc
    <3>1. chunk[d] = s.chunk[d]
      BY <2>1, <2>2
    <3> QED BY <1>5, <2>2, <3>1 DEF Cell
  <2>3. CASE d = w.doc
    <3>1. chunk[d] = gens
      BY <2>1, <2>3
    <3>2. gens[1] = rows
      BY <1>1, <2>1
    <3>3. rows[i] = IF i = w.n THEN row ELSE s.chunk[w.doc][1][i]
      BY <2>1
    <3> QED BY <1>5, <2>3, <3>1, <3>2, <3>3 DEF Cell
  <2> QED BY <2>2, <2>3
<1> QED BY <1>4, <1>5, <1>6 DEF Writes, s2

\* The aggregation is queued once no chunk waits.
LEMMA AggregateCarries ==
    ASSUME NEW s, NEW x, NEW w, IsWork(w), w.kind = "chunk", w.gen = 1, NEW D,
           IsDatabase(x), Carries(s, x, {w}, {}, D)
    PROVE  Carries(s, AggregateWhenReady(x, w), {w}, {}, D)
<1> DEFINE a == Work("aggregate", w.doc, w.gen, 0, 0)
           y == AggregateWhenReady(x, w)
<1>1. y = x \/ (y = Insert(x, a) /\ NoneWaits(x, w.doc))
  BY DEF AggregateWhenReady, ChunksOf, NoneWaits, Cell, Waiting
<1>2. CASE y # x
  <2>1. NoneWaits(x, w.doc) /\ y = [x EXCEPT !.jobs = x.jobs \cup {Queued(a)}]
    BY <1>1, <1>2 DEF Insert
  <2>2. Becomes(x, y, x.batch, x.doc, x.chunk, x.cand, x.jobs \cup {Queued(a)})
    BY <2>1, Replacing
  <2> HIDE DEF y
  <2>3. y.doc = x.doc /\ y.chunk = x.chunk /\ y.cand = x.cand
        /\ y.jobs = x.jobs \cup {Queued(a)}
    BY <2>2 DEF Becomes
  <2>4. \A d : \A i : Cell(y, d, i) = Cell(x, d, i)
    BY <2>3 DEF Cell
  <2>5. Ready(Queued(a), y, {w})
    <3>1. NoneWaits(y, w.doc)
      BY <2>1, <2>4 DEF NoneWaits
    <3>2. a \in {v \in {a} : IsWork(v)} /\ a.doc = w.doc
      BY WorkParts DEF IsWork, Kinds
    <3>3. /\ Queued(a).status = "queued" /\ WorkOf(Queued(a)) = a
          /\ Queued(a).kind = a.kind /\ Queued(a).doc = w.doc /\ a.kind = "aggregate"
      BY <3>2, QueuedParts DEF Work
    <3> QED BY <3>1, <3>3 DEF Ready
  <2>6. \A j : Ready(j, x, {w}) => Ready(j, y, {w})
    BY <2>4 DEF Ready, NoneWaits
  <2>7. \A j \in y.jobs : j \in s.jobs \ {} \/ Later(j, D) \/ Ready(j, y, {w})
    BY <2>3, <2>5, <2>6 DEF Carries
  <2>8. \A j \in s.jobs \ {} : j.status = "running" => j \in y.jobs
    BY <2>3 DEF Carries
  <2>9. \A d \in Documents : \A i \in 1..Chunks :
          \/ Cell(y, d, i) = Cell(s, d, i)
          \/ /\ About({w}, d, i)
             /\ Cell(y, d, i).answer # None => Cell(y, d, i).status = "valid"
    BY <2>4 DEF Carries
  <2>10. DocumentsStay(s.doc, y.doc) /\ SamePurchases(s.cand, y.cand)
    BY <2>3 DEF Carries
  <2> QED BY <2>7, <2>8, <2>9, <2>10 DEF Carries, y
<1> QED BY <1>2

\* What a transaction of a handler does: it reads nothing again, or it writes
\* the chunk it is about, and is done with it unless the chunk still waits.
Performs(s, r, w) ==
    \/ Continues(s, r.db, {}, Past(s))
    \/ /\ s.doc[w.doc].status # "deleted"
       /\ w.kind = "chunk"
       /\ Carries(s, r.db, {w}, {}, Past(s))
       /\ r.next = "succeeded" \/ Ahead(r.db, w)

\* A chunk that was written as waiting is still to be read.
LEMMA WrittenIsAhead ==
    ASSUME NEW s, NEW x, NEW w, IsWork(w), Opened(s, w), w.kind = "chunk",
           NEW status \in Waiting, Writes(s, x, w, [status |-> status, answer |-> None])
    PROVE  Ahead(x, w)
<1>1. w.doc \in Documents /\ w.n \in 1..Chunks
  BY DEF IsWork, Opened
<1>2. Cell(x, w.doc, w.n) = [status |-> status, answer |-> None]
  BY <1>1 DEF Writes
<1> QED BY <1>2 DEF Ahead

\* LoadChunk.
LEMMA LoadChunkPerforms ==
    ASSUME NEW s, Sound(s), NEW w, IsWork(w), w.kind = "chunk",
           s.doc[w.doc].status # "deleted" => Opened(s, w)
    PROVE  Performs(s, LoadChunk(s, w), w)
<1> DEFINE r == LoadChunk(s, w)
           x == [s EXCEPT !.chunk[w.doc][w.gen][w.n].status = "parsing"]
<1>1. r.db = s \/ (r.db = x /\ s.doc[w.doc].status # "deleted")
  BY DEF LoadChunk, Then, IsCurrent
<1>2. ASSUME s.doc[w.doc].status # "deleted" PROVE Carries(s, x, {w}, {}, Past(s)) /\ Ahead(x, w)
  <2>1. "parsing" \in ChunkStatus /\ "parsing" \in Waiting
    BY DEF ChunkStatus, Waiting
  <2>2. /\ Becomes(s, x, s.batch, s.doc, x.chunk, s.cand, s.jobs)
        /\ Writes(s, x, w, [status |-> "parsing", answer |-> None])
    BY <1>2, <2>1, StatusWrites, SoundParts
  <2> HIDE DEF x
  <2>3. Ahead(x, w)
    BY <1>2, <2>1, <2>2, WrittenIsAhead
  <2>4. [status |-> "parsing", answer |-> None].answer = None
    OBVIOUS
  <2>5. Carries(s, x, {w}, {}, Past(s))
    BY <2>2, <2>4, WritingCarries
  <2> QED BY <2>3, <2>5
<1> HIDE DEF r, x
<1>3. Continues(s, s, {}, Past(s))
  BY Staying DEF Continues
<1> QED BY <1>1, <1>2, <1>3 DEF Performs, r

\* RecordChunkFailure.
LEMMA RecordChunkFailurePerforms ==
    ASSUME NEW s, Sound(s), NEW w, IsWork(w), w.kind = "chunk", NEW terminal \in BOOLEAN,
           s.doc[w.doc].status # "deleted" => Opened(s, w)
    PROVE  Performs(s, RecordChunkFailure(s, w, terminal), w)
<1> DEFINE r == RecordChunkFailure(s, w, terminal)
           status == IF terminal THEN "failed" ELSE "queued"
           x == [s EXCEPT !.chunk[w.doc][w.gen][w.n].status = status]
<1>1. \/ r.db = s
      \/ /\ s.doc[w.doc].status # "deleted"
         /\ \/ terminal /\ r.db = AggregateWhenReady(x, w) /\ r.next = "succeeded"
            \/ ~terminal /\ r.db = x
  BY DEF RecordChunkFailure, Then, IsCurrent
<1>2. Continues(s, s, {}, Past(s))
  BY Staying DEF Continues
<1>3. status \in ChunkStatus /\ (~terminal => status \in Waiting)
  BY DEF ChunkStatus, Waiting
<1> HIDE DEF status, r
<1>4. ASSUME s.doc[w.doc].status # "deleted"
      PROVE  /\ IsDatabase(x)
             /\ Carries(s, x, {w}, {}, Past(s))
             /\ ~terminal => Ahead(x, w)
  <2>1. /\ Becomes(s, x, s.batch, s.doc, x.chunk, s.cand, s.jobs)
        /\ Writes(s, x, w, [status |-> status, answer |-> None])
    BY <1>3, <1>4, StatusWrites, SoundParts
  <2> HIDE DEF x
  <2>2. ~terminal => Ahead(x, w)
    BY <1>3, <1>4, <2>1, WrittenIsAhead
  <2>3. [status |-> status, answer |-> None].answer = None
    OBVIOUS
  <2>4. Carries(s, x, {w}, {}, Past(s))
    BY <2>1, <2>3, WritingCarries
  <2> QED BY <2>1, <2>2, <2>4 DEF Becomes
<1> HIDE DEF x
<1>5. ASSUME s.doc[w.doc].status # "deleted"
      PROVE  Carries(s, AggregateWhenReady(x, w), {w}, {}, Past(s))
  <2>1. w.gen = 1
    BY <1>5 DEF Opened
  <2> QED BY <1>4, <1>5, <2>1, AggregateCarries
<1> QED BY <1>1, <1>2, <1>4, <1>5 DEF Performs, r

\* RecordChunkResult.
LEMMA RecordChunkResultPerforms ==
    ASSUME NEW s, Sound(s), NEW w, IsWork(w), w.kind = "chunk", NEW answer,
           s.doc[w.doc].status # "deleted" => Opened(s, w)
    PROVE  Performs(s, RecordChunkResult(s, w, answer), w)
<1> DEFINE r == RecordChunkResult(s, w, answer)
           row == [status |-> "valid", answer |-> answer]
           x == [s EXCEPT !.chunk[w.doc][w.gen][w.n] = row]
<1>1. \/ r.db = s
      \/ /\ s.doc[w.doc].status # "deleted"
         /\ r.db = AggregateWhenReady(x, w) /\ r.next = "succeeded"
  BY DEF RecordChunkResult, Then, IsCurrent
<1>2. Continues(s, s, {}, Past(s))
  BY Staying DEF Continues
<1>3. row.status = "valid"
  OBVIOUS
<1> HIDE DEF r, row
<1>4. ASSUME s.doc[w.doc].status # "deleted"
      PROVE  IsDatabase(x) /\ Carries(s, x, {w}, {}, Past(s))
  <2>1. /\ Becomes(s, x, s.batch, s.doc, x.chunk, s.cand, s.jobs)
        /\ Writes(s, x, w, row)
    BY <1>4, AnswerWrites, SoundParts
  <2> HIDE DEF x
  <2>2. Carries(s, x, {w}, {}, Past(s))
    BY <1>3, <2>1, WritingCarries
  <2> QED BY <2>1, <2>2 DEF Becomes
<1> HIDE DEF x
<1>5. ASSUME s.doc[w.doc].status # "deleted"
      PROVE  Carries(s, AggregateWhenReady(x, w), {w}, {}, Past(s))
  <2>1. w.gen = 1
    BY <1>5 DEF Opened
  <2> QED BY <1>4, <1>5, <2>1, AggregateCarries
<1> QED BY <1>1, <1>2, <1>5 DEF Performs, r

\* The other branch of markTerminalJobFailure.
LEMMA FailDocumentCarries ==
    ASSUME NEW s, Sound(s), NEW w, IsWork(w), NEW D,
           s.doc[w.doc].status # "deleted" => Opened(s, w)
    PROVE  \/ Continues(s, FailDocument(s, w), {}, D)
           \/ /\ s.doc[w.doc].status # "deleted"
              /\ w.kind = "chunk"
              /\ Carries(s, FailDocument(s, w), {w}, {}, D)
<1> DEFINE chunkFails == /\ w.kind = "chunk" /\ HasChunk(s, w)
                         /\ ChunksOf(s, w)[w.n].status \in {"queued", "parsing"}
           struck == [s EXCEPT !.chunk[w.doc][w.gen][w.n].status = "failed"]
           marked == IF chunkFails THEN struck ELSE s
           fails == /\ IsCurrent(s, w)
                    /\ s.doc[w.doc].status \notin {"completed", "completed_with_errors",
                                                   "cancelled"}
           row == [s.doc[w.doc] EXCEPT !.status = "failed", !.errors = TRUE, !.done = TRUE]
           doc == [s.doc EXCEPT ![w.doc] = row]
           ended == [marked EXCEPT !.doc[w.doc] = [@ EXCEPT !.status = "failed",
                                                            !.errors = TRUE,
                                                            !.done = TRUE]]
           last == IF fails THEN ended ELSE marked
<1>1. FailDocument(s, w) = Refresh(last)
  BY DEF FailDocument
<1>2. w.doc \in Documents /\ w.gen \in Generations /\ "failed" \in ChunkStatus
  BY DEF IsWork, ChunkStatus
<1>3. /\ Becomes(s, marked, s.batch, s.doc, marked.chunk, s.cand, s.jobs)
      /\ marked.chunk \in [Documents -> [Generations -> [1..Chunks -> ChunkRow]]]
  <2>1. /\ Becomes(s, struck, s.batch, s.doc, struck.chunk, s.cand, s.jobs)
        /\ struck.chunk \in [Documents -> [Generations -> [1..Chunks -> ChunkRow]]]
    BY <1>2, ChunkStatusParts, SoundParts
  <2>2. Becomes(s, s, s.batch, s.doc, s.chunk, s.cand, s.jobs)
    BY SoundParts DEF Becomes
  <2> HIDE DEF struck, chunkFails
  <2> QED BY <2>1, <2>2, SoundParts
<1>4. \/ marked = s
      \/ /\ s.doc[w.doc].status # "deleted" /\ w.kind = "chunk"
         /\ Carries(s, marked, {w}, {}, D)
  <2>1. CASE ~chunkFails
    BY <2>1
  <2>2. CASE chunkFails
    <3>1. s.doc[w.doc].status # "deleted" /\ w.kind = "chunk" /\ marked = struck
      BY <2>2 DEF HasChunk
    <3>2. /\ Becomes(s, struck, s.batch, s.doc, struck.chunk, s.cand, s.jobs)
          /\ Writes(s, struck, w, [status |-> "failed", answer |-> None])
      BY <1>2, <3>1, StatusWrites, SoundParts
    <3> HIDE DEF struck
    <3>3. [status |-> "failed", answer |-> None].answer = None
      OBVIOUS
    <3>4. Carries(s, struck, {w}, {}, D)
      BY <3>1, <3>2, <3>3, WritingCarries
    <3> QED BY <3>1, <3>4
  <2> QED BY <2>1, <2>2
<1> HIDE DEF marked
<1>5. /\ marked.batch = s.batch /\ marked.doc = s.doc /\ marked.jobs = s.jobs
      /\ marked.cand = s.cand /\ IsDatabase(marked)
  BY <1>3 DEF Becomes
<1>6. Shape(marked) /\ Continues(marked, marked, {}, D)
  <2>1. Sound(marked)
    BY <1>3, <1>5, PlainIsSound, SoundParts, SameDocuments
  <2> QED BY <2>1, SoundParts, Staying DEF Continues
<1>7. ASSUME fails PROVE Shape(ended) /\ Continues(marked, ended, {}, D)
  <2>1. row \in DocumentRow /\ Stays(s.doc[w.doc], row)
    <3>1. s.doc[w.doc] \in DocumentRow
      BY <1>2, SoundParts
    <3>2. row \in DocumentRow
      BY <3>1 DEF DocumentRow, DocumentStatus, Finished
    <3> QED BY <1>7, <3>1, <3>2 DEF Stays, DocumentRow, Aggregated, IsCurrent
  <2>2. ended = [marked EXCEPT !.doc = doc]
    BY <1>5
  <2> HIDE DEF row, ended
  <2>3. doc \in [Documents -> DocumentRow]
    BY <1>2, <2>1, OneDocument, SoundParts
  <2>4. Becomes(marked, ended, marked.batch, [marked.doc EXCEPT ![w.doc] = row], marked.chunk,
                marked.cand, marked.jobs)
    BY <1>5, <2>2, Replacing
  <2>5. Continues(marked, ended, {}, D)
    BY <1>2, <1>5, <2>1, <2>4, SoundParts, Staying, RowContinues
  <2>6. Shape(ended)
    BY <1>5, <1>6, <2>3, <2>4 DEF Becomes, Shape
  <2> QED BY <2>5, <2>6
<1> HIDE DEF ended, fails
<1>8. Shape(last) /\ Continues(marked, last, {}, D)
  BY <1>6, <1>7
<1> HIDE DEF last
<1>9. Continues(marked, Refresh(last), {}, D)
  BY <1>8, RefreshContinues, ContinuesAdd
<1> QED BY <1>1, <1>4, <1>9, CarriesThen

----------------------------------------------------------------------------
(* The steps that read nothing again.                                      *)

\* What is open has a row.
LEMMA OpenHasRow ==
    ASSUME NEW s, NEW x, NEW y \in OpenWork(s, x)
    PROVE  \E j \in s.jobs : y = WorkOf(j) /\ IsOpen(j, x)
BY DEF OpenWork

\* A step that carries the documents on, after which what was written is done
\* with or waits again.
LEMMA OnceCarries ==
    ASSUME NEW s, NEW s2, NEW x, NEW x2, NEW w, NEW X, NEW P,
           JobsFit(s.jobs), JobsFit(s2.jobs),
           \A v \in Workers : x[v].pc # "idle" => IsWork(x[v].work),
           Once(s, x), Carries(s, s2, X, P, Past(s)), Moves(s, x, x2, w, P),
           X \subseteq OpenWork(s, x),
           \A y \in X : y.kind = "chunk" /\ y \in OpenWork(s2, x2) => Ahead(s2, y)
    PROVE  Once(s2, x2)
<1>1. RunsOn(s, s2, P)
  BY CarriesRunsOn
<1>2. Held(s, x) /\ Staged(s, OpenWork(s, x))
  BY DEF Once
<1>3. /\ Held(s2, x2)
      /\ \A y \in OpenWork(s2, x2) :
            \E j \in s2.jobs : y = WorkOf(j) /\ (j \in s.jobs => y \in OpenWork(s, x))
  BY <1>1, <1>2, HeldMoves
<1>4. \A y \in OpenWork(s, x) : \E j \in s.jobs : y = WorkOf(j)
  BY OpenHasRow
<1> DEFINE open == OpenWork(s, x)
           open2 == OpenWork(s2, x2)
<1>5. /\ Staged(s, open) /\ X \subseteq open
      /\ \A y \in open : \E j \in s.jobs : y = WorkOf(j)
      /\ \A y \in open2 : \E j \in s2.jobs : y = WorkOf(j) /\ (j \in s.jobs => y \in open)
      /\ \A y \in X : y.kind = "chunk" /\ y \in open2 => Ahead(s2, y)
  BY <1>2, <1>3, <1>4
<1> HIDE DEF open, open2
<1>6. Staged(s2, open2)
  BY <1>5, StagedCarries
<1> QED BY <1>3, <1>6 DEF Once, open2

\* Work whose handler has done it is not open.
LEMMA DoneIsClosed ==
    ASSUME NEW s, NEW x, NEW w, JobsFit(s.jobs), NEW j \in s.jobs, Running(j, w),
           x[w].pc = "succeeded"
    PROVE  WorkOf(j) \notin OpenWork(s, x)
<1>1. SUFFICES ASSUME WorkOf(j) \in OpenWork(s, x) PROVE FALSE
  OBVIOUS
<1>2. PICK k \in s.jobs : WorkOf(j) = WorkOf(k) /\ IsOpen(k, x)
  BY <1>1, OpenHasRow
<1>3. k = j
  BY <1>2 DEF JobsFit
<1> QED BY <1>2, <1>3 DEF Running, IsOpen

\* A handler that has not done its work finds it still to be done.
LEMMA HandlerIsAhead ==
    ASSUME PipelineInv, Once(db, worker), NEW w \in Workers,
           worker[w].pc \notin {"idle", "succeeded"}
    PROVE  /\ IsWork(worker[w].work)
           /\ worker[w].pc \in Places(worker[w].work.kind)
           /\ db.doc[worker[w].work.doc].status # "deleted" =>
                /\ \E j \in db.jobs : Running(j, w) /\ WorkOf(j) = worker[w].work
                /\ worker[w].work \in OpenWork(db, worker)
                /\ Named(db, worker[w].work)
                /\ Ahead(db, worker[w].work)
                /\ Opened(db, worker[w].work)
<1> DEFINE work == worker[w].work
<1>1. IsWork(work) /\ worker[w].pc \in Places(work.kind)
  BY DEF PipelineInv, WorkersFit, IsWorker, Once, Held, WorkersHold
<1>2. ASSUME db.doc[work.doc].status # "deleted"
      PROVE  /\ \E j \in db.jobs : Running(j, w) /\ WorkOf(j) = work
             /\ work \in OpenWork(db, worker)
             /\ Named(db, work) /\ Ahead(db, work) /\ Opened(db, work)
  <2>1. PICK j \in db.jobs : Running(j, w)
    BY <1>2 DEF Once, Held, WorkersHold
  <2>2. WorkOf(j) = work
    BY <2>1 DEF Once, Held, JobsHeld, Running
  <2>3. work \in OpenWork(db, worker)
    BY <2>1, <2>2 DEF OpenWork, IsOpen, Running
  <2>4. Named(db, work) /\ Ahead(db, work)
    BY <2>2, <2>3 DEF Once, Staged
  <2>5. Opened(db, work)
    BY <2>4 DEF Named, Ahead, Opened
  <2> QED BY <2>1, <2>2, <2>3, <2>4, <2>5
<1> QED BY <1>1, <1>2

\* Where a handler is tells the kind of its work.
LEMMA PlaceTellsKind ==
    ASSUME NEW kind \in Kinds, NEW pc \in Places(kind)
    PROVE  /\ pc \in {"prepare", "render", "pages"} => kind = "prepare"
           /\ pc \in {"chunk", "parse", "answer"} => kind = "chunk"
           /\ pc = "aggregate" => kind = "aggregate"
           /\ pc = "reconcile" => kind = "reconcile"
           /\ pc \in {"post", "settle"} => kind = "post"
BY DEF Kinds, Places

\* The worker after a transaction of its handler.
LEMMA WorkerGoesOn ==
    ASSUME PipelineInv, NEW w \in Workers, NEW pc, worker' = [worker EXCEPT ![w].pc = pc]
    PROVE  /\ worker'[w].pc = pc /\ worker'[w].work = worker[w].work
           /\ \A v \in Workers : v # w => worker'[v] = worker[v]
<1>1. worker = [v \in Workers |-> worker[v]]
      /\ worker[w] = [pc |-> worker[w].pc, work |-> worker[w].work]
  BY DEF PipelineInv, WorkersFit, IsWorker
<1>2. worker'[w] = [worker[w] EXCEPT !.pc = pc]
  BY <1>1
<1>3. \A v \in Workers : v # w => worker'[v] = worker[v]
  BY <1>1
<1> QED BY <1>1, <1>2, <1>3

\* A transaction of a handler that performs what it is to do.
LEMMA CommitIsOnce ==
    ASSUME PipelineInv, PipelineInv', Once(db, worker), NEW w \in Workers,
           worker[w].pc \notin {"idle", "succeeded"},
           NEW result, Commit(w, result),
           Legal(result.db) =>
              /\ result.next \in Places(worker[w].work.kind)
              /\ Performs(db, result, worker[w].work)
    PROVE  Once(db', worker')
<1> DEFINE work == worker[w].work
           pc == IF Legal(result.db) THEN result.next ELSE "erred"
<1>1. /\ db' = IF Legal(result.db) THEN result.db ELSE db
      /\ worker' = [worker EXCEPT ![w].pc = pc]
  BY DEF Commit
<1>2. JobsFit(db.jobs) /\ JobsFit(db'.jobs)
  BY SoundParts DEF PipelineInv
<1>3. \A v \in Workers : worker[v].pc # "idle" => IsWork(worker[v].work)
  BY DEF PipelineInv, WorkersFit, IsWorker
<1>4. pc \in Places(work.kind)
  BY DEF Places
<1> HIDE DEF pc
<1>5. worker'[w].pc = pc /\ worker'[w].work = work /\ \A v \in Workers : v # w => worker'[v] = worker[v]
  BY <1>1, WorkerGoesOn
<1>6. Moves(db, worker, worker', w, {})
  BY <1>4, <1>5 DEF Moves
<1>7. CASE Continues(db, db', {}, Past(db))
  <2>1. Carries(db, db', {}, {}, Past(db))
    BY <1>7, ContinuesCarries
  <2> QED BY <1>2, <1>3, <1>6, <2>1, OnceCarries
<1>8. CASE /\ db.doc[work.doc].status # "deleted" /\ work.kind = "chunk"
           /\ Carries(db, db', {work}, {}, Past(db))
           /\ pc = "succeeded" \/ Ahead(db', work)
  <2>1. work \in OpenWork(db, worker) /\ \E j \in db.jobs : Running(j, w) /\ WorkOf(j) = work
    BY <1>8, HandlerIsAhead
  <2>2. PICK j \in db.jobs : Running(j, w) /\ WorkOf(j) = work
    BY <2>1
  <2>3. j \in db'.jobs
    BY <1>8, <2>2 DEF Carries, Running
  <2>4. ASSUME work \in OpenWork(db', worker') PROVE Ahead(db', work)
    <3>1. pc # "succeeded"
      BY <1>2, <1>5, <2>2, <2>3, <2>4, DoneIsClosed
    <3> QED BY <1>8, <3>1
  <2> QED BY <1>2, <1>3, <1>6, <1>8, <2>1, <2>4, OnceCarries
<1>9. Continues(db, db, {}, Past(db))
  BY Staying DEF Continues
<1>10. CASE Legal(result.db)
  <2>1. db' = result.db /\ pc = result.next
    BY <1>1, <1>10 DEF pc
  <2>2. Performs(db, result, work)
    BY <1>10
  <2> QED BY <1>7, <1>8, <2>1, <2>2 DEF Performs
<1>11. CASE ~Legal(result.db)
  BY <1>1, <1>7, <1>9, <1>11
<1> QED BY <1>10, <1>11

\* Handler.Handle, and Handler.prepare but for the recording of pages.
LEMMA PrepareStepsAreOnce ==
    ASSUME PipelineInv, PipelineInv', Once(db, worker), NEW w \in Workers,
           \/ Check(w) \/ Prepare(w) \/ RenderFails(w) \/ RenderSucceeds(w)
    PROVE  Once(db', worker')
<1> DEFINE work == worker[w].work
<1>1. Sound(db)
  BY DEF PipelineInv
<1>2. worker[w].pc \in {"check", "prepare", "render"}
  BY Zenon DEF Check, Prepare, RenderFails, RenderSucceeds
<1>3. IsWork(work) /\ worker[w].pc \in Places(work.kind)
  BY <1>2, HandlerIsAhead
<1>4. work.kind \in Kinds
  BY <1>3 DEF IsWork
<1>5. worker[w].pc \in {"prepare", "render"} => work.kind = "prepare"
  BY <1>3, <1>4, PlaceTellsKind
<1>6. \A kind : {"succeeded", "erred", kind} \subseteq Places(kind)
  BY DEF Places
<1>7. "render" \in Places("prepare") /\ "pages" \in Places("prepare")
  BY DEF Places
<1>8. \A next : /\ Performs(db, IsCancelled(db, work, next), work)
                /\ IsCancelled(db, work, next).next \in {next, "succeeded"}
  BY <1>1, <1>3, IsCancelledContinues DEF Performs
<1>9. CASE Check(w)
  <2>1. Commit(w, IsCancelled(db, work, work.kind))
    BY <1>9 DEF Check
  <2>2. IsCancelled(db, work, work.kind).next \in Places(work.kind)
    BY <1>6, <1>8
  <2> QED BY <1>2, <1>8, <2>1, <2>2, CommitIsOnce
<1>10. CASE Prepare(w)
  <2>1. Commit(w, LoadOriginals(db, work)) /\ worker[w].pc = "prepare"
    BY <1>10 DEF Prepare
  <2>2. LoadOriginals(db, work).next \in Places(work.kind)
    BY <1>1, <1>3, <1>5, <1>6, <1>7, <2>1, LoadOriginalsAdvances
  <2>3. Performs(db, LoadOriginals(db, work), work)
    BY <1>1, <1>3, LoadOriginalsContinues DEF Performs
  <2> QED BY <1>2, <2>1, <2>2, <2>3, CommitIsOnce
<1>11. CASE RenderFails(w)
  <2>1. \/ Commit(w, Then(db, "erred"))
        \/ ~db.doc[work.doc].genuine /\ Commit(w, RecordPrepareFailure(db, work))
    BY <1>11, Zenon DEF RenderFails
  <2>2. CASE Commit(w, Then(db, "erred"))
    <3>1. Then(db, "erred").db = db /\ Then(db, "erred").next = "erred"
      BY DEF Then
    <3>2. Continues(db, db, {}, Past(db))
      BY Staying DEF Continues
    <3> QED BY <1>2, <1>6, <2>2, <3>1, <3>2, CommitIsOnce DEF Performs
  <2>3. CASE ~db.doc[work.doc].genuine /\ Commit(w, RecordPrepareFailure(db, work))
    <3>1. Legal(RecordPrepareFailure(db, work).db) =>
             RecordPrepareFailure(db, work).next \in Places(work.kind)
      BY <1>1, <1>3, <1>6, <2>3, RecordPrepareFailureAdvances
    <3>2. Performs(db, RecordPrepareFailure(db, work), work)
      BY <1>1, <1>3, RecordPrepareFailureContinues DEF Performs
    <3> QED BY <1>2, <2>3, <3>1, <3>2, CommitIsOnce
  <2> QED BY <2>1, <2>2, <2>3
<1>12. CASE RenderSucceeds(w)
  <2>1. Commit(w, IsCancelled(db, work, "pages")) /\ worker[w].pc = "render"
    BY <1>12 DEF RenderSucceeds
  <2>2. IsCancelled(db, work, "pages").next \in Places(work.kind)
    BY <1>5, <1>6, <1>7, <1>8, <2>1
  <2> QED BY <1>2, <1>8, <2>1, <2>2, CommitIsOnce
<1> QED BY <1>9, <1>10, <1>11, <1>12

\* Handler.parseChunk.
LEMMA ParseStepsAreOnce ==
    ASSUME PipelineInv, PipelineInv', Once(db, worker), NEW w \in Workers,
           StartChunk(w) \/ ParseFails(w) \/ ParseSucceeds(w) \/ RecordAnswer(w)
    PROVE  Once(db', worker')
<1> DEFINE work == worker[w].work
<1>1. Sound(db)
  BY DEF PipelineInv
<1>2. worker[w].pc \in {"chunk", "parse", "answer"}
  BY Zenon DEF StartChunk, ParseFails, ParseSucceeds, RecordAnswer
<1>3. /\ IsWork(work) /\ worker[w].pc \in Places(work.kind)
      /\ db.doc[work.doc].status # "deleted" => Opened(db, work)
  BY <1>2, HandlerIsAhead
<1>4. work.kind \in Kinds
  BY <1>3 DEF IsWork
<1>5. work.kind = "chunk"
  BY <1>2, <1>3, <1>4, PlaceTellsKind
<1>6. {"succeeded", "erred", "parse", "answer"} \subseteq Places(work.kind)
  BY <1>5 DEF Places
<1>7. CASE StartChunk(w)
  <2>1. Commit(w, LoadChunk(db, work))
    BY <1>7 DEF StartChunk
  <2>2. LoadChunk(db, work).next \in {"parse", "erred"}
    BY DEF LoadChunk, Then
  <2>3. Performs(db, LoadChunk(db, work), work)
    BY <1>1, <1>3, <1>5, LoadChunkPerforms
  <2> QED BY <1>2, <1>6, <2>1, <2>2, <2>3, CommitIsOnce
<1>8. CASE ParseFails(w)
  <2>1. \/ Commit(w, Then(db, "erred"))
        \/ \E terminal \in BOOLEAN : Commit(w, RecordChunkFailure(db, work, terminal))
    BY <1>8, Zenon DEF ParseFails
  <2>2. CASE Commit(w, Then(db, "erred"))
    <3>1. Then(db, "erred").db = db /\ Then(db, "erred").next = "erred"
      BY DEF Then
    <3>2. Continues(db, db, {}, Past(db))
      BY Staying DEF Continues
    <3> QED BY <1>2, <1>6, <2>2, <3>1, <3>2, CommitIsOnce DEF Performs
  <2>3. ASSUME NEW terminal \in BOOLEAN, Commit(w, RecordChunkFailure(db, work, terminal))
        PROVE  Once(db', worker')
    <3>1. RecordChunkFailure(db, work, terminal).next \in {"succeeded", "erred"}
      BY DEF RecordChunkFailure, Then
    <3>2. Performs(db, RecordChunkFailure(db, work, terminal), work)
      BY <1>1, <1>3, <1>5, RecordChunkFailurePerforms
    <3> QED BY <1>2, <1>6, <2>3, <3>1, <3>2, CommitIsOnce
  <2> QED BY <2>1, <2>2, <2>3
<1>9. CASE ParseSucceeds(w)
  <2>1. Commit(w, IsCancelled(db, work, "answer"))
    BY <1>9 DEF ParseSucceeds
  <2>2. /\ Performs(db, IsCancelled(db, work, "answer"), work)
        /\ IsCancelled(db, work, "answer").next \in {"answer", "succeeded"}
    BY <1>1, <1>3, IsCancelledContinues DEF Performs
  <2> QED BY <1>2, <1>6, <2>1, <2>2, CommitIsOnce
<1>10. CASE RecordAnswer(w)
  <2>1. PICK answer \in Outputs \cup {None} : Commit(w, RecordChunkResult(db, work, answer))
    BY <1>10 DEF RecordAnswer
  <2>2. RecordChunkResult(db, work, answer).next \in {"succeeded", "erred"}
    BY DEF RecordChunkResult, Then
  <2>3. Performs(db, RecordChunkResult(db, work, answer), work)
    BY <1>1, <1>3, <1>5, RecordChunkResultPerforms
  <2> QED BY <1>2, <1>6, <2>1, <2>2, <2>3, CommitIsOnce
<1> QED BY <1>7, <1>8, <1>9, <1>10

\* Reconciliation, and post processing.
LEMMA SettlingStepsAreOnce ==
    ASSUME PipelineInv, PipelineInv', Once(db, worker), AllFirst(db), NEW w \in Workers,
           Reconcile(w) \/ PostProcess(w) \/ Settle(w)
    PROVE  Once(db', worker')
<1> DEFINE work == worker[w].work
<1>1. Sound(db)
  BY DEF PipelineInv
<1>2. worker[w].pc \in {"reconcile", "post", "settle"}
  BY Zenon DEF Reconcile, PostProcess, Settle
<1>3. IsWork(work) /\ worker[w].pc \in Places(work.kind)
  BY <1>2, HandlerIsAhead
<1>4. work.kind \in Kinds
  BY <1>3 DEF IsWork
<1>5. worker[w].pc \in {"post", "settle"} => work.kind = "post"
  BY <1>3, <1>4, PlaceTellsKind
<1>6. \A kind : {"succeeded", "erred"} \subseteq Places(kind)
  BY DEF Places
<1>7. "settle" \in Places("post")
  BY DEF Places
<1>8. CASE Reconcile(w)
  <2>1. Commit(w, ReconcileCandidate(db, work))
    BY <1>8 DEF Reconcile
  <2>2. ReconcileCandidate(db, work).next \in {"succeeded", "erred"}
    BY DEF ReconcileCandidate, Then
  <2>3. Performs(db, ReconcileCandidate(db, work), work)
    BY <1>1, <1>3, ReconcileCandidateContinues DEF Performs
  <2> QED BY <1>2, <1>6, <2>1, <2>2, <2>3, CommitIsOnce
<1>9. CASE PostProcess(w)
  <2>1. Commit(w, LoadPostProcessInput(db, work)) /\ worker[w].pc = "post"
    BY <1>9 DEF PostProcess
  <2>2. /\ LoadPostProcessInput(db, work).next \in {"settle", "erred"}
        /\ LoadPostProcessInput(db, work).db = db
    BY DEF LoadPostProcessInput, Then
  <2>3. Continues(db, db, {}, Past(db))
    BY Staying DEF Continues
  <2>4. Performs(db, LoadPostProcessInput(db, work), work)
    BY <2>2, <2>3 DEF Performs
  <2> QED BY <1>2, <1>5, <1>6, <1>7, <2>1, <2>2, <2>4, CommitIsOnce
<1>10. CASE Settle(w)
  <2>1. Commit(w, RecordPostProcess(db, work))
    BY <1>10 DEF Settle
  <2>2. RecordPostProcess(db, work).next = "succeeded"
    BY DEF RecordPostProcess, Then
  <2>3. Performs(db, RecordPostProcess(db, work), work)
    BY <1>1, <1>3, RecordPostProcessContinues DEF Performs
  <2> QED BY <1>2, <1>6, <2>1, <2>2, <2>3, CommitIsOnce
<1> QED BY <1>8, <1>9, <1>10

----------------------------------------------------------------------------
(* The end of a job.                                                       *)

\* A batch that is recomputed satisfies its check constraint, unless it was
\* finished and a document is in the works.
LEMMA RecomputeIsLegal ==
    ASSUME NEW s, IsDatabase(s), s.batch \in BatchRow, Legal(s),
           s.batch.status \in Closed => \A d \in Documents : s.doc[d].status \notin Active
    PROVE  Legal(Recompute(s))
<1> DEFINE active == \E d \in Documents : s.doc[d].status \in Active
           failed == \E d \in Documents : s.doc[d].status # "deleted" /\ s.doc[d].errors
           status == IF s.batch.status = "cancelling" /\ ~active THEN "cancelled"
                     ELSE IF ~active /\ failed THEN "completed_with_errors"
                     ELSE IF ~active THEN "completed"
                     ELSE IF s.batch.status = "queued" THEN "running"
                     ELSE s.batch.status
           row == [status |-> status, started |-> s.batch.started \/ s.batch.status = "queued",
                   done |-> ~active]
<1>1. Recompute(s) = [s EXCEPT !.batch = row]
  BY DEF Recompute
<1>2. row.status = status /\ row.done = ~active
      /\ row.started = (s.batch.started \/ s.batch.status = "queued")
  OBVIOUS
<1>3. BatchLifecycle(s.batch) /\ \A d \in Documents : DocumentLifecycle(s.doc[d])
  BY DEF Legal
<1>4. active => s.batch.status \notin Closed
  OBVIOUS
<1> HIDE DEF row, failed, active
<1>5. BatchLifecycle(row)
  <2>1. CASE ~active
    <3>1. status \in {"cancelled", "completed", "completed_with_errors"}
      BY <2>1
    <3> QED BY <1>2, <2>1, <3>1 DEF BatchLifecycle
  <2>2. CASE active
    <3>1. s.batch.status \in {"queued", "running", "cancelling"} /\ (s.batch.status # "queued" => s.batch.started)
      BY <1>3, <1>4, <2>2 DEF BatchLifecycle, Closed
    <3>2. status \in {"running", "cancelling"}
      BY <2>2, <3>1
    <3>3. row.started /\ ~row.done
      BY <1>2, <2>2, <3>1
    <3> QED BY <1>2, <3>2, <3>3 DEF BatchLifecycle
  <2> QED BY <2>1, <2>2
<1>6. Recompute(s).batch = row /\ Recompute(s).doc = s.doc
  BY <1>1, Replacing DEF Becomes
<1> QED BY <1>3, <1>5, <1>6 DEF Legal

\* As long as no document was retried, the refresh at the end of a job is one
\* the check constraints accept.
LEMMA RefreshIsLegal ==
    ASSUME NEW s, Shape(s), Legal(s), Quiet(s), AllFirst(s)
    PROVE  Legal(Refresh(s))
<1> DEFINE stop == s.batch.status = "cancelling"
           drained(e) == /\ s.doc[e].status \in Active
                         /\ ~\E j \in s.jobs : j.doc = e
           cand == {IF /\ stop /\ c.status = "pending"
                       /\ ~\E j \in s.jobs :
                             WorkOf(j) = Work("reconcile", c.doc, c.gen, c.cut, c.n)
                    THEN [c EXCEPT !.status = "cancelled"] ELSE c : c \in s.cand}
           doc == [e \in Documents |-> IF stop /\ drained(e)
                     THEN [s.doc[e] EXCEPT !.status = "cancelled", !.done = TRUE]
                     ELSE s.doc[e]]
<1>1. PICK x : x = [s EXCEPT !.cand = cand, !.doc = doc]
  OBVIOUS
<1>2. Refresh(s) = Recompute(x)
  BY <1>1 DEF Refresh
<1> HIDE DEF cand, doc
<1>3. Becomes(s, x, s.batch, doc, s.chunk, cand, s.jobs)
  <2>1. PICK y : y = [s EXCEPT !.cand = cand]
    OBVIOUS
  <2>2. Becomes(s, y, s.batch, s.doc, s.chunk, cand, s.jobs)
    BY <2>1, Replacing DEF Shape
  <2>3. Becomes(s, [y EXCEPT !.doc = doc], s.batch, doc, s.chunk, cand, s.jobs)
    BY <2>2, ReplacingNext
  <2>4. x = [y EXCEPT !.doc = doc]
    BY <1>1, <2>1
  <2> QED BY <2>3, <2>4
<1>4. IsDatabase(x) /\ x.batch = s.batch /\ x.doc = doc
  BY <1>3 DEF Becomes
<1>5. Refresh(s).doc = x.doc
  BY <1>2, <1>4, RecomputeParts DEF Becomes
<1>6. \A d \in Documents : x.doc[d] = s.doc[d] \/ x.doc[d].status = "cancelled"
  BY <1>5, RefreshCancels
<1>7. Legal(x)
  BY <1>4, <1>6 DEF Legal, DocumentLifecycle
<1>8. x.batch.status \in Closed => \A d \in Documents : x.doc[d].status \notin Active
  <2>1. s.batch.status \in Closed => \A d \in Documents : s.doc[d].status \notin Active
    BY DEF Quiet, AllFirst
  <2> QED BY <1>4, <1>6, <2>1 DEF Active
<1>9. x.batch \in BatchRow
  BY <1>4 DEF Shape
<1> QED BY <1>2, <1>4, <1>7, <1>8, <1>9, RecomputeIsLegal

\* So is the one after a job that failed for good.
LEMMA FailCandidateIsLegal ==
    ASSUME NEW s, Sound(s), Legal(s), Quiet(s), AllFirst(s), NEW w, IsWork(w),
           s.doc[w.doc].genuine
    PROVE  Legal(FailCandidate(s, w))
<1> DEFINE P == {c \in s.cand : Key(c) = <<w.doc, w.gen, w.cut, w.n>> /\ c.status = "pending"}
           cand == Struck(s.cand, P, "failed")
           failed == [s EXCEPT !.cand = cand]
           posted == PostProcessIfReady(failed, w)
<1>1. FailCandidate(s, w) = Refresh(posted)
  <2>1. cand = {IF Key(c) = <<w.doc, w.gen, w.cut, w.n>> /\ c.status = "pending"
                THEN [c EXCEPT !.status = "failed"] ELSE c : c \in s.cand}
    BY DEF Struck
  <2> HIDE DEF cand
  <2> QED BY <2>1 DEF FailCandidate
<1>2. P \subseteq s.cand /\ \A c \in P : c.status = "pending"
  OBVIOUS
<1>3. w.doc \in Documents /\ w.gen \in Generations
  BY DEF IsWork
<1> HIDE DEF P
<1>4. Becomes(s, failed, s.batch, s.doc, s.chunk, cand, s.jobs)
  BY Replacing, SoundParts
<1> HIDE DEF failed
<1>5. /\ failed.batch = s.batch /\ failed.doc = s.doc /\ failed.chunk = s.chunk
      /\ failed.jobs = s.jobs
  BY <1>4 DEF Becomes
<1>6. Sound(failed)
  BY <1>2, <1>4, <1>5, RoutineIsSound, SoundParts, SameDocuments
<1>7. Sound(posted) /\ Becomes(failed, posted, s.batch, s.doc, failed.chunk, failed.cand, posted.jobs)
  BY <1>3, <1>5, <1>6, EnqueueIsSound
<1> HIDE DEF posted
<1>8. posted.batch = s.batch /\ posted.doc = s.doc
  BY <1>7 DEF Becomes
<1>9. Legal(posted) /\ Quiet(posted) /\ AllFirst(posted)
  BY <1>8 DEF Legal, Quiet, AllFirst
<1> QED BY <1>1, <1>7, <1>9, SoundParts, RefreshIsLegal

\* And after a document that failed.
LEMMA FailDocumentIsLegal ==
    ASSUME NEW s, Sound(s), Legal(s), Quiet(s), AllFirst(s), NEW w, IsWork(w)
    PROVE  Legal(FailDocument(s, w))
<1> DEFINE chunkFails == /\ w.kind = "chunk" /\ HasChunk(s, w)
                         /\ ChunksOf(s, w)[w.n].status \in {"queued", "parsing"}
           struck == [s EXCEPT !.chunk[w.doc][w.gen][w.n].status = "failed"]
           marked == IF chunkFails THEN struck ELSE s
           fails == /\ IsCurrent(s, w)
                    /\ s.doc[w.doc].status \notin {"completed", "completed_with_errors",
                                                   "cancelled"}
           row == [s.doc[w.doc] EXCEPT !.status = "failed", !.errors = TRUE, !.done = TRUE]
           doc == [s.doc EXCEPT ![w.doc] = row]
           ended == [marked EXCEPT !.doc[w.doc] = [@ EXCEPT !.status = "failed",
                                                            !.errors = TRUE,
                                                            !.done = TRUE]]
           last == IF fails THEN ended ELSE marked
<1>1. FailDocument(s, w) = Refresh(last)
  BY DEF FailDocument
<1>2. w.doc \in Documents /\ w.gen \in Generations /\ "failed" \in ChunkStatus
  BY DEF IsWork, ChunkStatus
<1>3. /\ Becomes(s, marked, s.batch, s.doc, marked.chunk, s.cand, s.jobs)
      /\ marked.chunk \in [Documents -> [Generations -> [1..Chunks -> ChunkRow]]]
  <2>1. /\ Becomes(s, struck, s.batch, s.doc, struck.chunk, s.cand, s.jobs)
        /\ struck.chunk \in [Documents -> [Generations -> [1..Chunks -> ChunkRow]]]
    BY <1>2, ChunkStatusParts, SoundParts
  <2>2. Becomes(s, s, s.batch, s.doc, s.chunk, s.cand, s.jobs)
    BY SoundParts DEF Becomes
  <2> HIDE DEF struck, chunkFails
  <2> QED BY <2>1, <2>2, SoundParts
<1> HIDE DEF marked
<1>4. /\ marked.batch = s.batch /\ marked.doc = s.doc /\ IsDatabase(marked)
  BY <1>3 DEF Becomes
<1>5. Shape(marked) /\ Legal(marked) /\ Quiet(marked) /\ AllFirst(marked)
  <2>1. Shape(marked)
    BY <1>3, SoundParts DEF Becomes, Shape
  <2> QED BY <1>4, <2>1 DEF Legal, Quiet, AllFirst
<1>6. Shape(ended) /\ Legal(ended) /\ Quiet(ended) /\ AllFirst(ended)
  <2>1. s.doc \in [Documents -> DocumentRow] /\ s.doc[w.doc] \in DocumentRow
    BY <1>2, SoundParts
  <2>2. row \in DocumentRow
    BY <2>1 DEF DocumentRow, DocumentStatus, Finished
  <2>3. row.status = "failed" /\ row.done /\ row.gen = s.doc[w.doc].gen
    BY <2>1 DEF DocumentRow
  <2>4. ended = [marked EXCEPT !.doc = doc]
    BY <1>4
  <2> HIDE DEF row, ended
  <2>5. /\ doc \in [Documents -> DocumentRow] /\ doc[w.doc] = row
        /\ \A e \in Documents : e # w.doc => doc[e] = s.doc[e]
    BY <1>2, <2>2, OneDocument, SoundParts
  <2>6. Becomes(marked, ended, marked.batch, doc, marked.chunk, marked.cand, marked.jobs)
    BY <1>4, <2>4, Replacing
  <2>7. ended.batch = s.batch /\ ended.doc = doc
    BY <1>4, <2>6 DEF Becomes
  <2>8. Shape(ended)
    BY <1>5, <2>5, <2>6 DEF Becomes, Shape
  <2>9. Legal(ended)
    BY <2>3, <2>5, <2>7 DEF Legal, DocumentLifecycle
  <2>10. Quiet(ended) /\ AllFirst(ended)
    BY <2>3, <2>5, <2>7 DEF Quiet, AllFirst, Active
  <2> QED BY <2>8, <2>9, <2>10
<1> HIDE DEF ended, fails
<1>7. Shape(last) /\ Legal(last) /\ Quiet(last) /\ AllFirst(last)
  BY <1>5, <1>6
<1> HIDE DEF last
<1> QED BY <1>1, <1>7, RefreshIsLegal

\* Rows that are replaced by rows about the same work.
LEMMA StagedRejobbed ==
    ASSUME NEW s, NEW s2, NEW open, NEW open2,
           JobsFit(s.jobs), JobsFit(s2.jobs), Staged(s, open),
           s2.doc = s.doc, s2.chunk = s.chunk, s2.cand = s.cand,
           \A j \in s2.jobs : \E k \in s.jobs : WorkOf(k) = WorkOf(j),
           open2 \subseteq open
    PROVE  Staged(s2, open2)
<1>1. \A d : \A i : Cell(s2, d, i) = Cell(s, d, i)
  BY DEF Cell
<1>2. \A d : NoneWaits(s2, d) <=> NoneWaits(s, d)
  BY <1>1 DEF NoneWaits
<1>3. \A d : Read(s2, d) <=> Read(s, d)
  BY <1>1, <1>2 DEF Read, HasCandidate
<1>4. ASSUME NEW j \in s2.jobs
      PROVE  \E k \in s.jobs : WorkOf(k) = WorkOf(j) /\ k.kind = j.kind /\ k.doc = j.doc
  <2>1. PICK k \in s.jobs : WorkOf(k) = WorkOf(j)
    OBVIOUS
  <2>2. /\ WorkOf(k).kind = k.kind /\ WorkOf(k).doc = k.doc
        /\ WorkOf(j).kind = j.kind /\ WorkOf(j).doc = j.doc
    BY JobParts DEF JobsFit
  <2> QED BY <2>1, <2>2
<1>5. ASSUME NEW j \in s2.jobs PROVE Named(s2, WorkOf(j))
  BY <1>5 DEF Staged, Named
<1>6. ASSUME NEW w \in open2 PROVE Ahead(s2, w)
  <2>1. Ahead(s, w)
    BY DEF Staged
  <2>2. \A c : c \in s2.cand <=> c \in s.cand
    OBVIOUS
  <2>3. (\A j \in s.jobs : j.doc = w.doc => j.kind = "prepare")
        => \A j \in s2.jobs : j.doc = w.doc => j.kind = "prepare"
    BY <1>4
  <2> QED BY <1>1, <2>1, <2>3 DEF Ahead
<1>7. Behind(s2)
  <2>1. Behind(s)
    BY DEF Staged
  <2> QED BY <1>1, <1>2, <1>3, <1>4, <2>1 DEF Behind
<1> QED BY <1>5, <1>6, <1>7 DEF Staged

\* The database without the rows a worker is done with.
LEMMA WithoutJobParts ==
    ASSUME PipelineInv, NEW w \in Workers, NEW D
    PROVE  LET x == WithoutJob(w) IN
           /\ Becomes(db, x, db.batch, db.doc, db.chunk, db.cand, db.jobs \ Owned(db, w))
           /\ Sound(x) /\ Legal(x) /\ Quiet(x)
           /\ AllFirst(db) => AllFirst(x)
           /\ Continues(db, x, Owned(db, w), D)
<1> DEFINE x == WithoutJob(w)
           jobs == db.jobs \ Owned(db, w)
<1>1. Sound(db) /\ Legal(db) /\ Quiet(db)
  BY DEF PipelineInv
<1>2. x = [db EXCEPT !.jobs = jobs]
  BY DEF WithoutJob
<1> HIDE DEF x
<1>3. Becomes(db, x, db.batch, db.doc, db.chunk, db.cand, jobs)
  BY <1>1, <1>2, SoundParts, Replacing
<1>4. x.batch = db.batch /\ x.doc = db.doc
  BY <1>3 DEF Becomes
<1>5. Sound(x)
  BY <1>1, <1>3, FewerIsSound
<1>6. Legal(x) /\ Quiet(x) /\ (AllFirst(db) => AllFirst(x))
  BY <1>1, <1>4 DEF Legal, Quiet, AllFirst
<1>7. JobsGoOn(db.jobs, jobs, Owned(db, w), D)
  BY DEF JobsGoOn
<1>8. Continues(db, x, Owned(db, w), D)
  BY <1>3, <1>7, Staying, ContinuesBy
<1> QED BY <1>3, <1>5, <1>6, <1>8 DEF x

\* A worker that ends has no row any more but those it owned.
LEMMA IdleMoves ==
    ASSUME PipelineInv, Once(db, worker), NEW w \in Workers, worker[w].pc # "idle",
           worker' = [worker EXCEPT ![w] = Idle]
    PROVE  Moves(db, worker, worker', w, Owned(db, w))
<1>1. worker = [v \in Workers |-> worker[v]]
  BY DEF PipelineInv, WorkersFit
<1>2. worker'[w] = Idle /\ \A v \in Workers : v # w => worker'[v] = worker[v]
  BY <1>1
<1>3. worker'[w].pc = "idle"
  BY <1>2 DEF Idle
<1>4. \A j \in Owned(db, w) : Running(j, w)
  BY DEF Owned, Running
<1>5. \A j \in db.jobs : Running(j, w) => j \in Owned(db, w)
  BY DEF Once, Held, JobsHeld, Running, Owned
<1> QED BY <1>2, <1>3, <1>4, <1>5 DEF Moves

\* A row that is finished, or left as it is.
LEMMA FinishIsOnce ==
    ASSUME PipelineInv, PipelineInv', Once(db, worker), NEW w \in Workers,
           worker[w].pc # "idle", NEW s, Finish(w, s),
           Owned(db, w) # {} =>
              /\ Legal(s)
              /\ \/ Continues(db, s, Owned(db, w), Past(db))
                 \/ /\ worker[w].work \in OpenWork(db, worker)
                    /\ Carries(db, s, {worker[w].work}, Owned(db, w), Past(db))
    PROVE  Once(db', worker')
<1> DEFINE work == worker[w].work
           P == Owned(db, w)
<1>1. /\ db' = IF P = {} THEN db
               ELSE IF Legal(s) THEN s
               ELSE [db EXCEPT !.jobs = (@ \ P) \cup {[j EXCEPT !.owner = None] : j \in P}]
      /\ worker' = [worker EXCEPT ![w] = Idle]
  BY DEF Finish
<1>2. JobsFit(db.jobs) /\ JobsFit(db'.jobs)
  BY SoundParts DEF PipelineInv
<1>3. \A v \in Workers : worker[v].pc # "idle" => IsWork(worker[v].work)
  BY DEF PipelineInv, WorkersFit, IsWorker
<1>4. Moves(db, worker, worker', w, P)
  BY <1>1, IdleMoves
<1>5. P \subseteq db.jobs /\ \A j \in P : WorkOf(j) = work
  BY DEF Owned
<1> HIDE DEF P
<1>6. CASE Continues(db, db', P, Past(db))
  <2>1. Carries(db, db', {}, P, Past(db))
    BY <1>6, ContinuesCarries
  <2> QED BY <1>2, <1>3, <1>4, <2>1, OnceCarries
<1>7. CASE /\ P # {} /\ work \in OpenWork(db, worker)
           /\ Carries(db, db', {work}, P, Past(db))
  <2>1. ASSUME work.kind = "chunk", work \in OpenWork(db', worker') PROVE FALSE
    <3>1. PICK k \in db'.jobs : work = WorkOf(k)
      BY <2>1, OpenHasRow
    <3>2. k.kind = "chunk"
      BY <1>2, <2>1, <3>1, JobParts DEF JobsFit
    <3>3. k \in db.jobs \ P
      BY <1>7, <3>1, <3>2 DEF Carries, Later, Ready
    <3>4. PICK j \in P : TRUE
      BY <1>7
    <3> QED BY <1>2, <1>5, <3>1, <3>3, <3>4 DEF JobsFit
  <2> QED BY <1>2, <1>3, <1>4, <1>7, <2>1, OnceCarries
<1>8. CASE P = {}
  <2>1. Continues(db, db, {}, Past(db))
    BY Staying DEF Continues
  <2> QED BY <1>1, <1>6, <1>8, <2>1
<1>9. CASE P # {}
  BY <1>1, <1>6, <1>7, <1>9 DEF P
<1> QED BY <1>8, <1>9

\* Complete.
LEMMA CompleteIsOnce ==
    ASSUME PipelineInv, PipelineInv', Once(db, worker), AllFirst(db), NEW w \in Workers,
           Complete(w)
    PROVE  Once(db', worker')
<1>1. worker[w].pc = "succeeded" /\ Finish(w, Refresh(WithoutJob(w)))
  BY DEF Complete
<1>2. PICK x : x = WithoutJob(w)
  OBVIOUS
<1>3. /\ Sound(x) /\ Legal(x) /\ Quiet(x) /\ AllFirst(x)
      /\ Continues(db, x, Owned(db, w), Past(db))
  BY <1>2, WithoutJobParts
<1>4. Legal(Refresh(x))
  BY <1>3, SoundParts, RefreshIsLegal
<1>5. Continues(db, Refresh(x), Owned(db, w), Past(db))
  BY <1>3, SoundParts, RefreshContinues, ContinuesAdd
<1> QED BY <1>1, <1>2, <1>4, <1>5, FinishIsOnce

\* The rows a worker puts back in line.
Returned(w) ==
    [WithoutJob(w) EXCEPT !.jobs = @ \cup {[j EXCEPT !.status = "queued", !.owner = None]
                                           : j \in Owned(db, w)}]

\* Put back in line, work is still to be done.
LEMMA ReturnedIsOnce ==
    ASSUME PipelineInv, PipelineInv', Once(db, worker), NEW w \in Workers,
           worker[w].pc = "erred", worker' = [worker EXCEPT ![w] = Idle],
           db' = Returned(w)
    PROVE  Once(db', worker')
<1> DEFINE P == Owned(db, w)
           back == {Requeued(j) : j \in P}
<1>1. Sound(db) /\ JobsFit(db.jobs) /\ JobsFit(db'.jobs)
  BY SoundParts DEF PipelineInv
<1>2. \A v \in Workers : worker[v].pc # "idle" => IsWork(worker[v].work)
  BY DEF PipelineInv, WorkersFit, IsWorker
<1>3. P \subseteq db.jobs /\ \A j \in P : Running(j, w) /\ WorkOf(j) = worker[w].work
  BY DEF Owned, Running
<1>4. Moves(db, worker, worker', w, P)
  BY IdleMoves
<1>5. db' = [WithoutJob(w) EXCEPT !.jobs = @ \cup back]
  BY DEF Returned, Requeued
<1>6. Becomes(db, WithoutJob(w), db.batch, db.doc, db.chunk, db.cand, db.jobs \ P)
  BY WithoutJobParts
<1> HIDE DEF back, P
<1>7. Becomes(db, db', db.batch, db.doc, db.chunk, db.cand, (db.jobs \ P) \cup back)
  <2>1. PICK x : x = WithoutJob(w)
    OBVIOUS
  <2>2. Becomes(db, x, db.batch, db.doc, db.chunk, db.cand, db.jobs \ P)
    BY <1>6, <2>1
  <2>3. db' = [x EXCEPT !.jobs = (db.jobs \ P) \cup back]
    BY <1>5, <2>1, <2>2 DEF Becomes
  <2>4. PICK jobs : jobs = (db.jobs \ P) \cup back
    OBVIOUS
  <2>5. Becomes(db, [x EXCEPT !.jobs = jobs], db.batch, db.doc, db.chunk, db.cand, jobs)
    BY <2>2, ReplacingNext
  <2> QED BY <2>3, <2>4, <2>5
<1>8. /\ db'.doc = db.doc /\ db'.chunk = db.chunk /\ db'.cand = db.cand
      /\ db'.jobs = (db.jobs \ P) \cup back
  BY <1>7 DEF Becomes
<1>9. ASSUME NEW k \in back
      PROVE  k.status = "queued" /\ \E j \in P : WorkOf(k) = WorkOf(j)
  <2>1. PICK j \in P : k = Requeued(j)
    BY DEF back
  <2>2. IsJob(j)
    BY <1>1, <1>3 DEF JobsFit
  <2>3. WorkOf(k) = WorkOf(j)
    BY <2>1, <2>2, JobChanges
  <2>4. k.status = "queued"
    BY <2>1, <2>2 DEF IsJob, Requeued
  <2> QED BY <2>3, <2>4
<1>10. RunsOn(db, db', P)
  BY <1>8, <1>9 DEF RunsOn
<1>11. Held(db, worker) /\ Staged(db, OpenWork(db, worker))
  BY DEF Once
<1>12. /\ Held(db', worker')
       /\ \A y \in OpenWork(db', worker') :
             \E j \in db'.jobs : y = WorkOf(j) /\ (j \in db.jobs => y \in OpenWork(db, worker))
  BY <1>1, <1>2, <1>4, <1>10, <1>11, HeldMoves
<1>13. \A j \in P : WorkOf(j) \in OpenWork(db, worker)
  BY <1>3 DEF OpenWork, IsOpen, Running
<1>14. OpenWork(db', worker') \subseteq OpenWork(db, worker)
  <2> SUFFICES ASSUME NEW y \in OpenWork(db', worker')
               PROVE  y \in OpenWork(db, worker)
    OBVIOUS
  <2>1. PICK j \in db'.jobs : y = WorkOf(j) /\ (j \in db.jobs => y \in OpenWork(db, worker))
    BY <1>12
  <2>2. CASE j \in back
    BY <1>9, <1>13, <2>1, <2>2
  <2> QED BY <1>8, <2>1, <2>2
<1>15. \A j \in db'.jobs : \E k \in db.jobs : WorkOf(k) = WorkOf(j)
  BY <1>3, <1>8, <1>9
<1>16. Staged(db', OpenWork(db', worker'))
  BY <1>1, <1>8, <1>11, <1>14, <1>15, StagedRejobbed
<1> QED BY <1>12, <1>16 DEF Once

\* Retry.
LEMMA RetryIsOnce ==
    ASSUME PipelineInv, PipelineInv', Once(db, worker), AllFirst(db), NEW w \in Workers,
           Retry(w)
    PROVE  Once(db', worker')
<1> DEFINE work == worker[w].work
           P == Owned(db, w)
<1>1. /\ worker[w].pc = "erred"
      /\ Finish(w, IF \E j \in P : j.tries >= MaxAttempts
                   THEN MarkTerminalFailure(WithoutJob(w), work) ELSE Returned(w))
  BY DEF Retry, Returned
<1>2. PICK x : x = WithoutJob(w)
  OBVIOUS
<1>3. /\ Sound(x) /\ Legal(x) /\ Quiet(x) /\ AllFirst(x)
      /\ Continues(db, x, P, Past(db))
      /\ Becomes(db, x, db.batch, db.doc, db.chunk, db.cand, db.jobs \ P)
  BY <1>2, WithoutJobParts
<1>4. x.doc = db.doc /\ x.chunk = db.chunk /\ x.batch = db.batch
  BY <1>3 DEF Becomes
<1>5. /\ IsWork(work)
      /\ db.doc[work.doc].status # "deleted" =>
            work \in OpenWork(db, worker) /\ Opened(db, work)
  BY <1>1, HandlerIsAhead
<1>6. CASE \E j \in P : j.tries >= MaxAttempts
  <2>1. PICK j \in db.jobs : WorkOf(j) = work
    BY <1>6 DEF Owned
  <2>2. /\ Named(db, work) /\ j.kind = work.kind /\ j.doc = work.doc
        /\ work.kind = "prepare" \/ db.doc[work.doc].genuine
    <3>1. Sound(db) /\ Staged(db, OpenWork(db, worker))
      BY DEF PipelineInv, Once
    <3>2. Named(db, work)
      BY <2>1, <3>1 DEF Staged
    <3>3. IsJob(j) /\ (work.kind = "prepare" \/ db.doc[work.doc].genuine)
      BY <2>1, <3>1, JobsAreVetted
    <3>4. WorkOf(j).kind = j.kind /\ WorkOf(j).doc = j.doc
      BY <3>3, JobParts
    <3> QED BY <2>1, <3>2, <3>3, <3>4
  <2>3. Finish(w, MarkTerminalFailure(x, work))
    BY <1>1, <1>2, <1>6
  <2>4. CASE work.kind = "reconcile"
    <3>1. MarkTerminalFailure(x, work) = FailCandidate(x, work)
      BY <2>4 DEF MarkTerminalFailure
    <3>2. x.doc[work.doc].genuine
      BY <1>4, <2>2, <2>4
    <3>3. work.doc \in Past(db) /\ work.gen = 1
      BY <1>5, <2>1, <2>2, <2>4 DEF Past, Named, IsWork
    <3>4. Continues(x, FailCandidate(x, work), {}, Past(db))
      BY <1>3, <1>5, <3>2, <3>3, FailCandidateContinues
    <3>5. Continues(db, FailCandidate(x, work), P, Past(db))
      BY <1>3, <3>4, ContinuesAdd
    <3>6. Legal(FailCandidate(x, work))
      BY <1>3, <1>5, <3>2, FailCandidateIsLegal
    <3> QED BY <1>1, <2>3, <3>1, <3>5, <3>6, FinishIsOnce
  <2>5. CASE work.kind # "reconcile"
    <3>1. MarkTerminalFailure(x, work) = FailDocument(x, work)
      BY <2>5 DEF MarkTerminalFailure
    <3>2. x.doc[work.doc].status # "deleted" => Opened(x, work)
      BY <1>4, <1>5 DEF Opened, Cell
    <3>3. \/ Continues(x, FailDocument(x, work), {}, Past(db))
          \/ /\ x.doc[work.doc].status # "deleted"
             /\ Carries(x, FailDocument(x, work), {work}, {}, Past(db))
      BY <1>3, <1>5, <3>2, FailDocumentCarries
    <3>4. \/ Continues(db, FailDocument(x, work), P, Past(db))
          \/ /\ work \in OpenWork(db, worker)
             /\ Carries(db, FailDocument(x, work), {work}, P, Past(db))
      BY <1>3, <1>4, <1>5, <3>3, ContinuesAdd, ThenCarries
    <3>5. Legal(FailDocument(x, work))
      BY <1>3, <1>5, FailDocumentIsLegal
    <3> QED BY <1>1, <2>3, <3>1, <3>4, <3>5, FinishIsOnce
  <2> QED BY <2>4, <2>5
<1>7. CASE ~\E j \in P : j.tries >= MaxAttempts
  <2>1. Finish(w, Returned(w))
    BY <1>1, <1>7
  <2>2. Legal(Returned(w))
    <3>1. Returned(w).doc = x.doc /\ Returned(w).batch = x.batch
      BY <1>2, <1>3, Replacing DEF Returned, Becomes
    <3> QED BY <1>3, <3>1, SameLegal
  <2>3. CASE P = {}
    BY <1>1, <2>1, <2>3, FinishIsOnce
  <2>4. CASE P # {}
    <3>1. db' = Returned(w) /\ worker' = [worker EXCEPT ![w] = Idle]
      BY <2>1, <2>2, <2>4 DEF Finish
    <3> QED BY <1>1, <3>1, ReturnedIsOnce
  <2> QED BY <2>3, <2>4
<1> QED BY <1>6, <1>7

----------------------------------------------------------------------------
(* Claims, and workers that give up.                                       *)

\* While every row is held, none is spent.
LEMMA NoneIsSpent ==
    ASSUME NEW s, NEW x, JobsHeld(s, x)
    PROVE  Spent(s) = {}
BY SizesAssumption DEF JobsHeld, Spent

\* Then a claim finds the database as it is.
LEMMA NothingIsReaped ==
    ASSUME NEW s, Sound(s), Spent(s) = {}, NEW r \in Reapings(s)
    PROVE  r = s
<1>1. PICK spent \in SetToSeqs(Spent(s)) : r = Reaped(s, spent)
  BY DEF Reapings
<1>2. IsFiniteSet(Spent(s))
  BY FS_EmptySet
<1>3. Len(spent) \in Nat /\ \A i \in 1 .. Len(spent) : spent[i] \in Spent(s)
  BY <1>1, <1>2, OrderParts
<1>4. Len(spent) = 0
  BY <1>3
<1>5. r = [s EXCEPT !.jobs = s.jobs \ Spent(s)]
  BY <1>1, <1>3, <1>4, ReapedIsLast
<1>6. s.jobs \ Spent(s) = s.jobs
  OBVIOUS
<1> QED BY <1>5, <1>6, SoundParts DEF IsDatabase

\* claimKinds.
LEMMA ClaimIsOnce ==
    ASSUME PipelineInv, PipelineInv', Once(db, worker), NEW w \in Workers, Claim(w)
    PROVE  Once(db', worker')
<1>1. /\ Sound(db) /\ JobsFit(db.jobs) /\ JobsFit(db'.jobs)
      /\ \A v \in Workers : worker[v].pc # "idle" => IsWork(worker[v].work)
  BY SoundParts DEF PipelineInv, WorkersFit, IsWorker
<1>2. /\ worker[w].pc = "idle" /\ JobsHeld(db, worker) /\ WorkersHold(db, worker)
      /\ Staged(db, OpenWork(db, worker))
  BY DEF Claim, Once, Held
<1>3. Spent(db) = {}
  BY <1>2, NoneIsSpent
<1>4. PICK s \in Reapings(db) : \E j \in s.jobs :
         /\ Claimable(j)
         /\ db' = [s EXCEPT !.jobs = (@ \ {j}) \cup {[j EXCEPT !.status = "running",
                                                           !.tries = j.tries + 1,
                                                           !.owner = w]}]
         /\ worker' = [worker EXCEPT ![w] = [pc |-> "check", work |-> WorkOf(j)]]
  BY DEF Claim
<1>5. s = db
  BY <1>1, <1>3, NothingIsReaped
<1>6. PICK j \in db.jobs :
         /\ Claimable(j)
         /\ db' = [db EXCEPT !.jobs = (@ \ {j}) \cup {[j EXCEPT !.status = "running",
                                                            !.tries = j.tries + 1,
                                                            !.owner = w]}]
         /\ worker' = [worker EXCEPT ![w] = [pc |-> "check", work |-> WorkOf(j)]]
  BY <1>4, <1>5
<1>7. PICK k : k = Claimed(j, w)
  OBVIOUS
<1>8. IsJob(j) /\ k.status = "running" /\ k.owner = w /\ WorkOf(k) = WorkOf(j)
  <2>1. IsJob(j)
    BY <1>1 DEF JobsFit
  <2>2. WorkOf(k) = WorkOf(j)
    BY <1>7, <2>1, JobChanges
  <2> QED BY <1>7, <2>1, <2>2 DEF IsJob, Claimed
<1>9. /\ db'.doc = db.doc /\ db'.chunk = db.chunk /\ db'.cand = db.cand
      /\ db'.jobs = (db.jobs \ {j}) \cup {k}
  <2>1. db' = [db EXCEPT !.jobs = (db.jobs \ {j}) \cup {k}]
    BY <1>6, <1>7 DEF Claimed
  <2>2. PICK jobs : jobs = (db.jobs \ {j}) \cup {k}
    OBVIOUS
  <2>3. Becomes(db, [db EXCEPT !.jobs = jobs], db.batch, db.doc, db.chunk, db.cand, jobs)
    BY <1>1, SoundParts, Replacing
  <2> QED BY <2>1, <2>2, <2>3 DEF Becomes
<1>10. worker = [v \in Workers |-> worker[v]]
  BY DEF PipelineInv, WorkersFit
<1>11. /\ worker'[w].pc = "check" /\ worker'[w].work = WorkOf(j)
       /\ \A v \in Workers : v # w => worker'[v] = worker[v]
  <2>1. worker'[w] = [pc |-> "check", work |-> WorkOf(j)]
    BY <1>6, <1>10
  <2>2. \A v \in Workers : v # w => worker'[v] = worker[v]
    BY <1>6, <1>10
  <2> QED BY <2>1, <2>2
<1>12. j.status = "queued"
  BY <1>2, <1>6, SizesAssumption DEF JobsHeld, Claimable
<1>13. \A i \in db.jobs : i.status # "queued" => i.owner \in Workers /\ i.owner # w
  BY <1>2 DEF JobsHeld
<1>14. JobsHeld(db', worker')
  <2> SUFFICES ASSUME NEW i \in db'.jobs, i.status # "queued"
               PROVE  /\ i.status = "running" /\ i.owner \in Workers
                      /\ worker'[i.owner].pc # "idle"
                      /\ worker'[i.owner].work = WorkOf(i)
    BY DEF JobsHeld
  <2>1. CASE i = k
    BY <1>8, <1>11, <2>1
  <2>2. CASE i \in db.jobs
    BY <1>2, <1>11, <1>13, <2>2 DEF JobsHeld
  <2> QED BY <1>9, <2>1, <2>2
<1>15. WorkersHold(db', worker')
  <2> SUFFICES ASSUME NEW v \in Workers, worker'[v].pc # "idle"
               PROVE  /\ worker'[v].pc \in Places(worker'[v].work.kind)
                      /\ \/ db'.doc[worker'[v].work.doc].status = "deleted"
                         \/ \E i \in db'.jobs : Running(i, v)
    BY DEF WorkersHold
  <2>1. CASE v = w
    <3>1. k \in db'.jobs /\ Running(k, w)
      BY <1>8, <1>9 DEF Running
    <3>2. "check" \in Places(worker'[v].work.kind)
      BY DEF Places
    <3> QED BY <1>11, <2>1, <3>1, <3>2
  <2>2. CASE v # w
    <3>1. worker'[v] = worker[v]
      BY <1>11, <2>2
    <3>2. \A i \in db.jobs : Running(i, v) => i \in db'.jobs
      BY <1>9, <1>12 DEF Running
    <3> QED BY <1>2, <1>9, <3>1, <3>2 DEF WorkersHold
  <2> QED BY <2>1, <2>2
<1>16. OpenWork(db', worker') \subseteq OpenWork(db, worker)
  <2> SUFFICES ASSUME NEW y \in OpenWork(db', worker')
               PROVE  y \in OpenWork(db, worker)
    OBVIOUS
  <2>1. PICK i \in db'.jobs : y = WorkOf(i) /\ IsOpen(i, worker')
    BY OpenHasRow
  <2>2. CASE i = k
    BY <1>8, <1>12, <2>1, <2>2 DEF OpenWork, IsOpen
  <2>3. CASE i \in db.jobs
    <3>1. IsOpen(i, worker)
      BY <1>11, <1>13, <2>1, <2>3 DEF IsOpen
    <3> QED BY <2>1, <2>3, <3>1 DEF OpenWork
  <2> QED BY <1>9, <2>1, <2>2, <2>3
<1>17. \A i \in db'.jobs : \E h \in db.jobs : WorkOf(h) = WorkOf(i)
  BY <1>8, <1>9
<1>18. Staged(db', OpenWork(db', worker'))
  BY <1>1, <1>2, <1>9, <1>16, <1>17, StagedRejobbed
<1> QED BY <1>14, <1>15, <1>18 DEF Once, Held

\* There is always something to claim but for what was reaped.
LEMMA ClaimsNothingNever ==
    ASSUME Once(db, worker), NEW w, ClaimNothing(w)
    PROVE  FALSE
BY NoneIsSpent DEF ClaimNothing, Once, Held

\* A worker whose row is gone.
LEMMA AbandonIsOnce ==
    ASSUME PipelineInv, PipelineInv', Once(db, worker), NEW w \in Workers, Abandon(w)
    PROVE  Once(db', worker')
<1>1. /\ worker[w].pc # "idle" /\ Owned(db, w) = {} /\ db' = db
      /\ worker' = [worker EXCEPT ![w] = Idle]
  BY DEF Abandon
<1>2. Moves(db, worker, worker', w, Owned(db, w))
  BY <1>1, IdleMoves
<1>3. /\ JobsFit(db.jobs) /\ JobsFit(db'.jobs)
      /\ \A v \in Workers : worker[v].pc # "idle" => IsWork(worker[v].work)
  BY SoundParts DEF PipelineInv, WorkersFit, IsWorker
<1>4. Continues(db, db, {}, Past(db))
  BY Staying DEF Continues
<1>5. Carries(db, db', {}, {}, Past(db))
  BY <1>1, <1>4, ContinuesCarries
<1>6. Moves(db, worker, worker', w, {})
  BY <1>1, <1>2
<1> QED BY <1>3, <1>5, <1>6, OnceCarries

----------------------------------------------------------------------------
(* What the user asks for.                                                 *)

\* A request after which the database continues; no worker moves.
LEMMA RequestIsOnce ==
    ASSUME PipelineInv, PipelineInv', Once(db, worker), worker' = worker,
           Continues(db, db', {}, Past(db))
    PROVE  Once(db', worker')
<1>1. /\ JobsFit(db.jobs) /\ JobsFit(db'.jobs)
      /\ \A v \in Workers : worker[v].pc # "idle" => IsWork(worker[v].work)
  BY SoundParts DEF PipelineInv, WorkersFit, IsWorker
<1>2. Carries(db, db', {}, {}, Past(db))
  BY ContinuesCarries
<1>3. Moves(db, worker, worker', None, {})
  BY SizesAssumption DEF Moves
<1> QED BY <1>1, <1>2, <1>3, OnceCarries

\* CancelBatch.
LEMMA CancelIsOnce ==
    ASSUME PipelineInv, PipelineInv', Once(db, worker), CancelBatch
    PROVE  Once(db', worker')
<1> DEFINE target == CancellationTarget(db)
           struck == IF target = "cancelled" THEN Active ELSE {"queued"}
           batch == [db.batch EXCEPT !.status = target, !.done = (target = "cancelled")]
           jobs == {j \in db.jobs : j.status # "queued"}
           doc == [d \in Documents |-> IF db.doc[d].status \in struck
                     THEN [db.doc[d] EXCEPT !.status = "cancelled", !.done = TRUE]
                     ELSE db.doc[d]]
<1>1. /\ db' = [db EXCEPT
                 !.batch = [@ EXCEPT !.status = target, !.done = (target = "cancelled")],
                 !.jobs = {j \in @ : j.status # "queued"},
                 !.doc = [d \in Documents |->
                            IF @[d].status \in struck
                            THEN [@[d] EXCEPT !.status = "cancelled", !.done = TRUE]
                            ELSE @[d]]]
      /\ worker' = worker
  BY Zenon DEF CancelBatch
<1>2. IsDatabase(db) /\ db.doc \in [Documents -> DocumentRow]
  BY SoundParts DEF PipelineInv
<1>3. db' = [db EXCEPT !.batch = batch, !.jobs = jobs, !.doc = doc]
  BY <1>1
<1>4. ASSUME NEW d \in Documents PROVE Stays(db.doc[d], doc[d])
  <2>1. db.doc[d] \in DocumentRow
    BY <1>2
  <2>2. struck \subseteq Active /\ "deleted" \notin Active /\ "cancelled" \notin Aggregated
    BY DEF Active, Aggregated
  <2> HIDE DEF struck
  <2>3. CASE db.doc[d].status \in struck
    <3>1. /\ doc[d].status = "cancelled" /\ doc[d].gen = db.doc[d].gen
          /\ doc[d].cut = db.doc[d].cut
      BY <2>1, <2>3 DEF DocumentRow
    <3> QED BY <2>2, <2>3, <3>1 DEF Stays
  <2>4. CASE db.doc[d].status \notin struck
    BY <2>4 DEF Stays
  <2> QED BY <2>3, <2>4
<1>5. JobsGoOn(db.jobs, jobs, {}, Past(db))
  BY DEF JobsGoOn
<1> HIDE DEF batch, jobs, doc
<1>6. Becomes(db, db', batch, doc, db.chunk, db.cand, jobs)
  <2>1. PICK a : a = [db EXCEPT !.batch = batch]
    OBVIOUS
  <2>2. PICK b : b = [a EXCEPT !.jobs = jobs]
    OBVIOUS
  <2>3. db' = [b EXCEPT !.doc = doc]
    BY <1>3, <2>1, <2>2
  <2>4. Becomes(db, a, batch, db.doc, db.chunk, db.cand, db.jobs)
    BY <1>2, <2>1, Replacing
  <2>5. Becomes(db, b, batch, db.doc, db.chunk, db.cand, jobs)
    BY <2>2, <2>4, ReplacingNext
  <2> QED BY <2>3, <2>5, ReplacingNext
<1>7. DocumentsStay(db.doc, doc)
  BY <1>4 DEF DocumentsStay
<1>8. Continues(db, db', {}, Past(db))
  BY <1>5, <1>6, <1>7, Staying, ContinuesBy
<1> QED BY <1>1, <1>8, RequestIsOnce

\* A candidate that goes back in line, with the job for it.
LEMMA SetAccountContinues ==
    ASSUME NEW s, Sound(s), AllFirst(s), NEW c \in s.cand
    PROVE  Continues(s, Resolved(Insert([s EXCEPT !.cand =
                                            (@ \ {c}) \cup {[c EXCEPT !.status = "pending"]}],
                                        Work("reconcile", c.doc, c.gen, c.cut, c.n)), c),
                     {}, Past(s))
<1> DEFINE k == [c EXCEPT !.status = "pending"]
           cands == (s.cand \ {c}) \cup {k}
           x == [s EXCEPT !.cand = (@ \ {c}) \cup {[c EXCEPT !.status = "pending"]}]
           w == Work("reconcile", c.doc, c.gen, c.cut, c.n)
           y == Insert(x, w)
           p == [doc |-> c.doc, gen |-> c.gen]
<1>1. c.gen = 1 /\ c.doc \in Past(s) /\ c.doc \in Documents /\ IsCandidate(c)
  BY CandidatesAreFirst, CandidatesAreVetted
<1>2. k.doc = c.doc /\ k.what = c.what
  BY <1>1, StruckRow DEF CandidateStatus
<1>3. x = [s EXCEPT !.cand = cands]
  OBVIOUS
<1>4. IsWork(w) /\ w.doc = c.doc /\ w.kind = "reconcile" /\ w.gen = 1
  <2>1. "reconcile" \in Kinds /\ 1 \in Generations
    BY SizesAssumption DEF Kinds, Generations
  <2> QED BY <1>1, <2>1, WorkParts
<1>5. p.doc = c.doc /\ p.gen = c.gen
  OBVIOUS
<1> HIDE DEF k, x, w, p
<1>6. SamePurchases(s.cand, cands)
  BY <1>2 DEF SamePurchases
<1> HIDE DEF cands
<1>7. Becomes(s, x, s.batch, s.doc, s.chunk, cands, s.jobs)
  BY <1>3, Replacing, SoundParts
<1>8. Continues(s, x, {}, Past(s)) /\ IsDatabase(x)
  BY <1>6, <1>7, Staying, ContinuesBy DEF Becomes
<1>9. IsDatabase(y) /\ Continues(x, y, {}, Past(s))
  BY <1>1, <1>4, <1>8, InsertContinues
<1> HIDE DEF y
<1>10. Continues(y, PostProcessIfReady(y, p), {}, Past(s))
  BY <1>1, <1>5, <1>9, PostContinues
<1>11. Continues(s, PostProcessIfReady(y, p), {}, Past(s))
  BY <1>8, <1>9, <1>10, ContinuesAdd
<1> QED BY <1>11 DEF Resolved, y, x, w, p

\* Both legs of a transfer are entered, with evidence of the candidate.
LEMMA TransferBooks ==
    ASSUME NEW s, Sound(s), NEW c \in s.cand
    PROVE  LET credit == Append(Key(c), "credit")
               legs == [NewTransaction(s, c, "user") EXCEPT
                          !.ledger = @ \cup {[id |-> credit, what |-> None, by |-> "user"]}]
           IN  \E ledger, link :
                  Books(s, AddEvidence(AddEvidence(legs, c, Key(c)), c, credit), ledger, link)
<1> DEFINE credit == Append(Key(c), "credit")
           debit == s.ledger \cup {[id |-> Key(c), what |-> c.what, by |-> "user"]}
           ledger == debit \cup {[id |-> credit, what |-> None, by |-> "user"]}
           legs == [NewTransaction(s, c, "user") EXCEPT
                      !.ledger = @ \cup {[id |-> credit, what |-> None, by |-> "user"]}]
<1>1. Books(s, NewTransaction(s, c, "user"), debit, s.link)
  BY SoundParts, TransactionIsEntered
<1>2. legs = [NewTransaction(s, c, "user") EXCEPT !.ledger = ledger]
  BY <1>1 DEF Books
<1> HIDE DEF credit, legs, debit, ledger
<1>3. Books(s, legs, ledger, s.link)
  BY <1>1, <1>2, Entering
<1>4. PICK first : Books(s, AddEvidence(legs, c, Key(c)), ledger, first)
  BY <1>3, EvidenceIsAdded
<1>5. PICK more : Books(s, AddEvidence(AddEvidence(legs, c, Key(c)), c, credit), ledger, more)
  BY <1>4, EvidenceIsAdded
<1>6. \E l, m : Books(s, AddEvidence(AddEvidence(legs, c, Key(c)), c, credit), l, m)
  BY <1>5
<1> QED BY <1>6 DEF legs, credit

\* ResolveBulkCandidate in its four forms.
LEMMA ResolutionsAreOnce ==
    ASSUME PipelineInv, PipelineInv', Once(db, worker), AllFirst(db), NEW c \in db.cand,
           \/ SetAccount(c) \/ Create(c) \/ CreateTransfer(c)
           \/ \E t \in db.ledger : Attach(c, t)
    PROVE  Once(db', worker')
<1>1. Sound(db)
  BY DEF PipelineInv
<1>2. c.gen = 1 /\ c.doc \in Past(db)
  BY <1>1, CandidatesAreFirst
<1>3. worker' = worker
  BY Zenon DEF SetAccount, Create, CreateTransfer, Attach
<1>4. PICK p : p = [doc |-> c.doc, gen |-> c.gen]
  OBVIOUS
<1>5. p.doc = c.doc /\ p.gen = 1
  BY <1>2, <1>4
<1>6. ASSUME NEW x, NEW ledger, NEW link, Books(db, x, ledger, link), NEW status, NEW tx,
             db' = Resolved(Outcome(x, c, status, tx), c)
      PROVE  Once(db', worker')
  <2>1. Continues(db, PostProcessIfReady(Outcome(x, c, status, tx), p), {}, Past(db))
    BY <1>1, <1>2, <1>5, <1>6, ResolvedContinues
  <2>2. Continues(db, db', {}, Past(db))
    BY <1>4, <1>6, <2>1 DEF Resolved
  <2> QED BY <1>3, <2>2, RequestIsOnce
<1>7. CASE SetAccount(c)
  <2>1. db' = Resolved(Insert([db EXCEPT !.cand = (@ \ {c}) \cup {[c EXCEPT !.status = "pending"]}],
                              Work("reconcile", c.doc, c.gen, c.cut, c.n)), c)
    BY <1>7, Zenon DEF SetAccount
  <2>2. Continues(db, db', {}, Past(db))
    BY <1>1, <2>1, SetAccountContinues
  <2> QED BY <1>3, <2>2, RequestIsOnce
<1>8. CASE Create(c)
  <2>1. db' = Resolved(Outcome(AddEvidence(NewTransaction(db, c, "user"), c, Key(c)),
                               c, "created", Key(c)), c)
    BY <1>8, Zenon DEF Create
  <2>2. PICK ledger : Books(db, NewTransaction(db, c, "user"), ledger, db.link)
    BY <1>1, SoundParts, TransactionIsEntered
  <2>3. PICK link : Books(db, AddEvidence(NewTransaction(db, c, "user"), c, Key(c)), ledger, link)
    BY <2>2, EvidenceIsAdded
  <2> QED BY <1>6, <2>1, <2>3
<1>9. CASE CreateTransfer(c)
  <2> DEFINE credit == Append(Key(c), "credit")
             legs == [NewTransaction(db, c, "user") EXCEPT
                        !.ledger = @ \cup {[id |-> credit, what |-> None, by |-> "user"]}]
             x == AddEvidence(AddEvidence(legs, c, Key(c)), c, credit)
  <2>1. db' = Resolved(Outcome(x, c, "created", Key(c)), c)
    BY <1>9, Zenon DEF CreateTransfer
  <2>2. \E ledger, link : Books(db, x, ledger, link)
    BY <1>1, TransferBooks
  <2> HIDE DEF x
  <2> QED BY <1>6, <2>1, <2>2
<1>10. ASSUME NEW t \in db.ledger, Attach(c, t)
       PROVE  Once(db', worker')
  <2>1. db' = Resolved(Outcome(AddEvidence(db, c, t.id), c, "attached", t.id), c)
    BY <1>10, Zenon DEF Attach
  <2>2. Books(db, db, db.ledger, db.link)
    BY <1>1, SoundParts, TransactionIsEntered
  <2>3. PICK link : Books(db, AddEvidence(db, c, t.id), db.ledger, link)
    BY <2>2, EvidenceIsAdded
  <2> QED BY <1>6, <2>1, <2>3
<1> QED BY <1>7, <1>8, <1>9, <1>10

\* The stages of the documents that are left when one is deleted.
LEMMA StagedRemoved ==
    ASSUME NEW s, NEW s2, NEW open, NEW open2, NEW d \in Documents,
           Shape(s), JobsFit(s2.jobs), Staged(s, open),
           Touches(s, s2, d), Removed(s, s2, d), open2 \subseteq open,
           \A w \in open2 : \E j \in s2.jobs : w = WorkOf(j)
    PROVE  Staged(s2, open2)
<1>1. \A e \in Documents : e # d => s2.doc[e] = s.doc[e] /\ s2.chunk[e] = s.chunk[e]
  BY DEF Touches, Removed, Shape
<1>2. \A e \in Documents : e # d => \A i \in 1..Chunks : Cell(s2, e, i) = Cell(s, e, i)
  BY <1>1 DEF Cell
<1>3. \A i \in 1..Chunks : Cell(s2, d, i).answer = None
  <2>1. 1 \in Generations
    BY SizesAssumption DEF Generations
  <2>2. s2.chunk[d] = [g \in Generations |-> [i \in 1..Chunks |->
                         [status |-> "absent", answer |-> None]]]
    BY DEF Removed, Shape
  <2>3. s2.chunk[d][1] = [i \in 1..Chunks |-> [status |-> "absent", answer |-> None]]
    BY <2>1, <2>2
  <2> QED BY <2>3 DEF Cell
<1>4. /\ s2.doc[d].status = "deleted"
      /\ \A c \in s2.cand : c \in s.cand /\ c.doc # d
      /\ \A c \in s.cand : c.doc # d => c \in s2.cand
      /\ \A j \in s2.jobs : j \in s.jobs /\ j.doc # d
  BY DEF Removed
<1>5. \A j \in s2.jobs : /\ WorkOf(j).kind = j.kind /\ WorkOf(j).doc = j.doc
                         /\ j.doc \in Documents
  BY JobParts DEF JobsFit
<1>6. ASSUME NEW j \in s2.jobs PROVE Named(s2, WorkOf(j))
  <2>1. Named(s, WorkOf(j)) /\ s2.doc[WorkOf(j).doc] = s.doc[WorkOf(j).doc]
    BY <1>1, <1>4, <1>5 DEF Staged
  <2> QED BY <2>1 DEF Named
<1>7. ASSUME NEW w \in open2 PROVE Ahead(s2, w)
  <2>1. PICK j \in s2.jobs : w = WorkOf(j)
    OBVIOUS
  <2>2. w.doc # d /\ w.doc \in Documents
    BY <1>4, <1>5, <2>1
  <2>3. Ahead(s, w) /\ Named(s, w)
    BY <1>4, <2>1 DEF Staged
  <2>4. w.kind = "chunk" => Cell(s2, w.doc, w.n) = Cell(s, w.doc, w.n)
    BY <1>2, <2>2, <2>3 DEF Named
  <2> QED BY <1>4, <2>3, <2>4 DEF Ahead
<1>8. Behind(s2)
  <2>1. Behind(s)
    BY DEF Staged
  <2>2. ASSUME NEW e \in Documents, NEW i \in 1..Chunks, Cell(s2, e, i).answer # None
        PROVE  Cell(s2, e, i).status = "valid"
    BY <1>2, <1>3, <2>1, <2>2 DEF Behind
  <2>3. \A e \in Documents : e # d => (NoneWaits(s2, e) <=> NoneWaits(s, e))
    BY <1>2 DEF NoneWaits
  <2>4. ASSUME NEW e \in Documents,
               s2.doc[e].status \in Aggregated \/ \E c \in s2.cand : c.doc = e
        PROVE  Read(s2, e)
    <3>1. e # d
      BY <1>4, <2>4 DEF Aggregated
    <3>2. Read(s, e)
      BY <1>1, <1>4, <2>1, <2>4, <3>1 DEF Behind
    <3>3. NoneWaits(s2, e)
      BY <2>3, <3>1, <3>2 DEF Read
    <3>4. ASSUME NEW i \in 1..Chunks, Cell(s2, e, i).answer # None
          PROVE  HasCandidate(s2, e, Cell(s2, e, i).answer)
      <4>1. HasCandidate(s, e, Cell(s2, e, i).answer)
        BY <1>2, <3>1, <3>2, <3>4 DEF Read
      <4> QED BY <1>4, <3>1, <4>1 DEF HasCandidate
    <3> QED BY <3>3, <3>4 DEF Read
  <2>5. ASSUME NEW j \in s2.jobs, j.kind = "aggregate" PROVE NoneWaits(s2, j.doc)
    BY <1>4, <1>5, <2>1, <2>3, <2>5 DEF Behind
  <2> QED BY <2>2, <2>4, <2>5 DEF Behind
<1> QED BY <1>6, <1>7, <1>8 DEF Staged

\* The user deletes a document, in two steps.
LEMMA DeletionIsOnce ==
    ASSUME PipelineInv, PipelineInv', Once(db, worker), NEW d \in Documents,
           AskDeletion(d) \/ StageDeletion(d)
    PROVE  Once(db', worker')
<1>1. CASE AskDeletion(d)
  <2>1. db' = db /\ worker' = worker
    BY <1>1, Zenon DEF AskDeletion
  <2> QED BY <2>1
<1>2. CASE StageDeletion(d)
  <2> DEFINE y == [db EXCEPT
                     !.doc[d].status = "deleted",
                     !.chunk[d] = [g \in Generations |-> [i \in 1..Chunks |->
                                     [status |-> "absent", answer |-> None]]],
                     !.cand = {c \in @ : c.doc # d},
                     !.jobs = {j \in @ : j.doc # d},
                     !.link = {l \in db.link : l.doc # d},
                     !.ledger = @ \ Orphans(db, d)]
  <2>1. db' = y /\ worker' = worker
    BY <1>2, Zenon DEF StageDeletion, Orphans
  <2>2. Sound(db) /\ Legal(db) /\ Sound(db')
    BY DEF PipelineInv
  <2>3. Touches(db, y, d) /\ Removed(db, y, d)
    BY <2>2, DeletionIsSound
  <2> HIDE DEF y
  <2>4. Touches(db, db', d) /\ Removed(db, db', d)
    BY <2>1, <2>3
  <2>5. /\ Shape(db) /\ JobsFit(db.jobs) /\ JobsFit(db'.jobs)
        /\ \A v \in Workers : worker[v].pc # "idle" => IsWork(worker[v].work)
    BY <2>2, SoundParts DEF PipelineInv, WorkersFit, IsWorker
  <2>6. RunsOn(db, db', {})
    <3>1. \A j \in db.jobs : j.doc \in Documents
      BY <2>5, JobParts DEF JobsFit
    <3> QED BY <2>4, <3>1 DEF RunsOn, Touches, Removed
  <2>7. Moves(db, worker, worker', None, {})
    BY <2>1, SizesAssumption DEF Moves
  <2>8. Held(db, worker) /\ Staged(db, OpenWork(db, worker))
    BY DEF Once
  <2>9. /\ Held(db', worker')
        /\ \A w \in OpenWork(db', worker') :
              \E j \in db'.jobs : w = WorkOf(j) /\ (j \in db.jobs => w \in OpenWork(db, worker))
    BY <2>5, <2>6, <2>7, <2>8, HeldMoves
  <2>10. db'.jobs \subseteq db.jobs
    BY <2>4 DEF Removed
  <2>11. /\ OpenWork(db', worker') \subseteq OpenWork(db, worker)
         /\ \A w \in OpenWork(db', worker') : \E j \in db'.jobs : w = WorkOf(j)
    BY <2>9, <2>10
  <2>12. Staged(db', OpenWork(db', worker'))
    BY <2>4, <2>5, <2>8, <2>11, StagedRemoved
  <2> QED BY <2>9, <2>12 DEF Once
<1> QED BY <1>1, <1>2

----------------------------------------------------------------------------
(* The cut.                                                                *)

\* A handler that prepares a document finds no more than its preparation.
LEMMA PreparedAlone ==
    ASSUME NEW s, NEW open, Staged(s, open), JobsFit(s.jobs), NEW w \in open, IsWork(w),
           w.kind = "prepare", \E j \in s.jobs : w = WorkOf(j)
    PROVE  /\ w = Work("prepare", w.doc, 1, 0, 0)
           /\ w.gen = 1
           /\ \A c \in s.cand : c.doc # w.doc
           /\ \A j \in s.jobs : j.doc = w.doc => j.kind = "prepare" /\ WorkOf(j) = w
<1>1. Ahead(s, w) /\ Named(s, w)
  BY DEF Staged
<1>2. w.gen = 1 /\ w.cut = 0 /\ w.n = 0
  BY <1>1 DEF Named
<1>3. w = Work("prepare", w.doc, 1, 0, 0)
  BY <1>2 DEF IsWork
<1>4. ASSUME NEW j \in s.jobs, j.doc = w.doc PROVE j.kind = "prepare" /\ WorkOf(j) = w
  <2>1. j.kind = "prepare"
    BY <1>1, <1>4 DEF Ahead
  <2>2. WorkOf(j).kind = j.kind /\ WorkOf(j).doc = j.doc /\ IsWork(WorkOf(j))
    BY JobParts DEF JobsFit
  <2>3. Named(s, WorkOf(j))
    BY DEF Staged
  <2>4. WorkOf(j).gen = 1 /\ WorkOf(j).cut = 0 /\ WorkOf(j).n = 0
    BY <2>1, <2>2, <2>3 DEF Named
  <2>5. WorkOf(j) = Work("prepare", w.doc, 1, 0, 0)
    BY <1>4, <2>1, <2>2, <2>4 DEF IsWork
  <2> QED BY <1>3, <2>1, <2>5
<1> QED BY <1>1, <1>2, <1>3, <1>4 DEF Ahead

\* The parse job of a chunk that was just cut.
LEMMA ChunkJobParts ==
    ASSUME NEW d \in Documents, NEW cut, NEW j \in ChunkJobs(d, 1, cut)
    PROVE  \E i \in 1..Chunks : /\ WorkOf(j) = Work("chunk", d, 1, cut, i)
                                /\ j.doc = d /\ j.kind = "chunk" /\ j.status = "queued"
                                /\ WorkOf(j).kind = "chunk" /\ WorkOf(j).doc = d
                                /\ WorkOf(j).gen = 1 /\ WorkOf(j).cut = cut /\ WorkOf(j).n = i
<1>1. PICK i \in 1..Chunks : j = Queued(Work("chunk", d, 1, cut, i))
  BY DEF ChunkJobs
<1>2. PICK w : w = Work("chunk", d, 1, cut, i)
  OBVIOUS
<1>3. 1 \in Generations /\ "chunk" \in Kinds
  BY SizesAssumption DEF Generations, Kinds
<1>4. IsWork(w) /\ w.kind = "chunk" /\ w.doc = d /\ w.gen = 1 /\ w.cut = cut /\ w.n = i
  BY <1>2, <1>3, WorkParts
<1>5. WorkOf(j) = w /\ j.doc = d /\ j.kind = "chunk" /\ j.status = "queued"
  BY <1>1, <1>2, <1>4, QueuedParts
<1> QED BY <1>2, <1>4, <1>5

\* The stages of the documents after one is cut.
LEMMA StagedRecut ==
    ASSUME NEW s, NEW s2, NEW open, NEW open2, JobsFit(s.jobs), JobsFit(s2.jobs),
           Staged(s, open), NEW w \in open, IsWork(w), w.kind = "prepare",
           \E j \in s.jobs : w = WorkOf(j), Recut(s, s2, w), w \notin open2,
           \A y \in open2 : \E j \in s2.jobs : y = WorkOf(j) /\ (j \in s.jobs => y \in open)
    PROVE  Staged(s2, open2)
<1> DEFINE d == w.doc
           cut == s.doc[d].cut + 1
<1>1. /\ w.gen = 1 /\ d \in Documents
      /\ \A c \in s.cand : c.doc # d
      /\ \A j \in s.jobs : j.doc = d => j.kind = "prepare" /\ WorkOf(j) = w
  BY PreparedAlone DEF IsWork
<1>2. s2.cand = s.cand /\ s2.jobs = s.jobs \cup ChunkJobs(d, 1, cut)
  BY <1>1 DEF Recut
<1>3. /\ s2.doc[d].status = "parsing" /\ s2.doc[d].cut = cut
      /\ \A e \in Documents : e # d => s2.doc[e] = s.doc[e] /\ s2.chunk[e] = s.chunk[e]
      /\ \A i \in 1..Chunks : Cell(s2, d, i) = [status |-> "queued", answer |-> None]
  BY <1>1 DEF Recut, Cell
<1>4. \A e \in Documents : e # d => \A i \in 1..Chunks : Cell(s2, e, i) = Cell(s, e, i)
  BY <1>3 DEF Cell
<1> HIDE DEF cut
<1>5. \A j \in s2.jobs : /\ WorkOf(j).kind = j.kind /\ WorkOf(j).doc = j.doc
                         /\ j.doc \in Documents
  BY JobParts DEF JobsFit
<1>6. ASSUME NEW j \in s2.jobs, j \notin s.jobs
      PROVE  /\ j.kind = "chunk" /\ j.doc = d
             /\ WorkOf(j).gen = 1 /\ WorkOf(j).cut = cut /\ WorkOf(j).n \in 1..Chunks
  BY <1>1, <1>2, <1>6, ChunkJobParts
<1>7. ASSUME NEW j \in s2.jobs PROVE Named(s2, WorkOf(j))
  <2>1. CASE j \in s.jobs
    <3>1. Named(s, WorkOf(j))
      BY <2>1 DEF Staged
    <3>2. j.kind = "chunk" => s2.doc[j.doc] = s.doc[j.doc]
      BY <1>1, <1>3, <1>5, <2>1
    <3> QED BY <1>5, <3>1, <3>2 DEF Named
  <2>2. CASE j \notin s.jobs
    BY <1>3, <1>5, <1>6, <2>2 DEF Named
  <2> QED BY <2>1, <2>2
<1>8. ASSUME NEW y \in open2 PROVE Ahead(s2, y)
  <2>1. PICK j \in s2.jobs : y = WorkOf(j) /\ (j \in s.jobs => y \in open)
    OBVIOUS
  <2>2. y.kind = j.kind /\ y.doc = j.doc /\ y.doc \in Documents
    BY <1>5, <2>1
  <2>3. CASE j \notin s.jobs
    <3>1. y.kind = "chunk" /\ y.doc = d /\ y.n \in 1..Chunks
      BY <1>6, <2>1, <2>2, <2>3
    <3>2. Cell(s2, y.doc, y.n) = [status |-> "queued", answer |-> None]
      BY <1>3, <3>1
    <3> QED BY <3>1, <3>2 DEF Ahead, Waiting
  <2>4. CASE j \in s.jobs
    <3>1. Ahead(s, y) /\ Named(s, y)
      BY <2>1, <2>4 DEF Staged
    <3>2. y.doc # d
      BY <1>1, <2>1, <2>2, <2>4
    <3>3. CASE y.kind = "prepare"
      <4>1. \A k \in s2.jobs : k.doc = y.doc => k.kind = "prepare"
        BY <1>6, <3>1, <3>2, <3>3 DEF Ahead
      <4> QED BY <1>2, <3>1, <3>3, <4>1 DEF Ahead
    <3>4. CASE y.kind = "chunk"
      <4>1. Cell(s2, y.doc, y.n) = Cell(s, y.doc, y.n)
        BY <1>4, <2>2, <3>1, <3>2, <3>4 DEF Named
      <4> QED BY <3>1, <3>4, <4>1 DEF Ahead
    <3>5. CASE y.kind = "aggregate"
      BY <1>2, <3>1, <3>5 DEF Ahead
    <3> QED BY <3>3, <3>4, <3>5 DEF Ahead
  <2> QED BY <2>3, <2>4
<1>9. Behind(s2)
  <2>1. Behind(s)
    BY DEF Staged
  <2>2. ASSUME NEW e \in Documents, NEW i \in 1..Chunks, Cell(s2, e, i).answer # None
        PROVE  Cell(s2, e, i).status = "valid"
    BY <1>3, <1>4, <2>1, <2>2 DEF Behind
  <2>3. \A e \in Documents : e # d => (NoneWaits(s2, e) <=> NoneWaits(s, e))
    BY <1>4 DEF NoneWaits
  <2>4. ASSUME NEW e \in Documents,
               s2.doc[e].status \in Aggregated \/ \E c \in s2.cand : c.doc = e
        PROVE  Read(s2, e)
    <3>1. e # d
      BY <1>1, <1>2, <1>3, <2>4 DEF Aggregated
    <3>2. Read(s, e)
      BY <1>2, <1>3, <2>1, <2>4, <3>1 DEF Behind
    <3> QED BY <1>2, <1>4, <2>3, <3>1, <3>2 DEF Read, HasCandidate
  <2>5. ASSUME NEW j \in s2.jobs, j.kind = "aggregate" PROVE NoneWaits(s2, j.doc)
    <3>1. j \in s.jobs /\ j.doc # d
      BY <1>1, <1>6, <2>5
    <3> QED BY <1>5, <2>1, <2>3, <2>5, <3>1 DEF Behind
  <2> QED BY <2>2, <2>4, <2>5 DEF Behind
<1> QED BY <1>7, <1>8, <1>9 DEF Staged

\* RecordPages.
LEMMA RecordPagesIsOnce ==
    ASSUME PipelineInv, PipelineInv', Once(db, worker), NEW w \in Workers, RecordPages(w)
    PROVE  Once(db', worker')
<1> DEFINE work == worker[w].work
           r == RecordPrepared(db, work)
<1>1. worker[w].pc = "pages" /\ Commit(w, r)
  BY DEF RecordPages
<1>2. /\ Sound(db) /\ Legal(db) /\ IsWork(work) /\ db.doc[work.doc].genuine
  BY <1>1, WorkerIsVetted
<1>3. /\ worker[w].pc \in Places(work.kind)
      /\ db.doc[work.doc].status # "deleted" =>
           /\ \E j \in db.jobs : Running(j, w) /\ WorkOf(j) = work
           /\ work \in OpenWork(db, worker)
  BY <1>1, HandlerIsAhead
<1>4. work.kind = "prepare"
  BY <1>1, <1>2, <1>3, PlaceTellsKind DEF IsWork
<1>5. /\ r.next \in {"succeeded", "erred"}
      /\ r.db = db \/ r.next = "succeeded"
  BY DEF RecordPrepared, Then
<1>6. {"succeeded", "erred"} \subseteq Places(work.kind)
  BY DEF Places
<1>7. CASE Legal(r.db) => r.db = db
  <2>1. Continues(db, db, {}, Past(db))
    BY Staying DEF Continues
  <2>2. Legal(r.db) => Performs(db, r, work)
    BY <1>7, <2>1 DEF Performs
  <2> HIDE DEF r
  <2> QED BY <1>1, <1>5, <1>6, <2>2, CommitIsOnce
<1>8. CASE Legal(r.db) /\ r.db # db
  <2>1. Recut(db, r.db, work)
    BY <1>2, <1>8, RecordPreparedFollows
  <2>2. db' = r.db /\ worker' = [worker EXCEPT ![w].pc = "succeeded"]
    BY <1>1, <1>5, <1>8 DEF Commit
  <2> HIDE DEF r
  <2>3. Recut(db, db', work)
    BY <2>1, <2>2
  <2>4. PICK j \in db.jobs : Running(j, w) /\ WorkOf(j) = work
    BY <1>3, <2>3 DEF Recut
  <2>5. work \in OpenWork(db, worker)
    BY <1>3, <2>3 DEF Recut
  <2>6. /\ worker'[w].pc = "succeeded" /\ worker'[w].work = work
        /\ \A v \in Workers : v # w => worker'[v] = worker[v]
    BY <2>2, WorkerGoesOn
  <2>7. Moves(db, worker, worker', w, {})
    BY <1>1, <1>6, <2>6 DEF Moves
  <2>8. /\ JobsFit(db.jobs) /\ JobsFit(db'.jobs)
        /\ \A v \in Workers : worker[v].pc # "idle" => IsWork(worker[v].work)
    BY SoundParts DEF PipelineInv, WorkersFit, IsWorker
  <2>9. Held(db, worker) /\ Staged(db, OpenWork(db, worker))
    BY DEF Once
  <2>10. /\ work.gen = 1 /\ work.doc \in Documents
         /\ \A k \in db.jobs : k.doc = work.doc => k.kind = "prepare"
    BY <1>2, <1>4, <2>4, <2>5, <2>8, <2>9, PreparedAlone DEF IsWork
  <2>11. db'.jobs = db.jobs \cup ChunkJobs(work.doc, 1, db.doc[work.doc].cut + 1)
    BY <2>3, <2>10 DEF Recut
  <2>12. RunsOn(db, db', {})
    <3>1. \A k \in db'.jobs : k \in db.jobs \/ k.status = "queued"
      BY <2>10, <2>11, ChunkJobParts
    <3>2. \A e \in Documents : db.doc[e].status = "deleted" => db'.doc[e].status = "deleted"
      BY <2>3, <2>10 DEF Recut
    <3> QED BY <2>11, <3>1, <3>2 DEF RunsOn
  <2>13. /\ Held(db', worker')
         /\ \A y \in OpenWork(db', worker') :
               \E k \in db'.jobs : y = WorkOf(k) /\ (k \in db.jobs => y \in OpenWork(db, worker))
    BY <2>7, <2>8, <2>9, <2>12, HeldMoves
  <2>14. work \notin OpenWork(db', worker')
    BY <2>4, <2>6, <2>8, <2>11, DoneIsClosed
  <2>15. Staged(db', OpenWork(db', worker'))
    BY <1>2, <1>4, <2>3, <2>4, <2>5, <2>8, <2>9, <2>13, <2>14, StagedRecut
  <2> QED BY <2>13, <2>15 DEF Once
<1> QED BY <1>7, <1>8

----------------------------------------------------------------------------
(* The aggregation.                                                        *)

\* The members of V up to one of them are as many as its place says.
LEMMA Ranks ==
    ASSUME NEW V, V \subseteq 1..Chunks, NEW k \in V, NEW m \in V,
           Cardinality({x \in V : x <= m}) = Cardinality({x \in V : x <= k})
    PROVE  m = k
<1> DEFINE up(y) == {x \in V : x <= y}
<1>1. IsFiniteSet(V)
  <2>1. IsFiniteSet(1..Chunks) /\ V \in SUBSET (1..Chunks)
    <3>1. 1 \in Int /\ Chunks \in Int
      BY SizesAssumption
    <3> QED BY <3>1, FS_Interval
  <2> QED BY <2>1, FS_Subset
<1>2. \A x \in V : x \in Nat
  BY SizesAssumption
<1>3. ASSUME NEW y \in V, NEW z \in V, y < z, Cardinality(up(y)) = Cardinality(up(z))
      PROVE  FALSE
  <2>1. \A x \in V : x <= y => x <= z
    BY <1>2, <1>3
  <2>2. z <= z /\ ~(z <= y)
    BY <1>2, <1>3
  <2>3. up(y) \in SUBSET up(z) /\ z \in up(z) /\ z \notin up(y) /\ up(z) \in SUBSET V
    BY <2>1, <2>2
  <2> HIDE DEF up
  <2>4. IsFiniteSet(up(z))
    BY <1>1, <2>3, FS_Subset
  <2>5. up(y) = up(z)
    BY <1>3, <2>3, <2>4, FS_Subset
  <2> QED BY <2>3, <2>5
<1>4. ~(m < k) /\ ~(k < m)
  BY <1>3
<1> QED BY <1>2, <1>4

\* The answer of a valid chunk is a record.
LEMMA AnswersAreRecords ==
    ASSUME NEW chunks, NEW k \in 1..Chunks, chunks[k].status = "valid",
           chunks[k].answer # None
    PROVE  \E i \in DOMAIN Records(chunks) : Records(chunks)[i] = chunks[k].answer
<1> DEFINE valid == {x \in 1..Chunks : chunks[x].status = "valid" /\ chunks[x].answer # None}
           up(y) == {m \in valid : m <= y}
           at(i) == CHOOSE y \in valid : Cardinality({m \in valid : m <= y}) = i
           i == Cardinality(up(k))
<1>1. Records(chunks) = [x \in 1..Cardinality(valid) |-> chunks[at(x)].answer]
  BY DEF Records
<1>2. k \in valid /\ valid \subseteq 1..Chunks /\ k \in up(k) /\ up(k) \subseteq valid
  BY SizesAssumption
<1>3. at(i) \in valid /\ Cardinality(up(at(i))) = i
  BY <1>2
<1>4. at(i) = k
  <2>1. /\ at(i) \in valid
        /\ Cardinality({m \in valid : m <= at(i)}) = Cardinality({m \in valid : m <= k})
    BY <1>3
  <2> HIDE DEF at, valid
  <2> QED BY <1>2, <2>1, Ranks
<1>5. IsFiniteSet(valid)
  <2>1. IsFiniteSet(1..Chunks)
    <3>1. 1 \in Int /\ Chunks \in Int
      BY SizesAssumption
    <3> QED BY <3>1, FS_Interval
  <2>2. valid \in SUBSET (1..Chunks)
    OBVIOUS
  <2> HIDE DEF valid
  <2> QED BY <2>1, <2>2, FS_Subset
<1> HIDE DEF valid, up, at
<1>6. IsFiniteSet(up(k)) /\ i <= Cardinality(valid)
  BY <1>2, <1>5, FS_Subset
<1>7. i \in Nat /\ Cardinality(valid) \in Nat
  BY <1>5, <1>6, FS_CardinalityType
<1>8. i # 0
  BY <1>2, <1>6, FS_EmptySet
<1>9. i \in 1..Cardinality(valid)
  BY <1>6, <1>7, <1>8
<1> HIDE DEF i
<1>10. i \in DOMAIN Records(chunks) /\ Records(chunks)[i] = chunks[k].answer
  BY <1>1, <1>4, <1>9
<1> QED BY <1>10

\* The stages of the documents after the records of one are gathered.
LEMMA StagedGathered ==
    ASSUME NEW s, NEW s2, NEW open, NEW open2, JobsFit(s.jobs), JobsFit(s2.jobs),
           Staged(s, open), NEW w \in open, IsWork(w), w.kind = "aggregate",
           NEW row \in s.jobs, w = WorkOf(row), Gathered(s, s2, w), w \notin open2,
           \A y \in open2 : \E j \in s2.jobs : y = WorkOf(j) /\ (j \in s.jobs => y \in open),
           \A y \in open : \E j \in s.jobs : y = WorkOf(j)
    PROVE  Staged(s2, open2)
<1> DEFINE d == w.doc
<1>1. /\ w.gen = 1 /\ w.cut = 0 /\ w.n = 0 /\ d \in Documents
      /\ \A c \in s.cand : c.doc # d
  BY DEF Staged, Named, Ahead, IsWork
<1>2. w = Work("aggregate", d, 1, 0, 0)
  BY <1>1 DEF IsWork
<1>3. /\ s2.doc[d].status = "reconciling" /\ s2.doc[d].cut = s.doc[d].cut
      /\ \A e \in Documents : e # d => s2.doc[e] = s.doc[e]
      /\ s2.chunk = s.chunk /\ s.cand \subseteq s2.cand /\ s.jobs \subseteq s2.jobs
      /\ \A c \in s2.cand : c \in s.cand \/ c.doc = d
      /\ \A j \in s2.jobs : j \in s.jobs \/ (/\ j.kind \in {"reconcile", "post"}
                                             /\ j.doc = d /\ j.gen = 1)
  BY <1>1 DEF Gathered
<1>4. \A e : \A i : Cell(s2, e, i) = Cell(s, e, i)
  BY <1>3 DEF Cell
<1>5. \A e : NoneWaits(s2, e) <=> NoneWaits(s, e)
  BY <1>4 DEF NoneWaits
<1>6. \A j \in s2.jobs : /\ WorkOf(j).kind = j.kind /\ WorkOf(j).doc = j.doc
                         /\ WorkOf(j).gen = j.gen /\ j.doc \in Documents /\ IsWork(WorkOf(j))
  BY JobParts DEF JobsFit
<1>7. row.kind = "aggregate" /\ row.doc = d /\ NoneWaits(s, d)
  <2>1. row.kind = "aggregate" /\ row.doc = d
    BY <1>3, <1>6
  <2> QED BY <2>1 DEF Staged, Behind
<1>8. ASSUME NEW j \in s2.jobs PROVE Named(s2, WorkOf(j))
  <2>1. CASE j \in s.jobs
    <3>1. Named(s, WorkOf(j)) /\ s2.doc[WorkOf(j).doc].cut = s.doc[WorkOf(j).doc].cut
      BY <1>3, <1>6, <2>1 DEF Staged
    <3> QED BY <3>1 DEF Named
  <2>2. CASE j \notin s.jobs
    BY <1>3, <1>6, <2>2 DEF Named
  <2> QED BY <2>1, <2>2
<1>9. ASSUME NEW y \in open2 PROVE Ahead(s2, y)
  <2>1. PICK j \in s2.jobs : y = WorkOf(j) /\ (j \in s.jobs => y \in open)
    OBVIOUS
  <2>2. y.kind = j.kind /\ y.doc = j.doc /\ y.doc \in Documents /\ IsWork(y)
    BY <1>6, <2>1
  <2>3. CASE j \notin s.jobs
    BY <1>3, <2>2, <2>3 DEF Ahead
  <2>4. CASE j \in s.jobs
    <3>1. Ahead(s, y) /\ Named(s, y)
      BY <2>1, <2>4 DEF Staged
    <3>2. CASE y.kind = "prepare"
      <4>1. y.doc # d
        BY <1>7, <3>1, <3>2 DEF Ahead
      <4>2. \A k \in s2.jobs : k.doc = y.doc => k.kind = "prepare"
        BY <1>3, <3>1, <3>2, <4>1 DEF Ahead
      <4> QED BY <1>3, <3>1, <3>2, <4>1, <4>2 DEF Ahead
    <3>3. CASE y.kind = "chunk"
      BY <1>4, <3>1, <3>3 DEF Ahead
    <3>4. CASE y.kind = "aggregate"
      <4>1. y.gen = 1 /\ y.cut = 0 /\ y.n = 0
        BY <3>1, <3>4 DEF Named
      <4>2. y = Work("aggregate", y.doc, 1, 0, 0)
        BY <2>2, <3>4, <4>1 DEF IsWork
      <4>3. y.doc # d
        BY <1>2, <4>2
      <4> QED BY <1>3, <3>1, <3>4, <4>3 DEF Ahead
    <3> QED BY <3>2, <3>3, <3>4 DEF Ahead
  <2> QED BY <2>3, <2>4
<1>10. Behind(s2)
  <2>1. Behind(s)
    BY DEF Staged
  <2>2. \A e \in Documents : \A i \in 1..Chunks :
           Cell(s2, e, i).answer # None => Cell(s2, e, i).status = "valid"
    BY <1>4, <2>1 DEF Behind
  <2>3. Read(s2, d)
    <3>1. NoneWaits(s2, d)
      BY <1>5, <1>7
    <3>2. ASSUME NEW k \in 1..Chunks, Cell(s, d, k).answer # None
          PROVE  HasCandidate(s2, d, Cell(s, d, k).answer)
      <4> DEFINE chunks == ChunksOf(s, w)
      <4>1. chunks[k] = Cell(s, d, k)
        BY <1>1 DEF ChunksOf, Cell
      <4>2. chunks[k].status = "valid" /\ chunks[k].answer # None
        BY <1>1, <2>1, <3>2, <4>1 DEF Behind
      <4> HIDE DEF chunks
      <4>3. PICK i \in DOMAIN Records(chunks) : Records(chunks)[i] = chunks[k].answer
        BY <4>2, AnswersAreRecords
      <4>4. i \in Missing(s, w)
        BY <1>1, <4>3 DEF Missing, chunks
      <4>5. PICK c \in s2.cand : c.doc = d /\ c.what = Records(chunks)[i].what
        BY <4>4 DEF Gathered, chunks
      <4> QED BY <4>1, <4>3, <4>5 DEF HasCandidate
    <3> QED BY <1>4, <3>1, <3>2 DEF Read
  <2>4. ASSUME NEW e \in Documents, e # d,
               s2.doc[e].status \in Aggregated \/ \E c \in s2.cand : c.doc = e
        PROVE  Read(s2, e)
    <3>1. Read(s, e)
      BY <1>3, <2>1, <2>4 DEF Behind
    <3> QED BY <1>3, <1>4, <1>5, <3>1 DEF Read, HasCandidate
  <2>5. \A j \in s2.jobs : j.kind = "aggregate" => NoneWaits(s2, j.doc)
    BY <1>3, <1>5, <2>1 DEF Behind
  <2> QED BY <2>2, <2>3, <2>4, <2>5 DEF Behind
<1> QED BY <1>8, <1>9, <1>10 DEF Staged

\* Aggregate.
LEMMA AggregateIsOnce ==
    ASSUME PipelineInv, PipelineInv', Once(db, worker), NEW w \in Workers, Aggregate(w)
    PROVE  Once(db', worker')
<1> DEFINE work == worker[w].work
           r == AggregateDocument(db, work)
<1>1. worker[w].pc = "aggregate" /\ Commit(w, r)
  BY DEF Aggregate
<1>2. /\ Sound(db) /\ Legal(db) /\ IsWork(work) /\ db.doc[work.doc].genuine
  BY <1>1, WorkerIsVetted
<1>3. /\ worker[w].pc \in Places(work.kind)
      /\ db.doc[work.doc].status # "deleted" =>
           /\ \E j \in db.jobs : Running(j, w) /\ WorkOf(j) = work
           /\ work \in OpenWork(db, worker)
           /\ Named(db, work)
  BY <1>1, HandlerIsAhead
<1>4. work.kind = "aggregate"
  BY <1>1, <1>2, <1>3, PlaceTellsKind DEF IsWork
<1>5. r.next = "succeeded"
  BY DEF AggregateDocument, Then
<1>6. "succeeded" \in Places(work.kind)
  BY DEF Places
<1>7. CASE Legal(r.db) => r.db = db
  <2>1. Continues(db, db, {}, Past(db))
    BY Staying DEF Continues
  <2>2. Legal(r.db) => Performs(db, r, work)
    BY <1>7, <2>1 DEF Performs
  <2> HIDE DEF r
  <2> QED BY <1>1, <1>5, <1>6, <2>2, CommitIsOnce
<1>8. CASE Legal(r.db) /\ r.db # db
  <2>1. Gathered(db, r.db, work)
    BY <1>2, <1>8, AggregateDocumentFollows
  <2>2. db' = r.db /\ worker' = [worker EXCEPT ![w].pc = "succeeded"]
    BY <1>1, <1>5, <1>8 DEF Commit
  <2> HIDE DEF r
  <2>3. Gathered(db, db', work)
    BY <2>1, <2>2
  <2>4. PICK j \in db.jobs : Running(j, w) /\ WorkOf(j) = work
    BY <1>3, <2>3 DEF Gathered
  <2>5. work \in OpenWork(db, worker)
    BY <1>3, <2>3 DEF Gathered
  <2>6. /\ worker'[w].pc = "succeeded" /\ worker'[w].work = work
        /\ \A v \in Workers : v # w => worker'[v] = worker[v]
    BY <2>2, WorkerGoesOn
  <2>7. Moves(db, worker, worker', w, {})
    BY <1>1, <1>6, <2>6 DEF Moves
  <2>8. /\ JobsFit(db.jobs) /\ JobsFit(db'.jobs)
        /\ \A v \in Workers : worker[v].pc # "idle" => IsWork(worker[v].work)
    BY SoundParts DEF PipelineInv, WorkersFit, IsWorker
  <2>9. Held(db, worker) /\ Staged(db, OpenWork(db, worker))
    BY DEF Once
  <2>10. db.jobs \subseteq db'.jobs
    BY <2>3 DEF Gathered
  <2>11. RunsOn(db, db', {})
    BY <2>3 DEF Gathered, RunsOn
  <2>12. /\ Held(db', worker')
         /\ \A y \in OpenWork(db', worker') :
               \E k \in db'.jobs : y = WorkOf(k) /\ (k \in db.jobs => y \in OpenWork(db, worker))
    BY <2>7, <2>8, <2>9, <2>11, HeldMoves
  <2>13. work \notin OpenWork(db', worker')
    BY <2>4, <2>6, <2>8, <2>10, DoneIsClosed
  <2>14. \A y \in OpenWork(db, worker) : \E k \in db.jobs : y = WorkOf(k)
    BY OpenHasRow
  <2>15. Staged(db', OpenWork(db', worker'))
    BY <1>2, <1>4, <2>3, <2>4, <2>5, <2>8, <2>9, <2>12, <2>13, <2>14, StagedGathered
  <2> QED BY <2>12, <2>15 DEF Once
<1> QED BY <1>7, <1>8

----------------------------------------------------------------------------
(* What was read of documents that were not retried.                       *)

OnceInv ==
    /\ losses \in Nat
    /\ losses = 0 /\ AllFirst(db) => Once(db, worker)

\* A generation never comes back.
LEMMA FirstWasFirst ==
    ASSUME PipelineInv, PipelineInv', Fates(db, db'), AllFirst(db')
    PROVE  AllFirst(db)
<1> SUFFICES ASSUME NEW d \in Documents PROVE db.doc[d].gen = 1
  BY DEF AllFirst
<1>1. db'.doc[d].gen = 1 /\ (db'.doc[d].gen = db.doc[d].gen \/ db'.doc[d].gen > db.doc[d].gen)
  BY DEF AllFirst, Fates
<1>2. db.doc \in [Documents -> DocumentRow]
  BY SoundParts DEF PipelineInv
<1>3. db.doc[d].gen \in Generations
  BY <1>2 DEF DocumentRow
<1>4. db.doc[d].gen \in Nat /\ db.doc[d].gen >= 1
  BY <1>3, SizesAssumption DEF Generations
<1> QED BY <1>1, <1>4

\* A retry leaves no document of the first generation alone.
LEMMA RetriedIsNotFirst ==
    ASSUME PipelineInv, NEW d \in Documents, RetryDocument(d)
    PROVE  ~AllFirst(db')
<1> DEFINE y == Insert([db EXCEPT !.doc[d] = [@ EXCEPT !.status = "queued",
                                                       !.gen = db.doc[d].gen + 1,
                                                       !.started = FALSE, !.done = FALSE]],
                       Work("prepare", d, db.doc[d].gen + 1, 0, 0))
<1>1. db' = y /\ db.doc[d].gen < MaxGenerations /\ Sound(db) /\ Legal(db)
  BY Zenon DEF RetryDocument, PipelineInv
<1>2. y.doc[d].gen = db.doc[d].gen + 1
  BY <1>1, RetryIsSound
<1> HIDE DEF y
<1>3. db'.doc[d].gen = db.doc[d].gen + 1
  BY <1>1, <1>2
<1>4. db.doc[d].gen \in Generations
  <2>1. db.doc \in [Documents -> DocumentRow]
    BY <1>1, SoundParts
  <2> QED BY <2>1 DEF DocumentRow
<1>5. db.doc[d].gen + 1 # 1
  BY <1>4, SizesAssumption DEF Generations
<1> QED BY <1>3, <1>5 DEF AllFirst

\* Only a lease that runs out is a loss.
LEMMA LossesCount ==
    ASSUME losses \in Nat, [Next]_vars
    PROVE  \/ losses' = losses
           \/ /\ losses' = losses + 1
              /\ \E w \in Workers : Crash(w) \/ Stall(w)
<1>1. ASSUME NEW w \in Workers, Crash(w) \/ Stall(w)
      PROVE  losses' = losses + 1
  <2>1. LoseLease(w)
    BY <1>1, Zenon DEF Crash, Stall
  <2> QED BY <2>1, Zenon DEF LoseLease
<1>2. ASSUME NEW w \in Workers, HandlerStep(w) PROVE losses' = losses
  BY <1>2, Zenon DEF HandlerStep, Commit, Check, Prepare, RenderFails, RenderSucceeds,
     RecordPages, StartChunk, ParseFails, ParseSucceeds, RecordAnswer, Aggregate, Reconcile,
     PostProcess, Settle
<1>3. ASSUME NEW w \in Workers, QueueStep(w) PROVE losses' = losses
  BY <1>3, Zenon DEF QueueStep, Claim, ClaimNothing, Complete, Retry, Finish
<1>4. ASSUME NEW w \in Workers, Abandon(w) PROVE losses' = losses
  BY <1>4, Zenon DEF Abandon
<1>5. CASE Request
  BY <1>5, Zenon DEF Request, CancelBatch, RetryDocument, AskDeletion, StageDeletion,
     SetAccount, Create, CreateTransfer, Attach
<1>6. CASE UNCHANGED vars
  BY <1>6 DEF vars
<1> QED BY <1>1, <1>2, <1>3, <1>4, <1>5, <1>6 DEF Next

\* What a step does, with its losses.
LEMMA StepIsOnce ==
    ASSUME PipelineInv, OnceInv, [Next]_vars
    PROVE  OnceInv'
<1>1. PipelineInv' /\ Fates(db, db')
  BY StepIsLawful
<1>2. losses \in Nat
  BY DEF OnceInv
<1>3. losses' \in Nat /\ (losses' = 0 => /\ losses = 0
                                         /\ ~\E w \in Workers : Crash(w) \/ Stall(w))
  <2>1. CASE losses' = losses /\ ~\E w \in Workers : Crash(w) \/ Stall(w)
    BY <1>2, <2>1
  <2>2. ASSUME NEW w \in Workers, Crash(w) \/ Stall(w)
        PROVE  losses' = losses + 1
    <3>1. LoseLease(w)
      BY <2>2, Zenon DEF Crash, Stall
    <3> QED BY <3>1, Zenon DEF LoseLease
  <2>3. CASE losses' = losses + 1
    BY <1>2, <2>3
  <2> QED BY <1>2, <2>1, <2>2, <2>3, LossesCount
<1>4. ASSUME losses' = 0, AllFirst(db') PROVE Once(db', worker')
  <2>1. AllFirst(db)
    BY <1>1, <1>4, FirstWasFirst
  <2>2. Once(db, worker)
    BY <1>3, <1>4, <2>1 DEF OnceInv
  <2>3. ASSUME NEW w \in Workers, HandlerStep(w) PROVE Once(db', worker')
    BY <1>1, <2>1, <2>2, <2>3, PrepareStepsAreOnce, RecordPagesIsOnce, ParseStepsAreOnce,
       AggregateIsOnce, SettlingStepsAreOnce DEF HandlerStep
  <2>4. ASSUME NEW w \in Workers, QueueStep(w) PROVE Once(db', worker')
    BY <1>1, <2>1, <2>2, <2>4, ClaimIsOnce, ClaimsNothingNever, CompleteIsOnce, RetryIsOnce
       DEF QueueStep
  <2>5. ASSUME NEW w \in Workers, Abandon(w) PROVE Once(db', worker')
    BY <1>1, <2>2, <2>5, AbandonIsOnce
  <2>6. CASE Request
    <3>1. ASSUME NEW d \in Documents, RetryDocument(d) PROVE FALSE
      BY <1>4, <3>1, RetriedIsNotFirst
    <3>2. ASSUME NEW d \in Documents, AskDeletion(d) \/ StageDeletion(d)
          PROVE  Once(db', worker')
      BY <1>1, <2>2, <3>2, DeletionIsOnce
    <3>3. ASSUME NEW c \in db.cand, \/ SetAccount(c) \/ Create(c) \/ CreateTransfer(c)
                                    \/ \E t \in db.ledger : Attach(c, t)
          PROVE  Once(db', worker')
      BY <1>1, <2>1, <2>2, <3>3, ResolutionsAreOnce
    <3> QED BY <1>1, <2>2, <2>6, <3>1, <3>2, <3>3, CancelIsOnce DEF Request
  <2>7. CASE UNCHANGED vars
    BY <2>2, <2>7 DEF vars
  <2> QED BY <1>3, <1>4, <2>3, <2>4, <2>5, <2>6, <2>7 DEF Next
<1> QED BY <1>3, <1>4 DEF OnceInv

\* At first nothing is done, and everything is queued.
LEMMA InitIsOnce == Init => OnceInv
<1> SUFFICES ASSUME Init PROVE losses = 0 /\ Once(db, worker)
  BY DEF OnceInv
<1>1. /\ \A d \in Documents : db.doc[d].status = "queued"
      /\ db.chunk = [d \in Documents |-> [g \in Generations |-> [i \in 1..Chunks |->
                       [status |-> "absent", answer |-> None]]]]
      /\ db.cand = {}
      /\ db.jobs = {Queued(Work("prepare", d, 1, 0, 0)) : d \in Documents}
  BY DEF Init
<1>2. worker = [w \in Workers |-> Idle] /\ losses = 0
  BY Zenon DEF Init
<1>3. \A w \in Workers : worker[w].pc = "idle"
  BY <1>2 DEF Idle
<1>4. ASSUME NEW d \in Documents
      PROVE  LET j == Queued(Work("prepare", d, 1, 0, 0)) IN
             j.status = "queued" /\ j.kind = "prepare" /\ WorkOf(j).kind = "prepare"
             /\ WorkOf(j).gen = 1 /\ WorkOf(j).cut = 0 /\ WorkOf(j).n = 0
  BY DEF Queued, Work, WorkOf
<1>5. \A j \in db.jobs : j.status = "queued" /\ j.kind = "prepare" /\ WorkOf(j).kind = "prepare"
                         /\ WorkOf(j).gen = 1 /\ WorkOf(j).cut = 0 /\ WorkOf(j).n = 0
  BY <1>1, <1>4
<1>6. Held(db, worker)
  BY <1>3, <1>5 DEF Held, JobsHeld, WorkersHold
<1>7. \A d \in Documents : \A i \in 1..Chunks : Cell(db, d, i).answer = None
  <2>1. 1 \in Generations
    BY SizesAssumption DEF Generations
  <2> QED BY <1>1, <2>1 DEF Cell
<1>8. \A w \in OpenWork(db, worker) : Ahead(db, w)
  <2> SUFFICES ASSUME NEW w \in OpenWork(db, worker) PROVE Ahead(db, w)
    OBVIOUS
  <2>1. PICK j \in db.jobs : w = WorkOf(j)
    BY OpenHasRow
  <2> QED BY <1>1, <1>5, <2>1 DEF Ahead
<1>9. Behind(db)
  BY <1>1, <1>5, <1>7 DEF Behind, Aggregated
<1>10. \A j \in db.jobs : Named(db, WorkOf(j))
  BY <1>5 DEF Named
<1> QED BY <1>2, <1>6, <1>8, <1>9, <1>10 DEF Once, Staged

\* Purchases that were read are in the candidates of a completed document.
LEMMA OnceKeeps ==
    ASSUME AllFirst(db), Once(db, worker)
    PROVE  PurchasesAreKept
<1> SUFFICES ASSUME NEW d \in Documents, db.doc[d].status = "completed", NEW i \in 1..Chunks,
                    db.chunk[d][db.doc[d].gen][i].answer # None
             PROVE  \E c \in db.cand :
                      c.doc = d /\ c.what = db.chunk[d][db.doc[d].gen][i].answer.what
  BY DEF PurchasesAreKept
<1>1. db.chunk[d][db.doc[d].gen][i] = Cell(db, d, i)
  BY DEF AllFirst, Cell
<1>2. Read(db, d)
  BY DEF Once, Staged, Behind, Aggregated
<1> QED BY <1>1, <1>2 DEF Read, HasCandidate

\* No purchase that was read in a document that completed is dropped, in any
\* interleaving of workers, claims, failures, attempts, cancellations,
\* resolutions and deletions, as long as no lease runs out and no document is
\* retried: each chunk is answered once, the one aggregation starts after the
\* last of them and makes a candidate of every answer, and none is taken away.
THEOREM NothingReadIsLost ==
    Spec => []((\A d \in Documents : db.doc[d].gen = 1) => NothingParsedIsLost)
<1>1. PipelineInv /\ OnceInv /\ [Next]_vars => OnceInv'
  BY StepIsOnce
<1>2. OnceInv => ((\A d \in Documents : db.doc[d].gen = 1) => NothingParsedIsLost)
  BY OnceKeeps DEF OnceInv, NothingParsedIsLost, AllFirst
<1> QED BY <1>1, <1>2, InitIsOnce, PipelineIsLawful, PTL DEF Spec

=============================================================================
