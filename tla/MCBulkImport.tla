---------------------------- MODULE MCBulkImport ----------------------------
(* Small instances of BulkImport.                                          *)
EXTENDS BulkImport, TLC

CONSTANTS d1, d2, w1, w2, p1, p2

OneDocument == {d1}
TwoDocuments == {d1, d2}
OneWorker == {w1}
TwoWorkers == {w1, w2}

\* A purchase the model read, and what of it the user has to look at. The first
\* becomes a transaction or is attached to one. Between them the other two have
\* every outcome: what is doubtful is attached or left to the user, what is
\* unlike its matches is created or left to the user. (A doubt about the kind
\* leaves a candidate to the user in either case.)
Clear(p) == [what |-> p, doubts |-> {}]
Doubtful(p) == [what |-> p, doubts |-> {"create"}]
Unlike(p) == [what |-> p, doubts |-> {"match"}]

OnePurchase == {Clear(p1)}
TwoPurchases == {Clear(p1), Clear(p2)}
AnyOutcome == {Doubtful(p1), Unlike(p1)}

NothingKnown == {}
P1Known == {p1}

WorkersAlike == Permutations(TwoWorkers)

DocumentsAlike == Permutations(TwoDocuments)

AllAlike == Permutations(TwoWorkers) \cup Permutations(TwoDocuments)

=============================================================================
