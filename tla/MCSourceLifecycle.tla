------------------------- MODULE MCSourceLifecycle --------------------------
(***************************************************************************)
(* Small instances of SourceLifecycle for TLC.  The users of the larger    *)
(* ones make at most MaxRequests requests.                                 *)
(***************************************************************************)
EXTENDS SourceLifecycle, TLC

CONSTANTS w1, w2, s1, s2, t1, t2, purchase, MaxRequests

VARIABLE requests   \* requests made so far

CountedInit == Init /\ requests = 0

CountedNext ==
    \/ /\ requests < MaxRequests
       /\ Request
       /\ requests' = requests + 1
    \/ /\ System
       /\ UNCHANGED requests

CountedSpec == CountedInit /\ [][CountedNext]_<<vars, requests>>

CountedFairSpec == CountedSpec /\ Fairness

\* Users without a bound; the counter plays no part.
FreeSpec ==
    /\ CountedInit
    /\ [][Next /\ UNCHANGED requests]_<<vars, requests>>
    /\ Fairness

OneWorker == {w1}
TwoWorkers == {w1, w2}

OneSource == {s1}
TwoSources == {s1, s2}

OneTx == {t1}
TwoTx == {t1, t2}

\* Two mails about one purchase: a receipt and a bank alert.
SameEvent == [s \in TwoSources |-> purchase]
OneEvent == [s \in OneSource |-> purchase]

WorkersAlike == Permutations(TwoWorkers)

SourcesAlike == Permutations(TwoSources) \cup Permutations(TwoTx)

Alike == Permutations(TwoWorkers) \cup Permutations(TwoSources)
             \cup Permutations(TwoTx)

=============================================================================
