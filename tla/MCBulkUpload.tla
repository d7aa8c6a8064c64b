---------------------------- MODULE MCBulkUpload ----------------------------
(* Small instances of BulkUpload.                                          *)
EXTENDS BulkUpload, TLC

CONSTANTS t1, t2

TwoTabs == {t1, t2}

TabsAlike == Permutations(TwoTabs)

\* A cancelled batch is explored while one tab at most waits for an answer:
\* the request another tab had sent before the cancellation still meets it.
CancelledIsCalm == batch = "cancelled" => \E t \in Tabs : calls[t] = Idle
=============================================================================
