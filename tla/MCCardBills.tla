---------------------------- MODULE MCCardBills ----------------------------
(* Small instances of CardBills.                                           *)
EXTENDS CardBills

CONSTANTS b1, b2, t1, t2, x1, x2, p1, k1, k2

TwoBills == {b1, b2}
OneBill == {b1}
OneDebit == {t1}
TwoDebits == {t1, t2}
OneSpare == {x1}
TwoSpares == {x1, x2}
OnePurchase == {p1}
OneKey == {k1}
TwoKeys == {k1, k2}

OneAmount == {1}
TwoAmounts == {1, 2}
NoAmount == {}
OtherAmount == {2}

\* A statement whose amount was read, with a line or without.
Plain == {[due |-> 1, lines |-> FALSE, failed |-> FALSE]}
Lined == {[due |-> 1, lines |-> TRUE, failed |-> FALSE]}
Ordinary == Plain \cup Lined

\* One whose header is incomplete, and one with candidates that failed.
Every == Ordinary \cup {[due |-> None, lines |-> FALSE, failed |-> FALSE],
                        [due |-> 1, lines |-> FALSE, failed |-> TRUE]}

BillsAlike == Permutations(TwoBills)
DebitsAlike == Permutations(TwoDebits)
Alike == BillsAlike \cup DebitsAlike

=============================================================================
