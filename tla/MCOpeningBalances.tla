-------------------------- MODULE MCOpeningBalances --------------------------
(* Small instances of OpeningBalances.                                     *)
EXTENDS OpeningBalances, TLC

CONSTANTS bank, card, k1, k2

BankAndCard == <<bank, card>>
TheBank == {bank}

OneKey == {k1}
TwoKeys == {k1, k2}

KeysAlike == Permutations(TwoKeys)

LeastAndOne == {-2, 1}
One == {1}

=============================================================================
