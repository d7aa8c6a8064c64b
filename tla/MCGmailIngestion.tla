-------------------------- MODULE MCGmailIngestion --------------------------
(***************************************************************************)
(* Small instances of GmailIngestion for TLC.                              *)
(***************************************************************************)
EXTENDS GmailIngestion, TLC

CONSTANTS w1, w2, home, office, m1, m2, n1

\* One mailbox with two messages; the first carries an attachment.
OneBox == {home}
TwoMessages == {m1, m2}
HomeMail == [b \in OneBox |-> <<m1, m2>>]

\* One mailbox with one message.
OneMessage == {m1}
ShortMail == [b \in OneBox |-> <<m1>>]

\* Two mailboxes with one message each.
TwoBoxes == {home, office}
TwoBoxMessages == {m1, n1}
TwoBoxMail == [b \in TwoBoxes |-> IF b = home THEN <<m1>> ELSE <<n1>>]

OneWorker == {w1}
TwoWorkers == {w1, w2}
WithAttachment == {m1}

WorkersAlike == Permutations(TwoWorkers)

=============================================================================
