-------------------------- MODULE CardBillsProofs --------------------------
(***************************************************************************)
(* Theorems about CardBills for every set of bills, debits, amounts and    *)
(* keys and any number of requests, edits and projections.                 *)
(***************************************************************************)
EXTENDS CardBills, SequenceTheorems, FiniteSetTheorems, TLAPS

\* A row of credit_card_statements has all its columns.
IsBill(x) ==
    /\ x.status \in {"absent", "review", "unpaid", "paid", "void"}
    /\ x.line \in {"none", "pending", "linked", "ignored"}
    /\ x.due \in Amounts \cup {None}
    /\ x = [status |-> x.status, row |-> x.row, version |-> x.version, due |-> x.due,
            line |-> x.line, tx |-> x.tx, failed |-> x.failed, payoff |-> x.payoff]
    /\ x.row \in Nat /\ x.version \in Nat

IsLedgerRow(x) ==
    /\ x = [debit |-> x.debit, credit |-> x.credit, treatment |-> x.treatment]
    /\ x.treatment \in {"none", "user", "system"}

\* The candidates of a bill: one is selected at most.
AreChoices(cand) ==
    /\ \A d \in DOMAIN cand : cand[d] \in {"suggested", "selected", "confirmed", "dismissed"}
    /\ \A d, e \in DOMAIN cand : cand[d] = "selected" /\ cand[e] = "selected" => d = e

IsPinned(x) ==
    /\ x = [due |-> x.due, tx |-> x.tx, lines |-> x.lines, failed |-> x.failed]
    /\ x.due \in Amounts \cup {None}

\* The shape of the tables; a candidate is a row of the ledger.
TablesFit(s) ==
    /\ s = [bill |-> s.bill, cand |-> s.cand, pinned |-> s.pinned, ledger |-> s.ledger,
            open |-> s.open, kept |-> s.kept]
    /\ s.bill = [b \in Bills |-> s.bill[b]]
    /\ s.cand = [b \in Bills |-> s.cand[b]]
    /\ s.ledger = [d \in DOMAIN s.ledger |-> s.ledger[d]]
    /\ \A b \in Bills : IsBill(s.bill[b]) /\ DOMAIN s.cand[b] \subseteq DOMAIN s.ledger
    /\ \A b \in Bills : AreChoices(s.cand[b])
    /\ \A d \in DOMAIN s.ledger : IsLedgerRow(s.ledger[d])
    /\ s.pinned = [b \in Bills |-> s.pinned[b]]
    /\ \A b \in Bills : IsPinned(s.pinned[b])

\* Only the idempotency records or the pinned generations differ.
SameBills(s, t) ==
    /\ t.bill = s.bill /\ t.cand = s.cand /\ t.ledger = s.ledger /\ t.open = s.open

----------------------------------------------------------------------------
\* What the statements that write the tables leave.
LEMMA NextVersion ==
    ASSUME NEW x, IsBill(x), NEW y, y = [x EXCEPT !.version = @ + 1]
    PROVE  /\ IsBill(y) /\ y.status = x.status /\ y.payoff = x.payoff
           /\ y.row = x.row /\ y.version = x.version + 1
<1>1. PICK v : v = x.version + 1
  OBVIOUS
<1>2. v \in Nat
  BY <1>1 DEF IsBill
<1>3. y = [x EXCEPT !.version = v]
  BY <1>1 DEF IsBill
<1> QED BY <1>1, <1>2, <1>3 DEF IsBill

\* The row, the candidates and the next version that SaveBill leaves.
LEMMA SaveBillWrites ==
    ASSUME NEW s, TablesFit(s), NEW b \in Bills, NEW x, IsBill(x),
           NEW live, DOMAIN live \subseteq DOMAIN s.ledger, AreChoices(live)
    PROVE  LET t == SaveBill(s, b, x, live)
           IN  /\ TablesFit(t)
               /\ t.ledger = s.ledger /\ t.open = s.open /\ t.kept = s.kept
               /\ t.bill[b].status = x.status /\ t.bill[b].payoff = x.payoff
               /\ t.bill[b].row = x.row /\ t.bill[b].version = x.version + 1
               /\ \A c \in Bills \ {b} : t.bill[c] = s.bill[c] /\ t.cand[c] = s.cand[c]
               /\ \A d \in DOMAIN live : d \in DOMAIN t.cand[b] /\ t.cand[b][d] = live[d]
               /\ \A d \in DOMAIN t.cand[b] \ DOMAIN live : t.cand[b][d] # "selected"
<1> DEFINE old == s.cand[b]
           bill == [x EXCEPT !.version = @ + 1]
           cand == [d \in DOMAIN old \cup DOMAIN live |->
                      IF d \in DOMAIN live THEN live[d]
                      ELSE IF old[d] = "confirmed" THEN "confirmed"
                      ELSE "dismissed"]
<1>1. PICK y : y = bill
  OBVIOUS
<1>2. PICK z : z = cand
  OBVIOUS
<1>3. /\ IsBill(y) /\ y.status = x.status /\ y.payoff = x.payoff
      /\ y.row = x.row /\ y.version = x.version + 1
  BY <1>1, NextVersion
<1>4. DOMAIN z \subseteq DOMAIN s.ledger /\ AreChoices(z)
  BY <1>2 DEF TablesFit, AreChoices
<1>5. PICK t : t = SaveBill(s, b, x, live)
  OBVIOUS
<1>6. t = [s EXCEPT !.bill[b] = y, !.cand[b] = z]
  BY <1>1, <1>2, <1>5 DEF SaveBill
<1>7. t.ledger = s.ledger /\ t.open = s.open /\ t.pinned = s.pinned /\ t.kept = s.kept
  BY <1>6 DEF TablesFit
<1>8. t.bill = [s.bill EXCEPT ![b] = y] /\ t.cand = [s.cand EXCEPT ![b] = z]
  BY <1>6 DEF TablesFit
<1>9. TablesFit(t)
  BY <1>3, <1>4, <1>6, <1>7, <1>8 DEF TablesFit
<1>10. t.bill[b] = y /\ \A c \in Bills \ {b} : t.bill[c] = s.bill[c] /\ t.cand[c] = s.cand[c]
  BY <1>8 DEF TablesFit
<1>11. t.cand[b] = z
  BY <1>8 DEF TablesFit
<1>12. /\ \A d \in DOMAIN live : d \in DOMAIN z /\ z[d] = live[d]
       /\ \A d \in DOMAIN z \ DOMAIN live : z[d] # "selected"
  BY <1>2
<1> QED BY <1>3, <1>5, <1>7, <1>9, <1>10, <1>11, <1>12

\* The ledger after a treatment, a link or a new transfer.
LEMMA LockWrites ==
    ASSUME NEW s, TablesFit(s), NEW d \in DOMAIN s.ledger
    PROVE  LET t == LockSystemExclusions(s, d)
           IN  /\ TablesFit(t) /\ t.bill = s.bill /\ t.cand = s.cand /\ t.open = s.open
               /\ t.kept = s.kept
               /\ DOMAIN t.ledger = DOMAIN s.ledger
               /\ t.ledger[d].debit = s.ledger[d].debit
               /\ t.ledger[d].credit = s.ledger[d].credit
               /\ t.ledger[d].treatment = "system"
               /\ \A e \in DOMAIN s.ledger \ {d} : t.ledger[e] = s.ledger[e]
<1>1. PICK y : y = [s.ledger[d] EXCEPT !.treatment = "system"]
  OBVIOUS
<1>2. /\ IsLedgerRow(y) /\ y.debit = s.ledger[d].debit /\ y.credit = s.ledger[d].credit
      /\ y.treatment = "system"
  BY <1>1 DEF TablesFit, IsLedgerRow
<1>3. PICK t : t = LockSystemExclusions(s, d)
  OBVIOUS
<1>4. t = [s EXCEPT !.ledger[d] = y]
  BY <1>1, <1>3 DEF LockSystemExclusions, TablesFit
<1>5. /\ t.ledger = [s.ledger EXCEPT ![d] = y] /\ t.bill = s.bill /\ t.cand = s.cand
      /\ t.open = s.open /\ t.pinned = s.pinned /\ t.kept = s.kept
  BY <1>4 DEF TablesFit
<1>6. DOMAIN t.ledger = DOMAIN s.ledger /\ t.ledger[d] = y
  BY <1>5 DEF TablesFit
<1>7. \A e \in DOMAIN s.ledger \ {d} : t.ledger[e] = s.ledger[e]
  BY <1>5 DEF TablesFit
<1>8. TablesFit(t)
  BY <1>2, <1>4, <1>5, <1>6, <1>7 DEF TablesFit
<1> QED BY <1>2, <1>3, <1>5, <1>6, <1>7, <1>8

\* The missing leg of a transfer.
LEMMA LinkWrites ==
    ASSUME NEW s, TablesFit(s), NEW d \in DOMAIN s.ledger, NEW due
    PROVE  LET t == [s EXCEPT !.ledger[d].credit = due]
           IN  /\ TablesFit(t) /\ t.bill = s.bill /\ t.cand = s.cand /\ t.open = s.open
               /\ t.kept = s.kept
               /\ DOMAIN t.ledger = DOMAIN s.ledger
               /\ t.ledger[d].debit = s.ledger[d].debit
               /\ t.ledger[d].credit = due
               /\ t.ledger[d].treatment = s.ledger[d].treatment
               /\ \A e \in DOMAIN s.ledger \ {d} : t.ledger[e] = s.ledger[e]
<1>1. PICK y : y = [s.ledger[d] EXCEPT !.credit = due]
  OBVIOUS
<1>2. /\ IsLedgerRow(y) /\ y.debit = s.ledger[d].debit /\ y.credit = due
      /\ y.treatment = s.ledger[d].treatment
  BY <1>1 DEF TablesFit, IsLedgerRow
<1>3. PICK t : t = [s EXCEPT !.ledger[d].credit = due]
  OBVIOUS
<1>4. t = [s EXCEPT !.ledger[d] = y]
  BY <1>1, <1>3 DEF TablesFit
<1>5. /\ t.ledger = [s.ledger EXCEPT ![d] = y] /\ t.bill = s.bill /\ t.cand = s.cand
      /\ t.open = s.open /\ t.pinned = s.pinned /\ t.kept = s.kept
  BY <1>4 DEF TablesFit
<1>6. DOMAIN t.ledger = DOMAIN s.ledger /\ t.ledger[d] = y
  BY <1>5 DEF TablesFit
<1>7. \A e \in DOMAIN s.ledger \ {d} : t.ledger[e] = s.ledger[e]
  BY <1>5 DEF TablesFit
<1>8. TablesFit(t)
  BY <1>2, <1>4, <1>5, <1>6, <1>7 DEF TablesFit
<1> QED BY <1>2, <1>3, <1>5, <1>6, <1>7, <1>8

\* A new exact transfer.
LEMMA TransferWrites ==
    ASSUME NEW s, TablesFit(s), NEW d, NEW amount
    PROVE  LET t == NewTransfer(s, d, amount)
           IN  /\ TablesFit(t) /\ t.bill = s.bill /\ t.cand = s.cand /\ t.open = s.open
               /\ t.kept = s.kept
               /\ DOMAIN t.ledger = DOMAIN s.ledger \cup {d}
               /\ t.ledger[d].debit = amount /\ t.ledger[d].credit = amount
               /\ \A e \in DOMAIN s.ledger \ {d} : t.ledger[e] = s.ledger[e]
<1> DEFINE legs == [debit |-> amount, credit |-> amount, treatment |-> "none"]
<1>1. PICK y : y = legs
  OBVIOUS
<1>2. IsLedgerRow(y) /\ y.debit = amount /\ y.credit = amount
  BY <1>1 DEF IsLedgerRow
<1>3. PICK ledger : ledger = [e \in DOMAIN s.ledger \cup {d} |->
                                IF e = d THEN y ELSE s.ledger[e]]
  OBVIOUS
<1>4. PICK t : t = NewTransfer(s, d, amount)
  OBVIOUS
<1>5. t = [s EXCEPT !.ledger = ledger]
  BY <1>1, <1>3, <1>4 DEF NewTransfer, TablesFit
<1>6. /\ t.ledger = ledger /\ t.bill = s.bill /\ t.cand = s.cand
      /\ t.open = s.open /\ t.pinned = s.pinned /\ t.kept = s.kept
  BY <1>5 DEF TablesFit
<1>7. /\ DOMAIN t.ledger = DOMAIN s.ledger \cup {d} /\ t.ledger[d] = y
      /\ \A e \in DOMAIN s.ledger \ {d} : t.ledger[e] = s.ledger[e]
      /\ t.ledger = [e \in DOMAIN t.ledger |-> t.ledger[e]]
  BY <1>3, <1>6
<1>8. TablesFit(t)
  BY <1>2, <1>5, <1>6, <1>7 DEF TablesFit
<1> QED BY <1>2, <1>4, <1>6, <1>7, <1>8

\* The idempotency record and the settled candidate are no part of a bill.
LEMMA CompleteWrites ==
    ASSUME NEW s, TablesFit(s), NEW r, NEW answer
    PROVE  LET t == Complete(s, r, answer)
           IN  /\ TablesFit(t) /\ SameBills(s, t)
               /\ IF r.op \in Keyed
                  THEN /\ DOMAIN t.kept = DOMAIN s.kept \cup {Record(r)}
                       /\ t.kept[Record(r)].digest = Digest(r)
                       /\ t.kept[Record(r)].answer = answer
                       /\ \A k \in DOMAIN s.kept \ {Record(r)} : t.kept[k] = s.kept[k]
                  ELSE t.kept = s.kept
<1>1. PICK t : t = Complete(s, r, answer)
  OBVIOUS
<1>2. PICK record : record = [digest |-> Digest(r), answer |-> answer]
  OBVIOUS
<1>3. PICK kept : kept = [k \in DOMAIN s.kept \cup {Record(r)} |->
                            IF k = Record(r) THEN record ELSE s.kept[k]]
  OBVIOUS
<1>4. t = IF r.op \in Keyed THEN [s EXCEPT !.kept = kept] ELSE s
  BY <1>1, <1>2, <1>3 DEF Complete, TablesFit
<1>5. /\ t = [bill |-> t.bill, cand |-> t.cand, pinned |-> t.pinned, ledger |-> t.ledger,
              open |-> t.open, kept |-> t.kept]
      /\ SameBills(s, t) /\ t.pinned = s.pinned
      /\ t.kept = IF r.op \in Keyed THEN kept ELSE s.kept
  BY <1>4 DEF TablesFit, SameBills
<1>6. TablesFit(t)
  BY <1>5 DEF TablesFit, SameBills
<1>7. record.digest = Digest(r) /\ record.answer = answer
  BY <1>2
<1>8. /\ DOMAIN kept = DOMAIN s.kept \cup {Record(r)} /\ kept[Record(r)] = record
      /\ \A k \in DOMAIN s.kept \ {Record(r)} : kept[k] = s.kept[k]
  BY <1>3
<1> QED BY <1>1, <1>5, <1>6, <1>7, <1>8

\* The settled candidate is no part of a bill either.
LEMMA PinWrites ==
    ASSUME NEW s, TablesFit(s), NEW by, NEW b \in Bills
    PROVE  LET t == Pin(s, by, b)
           IN  TablesFit(t) /\ SameBills(s, t) /\ t.kept = s.kept
<1>1. PICK t : t = Pin(s, by, b)
  OBVIOUS
<1>7. PICK old : old = s.pinned[b]
  OBVIOUS
<1>2. PICK y : y = [old EXCEPT !.tx = b]
  OBVIOUS
<1>8. IsPinned(old)
  BY <1>7 DEF TablesFit
<1>3. IsPinned(y)
  BY <1>2, <1>8 DEF IsPinned
<1>4. t = s \/ t = [s EXCEPT !.pinned[b] = y]
  BY <1>1, <1>2, <1>7 DEF Pin, TablesFit
<1>5. CASE t = s
  BY <1>1, <1>5 DEF SameBills
<1>6. CASE t = [s EXCEPT !.pinned[b] = y]
  <2>1. /\ t = [bill |-> t.bill, cand |-> t.cand, pinned |-> t.pinned, ledger |-> t.ledger,
                open |-> t.open, kept |-> t.kept]
        /\ t.pinned = [s.pinned EXCEPT ![b] = y]
        /\ SameBills(s, t) /\ t.kept = s.kept
    BY <1>6 DEF TablesFit, SameBills
  <2>2. /\ t.pinned = [c \in Bills |-> t.pinned[c]]
        /\ \A c \in Bills : IsPinned(t.pinned[c])
    BY <1>3, <2>1 DEF TablesFit
  <2>3. TablesFit(t)
    BY <2>1, <2>2 DEF TablesFit, SameBills
  <2> QED BY <1>1, <2>1, <2>3
<1> QED BY <1>4, <1>5, <1>6

\* The row of a discarded bill.
LEMMA DiscardWrites ==
    ASSUME NEW s, TablesFit(s), NEW b \in Bills
    PROVE  LET t == [s EXCEPT !.bill[b] = Deleted(@), !.cand[b] = NoRows]
           IN  /\ TablesFit(t)
               /\ t.ledger = s.ledger /\ t.open = s.open /\ t.kept = s.kept
               /\ t.bill[b].status = "absent" /\ t.bill[b].payoff = None
               /\ t.bill[b].row = s.bill[b].row /\ t.cand[b] = NoRows
               /\ \A c \in Bills \ {b} : t.bill[c] = s.bill[c] /\ t.cand[c] = s.cand[c]
<1>1. PICK y : y = Deleted(s.bill[b])
  OBVIOUS
<1>2. PICK row : row = s.bill[b].row
  OBVIOUS
<1>3. y = [Absent EXCEPT !.row = row]
  BY <1>1, <1>2 DEF Deleted
<1>4. row \in Nat
  BY <1>2 DEF TablesFit, IsBill
<1>5. IsBill(y) /\ y.status = "absent" /\ y.payoff = None /\ y.row = s.bill[b].row
  BY <1>2, <1>3, <1>4 DEF Absent, IsBill
<1>6. PICK t : t = [s EXCEPT !.bill[b] = Deleted(@), !.cand[b] = NoRows]
  OBVIOUS
<1>7. PICK z : z = NoRows
  OBVIOUS
<1>8. DOMAIN z = {} /\ AreChoices(z)
  BY <1>7 DEF NoRows, AreChoices
<1>9. t = [s EXCEPT !.bill[b] = y, !.cand[b] = z]
  BY <1>1, <1>6, <1>7 DEF TablesFit
<1>10. /\ t.bill = [s.bill EXCEPT ![b] = y] /\ t.cand = [s.cand EXCEPT ![b] = z]
       /\ t.ledger = s.ledger /\ t.open = s.open /\ t.pinned = s.pinned /\ t.kept = s.kept
  BY <1>9 DEF TablesFit
<1>11. t.bill[b] = y /\ \A c \in Bills \ {b} : t.bill[c] = s.bill[c] /\ t.cand[c] = s.cand[c]
  BY <1>10 DEF TablesFit
<1>12. TablesFit(t)
  BY <1>5, <1>8, <1>9, <1>10, <1>11 DEF TablesFit
<1>13. t.cand[b] = NoRows
  BY <1>7, <1>10 DEF TablesFit
<1> QED BY <1>5, <1>6, <1>10, <1>11, <1>12, <1>13

----------------------------------------------------------------------------
\* A bill with a payoff is paid, by an exact transfer of its own whose legs
\* carry the system's treatment.
Paid(s) ==
    /\ \A b \in Bills : s.bill[b].payoff # None =>
         LET d == s.bill[b].payoff
         IN  /\ d \in DOMAIN s.ledger
             /\ s.ledger[d].debit = s.bill[b].due /\ s.ledger[d].credit = s.bill[b].due
             /\ s.ledger[d].treatment = "system"
    /\ \A b \in Bills : s.bill[b].status = "paid" => s.bill[b].payoff # None
    /\ \A b \in Bills : s.bill[b].payoff # None => s.bill[b].due # None
    /\ PayoffsDiffer(s)

\* What a transaction that writes the row x of bill b makes of the tables: the
\* row gets the next version, a debit that is selected is unlinked and the
\* bill unpaid, the ledger keeps its amounts and the treatments of the system,
\* and the transfer it pays with is excluded.  Only the debit of a confirmed
\* candidate gets its missing leg.
Saved(s, t, b, x) ==
    /\ TablesFit(t)
    /\ \A c \in Bills \ {b} : t.bill[c] = s.bill[c] /\ t.cand[c] = s.cand[c]
    /\ t.bill[b].row = x.row /\ t.bill[b].version = x.version + 1
    /\ t.bill[b].status = "paid" =>
         /\ t.bill[b].payoff \in DOMAIN t.ledger
         /\ t.ledger[t.bill[b].payoff].treatment = "system"
    /\ \A d \in DOMAIN t.cand[b] : t.cand[b][d] = "selected" =>
         t.bill[b].status = "unpaid" /\ t.ledger[d].credit = None
    /\ DOMAIN s.ledger \subseteq DOMAIN t.ledger
    /\ DOMAIN t.ledger \subseteq DOMAIN s.ledger \cup Spare
    /\ \A d \in DOMAIN s.ledger :
         /\ t.ledger[d].treatment \in {s.ledger[d].treatment, "system"}
         /\ t.ledger[d].debit = s.ledger[d].debit
         /\ \/ t.ledger[d].credit = s.ledger[d].credit
            \/ /\ t.bill[b].payoff = d
               /\ d \in DOMAIN t.cand[b] /\ t.cand[b][d] = "confirmed"

\* The constraints that a commit satisfies keep paid bills paid.
LEMMA PaidCommit ==
    ASSUME NEW s, TablesFit(s), Paid(s), NEW t, NEW b \in Bills, NEW x, Saved(s, t, b, x),
           NEW written, Legal(t, b, written)
    PROVE  Paid(t)
<1>1. PayoffsDiffer(t) /\ BillIsValid(t, b)
  BY DEF Legal
<1>2. t.bill[b].status = "paid" <=> t.bill[b].payoff # None
  BY <1>1 DEF BillIsValid
<1>3. ASSUME NEW c \in Bills, t.bill[c].payoff # None
      PROVE  LET d == t.bill[c].payoff
             IN  /\ d \in DOMAIN t.ledger
                 /\ t.ledger[d].debit = t.bill[c].due /\ t.ledger[d].credit = t.bill[c].due
                 /\ t.ledger[d].treatment = "system"
  <2>1. CASE c = b
    <3>1. t.bill[b].status = "paid"
      BY <1>2, <1>3, <2>1
    <3>2. /\ t.ledger[t.bill[b].payoff].debit = t.bill[b].due
          /\ t.ledger[t.bill[b].payoff].credit = t.bill[b].due
      BY <1>1, <1>3, <2>1 DEF BillIsValid
    <3> QED BY <2>1, <3>1, <3>2 DEF Saved
  <2>2. CASE c # b
    <3> DEFINE d == s.bill[c].payoff
    <3>1. t.bill[c] = s.bill[c]
      BY <2>2 DEF Saved
    <3>2. t.bill[b].payoff # d
      BY <1>1, <1>3, <2>2, <3>1 DEF PayoffsDiffer
    <3>3. d \in DOMAIN s.ledger
      BY <1>3, <3>1 DEF Paid
    <3>4. /\ t.ledger[d].debit = s.ledger[d].debit
          /\ t.ledger[d].credit = s.ledger[d].credit
          /\ t.ledger[d].treatment \in {s.ledger[d].treatment, "system"}
          /\ d \in DOMAIN t.ledger
      BY <3>2, <3>3 DEF Saved
    <3> QED BY <1>3, <3>1, <3>4 DEF Paid
  <2> QED BY <2>1, <2>2
<1>4. ASSUME NEW c \in Bills, t.bill[c].status = "paid" PROVE t.bill[c].payoff # None
  BY <1>2, <1>4 DEF Saved, Paid
<1>5. ASSUME NEW c \in Bills, t.bill[c].payoff # None PROVE t.bill[c].due # None
  <2>1. CASE c = b
    BY <1>1, <1>2, <1>5, <2>1 DEF BillIsValid
  <2>2. CASE c # b
    BY <1>5, <2>2 DEF Saved, Paid
  <2> QED BY <2>1, <2>2
<1> QED BY <1>1, <1>3, <1>4, <1>5 DEF Paid

\* Tables with the same bills and ledger are as good.
LEMMA SameSaved ==
    ASSUME NEW s, NEW r, NEW t, NEW u, NEW b \in Bills, NEW x, SameBills(s, r), TablesFit(u),
           Saved(r, t, b, x), SameBills(t, u)
    PROVE  Saved(s, u, b, x)
BY DEF SameBills, Saved

\* So are their paid bills.
LEMMA SamePaid ==
    ASSUME NEW s, NEW t, Paid(s), SameBills(s, t)
    PROVE  Paid(t)
BY DEF SameBills, Paid, PayoffsDiffer

\* The columns of a bill whose status is written.
LEMMA StatusColumn ==
    ASSUME NEW x, IsBill(x), NEW status \in {"review", "unpaid", "void"},
           NEW y, y = [x EXCEPT !.status = status]
    PROVE  IsBill(y) /\ y.status = status /\ y.row = x.row /\ y.version = x.version
BY DEF IsBill

\* The columns of a bill that is marked paid.
LEMMA PaidColumns ==
    ASSUME NEW x, IsBill(x), NEW d, NEW y, y = MarkPaid(x, d)
    PROVE  /\ IsBill(y) /\ y.status = "paid" /\ y.payoff = d
           /\ y.row = x.row /\ y.version = x.version
BY DEF MarkPaid, IsBill

\* A bill saved without a payment.
LEMMA UnpaidSaved ==
    ASSUME NEW s, TablesFit(s), NEW b \in Bills, NEW x, NEW y, IsBill(y), y.row = x.row,
           y.version = x.version, y.status # "paid",
           NEW live, DOMAIN live \subseteq DOMAIN s.ledger, AreChoices(live),
           \A e \in DOMAIN live : live[e] = "selected" =>
               y.status = "unpaid" /\ s.ledger[e].credit = None,
           NEW t, t = SaveBill(s, b, y, live)
    PROVE  Saved(s, t, b, x) /\ t.kept = s.kept
<1>1. /\ TablesFit(t)
      /\ t.ledger = s.ledger /\ t.open = s.open /\ t.kept = s.kept
      /\ t.bill[b].status = y.status /\ t.bill[b].payoff = y.payoff
      /\ t.bill[b].row = y.row /\ t.bill[b].version = y.version + 1
      /\ \A c \in Bills \ {b} : t.bill[c] = s.bill[c] /\ t.cand[c] = s.cand[c]
      /\ \A d \in DOMAIN live : d \in DOMAIN t.cand[b] /\ t.cand[b][d] = live[d]
      /\ \A d \in DOMAIN t.cand[b] \ DOMAIN live : t.cand[b][d] # "selected"
  BY SaveBillWrites
<1>2. \A d \in DOMAIN t.cand[b] : t.cand[b][d] = "selected" =>
         t.bill[b].status = "unpaid" /\ t.ledger[d].credit = None
  BY <1>1
<1> QED BY <1>1, <1>2 DEF Saved

\* A bill saved as paid with a transfer that is excluded before; the ledger r
\* may have the transfer's missing leg, or the transfer, that s has not.
LEMMA PaidSaved ==
    ASSUME NEW s, NEW r, TablesFit(r), NEW b \in Bills, NEW d \in DOMAIN r.ledger,
           NEW x, NEW y, IsBill(y), y.row = x.row, y.version = x.version,
           y.status = "paid", y.payoff = d, NEW live, DOMAIN live \subseteq DOMAIN r.ledger,
           \A e \in DOMAIN live : live[e] = "confirmed",
           r.bill = s.bill, r.cand = s.cand, r.kept = s.kept,
           DOMAIN s.ledger \subseteq DOMAIN r.ledger,
           DOMAIN r.ledger \subseteq DOMAIN s.ledger \cup Spare,
           \A e \in DOMAIN s.ledger : /\ r.ledger[e].treatment = s.ledger[e].treatment
                                      /\ r.ledger[e].debit = s.ledger[e].debit
                                      /\ \/ r.ledger[e].credit = s.ledger[e].credit
                                         \/ e = d /\ d \in DOMAIN live,
           NEW t, t = SaveBill(LockSystemExclusions(r, d), b, y, live)
    PROVE  Saved(s, t, b, x) /\ t.kept = s.kept
<1>1. PICK q : q = LockSystemExclusions(r, d)
  OBVIOUS
<1>2. /\ TablesFit(q) /\ q.bill = r.bill /\ q.cand = r.cand /\ q.open = r.open
      /\ q.kept = r.kept
      /\ DOMAIN q.ledger = DOMAIN r.ledger
      /\ q.ledger[d].debit = r.ledger[d].debit
      /\ q.ledger[d].credit = r.ledger[d].credit
      /\ q.ledger[d].treatment = "system"
      /\ \A e \in DOMAIN r.ledger \ {d} : q.ledger[e] = r.ledger[e]
  BY <1>1, LockWrites
<1>3. t = SaveBill(q, b, y, live) /\ AreChoices(live)
  BY <1>1 DEF AreChoices
<1>4. /\ TablesFit(t)
      /\ t.ledger = q.ledger /\ t.kept = q.kept
      /\ t.bill[b].status = y.status /\ t.bill[b].payoff = y.payoff
      /\ t.bill[b].row = y.row /\ t.bill[b].version = y.version + 1
      /\ \A c \in Bills \ {b} : t.bill[c] = q.bill[c] /\ t.cand[c] = q.cand[c]
      /\ \A e \in DOMAIN live : e \in DOMAIN t.cand[b] /\ t.cand[b][e] = live[e]
      /\ \A e \in DOMAIN t.cand[b] \ DOMAIN live : t.cand[b][e] # "selected"
  BY <1>2, <1>3, SaveBillWrites
<1>5. ASSUME NEW e \in DOMAIN s.ledger
      PROVE  /\ t.ledger[e].treatment \in {s.ledger[e].treatment, "system"}
             /\ t.ledger[e].debit = s.ledger[e].debit
             /\ \/ t.ledger[e].credit = s.ledger[e].credit
                \/ /\ t.bill[b].payoff = e
                   /\ e \in DOMAIN t.cand[b] /\ t.cand[b][e] = "confirmed"
  <2>1. CASE e = d
    BY <1>2, <1>4, <2>1
  <2>2. CASE e # d
    BY <1>2, <1>4, <2>2
  <2> QED BY <2>1, <2>2
<1>6. \A e \in DOMAIN t.cand[b] : t.cand[b][e] # "selected"
  BY <1>4
<1>7. Saved(s, t, b, x)
  BY <1>2, <1>4, <1>5, <1>6 DEF Saved
<1> QED BY <1>2, <1>4, <1>7

\* What resolvePayment leaves, whatever it finds.
LEMMA ResolveSaves ==
    ASSUME NEW s, TablesFit(s), NEW b \in Bills, NEW x, IsBill(x),
           NEW transfers, transfers \subseteq DOMAIN s.ledger,
           NEW debits, debits \subseteq DOMAIN s.ledger
    PROVE  LET t == ResolvePayment(s, b, x, transfers, debits).db
           IN  Saved(s, t, b, x) /\ t.kept = s.kept
<1> DEFINE valid == {d \in debits : IsBankDebitCandidate(s, x, d)}
           result(t, status, live) ==
             [ok |-> TRUE, live |-> live,
              db |-> SaveBill(t, b, [x EXCEPT !.status = status], live)]
           ambiguous == [d \in debits |-> IF d \in valid THEN "suggested" ELSE "dismissed"]
           d1 == CHOOSE t \in transfers : TRUE
           paid == [ok |-> TRUE, live |-> NoRows,
                    db |-> SaveBill(LockSystemExclusions(s, d1), b, MarkPaid(x, d1), NoRows)]
           outcome == ResolvePayment(s, b, x, transfers, debits)
<1>1. \/ outcome = result(s, "review", NoRows)
      \/ outcome = paid /\ transfers # {}
      \/ outcome = [result(s, "unpaid", Rows(debits, "suggested")) EXCEPT !.ok = valid = debits]
      \/ outcome = result(s, "unpaid", NoRows)
      \/ outcome = result(s, "review", ambiguous)
  BY DEF ResolvePayment
<1>2. /\ DOMAIN NoRows = {} /\ DOMAIN Rows(debits, "suggested") = debits
      /\ DOMAIN ambiguous = debits
      /\ \A e \in debits : Rows(debits, "suggested")[e] # "selected" /\ ambiguous[e] # "selected"
      /\ AreChoices(NoRows) /\ AreChoices(Rows(debits, "suggested")) /\ AreChoices(ambiguous)
  BY DEF NoRows, Rows, AreChoices
<1>3. ASSUME NEW status \in {"review", "unpaid"}, NEW live, DOMAIN live \subseteq DOMAIN s.ledger,
             AreChoices(live), \A e \in DOMAIN live : live[e] # "selected"
      PROVE  /\ Saved(s, result(s, status, live).db, b, x)
             /\ result(s, status, live).db.kept = s.kept
  <2>1. PICK y : y = [x EXCEPT !.status = status]
    OBVIOUS
  <2>2. IsBill(y) /\ y.status = status /\ y.row = x.row /\ y.version = x.version
    BY <2>1, StatusColumn
  <2>3. PICK saved : saved = SaveBill(s, b, y, live)
    OBVIOUS
  <2>4. result(s, status, live).db = saved
    BY <2>1, <2>3
  <2>5. Saved(s, saved, b, x) /\ saved.kept = s.kept
    BY <1>3, <2>2, <2>3, UnpaidSaved
  <2> HIDE DEF result
  <2> QED BY <2>4, <2>5
<1>4. ASSUME transfers # {} PROVE Saved(s, paid.db, b, x) /\ paid.db.kept = s.kept
  <2>1. d1 \in DOMAIN s.ledger
    BY <1>4
  <2>2. PICK y : y = MarkPaid(x, d1)
    OBVIOUS
  <2>3. PICK saved : saved = SaveBill(LockSystemExclusions(s, d1), b, y, NoRows)
    OBVIOUS
  <2>4. paid.db = saved
    BY <2>2, <2>3
  <2> HIDE DEF d1, paid
  <2>5. /\ IsBill(y) /\ y.status = "paid" /\ y.payoff = d1
        /\ y.row = x.row /\ y.version = x.version
    BY <2>2, PaidColumns
  <2>6. Saved(s, saved, b, x) /\ saved.kept = s.kept
    <3>1. DOMAIN NoRows = {}
      BY DEF NoRows
    <3>2. PICK live : live = NoRows
      OBVIOUS
    <3>3. /\ DOMAIN live \subseteq DOMAIN s.ledger
          /\ \A e \in DOMAIN live : live[e] = "confirmed"
          /\ saved = SaveBill(LockSystemExclusions(s, d1), b, y, live)
      BY <2>3, <3>1, <3>2
    <3>4. DOMAIN s.ledger \subseteq DOMAIN s.ledger \cup Spare
      OBVIOUS
    <3> QED BY <2>1, <2>5, <3>3, <3>4, PaidSaved
  <2> QED BY <2>4, <2>6
<1>5. ASSUME NEW live, NEW ok
      PROVE  [result(s, "unpaid", live) EXCEPT !.ok = ok].db = result(s, "unpaid", live).db
  OBVIOUS
<1> HIDE DEF result, ambiguous, paid, valid
<1>6. CASE outcome = result(s, "review", NoRows)
  BY <1>2, <1>3, <1>6
<1>7. CASE outcome = paid /\ transfers # {}
  BY <1>4, <1>7
<1>8. CASE outcome = [result(s, "unpaid", Rows(debits, "suggested")) EXCEPT !.ok = valid = debits]
  BY <1>2, <1>3, <1>5, <1>8
<1>9. CASE outcome = result(s, "unpaid", NoRows)
  BY <1>2, <1>3, <1>9
<1>10. CASE outcome = result(s, "review", ambiguous)
  BY <1>2, <1>3, <1>10
<1> QED BY <1>1, <1>6, <1>7, <1>8, <1>9, <1>10

----------------------------------------------------------------------------
\* The requests the clients have sent.
IsRequest(r) ==
    /\ r = [op |-> r.op, bill |-> r.bill, arg |-> r.arg, key |-> r.key, view |-> r.view,
            effects |-> r.effects, answers |-> r.answers]
    /\ r.bill \in Bills /\ r.effects \in Nat
    /\ r.view.bill.row \in Nat /\ r.view.bill.version \in Nat
    /\ r.op = "correct" => r.arg \in Amounts

SentFit(q) ==
    /\ q \in Seq({q[i] : i \in DOMAIN q})
    /\ \A i \in DOMAIN q : IsRequest(q[i])

\* What was sent stays as it was sent.
Keeps(q, p) ==
    /\ DOMAIN q \subseteq DOMAIN p
    /\ \A i \in DOMAIN q : /\ p[i].op = q[i].op /\ p[i].bill = q[i].bill
                           /\ p[i].arg = q[i].arg /\ p[i].view = q[i].view
                           /\ p[i].key = q[i].key

\* What a client was shown is a version of the bill: the present one or one
\* before it.
Seen(s, r) ==
    LET bill == s.bill[r.bill]
    IN  /\ r.view.bill.row <= bill.row
        /\ r.view.bill.row = bill.row /\ bill.status # "absent" =>
             /\ r.view.bill.version <= bill.version
             /\ r.view.bill.version = bill.version => Shown(s, r.bill) = r.view

\* A transaction that holds the row of bill b works on that row, or on the
\* first row after the present one, and has found what the ledger still has.
FlightFits(f, b, s, q) ==
    /\ f = [by |-> f.by, bill |-> f.bill, transfers |-> f.transfers, debits |-> f.debits,
            after |-> f.after]
    /\ IsBill(f.bill)
    /\ f.transfers \subseteq DOMAIN s.ledger /\ f.debits \subseteq DOMAIN s.ledger
    /\ f.by = 0 => f.bill.row = s.bill[b].row + 1
    /\ f.by # 0 =>
         /\ f.by \in DOMAIN q /\ q[f.by].bill = b
         /\ RequireVersion(s, q[f.by])
         /\ f.bill.row = s.bill[b].row /\ f.bill.version = s.bill[b].version
         /\ q[f.by].op = "confirm" => q[f.by].arg \in DOMAIN s.ledger

BillsInv ==
    /\ TablesFit(db) /\ Paid(db)
    /\ SentFit(sent)
    /\ \A i \in DOMAIN sent : Seen(db, sent[i])
    /\ flight = [b \in Bills |-> flight[b]]
    /\ \A b \in Bills : flight[b] # None => FlightFits(flight[b], b, db, sent)

----------------------------------------------------------------------------
\* A client sends.
LEMMA SendKeeps ==
    ASSUME NEW q, SentFit(q), NEW r, IsRequest(r)
    PROVE  LET p == Append(q, r)
           IN  /\ SentFit(p) /\ Keeps(q, p)
               /\ \A i \in DOMAIN p : IF i \in DOMAIN q THEN p[i] = q[i] ELSE p[i] = r
<1> DEFINE S == {q[i] : i \in DOMAIN q} \cup {r}
<1>1. PICK p : p = Append(q, r)
  OBVIOUS
<1>2. q \in Seq(S) /\ r \in S
  BY DEF SentFit
<1>3. /\ p \in Seq(S) /\ Len(p) = Len(q) + 1 /\ p[Len(q) + 1] = r
      /\ \A i \in 1 .. Len(q) : p[i] = q[i]
  <2> HIDE DEF S
  <2> QED BY <1>1, <1>2, AppendProperties
<1>4. DOMAIN q = 1 .. Len(q) /\ DOMAIN p = 1 .. Len(q) + 1 /\ Len(q) \in Nat
  <2> HIDE DEF S
  <2> QED BY <1>2, <1>3, LenProperties
<1>5. \A i \in DOMAIN p : IF i \in DOMAIN q THEN p[i] = q[i] ELSE p[i] = r
  BY <1>3, <1>4
<1>6. p \in Seq({p[i] : i \in DOMAIN p})
  <2> HIDE DEF S
  <2> QED BY <1>3
<1>7. SentFit(p)
  BY <1>5, <1>6 DEF SentFit
<1>8. Keeps(q, p)
  BY <1>4, <1>5 DEF Keeps
<1> QED BY <1>1, <1>5, <1>7, <1>8

\* A request that is answered, whether it takes effect or is repeated.
LEMMA AnswerKeeps ==
    ASSUME NEW q, SentFit(q), NEW i \in DOMAIN q, NEW r, IsRequest(r),
           r.op = q[i].op, r.bill = q[i].bill, r.arg = q[i].arg, r.view = q[i].view,
           r.key = q[i].key, NEW p, p = [q EXCEPT ![i] = r]
    PROVE  /\ SentFit(p) /\ Keeps(q, p) /\ DOMAIN p = DOMAIN q
           /\ p[i] = r /\ \A j \in DOMAIN q \ {i} : p[j] = q[j]
<1>1. DOMAIN p = DOMAIN q /\ p[i] = r /\ \A j \in DOMAIN q \ {i} : p[j] = q[j]
  OBVIOUS
<1>2. p \in Seq({p[j] : j \in DOMAIN p})
  <2>1. Len(q) \in Nat /\ DOMAIN q = 1 .. Len(q)
    BY DEF SentFit
  <2> DEFINE S == {p[j] : j \in DOMAIN p}
  <2>2. p \in [1 .. Len(q) -> S]
    BY <1>1, <2>1
  <2> HIDE DEF S
  <2>3. p \in Seq(S)
    BY <2>1, <2>2, SeqDef
  <2> QED BY <2>3 DEF S
<1> QED BY <1>1, <1>2 DEF SentFit, Keeps

\* The request that takes effect counts it and keeps its answer.
LEMMA AnsweredKeeps ==
    ASSUME SentFit(sent), NEW i \in DOMAIN sent, NEW answer, Answered(i, answer)
    PROVE  /\ SentFit(sent') /\ Keeps(sent, sent') /\ DOMAIN sent' = DOMAIN sent
           /\ \A j \in DOMAIN sent \ {i} : sent'[j] = sent[j]
           /\ sent'[i].effects = sent[i].effects + 1
           /\ sent'[i].answers = sent[i].answers \cup {answer}
<1>1. PICK n : n = sent[i].effects + 1
  OBVIOUS
<1>2. PICK as : as = sent[i].answers \cup {answer}
  OBVIOUS
<1>3. PICK r : r = [sent[i] EXCEPT !.effects = n, !.answers = as]
  OBVIOUS
<1>4. IsRequest(sent[i]) /\ n \in Nat
  BY <1>1 DEF SentFit, IsRequest
<1>5. /\ IsRequest(r) /\ r.op = sent[i].op /\ r.bill = sent[i].bill /\ r.arg = sent[i].arg
      /\ r.view = sent[i].view /\ r.key = sent[i].key /\ r.effects = n /\ r.answers = as
  BY <1>3, <1>4 DEF IsRequest
<1>6. sent' = [sent EXCEPT ![i] = r]
  <2>1. sent' = [sent EXCEPT ![i].effects = n, ![i].answers = as]
    BY <1>1, <1>2 DEF Answered
  <2> QED BY <1>3, <1>4, <2>1 DEF IsRequest
<1> QED BY <1>1, <1>2, <1>5, <1>6, AnswerKeeps

\* The request that is repeated takes no effect.
LEMMA ReplayKeeps ==
    ASSUME SentFit(sent), NEW i \in DOMAIN sent, Replay(i)
    PROVE  /\ SentFit(sent') /\ Keeps(sent, sent') /\ DOMAIN sent' = DOMAIN sent
           /\ \A j \in DOMAIN sent : sent'[j].effects = sent[j].effects
           /\ \A j \in DOMAIN sent \ {i} : sent'[j] = sent[j]
           /\ sent'[i].answers = sent[i].answers \cup {StoredAnswer(db, sent[i])}
<1>1. PICK as : as = sent[i].answers \cup {StoredAnswer(db, sent[i])}
  OBVIOUS
<1>2. PICK r : r = [sent[i] EXCEPT !.answers = as]
  OBVIOUS
<1>3. IsRequest(sent[i])
  BY DEF SentFit
<1>4. /\ IsRequest(r) /\ r.op = sent[i].op /\ r.bill = sent[i].bill /\ r.arg = sent[i].arg
      /\ r.view = sent[i].view /\ r.key = sent[i].key /\ r.effects = sent[i].effects
      /\ r.answers = as
  BY <1>2, <1>3 DEF IsRequest
<1>5. sent' = [sent EXCEPT ![i] = r]
  BY <1>1, <1>2, <1>3 DEF Replay, IsRequest
<1> QED BY <1>1, <1>4, <1>5, AnswerKeeps

\* Views of bills that stay as they are.
LEMMA SeenKept ==
    ASSUME NEW s, NEW t, NEW q, NEW r, Seen(s, q), r.bill = q.bill, r.view = q.view,
           t.bill[q.bill] = s.bill[q.bill], t.cand[q.bill] = s.cand[q.bill]
    PROVE  Seen(t, r)
BY DEF Seen, Shown

\* Views of a bill that gets its next version, or its next row.
LEMMA SeenSaved ==
    ASSUME NEW s, TablesFit(s), NEW t, NEW b \in Bills, NEW x, IsBill(x), Saved(s, t, b, x),
           \/ x.row = s.bill[b].row + 1
           \/ /\ x.row = s.bill[b].row /\ x.version = s.bill[b].version
              /\ s.bill[b].status # "absent",
           NEW q, IsRequest(q), Seen(s, q), NEW r, r.bill = q.bill, r.view = q.view
    PROVE  Seen(t, r)
<1>1. CASE q.bill # b
  BY <1>1, SeenKept DEF Saved, IsRequest
<1>2. CASE q.bill = b
  <2>1. /\ q.view.bill.row \in Nat /\ q.view.bill.version \in Nat
        /\ s.bill[b].row \in Nat /\ s.bill[b].version \in Nat
        /\ t.bill[b].row = x.row /\ t.bill[b].version = x.version + 1
        /\ q.view.bill.row <= s.bill[b].row
    BY <1>2 DEF IsRequest, TablesFit, IsBill, Saved, Seen
  <2>2. CASE x.row = s.bill[b].row + 1
    BY <1>2, <2>1, <2>2 DEF Seen
  <2>3. CASE /\ x.row = s.bill[b].row /\ x.version = s.bill[b].version
             /\ s.bill[b].status # "absent"
    <3>1. q.view.bill.row = s.bill[b].row => q.view.bill.version <= s.bill[b].version
      BY <1>2, <2>3 DEF Seen
    <3> QED BY <1>2, <2>1, <2>3, <3>1 DEF Seen
  <2> QED BY <2>2, <2>3
<1> QED BY <1>1, <1>2

\* A transaction under way while others commit.
LEMMA FlightKept ==
    ASSUME NEW f, NEW b \in Bills, NEW s, NEW q, FlightFits(f, b, s, q),
           NEW g, NEW t, NEW p, g = f \/ \E after : g = [f EXCEPT !.after = after],
           t.bill[b] = s.bill[b], DOMAIN s.ledger \subseteq DOMAIN t.ledger, Keeps(q, p)
    PROVE  FlightFits(g, b, t, p)
<1>1. /\ g = [by |-> g.by, bill |-> g.bill, transfers |-> g.transfers, debits |-> g.debits,
              after |-> g.after]
      /\ g.by = f.by /\ g.bill = f.bill /\ g.transfers = f.transfers /\ g.debits = f.debits
  BY DEF FlightFits
<1>2. ASSUME f.by # 0
      PROVE  /\ f.by \in DOMAIN p /\ p[f.by].bill = b /\ RequireVersion(t, p[f.by])
             /\ p[f.by].op = "confirm" => p[f.by].arg \in DOMAIN t.ledger
  BY <1>2 DEF FlightFits, RequireVersion, Keeps
<1> QED BY <1>1, <1>2 DEF FlightFits

----------------------------------------------------------------------------
\* Transactions that begin and end.
LEMMA FlyKeeps ==
    ASSUME flight = [c \in Bills |-> flight[c]], NEW by, NEW b \in Bills, NEW bill,
           NEW transfers, NEW debits, Fly(by, b, bill, transfers, debits)
    PROVE  /\ flight' = [c \in Bills |-> flight'[c]]
           /\ \A c \in Bills \ {b} : flight'[c] = flight[c]
           /\ LET f == flight'[b]
              IN  /\ f = [by |-> f.by, bill |-> f.bill, transfers |-> f.transfers,
                          debits |-> f.debits, after |-> f.after]
                  /\ f.by = by /\ f.bill = bill
                  /\ f.transfers = transfers /\ f.debits = debits
<1>1. PICK g : /\ flight' = [flight EXCEPT ![b] = g]
               /\ \E after : g = [by |-> by, bill |-> bill, transfers |-> transfers,
                                  debits |-> debits, after |-> after]
  BY DEF Fly
<1>2. /\ flight' = [c \in Bills |-> flight'[c]] /\ flight'[b] = g
      /\ \A c \in Bills \ {b} : flight'[c] = flight[c]
  BY <1>1
<1> QED BY <1>1, <1>2

\* What a search finds is in the ledger.
LEMMA SearchFinds ==
    ASSUME NEW by, NEW b \in Bills, NEW bill, Search(by, b, bill)
    PROVE  \E transfers, debits : /\ transfers \subseteq DOMAIN db.ledger
                                  /\ debits \subseteq DOMAIN db.ledger
                                  /\ Fly(by, b, bill, transfers, debits)
<1>1. FindExactPayoffTransfers(db, bill.due) \subseteq DOMAIN db.ledger
  BY DEF FindExactPayoffTransfers
<1>2. FindBankDebitCandidates(db, bill.due) \subseteq DOMAIN db.ledger
  BY DEF FindBankDebitCandidates
<1>3. CASE ~Searchable(bill)
  <2>1. Fly(by, b, bill, {}, {})
    BY <1>3 DEF Search
  <2> QED BY <2>1
<1>4. CASE Searchable(bill) /\ FindExactPayoffTransfers(db, bill.due) = {}
  <2>1. Fly(by, b, bill, FindExactPayoffTransfers(db, bill.due),
            FindBankDebitCandidates(db, bill.due))
    BY <1>4 DEF Search
  <2> QED BY <1>1, <1>2, <2>1
<1>5. CASE Searchable(bill) /\ FindExactPayoffTransfers(db, bill.due) # {}
  <2>1. Fly(by, b, bill, FindExactPayoffTransfers(db, bill.due), {})
    BY <1>5 DEF Search
  <2> QED BY <1>1, <2>1
<1> QED BY <1>3, <1>4, <1>5

\* The transactions that are under way afterwards were so before.
StillFlying(b) ==
    /\ flight' = [c \in Bills |-> flight'[c]]
    /\ \A c \in Bills : flight'[c] # None =>
         /\ c # b /\ flight[c] # None
         /\ flight'[c] = flight[c] \/ \E after : flight'[c] = [flight[c] EXCEPT !.after = after]

\* A transaction that ends only releases those that waited for it.
LEMMA LandKeeps ==
    ASSUME flight = [c \in Bills |-> flight[c]], NEW b \in Bills, Land(b)
    PROVE  StillFlying(b)
BY DEF Land, StillFlying

\* A transaction begins: nothing but its row is held.
LEMMA BeginFits ==
    ASSUME BillsInv, UNCHANGED <<db, sent>>, NEW by, NEW b \in Bills, NEW bill, NEW transfers,
           NEW debits, Fly(by, b, bill, transfers, debits), IsBill(bill),
           transfers \subseteq DOMAIN db.ledger, debits \subseteq DOMAIN db.ledger,
           by = 0 => bill.row = db.bill[b].row + 1,
           by # 0 => /\ by \in DOMAIN sent /\ sent[by].bill = b /\ RequireVersion(db, sent[by])
                     /\ bill.row = db.bill[b].row /\ bill.version = db.bill[b].version
                     /\ sent[by].op = "confirm" => sent[by].arg \in DOMAIN db.ledger
    PROVE  BillsInv'
<1>1. FlightFits(flight'[b], b, db, sent)
  BY FlyKeeps DEF FlightFits, BillsInv
<1>2. \A c \in Bills \ {b} : flight'[c] = flight[c]
  BY FlyKeeps DEF BillsInv
<1>3. flight' = [c \in Bills |-> flight'[c]]
  BY FlyKeeps DEF BillsInv
<1> QED BY <1>1, <1>2, <1>3 DEF BillsInv

\* A commit that wrote a bill.
LEMMA CommitFits ==
    ASSUME BillsInv, NEW b \in Bills, NEW x, IsBill(x), Saved(db, db', b, x), Paid(db)',
           \/ x.row = db.bill[b].row + 1
           \/ /\ x.row = db.bill[b].row /\ x.version = db.bill[b].version
              /\ db.bill[b].status # "absent",
           SentFit(sent'), Keeps(sent, sent'), DOMAIN sent' = DOMAIN sent, StillFlying(b)
    PROVE  BillsInv'
<1>1. TablesFit(db') /\ DOMAIN db.ledger \subseteq DOMAIN db'.ledger
  BY DEF Saved
<1>2. ASSUME NEW i \in DOMAIN sent' PROVE Seen(db', sent'[i])
  <2>1. /\ IsRequest(sent[i]) /\ Seen(db, sent[i])
        /\ sent'[i].bill = sent[i].bill /\ sent'[i].view = sent[i].view
    BY DEF BillsInv, SentFit, Keeps
  <2> QED BY <2>1, SeenSaved DEF BillsInv
<1>3. ASSUME NEW c \in Bills, flight'[c] # None PROVE FlightFits(flight'[c], c, db', sent')
  <2>1. /\ c # b /\ FlightFits(flight[c], c, db, sent)
        /\ flight'[c] = flight[c] \/ \E after : flight'[c] = [flight[c] EXCEPT !.after = after]
    BY <1>3 DEF BillsInv, StillFlying
  <2>2. db'.bill[c] = db.bill[c]
    BY <2>1 DEF Saved
  <2> QED BY <1>1, <2>1, <2>2, FlightKept
<1> QED BY <1>1, <1>2, <1>3 DEF BillsInv, StillFlying

\* Steps that write no bill.
LEMMA RestFits ==
    ASSUME BillsInv, TablesFit(db'), Paid(db)', db'.bill = db.bill, db'.cand = db.cand,
           DOMAIN db.ledger \subseteq DOMAIN db'.ledger,
           SentFit(sent'), Keeps(sent, sent'), DOMAIN sent' = DOMAIN sent,
           UNCHANGED flight \/ \E b \in Bills : StillFlying(b)
    PROVE  BillsInv'
<1>1. ASSUME NEW i \in DOMAIN sent' PROVE Seen(db', sent'[i])
  <2>1. /\ Seen(db, sent[i])
        /\ sent'[i].bill = sent[i].bill /\ sent'[i].view = sent[i].view
    BY DEF BillsInv, Keeps
  <2> QED BY <2>1, SeenKept
<1>2. ASSUME NEW c \in Bills, flight'[c] # None PROVE FlightFits(flight'[c], c, db', sent')
  <2>1. /\ FlightFits(flight[c], c, db, sent)
        /\ flight'[c] = flight[c] \/ \E after : flight'[c] = [flight[c] EXCEPT !.after = after]
    BY <1>2 DEF BillsInv, StillFlying
  <2>2. db'.bill[c] = db.bill[c]
    OBVIOUS
  <2> QED BY <2>1, <2>2, FlightKept
<1> QED BY <1>1, <1>2 DEF BillsInv, StillFlying

\* A request takes effect: it is answered, its answer is recorded, and the row
\* it is about gets a new version or goes.
Took(i) ==
    LET r == sent[i]
        b == r.bill
    IN  /\ i \in DOMAIN sent /\ b \in Bills /\ RequireVersion(db, r)
        /\ db'.bill[b].row = db.bill[b].row
        /\ \/ db'.bill[b].status = "absent"
           \/ db'.bill[b].version = db.bill[b].version + 1
        /\ \A c \in Bills \ {b} : db'.bill[c] = db.bill[c]
        /\ \E answer :
             /\ Answered(i, answer)
             /\ IF r.op \in Keyed
                THEN /\ DOMAIN db'.kept = DOMAIN db.kept \cup {Record(r)}
                     /\ db'.kept[Record(r)].digest = Digest(r)
                     /\ db'.kept[Record(r)].answer = answer
                     /\ \A k \in DOMAIN db.kept \ {Record(r)} : db'.kept[k] = db.kept[k]
                ELSE db'.kept = db.kept

\* A bill is written by a transaction whose candidates differ from those of
\* the other bills.
Wrote(b) == ChoicesDiffer(db)' /\ \E x : Saved(db, db', b, x)

\* A document gets a bill.
Projected(b) ==
    /\ UNCHANGED sent
    /\ db'.kept = db.kept
    /\ db'.bill[b].row = db.bill[b].row + 1
    /\ \A c \in Bills \ {b} : db'.bill[c] = db.bill[c]

\* A request commits what it made of the tables.
LEMMA SucceedFits ==
    ASSUME BillsInv, NEW i \in DOMAIN sent, NEW b \in Bills, b = sent[i].bill,
           RequireVersion(db, sent[i]),
           NEW x, IsBill(x), x.row = db.bill[b].row, x.version = db.bill[b].version,
           NEW new, Saved(db, new, b, x), Paid(new), new.kept = db.kept, ChoicesDiffer(new),
           NEW answer, Succeed(i, new, answer), StillFlying(b)
    PROVE  BillsInv' /\ Took(i) /\ Wrote(b)
<1>1. db' = Complete(new, sent[i], answer) /\ Answered(i, answer)
  BY DEF Succeed
<1>2. TablesFit(new)
  BY DEF Saved
<1>3. TablesFit(db') /\ SameBills(new, db')
  BY <1>1, <1>2, CompleteWrites
<1>4. Paid(db)'
  BY <1>3, SamePaid
<1>5. Saved(db, db', b, x)
  <2>1. SameBills(db, db)
    BY DEF SameBills
  <2> QED BY <1>3, <2>1, SameSaved
<1>6. db.bill[b].status # "absent"
  BY DEF RequireVersion
<1>7. Took(i)
  <2>1. /\ db'.bill[b].row = db.bill[b].row /\ db'.bill[b].version = db.bill[b].version + 1
        /\ \A c \in Bills \ {b} : db'.bill[c] = db.bill[c]
    BY <1>5 DEF Saved
  <2>2. IF sent[i].op \in Keyed
        THEN /\ DOMAIN db'.kept = DOMAIN db.kept \cup {Record(sent[i])}
             /\ db'.kept[Record(sent[i])].digest = Digest(sent[i])
             /\ db'.kept[Record(sent[i])].answer = answer
             /\ \A k \in DOMAIN db.kept \ {Record(sent[i])} : db'.kept[k] = db.kept[k]
        ELSE db'.kept = db.kept
    BY <1>1, <1>2, CompleteWrites
  <2> QED BY <1>1, <2>1, <2>2 DEF Took
<1>8. Wrote(b)
  BY <1>3, <1>5 DEF Wrote, ChoicesDiffer, SameBills
<1> QED BY <1>1, <1>4, <1>5, <1>6, <1>7, <1>8, AnsweredKeeps, CommitFits DEF BillsInv

\* The bill of a request, and its row.
LEMMA RequestedBill ==
    ASSUME BillsInv, NEW i \in DOMAIN sent
    PROVE  sent[i].bill \in Bills /\ IsBill(db.bill[sent[i].bill]) /\ i # 0
BY DEF BillsInv, SentFit, IsRequest, TablesFit

\* The candidates a client is shown are rows of the ledger.
LEMMA CandidatesAreKnown ==
    ASSUME BillsInv, NEW b \in Bills
    PROVE  /\ PaymentCandidate(db, b) \subseteq DOMAIN db.ledger
           /\ AmbiguousCandidates(db, b) \subseteq DOMAIN db.ledger
BY DEF PaymentCandidate, AmbiguousCandidates, Live, BillsInv, TablesFit

\* A document is projected: the new row is the first after the old one.
LEMMA ProjectFits ==
    ASSUME BillsInv, NEW b \in Bills, Project(b)
    PROVE  BillsInv'
<1> DEFINE bill == ProjectBillFromBulk(b)
<1>1. IsBill(bill) /\ bill.row = db.bill[b].row + 1
  <2>1. PICK due, line, tx, failed :
          /\ bill = [status |-> "review", row |-> db.bill[b].row + 1, version |-> 1, due |-> due,
                     line |-> line, tx |-> tx, failed |-> failed, payoff |-> None]
          /\ due = db.pinned[b].due /\ line \in {"none", "pending", "linked"}
    BY DEF ProjectBillFromBulk, ProjectedLine
  <2> HIDE DEF bill
  <2>2. IsBill(db.bill[b])
    BY DEF BillsInv, TablesFit
  <2>3. db.bill[b].row + 1 \in Nat
    BY <2>2 DEF IsBill
  <2>4. IsPinned(db.pinned[b])
    BY DEF BillsInv, TablesFit
  <2>5. db.pinned[b].due \in Amounts \cup {None}
    BY <2>4 DEF IsPinned
  <2> QED BY <2>1, <2>3, <2>5 DEF IsBill
<1>2. Search(0, b, bill) /\ UNCHANGED <<db, sent>>
  BY DEF Project
<1> HIDE DEF bill
<1>3. PICK transfers, debits : /\ transfers \subseteq DOMAIN db.ledger
                               /\ debits \subseteq DOMAIN db.ledger
                               /\ Fly(0, b, bill, transfers, debits)
  BY <1>2, SearchFinds
<1> QED BY <1>1, <1>2, <1>3, BeginFits

\* A change of the header or the line holds the row the client named.
LEMMA MutateFits ==
    ASSUME BillsInv, NEW i \in DOMAIN sent, Mutate(i)
    PROVE  BillsInv'
<1> DEFINE r == sent[i]
           b == r.bill
           bill == Change(r, db.bill[b])
<1>1. b \in Bills /\ IsBill(db.bill[b]) /\ i # 0
  BY RequestedBill
<1>2. /\ r.op \in Searching /\ RequireVersion(db, r)
      /\ Search(i, b, bill) /\ UNCHANGED <<db, sent>>
  BY DEF Mutate
<1>3. IsBill(bill) /\ bill.row = db.bill[b].row /\ bill.version = db.bill[b].version
  <2>1. PICK old : old = db.bill[b]
    OBVIOUS
  <2>2. \/ r.arg \in Amounts /\ bill = [old EXCEPT !.due = r.arg]
        \/ bill = [old EXCEPT !.line = "ignored"]
        \/ \E tx : bill = [old EXCEPT !.line = "linked", !.tx = tx]
    <3>1. r.op = "correct" => r.arg \in Amounts
      BY DEF BillsInv, SentFit, IsRequest
    <3> QED BY <1>2, <2>1, <3>1
            DEF Searching, Change, ApplyHeaderCorrection, IgnoreLine, LinkLine
  <2> HIDE DEF bill
  <2> QED BY <1>1, <2>1, <2>2 DEF IsBill
<1>4. r.op # "confirm"
  BY <1>2 DEF Searching
<1> HIDE DEF bill
<1>5. PICK transfers, debits : /\ transfers \subseteq DOMAIN db.ledger
                               /\ debits \subseteq DOMAIN db.ledger
                               /\ Fly(i, b, bill, transfers, debits)
  BY <1>1, <1>2, SearchFinds
<1> QED BY <1>1, <1>2, <1>3, <1>4, <1>5, BeginFits

\* A confirmation holds a candidate that is a row of the ledger.
LEMMA ConfirmFits ==
    ASSUME BillsInv, NEW i \in DOMAIN sent, Confirm(i)
    PROVE  BillsInv'
<1> DEFINE r == sent[i]
           b == r.bill
<1>1. b \in Bills /\ IsBill(db.bill[b]) /\ i # 0
  BY RequestedBill
<1>2. /\ RequireVersion(db, r) /\ PaymentCandidate(db, b) = {r.arg}
      /\ Fly(i, b, db.bill[b], {}, {r.arg}) /\ UNCHANGED <<db, sent>>
  BY DEF Confirm
<1>3. r.arg \in DOMAIN db.ledger
  BY <1>1, <1>2, CandidatesAreKnown
<1> QED BY <1>1, <1>2, <1>3, BeginFits

\* The writes of a search, of a projection or of a request.
LEMMA CommitSearchFits ==
    ASSUME BillsInv, NEW b \in Bills, CommitSearch(b)
    PROVE  BillsInv' /\ Wrote(b) /\ (Projected(b) \/ Took(flight[b].by))
<1> DEFINE f == flight[b]
           s == Pin(db, f.by, b)
           result == ResolvePayment(s, b, f.bill, f.transfers, f.debits)
           new == result.db
<1>1. /\ f # None /\ StillFlying(b)
      /\ Legal(new, b, Touched(db, b, result.live))
      /\ IF f.by = 0 THEN db' = new /\ UNCHANGED sent
         ELSE Succeed(f.by, new, Shown(new, b))
  BY LandKeeps DEF CommitSearch, BillsInv
<1>2. FlightFits(f, b, db, sent) /\ IsBill(f.bill)
  BY <1>1 DEF BillsInv, FlightFits
<1>3. TablesFit(s) /\ SameBills(db, s) /\ s.kept = db.kept
  BY PinWrites DEF BillsInv
<1>4. Saved(s, new, b, f.bill) /\ new.kept = db.kept
  <2>1. f.transfers \subseteq DOMAIN s.ledger /\ f.debits \subseteq DOMAIN s.ledger
    BY <1>2, <1>3 DEF FlightFits, SameBills
  <2> HIDE DEF s, f
  <2> QED BY <1>2, <1>3, <2>1, ResolveSaves
<1> HIDE DEF s, result
<1>5. Paid(new)
  <2>1. Paid(s)
    BY <1>3, SamePaid DEF BillsInv
  <2> QED BY <1>1, <1>3, <1>4, <2>1, PaidCommit
<1>6. Saved(db, new, b, f.bill)
  <2>1. TablesFit(new) /\ SameBills(new, new)
    BY <1>4 DEF Saved, SameBills
  <2> QED BY <1>3, <1>4, <2>1, SameSaved
<1>9. ChoicesDiffer(new)
  BY <1>1 DEF Legal
<1>7. CASE f.by = 0
  <2>1. db' = new /\ UNCHANGED sent
    BY <1>1, <1>7
  <2>2. f.bill.row = db.bill[b].row + 1
    BY <1>2, <1>7 DEF FlightFits
  <2>3. Keeps(sent, sent') /\ SentFit(sent')
    BY <2>1 DEF Keeps, BillsInv
  <2>4. Paid(db)'
    BY <1>5, <2>1
  <2>5. Projected(b)
    BY <1>4, <1>6, <2>1, <2>2 DEF Projected, Saved
  <2>6. Wrote(b)
    BY <1>6, <1>9, <2>1 DEF Wrote
  <2> QED BY <1>1, <1>2, <1>6, <2>1, <2>2, <2>3, <2>4, <2>5, <2>6, CommitFits
<1>8. CASE f.by # 0
  <2>1. /\ f.by \in DOMAIN sent /\ sent[f.by].bill = b /\ RequireVersion(db, sent[f.by])
        /\ f.bill.row = db.bill[b].row /\ f.bill.version = db.bill[b].version
    BY <1>2, <1>8 DEF FlightFits
  <2>2. Succeed(f.by, new, Shown(new, b))
    BY <1>1, <1>8
  <2> QED BY <1>1, <1>2, <1>4, <1>5, <1>6, <1>9, <2>1, <2>2, SucceedFits
<1> QED BY <1>7, <1>8

\* The missing leg is linked, excluded and paid with in one transaction.
LEMMA CommitConfirmFits ==
    ASSUME BillsInv, NEW b \in Bills, CommitConfirm(b)
    PROVE  BillsInv' /\ Took(flight[b].by) /\ Wrote(b)
<1> DEFINE f == flight[b]
           r == sent[f.by]
           d == r.arg
           linked == [db EXCEPT !.ledger[d].credit = f.bill.due]
           new == SaveBill(LockSystemExclusions(linked, d), b, MarkPaid(f.bill, d),
                           Rows({d}, "confirmed"))
<1>1. /\ f # None /\ f.by # 0 /\ r.op = "confirm" /\ StillFlying(b)
      /\ Legal(new, b, Touched(db, b, Rows({d}, "confirmed")))
      /\ Succeed(f.by, new, Shown(new, b))
  BY LandKeeps DEF CommitConfirm, BillsInv
<1>2. /\ FlightFits(f, b, db, sent) /\ IsBill(f.bill)
      /\ f.by \in DOMAIN sent /\ r.bill = b /\ RequireVersion(db, r)
      /\ f.bill.row = db.bill[b].row /\ f.bill.version = db.bill[b].version
      /\ d \in DOMAIN db.ledger
  BY <1>1 DEF BillsInv, FlightFits
<1>3. /\ TablesFit(linked) /\ linked.bill = db.bill /\ linked.cand = db.cand
      /\ linked.kept = db.kept
      /\ DOMAIN linked.ledger = DOMAIN db.ledger
      /\ linked.ledger[d].debit = db.ledger[d].debit
      /\ linked.ledger[d].treatment = db.ledger[d].treatment
      /\ \A e \in DOMAIN db.ledger \ {d} : linked.ledger[e] = db.ledger[e]
  <2> HIDE DEF d, f
  <2> QED BY <1>2, LinkWrites DEF BillsInv
<1>4. Saved(db, new, b, f.bill) /\ new.kept = db.kept
  <2>1. DOMAIN Rows({d}, "confirmed") \subseteq DOMAIN linked.ledger
    BY <1>2, <1>3 DEF Rows
  <2>2. \A e \in DOMAIN db.ledger : /\ linked.ledger[e].treatment = db.ledger[e].treatment
                                    /\ linked.ledger[e].debit = db.ledger[e].debit
                                    /\ linked.ledger[e].credit = db.ledger[e].credit \/ e = d
    BY <1>3
  <2>9. /\ d \in DOMAIN Rows({d}, "confirmed")
        /\ \A e \in DOMAIN Rows({d}, "confirmed") : Rows({d}, "confirmed")[e] = "confirmed"
    BY DEF Rows
  <2>3. PICK y : y = MarkPaid(f.bill, d)
    OBVIOUS
  <2>4. PICK live : live = Rows({d}, "confirmed")
    OBVIOUS
  <2>5. PICK t : t = SaveBill(LockSystemExclusions(linked, d), b, y, live)
    OBVIOUS
  <2>6. t = new
    BY <2>3, <2>4, <2>5
  <2> HIDE DEF linked, d, f, new
  <2>7. /\ IsBill(y) /\ y.status = "paid" /\ y.payoff = d
        /\ y.row = f.bill.row /\ y.version = f.bill.version
    BY <1>2, <2>3, PaidColumns
  <2>8. Saved(db, t, b, f.bill) /\ t.kept = db.kept
    <3>1. PICK q : q = linked
      OBVIOUS
    <3>2. PICK e : e = d
      OBVIOUS
    <3>3. PICK x : x = f.bill
      OBVIOUS
    <3>4. /\ TablesFit(q) /\ q.bill = db.bill /\ q.cand = db.cand /\ q.kept = db.kept
          /\ DOMAIN q.ledger = DOMAIN db.ledger
      BY <1>3, <3>1
    <3>5. /\ e \in DOMAIN q.ledger /\ DOMAIN live \subseteq DOMAIN q.ledger
          /\ e \in DOMAIN live /\ \A a \in DOMAIN live : live[a] = "confirmed"
      BY <1>2, <1>3, <2>1, <2>4, <2>9, <3>1, <3>2
    <3>6. \A a \in DOMAIN db.ledger : /\ q.ledger[a].treatment = db.ledger[a].treatment
                                      /\ q.ledger[a].debit = db.ledger[a].debit
                                      /\ \/ q.ledger[a].credit = db.ledger[a].credit
                                         \/ a = e /\ e \in DOMAIN live
      BY <2>2, <3>1, <3>2, <3>5
    <3>7. /\ IsBill(y) /\ y.status = "paid" /\ y.payoff = e
          /\ y.row = x.row /\ y.version = x.version
      BY <2>7, <3>2, <3>3
    <3>8. t = SaveBill(LockSystemExclusions(q, e), b, y, live)
      BY <2>5, <3>1, <3>2
    <3>9. Saved(db, t, b, x) /\ t.kept = db.kept
      BY <3>4, <3>5, <3>6, <3>7, <3>8, PaidSaved
    <3> QED BY <3>3, <3>9
  <2> QED BY <2>6, <2>8
<1> HIDE DEF new
<1>5. Paid(new)
  BY <1>1, <1>4, PaidCommit DEF BillsInv
<1>6. ChoicesDiffer(new)
  BY <1>1 DEF Legal
<1> QED BY <1>1, <1>2, <1>4, <1>5, <1>6, SucceedFits

\* The requests whose transaction is one step.
LEMMA AtOnceFits ==
    ASSUME BillsInv, NEW i \in DOMAIN sent,
           SelectPayment(i) \/ PayInFull(i) \/ VoidBill(i)
    PROVE  BillsInv' /\ Took(i) /\ Wrote(sent[i].bill)
<1> DEFINE r == sent[i]
           b == r.bill
           x == db.bill[b]
<1>1. b \in Bills /\ IsBill(x)
  BY RequestedBill
<1>2. RequireVersion(db, r) /\ flight[b] = None /\ UNCHANGED flight
  BY DEF SelectPayment, PayInFull, VoidBill, Prepared, CommitAtOnce
<1>3. StillFlying(b)
  BY <1>2 DEF StillFlying, BillsInv
<1>4. ASSUME NEW new, NEW live, Saved(db, new, b, x), new.kept = db.kept,
             CommitAtOnce(i, new, live)
      PROVE  BillsInv' /\ Took(i) /\ Wrote(b)
  <2>1. Legal(new, b, Touched(db, b, live)) /\ Succeed(i, new, Shown(new, b))
    BY <1>4 DEF CommitAtOnce
  <2>2. Paid(new)
    BY <1>1, <1>4, <2>1, PaidCommit DEF BillsInv
  <2>3. ChoicesDiffer(new)
    BY <2>1 DEF Legal
  <2> QED BY <1>1, <1>2, <1>3, <1>4, <2>1, <2>2, <2>3, SucceedFits
<1>8. ASSUME NEW status \in {"unpaid", "void"}, NEW live, DOMAIN live \subseteq DOMAIN db.ledger,
             AreChoices(live),
             \A e \in DOMAIN live : live[e] = "selected" =>
                 status = "unpaid" /\ db.ledger[e].credit = None,
             CommitAtOnce(i, SaveBill(db, b, [x EXCEPT !.status = status], live), live)
      PROVE  BillsInv' /\ Took(i) /\ Wrote(b)
  <2>1. PICK y : y = [x EXCEPT !.status = status]
    OBVIOUS
  <2>2. IsBill(y) /\ y.status = status /\ y.row = x.row /\ y.version = x.version
    BY <1>1, <2>1, StatusColumn
  <2>3. PICK new : new = SaveBill(db, b, y, live)
    OBVIOUS
  <2>4. CommitAtOnce(i, new, live)
    BY <1>8, <2>1, <2>3
  <2>5. Saved(db, new, b, x) /\ new.kept = db.kept
    BY <1>1, <1>8, <2>2, <2>3, UnpaidSaved DEF BillsInv
  <2> QED BY <1>4, <2>4, <2>5
<1>5. CASE SelectPayment(i)
  <2> DEFINE live == Rows({r.arg}, "selected")
  <2>1. /\ r.arg \in AmbiguousCandidates(db, b)
        /\ CommitAtOnce(i, SaveBill(db, b, [x EXCEPT !.status = "unpaid"], live), live)
    BY <1>5 DEF SelectPayment
  <2>2. /\ DOMAIN live \subseteq DOMAIN db.ledger
        /\ \A e \in DOMAIN live : db.ledger[e].credit = None
        /\ AreChoices(live)
    <3>1. DOMAIN live = {r.arg} /\ AreChoices(live)
      BY DEF Rows, AreChoices
    <3>2. db.ledger[r.arg].credit = None
      BY <1>5 DEF SelectPayment, IsBankDebitCandidate
    <3> QED BY <1>1, <2>1, <3>1, <3>2, CandidatesAreKnown
  <2> HIDE DEF live
  <2>3. CommitAtOnce(i, SaveBill(db, b, [x EXCEPT !.status = "unpaid"], live), live)
    BY <2>1 DEF live
  <2> QED BY <1>8, <2>2, <2>3
<1>6. CASE VoidBill(i)
  <2>1. CommitAtOnce(i, SaveBill(db, b, [x EXCEPT !.status = "void"], NoRows), NoRows)
    BY <1>6 DEF VoidBill
  <2>2. DOMAIN NoRows = {} /\ AreChoices(NoRows)
    BY DEF NoRows, AreChoices
  <2> QED BY <1>8, <2>1, <2>2
<1>7. CASE PayInFull(i)
  <2> DEFINE d == CHOOSE t \in Unused : TRUE
             paying == NewTransfer(db, d, x.due)
             new == SaveBill(LockSystemExclusions(paying, d), b, MarkPaid(x, d), NoRows)
  <2>1. Unused # {} /\ CommitAtOnce(i, new, NoRows)
    BY <1>7 DEF PayInFull, PaidInFull
  <2>2. d \notin DOMAIN db.ledger /\ d \in Spare
    BY <2>1 DEF Unused
  <2> HIDE DEF d
  <2>3. /\ TablesFit(paying) /\ paying.bill = db.bill /\ paying.cand = db.cand
        /\ paying.kept = db.kept
        /\ DOMAIN paying.ledger = DOMAIN db.ledger \cup {d}
        /\ \A e \in DOMAIN db.ledger \ {d} : paying.ledger[e] = db.ledger[e]
    BY TransferWrites DEF BillsInv
  <2> HIDE DEF paying
  <2>4. DOMAIN NoRows = {}
    BY DEF NoRows
  <2>5. PICK y : y = MarkPaid(x, d)
    OBVIOUS
  <2>6. PICK t : t = SaveBill(LockSystemExclusions(paying, d), b, y, NoRows)
    OBVIOUS
  <2>7. CommitAtOnce(i, t, NoRows)
    BY <2>1, <2>5, <2>6
  <2> HIDE DEF new
  <2>8. /\ IsBill(y) /\ y.status = "paid" /\ y.payoff = d
        /\ y.row = x.row /\ y.version = x.version
    BY <1>1, <2>5, PaidColumns
  <2>9. Saved(db, t, b, x) /\ t.kept = db.kept
    BY <1>1, <2>2, <2>3, <2>4, <2>6, <2>8, PaidSaved
  <2> QED BY <1>4, <2>7, <2>9
<1> QED BY <1>5, <1>6, <1>7

\* A discarded bill leaves its row number behind.
LEMMA DiscardFits ==
    ASSUME BillsInv, NEW i \in DOMAIN sent, DiscardReviewBill(i)
    PROVE  BillsInv' /\ Took(i)
<1> DEFINE b == sent[i].bill
           new == [db EXCEPT !.bill[b] = Deleted(@), !.cand[b] = NoRows]
<1>1. b \in Bills /\ IsBill(db.bill[b])
  BY RequestedBill
<1>2. /\ flight[b] = None /\ UNCHANGED flight /\ RequireVersion(db, sent[i])
      /\ db' = Complete(new, sent[i], None) /\ Answered(i, None)
  BY DEF DiscardReviewBill, Prepared, Succeed
<1>3. /\ TablesFit(new)
      /\ new.ledger = db.ledger /\ new.open = db.open /\ new.kept = db.kept
      /\ new.bill[b].status = "absent" /\ new.bill[b].payoff = None
      /\ new.bill[b].row = db.bill[b].row
      /\ \A c \in Bills \ {b} : new.bill[c] = db.bill[c] /\ new.cand[c] = db.cand[c]
  <2> HIDE DEF b
  <2> QED BY <1>1, DiscardWrites DEF BillsInv
<1> HIDE DEF new
<1>4. TablesFit(db') /\ SameBills(new, db')
  BY <1>2, <1>3, CompleteWrites
<1>5. Paid(new)
  <2>1. ASSUME NEW c \in Bills PROVE new.bill[c] = db.bill[c] \/ new.bill[c].payoff = None
    BY <1>3
  <2>2. ASSUME NEW c \in Bills PROVE new.bill[c] = db.bill[c] \/ new.bill[c].status # "paid"
    BY <1>3
  <2> QED BY <1>3, <2>1, <2>2 DEF BillsInv, Paid, PayoffsDiffer
<1>6. Paid(db)'
  BY <1>4, <1>5, SamePaid
<1>7. SentFit(sent') /\ Keeps(sent, sent') /\ DOMAIN sent' = DOMAIN sent
  BY <1>2, AnsweredKeeps DEF BillsInv
<1>8. ASSUME NEW j \in DOMAIN sent' PROVE Seen(db', sent'[j])
  <2>1. /\ IsRequest(sent[j]) /\ Seen(db, sent[j])
        /\ sent'[j].bill = sent[j].bill /\ sent'[j].view = sent[j].view
    BY <1>7 DEF BillsInv, SentFit, Keeps
  <2>2. CASE sent[j].bill # b
    <3>1. sent[j].bill \in Bills
      BY <2>1 DEF IsRequest
    <3> QED BY <1>3, <1>4, <2>1, <2>2, <3>1, SeenKept DEF SameBills
  <2>3. CASE sent[j].bill = b
    BY <1>3, <1>4, <2>1, <2>3 DEF SameBills, Seen
  <2> QED BY <2>2, <2>3
<1>9. ASSUME NEW c \in Bills, flight'[c] # None PROVE FlightFits(flight'[c], c, db', sent')
  <2>1. c # b /\ FlightFits(flight[c], c, db, sent) /\ flight'[c] = flight[c]
    BY <1>2, <1>9 DEF BillsInv
  <2>2. db'.bill[c] = db.bill[c] /\ DOMAIN db'.ledger = DOMAIN db.ledger
    BY <1>3, <1>4, <2>1 DEF SameBills
  <2> QED BY <1>7, <2>1, <2>2, FlightKept
<1>10. Took(i)
  <2>1. /\ db'.bill[b].row = db.bill[b].row /\ db'.bill[b].status = "absent"
        /\ \A c \in Bills \ {b} : db'.bill[c] = db.bill[c]
    BY <1>3, <1>4 DEF SameBills
  <2>2. IF sent[i].op \in Keyed
        THEN /\ DOMAIN db'.kept = DOMAIN db.kept \cup {Record(sent[i])}
             /\ db'.kept[Record(sent[i])].digest = Digest(sent[i])
             /\ db'.kept[Record(sent[i])].answer = None
             /\ \A k \in DOMAIN db.kept \ {Record(sent[i])} : db'.kept[k] = db.kept[k]
        ELSE db'.kept = db.kept
    BY <1>2, <1>3, CompleteWrites
  <2> QED BY <1>1, <1>2, <2>1, <2>2 DEF Took
<1>11. BillsInv'
  BY <1>2, <1>4, <1>6, <1>7, <1>8, <1>9 DEF BillsInv
<1> QED BY <1>10, <1>11

\* A client corrects a header to an amount.
LEMMA AskedAmounts ==
    ASSUME NEW b, NEW ask \in Asked(b)
    PROVE  ask.op = "correct" => ask.arg \in Amounts
BY DEF Asked

\* A client sends what it sees.
LEMMA SendFits ==
    ASSUME BillsInv, NEW b \in Bills, NEW ask \in Asked(b), NEW key, Send(b, ask, key)
    PROVE  BillsInv'
<1> DEFINE view == Shown(db, b)
           r == [op |-> ask.op, bill |-> b, arg |-> ask.arg, key |-> key, view |-> view,
                 effects |-> 0, answers |-> {}]
<1>1. sent' = Append(sent, r) /\ UNCHANGED <<db, flight>>
  BY DEF Send
<1>2. view.bill = db.bill[b] /\ IsBill(db.bill[b])
  BY DEF Shown, BillsInv, TablesFit
<1>3. /\ r = [op |-> r.op, bill |-> r.bill, arg |-> r.arg, key |-> r.key, view |-> r.view,
              effects |-> r.effects, answers |-> r.answers]
      /\ r.bill = b /\ r.view = view /\ r.effects = 0 /\ r.op = ask.op /\ r.arg = ask.arg
  OBVIOUS
<1>4. /\ view.bill.row \in Nat /\ view.bill.version \in Nat
      /\ ask.op = "correct" => ask.arg \in Amounts
  BY <1>2, AskedAmounts DEF IsBill
<1> HIDE DEF view, r
<1>5. IsRequest(r)
  BY <1>3, <1>4 DEF IsRequest
<1>6. Seen(db, r)
  BY <1>2, <1>3, <1>4 DEF Seen, view
<1>7. /\ SentFit(sent') /\ Keeps(sent, sent')
      /\ \A i \in DOMAIN sent' : IF i \in DOMAIN sent THEN sent'[i] = sent[i]
                                                      ELSE sent'[i] = r
  BY <1>1, <1>5, SendKeeps DEF BillsInv
<1>8. ASSUME NEW i \in DOMAIN sent' PROVE Seen(db', sent'[i])
  BY <1>1, <1>6, <1>7 DEF BillsInv
<1>9. ASSUME NEW c \in Bills, flight'[c] # None PROVE FlightFits(flight'[c], c, db', sent')
  <2>1. FlightFits(flight[c], c, db, sent) /\ flight'[c] = flight[c]
    BY <1>1, <1>9 DEF BillsInv
  <2> QED BY <1>1, <1>7, <2>1, FlightKept
<1> QED BY <1>1, <1>7, <1>8, <1>9 DEF BillsInv

\* What the user does to the ledger leaves paid bills paid.
LEMMA LedgerFits ==
    ASSUME BillsInv, TablesFit(db'), Paid(db)', db'.bill = db.bill, db'.cand = db.cand,
           DOMAIN db.ledger \subseteq DOMAIN db'.ledger, UNCHANGED <<sent, flight>>
    PROVE  BillsInv'
<1>1. Keeps(sent, sent') /\ SentFit(sent')
  BY DEF Keeps, BillsInv
<1> QED BY <1>1, RestFits

\* A row of the ledger that is written.
LEMMA RowWrites ==
    ASSUME NEW s, TablesFit(s), NEW d \in DOMAIN s.ledger, NEW y, IsLedgerRow(y),
           NEW t, t = [s EXCEPT !.ledger[d] = y]
    PROVE  /\ TablesFit(t) /\ t.bill = s.bill /\ t.cand = s.cand
           /\ DOMAIN t.ledger = DOMAIN s.ledger /\ t.ledger[d] = y
           /\ \A e \in DOMAIN s.ledger \ {d} : t.ledger[e] = s.ledger[e]
<1>1. /\ t.ledger = [s.ledger EXCEPT ![d] = y] /\ t.bill = s.bill /\ t.cand = s.cand
      /\ t.open = s.open /\ t.pinned = s.pinned /\ t.kept = s.kept
  BY DEF TablesFit
<1>2. DOMAIN t.ledger = DOMAIN s.ledger /\ t.ledger[d] = y
  BY <1>1 DEF TablesFit
<1>3. \A e \in DOMAIN s.ledger \ {d} : t.ledger[e] = s.ledger[e]
  BY <1>1 DEF TablesFit
<1> QED BY <1>1, <1>2, <1>3 DEF TablesFit

\* An edit that the trigger of the transactions lets pass.
LEMMA EditFits ==
    ASSUME BillsInv, NEW d \in DOMAIN db.ledger, NEW amount, EditAmount(d, amount)
    PROVE  BillsInv'
<1>1. PICK old : old = db.ledger[d]
  OBVIOUS
<1>2. PICK y : y = [old EXCEPT !.debit = amount]
  OBVIOUS
<1>3. IsLedgerRow(old)
  BY <1>1 DEF BillsInv, TablesFit
<1>4. IsLedgerRow(y) /\ y.credit = old.credit /\ y.treatment = old.treatment
  BY <1>2, <1>3 DEF IsLedgerRow
<1>5. /\ db' = [db EXCEPT !.ledger[d].debit = amount] /\ EditIsLegal(db', d)
      /\ UNCHANGED <<sent, flight>>
  BY DEF EditAmount, Touch
<1>6. db' = [db EXCEPT !.ledger[d] = y]
  BY <1>1, <1>2, <1>5 DEF BillsInv, TablesFit
<1>7. /\ TablesFit(db') /\ db'.bill = db.bill /\ db'.cand = db.cand
      /\ DOMAIN db'.ledger = DOMAIN db.ledger /\ db'.ledger[d] = y
      /\ \A e \in DOMAIN db.ledger \ {d} : db'.ledger[e] = db.ledger[e]
  BY <1>4, <1>6, RowWrites DEF BillsInv
<1>8. ASSUME NEW b \in Bills, db.bill[b].payoff = d, d # None
      PROVE  y.debit = db.bill[b].due /\ y.credit = db.bill[b].due /\ y.treatment = "system"
  <2>1. BillIsValid(db', b)
    BY <1>5, <1>7, <1>8 DEF EditIsLegal
  <2>2. y.debit = db.bill[b].due
    BY <1>7, <1>8, <2>1 DEF BillIsValid
  <2> QED BY <1>1, <1>4, <1>8, <2>2 DEF BillsInv, Paid
<1>9. ASSUME NEW b \in Bills, db.bill[b].payoff # None
      PROVE  LET e == db.bill[b].payoff
             IN  /\ e \in DOMAIN db'.ledger
                 /\ db'.ledger[e].debit = db.bill[b].due /\ db'.ledger[e].credit = db.bill[b].due
                 /\ db'.ledger[e].treatment = "system"
  <2>1. CASE db.bill[b].payoff = d
    BY <1>7, <1>8, <1>9, <2>1
  <2>2. CASE db.bill[b].payoff # d
    BY <1>7, <1>9, <2>2 DEF BillsInv, Paid
  <2> QED BY <2>1, <2>2
<1>10. Paid(db)'
  BY <1>7, <1>9 DEF BillsInv, Paid, PayoffsDiffer
<1> QED BY <1>5, <1>7, <1>10, LedgerFits

\* A treatment of the user's never replaces the system's.
LEMMA TreatFits ==
    ASSUME BillsInv, NEW d \in DOMAIN db.ledger, Treat(d)
    PROVE  BillsInv'
<1>1. PICK old : old = db.ledger[d]
  OBVIOUS
<1>2. PICK y : y = [old EXCEPT !.treatment = "user"]
  OBVIOUS
<1>3. IsLedgerRow(old)
  BY <1>1 DEF BillsInv, TablesFit
<1>4. IsLedgerRow(y)
  BY <1>2, <1>3 DEF IsLedgerRow
<1>5. /\ db' = [db EXCEPT !.ledger[d].treatment = "user"] /\ old.treatment # "system"
      /\ UNCHANGED <<sent, flight>>
  BY <1>1 DEF Treat, Touch
<1>6. db' = [db EXCEPT !.ledger[d] = y]
  BY <1>1, <1>2, <1>5 DEF BillsInv, TablesFit
<1>7. /\ TablesFit(db') /\ db'.bill = db.bill /\ db'.cand = db.cand
      /\ DOMAIN db'.ledger = DOMAIN db.ledger
      /\ \A e \in DOMAIN db.ledger \ {d} : db'.ledger[e] = db.ledger[e]
  BY <1>4, <1>6, RowWrites DEF BillsInv
<1>8. ASSUME NEW b \in Bills, db.bill[b].payoff # None
      PROVE  db.bill[b].payoff \in DOMAIN db.ledger \ {d}
  BY <1>1, <1>5, <1>8 DEF BillsInv, Paid
<1>9. Paid(db)'
  BY <1>7, <1>8 DEF BillsInv, Paid, PayoffsDiffer
<1> QED BY <1>5, <1>7, <1>9, LedgerFits

\* A transfer of the user is a new row, so it is the payoff of no bill.
LEMMA MakeTransferFits ==
    ASSUME BillsInv, NEW amount, MakeTransfer(amount)
    PROVE  BillsInv'
<1> DEFINE d == CHOOSE t \in Unused : TRUE
<1>1. Unused # {} /\ db' = NewTransfer(db, d, amount) /\ UNCHANGED <<sent, flight>>
  BY DEF MakeTransfer, Touch
<1>2. d \notin DOMAIN db.ledger
  BY <1>1 DEF Unused
<1> HIDE DEF d
<1>3. /\ TablesFit(db') /\ db'.bill = db.bill /\ db'.cand = db.cand
      /\ DOMAIN db'.ledger = DOMAIN db.ledger \cup {d}
      /\ \A e \in DOMAIN db.ledger \ {d} : db'.ledger[e] = db.ledger[e]
  BY <1>1, TransferWrites DEF BillsInv
<1>4. Paid(db)'
  BY <1>2, <1>3 DEF BillsInv, Paid, PayoffsDiffer
<1> QED BY <1>1, <1>3, <1>4, LedgerFits

\* Records that expire and the account that is archived.
LEMMA AsideFits ==
    ASSUME BillsInv, Archive \/ \E record : Expire(record)
    PROVE  BillsInv'
<1>1. /\ UNCHANGED <<sent, flight>>
      /\ \E x : db' = [db EXCEPT !.open = x] \/ db' = [db EXCEPT !.kept = x]
  BY DEF Archive, Expire, Touch
<1>2. /\ db' = [bill |-> db'.bill, cand |-> db'.cand, pinned |-> db'.pinned,
                ledger |-> db'.ledger, open |-> db'.open, kept |-> db'.kept]
      /\ db'.bill = db.bill /\ db'.cand = db.cand /\ db'.ledger = db.ledger
      /\ db'.pinned = db.pinned
  BY <1>1 DEF BillsInv, TablesFit
<1>3. TablesFit(db') /\ Paid(db)'
  BY <1>2 DEF BillsInv, TablesFit, Paid, PayoffsDiffer
<1> QED BY <1>1, <1>2, <1>3, LedgerFits

\* Before the first projection there is nothing to hold.
LEMMA InitFits == Init => BillsInv
<1> SUFFICES ASSUME Init PROVE BillsInv
  OBVIOUS
<1>1. PICK statement, amount, tx, kept :
        /\ statement \in [Bills -> Statements]
        /\ db = [bill |-> [b \in Bills |-> Absent], cand |-> [b \in Bills |-> NoRows],
                 pinned |-> [b \in Bills |-> [due |-> statement[b].due, tx |-> tx[b],
                                              lines |-> statement[b].lines,
                                              failed |-> statement[b].failed]],
                 ledger |-> [d \in Debits |-> [debit |-> amount[d], credit |-> None,
                                               treatment |-> "none"]],
                 open |-> TRUE, kept |-> kept]
  BY DEF Init
<1>2. /\ db.bill = [b \in Bills |-> Absent] /\ db.cand = [b \in Bills |-> NoRows]
      /\ db.ledger = [d \in Debits |-> [debit |-> amount[d], credit |-> None,
                                        treatment |-> "none"]]
      /\ db = [bill |-> db.bill, cand |-> db.cand, pinned |-> db.pinned, ledger |-> db.ledger,
               open |-> db.open, kept |-> db.kept]
  BY <1>1
<1>3. /\ IsBill(Absent) /\ Absent.payoff = None /\ Absent.status = "absent"
      /\ DOMAIN NoRows = {} /\ AreChoices(NoRows)
  BY DEF IsBill, Absent, NoRows, AreChoices
<1>4. TablesFit(db)
  <2>1. \A d \in DOMAIN db.ledger : IsLedgerRow(db.ledger[d])
    BY <1>2 DEF IsLedgerRow
  <2>2. /\ db.pinned = [b \in Bills |-> db.pinned[b]]
        /\ \A b \in Bills : IsPinned(db.pinned[b])
    <3>1. \A b \in Bills : statement[b].due \in Amounts \cup {None}
      BY <1>1, BillsAssumption
    <3>2. db.pinned = [b \in Bills |-> [due |-> statement[b].due, tx |-> tx[b],
                                        lines |-> statement[b].lines,
                                        failed |-> statement[b].failed]]
      BY <1>1
    <3> QED BY <3>1, <3>2 DEF IsPinned
  <2> QED BY <1>2, <1>3, <2>1, <2>2 DEF TablesFit
<1>5. Paid(db)
  BY <1>2, <1>3 DEF Paid, PayoffsDiffer
<1>6. sent = <<>> /\ flight = [b \in Bills |-> None]
  BY DEF Init
<1>7. SentFit(sent) /\ DOMAIN sent = {}
  BY <1>6 DEF SentFit
<1> QED BY <1>4, <1>5, <1>6, <1>7 DEF BillsInv

\* Every step keeps tables, requests and transactions together.
LEMMA BillsStep == BillsInv /\ [Next]_vars => BillsInv'
<1> SUFFICES ASSUME BillsInv, [Next]_vars PROVE BillsInv'
  OBVIOUS
<1>1. ASSUME NEW b \in Bills, Project(b) \/ CommitSearch(b) \/ CommitConfirm(b) PROVE BillsInv'
  BY <1>1, ProjectFits, CommitSearchFits, CommitConfirmFits
<1>2. ASSUME UNCHANGED <<db, sent>>, UNCHANGED flight \/ \E b \in Bills : StillFlying(b)
      PROVE  BillsInv'
  <2>1. TablesFit(db') /\ Paid(db)' /\ SentFit(sent') /\ Keeps(sent, sent')
    BY <1>2 DEF BillsInv, Keeps
  <2> QED BY <1>2, <2>1, RestFits
<1>3. ASSUME NEW b \in Bills, Rollback(b) PROVE BillsInv'
  BY <1>2, <1>3, LandKeeps DEF Rollback, BillsInv
<1>4. ASSUME NEW i \in DOMAIN sent, Replay(i) PROVE BillsInv'
  <2>1. UNCHANGED <<db, flight>>
    BY <1>4 DEF Replay
  <2>2. TablesFit(db') /\ Paid(db)'
    BY <2>1 DEF BillsInv
  <2> QED BY <1>4, <2>1, <2>2, ReplayKeeps, RestFits DEF BillsInv
<1>5. ASSUME NEW i \in DOMAIN sent, Handle(i) PROVE BillsInv'
  BY <1>4, <1>5, MutateFits, ConfirmFits, AtOnceFits, DiscardFits DEF Handle
<1>6. CASE User
  <2>1. ASSUME NEW b \in Bills, NEW ask \in Asked(b), NEW key, Send(b, ask, key)
        PROVE  BillsInv'
    BY <2>1, SendFits
  <2> QED BY <1>6, <2>1, TreatFits, EditFits, MakeTransferFits, AsideFits DEF User
<1>7. CASE UNCHANGED vars
  BY <1>2, <1>7 DEF vars
<1> QED BY <1>1, <1>3, <1>5, <1>6, <1>7, AsideFits DEF Next

\* In every behaviour tables, requests and transactions belong together.
LEMMA BillsAlways == Spec => []BillsInv
BY InitFits, BillsStep, PTL DEF Spec

\* Rows keep to the states the code knows, and a bill never has two payment
\* candidates a client could confirm.
THEOREM RowsStayTyped == Spec => []TypeOK
<1>1. BillsInv => TypeOK
  <2> SUFFICES ASSUME BillsInv PROVE TypeOK
    OBVIOUS
  <2>1. ASSUME NEW b \in Bills PROVE Cardinality(PaymentCandidate(db, b)) <= 1
    <3>1. \A d, e \in PaymentCandidate(db, b) : d = e
      BY DEF PaymentCandidate, Live, BillsInv, TablesFit, AreChoices
    <3>2. PaymentCandidate(db, b) = {} \/ \E d : PaymentCandidate(db, b) = {d}
      BY <3>1
    <3>3. CASE PaymentCandidate(db, b) = {}
      BY <3>3, FS_EmptySet
    <3>4. CASE \E d : PaymentCandidate(db, b) = {d}
      <4>1. PICK d : PaymentCandidate(db, b) = {d}
        BY <3>4
      <4>2. Cardinality({d}) = 1
        BY FS_Singleton
      <4> QED BY <4>1, <4>2
    <3> QED BY <3>2, <3>3, <3>4
  <2>2. ASSUME NEW b \in Bills
        PROVE  /\ IsBill(db.bill[b]) /\ AreChoices(db.cand[b])
               /\ DOMAIN db.cand[b] \subseteq DOMAIN db.ledger
    BY DEF BillsInv, TablesFit
  <2>3. \A d \in DOMAIN db.ledger : IsLedgerRow(db.ledger[d])
    BY DEF BillsInv, TablesFit
  <2> QED BY <2>1, <2>2, <2>3 DEF TypeOK, IsBill, AreChoices, IsLedgerRow
<1> QED BY <1>1, BillsAlways, PTL

\* A paid bill stays paid by an exact transfer of its own that is excluded
\* from the totals, whatever requests, projections and edits overlap.
THEOREM PaidStaysPaid == Spec => []PaidIsExactAndExcluded
<1>1. BillsInv => PaidIsExactAndExcluded
  BY DEF BillsInv, Paid, PayoffsDiffer, PaidIsExactAndExcluded
<1> QED BY <1>1, BillsAlways, PTL

\* A request takes effect only on the bill its client was shown: the version
\* it names is still the present one when its transaction commits.
THEOREM EffectsAreInformed == Spec => DecisionsAreInformed
<1> DEFINE Informed == \A i \in DOMAIN sent : sent'[i].effects > sent[i].effects =>
                           Shown(db, sent[i].bill) = sent[i].view
<1>1. ASSUME BillsInv, NEW i \in DOMAIN sent, NEW answer, Answered(i, answer),
             RequireVersion(db, sent[i])
      PROVE  Informed
  <2>1. Shown(db, sent[i].bill) = sent[i].view
    <3>1. Seen(db, sent[i])
      BY <1>1 DEF BillsInv
    <3>2. /\ sent[i].view.bill.row = db.bill[sent[i].bill].row
          /\ sent[i].view.bill.version = db.bill[sent[i].bill].version
          /\ db.bill[sent[i].bill].status # "absent"
      BY <1>1 DEF RequireVersion
    <3> QED BY <3>1, <3>2 DEF Seen
  <2>2. \A j \in DOMAIN sent \ {i} : sent'[j] = sent[j]
    BY <1>1, AnsweredKeeps DEF BillsInv
  <2>3. \A j \in DOMAIN sent : sent[j].effects \in Nat
    BY <1>1 DEF BillsInv, SentFit, IsRequest
  <2> QED BY <2>1, <2>2, <2>3
<1>2. ASSUME BillsInv, \A j \in DOMAIN sent : sent'[j].effects = sent[j].effects PROVE Informed
  <2>1. \A j \in DOMAIN sent : sent[j].effects \in Nat
    BY <1>2 DEF BillsInv, SentFit, IsRequest
  <2> QED BY <1>2, <2>1
<1> HIDE DEF Informed
<1>3. ASSUME BillsInv, NEW b \in Bills, CommitSearch(b) \/ CommitConfirm(b) PROVE Informed
  <2> DEFINE f == flight[b]
  <2>1. FlightFits(f, b, db, sent)
    BY <1>3 DEF BillsInv, CommitSearch, CommitConfirm
  <2>2. \/ UNCHANGED sent
        \/ f.by # 0 /\ \E answer : Answered(f.by, answer)
    <3>1. CASE CommitConfirm(b)
      BY <3>1 DEF CommitConfirm, Succeed
    <3>2. CASE CommitSearch(b)
      <4>1. PICK new, answer : IF f.by = 0 THEN db' = new /\ UNCHANGED sent
                               ELSE Succeed(f.by, new, answer)
        BY <3>2 DEF CommitSearch
      <4> QED BY <4>1 DEF Succeed
    <3> QED BY <1>3, <3>1, <3>2
  <2>3. CASE UNCHANGED sent
    BY <1>2, <1>3, <2>3
  <2>4. CASE f.by # 0 /\ \E answer : Answered(f.by, answer)
    <3>1. f.by \in DOMAIN sent /\ RequireVersion(db, sent[f.by])
      BY <2>1, <2>4 DEF FlightFits
    <3> QED BY <1>1, <1>3, <2>4, <3>1
  <2> QED BY <2>2, <2>3, <2>4
<1>4. ASSUME BillsInv, NEW i \in DOMAIN sent, Handle(i) PROVE Informed
  <2>1. CASE Mutate(i) \/ Confirm(i)
    BY <1>2, <1>4, <2>1 DEF Mutate, Confirm
  <2>2. CASE SelectPayment(i) \/ PayInFull(i) \/ VoidBill(i) \/ DiscardReviewBill(i)
    <3>1. RequireVersion(db, sent[i]) /\ \E answer : Answered(i, answer)
      BY <2>2 DEF SelectPayment, PayInFull, VoidBill, DiscardReviewBill, Prepared,
                  CommitAtOnce, Succeed
    <3> QED BY <1>1, <1>4, <3>1
  <2>3. CASE Replay(i)
    BY <1>2, <1>4, <2>3, ReplayKeeps DEF BillsInv
  <2> QED BY <1>4, <2>1, <2>2, <2>3 DEF Handle
<1>5. ASSUME BillsInv, User PROVE Informed
  <2>1. ASSUME NEW b \in Bills, NEW ask, NEW key, Send(b, ask, key) PROVE Informed
    <3>1. PICK r : sent' = Append(sent, r)
      BY <2>1 DEF Send
    <3>2. \A j \in DOMAIN sent : sent'[j] = sent[j]
      <4> DEFINE S == {sent[j] : j \in DOMAIN sent} \cup {r}
      <4>1. sent \in Seq(S) /\ r \in S
        BY <1>5 DEF BillsInv, SentFit
      <4> HIDE DEF S
      <4> QED BY <3>1, <4>1, AppendProperties, LenProperties
    <3> QED BY <1>2, <1>5, <3>2
  <2>2. CASE UNCHANGED sent
    BY <1>2, <1>5, <2>2
  <2> QED BY <1>5, <2>1, <2>2 DEF User, Treat, EditAmount, MakeTransfer, Archive, Touch
<1>6. BillsInv /\ [Next]_vars => Informed
  <2>1. BillsInv /\ UNCHANGED sent => Informed
    BY <1>2
  <2>2. \/ \E b \in Bills : Project(b) \/ Rollback(b)
        \/ \E record : Expire(record)
        \/ UNCHANGED vars
        => UNCHANGED sent
    BY DEF Project, Rollback, Expire, vars
  <2> QED BY <1>3, <1>4, <1>5, <2>1, <2>2 DEF Next
<1>7. BillsInv /\ [Next]_vars =>
        [\A i \in DOMAIN sent : sent'[i].effects > sent[i].effects =>
             Shown(db, sent[i].bill) = sent[i].view]_vars
  BY <1>6 DEF Informed
<1> QED BY <1>7, BillsAlways, PTL DEF Spec, DecisionsAreInformed

----------------------------------------------------------------------------
\* The version a request names has passed, and can not come back.
Spent(s, r) ==
    LET bill == s.bill[r.bill]
    IN  \/ r.view.bill.row < bill.row
        \/ /\ r.view.bill.row = bill.row
           /\ bill.status = "absent" \/ r.view.bill.version < bill.version

\* A request that had its effect or an answer is spent, one answer is all it
\* has, and the idempotency records are of such requests.
Repeats(s, q) ==
    /\ \A i \in DOMAIN q :
         /\ q[i].effects \in {0, 1}
         /\ q[i].answers = {} \/ \E answer : q[i].answers = {answer}
         /\ q[i].effects = 1 \/ q[i].answers # {} => Spent(s, q[i])
    /\ \A k \in DOMAIN s.kept :
         /\ \E i \in DOMAIN q : Spent(s, q[i]) /\ s.kept[k].digest = Digest(q[i])
         /\ \A i \in DOMAIN q : Record(q[i]) = k /\ s.kept[k].digest = Digest(q[i]) =>
                                    q[i].answers \subseteq {s.kept[k].answer}

\* Requests with one digest are spent together.
LEMMA SameDigest ==
    ASSUME NEW s, NEW r, NEW q, Digest(q) = Digest(r), Spent(s, r)
    PROVE  Spent(s, q)
<1>1. q.bill = r.bill /\ q.view.bill.row = r.view.bill.row
      /\ q.view.bill.version = r.view.bill.version
  BY DEF Digest
<1> QED BY <1>1 DEF Spent

\* A request that can take effect is not spent.
LEMMA NotSpent ==
    ASSUME NEW s, NEW r, TablesFit(s), IsRequest(r), RequireVersion(s, r)
    PROVE  ~Spent(s, r)
<1>1. s.bill[r.bill].row \in Nat /\ s.bill[r.bill].version \in Nat
  BY DEF TablesFit, IsBill, IsRequest
<1> QED BY <1>1 DEF Spent, RequireVersion

\* Rows and versions go up, in a step that takes a request or projects.
LEMMA SpentStays ==
    ASSUME BillsInv,
           \/ db'.bill = db.bill
           \/ \E b \in Bills : Projected(b)
           \/ \E i : Took(i),
           NEW r, IsRequest(r), NEW p, p.bill = r.bill, p.view = r.view, Spent(db, r)
    PROVE  Spent(db', p)
<1> DEFINE b == r.bill
<1>1. /\ b \in Bills /\ db.bill[b].row \in Nat /\ db.bill[b].version \in Nat
      /\ r.view.bill.row \in Nat /\ r.view.bill.version \in Nat
  BY DEF BillsInv, TablesFit, IsBill, IsRequest
<1>2. CASE db'.bill[b] = db.bill[b]
  BY <1>2 DEF Spent
<1>3. CASE db'.bill[b].row = db.bill[b].row + 1
  BY <1>1, <1>3 DEF Spent
<1>4. CASE /\ db'.bill[b].row = db.bill[b].row /\ db.bill[b].status # "absent"
           /\ \/ db'.bill[b].status = "absent"
              \/ db'.bill[b].version = db.bill[b].version + 1
  BY <1>1, <1>4 DEF Spent
<1>5. ASSUME NEW c \in Bills, Projected(c)
      PROVE  db'.bill[b] = db.bill[b] \/ db'.bill[b].row = db.bill[b].row + 1
  BY <1>1, <1>5 DEF Projected
<1>6. ASSUME NEW i, Took(i)
      PROVE  \/ db'.bill[b] = db.bill[b]
             \/ /\ db'.bill[b].row = db.bill[b].row /\ db.bill[b].status # "absent"
                /\ \/ db'.bill[b].status = "absent"
                   \/ db'.bill[b].version = db.bill[b].version + 1
  BY <1>1, <1>6 DEF Took, RequireVersion
<1> QED BY <1>2, <1>3, <1>4, <1>5, <1>6

\* Steps that answer nothing; records may expire.
LEMMA QuietRepeats ==
    ASSUME BillsInv, Repeats(db, sent), UNCHANGED sent,
           db'.bill = db.bill \/ \E b \in Bills : Projected(b),
           DOMAIN db'.kept \subseteq DOMAIN db.kept,
           \A k \in DOMAIN db'.kept : db'.kept[k] = db.kept[k]
    PROVE  Repeats(db, sent)'
<1>1. ASSUME NEW i \in DOMAIN sent, Spent(db, sent[i]) PROVE Spent(db', sent[i])
  BY <1>1, SpentStays DEF BillsInv, SentFit
<1> HIDE DEF Spent
<1>2. ASSUME NEW i \in DOMAIN sent
      PROVE  /\ sent[i].effects \in {0, 1}
             /\ sent[i].answers = {} \/ \E answer : sent[i].answers = {answer}
             /\ sent[i].effects = 1 \/ sent[i].answers # {} => Spent(db', sent[i])
  BY <1>1 DEF Repeats
<1>3. ASSUME NEW k \in DOMAIN db'.kept
      PROVE  /\ \E i \in DOMAIN sent : /\ Spent(db', sent[i])
                                       /\ db'.kept[k].digest = Digest(sent[i])
             /\ \A i \in DOMAIN sent :
                    Record(sent[i]) = k /\ db'.kept[k].digest = Digest(sent[i]) =>
                        sent[i].answers \subseteq {db'.kept[k].answer}
  BY <1>1, <1>3 DEF Repeats
<1> QED BY <1>2, <1>3 DEF Repeats

\* A request takes effect: it was not spent, so nothing had answered it, nor
\* any other with its digest.
LEMMA TookRepeats ==
    ASSUME BillsInv, Repeats(db, sent), NEW i, Took(i)
    PROVE  Repeats(db, sent)'
<1> DEFINE r == sent[i]
<1>1. PICK answer :
        /\ Answered(i, answer)
        /\ IF r.op \in Keyed
           THEN /\ DOMAIN db'.kept = DOMAIN db.kept \cup {Record(r)}
                /\ db'.kept[Record(r)].digest = Digest(r)
                /\ db'.kept[Record(r)].answer = answer
                /\ \A k \in DOMAIN db.kept \ {Record(r)} : db'.kept[k] = db.kept[k]
           ELSE db'.kept = db.kept
  BY DEF Took
<1>2. i \in DOMAIN sent /\ IsRequest(r) /\ ~Spent(db, r) /\ RequireVersion(db, r)
  BY NotSpent DEF Took, BillsInv, SentFit
<1>3. /\ Keeps(sent, sent') /\ DOMAIN sent' = DOMAIN sent
      /\ \A j \in DOMAIN sent \ {i} : sent'[j] = sent[j]
      /\ sent'[i].effects = r.effects + 1 /\ sent'[i].answers = r.answers \cup {answer}
  BY <1>1, <1>2, AnsweredKeeps DEF BillsInv
<1>4. sent'[i].effects = 1 /\ sent'[i].answers = {answer}
  BY <1>2, <1>3 DEF Repeats
<1>5. ASSUME NEW j \in DOMAIN sent, Spent(db, sent[j]) PROVE Spent(db', sent'[j])
  <2>1. IsRequest(sent[j]) /\ sent'[j].bill = sent[j].bill /\ sent'[j].view = sent[j].view
    BY <1>3 DEF BillsInv, SentFit, Keeps
  <2> QED BY <1>5, <2>1, SpentStays
<1>6. Spent(db', sent'[i])
  <2>1. /\ r.bill \in Bills /\ db'.bill[r.bill].row = db.bill[r.bill].row
        /\ \/ db'.bill[r.bill].status = "absent"
           \/ db'.bill[r.bill].version = db.bill[r.bill].version + 1
    BY DEF Took
  <2>2. /\ sent'[i].bill = r.bill /\ sent'[i].view = r.view
    BY <1>2, <1>3 DEF Keeps
  <2>3. db.bill[r.bill].version \in Nat
    BY <2>1 DEF BillsInv, TablesFit, IsBill
  <2> QED BY <1>2, <2>1, <2>2, <2>3 DEF Spent, RequireVersion
<1>7. ASSUME NEW j \in DOMAIN sent
      PROVE  Digest(sent'[j]) = Digest(sent[j]) /\ Record(sent'[j]) = Record(sent[j])
  BY <1>3 DEF Keeps, Digest, Record
<1>8. ASSUME NEW j \in DOMAIN sent'
      PROVE  /\ sent'[j].effects \in {0, 1}
             /\ sent'[j].answers = {} \/ \E a : sent'[j].answers = {a}
             /\ sent'[j].effects = 1 \/ sent'[j].answers # {} => Spent(db', sent'[j])
  <2>1. CASE j = i
    BY <1>4, <1>6, <2>1
  <2>2. CASE j # i
    <3>1. j \in DOMAIN sent /\ sent'[j] = sent[j]
      BY <1>3, <2>2
    <3>2. /\ sent[j].effects \in {0, 1}
          /\ sent[j].answers = {} \/ \E a : sent[j].answers = {a}
          /\ sent[j].effects = 1 \/ sent[j].answers # {} => Spent(db, sent[j])
      BY <3>1 DEF Repeats
    <3>3. Spent(db, sent[j]) => Spent(db', sent'[j])
      BY <1>5, <3>1
    <3> QED BY <3>1, <3>2, <3>3
  <2> QED BY <2>1, <2>2
<1>9. ASSUME NEW k \in DOMAIN db.kept, db'.kept[k] = db.kept[k]
      PROVE  /\ \E j \in DOMAIN sent' : /\ Spent(db', sent'[j])
                                        /\ db'.kept[k].digest = Digest(sent'[j])
             /\ \A j \in DOMAIN sent' :
                    Record(sent'[j]) = k /\ db'.kept[k].digest = Digest(sent'[j]) =>
                        sent'[j].answers \subseteq {db'.kept[k].answer}
  <2>1. PICK j \in DOMAIN sent : Spent(db, sent[j]) /\ db.kept[k].digest = Digest(sent[j])
    BY DEF Repeats
  <2>2. Spent(db', sent'[j]) /\ db'.kept[k].digest = Digest(sent'[j])
    BY <1>5, <1>7, <1>9, <2>1
  <2>3. Digest(r) # db.kept[k].digest
    BY <1>2, <2>1, SameDigest
  <2>4. ASSUME NEW l \in DOMAIN sent', Record(sent'[l]) = k,
               db'.kept[k].digest = Digest(sent'[l])
        PROVE  sent'[l].answers \subseteq {db'.kept[k].answer}
    <3>1. Record(sent[l]) = k /\ db.kept[k].digest = Digest(sent[l])
      BY <1>3, <1>7, <1>9, <2>4
    <3>2. l # i
      BY <2>3, <3>1
    <3> QED BY <1>3, <1>9, <3>1, <3>2 DEF Repeats
  <2> QED BY <1>3, <2>2, <2>4
<1>10. ASSUME r.op \in Keyed
       PROVE  LET k == Record(r)
              IN  /\ \E j \in DOMAIN sent' : /\ Spent(db', sent'[j])
                                             /\ db'.kept[k].digest = Digest(sent'[j])
                  /\ \A j \in DOMAIN sent' :
                         Record(sent'[j]) = k /\ db'.kept[k].digest = Digest(sent'[j]) =>
                             sent'[j].answers \subseteq {db'.kept[k].answer}
  <2>1. db'.kept[Record(r)].digest = Digest(r) /\ db'.kept[Record(r)].answer = answer
    BY <1>1, <1>10
  <2>2. Spent(db', sent'[i]) /\ Digest(sent'[i]) = Digest(r) /\ i \in DOMAIN sent'
    BY <1>2, <1>3, <1>6, <1>7
  <2>3. ASSUME NEW j \in DOMAIN sent', Digest(sent'[j]) = Digest(r)
        PROVE  sent'[j].answers \subseteq {answer}
    <3>1. CASE j = i
      BY <1>4, <3>1
    <3>2. CASE j # i
      <4>1. sent'[j] = sent[j] /\ Digest(sent[j]) = Digest(r) /\ j \in DOMAIN sent
        BY <1>3, <2>3, <3>2
      <4>2. ~Spent(db, sent[j])
        BY <1>2, <4>1, SameDigest
      <4> QED BY <4>1, <4>2 DEF Repeats
    <3> QED BY <3>1, <3>2
  <2> QED BY <2>1, <2>2, <2>3
<1>11. ASSUME NEW k \in DOMAIN db'.kept
       PROVE  /\ \E j \in DOMAIN sent' : /\ Spent(db', sent'[j])
                                         /\ db'.kept[k].digest = Digest(sent'[j])
              /\ \A j \in DOMAIN sent' :
                     Record(sent'[j]) = k /\ db'.kept[k].digest = Digest(sent'[j]) =>
                         sent'[j].answers \subseteq {db'.kept[k].answer}
  <2>1. CASE r.op \in Keyed /\ k = Record(r)
    BY <1>10, <2>1
  <2>2. CASE ~(r.op \in Keyed /\ k = Record(r))
    <3>1. k \in DOMAIN db.kept /\ db'.kept[k] = db.kept[k]
      BY <1>1, <1>11, <2>2
    <3> QED BY <1>9, <3>1
  <2> QED BY <2>1, <2>2
<1> QED BY <1>8, <1>11 DEF Repeats

\* A repeated request gets the answer of its record, which is the one it has.
LEMMA ReplayRepeats ==
    ASSUME BillsInv, Repeats(db, sent), NEW i \in DOMAIN sent, Replay(i)
    PROVE  Repeats(db, sent)'
<1> DEFINE r == sent[i]
           old == Record(r)
<1>1. old \in DOMAIN db.kept /\ db.kept[old].digest = Digest(r) /\ UNCHANGED db
  BY DEF Replay
<1>2. /\ Keeps(sent, sent') /\ DOMAIN sent' = DOMAIN sent
      /\ \A j \in DOMAIN sent : sent'[j].effects = sent[j].effects
      /\ \A j \in DOMAIN sent \ {i} : sent'[j] = sent[j]
      /\ sent'[i].answers = r.answers \cup {db.kept[old].answer}
  BY ReplayKeeps DEF BillsInv, StoredAnswer
<1>3. r.answers \subseteq {db.kept[old].answer}
  BY <1>1 DEF Repeats
<1>4. sent'[i].answers = {db.kept[old].answer}
  BY <1>2, <1>3
<1>5. Spent(db, r)
  <2>1. PICK j \in DOMAIN sent : Spent(db, sent[j]) /\ db.kept[old].digest = Digest(sent[j])
    BY <1>1 DEF Repeats
  <2> QED BY <1>1, <2>1, SameDigest
<1>6. ASSUME NEW j \in DOMAIN sent
      PROVE  /\ Digest(sent'[j]) = Digest(sent[j]) /\ Record(sent'[j]) = Record(sent[j])
             /\ Spent(db', sent'[j]) <=> Spent(db, sent[j])
  BY <1>1, <1>2 DEF Keeps, Digest, Record, Spent
<1>7. ASSUME NEW j \in DOMAIN sent'
      PROVE  /\ sent'[j].effects \in {0, 1}
             /\ sent'[j].answers = {} \/ \E a : sent'[j].answers = {a}
             /\ sent'[j].effects = 1 \/ sent'[j].answers # {} => Spent(db', sent'[j])
  <2>1. CASE j = i
    BY <1>2, <1>4, <1>5, <1>6, <2>1 DEF Repeats
  <2>2. CASE j # i
    BY <1>2, <1>6, <2>2 DEF Repeats
  <2> QED BY <2>1, <2>2
<1>8. ASSUME NEW k \in DOMAIN db.kept
      PROVE  \E j \in DOMAIN sent' : Spent(db', sent'[j]) /\ db.kept[k].digest = Digest(sent'[j])
  BY <1>2, <1>6 DEF Repeats
<1>9. ASSUME NEW k \in DOMAIN db.kept, NEW j \in DOMAIN sent', Record(sent'[j]) = k,
             db.kept[k].digest = Digest(sent'[j])
      PROVE  sent'[j].answers \subseteq {db.kept[k].answer}
  <2>1. CASE j = i
    BY <1>4, <1>6, <1>9, <2>1
  <2>2. CASE j # i
    BY <1>2, <1>6, <1>9, <2>2 DEF Repeats
  <2> QED BY <2>1, <2>2
<1> QED BY <1>1, <1>7, <1>8, <1>9 DEF Repeats

\* What a client sends names the present version, so no record is about it.
LEMMA SendRepeats ==
    ASSUME BillsInv, Repeats(db, sent), NEW b \in Bills, NEW ask \in Asked(b), NEW key,
           Send(b, ask, key)
    PROVE  Repeats(db, sent)'
<1> DEFINE view == Shown(db, b)
           r == [op |-> ask.op, bill |-> b, arg |-> ask.arg, key |-> key, view |-> view,
                 effects |-> 0, answers |-> {}]
<1>1. sent' = Append(sent, r) /\ UNCHANGED <<db, flight>>
  BY DEF Send
<1>2. view.bill = db.bill[b] /\ IsBill(db.bill[b]) /\ db.bill[b].status # "absent"
  BY DEF Shown, BillsInv, TablesFit, Asked
<1>3. /\ r = [op |-> r.op, bill |-> r.bill, arg |-> r.arg, key |-> r.key, view |-> r.view,
              effects |-> r.effects, answers |-> r.answers]
      /\ r.bill = b /\ r.view = view /\ r.effects = 0 /\ r.answers = {}
      /\ r.op = ask.op /\ r.arg = ask.arg
  OBVIOUS
<1> HIDE DEF view, r
<1>4. IsRequest(r) /\ ~Spent(db, r)
  BY <1>2, <1>3, AskedAmounts DEF IsBill, IsRequest, Spent
<1>5. /\ DOMAIN sent \subseteq DOMAIN sent'
      /\ \A i \in DOMAIN sent' : IF i \in DOMAIN sent THEN sent'[i] = sent[i]
                                                      ELSE sent'[i] = r
  BY <1>1, <1>4, SendKeeps DEF BillsInv, Keeps
<1>6. ASSUME NEW i \in DOMAIN sent'
      PROVE  /\ sent'[i].effects \in {0, 1}
             /\ sent'[i].answers = {} \/ \E a : sent'[i].answers = {a}
             /\ sent'[i].effects = 1 \/ sent'[i].answers # {} => Spent(db, sent'[i])
  BY <1>3, <1>5 DEF Repeats
<1>7. ASSUME NEW k \in DOMAIN db.kept
      PROVE  /\ \E i \in DOMAIN sent' : /\ Spent(db, sent'[i])
                                        /\ db.kept[k].digest = Digest(sent'[i])
             /\ \A i \in DOMAIN sent' :
                    Record(sent'[i]) = k /\ db.kept[k].digest = Digest(sent'[i]) =>
                        sent'[i].answers \subseteq {db.kept[k].answer}
  BY <1>3, <1>5 DEF Repeats
<1> QED BY <1>1, <1>6, <1>7 DEF Repeats

\* Every step keeps requests and idempotency records together.
LEMMA RepeatsStep == BillsInv /\ Repeats(db, sent) /\ [Next]_vars => Repeats(db, sent)'
<1> SUFFICES ASSUME BillsInv, Repeats(db, sent), [Next]_vars PROVE Repeats(db, sent)'
  OBVIOUS
<1>1. ASSUME UNCHANGED <<db, sent>> PROVE Repeats(db, sent)'
  BY <1>1, QuietRepeats
<1>2. ASSUME NEW b \in Bills,
             Project(b) \/ CommitSearch(b) \/ CommitConfirm(b) \/ Rollback(b)
      PROVE  Repeats(db, sent)'
  <2>1. CASE Project(b) \/ Rollback(b)
    BY <1>1, <2>1 DEF Project, Rollback
  <2>2. CASE CommitSearch(b) \/ CommitConfirm(b)
    <3>1. Projected(b) \/ Took(flight[b].by)
      BY <2>2, CommitSearchFits, CommitConfirmFits
    <3>2. CASE Projected(b)
      <4>1. UNCHANGED sent /\ db'.kept = db.kept
        BY <3>2 DEF Projected
      <4> QED BY <3>2, <4>1, QuietRepeats
    <3>3. CASE Took(flight[b].by)
      BY <3>3, TookRepeats
    <3> QED BY <3>1, <3>2, <3>3
  <2> QED BY <1>2, <2>1, <2>2
<1>3. ASSUME NEW i \in DOMAIN sent, Handle(i) PROVE Repeats(db, sent)'
  <2>1. CASE Mutate(i) \/ Confirm(i)
    BY <1>1, <2>1 DEF Mutate, Confirm
  <2>2. CASE SelectPayment(i) \/ PayInFull(i) \/ VoidBill(i) \/ DiscardReviewBill(i)
    BY <2>2, AtOnceFits, DiscardFits, TookRepeats
  <2>3. CASE Replay(i)
    BY <2>3, ReplayRepeats
  <2> QED BY <1>3, <2>1, <2>2, <2>3 DEF Handle
<1>4. ASSUME UNCHANGED sent, db'.bill = db.bill, DOMAIN db'.kept \subseteq DOMAIN db.kept,
             \A k \in DOMAIN db'.kept : db'.kept[k] = db.kept[k]
      PROVE  Repeats(db, sent)'
  BY <1>4, QuietRepeats
<1>5. ASSUME NEW record, Expire(record) PROVE Repeats(db, sent)'
  <2>1. PICK kept : kept = [k \in DOMAIN db.kept \ {record} |-> db.kept[k]]
    OBVIOUS
  <2>2. db' = [db EXCEPT !.kept = kept] /\ UNCHANGED sent
    BY <1>5, <2>1 DEF Expire, BillsInv, TablesFit
  <2>3. db'.bill = db.bill /\ db'.kept = kept
    BY <2>2 DEF BillsInv, TablesFit
  <2> QED BY <1>4, <2>1, <2>2, <2>3
<1>6. CASE User
  <2>1. ASSUME NEW b \in Bills, NEW ask \in Asked(b), NEW key, Send(b, ask, key)
        PROVE  Repeats(db, sent)'
    BY <2>1, SendRepeats
  <2>2. ASSUME UNCHANGED sent,
               \E x : db' = [db EXCEPT !.open = x] \/ db' = [db EXCEPT !.ledger = x]
        PROVE  Repeats(db, sent)'
    <3>1. db'.bill = db.bill /\ db'.kept = db.kept
      BY <2>2 DEF BillsInv, TablesFit
    <3> QED BY <1>4, <2>2, <3>1
  <2>3. ASSUME NEW d, Treat(d) PROVE Repeats(db, sent)'
    <3>1. UNCHANGED sent /\ db' = [db EXCEPT !.ledger[d].treatment = "user"]
      BY <2>3 DEF Treat, Touch
    <3> QED BY <2>2, <3>1
  <2>4. ASSUME NEW d, NEW a, EditAmount(d, a) PROVE Repeats(db, sent)'
    <3>1. UNCHANGED sent /\ db' = [db EXCEPT !.ledger[d].debit = a]
      BY <2>4 DEF EditAmount, Touch
    <3> QED BY <2>2, <3>1
  <2>5. ASSUME NEW a, MakeTransfer(a) PROVE Repeats(db, sent)'
    <3>1. PICK d : UNCHANGED sent /\ db' = NewTransfer(db, d, a)
      BY <2>5 DEF MakeTransfer, Touch
    <3>2. db'.bill = db.bill /\ db'.kept = db.kept
      BY <3>1, TransferWrites DEF BillsInv
    <3> QED BY <1>4, <3>1, <3>2
  <2>6. CASE Archive
    <3>1. UNCHANGED sent /\ \E x : db' = [db EXCEPT !.open = x]
      BY <2>6 DEF Archive, Touch
    <3> QED BY <2>2, <3>1
  <2> QED BY <1>6, <2>1, <2>3, <2>4, <2>5, <2>6 DEF User
<1>7. CASE UNCHANGED vars
  BY <1>1, <1>7 DEF vars
<1> QED BY <1>2, <1>3, <1>5, <1>6, <1>7 DEF Next

\* A request has one effect and one answer, however often it is delivered,
\* whichever keys clients use again and whatever records expire.
THEOREM RepeatsAreHarmless == Spec => []RepeatsChangeNothing
<1>1. Init => Repeats(db, sent)
  <2>1. Init => sent = <<>> /\ DOMAIN db.kept = {}
    <3> SUFFICES ASSUME Init PROVE sent = <<>> /\ DOMAIN db.kept = {}
      OBVIOUS
    <3>1. PICK bill, cand, pinned, ledger :
            db = [bill |-> bill, cand |-> cand, pinned |-> pinned, ledger |-> ledger,
                  open |-> TRUE, kept |-> [k \in {} |-> None]]
      BY DEF Init
    <3> QED BY <3>1 DEF Init
  <2> QED BY <2>1 DEF Repeats
<1>2. Repeats(db, sent) => RepeatsChangeNothing
  <2> SUFFICES ASSUME Repeats(db, sent), NEW i \in DOMAIN sent
               PROVE  sent[i].effects <= 1 /\ Cardinality(sent[i].answers) <= 1
    BY DEF RepeatsChangeNothing
  <2>1. sent[i].effects <= 1
    BY DEF Repeats
  <2>2. Cardinality(sent[i].answers) \in {0, 1}
    <3>1. sent[i].answers = {} \/ \E answer : sent[i].answers = {answer}
      BY DEF Repeats
    <3> QED BY <3>1, FS_EmptySet, FS_Singleton
  <2> QED BY <2>1, <2>2
<1> QED BY <1>1, <1>2, RepeatsStep, BillsAlways, PTL DEF Spec

----------------------------------------------------------------------------
\* The debit a user selected is a row that has no credit leg, and its bill is
\* unpaid.
Honoured(s) ==
    /\ None \notin DOMAIN s.ledger
    /\ \A b \in Bills : \A d \in DOMAIN s.cand[b] : s.cand[b][d] = "selected" =>
           s.bill[b].status = "unpaid" /\ s.ledger[d].credit = None

\* A transaction that writes another bill gives the debit no credit leg: it
\* would be the choice of two bills.
LEMMA WroteHonours ==
    ASSUME BillsInv, Honoured(db), NEW b \in Bills, Wrote(b)
    PROVE  Honoured(db')
<1>1. ChoicesDiffer(db') /\ \E x : Saved(db, db', b, x)
  BY DEF Wrote, ChoicesDiffer
<1>2. None \notin DOMAIN db'.ledger
  BY <1>1, BillsAssumption DEF Honoured, Saved
<1>3. ASSUME NEW c \in Bills, NEW d \in DOMAIN db'.cand[c], db'.cand[c][d] = "selected"
      PROVE  db'.bill[c].status = "unpaid" /\ db'.ledger[d].credit = None
  <2>1. CASE c = b
    BY <1>1, <1>3, <2>1 DEF Saved
  <2>2. CASE c # b
    <3>1. /\ db'.bill[c] = db.bill[c] /\ db'.cand[c] = db.cand[c]
          /\ d \in DOMAIN db.ledger
      BY <1>1, <1>3, <2>2 DEF Saved, BillsInv, TablesFit
    <3>2. ~(d \in DOMAIN db'.cand[b] /\ db'.cand[b][d] = "confirmed")
      BY <1>1, <1>3, <2>2 DEF ChoicesDiffer
    <3>3. db'.ledger[d].credit = db.ledger[d].credit
      BY <1>1, <3>1, <3>2 DEF Saved
    <3> QED BY <1>3, <3>1, <3>3 DEF Honoured
  <2> QED BY <2>1, <2>2
<1> QED BY <1>2, <1>3 DEF Honoured

\* Steps that write neither bills nor credit legs.
LEMMA RestHonours ==
    ASSUME BillsInv, Honoured(db), db'.bill = db.bill, db'.cand = db.cand,
           DOMAIN db'.ledger \subseteq DOMAIN db.ledger \cup Spare,
           \A d \in DOMAIN db.ledger : db'.ledger[d].credit = db.ledger[d].credit
    PROVE  Honoured(db')
<1>1. \A b \in Bills : DOMAIN db.cand[b] \subseteq DOMAIN db.ledger
  BY DEF BillsInv, TablesFit
<1> QED BY <1>1, BillsAssumption DEF Honoured

\* A bill that is discarded takes its candidates with it.
LEMMA DiscardHonours ==
    ASSUME BillsInv, Honoured(db), NEW i \in DOMAIN sent, DiscardReviewBill(i)
    PROVE  Honoured(db')
<1> DEFINE b == sent[i].bill
           new == [db EXCEPT !.bill[b] = Deleted(@), !.cand[b] = NoRows]
<1>1. b \in Bills /\ db' = Complete(new, sent[i], None)
  BY RequestedBill DEF DiscardReviewBill, Succeed
<1>2. /\ TablesFit(new) /\ new.ledger = db.ledger /\ new.cand[b] = NoRows
      /\ \A c \in Bills \ {b} : new.bill[c] = db.bill[c] /\ new.cand[c] = db.cand[c]
  <2> HIDE DEF b
  <2> QED BY <1>1, DiscardWrites DEF BillsInv
<1> HIDE DEF new
<1>3. SameBills(new, db')
  BY <1>1, <1>2, CompleteWrites
<1>4. DOMAIN NoRows = {}
  BY DEF NoRows
<1> QED BY <1>2, <1>3, <1>4 DEF SameBills, Honoured

\* Every step honours the selections.
LEMMA HonouredStep == BillsInv /\ Honoured(db) /\ [Next]_vars => Honoured(db)'
<1> SUFFICES ASSUME BillsInv, Honoured(db), [Next]_vars PROVE Honoured(db')
  OBVIOUS
<1>1. ASSUME UNCHANGED db PROVE Honoured(db')
  BY <1>1
<1>2. ASSUME NEW b \in Bills,
             Project(b) \/ CommitSearch(b) \/ CommitConfirm(b) \/ Rollback(b)
      PROVE  Honoured(db')
  <2>1. CASE Project(b) \/ Rollback(b)
    BY <1>1, <2>1 DEF Project, Rollback
  <2>2. CASE CommitSearch(b) \/ CommitConfirm(b)
    BY <2>2, CommitSearchFits, CommitConfirmFits, WroteHonours
  <2> QED BY <1>2, <2>1, <2>2
<1>3. ASSUME NEW i \in DOMAIN sent, Handle(i) PROVE Honoured(db')
  <2>1. CASE Mutate(i) \/ Confirm(i) \/ Replay(i)
    BY <1>1, <2>1 DEF Mutate, Confirm, Replay
  <2>2. CASE SelectPayment(i) \/ PayInFull(i) \/ VoidBill(i)
    BY <2>2, AtOnceFits, RequestedBill, WroteHonours
  <2>3. CASE DiscardReviewBill(i)
    BY <2>3, DiscardHonours
  <2> QED BY <1>3, <2>1, <2>2, <2>3 DEF Handle
<1>4. ASSUME NEW x, db' = [db EXCEPT !.open = x] \/ db' = [db EXCEPT !.kept = x]
      PROVE  Honoured(db')
  <2>1. db'.bill = db.bill /\ db'.cand = db.cand /\ db'.ledger = db.ledger
    BY <1>4 DEF BillsInv, TablesFit
  <2> QED BY <2>1, RestHonours
<1>5. ASSUME NEW record, Expire(record) PROVE Honoured(db')
  <2>1. \E x : db' = [db EXCEPT !.kept = x]
    BY <1>5 DEF Expire
  <2> QED BY <1>4, <2>1
<1>6. CASE User
  <2>1. ASSUME NEW b \in Bills, NEW ask, NEW key, Send(b, ask, key) PROVE Honoured(db')
    BY <1>1, <2>1 DEF Send
  <2>2. ASSUME NEW d \in DOMAIN db.ledger, NEW y, IsLedgerRow(y), y.credit = db.ledger[d].credit,
               db' = [db EXCEPT !.ledger[d] = y]
        PROVE  Honoured(db')
    <3>1. /\ db'.bill = db.bill /\ db'.cand = db.cand
          /\ DOMAIN db'.ledger = DOMAIN db.ledger /\ db'.ledger[d] = y
          /\ \A e \in DOMAIN db.ledger \ {d} : db'.ledger[e] = db.ledger[e]
      BY <2>2, RowWrites DEF BillsInv
    <3>2. \A e \in DOMAIN db.ledger : db'.ledger[e].credit = db.ledger[e].credit
      BY <2>2, <3>1
    <3> QED BY <3>1, <3>2, RestHonours
  <2>3. ASSUME NEW d \in DOMAIN db.ledger, Treat(d) PROVE Honoured(db')
    <3>1. PICK old : old = db.ledger[d]
      OBVIOUS
    <3>2. PICK y : y = [old EXCEPT !.treatment = "user"]
      OBVIOUS
    <3>3. IsLedgerRow(old)
      BY <3>1 DEF BillsInv, TablesFit
    <3>4. IsLedgerRow(y) /\ y.credit = db.ledger[d].credit
      BY <3>1, <3>2, <3>3 DEF IsLedgerRow
    <3>5. db' = [db EXCEPT !.ledger[d] = y]
      BY <2>3, <3>1, <3>2 DEF Treat, BillsInv, TablesFit
    <3> QED BY <2>2, <3>4, <3>5
  <2>4. ASSUME NEW d \in DOMAIN db.ledger, NEW a, EditAmount(d, a) PROVE Honoured(db')
    <3>1. PICK old : old = db.ledger[d]
      OBVIOUS
    <3>2. PICK y : y = [old EXCEPT !.debit = a]
      OBVIOUS
    <3>3. IsLedgerRow(old)
      BY <3>1 DEF BillsInv, TablesFit
    <3>4. IsLedgerRow(y) /\ y.credit = db.ledger[d].credit
      BY <3>1, <3>2, <3>3 DEF IsLedgerRow
    <3>5. db' = [db EXCEPT !.ledger[d] = y]
      BY <2>4, <3>1, <3>2 DEF EditAmount, BillsInv, TablesFit
    <3> QED BY <2>2, <3>4, <3>5
  <2>5. ASSUME NEW a, MakeTransfer(a) PROVE Honoured(db')
    <3> DEFINE d == CHOOSE t \in Unused : TRUE
    <3>1. db' = NewTransfer(db, d, a) /\ d \in Spare /\ d \notin DOMAIN db.ledger
      BY <2>5 DEF MakeTransfer, Unused
    <3> HIDE DEF d
    <3>2. /\ db'.bill = db.bill /\ db'.cand = db.cand
          /\ DOMAIN db'.ledger = DOMAIN db.ledger \cup {d}
          /\ \A e \in DOMAIN db.ledger \ {d} : db'.ledger[e] = db.ledger[e]
      BY <3>1, TransferWrites DEF BillsInv
    <3> QED BY <3>1, <3>2, RestHonours
  <2>6. CASE Archive
    <3>1. \E x : db' = [db EXCEPT !.open = x]
      BY <2>6 DEF Archive
    <3> QED BY <1>4, <3>1
  <2> QED BY <1>6, <2>1, <2>3, <2>4, <2>5, <2>6 DEF User
<1>7. CASE UNCHANGED vars
  BY <1>1, <1>7 DEF vars
<1> QED BY <1>2, <1>3, <1>5, <1>6, <1>7 DEF Next

\* No bill is paid with a debit that is selected for another one.
THEOREM SelectionsHold == Spec => []SelectionIsHonoured
<1>1. Init => Honoured(db)
  <2> SUFFICES ASSUME Init PROVE Honoured(db)
    OBVIOUS
  <2>1. PICK pinned, kept, amount :
          db = [bill |-> [b \in Bills |-> Absent], cand |-> [b \in Bills |-> NoRows],
                pinned |-> pinned,
                ledger |-> [d \in Debits |-> [debit |-> amount[d], credit |-> None,
                                              treatment |-> "none"]],
                open |-> TRUE, kept |-> kept]
    BY DEF Init
  <2>2. DOMAIN db.ledger = Debits /\ \A b \in Bills : DOMAIN db.cand[b] = {}
    BY <2>1 DEF NoRows
  <2> QED BY <2>2, BillsAssumption DEF Honoured
<1>2. BillsInv /\ Honoured(db) => SelectionIsHonoured
  <2> SUFFICES ASSUME BillsInv, Honoured(db), NEW b \in Bills, NEW d \in DOMAIN db.cand[b],
                      db.cand[b][d] = "selected"
               PROVE  /\ db.bill[b].status = "unpaid"
                      /\ \A c \in Bills : db.bill[c].payoff # d
    BY DEF SelectionIsHonoured
  <2>1. db.bill[b].status = "unpaid" /\ db.ledger[d].credit = None /\ d # None
    BY DEF Honoured, BillsInv, TablesFit
  <2>2. ASSUME NEW c \in Bills, db.bill[c].payoff = d PROVE FALSE
    BY <2>1, <2>2 DEF BillsInv, Paid
  <2> QED BY <2>1, <2>2
<1> QED BY <1>1, <1>2, HonouredStep, BillsAlways, PTL DEF Spec

=============================================================================
