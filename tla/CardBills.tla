------------------------------ MODULE CardBills ------------------------------
(***************************************************************************)
(* Credit card bills, from their projection out of a bulk document to      *)
(* their payment: creditcard.Service over creditcardstore, with the        *)
(* deferred triggers of the bill tables and the idempotency records.       *)
(*                                                                         *)
(* The clients send requests that name the version of the bill they saw;   *)
(* requests are repeated, reordered and sent from several tabs.  Between   *)
(* two of them the user edits, links and excludes the bank transactions    *)
(* the bills are matched with, and archives the bank account.              *)
(*                                                                         *)
(* A header is its amount due, which stands for the currency and the dates *)
(* too: None is an incomplete header, equal amounts a match in all three.  *)
(* A bill has at most one line that is no summary.  A bank debit that is a *)
(* leg of a transfer to the card has the amount of its credit leg.  All    *)
(* bills are of one card, all debits of one bank account.                  *)
(*                                                                         *)
(* A transaction that searches the ledger is two steps: the search, whose  *)
(* FOR UPDATE leaves the rows it found locked, and the writes.  A search   *)
(* that waits for a row returns it although the other transaction linked   *)
(* it: `not exists` is not evaluated again.  A request that fails changes  *)
(* nothing and is not a step.                                              *)
(***************************************************************************)
EXTENDS Naturals, Sequences, FiniteSets, SequencesExt

CONSTANTS
    Bills,       \* documents of type credit_card_bill
    Debits,      \* bank debits with card payment evidence
    Spare,       \* bound: transfers that can still be made
    Purchases,   \* card transactions a line can be linked to
    Amounts,     \* amounts a header may have, in minor units
    Misfits,     \* amounts of transactions that match no header
    Statements,  \* what the pinned generation of a document may say
    Keys,        \* idempotency keys
    MaxRequests, \* bound: requests sent
    MaxTouches,  \* bound: what the user does to the ledger and the account
    MaxRows,     \* bound: bill rows projected from one document
    None         \* nothing

ASSUME BillsAssumption ==
    /\ Amounts \cup Misfits \subseteq Nat \ {0}
    /\ Statements \subseteq [due : Amounts \cup {None}, lines : BOOLEAN, failed : BOOLEAN]
    /\ MaxRequests \in Nat
    /\ MaxTouches \in Nat
    /\ MaxRows \in Nat
    /\ Debits \cap Spare = {}
    /\ None \notin Debits \cup Spare

VARIABLES
    db,      \* the tables
    sent,    \* the requests the clients have sent, with their answers
    flight,  \* per bill, the transaction that holds its row
    touches  \* what the user did to the ledger and the account

vars == <<db, sent, flight, touches>>

Searching == {"correct", "attach", "create", "ignore"}

Keyed == {"create", "select", "confirm", "pay", "void", "discard"}

Operations == Searching \cup Keyed

Absent == [status |-> "absent", row |-> 0, version |-> 0, due |-> None, line |-> "none",
           tx |-> None, failed |-> FALSE, payoff |-> None]

\* The incarnation of the row survives its deletion.
Deleted(bill) == [Absent EXCEPT !.row = bill.row]

----------------------------------------------------------------------------
(* Reading the tables.                                                     *)

Live(s, b) == {d \in DOMAIN s.cand[b] : s.cand[b][d] \in {"suggested", "selected"}}

\* MUTANT: every suggestion is the suggestion.
AnySuggestion(s, b) == Live(s, b)

\* loadPaymentCandidates: the payment suggestion, and the ambiguous ones.
PaymentCandidate(s, b) ==
    {d \in Live(s, b) : s.cand[b][d] = "selected" \/ Live(s, b) = {d}}

AmbiguousCandidates(s, b) == IF PaymentCandidate(s, b) = {} THEN Live(s, b) ELSE {}

\* loadBill: what a client is shown.
Shown(s, b) == [bill |-> s.bill[b], candidates |-> s.cand[b]]

\* headerComplete, hasPendingLines and the unresolved candidates.
Searchable(bill) == bill.due # None /\ bill.line # "pending" /\ ~bill.failed

\* findExactPayoffTransfersQuery
FindExactPayoffTransfers(s, due) ==
    {d \in DOMAIN s.ledger :
        /\ s.open
        /\ s.ledger[d].debit = due /\ s.ledger[d].credit = due
        /\ \A b \in Bills : s.bill[b].payoff # d}

\* FindBankDebitCandidates
FindBankDebitCandidates(s, due) ==
    {d \in DOMAIN s.ledger : s.open /\ s.ledger[d].debit = due /\ s.ledger[d].credit = None}

\* validateBankDebitCandidate
IsBankDebitCandidate(s, bill, d) ==
    bill.due # None /\ s.ledger[d].debit = bill.due /\ s.ledger[d].credit = None

----------------------------------------------------------------------------
(* The constraints a commit has to satisfy.                                *)

\* MUTANT: credit_card_statements_payoff_key is missing.
TransferMayPayTwice(s) == TRUE

\* credit_card_statements_payoff_key
PayoffsDiffer(s) ==
    \A b, c \in Bills : b # c /\ s.bill[b].payoff # None =>
                            s.bill[b].payoff # s.bill[c].payoff

\* credit_card_statement_lines_transaction_key
LinesDiffer(s) ==
    \A b, c \in Bills : b # c /\ s.bill[b].tx # None => s.bill[b].tx # s.bill[c].tx

\* MUTANT: statement_payment_candidates_bank_choice_key is missing.
ChoicesMayCollide(s) == TRUE

\* statement_payment_candidates_bank_choice_key: a debit is the choice of one
\* bill.
ChoicesDiffer(s) ==
    \A b, c \in Bills : \A d \in DOMAIN s.cand[b] \cap DOMAIN s.cand[c] :
        b # c => {s.cand[b][d], s.cand[c][d]} \cap {"suggested", "dismissed"} # {}

\* validate_credit_card_statement and the check constraints of the row; runs
\* when the bill or a leg of its payoff was written. An equal amount stands for the
\* account, the currency and the distance of the legs in time; the trigger does
\* not look at the window of the bill, which only the searches do.
BillIsValid(s, b) ==
    LET bill == s.bill[b]
        payoff == s.ledger[bill.payoff]
    IN /\ bill.status \in {"unpaid", "paid"} => bill.due # None
       /\ bill.failed => bill.status = "review"
       /\ bill.status = "paid" <=> bill.payoff # None
       /\ bill.payoff # None => /\ s.open
                                /\ payoff.debit = bill.due
                                /\ payoff.credit = bill.due

\* validate_statement_payment_candidate; runs when the row was written.
CandidateIsValid(s, b, d) ==
    /\ s.open
    /\ s.bill[b].due # None
    /\ s.ledger[d].debit = s.bill[b].due
    /\ s.cand[b][d] = "confirmed" => s.bill[b].payoff = d

\* A transaction that wrote bill b and these candidate rows may commit.
Legal(s, b, written) ==
    /\ PayoffsDiffer(s) /\ LinesDiffer(s) /\ ChoicesDiffer(s)
    /\ BillIsValid(s, b)
    /\ \A d \in written : CandidateIsValid(s, b, d)

----------------------------------------------------------------------------
(* Writing the tables.                                                     *)

\* The rows an update of the candidates of b touches: syncPaymentCandidates
\* sets every row that is not confirmed, dismissed ones included.
Touched(s, b, live) ==
    {d \in DOMAIN s.cand[b] : s.cand[b][d] # "confirmed"} \cup DOMAIN live

\* SaveBill and syncPaymentCandidates: live are the rows that are kept.
SaveBill(s, b, bill, live) ==
    [s EXCEPT
       !.bill[b] = [bill EXCEPT !.version = @ + 1],
       !.cand[b] = [d \in DOMAIN @ \cup DOMAIN live |->
                      IF d \in DOMAIN live THEN live[d]
                      ELSE IF @[d] = "confirmed" THEN "confirmed"
                      ELSE "dismissed"]]

NoRows == [d \in {} |-> "dismissed"]

Rows(ids, status) == [d \in ids |-> status]

\* lockSystemExclusions: it replaces a treatment of the user's.
LockSystemExclusions(s, d) == [s EXCEPT !.ledger[d].treatment = "system"]

\* A new exact transfer, as insertTransferLeg and insertTransferLink write it.
NewTransfer(s, d, amount) ==
    LET legs == [debit |-> amount, credit |-> amount, treatment |-> "none"]
    IN [s EXCEPT !.ledger = [t \in DOMAIN @ \cup {d} |-> IF t = d THEN legs ELSE @[t]]]

\* markPaid
MarkPaid(bill, d) == [bill EXCEPT !.status = "paid", !.payoff = d]

\* What resolvePayment decides and SaveBill writes.  Debits that were linked
\* while the search waited for them are no candidates any more; the only
\* candidate being such a debit is an error, which ok says.
ResolvePayment(s, b, bill, transfers, debits) ==
    LET valid == {d \in debits : IsBankDebitCandidate(s, bill, d)}
        result(t, status, live) ==
            [ok |-> TRUE, live |-> live,
             db |-> SaveBill(t, b, [bill EXCEPT !.status = status], live)]
    IN IF ~Searchable(bill) THEN result(s, "review", NoRows)
       ELSE IF transfers # {}
            THEN IF Cardinality(transfers) > 1 THEN result(s, "review", NoRows)
                 ELSE LET d == CHOOSE t \in transfers : TRUE
                      IN [ok |-> TRUE, live |-> NoRows,
                          db |-> SaveBill(LockSystemExclusions(s, d), b,
                                          MarkPaid(bill, d), NoRows)]
       ELSE IF Cardinality(debits) = 1
            THEN [result(s, "unpaid", Rows(debits, "suggested")) EXCEPT !.ok = valid = debits]
       ELSE IF debits = {} THEN result(s, "unpaid", NoRows)
       ELSE result(s, "review", [d \in debits |-> IF d \in valid THEN "suggested"
                                                  ELSE "dismissed"])

----------------------------------------------------------------------------
(* Requests and their idempotency records.                                 *)

\* MUTANT: the request does not say which version it is about.
AnyVersion(s, r) == s.bill[r.bill].row = r.view.bill.row

\* GetBillForUpdate and requireVersion
RequireVersion(s, r) ==
    /\ s.bill[r.bill].status # "absent"
    /\ s.bill[r.bill].row = r.view.bill.row
    /\ s.bill[r.bill].version = r.view.bill.version

Digest(r) == <<r.bill, r.view.bill.row, r.view.bill.version, r.arg>>

Record(r) == <<r.op, r.key>>

\* ClaimIdempotency acquires the key; a concurrent claim waits.
Acquires(s, r) ==
    r.op \in Keyed =>
        /\ Record(r) \notin DOMAIN s.kept
        /\ \A b \in Bills : flight[b] # None /\ flight[b].by # 0 =>
                                Record(sent[flight[b].by]) # Record(r)

\* CompleteIdempotency
Complete(s, r, answer) ==
    IF r.op \in Keyed
    THEN LET record == [digest |-> Digest(r), answer |-> answer]
         IN [s EXCEPT !.kept = [k \in DOMAIN @ \cup {Record(r)} |->
                                  IF k = Record(r) THEN record ELSE @[k]]]
    ELSE s

Answered(i, answer) ==
    sent' = [sent EXCEPT ![i].effects = @ + 1, ![i].answers = @ \cup {answer}]

\* MUTANT: a repeated request is answered with the bill as it is now.
ReplaysCurrentBill(s, r) == Shown(s, r.bill)

\* A replay returns the stored response.
StoredAnswer(s, r) == s.kept[Record(r)].answer

----------------------------------------------------------------------------
(* Transactions that search, or lock what another search may find.         *)

\* The transactions of the ledger a running transaction has locked.
Locks(f) == IF f = None THEN {}
            ELSE IF f.transfers # {} THEN f.transfers ELSE f.debits

Held == UNION {Locks(flight[b]) : b \in Bills}

\* The rest of the transaction works on `bill`, the row with its changes; by
\* is the request, 0 the post-processing job.
Fly(by, b, bill, transfers, debits) ==
    LET wanted == [transfers |-> transfers, debits |-> debits]
    IN flight' = [flight EXCEPT
           ![b] = [by |-> by, bill |-> bill, transfers |-> transfers, debits |-> debits,
                   after |-> {c \in Bills : Locks(flight[c]) \cap Locks(wanted) # {}}]]

\* FindExactPayoffTransfers, then FindBankDebitCandidates if there are none.
Search(by, b, bill) ==
    LET transfers == FindExactPayoffTransfers(db, bill.due)
    IN IF ~Searchable(bill) THEN Fly(by, b, bill, {}, {})
       ELSE Fly(by, b, bill, transfers,
                IF transfers = {} THEN FindBankDebitCandidates(db, bill.due) ELSE {})

\* A pinned candidate that was decided comes linked, one that was not pending;
\* duplicates and summaries make no line.
ProjectedLine(statement) ==
    IF ~statement.lines THEN "none"
    ELSE IF statement.tx = None THEN "pending" ELSE "linked"

\* A failed candidate or chunk keeps the bill in Review.
ProjectionHasFailures(statement) == statement.failed

ProjectBillFromBulk(b) ==
    LET statement == db.pinned[b]
    IN [status |-> "review", row |-> db.bill[b].row + 1, version |-> 1,
        due |-> statement.due, line |-> ProjectedLine(statement),
        tx |-> statement.tx, failed |-> ProjectionHasFailures(statement),
        payoff |-> None]

\* ProjectBulkBill for a document without a bill; for one that has a bill the
\* job does nothing.
Project(b) ==
    /\ db.bill[b].status = "absent"
    /\ flight[b] = None
    /\ db.bill[b].row < MaxRows
    /\ Search(0, b, ProjectBillFromBulk(b))
    /\ UNCHANGED <<db, sent, touches>>

ApplyHeaderCorrection(bill, due) == [bill EXCEPT !.due = due]

IgnoreLine(bill) == [bill EXCEPT !.line = "ignored"]

LinkLine(bill, tx) == [bill EXCEPT !.line = "linked", !.tx = tx]

\* The requests that change the header or the line of a bill in Review, up to
\* resolvePayment: CorrectHeader, and loadMutableLine with AttachLine,
\* CreateLineTransaction and IgnoreLine.
Change(r, bill) ==
    CASE r.op = "correct" -> ApplyHeaderCorrection(bill, r.arg)
      [] r.op = "ignore"  -> IgnoreLine(bill)
      [] r.op = "attach"  -> LinkLine(bill, r.arg)
      [] r.op = "create"  -> LinkLine(bill, r.bill)

\* IsTransactionLinkedToAnotherLine, behind the lock of the transaction.
IsFree(tx) ==
    \A b \in Bills : /\ db.bill[b].tx # tx
                     /\ flight[b] # None => flight[b].bill.tx # tx

Mutate(i) ==
    LET r == sent[i]
        b == r.bill
    IN /\ r.op \in Searching
       /\ flight[b] = None
       /\ Acquires(db, r)
       /\ RequireVersion(db, r)
       /\ db.bill[b].status = "review"
       /\ r.op # "correct" => db.bill[b].line = "pending"
       /\ r.op = "attach" => IsFree(r.arg)
       /\ r.op = "create" => db.pinned[b].tx = None
       /\ Search(i, b, Change(r, db.bill[b]))
       /\ UNCHANGED <<db, sent, touches>>

\* CreateTransactionFromPinnedCandidate settles the candidate of the line.
Pin(s, by, b) ==
    IF by # 0 /\ sent[by].op = "create" THEN [s EXCEPT !.pinned[b].tx = b] ELSE s

\* A transaction ends; those that waited for its locks go on.
Land(b) ==
    /\ flight' = [c \in Bills |->
                     IF c = b \/ flight[c] = None THEN None
                     ELSE [flight[c] EXCEPT !.after = @ \ {b}]]
    /\ UNCHANGED touches

\* The commit of a request that made `new`.
Succeed(i, new, answer) ==
    /\ db' = Complete(new, sent[i], answer)
    /\ Answered(i, answer)

\* The writes of a searching transaction and its commit.
CommitSearch(b) ==
    LET f == flight[b]
        result == ResolvePayment(Pin(db, f.by, b), b, f.bill, f.transfers, f.debits)
    IN /\ f # None
       /\ f.after = {}
       /\ f.by # 0 => sent[f.by].op \in Searching
       /\ result.ok
       /\ Legal(result.db, b, Touched(db, b, result.live))
       /\ Land(b)
       /\ IF f.by = 0 THEN db' = result.db /\ UNCHANGED sent
          ELSE Succeed(f.by, result.db, Shown(result.db, b))

\* ConfirmPaymentCandidate locks the bank debit.
Confirm(i) ==
    LET r == sent[i]
        b == r.bill
    IN /\ r.op = "confirm"
       /\ flight[b] = None
       /\ Acquires(db, r)
       /\ RequireVersion(db, r)
       /\ db.bill[b].status = "unpaid"
       /\ PaymentCandidate(db, b) = {r.arg}
       /\ r.arg \notin Held
       /\ IsBankDebitCandidate(db, db.bill[b], r.arg)
       /\ Fly(i, b, db.bill[b], {}, {r.arg})
       /\ UNCHANGED <<db, sent, touches>>

\* CreateMissingCardLegAndTransfer, and the commit of the confirmation.
CommitConfirm(b) ==
    LET f == flight[b]
        r == sent[f.by]
        linked == [db EXCEPT !.ledger[r.arg].credit = f.bill.due]
        new == SaveBill(LockSystemExclusions(linked, r.arg), b, MarkPaid(f.bill, r.arg),
                        Rows({r.arg}, "confirmed"))
    IN /\ f # None
       /\ f.by # 0
       /\ r.op = "confirm"
       /\ Legal(new, b, Touched(db, b, Rows({r.arg}, "confirmed")))
       /\ Land(b)
       /\ Succeed(f.by, new, Shown(new, b))

\* The process or its connection dies, the constraints or a timeout refuse.
Rollback(b) ==
    /\ flight[b] # None
    /\ Land(b)
    /\ UNCHANGED <<db, sent>>

----------------------------------------------------------------------------
(* Transactions in one step.                                               *)

Prepared(r, status) ==
    /\ flight[r.bill] = None
    /\ Acquires(db, r)
    /\ RequireVersion(db, r)
    /\ db.bill[r.bill].status = status

CommitAtOnce(i, new, live) ==
    LET b == sent[i].bill
    IN /\ Legal(new, b, Touched(db, b, live))
       /\ Succeed(i, new, Shown(new, b))
       /\ UNCHANGED <<flight, touches>>

\* SelectPaymentCandidate
SelectPayment(i) ==
    LET r == sent[i]
        live == Rows({r.arg}, "selected")
    IN /\ r.op = "select"
       /\ Prepared(r, "review")
       /\ r.arg \in AmbiguousCandidates(db, r.bill)
       /\ r.arg \notin Held
       /\ IsBankDebitCandidate(db, db.bill[r.bill], r.arg)
       /\ CommitAtOnce(i, SaveBill(db, r.bill, [db.bill[r.bill] EXCEPT !.status = "unpaid"],
                                   live), live)

Unused == Spare \ DOMAIN db.ledger

\* What PayInFull leaves: CreateFullPayoffTransfer makes the transfer.
PaidInFull(s, b, d) ==
    SaveBill(LockSystemExclusions(NewTransfer(s, d, s.bill[b].due), d), b,
             MarkPaid(s.bill[b], d), NoRows)

PayInFull(i) ==
    LET r == sent[i]
        d == CHOOSE t \in Unused : TRUE
    IN /\ r.op = "pay"
       /\ Prepared(r, "unpaid")
       /\ Unused # {}
       /\ db.open
       /\ CommitAtOnce(i, PaidInFull(db, r.bill, d), NoRows)

VoidBill(i) ==
    LET r == sent[i]
    IN /\ r.op = "void"
       /\ Prepared(r, "unpaid")
       /\ CommitAtOnce(i, SaveBill(db, r.bill, [db.bill[r.bill] EXCEPT !.status = "void"],
                                   NoRows), NoRows)

\* DiscardReviewBill; lines and candidates go with the row.
DiscardReviewBill(i) ==
    LET r == sent[i]
    IN /\ r.op = "discard"
       /\ Prepared(r, "review")
       /\ Succeed(i, [db EXCEPT !.bill[r.bill] = Deleted(@), !.cand[r.bill] = NoRows], None)
       /\ UNCHANGED <<flight, touches>>

\* A keyed request that was answered before is answered from its record.
Replay(i) ==
    LET r == sent[i]
    IN /\ Record(r) \in DOMAIN db.kept
       /\ db.kept[Record(r)].digest = Digest(r)
       /\ sent' = [sent EXCEPT ![i].answers = @ \cup {StoredAnswer(db, r)}]
       /\ UNCHANGED <<db, flight, touches>>

\* idempotencyLifetime is over: the next claim takes the record as its own.
Expire(record) ==
    /\ db' = [db EXCEPT !.kept = [k \in DOMAIN @ \ {record} |-> @[k]]]
    /\ UNCHANGED <<sent, flight, touches>>

----------------------------------------------------------------------------
(* The clients.                                                            *)

\* What a client may ask of a bill it is shown.
Asked(b) ==
    LET shown == db.bill[b].status
        ask(op, arg) == [op |-> op, arg |-> arg]
    IN IF shown = "review"
       THEN {ask("correct", a) : a \in Amounts}
            \cup {ask("attach", p) : p \in Purchases}
            \cup {ask(op, None) : op \in {"create", "ignore", "discard"}}
            \cup {ask("select", d) : d \in AmbiguousCandidates(db, b)}
       ELSE IF shown = "unpaid"
       THEN {ask("confirm", d) : d \in PaymentCandidate(db, b)}
            \cup {ask("pay", None), ask("void", None)}
       ELSE {}

\* Clients send what they see; they choose the key, anew or again.
Send(b, ask, key) ==
    /\ Len(sent) < MaxRequests
    /\ sent' = Append(sent, [op |-> ask.op, bill |-> b, arg |-> ask.arg, key |-> key,
                             view |-> Shown(db, b), effects |-> 0, answers |-> {}])
    /\ UNCHANGED <<db, flight, touches>>

\* The user's other doings are counted.
Touch ==
    /\ touches < MaxTouches
    /\ touches' = touches + 1
    /\ UNCHANGED <<sent, flight>>

\* transactions_assert_statement_payoff_valid
EditIsLegal(s, d) == \A b \in Bills : s.bill[b].payoff = d => BillIsValid(s, b)

\* PatchTransaction of a bank debit.
EditAmount(d, amount) ==
    LET new == [db EXCEPT !.ledger[d].debit = amount]
    IN /\ d \notin Held
       /\ EditIsLegal(new, d)
       /\ db' = new
       /\ Touch

\* CreateInternalTransfer from the bank account to the card.
MakeTransfer(amount) ==
    /\ Unused # {}
    /\ db.open
    /\ db' = NewTransfer(db, CHOOSE t \in Unused : TRUE, amount)
    /\ Touch

\* PutUserTreatment; a system treatment is immutable.
Treat(d) ==
    /\ db.ledger[d].treatment # "system"
    /\ db' = [db EXCEPT !.ledger[d].treatment = "user"]
    /\ Touch

\* The bank account is archived, or restored.
Archive ==
    /\ db' = [db EXCEPT !.open = ~@]
    /\ Touch

----------------------------------------------------------------------------
Init ==
    /\ \E statement \in [Bills -> Statements] : \E amount \in [Debits -> Amounts \cup Misfits] :
       \E tx \in [Bills -> {None} \cup Purchases] :
          /\ \A b \in Bills : tx[b] # None => statement[b].lines
          /\ db = [bill   |-> [b \in Bills |-> Absent],
                   cand   |-> [b \in Bills |-> NoRows],
                   pinned |-> [b \in Bills |-> [due |-> statement[b].due, tx |-> tx[b],
                                                lines |-> statement[b].lines,
                                                failed |-> statement[b].failed]],
                   ledger |-> [d \in Debits |-> [debit |-> amount[d], credit |-> None,
                                                 treatment |-> "none"]],
                   open   |-> TRUE,
                   kept   |-> [k \in {} |-> None]]
    /\ sent = <<>>
    /\ flight = [b \in Bills |-> None]
    /\ touches = 0

Handle(i) ==
    \/ Mutate(i) \/ Confirm(i) \/ SelectPayment(i) \/ PayInFull(i)
    \/ VoidBill(i) \/ DiscardReviewBill(i) \/ Replay(i)

User ==
    \/ \E b \in Bills : \E ask \in Asked(b) :
          \E key \in (IF ask.op \in Keyed THEN Keys ELSE {None}) : Send(b, ask, key)
    \/ \E d \in DOMAIN db.ledger : Treat(d) \/ \E a \in Amounts \cup Misfits : EditAmount(d, a)
    \/ \E a \in Amounts : MakeTransfer(a)
    \/ Archive

Next ==
    \/ \E b \in Bills : Project(b) \/ CommitSearch(b) \/ CommitConfirm(b) \/ Rollback(b)
    \/ \E i \in DOMAIN sent : Handle(i)
    \/ \E record \in DOMAIN db.kept : Expire(record)
    \/ User

Spec == Init /\ [][Next]_vars

----------------------------------------------------------------------------
(* Properties.                                                             *)

\* Every row is in a state the code knows.
TypeOK ==
    /\ \A b \in Bills :
          /\ db.bill[b].status \in {"absent", "review", "unpaid", "paid", "void"}
          /\ db.bill[b].line \in {"none", "pending", "linked", "ignored"}
          /\ db.bill[b].due \in Amounts \cup {None}
          /\ \A d \in DOMAIN db.cand[b] :
                /\ d \in DOMAIN db.ledger
                /\ db.cand[b][d] \in {"suggested", "selected", "confirmed", "dismissed"}
    /\ \A d \in DOMAIN db.ledger : db.ledger[d].treatment \in {"none", "user", "system"}
    /\ \A b \in Bills : Cardinality(PaymentCandidate(db, b)) <= 1

\* A paid bill stays paid by an exact transfer of its own whose legs are out
\* of the spending totals for good, whatever the user edits, links or treats
\* afterwards and however the searches of two bills overlapped.
PaidIsExactAndExcluded ==
    \A b \in Bills : db.bill[b].status = "paid" =>
        LET d == db.bill[b].payoff
        IN /\ d \in DOMAIN db.ledger
           /\ db.ledger[d].debit = db.bill[b].due
           /\ db.ledger[d].credit = db.bill[b].due
           /\ db.ledger[d].treatment = "system"
           /\ \A c \in Bills : c # b => db.bill[c].payoff # d

\* The debit the user selected for a bill stays free for it: no other bill is
\* paid with it while this one waits for the confirmation.
SelectionIsHonoured ==
    \A b \in Bills : \A d \in DOMAIN db.cand[b] :
        db.cand[b][d] = "selected" =>
            /\ db.bill[b].status = "unpaid"
            /\ \A c \in Bills : db.bill[c].payoff # d

\* A request has its effect at most once and all its deliveries get one
\* answer, through replays, lost answers, keys used again and records that
\* expired.
RepeatsChangeNothing ==
    \A i \in DOMAIN sent : sent[i].effects <= 1 /\ Cardinality(sent[i].answers) <= 1

\* A request changes a bill only if the bill is still what the client was
\* shown when it decided, its payment candidates included.
DecisionsAreInformed ==
    [][\A i \in DOMAIN sent : sent'[i].effects > sent[i].effects =>
          Shown(db, sent[i].bill) = sent[i].view]_vars

\* As long as the bank account is open, an unpaid bill can be paid in full.  It
\* cannot while a suggested debit of it fits no longer.
UnpaidIsPayable ==
    \A b \in Bills :
        (db.bill[b].status = "unpaid" /\ db.open /\ Unused # {}) =>
            LET d == CHOOSE t \in Unused : TRUE
            IN Legal(PaidInFull(db, b, d), b, Touched(db, b, NoRows))

=============================================================================
