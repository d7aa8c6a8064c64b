--------------------------- MODULE OpeningBalances ---------------------------
(***************************************************************************)
(* The opening balances of the accounts, their corrections, and the        *)
(* balances calculated from them: accountbalances.Service over             *)
(* accountbalancestore.                                                    *)
(*                                                                         *)
(* A request is several steps.  SetOpeningBalance validates against an     *)
(* account it read outside of any transaction, replaces the baseline in    *)
(* one, and calculates the balance it answers with in a third.             *)
(* ListBalances reads the accounts in one query and the movements of each  *)
(* account in one more.  Requests overlap, are sent again when an answer   *)
(* is lost, and the ledger changes between any two steps.                  *)
(*                                                                         *)
(* An account has one currency.  Amounts are integers of a width: the      *)
(* least is -Top - 1, the greatest Top, as for int64.                      *)
(***************************************************************************)
EXTENDS Integers, Sequences, FiniteSets, SequencesExt

CONSTANTS
    Order,       \* the accounts, as ListFinancialAccounts orders them
    Assets,      \* those of side asset, bank accounts; the others are cards
    Amounts,     \* amounts of openings and movements
    Top,         \* math.MaxInt64
    Keys,        \* idempotency keys
    MaxTime,     \* bound: the clock
    MaxRequests, \* bound: requests of the clients
    MaxSendings, \* bound: how often a client sends a request
    MaxMoves,    \* bound: changes of the ledger
    Refused,     \* the error of a balance out of range
    None         \* nothing

Accounts == Range(Order)

ASSUME BalancesAssumption ==
    /\ Assets \subseteq Accounts
    /\ Amounts \subseteq (-Top - 1)..Top
    /\ {Top, MaxTime, MaxRequests, MaxSendings, MaxMoves} \subseteq Nat

VARIABLES
    account, \* public.accounts: the projection of the baseline
    history, \* per account, the revisions in the order of their versions
    kept,    \* the idempotency records
    ledger,  \* the confirmed transactions
    moves,   \* how often the ledger changed
    sent,    \* the requests of the clients
    now      \* the clock

vars == <<account, history, kept, ledger, moves, sent, now>>

Unconfigured == [version |-> 0, balance |-> None, asOf |-> None]

Configured(acc) == acc.version > 0

----------------------------------------------------------------------------
(* balanceView: the calculation, in the width of int64.                    *)

Wrap(n) == ((n + Top + 1) % (2 * (Top + 1))) - (Top + 1)

\* A debit takes from an asset, a credit from a liability.
Delta(m) == IF (m.account \in Assets) = (m.kind = "debit") THEN -m.amount ELSE m.amount

\* MUTANT: only sums that grow are looked at.
OverflowsUpwards(current, delta) == delta > 0 /\ current > Top - delta

Overflows(current, delta) ==
    \/ delta > 0 /\ current > Top - delta
    \/ delta < 0 /\ current < (-Top - 1) - delta

Add(current, delta) ==
    IF current = Refused \/ Overflows(current, delta) THEN Refused
    ELSE Wrap(current + delta)

\* ListConfirmedMovementsAfter
MovementsAfter(a, asOf) ==
    SetToSortSeq({m \in ledger : m.account = a /\ m.at > asOf},
                 LAMBDA m, n : m.at < n.at \/ (m.at = n.at /\ m.id < n.id))

\* balanceView of an account that was read before.
BalanceView(a, acc) ==
    [version |-> acc.version,
     opening |-> acc.balance,
     current |-> IF ~Configured(acc) THEN None
                 ELSE FoldLeft(LAMBDA total, m : Add(total, Delta(m)),
                               acc.balance, MovementsAfter(a, acc.asOf))]

----------------------------------------------------------------------------
(* ReplaceOpeningBalance.                                                  *)

\* The no-op check of validate_account_opening_balance_state.
IsCorrection(revisions, r) ==
    revisions = <<>> \/ Last(revisions) # [balance |-> r.balance, asOf |-> r.asOf]

\* MUTANT: only the service looks at the time.
NotFarAhead(r) == r.asOf <= now + 1

\* Its check of the time, by the clock of the database.
NotAhead(r) == r.asOf <= now

\* MUTANT: the last request wins, whatever version it was about.
LastWins(acc, r) == [version |-> acc.version + 1, balance |-> r.balance, asOf |-> r.asOf]

\* The version check on the locked row; None is the conflict.
Replaced(acc, r) ==
    IF acc.version # r.expected THEN None
    ELSE [version |-> r.expected + 1, balance |-> r.balance, asOf |-> r.asOf]

Digest(r) == <<r.account, r.expected, r.balance, r.asOf>>

\* MUTANT: a retry gets the baseline as it is now.
ReplaysCurrent(r) == account[r.account]

\* The response in the idempotency record: the account as it was updated.
StoredResponse(r) == kept[r.key].response

\* The request goes on with the accounts in seen, whose views are to come.
Views(i, seen, order) ==
    sent' = [sent EXCEPT ![i] = [sent[i] EXCEPT !.stage = "viewing", !.seen = seen,
                                                !.left = order, !.views = <<>>]]

\* The service answers with an error.
Refuse(i) == sent' = [sent EXCEPT ![i].stage = "done"]

\* SetOpeningBalance up to its transaction: validation against the account as
\* it is now, and a tick of tolerance for the clock of the client.
IsValid(acc, r) ==
    /\ r.asOf <= now + 1
    /\ r.balance < 0 => r.account \in Assets
    /\ ~(/\ Configured(acc) /\ acc.version = r.expected
         /\ acc.balance = r.balance /\ acc.asOf = r.asOf)

Validate(i) ==
    LET r == sent[i]
    IN /\ r.op = "set"
       /\ r.stage = "sent"
       /\ IF IsValid(account[r.account], r)
          THEN sent' = [sent EXCEPT ![i].stage = "valid"]
          ELSE Refuse(i)
       /\ UNCHANGED <<account, history, kept, ledger, moves, now>>

\* claimOpeningBalanceIdempotency finds a record.
Replay(i) ==
    LET r == sent[i]
    IN /\ r.op = "set"
       /\ r.stage = "valid"
       /\ r.key \in DOMAIN kept
       /\ IF kept[r.key].digest = Digest(r)
          THEN Views(i, [a \in {r.account} |-> StoredResponse(r)], <<r.account>>)
          ELSE Refuse(i)
       /\ UNCHANGED <<account, history, kept, ledger, moves, now>>

\* The rest of the transaction; the trigger at its commit may refuse it.
Replace(i) ==
    LET r == sent[i]
        a == r.account
        new == Replaced(account[a], r)
    IN /\ r.op = "set"
       /\ r.stage = "valid"
       /\ r.key \notin DOMAIN kept
       /\ IF new # None /\ IsCorrection(history[a], r) /\ NotAhead(r)
          THEN /\ account' = [account EXCEPT ![a] = new]
               /\ history' = [history EXCEPT ![a] =
                                Append(@, [balance |-> r.balance, asOf |-> r.asOf])]
               /\ kept' = [k \in DOMAIN kept \cup {r.key} |->
                              IF k = r.key THEN [digest |-> Digest(r), response |-> new]
                              ELSE kept[k]]
               /\ sent' = [sent EXCEPT ![i] = [r EXCEPT
                             !.stage = "viewing", !.seen = [b \in {a} |-> new], !.left = <<a>>,
                             !.views = <<>>, !.effects = r.effects + 1]]
          ELSE Refuse(i) /\ UNCHANGED <<account, history, kept>>
       /\ UNCHANGED <<ledger, moves, now>>

\* idempotencyLifetime is over: the next claim takes the record as its own.
Expire(k) ==
    /\ kept' = [l \in DOMAIN kept \ {k} |-> kept[l]]
    /\ UNCHANGED <<account, history, ledger, moves, sent, now>>

----------------------------------------------------------------------------
(* GetBalance, ListBalances and the answers.                               *)

ReadAccounts(i) ==
    LET r == sent[i]
        order == IF r.op = "get" THEN <<r.account>> ELSE Order
    IN /\ r.op \in {"get", "list"}
       /\ r.stage = "sent"
       /\ Views(i, [a \in Range(order) |-> account[a]], order)
       /\ UNCHANGED <<account, history, kept, ledger, moves, now>>

\* The movements of the next account; a balance out of range is an error for
\* the whole request.
View(i) ==
    LET r == sent[i]
        a == Head(r.left)
        view == BalanceView(a, r.seen[a])
        views == [b \in DOMAIN r.views \cup {a} |-> IF b = a THEN view ELSE r.views[b]]
        over == view.current = Refused \/ Len(r.left) = 1
    IN /\ r.stage = "viewing"
       /\ sent' = [sent EXCEPT ![i] = [r EXCEPT
                     !.views = views,
                     !.left = Tail(r.left),
                     !.stage = IF over THEN "done" ELSE "viewing",
                     !.answers = IF over /\ view.current # Refused
                                 THEN r.answers \cup {views} ELSE r.answers]]
       /\ UNCHANGED <<account, history, kept, ledger, moves, now>>

----------------------------------------------------------------------------
(* The clients, the ledger and the clock.                                  *)

\* A client asks for what it was shown; expected is the version it saw.
Send(op, a, balance, asOf, key) ==
    /\ Len(sent) < MaxRequests
    /\ sent' = Append(sent, [op |-> op, account |-> a, expected |-> account[a].version,
                             shown |-> account[a], balance |-> balance, asOf |-> asOf,
                             key |-> key, stage |-> "sent", times |-> 1, seen |-> <<>>,
                             left |-> <<>>, views |-> <<>>, effects |-> 0, answers |-> {}])
    /\ UNCHANGED <<account, history, kept, ledger, moves, now>>

\* The answer is lost and the client sends its request again.
SendAgain(i) ==
    /\ sent[i].op = "set"
    /\ sent[i].stage = "done"
    /\ sent[i].times < MaxSendings
    /\ sent' = [sent EXCEPT ![i] = [sent[i] EXCEPT !.stage = "sent",
                                                    !.times = sent[i].times + 1]]
    /\ UNCHANGED <<account, history, kept, ledger, moves, now>>

Change(new) ==
    /\ moves < MaxMoves
    /\ moves' = moves + 1
    /\ ledger' = new
    /\ UNCHANGED <<account, history, kept, sent, now>>

Movement(id, a, kind, amount) ==
    [id |-> id, account |-> a, kind |-> kind, amount |-> amount, at |-> now]

\* A transaction of one account is confirmed.
Book(a, kind, amount) ==
    Change(ledger \cup {Movement(2 * moves, a, kind, amount)})

\* CreateInternalTransfer: both legs in one transaction.
Transfer(from, to, amount) ==
    Change(ledger \cup {Movement(2 * moves, from, "debit", amount),
                        Movement(2 * moves + 1, to, "credit", amount)})

\* A transaction is edited away, or deleted with its source.
Unbook(m) == Change(ledger \ {m})

Tick ==
    /\ now < MaxTime
    /\ now' = now + 1
    /\ UNCHANGED <<account, history, kept, ledger, moves, sent>>

----------------------------------------------------------------------------
Init ==
    /\ account = [a \in Accounts |-> Unconfigured]
    /\ history = [a \in Accounts |-> <<>>]
    /\ kept = <<>>
    /\ ledger = {}
    /\ moves = 0
    /\ sent = <<>>
    /\ now = 0

Server ==
    \E i \in DOMAIN sent : Validate(i) \/ Replay(i) \/ Replace(i) \/ ReadAccounts(i) \/ View(i)

Clients ==
    \/ \E a \in Accounts, balance \in Amounts, asOf \in 0..MaxTime, k \in Keys :
          Send("set", a, balance, asOf, k)
    \/ \E a \in Accounts : Send("get", a, None, None, None)
    \/ Send("list", Order[1], None, None, None)
    \/ \E i \in DOMAIN sent : SendAgain(i)

Ledger ==
    \/ \E amount \in {n \in Amounts : n > 0} :
          \/ \E a \in Accounts, kind \in {"debit", "credit"} : Book(a, kind, amount)
          \/ \E from \in Assets, to \in Accounts \ Assets : Transfer(from, to, amount)
    \/ \E m \in ledger : Unbook(m)

Next == Server \/ Clients \/ Ledger \/ Tick \/ \E k \in DOMAIN kept : Expire(k)

Spec == Init /\ [][Next]_vars

----------------------------------------------------------------------------
(* Properties.                                                             *)

\* The projections are those of the latest revisions, of values the columns
\* can hold.
TypeOK ==
    \A a \in Accounts :
        /\ account[a].version = Len(history[a])
        /\ Configured(account[a]) =>
              [balance |-> account[a].balance, asOf |-> account[a].asOf] = Last(history[a])
        /\ \A n \in DOMAIN history[a] :
              /\ history[a][n].balance \in Amounts
              /\ history[a][n].asOf \in 0..now

\* A baseline is replaced only by a request of a client that was shown this
\* very baseline, and is not shown another one since.
CorrectionsAreInformed ==
    [][\A i \in DOMAIN sent : sent'[i].effects > sent[i].effects =>
          account[sent[i].account] = sent[i].shown]_vars

\* A request replaces a baseline at most once and each of its answers is about
\* the version it made, through retries, reuse and expiry of its key and later
\* corrections by others.
RetriesApplyOnce ==
    \A i \in DOMAIN sent : sent[i].op = "set" =>
        /\ sent[i].effects <= 1
        /\ \A answer \in sent[i].answers :
              answer[sent[i].account].version = sent[i].expected + 1

\* What the movements of account a after asOf sum up to, in any order.
Total(a, asOf) ==
    FoldSet(LAMBDA m, total : total + Delta(m), 0,
            {m \in ledger : m.account = a /\ m.at > asOf})

\* A balance that is shown is the baseline that is shown with it plus the
\* movements since its moment, exactly: no sum wraps around on the way, and no
\* movement is missing or counted although the baseline holds it.
BalancesAreExact ==
    [][\A i \in DOMAIN sent : sent[i].stage = "viewing" /\ sent'[i].views # sent[i].views =>
          LET a == Head(sent[i].left)
              view == sent'[i].views[a]
          IN view.current \notin {Refused, None} =>
                view.current = view.opening + Total(a, sent[i].seen[a].asOf)]_vars

\* A retry is answered as the request was.  It is not: the current balance of
\* the answer is calculated anew.
RetriesReturnPriorResult ==
    \A i \in DOMAIN sent : sent[i].op = "set" => Cardinality(sent[i].answers) <= 1

\* Transfers leave the net worth as it is: a list of balances shows both legs
\* of a transfer or none, if both baselines are older than the transfers.  It
\* need not: the movements of each account are read by a query of their own.
TransfersAreNeutral ==
    \A i \in DOMAIN sent : \A answer \in sent[i].answers :
        LET worth(field) == FoldSet(LAMBDA a, sum : IF a \in Assets THEN sum + answer[a][field]
                                                    ELSE sum - answer[a][field],
                                    0, Accounts)
        IN /\ sent[i].op = "list"
           /\ \A a \in Accounts : Configured(answer[a])
           /\ \A m \in ledger : /\ \E n \in ledger \ {m} : n.id \div 2 = m.id \div 2
                                /\ \A a \in Accounts : m.at > sent[i].seen[a].asOf
           => worth("current") = worth("opening")

=============================================================================
