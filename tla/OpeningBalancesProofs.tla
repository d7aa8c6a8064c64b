----------------------- MODULE OpeningBalancesProofs -----------------------
(***************************************************************************)
(* Theorems about OpeningBalances for every set of accounts, amounts and   *)
(* keys and any number of requests, sendings and movements.                *)
(***************************************************************************)
EXTENDS OpeningBalances, SequenceTheorems, TLAPS

USE BalancesAssumption

\* A request has all its fields.
Whole(r) ==
    r = [op |-> r.op, account |-> r.account, expected |-> r.expected,
         shown |-> r.shown, balance |-> r.balance, asOf |-> r.asOf, key |-> r.key,
         stage |-> r.stage, times |-> r.times, seen |-> r.seen, left |-> r.left,
         views |-> r.views, effects |-> r.effects, answers |-> r.answers]

\* What a client asks for when it sets a baseline.
IsAsked(r) ==
    /\ r.account \in Accounts
    /\ r.expected \in Nat
    /\ r.balance \in Amounts
    /\ r.asOf \in Nat

\* The client was shown the baseline of the version it expects.
IsInformed(r, acc) ==
    /\ r.expected <= acc.version
    /\ r.expected = acc.version => acc = r.shown

\* A request that took effect has made the version it expected history.
IsSpent(r, acc) ==
    /\ r.effects \in {0, 1}
    /\ r.effects = 1 => r.expected < acc.version

\* What it is about to answer, and has answered, is the version it made.
IsAnswered(r) ==
    /\ r.stage = "viewing" => /\ r.left = <<r.account>>
                              /\ r.seen[r.account].version = r.expected + 1
    /\ \A answer \in r.answers : answer[r.account].version = r.expected + 1

RequestsFit ==
    /\ Len(sent) \in Nat
    /\ sent = [i \in 1..Len(sent) |-> sent[i]]
    /\ \A i \in DOMAIN sent :
         /\ Whole(sent[i])
         /\ sent[i].effects \in Nat
         /\ sent[i].op = "set" =>
              /\ IsAsked(sent[i])
              /\ IsInformed(sent[i], account[sent[i].account])
              /\ IsSpent(sent[i], account[sent[i].account])
              /\ IsAnswered(sent[i])

Revision == [balance : Amounts, asOf : Nat]

\* The projections are those of the latest revisions.
AccountsFit ==
    /\ now \in Nat
    /\ account = [a \in Accounts |-> account[a]]
    /\ history \in [Accounts -> Seq(Revision)]
    /\ \A a \in Accounts :
         /\ account[a].version = Len(history[a])
         /\ account[a].version > 0 =>
              [balance |-> account[a].balance, asOf |-> account[a].asOf] = Last(history[a])
         /\ \A n \in DOMAIN history[a] : history[a][n].asOf <= now

\* A record holds the version that the request it is about has made.
RecordsFit ==
    /\ kept = [k \in DOMAIN kept |-> kept[k]]
    /\ \A k \in DOMAIN kept : kept[k].response.version = kept[k].digest[2] + 1

BalancesInv == AccountsFit /\ RecordsFit /\ RequestsFit
----------------------------------------------------------------------------

\* The same request, wherever it has got to.
SameAs(s, r) ==
    /\ Whole(s)
    /\ s.op = r.op /\ s.account = r.account /\ s.expected = r.expected
    /\ s.shown = r.shown /\ s.balance = r.balance /\ s.asOf = r.asOf

\* A request that another stage is written to, that is sent again, whose views
\* are to come, that took effect, and that has one view more.
Staged(r, stage) == [r EXCEPT !.stage = stage]

Restarted(r) == [r EXCEPT !.stage = "sent", !.times = r.times + 1]

Viewing(r, seen, left) ==
    [r EXCEPT !.stage = "viewing", !.seen = seen, !.left = left, !.views = <<>>]

Effective(r, seen, left) ==
    [r EXCEPT !.stage = "viewing", !.seen = seen, !.left = left, !.views = <<>>,
              !.effects = r.effects + 1]

Viewed(r, views, left, stage, answers) ==
    [r EXCEPT !.views = views, !.left = left, !.stage = stage, !.answers = answers]

\* What a step writes, and what it leaves.
LEMMA StagedFields ==
    ASSUME NEW r, Whole(r), NEW stage
    PROVE  LET s == Staged(r, stage) IN
           /\ SameAs(s, r) /\ s.effects = r.effects /\ s.answers = r.answers
           /\ s.stage = stage
<1>1. PICK s : s = Staged(r, stage)
  OBVIOUS
<1>2. /\ SameAs(s, r) /\ s.effects = r.effects /\ s.answers = r.answers
      /\ s.stage = stage
  BY <1>1 DEF Whole, SameAs, Staged
<1> QED BY <1>1, <1>2

\* A request that is sent again keeps what it asked for and what it did.
LEMMA RestartedFields ==
    ASSUME NEW r, Whole(r)
    PROVE  LET s == Restarted(r) IN
           /\ SameAs(s, r) /\ s.effects = r.effects /\ s.answers = r.answers
           /\ s.stage = "sent"
<1> DEFINE times == r.times + 1
<1> HIDE DEF times
<1>1. PICK s : s = [r EXCEPT !.stage = "sent", !.times = times]
  OBVIOUS
<1>2. /\ SameAs(s, r) /\ s.effects = r.effects /\ s.answers = r.answers
      /\ s.stage = "sent"
  BY <1>1 DEF Whole, SameAs
<1>3. s = Restarted(r)
  BY <1>1 DEF times, Restarted
<1> QED BY <1>2, <1>3

\* A request that goes on to its views keeps its effect and its answers.
LEMMA ViewingFields ==
    ASSUME NEW r, Whole(r), NEW seen, NEW left
    PROVE  LET s == Viewing(r, seen, left) IN
           /\ SameAs(s, r) /\ s.effects = r.effects /\ s.answers = r.answers
           /\ s.stage = "viewing" /\ s.seen = seen /\ s.left = left
<1>1. PICK s : s = Viewing(r, seen, left)
  OBVIOUS
<1>2. /\ SameAs(s, r) /\ s.effects = r.effects /\ s.answers = r.answers
      /\ s.stage = "viewing" /\ s.seen = seen /\ s.left = left
  BY <1>1 DEF Whole, SameAs, Viewing
<1> QED BY <1>1, <1>2

\* A request that took effect is viewed next, and has one effect more.
LEMMA EffectiveFields ==
    ASSUME NEW r, Whole(r), NEW seen, NEW left
    PROVE  LET s == Effective(r, seen, left) IN
           /\ SameAs(s, r) /\ s.effects = r.effects + 1 /\ s.answers = r.answers
           /\ s.stage = "viewing" /\ s.seen = seen /\ s.left = left
<1> DEFINE effects == r.effects + 1
<1> HIDE DEF effects
<1>1. PICK s : s = [r EXCEPT !.stage = "viewing", !.seen = seen, !.left = left,
                             !.views = <<>>, !.effects = effects]
  OBVIOUS
<1>2. /\ SameAs(s, r) /\ s.effects = effects /\ s.answers = r.answers
      /\ s.stage = "viewing" /\ s.seen = seen /\ s.left = left
  BY <1>1 DEF Whole, SameAs
<1>3. s = Effective(r, seen, left)
  BY <1>1 DEF effects, Effective
<1> QED BY <1>2, <1>3 DEF effects

\* One view more changes the answers and the stage, never the effect.
LEMMA ViewedFields ==
    ASSUME NEW r, Whole(r), NEW views, NEW left, NEW stage, NEW answers
    PROVE  LET s == Viewed(r, views, left, stage, answers) IN
           /\ SameAs(s, r) /\ s.effects = r.effects /\ s.answers = answers
           /\ s.stage = stage
<1>1. PICK s : s = Viewed(r, views, left, stage, answers)
  OBVIOUS
<1>2. /\ SameAs(s, r) /\ s.effects = r.effects /\ s.answers = answers
      /\ s.stage = stage
  BY <1>1 DEF Whole, SameAs, Viewed
<1> QED BY <1>1, <1>2

\* A request changes as far as its step says.
LEMMA OneRequest ==
    ASSUME RequestsFit, NEW i \in DOMAIN sent, NEW new, sent' = [sent EXCEPT ![i] = new]
    PROVE  /\ Len(sent') = Len(sent) /\ DOMAIN sent' = DOMAIN sent
           /\ sent' = [j \in 1..Len(sent') |-> sent'[j]]
           /\ sent'[i] = new
           /\ \A j \in DOMAIN sent \ {i} : sent'[j] = sent[j]
<1> DEFINE S == {sent[j] : j \in 1..Len(sent)} \cup {new}
           n == Len(sent)
<1>1. n \in Nat /\ DOMAIN sent = 1..n
  BY DEF RequestsFit
<1>2. sent' \in [1..n -> S]
  BY <1>1 DEF RequestsFit
<1> HIDE DEF S
<1>3. Len(sent') = n
  BY <1>1, <1>2
<1> QED BY <1>1, <1>2, <1>3 DEF RequestsFit

\* Steps of a request that leave accounts and records alone.
LEMMA RequestMoves ==
    ASSUME BalancesInv, UNCHANGED <<account, history, kept, now>>,
           NEW i \in DOMAIN sent, NEW new, sent' = [sent EXCEPT ![i] = new],
           SameAs(new, sent[i]), new.effects = sent[i].effects,
           new.op = "set" => IsAnswered(new)
    PROVE  BalancesInv'
<1>1. AccountsFit' /\ RecordsFit'
  BY DEF BalancesInv, AccountsFit, RecordsFit
<1>2. /\ Len(sent') = Len(sent) /\ DOMAIN sent' = DOMAIN sent
      /\ sent' = [j \in 1..Len(sent') |-> sent'[j]]
      /\ sent'[i] = new
      /\ \A j \in DOMAIN sent \ {i} : sent'[j] = sent[j]
  BY OneRequest DEF BalancesInv
<1>3. ASSUME new.op = "set"
      PROVE  /\ IsAsked(new)
             /\ IsInformed(new, account'[new.account])
             /\ IsSpent(new, account'[new.account])
  BY <1>3 DEF BalancesInv, RequestsFit, SameAs, IsAsked, IsInformed, IsSpent
<1>4. ASSUME NEW j \in DOMAIN sent'
      PROVE  /\ Whole(sent'[j])
             /\ sent'[j].effects \in Nat
             /\ sent'[j].op = "set" =>
                  /\ IsAsked(sent'[j])
                  /\ IsInformed(sent'[j], account'[sent'[j].account])
                  /\ IsSpent(sent'[j], account'[sent'[j].account])
                  /\ IsAnswered(sent'[j])
  <2>1. CASE j = i
    BY <2>1, <1>2, <1>3 DEF BalancesInv, RequestsFit, SameAs
  <2>2. CASE j # i
    BY <2>2, <1>2, <1>4 DEF BalancesInv, RequestsFit
  <2> QED BY <2>1, <2>2
<1>5. RequestsFit'
  BY <1>2, <1>4 DEF BalancesInv, RequestsFit
<1> QED BY <1>1, <1>5 DEF BalancesInv

\* A view is of the version of the account that was read.
LEMMA ViewVersion ==
    ASSUME NEW a, NEW acc
    PROVE  BalanceView(a, acc).version = acc.version
<1> DEFINE current == IF ~Configured(acc) THEN None
                      ELSE FoldLeft(LAMBDA total, m : Add(total, Delta(m)),
                                    acc.balance, MovementsAfter(a, acc.asOf))
<1>1. BalanceView(a, acc) = [version |-> acc.version, opening |-> acc.balance,
                             current |-> current]
  BY DEF BalanceView
<1> HIDE DEF current
<1> QED BY <1>1

\* The validation of SetOpeningBalance moves its request only.
LEMMA ValidateFits ==
    ASSUME BalancesInv, NEW i \in DOMAIN sent, Validate(i)
    PROVE  BalancesInv'
<1>1. Whole(sent[i]) /\ (sent[i].op = "set" => IsAnswered(sent[i]))
  BY DEF BalancesInv, RequestsFit
<1>2. PICK stage \in {"valid", "done"} : sent' = [sent EXCEPT ![i].stage = stage]
  BY DEF Validate, Refuse
<1> DEFINE new == Staged(sent[i], stage)
<1>3. sent' = [sent EXCEPT ![i] = new]
  BY <1>2 DEF Staged
<1> HIDE DEF new
<1>4. /\ SameAs(new, sent[i]) /\ new.effects = sent[i].effects
      /\ new.stage # "viewing" /\ new.answers = sent[i].answers
  BY <1>1, <1>2, StagedFields DEF new
<1>5. new.op = "set" => IsAnswered(new)
  BY <1>1, <1>4 DEF IsAnswered, SameAs
<1> QED BY <1>3, <1>4, <1>5, RequestMoves DEF Validate

\* A replay is of a record with the digest of the request, so of its version.
LEMMA ReplayFits ==
    ASSUME BalancesInv, NEW i \in DOMAIN sent, Replay(i)
    PROVE  BalancesInv'
<1>1. Whole(sent[i]) /\ sent[i].op = "set" /\ IsAnswered(sent[i])
  BY DEF BalancesInv, RequestsFit, Replay
<1>2. CASE sent' = [sent EXCEPT ![i].stage = "done"]
  <2> DEFINE new == Staged(sent[i], "done")
  <2>1. sent' = [sent EXCEPT ![i] = new]
    BY <1>2 DEF Staged
  <2> HIDE DEF new
  <2>2. /\ SameAs(new, sent[i]) /\ new.effects = sent[i].effects
        /\ new.stage # "viewing" /\ new.answers = sent[i].answers
    BY <1>1, StagedFields DEF new
  <2>3. IsAnswered(new)
    BY <1>1, <2>2 DEF IsAnswered, SameAs
  <2> QED BY <2>1, <2>2, <2>3, RequestMoves DEF Replay
<1>3. CASE sent' # [sent EXCEPT ![i].stage = "done"]
  <2> DEFINE seen == [a \in {sent[i].account} |-> StoredResponse(sent[i])]
  <2> DEFINE new == Viewing(sent[i], seen, <<sent[i].account>>)
  <2>2. /\ sent' = [sent EXCEPT ![i] = new]
        /\ sent[i].key \in DOMAIN kept
        /\ kept[sent[i].key].digest = Digest(sent[i])
    BY <1>3 DEF Replay, Views, Refuse, Viewing
  <2>3. /\ seen[sent[i].account] = kept[sent[i].key].response
        /\ kept[sent[i].key].response.version = sent[i].expected + 1
    BY <2>2 DEF StoredResponse, Digest, BalancesInv, RecordsFit
  <2> HIDE DEF seen, new
  <2>4. /\ SameAs(new, sent[i]) /\ new.effects = sent[i].effects
        /\ new.left = <<sent[i].account>> /\ new.seen = seen /\ new.answers = sent[i].answers
    BY <1>1, ViewingFields DEF new
  <2>5. IsAnswered(new)
    BY <1>1, <2>3, <2>4 DEF IsAnswered, SameAs
  <2> QED BY <2>2, <2>4, <2>5, RequestMoves DEF Replay
<1> QED BY <1>2, <1>3

\* Reading accounts moves requests that set nothing.
LEMMA ReadAccountsFits ==
    ASSUME BalancesInv, NEW i \in DOMAIN sent, ReadAccounts(i)
    PROVE  BalancesInv'
<1>1. Whole(sent[i]) /\ sent[i].op # "set"
  BY DEF BalancesInv, RequestsFit, ReadAccounts
<1>2. PICK seen, order :
        sent' = [sent EXCEPT ![i] = Viewing(sent[i], seen, order)]
  BY DEF ReadAccounts, Views, Viewing
<1> DEFINE new == Viewing(sent[i], seen, order)
<1>3. SameAs(new, sent[i]) /\ new.effects = sent[i].effects
  BY <1>1, ViewingFields
<1> HIDE DEF new
<1>4. sent' = [sent EXCEPT ![i] = new]
  BY <1>2 DEF new
<1> QED BY <1>1, <1>3, <1>4, RequestMoves DEF ReadAccounts, SameAs

\* The answer of a request that sets is the view of the one account it has left.
LEMMA ViewFits ==
    ASSUME BalancesInv, NEW i \in DOMAIN sent, View(i)
    PROVE  BalancesInv'
<1> DEFINE r == sent[i]
           a == Head(r.left)
           view == BalanceView(a, r.seen[a])
           views == [b \in DOMAIN r.views \cup {a} |-> IF b = a THEN view ELSE r.views[b]]
           over == view.current = Refused \/ Len(r.left) = 1
           stage == IF over THEN "done" ELSE "viewing"
           answers == IF over /\ view.current # Refused THEN r.answers \cup {views}
                      ELSE r.answers
           rest == Tail(r.left)
           new == Viewed(r, views, rest, stage, answers)
<1>1. Whole(r) /\ r.stage = "viewing" /\ (r.op = "set" => IsAnswered(r))
  BY DEF BalancesInv, RequestsFit, View
<1>2. sent' = [sent EXCEPT ![i] = new]
  BY Zenon DEF View, Viewed
<1>3. view.version = r.seen[a].version /\ views[a] = view
  BY ViewVersion
<1>4. ASSUME r.op = "set"
      PROVE  stage = "done" /\ \A answer \in answers : answer[r.account].version = r.expected + 1
  <2>1. r.left = <<r.account>> /\ r.seen[r.account].version = r.expected + 1
    BY <1>1, <1>4 DEF IsAnswered
  <2>2. a = r.account /\ Len(r.left) = 1
    BY <2>1
  <2>3. views[r.account].version = r.expected + 1
    BY <1>3, <2>1, <2>2
  <2>4. stage = "done"
    BY <2>2
  <2> HIDE DEF views, view
  <2> QED BY <2>3, <2>4, <1>1, <1>4 DEF IsAnswered
<1> HIDE DEF views, stage, answers, rest
<1>5. /\ SameAs(new, r) /\ new.effects = r.effects
      /\ new.stage = stage /\ new.answers = answers
  BY <1>1, ViewedFields
<1> HIDE DEF new
<1>6. new.op = "set" => IsAnswered(new)
  BY <1>4, <1>5 DEF IsAnswered, SameAs
<1> QED BY <1>2, <1>5, <1>6, RequestMoves DEF View

\* A request that is sent again is in no view.
LEMMA SendAgainFits ==
    ASSUME BalancesInv, NEW i \in DOMAIN sent, SendAgain(i)
    PROVE  BalancesInv'
<1> DEFINE new == Restarted(sent[i])
<1>1. Whole(sent[i]) /\ sent[i].op = "set" /\ IsAnswered(sent[i])
  BY DEF BalancesInv, RequestsFit, SendAgain
<1>2. sent' = [sent EXCEPT ![i] = new]
  BY Zenon DEF SendAgain, Restarted
<1>3. /\ SameAs(new, sent[i]) /\ new.effects = sent[i].effects
      /\ new.stage = "sent" /\ new.answers = sent[i].answers
  BY <1>1, RestartedFields
<1> HIDE DEF new
<1>4. IsAnswered(new)
  BY <1>1, <1>3 DEF IsAnswered, SameAs
<1> QED BY <1>2, <1>3, <1>4, RequestMoves DEF SendAgain

\* A new request is about the baseline that its client was shown.
LEMMA SendFits ==
    ASSUME BalancesInv, NEW op, NEW a, NEW balance, NEW asOf, NEW key,
           Send(op, a, balance, asOf, key),
           op = "set" => a \in Accounts /\ balance \in Amounts /\ asOf \in Nat
    PROVE  BalancesInv'
<1> DEFINE new == [op |-> op, account |-> a, expected |-> account[a].version,
                   shown |-> account[a], balance |-> balance, asOf |-> asOf,
                   key |-> key, stage |-> "sent", times |-> 1, seen |-> <<>>,
                   left |-> <<>>, views |-> <<>>, effects |-> 0, answers |-> {}]
           n == Len(sent)
           S == {sent[j] : j \in 1..n} \cup {new}
<1>1. n \in Nat /\ DOMAIN sent = 1..n /\ sent' = Append(sent, new)
  BY DEF BalancesInv, RequestsFit, Send
<1>2. /\ Whole(new) /\ new.op = op /\ new.effects = 0 /\ new.effects \in Nat
      /\ new.stage = "sent" /\ new.answers = {} /\ new.account = a
      /\ new.expected = account[a].version /\ new.shown = account[a]
      /\ new.balance = balance /\ new.asOf = asOf
  BY DEF Whole
<1>3. sent \in Seq(S) /\ new \in S
  <2> HIDE DEF new
  <2>1. sent \in [1..n -> S]
    BY <1>1 DEF BalancesInv, RequestsFit
  <2> QED BY <1>1, <2>1
<1> HIDE DEF new, S
<1>4. /\ Len(sent') = n + 1 /\ DOMAIN sent' = 1..(n + 1)
      /\ sent' = [j \in 1..Len(sent') |-> sent'[j]]
      /\ sent'[n + 1] = new
      /\ \A j \in 1..n : sent'[j] = sent[j]
  <2>1. /\ sent' \in Seq(S)
        /\ Len(sent') = n + 1
        /\ \A j \in 1..n : sent'[j] = sent[j]
        /\ sent'[n + 1] = new
    BY <1>1, <1>3, AppendProperties
  <2>2. sent' \in [1..(n + 1) -> S]
    BY <2>1, LenProperties
  <2> QED BY <2>1, <2>2
<1>5. /\ UNCHANGED <<account, history, kept, now>>
      /\ AccountsFit' /\ RecordsFit'
  BY DEF Send, BalancesInv, AccountsFit, RecordsFit
<1>6. ASSUME op = "set"
      PROVE  /\ IsAsked(new) /\ IsInformed(new, account[a]) /\ IsSpent(new, account[a])
             /\ IsAnswered(new)
  <2>1. account[a].version \in Nat
    BY <1>6 DEF BalancesInv, AccountsFit
  <2> QED BY <2>1, <1>2, <1>6 DEF IsAsked, IsInformed, IsSpent, IsAnswered
<1>7. ASSUME NEW j \in 1..(n + 1)
      PROVE  /\ Whole(sent'[j])
             /\ sent'[j].effects \in Nat
             /\ sent'[j].op = "set" =>
                  /\ IsAsked(sent'[j])
                  /\ IsInformed(sent'[j], account'[sent'[j].account])
                  /\ IsSpent(sent'[j], account'[sent'[j].account])
                  /\ IsAnswered(sent'[j])
  <2>1. CASE j = n + 1
    BY <2>1, <1>2, <1>4, <1>5, <1>6
  <2>2. CASE j \in 1..n
    BY <2>2, <1>1, <1>4, <1>5 DEF BalancesInv, RequestsFit
  <2> QED BY <2>1, <2>2, <1>1
<1>8. RequestsFit'
  BY <1>1, <1>4, <1>7 DEF RequestsFit
<1> QED BY <1>5, <1>8 DEF BalancesInv

\* The transaction that replaces the baseline of the version the request expects.
LEMMA ReplaceTakesEffect ==
    ASSUME BalancesInv, NEW i \in DOMAIN sent, Replace(i),
           ~(sent' = [sent EXCEPT ![i].stage = "done"] /\ UNCHANGED <<account, history, kept>>)
    PROVE  LET r == sent[i]
               a == r.account
               new == [version |-> r.expected + 1, balance |-> r.balance, asOf |-> r.asOf]
           IN  /\ account[a].version = r.expected
               /\ r.asOf <= now
               /\ account' = [account EXCEPT ![a] = new]
               /\ history' = [history EXCEPT ![a] =
                                Append(history[a], [balance |-> r.balance, asOf |-> r.asOf])]
               /\ kept' = [k \in DOMAIN kept \cup {r.key} |->
                             IF k = r.key THEN [digest |-> Digest(r), response |-> new]
                             ELSE kept[k]]
               /\ sent' = [sent EXCEPT ![i] = Effective(r, [b \in {a} |-> new], <<a>>)]
<1> DEFINE r == sent[i]
           a == r.account
           new == Replaced(account[a], r)
<1>1. new # None /\ NotAhead(r)
  BY DEF Replace, Refuse
<1>2. /\ account[a].version = r.expected
      /\ new = [version |-> r.expected + 1, balance |-> r.balance, asOf |-> r.asOf]
  BY <1>1 DEF Replaced
<1>3. /\ account' = [account EXCEPT ![a] = new]
      /\ history' = [history EXCEPT ![a] =
                       Append(history[a], [balance |-> r.balance, asOf |-> r.asOf])]
      /\ kept' = [k \in DOMAIN kept \cup {r.key} |->
                    IF k = r.key THEN [digest |-> Digest(r), response |-> new]
                    ELSE kept[k]]
      /\ sent' = [sent EXCEPT ![i] = Effective(r, [b \in {a} |-> new], <<a>>)]
  BY Zenon DEF Replace, Refuse, Effective
<1> HIDE DEF new
<1> QED BY <1>1, <1>2, <1>3 DEF NotAhead

\* The replacement makes the version after the one expected, so that the client of
\* no other request was shown what the account is now.
LEMMA ReplaceFits ==
    ASSUME BalancesInv, NEW i \in DOMAIN sent, Replace(i)
    PROVE  BalancesInv'
<1> DEFINE r == sent[i]
           a == r.account
           revision == [balance |-> r.balance, asOf |-> r.asOf]
           next == [version |-> r.expected + 1, balance |-> r.balance, asOf |-> r.asOf]
<1>1. /\ Whole(r) /\ r.op = "set"
      /\ IsAsked(r) /\ IsInformed(r, account[a]) /\ IsSpent(r, account[a]) /\ IsAnswered(r)
  BY DEF BalancesInv, RequestsFit, Replace
<1>2. CASE sent' = [sent EXCEPT ![i].stage = "done"] /\ UNCHANGED <<account, history, kept>>
  <2> DEFINE new == Staged(r, "done")
  <2>1. sent' = [sent EXCEPT ![i] = new]
    BY <1>2 DEF Staged
  <2>2. /\ SameAs(new, r) /\ new.effects = r.effects
        /\ new.stage # "viewing" /\ new.answers = r.answers
    BY <1>1, StagedFields
  <2> HIDE DEF new
  <2>3. IsAnswered(new)
    BY <1>1, <2>2 DEF IsAnswered, SameAs
  <2> QED BY <1>2, <2>1, <2>2, <2>3, RequestMoves DEF Replace
<1>3. CASE ~(sent' = [sent EXCEPT ![i].stage = "done"] /\ UNCHANGED <<account, history, kept>>)
  <2> DEFINE seen == [b \in {a} |-> next]
             new == Effective(r, seen, <<a>>)
  <2>1. /\ account[a].version = r.expected
        /\ r.asOf <= now
        /\ account' = [account EXCEPT ![a] = next]
        /\ history' = [history EXCEPT ![a] = Append(history[a], revision)]
        /\ kept' = [k \in DOMAIN kept \cup {r.key} |->
                      IF k = r.key THEN [digest |-> Digest(r), response |-> next]
                      ELSE kept[k]]
        /\ sent' = [sent EXCEPT ![i] = new]
    BY <1>3, ReplaceTakesEffect
  <2>2. /\ SameAs(new, r) /\ new.effects = r.effects + 1
        /\ new.left = <<a>> /\ new.seen = seen /\ new.answers = r.answers
    BY <1>1, EffectiveFields
  <2>3. seen[a] = next
    OBVIOUS
  <2>4. now' = now /\ a \in Accounts /\ r.expected \in Nat /\ revision \in Revision
    BY <1>1 DEF Replace, IsAsked, Revision
  <2>5. next.version = r.expected + 1 /\ next.balance = r.balance /\ next.asOf = r.asOf
    OBVIOUS
  <2>6. Digest(r)[2] = r.expected
    BY DEF Digest
  <2> HIDE DEF seen, new, next, revision
  <2>7. /\ account' = [b \in Accounts |-> account'[b]]
        /\ account'[a] = next
        /\ \A b \in Accounts \ {a} : account'[b] = account[b]
    BY <2>1, <2>4 DEF BalancesInv, AccountsFit
  <2>8. AccountsFit'
    <3>1. /\ history[a] \in Seq(Revision) /\ account[a].version = Len(history[a])
          /\ \A n \in DOMAIN history[a] : history[a][n].asOf <= now
      BY <2>4 DEF BalancesInv, AccountsFit
    <3> DEFINE h == Append(history[a], revision)
    <3>2. /\ h \in Seq(Revision) /\ Len(h) = Len(history[a]) + 1
          /\ h[Len(h)] = revision
          /\ \A n \in 1..Len(history[a]) : h[n] = history[a][n]
      BY <3>1, <2>4, AppendProperties
    <3> HIDE DEF h
    <3>3. /\ history' \in [Accounts -> Seq(Revision)]
          /\ history'[a] = h
          /\ \A b \in Accounts \ {a} : history'[b] = history[b]
      BY <2>1, <2>4, <3>2 DEF BalancesInv, AccountsFit, h
    <3>4. next.version = Len(h)
      BY <2>1, <2>5, <3>1, <3>2
    <3>5. [balance |-> next.balance, asOf |-> next.asOf] = Last(h)
      BY <2>5, <3>2 DEF Last, revision
    <3>6. \A n \in DOMAIN h : h[n].asOf <= now
      <4>1. DOMAIN h = 1..(Len(history[a]) + 1) /\ DOMAIN history[a] = 1..Len(history[a])
            /\ Len(history[a]) \in Nat
        BY <3>1, <3>2
      <4>2. revision.asOf <= now
        BY <2>1 DEF revision
      <4>3. ASSUME NEW n \in DOMAIN h PROVE h[n].asOf <= now
        <5>1. CASE n = Len(h)
          BY <5>1, <4>2, <3>2
        <5>2. CASE n # Len(h)
          <6>1. n \in 1..Len(history[a])
            BY <5>2, <4>1, <3>2
          <6>2. history[a][n].asOf <= now /\ h[n] = history[a][n]
            BY <6>1, <4>1, <3>1, <3>2
          <6> QED BY <6>2
        <5> QED BY <5>1, <5>2
      <4> QED BY <4>3
    <3>7. ASSUME NEW b \in Accounts
          PROVE  /\ account'[b].version = Len(history'[b])
                 /\ account'[b].version > 0 =>
                      [balance |-> account'[b].balance, asOf |-> account'[b].asOf]
                        = Last(history'[b])
                 /\ \A n \in DOMAIN history'[b] : history'[b][n].asOf <= now
      <4>1. CASE b = a
        BY <4>1, <2>7, <3>3, <3>4, <3>5, <3>6
      <4>2. CASE b # a
        BY <4>2, <2>7, <3>3 DEF BalancesInv, AccountsFit
      <4> QED BY <4>1, <4>2
    <3> QED BY <2>4, <2>7, <3>3, <3>7 DEF BalancesInv, AccountsFit
  <2>9. RecordsFit'
    BY <2>1, <2>5, <2>6 DEF BalancesInv, RecordsFit
  <2>10. RequestsFit'
    <3>1. /\ Len(sent') = Len(sent) /\ DOMAIN sent' = DOMAIN sent
          /\ sent' = [j \in 1..Len(sent') |-> sent'[j]]
          /\ sent'[i] = new
          /\ \A j \in DOMAIN sent \ {i} : sent'[j] = sent[j]
      BY <2>1, OneRequest DEF BalancesInv
    <3>2. /\ IsAsked(new) /\ IsInformed(new, next) /\ IsSpent(new, next) /\ IsAnswered(new)
          /\ new.effects \in Nat
      BY <1>1, <2>1, <2>2, <2>3, <2>4, <2>5
         DEF SameAs, IsAsked, IsInformed, IsSpent, IsAnswered
    <3>3. ASSUME NEW j \in DOMAIN sent \ {i}, sent[j].op = "set"
          PROVE  /\ IsAsked(sent[j])
                 /\ IsInformed(sent[j], account'[sent[j].account])
                 /\ IsSpent(sent[j], account'[sent[j].account])
                 /\ IsAnswered(sent[j])
      <4>1. /\ IsAsked(sent[j])
            /\ IsInformed(sent[j], account[sent[j].account])
            /\ IsSpent(sent[j], account[sent[j].account])
            /\ IsAnswered(sent[j])
        BY <3>3 DEF BalancesInv, RequestsFit
      <4>2. CASE sent[j].account = a
        BY <4>1, <4>2, <2>1, <2>4, <2>5, <2>7 DEF IsAsked, IsInformed, IsSpent
      <4>3. CASE sent[j].account # a
        BY <4>1, <4>3, <2>7 DEF IsAsked
      <4> QED BY <4>1, <4>2, <4>3
    <3>4. ASSUME NEW j \in DOMAIN sent'
          PROVE  /\ Whole(sent'[j])
                 /\ sent'[j].effects \in Nat
                 /\ sent'[j].op = "set" =>
                      /\ IsAsked(sent'[j])
                      /\ IsInformed(sent'[j], account'[sent'[j].account])
                      /\ IsSpent(sent'[j], account'[sent'[j].account])
                      /\ IsAnswered(sent'[j])
      <4>1. CASE j = i
        BY <4>1, <3>1, <3>2, <2>2, <2>7 DEF SameAs
      <4>2. CASE j # i
        <5>1. sent'[j] = sent[j] /\ Whole(sent[j]) /\ sent[j].effects \in Nat
          BY <4>2, <3>1, <3>4 DEF BalancesInv, RequestsFit
        <5> QED BY <5>1, <4>2, <3>1, <3>3
      <4> QED BY <4>1, <4>2
    <3> QED BY <3>1, <3>4 DEF BalancesInv, RequestsFit
  <2> QED BY <2>8, <2>9, <2>10 DEF BalancesInv
<1> QED BY <1>2, <1>3

\* Every step keeps the baselines, the records and the requests together.
LEMMA BalancesStep == BalancesInv /\ [Next]_vars => BalancesInv'
<1> SUFFICES ASSUME BalancesInv, [Next]_vars PROVE BalancesInv'
  OBVIOUS
<1>1. CASE Server
  BY <1>1, ValidateFits, ReplayFits, ReplaceFits, ReadAccountsFits, ViewFits DEF Server
<1>2. CASE Clients
  <2>1. 0..MaxTime \subseteq Nat
    OBVIOUS
  <2>2. ASSUME NEW a \in Accounts, NEW balance \in Amounts, NEW asOf \in 0..MaxTime,
               NEW k \in Keys, Send("set", a, balance, asOf, k)
        PROVE  BalancesInv'
    BY <2>1, <2>2, SendFits
  <2>3. ASSUME NEW op \in {"get", "list"}, NEW a, Send(op, a, None, None, None)
        PROVE  BalancesInv'
    BY <2>3, SendFits
  <2> QED BY <1>2, <2>2, <2>3, SendAgainFits DEF Clients
<1>3. ASSUME UNCHANGED <<account, history, kept, sent, now>> PROVE BalancesInv'
  BY <1>3 DEF BalancesInv, AccountsFit, RecordsFit, RequestsFit
<1>4. CASE Ledger
  BY <1>4, <1>3 DEF Ledger, Book, Transfer, Unbook, Change
<1>5. CASE Tick
  <2>1. UNCHANGED <<account, history>> /\ now' = now + 1 /\ now \in Nat
    BY <1>5 DEF Tick, BalancesInv, AccountsFit
  <2>2. ASSUME NEW a \in Accounts, NEW n \in DOMAIN history[a]
        PROVE  history[a][n].asOf <= now + 1
    <3>1. history[a] \in Seq(Revision) /\ history[a][n].asOf <= now
      BY DEF BalancesInv, AccountsFit
    <3>2. history[a][n] \in Revision
      BY <3>1, ElementOfSeq, LenProperties
    <3>3. history[a][n].asOf \in Nat
      BY <3>2 DEF Revision
    <3> QED BY <2>1, <3>1, <3>3
  <2>3. AccountsFit'
    BY <2>1, <2>2 DEF BalancesInv, AccountsFit
  <2> QED BY <2>3, <1>5 DEF Tick, BalancesInv, RecordsFit, RequestsFit
<1>6. CASE \E k \in DOMAIN kept : Expire(k)
  BY <1>6 DEF Expire, BalancesInv, AccountsFit, RecordsFit, RequestsFit
<1>7. CASE UNCHANGED vars
  BY <1>7, <1>3 DEF vars
<1> QED BY <1>1, <1>2, <1>4, <1>5, <1>6, <1>7 DEF Next

\* It holds of accounts without baselines, without records and requests.
LEMMA BalancesInit == Init => BalancesInv
<1> SUFFICES ASSUME Init PROVE BalancesInv
  OBVIOUS
<1>1. AccountsFit
  BY DEF Init, AccountsFit, Unconfigured
<1>2. RecordsFit
  BY DEF Init, RecordsFit
<1>3. RequestsFit
  BY DEF Init, RequestsFit
<1> QED BY <1>1, <1>2, <1>3 DEF BalancesInv

\* So it holds throughout.
LEMMA BalancesHold == Spec => []BalancesInv
BY BalancesInit, BalancesStep, PTL DEF Spec

\* The projections of the accounts are those of their latest revisions.
THEOREM ProjectionsFollowRevisions == Spec => []TypeOK
<1>1. ASSUME BalancesInv, NEW a \in Accounts, NEW n \in DOMAIN history[a]
      PROVE  history[a][n].balance \in Amounts /\ history[a][n].asOf \in 0..now
  <2>1. now \in Nat /\ history[a] \in Seq(Revision) /\ history[a][n].asOf <= now
    BY <1>1 DEF BalancesInv, AccountsFit
  <2>2. history[a][n] \in Revision
    BY <2>1, ElementOfSeq, LenProperties
  <2> QED BY <2>1, <2>2 DEF Revision
<1>2. BalancesInv => TypeOK
  BY <1>1 DEF BalancesInv, AccountsFit, TypeOK, Configured
<1> QED BY <1>2, BalancesHold, PTL

\* Through any retries, reuse of keys, expiry and corrections of others, a
\* request takes effect at most once and is answered with its own version.
THEOREM EachRequestAppliesOnce == Spec => []RetriesApplyOnce
<1>1. BalancesInv => RetriesApplyOnce
  BY DEF BalancesInv, RequestsFit, IsSpent, IsAnswered, RetriesApplyOnce
<1> QED BY <1>1, BalancesHold, PTL

\* A baseline is replaced only by a request whose client was shown this very
\* baseline: the version check makes that so, since a version names a baseline.
THEOREM BaselinesChangeAsShown == Spec => CorrectionsAreInformed
<1> DEFINE Informed == \A i \in DOMAIN sent : sent'[i].effects > sent[i].effects =>
                          account[sent[i].account] = sent[i].shown
<1>1. ASSUME BalancesInv, UNCHANGED sent PROVE Informed
  BY <1>1 DEF BalancesInv, RequestsFit
<1>2. ASSUME BalancesInv, NEW i \in DOMAIN sent, NEW new, sent' = [sent EXCEPT ![i] = new],
             new.effects > sent[i].effects => account[sent[i].account] = sent[i].shown
      PROVE  Informed
  BY <1>2, OneRequest DEF BalancesInv, RequestsFit
<1>3. ASSUME BalancesInv, NEW i \in DOMAIN sent, NEW new, sent' = [sent EXCEPT ![i] = new],
             new.effects = sent[i].effects
      PROVE  Informed
  BY <1>2, <1>3 DEF BalancesInv, RequestsFit
<1>4. ASSUME BalancesInv, NEW i \in DOMAIN sent, Validate(i) PROVE Informed
  <2>1. Whole(sent[i])
    BY <1>4 DEF BalancesInv, RequestsFit
  <2>2. PICK stage \in {"valid", "done"} : sent' = [sent EXCEPT ![i] = Staged(sent[i], stage)]
    BY <1>4 DEF Validate, Refuse, Staged
  <2>3. Staged(sent[i], stage).effects = sent[i].effects
    BY <2>1, StagedFields
  <2> QED BY <1>3, <1>4, <2>2, <2>3
<1>5. ASSUME BalancesInv, NEW i \in DOMAIN sent, Replay(i) \/ ReadAccounts(i) PROVE Informed
  <2>1. Whole(sent[i])
    BY <1>5 DEF BalancesInv, RequestsFit
  <2>2. CASE sent' = [sent EXCEPT ![i] = Staged(sent[i], "done")]
    <3>1. Staged(sent[i], "done").effects = sent[i].effects
      BY <2>1, StagedFields
    <3> QED BY <1>3, <1>5, <2>2, <3>1
  <2>3. CASE sent' # [sent EXCEPT ![i] = Staged(sent[i], "done")]
    <3>1. PICK seen, order : sent' = [sent EXCEPT ![i] = Viewing(sent[i], seen, order)]
      BY <1>5, <2>3 DEF Replay, ReadAccounts, Views, Refuse, Staged, Viewing
    <3>2. Viewing(sent[i], seen, order).effects = sent[i].effects
      BY <2>1, ViewingFields
    <3> QED BY <1>3, <1>5, <3>1, <3>2
  <2> QED BY <2>2, <2>3
<1>6. ASSUME BalancesInv, NEW i \in DOMAIN sent, Replace(i) PROVE Informed
  <2>1. Whole(sent[i])
    BY <1>6 DEF BalancesInv, RequestsFit
  <2>2. CASE sent' = [sent EXCEPT ![i].stage = "done"] /\ UNCHANGED <<account, history, kept>>
    <3>1. sent' = [sent EXCEPT ![i] = Staged(sent[i], "done")]
      BY <2>2 DEF Staged
    <3>2. Staged(sent[i], "done").effects = sent[i].effects
      BY <2>1, StagedFields
    <3> QED BY <1>3, <1>6, <3>1, <3>2
  <2>3. CASE ~(sent' = [sent EXCEPT ![i].stage = "done"]
               /\ UNCHANGED <<account, history, kept>>)
    <3>1. /\ account[sent[i].account].version = sent[i].expected
          /\ \E new : sent' = [sent EXCEPT ![i] = new]
      BY <1>6, <2>3, ReplaceTakesEffect
    <3>2. account[sent[i].account] = sent[i].shown
      BY <1>6, <3>1 DEF Replace, BalancesInv, RequestsFit, IsInformed
    <3> QED BY <1>2, <1>6, <3>1, <3>2
  <2> QED BY <2>2, <2>3
<1>7. ASSUME BalancesInv, NEW i \in DOMAIN sent, View(i) PROVE Informed
  <2>1. Whole(sent[i])
    BY <1>7 DEF BalancesInv, RequestsFit
  <2>2. PICK views, rest, stage, answers :
          sent' = [sent EXCEPT ![i] = Viewed(sent[i], views, rest, stage, answers)]
    BY <1>7, Zenon DEF View, Viewed
  <2>3. Viewed(sent[i], views, rest, stage, answers).effects = sent[i].effects
    BY <2>1, ViewedFields
  <2> QED BY <1>3, <1>7, <2>2, <2>3
<1>8. ASSUME BalancesInv, NEW i \in DOMAIN sent, SendAgain(i) PROVE Informed
  <2>1. Whole(sent[i])
    BY <1>8 DEF BalancesInv, RequestsFit
  <2>2. sent' = [sent EXCEPT ![i] = Restarted(sent[i])]
    BY <1>8, Zenon DEF SendAgain, Restarted
  <2>3. Restarted(sent[i]).effects = sent[i].effects
    BY <2>1, RestartedFields
  <2> QED BY <1>3, <1>8, <2>2, <2>3
<1>9. ASSUME BalancesInv, NEW op, NEW a, NEW balance, NEW asOf, NEW key,
             Send(op, a, balance, asOf, key)
      PROVE  Informed
  <2>1. PICK new : sent' = Append(sent, new)
    BY <1>9 DEF Send
  <2>2. \A i \in DOMAIN sent : sent'[i] = sent[i]
    <3> DEFINE S == {sent[j] : j \in 1..Len(sent)} \cup {new}
    <3>1. DOMAIN sent = 1..Len(sent)
      BY <1>9 DEF BalancesInv, RequestsFit
    <3>2. sent \in [1..Len(sent) -> S] /\ new \in S
      BY <1>9 DEF BalancesInv, RequestsFit
    <3> HIDE DEF S
    <3>3. sent \in Seq(S)
      BY <1>9, <3>2 DEF BalancesInv, RequestsFit
    <3> QED BY <2>1, <3>1, <3>2, <3>3, AppendProperties
  <2> QED BY <1>9, <2>2 DEF BalancesInv, RequestsFit
<1>10. BalancesInv /\ [Next]_vars => Informed
  <2> SUFFICES ASSUME BalancesInv, [Next]_vars PROVE Informed
    OBVIOUS
  <2> HIDE DEF Informed
  <2>1. CASE Server
    BY <2>1, <1>4, <1>5, <1>6, <1>7 DEF Server
  <2>2. CASE Clients
    BY <2>2, <1>8, <1>9 DEF Clients
  <2>3. CASE UNCHANGED sent
    BY <2>3, <1>1
  <2>4. Ledger \/ Tick \/ (\E k \in DOMAIN kept : Expire(k)) \/ UNCHANGED vars => UNCHANGED sent
    BY DEF Ledger, Book, Transfer, Unbook, Change, Tick, Expire, vars
  <2> QED BY <2>1, <2>2, <2>3, <2>4 DEF Next
<1>11. BalancesInv /\ [Next]_vars =>
         [\A i \in DOMAIN sent : sent'[i].effects > sent[i].effects =>
            account[sent[i].account] = sent[i].shown]_vars
  BY <1>10
<1> QED BY <1>11, BalancesHold, PTL DEF Spec, CorrectionsAreInformed

=============================================================================
