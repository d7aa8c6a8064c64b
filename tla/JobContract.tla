---------------------------- MODULE JobContract ----------------------------
(***************************************************************************)
(* What the durable queue promises about each job, with no clock, worker   *)
(* or lease in sight: attempts are counted and bounded, only the result of *)
(* the latest attempt decides a job, a decided job stays decided, and a    *)
(* cleanup job is never given up.                                          *)
(***************************************************************************)
EXTENDS Naturals

CONSTANTS Jobs, Cleanup, MaxAttempts

VARIABLES
    state,    \* [Jobs -> status of the job]
    attempt,  \* [Jobs -> Nat]: attempts started since the last reset
    result    \* [Jobs -> what is known of the latest attempt]

cvars == <<state, attempt, result>>

\* The latest attempt of a job: none, still going, reported, or given up by
\* the worker that made it.
Result == {"none", "going", "good", "bad", "lost"}

Becomes(j, s, n, r) ==
    /\ state'[j] = s
    /\ attempt'[j] = n
    /\ result'[j] = r

Same(j) == Becomes(j, state[j], attempt[j], result[j])

Submit(j) ==
    /\ state[j] = "absent"
    /\ Becomes(j, "queued", 0, "none")

Attempt(j) ==
    /\ state[j] \in {"queued", "running"}
    /\ attempt[j] < MaxAttempts
    /\ Becomes(j, "running", attempt[j] + 1, "going")

\* The attempt reports, or its worker is lost.
Report(j) ==
    /\ state[j] = "running"
    /\ result[j] = "going"
    /\ \E r \in {"good", "bad"} : Becomes(j, "running", attempt[j], r)

Lose(j) ==
    /\ state[j] = "running"
    /\ result[j] \in {"going", "good", "bad"}
    /\ Becomes(j, "running", attempt[j], "lost")

Accept(j) ==
    /\ state[j] = "running"
    /\ result[j] = "good"
    /\ IF j \in Cleanup THEN Becomes(j, "deleted", 0, "none")
                        ELSE Becomes(j, "completed", attempt[j], "none")

\* A bad result is tried again while attempts are left.
TryAgain(j) ==
    /\ state[j] = "running"
    /\ result[j] = "bad"
    /\ attempt[j] < MaxAttempts
    /\ Becomes(j, "queued", attempt[j], "none")

\* The attempts are used up: an ordinary job has failed, a cleanup job
\* starts over.  This may also cut off an attempt whose lease ran out.
UseUp(j) ==
    /\ state[j] = "running"
    /\ attempt[j] = MaxAttempts
    /\ IF j \in Cleanup THEN Becomes(j, "queued", 0, "none")
                        ELSE Becomes(j, "failed", attempt[j], "none")

\* The rest of the system cancels a waiting job or deletes it.
Withdraw(j) ==
    /\ j \notin Cleanup
    /\ \/ state[j] = "queued" /\ Becomes(j, "cancelled", attempt[j], "none")
       \/ state[j] \notin {"absent", "deleted"} /\ Becomes(j, "deleted", 0, "none")

JobStep(j) ==
    \/ Submit(j) \/ Attempt(j) \/ Report(j) \/ Lose(j) \/ Accept(j)
    \/ TryAgain(j) \/ UseUp(j) \/ Withdraw(j)

\* One transaction may decide several jobs (a claim reaps all the expired
\* ones), each of them by a step of its own.
CInit ==
    /\ state = [j \in Jobs |-> "absent"]
    /\ attempt = [j \in Jobs |-> 0]
    /\ result = [j \in Jobs |-> "none"]

CNext == \A j \in Jobs : JobStep(j) \/ Same(j)

CSpec == CInit /\ [][CNext]_cvars

=============================================================================
