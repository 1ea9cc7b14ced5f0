----------------------------- MODULE AssemblyJobs -----------------------------
(***************************************************************************)
(* What the debug-file assembly queue promises, without leases, staging    *)
(* directories or workers: an admitted job is finished once, for good, and *)
(* at most one job per key exists at a time.                               *)
(***************************************************************************)
CONSTANTS Key, Job

VARIABLES
  fresh, \* ids that may still be admitted
  jobs   \* existing jobs: id -> key and outcome

vars == <<fresh, jobs>>

Outcome == {"none", "ok", "error"}

Init ==
  /\ fresh = Job
  /\ jobs = [j \in {} |-> j]

\* An id that is drawn but never admitted does not come back.
Abandon(S) ==
  /\ fresh' = fresh \ S
  /\ UNCHANGED jobs

Admit(j, k) ==
  /\ j \in fresh /\ \A i \in DOMAIN jobs : jobs[i].key # k
  /\ fresh' = fresh \ {j}
  /\ jobs' = [i \in DOMAIN jobs \cup {j} |->
                IF i = j THEN [key |-> k, outcome |-> "none"] ELSE jobs[i]]

Finish(j, outcome) ==
  /\ j \in DOMAIN jobs /\ jobs[j].outcome = "none"
  /\ jobs' = [jobs EXCEPT ![j].outcome = outcome]
  /\ UNCHANGED fresh

\* A client's request discards finished jobs only.
Discard(j) ==
  /\ j \in DOMAIN jobs /\ jobs[j].outcome # "none"
  /\ jobs' = [i \in DOMAIN jobs \ {j} |-> jobs[i]]
  /\ UNCHANGED fresh

\* The project of a key is deleted, and its job with it.
Withdraw(k) ==
  /\ jobs' = [i \in {j \in DOMAIN jobs : jobs[j].key # k} |-> jobs[i]]
  /\ UNCHANGED fresh

FinishSome(j) == \E outcome \in Outcome \ {"none"} : Finish(j, outcome)

Next ==
  \/ \E S \in SUBSET Job : Abandon(S)
  \/ \E k \in Key : Withdraw(k)
  \/ \E j \in Job : (\E k \in Key : Admit(j, k)) \/ FinishSome(j) \/ Discard(j)

Spec == Init /\ [][Next]_vars

LiveSpec == Spec /\ \A j \in Job : WF_vars(FinishSome(j))

=============================================================================
