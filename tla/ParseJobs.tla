----------------------------- MODULE ParseJobs -----------------------------
(***************************************************************************)
(* What a MinerU parse service promises about its jobs: they are started   *)
(* in the order they were submitted, no more than MaxConcurrent at a time, *)
(* each runs once, and its outcome stays until the service forgets it.     *)
(* Nothing is said of queues, semaphores, events or files.  A restart      *)
(* forgets every job.  ParseService implements it.                         *)
(***************************************************************************)
EXTENDS Naturals, FiniteSets

CONSTANTS Task, MaxConcurrent

VARIABLES
    phase,     \* phase[t]: where the job t is
    number     \* number[t]: its place in the order of submission

jobVars == <<phase, number>>

Phase == {"none", "pending", "processing", "completed", "failed", "gone"}

Running == {t \in Task : phase[t] = "processing"}

Init ==
    /\ phase = [t \in Task |-> "none"]
    /\ number = [t \in Task |-> 0]

\* A new job comes after every job that still waits.
Submit(t) ==
    /\ phase[t] = "none"
    /\ phase' = [phase EXCEPT ![t] = "pending"]
    /\ number' = [number EXCEPT ![t] = number'[t]]
    /\ \A u \in Task : phase[u] = "pending" => number[u] < number'[t]

\* The oldest job that waits is started when a slot is free.
Start(t) ==
    /\ phase[t] = "pending"
    /\ \A u \in Task : phase[u] = "pending" => number[t] <= number[u]
    /\ Cardinality(Running) < MaxConcurrent
    /\ phase' = [phase EXCEPT ![t] = "processing"]
    /\ UNCHANGED number

End(t, outcome) ==
    /\ phase[t] = "processing"
    /\ phase' = [phase EXCEPT ![t] = outcome]
    /\ UNCHANGED number

\* Only jobs that have ended are forgotten while the service runs.
Forget(S) ==
    /\ \A t \in S : phase[t] \in {"completed", "failed"}
    /\ phase' = [t \in Task |-> IF t \in S THEN "gone" ELSE phase[t]]
    /\ UNCHANGED number

Restart ==
    /\ phase' = [t \in Task |-> IF phase[t] = "none" THEN "none" ELSE "gone"]
    /\ UNCHANGED number

Next ==
    \/ \E t \in Task :
        \/ Submit(t)
        \/ Start(t)
        \/ \E outcome \in {"completed", "failed"} : End(t, outcome)
    \/ \E S \in SUBSET Task : Forget(S)
    \/ Restart

Spec == Init /\ [][Next]_jobVars

=============================================================================
