------------------------------- MODULE JobCustody -------------------------------
(* What a durable job queue promises, whatever its implementation: every job is  *)
(* in the custody of exactly one place, is executed only from the queue, and is   *)
(* executed again only while it has attempts left. PersistentQueue implements it. *)
EXTENDS Naturals

CONSTANTS Jobs,         \* one element per call of push
          MaxAttempts   \* the builder's max_attempts

VARIABLES custody,      \* where each job is
          runs          \* how many executions of each job were started

vars == <<custody, runs>>

Place == {"absent", "queued", "running", "settled", "lost"}

Init == /\ custody = [j \in Jobs |-> "absent"]
        /\ runs = [j \in Jobs |-> 0]

Move(j, from, to) == /\ custody[j] = from
                     /\ custody' = [custody EXCEPT ![j] = to]

Store(j) == Move(j, "absent", "queued") /\ UNCHANGED runs

(* A worker takes the job out of the queue and starts it. *)
Start(j) == /\ Move(j, "queued", "running")
            /\ runs' = [runs EXCEPT ![j] = @ + 1]

(* A job no handler is registered for leaves the queue without being executed. *)
Discard(j) == Move(j, "queued", "settled") /\ UNCHANGED runs

(* The execution succeeded, or failed for the last time. *)
Settle(j) == Move(j, "running", "settled") /\ UNCHANGED runs

(* The execution failed and the job has attempts left. *)
Retry(j) == /\ runs[j] < MaxAttempts
            /\ Move(j, "running", "queued")
            /\ UNCHANGED runs

(* A fault takes jobs that are under way: one stop takes what several workers run. *)
Lose(S) == /\ \A j \in S : custody[j] \in {"queued", "running"}
           /\ custody' = [j \in Jobs |-> IF j \in S THEN "lost" ELSE custody[j]]
           /\ UNCHANGED runs

Next == \/ \E j \in Jobs : \/ Store(j) \/ Start(j) \/ Discard(j)
                           \/ Settle(j) \/ Retry(j)
        \/ \E S \in SUBSET Jobs : Lose(S)

Spec == Init /\ [][Next]_vars
=================================================================================
