--------------------------------- MODULE JobQueue --------------------------------
(* The in-process job queue of karbon-framework/src/job/mod.rs: push sends a job     *)
(* through a bounded channel, one dispatcher task spawns a task per received job,    *)
(* and the tasks run under a semaphore of "workers" permits, retrying with the       *)
(* permit held. A job may itself push jobs through a shared handle of the queue.     *)
EXTENDS Naturals, Sequences, FiniteSets, TokioSemaphore

CONSTANTS Jobs,        \* one element per call of push
          Parent,      \* the job that pushes a job from its execute, or NoParent
          NoParent,
          MaxRetries,  \* each job's max_retries()
          Workers,     \* the argument of JobQueue::new
          Capacity     \* the capacity of the channel (256 in the code)

ASSUME JobQueueAssumption == /\ NoParent \notin Jobs
                             /\ Parent \in [Jobs -> Jobs \union {NoParent}]
                             /\ MaxRetries \in [Jobs -> Nat]
                             /\ Workers \in Nat
                             /\ Capacity \in Nat \ {0}

VARIABLES owner,       \* the application's handle: "using", "dropped" or in shutdown
          channel,     \* the jobs sent and not received
          dispatcher,  \* the task spawned by new: "running" or "ended"
          phase,       \* where each job's task is
          attempt,     \* the loop variable of each job's task
          sem,         \* the semaphore of the workers
          executions   \* history: calls of execute, per job

vars == <<owner, channel, dispatcher, phase, attempt, sem, executions>>

Phase == {"new", "offered", "sent", "spawned", "acquiring", "running", "backoff",
          "done", "failed", "panicked"}

Ended == {"done", "failed", "panicked"}

Init == /\ owner = "using"
        /\ channel = <<>>
        /\ dispatcher = "running"
        /\ phase = [j \in Jobs |-> "new"]
        /\ attempt = [j \in Jobs |-> 0]
        /\ sem = NewSemaphore(Workers)
        /\ executions = [j \in Jobs |-> 0]

Children(j) == {c \in Jobs : Parent[c] = j}

(* A job that pushes jobs holds a handle of the queue as long as it exists. *)
HandleInJob == \E j \in Jobs : Children(j) # {} /\ phase[j] \notin Ended \union {"new"}

(* A job does nothing else while it waits for room in the channel. *)
InPush(j) == \E c \in Children(j) : phase[c] = "offered"

(* So does the application, whose handle push borrows. *)
AppInPush == \E j \in Jobs : Parent[j] = NoParent /\ phase[j] = "offered"

(* The variant whose dispatcher keeps a sender of its own. *)
SenderAlive_Dispatcher == dispatcher = "running"

SenderAlive == owner \in {"using", "shutdown"} \/ HandleInJob

To(j, p) == phase' = [phase EXCEPT ![j] = p]

(* push is called by the application, or by a running job from its execute. *)
Offer(j) == /\ phase[j] = "new"
            /\ IF Parent[j] = NoParent
               THEN owner = "using"
               ELSE phase[Parent[j]] = "running" /\ ~InPush(Parent[j])
            /\ To(j, "offered")
            /\ UNCHANGED <<owner, channel, dispatcher, attempt, sem, executions>>

(* send waits for room in the channel, and push returns when the job is in. *)
Push(j) == /\ phase[j] = "offered"
           /\ Len(channel) < Capacity
           /\ channel' = Append(channel, j)
           /\ To(j, "sent")
           /\ UNCHANGED <<owner, dispatcher, attempt, sem, executions>>

-----------------------------------------------------------------------------------
(* The dispatcher. *)

(* The variant that waits for a permit before it spawns. *)
Receive_Acquires == /\ dispatcher = "running"
                    /\ channel # <<>>
                    /\ sem.free > 0
                    /\ channel' = Tail(channel)
                    /\ To(Head(channel), "acquiring")
                    /\ sem' = Acquire(sem, Head(channel))
                    /\ UNCHANGED <<owner, dispatcher, attempt, executions>>

(* Every received job gets a task of its own at once: the line for the semaphore is  *)
(* not bounded by the channel.                                                       *)
Receive == /\ dispatcher = "running"
           /\ channel # <<>>
           /\ channel' = Tail(channel)
           /\ To(Head(channel), "spawned")
           /\ UNCHANGED <<owner, dispatcher, attempt, sem, executions>>

(* recv returns None when the channel is empty and every sender is gone. *)
DispatcherEnds == /\ dispatcher = "running"
                  /\ channel = <<>>
                  /\ ~SenderAlive
                  /\ dispatcher' = "ended"
                  /\ UNCHANGED <<owner, channel, phase, attempt, sem, executions>>

-----------------------------------------------------------------------------------
(* The task of a job. *)

AskPermit(j) == /\ phase[j] = "spawned"
                /\ sem' = Acquire(sem, j)
                /\ To(j, "acquiring")
                /\ UNCHANGED <<owner, channel, dispatcher, attempt, executions>>

Execute(j) == executions' = [executions EXCEPT ![j] = @ + 1]

Start(j) == /\ phase[j] = "acquiring"
            /\ j \in sem.held
            /\ To(j, "running")
            /\ Execute(j)
            /\ UNCHANGED <<owner, channel, dispatcher, attempt, sem>>

Finish(j, p) == To(j, p) /\ sem' = Release(sem, j)

(* execute does not return while it is inside a push. *)
Returns(j) == phase[j] = "running" /\ ~InPush(j)

ExecuteOk(j) == /\ Returns(j)
                /\ Finish(j, "done")
                /\ UNCHANGED <<owner, channel, dispatcher, attempt, executions>>

ExecuteErr_OneMore(j) ==
    /\ Returns(j)
    /\ IF attempt[j] <= MaxRetries[j]
       THEN To(j, "backoff") /\ UNCHANGED sem
       ELSE Finish(j, "failed")
    /\ UNCHANGED <<owner, channel, dispatcher, attempt, executions>>

(* An error with retries left sleeps, with the permit; the last one ends the job. *)
ExecuteErr(j) == /\ Returns(j)
                 /\ IF attempt[j] < MaxRetries[j]
                    THEN To(j, "backoff") /\ UNCHANGED sem
                    ELSE Finish(j, "failed")
                 /\ UNCHANGED <<owner, channel, dispatcher, attempt, executions>>

ExecutePanics_KeepsPermit(j) ==
    /\ Returns(j)
    /\ To(j, "panicked")
    /\ UNCHANGED <<owner, channel, dispatcher, attempt, sem, executions>>

(* A panic ends the job's task; the permit it holds is dropped with it. *)
ExecutePanics(j) == /\ Returns(j)
                    /\ Finish(j, "panicked")
                    /\ UNCHANGED <<owner, channel, dispatcher, attempt, executions>>

Retry(j) == /\ phase[j] = "backoff"
            /\ To(j, "running")
            /\ attempt' = [attempt EXCEPT ![j] = @ + 1]
            /\ Execute(j)
            /\ UNCHANGED <<owner, channel, dispatcher, sem>>

-----------------------------------------------------------------------------------
(* The end of the queue. *)

DropQueue == /\ owner = "using"
             /\ ~AppInPush
             /\ owner' = "dropped"
             /\ UNCHANGED <<channel, dispatcher, phase, attempt, sem, executions>>

(* shutdown consumes the queue, so no other handle of it exists. It drops a clone of *)
(* the sender - the sender itself lives in self - and waits for the dispatcher.      *)
Shutdown == /\ owner = "using"
            /\ ~AppInPush
            /\ ~HandleInJob
            /\ owner' = "shutdown"
            /\ UNCHANGED <<channel, dispatcher, phase, attempt, sem, executions>>

Task(j) == \/ AskPermit(j) \/ Start(j) \/ ExecuteOk(j) \/ ExecuteErr(j)
           \/ ExecutePanics(j) \/ Retry(j)

Next == \/ \E j \in Jobs : Offer(j) \/ Push(j) \/ Task(j)
        \/ Receive \/ DispatcherEnds
        \/ DropQueue \/ Shutdown

Spec == Init /\ [][Next]_vars

(* Tasks are polled, execute returns, sleeps end, and a push makes progress when     *)
(* there is room. Nothing makes the application push, drop or shut down.             *)
FairSpec == /\ Spec
            /\ WF_vars(Receive) /\ WF_vars(DispatcherEnds)
            /\ \A j \in Jobs : WF_vars(Task(j)) /\ WF_vars(Push(j))

-----------------------------------------------------------------------------------
(* Properties. *)

TypeOK == /\ owner \in {"using", "dropped", "shutdown"}
          /\ channel \in Seq(Jobs) /\ Len(channel) <= Capacity
          /\ dispatcher \in {"running", "ended"}
          /\ phase \in [Jobs -> Phase]
          /\ attempt \in [Jobs -> Nat]
          /\ sem \in [free : Nat, held : SUBSET Jobs, line : Seq(Jobs)]
          /\ executions \in [Jobs -> Nat]

Executing == {j \in Jobs : phase[j] \in {"running", "backoff"}}

(* Every permit is free or held by a job that is about to run, runs or sleeps before *)
(* a retry: neither an error, a panic nor the end of the queue leaks or doubles one. *)
PermitsConserved ==
    /\ sem.free + Cardinality(sem.held) = Workers
    /\ Executing \subseteq sem.held
    /\ \A j \in sem.held : phase[j] \in {"acquiring", "running", "backoff"}

(* A failed job was executed once and once per retry, no job more often, and a job   *)
(* that is not started was not executed.                                             *)
ExecutionsExact ==
    \A j \in Jobs : /\ executions[j] <= MaxRetries[j] + 1
                    /\ phase[j] = "failed" => executions[j] = MaxRetries[j] + 1
                    /\ phase[j] \in {"new", "offered", "sent", "spawned", "acquiring"}
                           => executions[j] = 0

(* A pushed job ends, also when jobs push jobs through the full channel while they   *)
(* hold the permits, and when the queue is dropped with jobs still in the channel.   *)
EveryJobEnds == \A j \in Jobs : phase[j] = "offered" ~> phase[j] \in Ended

(* The dispatcher of a dropped queue does not stay behind. *)
DroppedQueueEnds == owner = "dropped" ~> dispatcher = "ended"

(* "Shut down the queue and wait for all pending jobs": shutdown returns when the      *)
(* dispatcher it waits for ends.                                                      *)
ShutdownCompletes == owner = "shutdown" ~> dispatcher = "ended"
==================================================================================
