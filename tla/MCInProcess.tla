------------------------------- MODULE MCInProcess --------------------------------
(* What the tasks of one server process hand to one another, for TLC: the job queue, the *)
(* message bus and the event bus share nothing, so one run checks them side by side      *)
(* instead of multiplying their states. "part" says which of them the behaviour is about,*)
(* the others stay as they begin.                                                        *)
EXTENDS JobQueue, TLC

CONSTANTS Messages, Async, Handlers, TypeOf,     \* of the message bus
          BusWorkers, BusRetries, BusCapacity,
          BusTasks, MaxCalls                     \* of the event bus

CONSTANTS j1, j2, j3, j4,  \* j1 pushes j2 and j3 when it runs; j4 is retried
          m1, s1, n1,      \* a background and a synchronous message of a type with
          h1, h2           \* two handlers, and a background one of a type without any

VARIABLES part,
          handlers, open, line, worker, permits, stage, list, pos, try, known, log,
          registered, lock, calls

busVars == <<handlers, open, line, worker, permits, stage, list, pos, try, known, log>>
eventVars == <<registered, lock, calls>>

MCJobs == {j1, j2, j3, j4}
MCParent == (j1 :> NoParent) @@ (j2 :> j1) @@ (j3 :> j1) @@ (j4 :> NoParent)
MCMaxRetries == (j1 :> 0) @@ (j2 :> 1) @@ (j3 :> 0) @@ (j4 :> 2)
MCTypeOf == [x \in {m1, s1, n1, h1, h2} |-> IF x = n1 THEN "silent" ELSE "order"]

Bus == INSTANCE MessageBus WITH
           channel <- line, sem <- permits, phase <- stage, attempt <- try,
           Workers <- BusWorkers, MaxRetries <- BusRetries, Capacity <- BusCapacity

Events == INSTANCE EventBus WITH handlers <- registered

ASSUME InstanceAssumptions == Bus!BusAssumption /\ Events!EventAssumption

-----------------------------------------------------------------------------------

MCInit == /\ part \in {"jobs", "bus", "events"}
          /\ Init /\ Bus!Init /\ Events!Init

MCNext == /\ UNCHANGED part
          /\ \/ part = "jobs" /\ Next /\ UNCHANGED <<busVars, eventVars>>
             \/ part = "bus" /\ Bus!Next /\ UNCHANGED <<vars, eventVars>>
             \/ part = "events" /\ Events!Next /\ UNCHANGED <<vars, busVars>>

(* The fairness of the three modules, each for the part at hand. *)
Fair(p, action) == part = p /\ action

MCFairness == /\ WF_vars(Fair("jobs", Receive)) /\ WF_vars(Fair("jobs", DispatcherEnds))
              /\ \A j \in Jobs : WF_vars(Fair("jobs", Task(j))) /\ WF_vars(Fair("jobs", Push(j)))
              /\ WF_busVars(Fair("bus", Bus!Receive)) /\ WF_busVars(Fair("bus", Bus!WorkerEnds))
              /\ \A m \in Messages : /\ WF_busVars(Fair("bus", Bus!Task(m)))
                                     /\ WF_busVars(Fair("bus", Bus!Send(m)))
              /\ \A i \in 1 .. MaxCalls : WF_eventVars(Fair("events", i \in Events!Ids /\ Events!Step(i)))

MCSpec == MCInit /\ [][MCNext]_<<part, vars, busVars, eventVars>> /\ MCFairness

(* The queue with an application that shuts it down, alone. *)
ShutdownSpec == MCInit /\ part = "jobs" /\ [][MCNext]_<<part, vars, busVars, eventVars>>
                    /\ MCFairness

-----------------------------------------------------------------------------------

(* The permits of the workers of job/mod.rs and of message/mod.rs: each is free or held *)
(* by one that runs (PermitsConserved of JobQueue, WorkersBounded of MessageBus).        *)
NoPermitLeaks == TypeOK /\ Bus!TypeOK /\ PermitsConserved /\ Bus!WorkersBounded

(* Every handler that message/mod.rs and event/mod.rs promise is reached, in order, as  *)
(* often as they promise, and no other.                                                 *)
HandlersAreReached == /\ Bus!SeesRegisteredHandlers /\ Bus!BackgroundReachesAll
                      /\ Bus!SyncStopsAtFirstError
                      /\ Events!TypeOK /\ Events!EmissionSeesTheList

(* Whatever job, message or emission is begun comes to its end, and so does the task of *)
(* a queue that was dropped (JobQueue, MessageBus, EventBus).                           *)
EverythingEnds == /\ EveryJobEnds /\ DroppedQueueEnds
                  /\ Bus!EveryMessageEnds
                  /\ Events!EveryCallEnds
==================================================================================
