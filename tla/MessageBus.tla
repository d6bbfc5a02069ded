-------------------------------- MODULE MessageBus -------------------------------
(* The message bus of karbon-framework/src/message/mod.rs. A message is dispatched    *)
(* synchronously - its handlers run one after the other in the caller and the first  *)
(* error is returned - or to the background transport: a bounded channel, a task per *)
(* message under a semaphore, each handler retried on its own. Handlers may be       *)
(* registered at any time.                                                           *)
EXTENDS Naturals, Sequences, FiniteSets, SequencesExt, TokioSemaphore

CONSTANTS Messages,    \* one element per call of dispatch or dispatch_async
          Async,       \* the messages sent with dispatch_async
          Handlers,    \* one element per call of handle
          TypeOf,      \* the message type of each message and handler
          Workers,     \* the argument of MessageBus::with_retry
          MaxRetries,  \* retry.max_retries
          Capacity     \* the capacity of the channel (256 in the code)

BusAssumption == /\ Async \subseteq Messages
                 /\ Workers \in Nat /\ MaxRetries \in Nat
                 /\ Capacity \in Nat \ {0}

VARIABLES handlers,  \* the map from message type to its handlers
          open,      \* a clone of the bus exists
          channel,   \* the messages sent and not received
          worker,    \* the task that receives: "running" or "ended"
          sem,       \* the semaphore of the workers
          phase,     \* where each message is
          list,      \* the handlers read for each message
          pos,       \* the handler each message is at
          attempt,   \* the loop variable of run_with_retry
          known,     \* history: the handlers registered when a message was dispatched
          log        \* history: the handler calls of each message with their results

vars == <<handlers, open, channel, worker, sem, phase, list, pos, attempt, known, log>>
task == <<list, pos, attempt, known, log>>

Types == {TypeOf[x] : x \in Messages \union Handlers}

Phase == {"new", "called", "offered", "sent", "spawned", "acquiring", "running",
          "backoff", "done", "error", "panicked", "cancelled"}

Ended == {"done", "error", "panicked", "cancelled"}

(* A message without handlers finds none: unwrap_or_default, or if let Some. *)
Init == /\ handlers = [t \in Types |-> <<>>]
        /\ open = TRUE
        /\ channel = <<>>
        /\ worker = "running"
        /\ sem = NewSemaphore(IF Workers = 0 THEN 1 ELSE Workers)
        /\ phase = [m \in Messages |-> "new"]
        /\ list = [m \in Messages |-> <<>>]
        /\ pos = [m \in Messages |-> 1]
        /\ attempt = [m \in Messages |-> 0]
        /\ known = [m \in Messages |-> <<>>]
        /\ log = [m \in Messages |-> <<>>]

Registered(h) == \E i \in DOMAIN handlers[TypeOf[h]] : handlers[TypeOf[h]][i] = h

Handle_Front(h) ==
    /\ open /\ ~Registered(h)
    /\ handlers' = [handlers EXCEPT ![TypeOf[h]] = <<h>> \o @]
    /\ UNCHANGED <<open, channel, worker, sem, phase, task>>

Handle(h) == /\ open /\ ~Registered(h)
             /\ handlers' = [handlers EXCEPT ![TypeOf[h]] = Append(@, h)]
             /\ UNCHANGED <<open, channel, worker, sem, phase, task>>

To(m, p) == phase' = [phase EXCEPT ![m] = p]

(* The calls: dispatch and dispatch_async borrow the bus until they return. *)
Call(m) == /\ open /\ phase[m] = "new"
           /\ To(m, IF m \in Async THEN "offered" ELSE "called")
           /\ known' = [known EXCEPT ![m] = handlers[TypeOf[m]]]
           /\ UNCHANGED <<handlers, open, channel, worker, sem, list, pos, attempt, log>>

(* dispatch_async: send waits for room in the channel. *)
Send(m) == /\ phase[m] = "offered"
           /\ Len(channel) < Capacity
           /\ channel' = Append(channel, m)
           /\ To(m, "sent")
           /\ UNCHANGED <<handlers, open, worker, sem, task>>

DropBus == /\ open
           /\ \A m \in Messages : phase[m] # "offered"
           /\ \A m \in Messages \ Async : phase[m] \in Ended \union {"new"}
           /\ open' = FALSE
           /\ UNCHANGED <<handlers, channel, worker, sem, phase, task>>

-----------------------------------------------------------------------------------
(* The background transport. *)

Receive == /\ worker = "running"
           /\ channel # <<>>
           /\ channel' = Tail(channel)
           /\ To(Head(channel), "spawned")
           /\ UNCHANGED <<handlers, open, worker, sem, task>>

WorkerEnds_Early == /\ worker = "running"
                    /\ ~open
                    /\ worker' = "ended"
                    /\ UNCHANGED <<handlers, open, channel, sem, phase, task>>

(* recv returns None when the channel is empty and every clone of the bus is gone. *)
WorkerEnds == /\ worker = "running"
              /\ channel = <<>> /\ ~open
              /\ worker' = "ended"
              /\ UNCHANGED <<handlers, open, channel, sem, phase, task>>

AskPermit(m) == /\ phase[m] = "spawned"
                /\ sem' = Acquire(sem, m)
                /\ To(m, "acquiring")
                /\ UNCHANGED <<handlers, open, channel, worker, task>>

(* The end of a message, and of the permit of its task when it is a background one. *)
Finish(m, p) == /\ To(m, p)
                /\ sem' = IF m \in Async THEN Release(sem, m) ELSE sem

Ready(m) == IF m \in Async THEN phase[m] = "acquiring" /\ m \in sem.held
                           ELSE phase[m] = "called"

(* The handlers are cloned out of the map - for a background message when its task   *)
(* has its permit - and later registrations do not reach this message.               *)
Snapshot(m) ==
    /\ Ready(m)
    /\ list' = [list EXCEPT ![m] = handlers[TypeOf[m]]]
    /\ IF handlers[TypeOf[m]] = <<>>
       THEN Finish(m, "done")
       ELSE To(m, "running") /\ UNCHANGED sem
    /\ UNCHANGED <<handlers, open, channel, worker, pos, attempt, known, log>>

Called(m, result) ==
    log' = [log EXCEPT ![m] = Append(@, [handler |-> list[m][pos[m]], result |-> result])]

NextHandler(m) ==
    /\ IF pos[m] = Len(list[m]) THEN Finish(m, "done") ELSE To(m, "running") /\ UNCHANGED sem
    /\ pos' = [pos EXCEPT ![m] = @ + 1]
    /\ attempt' = [attempt EXCEPT ![m] = 0]

CallOk(m) == /\ phase[m] = "running"
             /\ Called(m, "ok")
             /\ NextHandler(m)
             /\ UNCHANGED <<handlers, open, channel, worker, list, known>>

CallErr_SyncGoesOn(m) ==
    /\ phase[m] = "running"
    /\ Called(m, "err")
    /\ IF m \in Async /\ attempt[m] < MaxRetries
       THEN To(m, "backoff") /\ UNCHANGED <<sem, pos, attempt>>
       ELSE NextHandler(m)
    /\ UNCHANGED <<handlers, open, channel, worker, list, known>>

CallErr_AsyncStops(m) ==
    /\ phase[m] = "running"
    /\ Called(m, "err")
    /\ \/ /\ m \in Async /\ attempt[m] < MaxRetries
          /\ To(m, "backoff") /\ UNCHANGED <<sem, pos, attempt>>
       \/ /\ m \in Async /\ attempt[m] = MaxRetries
          /\ Finish(m, "done") /\ UNCHANGED <<pos, attempt>>
       \/ /\ m \notin Async
          /\ To(m, "error") /\ UNCHANGED <<sem, pos, attempt>>
    /\ UNCHANGED <<handlers, open, channel, worker, list, known>>

(* An error is returned by dispatch; in the background it costs an attempt, and when *)
(* the attempts are used up the task goes on with the next handler.                  *)
CallErr(m) ==
    /\ phase[m] = "running"
    /\ Called(m, "err")
    /\ \/ /\ m \in Async /\ attempt[m] < MaxRetries
          /\ To(m, "backoff") /\ UNCHANGED <<sem, pos, attempt>>
       \/ /\ m \in Async /\ attempt[m] = MaxRetries
          /\ NextHandler(m)
       \/ /\ m \notin Async
          /\ To(m, "error") /\ UNCHANGED <<sem, pos, attempt>>
    /\ UNCHANGED <<handlers, open, channel, worker, list, known>>

Retry(m) == /\ phase[m] = "backoff"
            /\ To(m, "running")
            /\ attempt' = [attempt EXCEPT ![m] = @ + 1]
            /\ UNCHANGED <<handlers, open, channel, worker, sem, list, pos, known, log>>

CallPanics_KeepsPermit(m) ==
    /\ phase[m] = "running"
    /\ To(m, "panicked")
    /\ UNCHANGED <<handlers, open, channel, worker, sem, task>>

(* A panic ends the caller's dispatch, or the task with its permit. *)
CallPanics(m) == /\ phase[m] = "running"
                 /\ Finish(m, "panicked")
                 /\ UNCHANGED <<handlers, open, channel, worker, task>>

(* The caller of dispatch is dropped (its request was abandoned) at an await. *)
CallerGone(m) == /\ m \notin Async /\ phase[m] \in {"called", "running"}
                 /\ To(m, "cancelled")
                 /\ UNCHANGED <<handlers, open, channel, worker, sem, task>>

Task(m) == \/ AskPermit(m) \/ Snapshot(m) \/ CallOk(m) \/ CallErr(m) \/ Retry(m)
           \/ CallPanics(m)

Next == \/ \E h \in Handlers : Handle(h)
        \/ \E m \in Messages : Call(m) \/ Send(m) \/ Task(m) \/ CallerGone(m)
        \/ Receive \/ WorkerEnds \/ DropBus

Spec == Init /\ [][Next]_vars

(* Tasks and callers are polled, handlers return, backoffs end, and send goes on     *)
(* when there is room.                                                               *)
FairSpec == /\ Spec /\ WF_vars(Receive) /\ WF_vars(WorkerEnds)
            /\ \A m \in Messages : WF_vars(Task(m)) /\ WF_vars(Send(m))

-----------------------------------------------------------------------------------
(* Properties. *)

TypeOK == /\ handlers \in [Types -> Seq(Handlers)]
          /\ open \in BOOLEAN
          /\ channel \in Seq(Async) /\ Len(channel) <= Capacity
          /\ worker \in {"running", "ended"}
          /\ sem \in [free : Nat, held : SUBSET Async, line : Seq(Async)]
          /\ phase \in [Messages -> Phase]
          /\ list \in [Messages -> Seq(Handlers)]
          /\ known \in [Messages -> Seq(Handlers)]
          /\ \A m \in Messages : /\ pos[m] \in 1 .. Len(list[m]) + 1
                                 /\ attempt[m] \in 0 .. MaxRetries
          /\ log \in [Messages -> Seq([handler : Handlers, result : {"ok", "err"}])]

(* Permits: as many messages are handled in the background at a time as there are    *)
(* workers, one when the caller asked for none, and none leaks with an error, a      *)
(* panic or a message without handlers.                                              *)
WorkersBounded ==
    LET permits == IF Workers = 0 THEN 1 ELSE Workers
    IN  /\ sem.free + Cardinality(sem.held) = permits
        /\ \A m \in Async : phase[m] \in {"running", "backoff"} => m \in sem.held
        /\ \A m \in sem.held : phase[m] \in {"acquiring", "running", "backoff"}

(* A handler registered before a message was dispatched handles it, and the others   *)
(* registered meanwhile come after it.                                               *)
SeesRegisteredHandlers ==
    \A m \in Messages : phase[m] \in {"running", "backoff", "done", "error"}
        => IsPrefix(known[m], list[m])

(* The calls from + 1 .. to are the turn of one handler: errors and at last an Ok, or *)
(* as many errors as there are attempts.                                             *)
Turn(calls, h, from, to) ==
    /\ to - from \in 1 .. MaxRetries + 1
    /\ \A k \in from + 1 .. to : /\ calls[k].handler = h
                                 /\ calls[k].result = "ok" => k = to
    /\ calls[to].result = "err" => to - from = MaxRetries + 1

(* A background message that is done was offered to every handler of its list, one   *)
(* after the other: each took it after at most max_retries errors, or refused it     *)
(* max_retries + 1 times; a failing handler keeps no other from its turn. The calls  *)
(* fall into these turns at the cuts.                                                *)
BackgroundReachesAll ==
    \A m \in Async : phase[m] = "done" =>
        \E cut \in [0 .. Len(list[m]) -> 0 .. Len(log[m])] :
            /\ cut[0] = 0 /\ cut[Len(list[m])] = Len(log[m])
            /\ \A i \in DOMAIN list[m] : Turn(log[m], list[m][i], cut[i - 1], cut[i])

(* A synchronous dispatch runs the handlers once each in order; it returns Ok when   *)
(* all of them did, an error at the first that failed, and none runs after it.       *)
SyncStopsAtFirstError ==
    \A m \in Messages \ Async :
        /\ phase[m] = "done" =>
               log[m] = [i \in DOMAIN list[m] |-> [handler |-> list[m][i], result |-> "ok"]]
        /\ phase[m] = "error" =>
               /\ log[m] = [i \in 1 .. Len(log[m]) |->
                              [handler |-> list[m][i],
                               result |-> IF i = Len(log[m]) THEN "err" ELSE "ok"]]
               /\ Len(log[m]) \in 1 .. Len(list[m])

(* Every message given to the background transport is handled to its end, also the   *)
(* ones still in the channel when the last clone of the bus is dropped.              *)
EveryMessageEnds == \A m \in Async : phase[m] = "offered" ~> phase[m] \in Ended
==================================================================================
