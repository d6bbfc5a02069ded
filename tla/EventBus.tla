----------------------------------- MODULE EventBus --------------------------------
(* event/mod.rs: the handlers of an event behind one tokio RwLock, which admits its    *)
(* waiters by turns. An emission keeps its read lock until every handler has ended;    *)
(* handlers run inside the task that emits, and may use the bus themselves.            *)
EXTENDS Integers, FiniteSetsExt, SequencesExt, TLC

CONSTANTS BusTasks,  \* tasks that use the bus
          MaxCalls   \* bound: calls of the bus, those of handlers included

EventAssumption == MaxCalls \in Nat

VARIABLES handlers,  \* what the registered handlers do, in their order
          lock,      \* the calls that read, and those that wait
          calls      \* the calls, each of a task or of a handler of another call

events == <<handlers, lock, calls>>

-----------------------------------------------------------------------------------
(* A handler does nothing with the bus, registers another one, or emits. *)

Kinds == {"quiet", "registers", "emits"}

Ids == DOMAIN calls

(* "by" is a task, or the call and the number of the handler. *)
Call(by, op, does) == [by |-> by, op |-> op, does |-> does, at |-> "waits", runs |-> <<>>, ended |-> {}]

Begin(by, op, does) == /\ Len(calls) < MaxCalls
                       /\ calls' = Append(calls, Call(by, op, does))
                       /\ lock' = [lock EXCEPT !.queue = Append(@, Len(calls) + 1)]
                       /\ UNCHANGED handlers

(* A reader waits behind a writer that came before it. *)
Admitted(i) == /\ lock.queue # <<>> /\ Head(lock.queue) = i
               /\ calls[i].op = "on" => lock.readers = {}

Use(t) == /\ \A i \in Ids : calls[i].by = <<t>> => calls[i].at = "done"
          /\ \/ \E does \in Kinds : Begin(<<t>>, "on", does)
             \/ Begin(<<t>>, "emit", "quiet")

(* on: one push with the write lock. *)
On(i) == /\ calls[i].at = "waits" /\ calls[i].op = "on" /\ Admitted(i)
         /\ handlers' = Append(handlers, calls[i].does)
         /\ lock' = [lock EXCEPT !.queue = Tail(@)]
         /\ calls' = [calls EXCEPT ![i].at = "done"]

(* emit: every handler of the list becomes a future, and all are joined. *)
Emit(i) == /\ calls[i].at = "waits" /\ calls[i].op = "emit" /\ Admitted(i)
           /\ calls' = [calls EXCEPT ![i].at = "joins", ![i].runs = handlers]
           /\ lock' = [queue |-> Tail(lock.queue), readers |-> lock.readers \union {i}]
           /\ UNCHANGED handlers

Running(i, n) == calls[i].at = "joins" /\ n \in DOMAIN calls[i].runs \ calls[i].ended

Inner(i, n) == {j \in Ids : calls[j].by = <<i, n>>}

Handles(i, n) == /\ Running(i, n) /\ Inner(i, n) = {} /\ calls[i].runs[n] # "quiet"
                 /\ Begin(<<i, n>>, IF calls[i].runs[n] = "emits" THEN "emit" ELSE "on", "quiet")

HandlerEnds(i, n) ==
    /\ Running(i, n)
    /\ \/ calls[i].runs[n] = "quiet"
       \/ Len(calls) = MaxCalls /\ Inner(i, n) = {}   \* bound: its call is left out
       \/ \E j \in Inner(i, n) : calls[j].at = "done"
    /\ calls' = [calls EXCEPT ![i].ended = @ \union {n}]
    /\ UNCHANGED <<handlers, lock>>

Released_Never(readers, i) == readers
Released(readers, i) == readers \ {i}

(* All handlers have ended: the guard is dropped. *)
Return(i) == /\ calls[i].at = "joins" /\ calls[i].ended = DOMAIN calls[i].runs
             /\ lock' = [lock EXCEPT !.readers = Released(@, i)]
             /\ calls' = [calls EXCEPT ![i].at = "done"]
             /\ UNCHANGED handlers

Init == /\ handlers = <<>> /\ calls = <<>>
        /\ lock = [readers |-> {}, queue |-> <<>>]

Step(i) == \/ On(i) \/ Emit(i) \/ Return(i)
           \/ \E n \in DOMAIN calls[i].runs : Handles(i, n) \/ HandlerEnds(i, n)

Next == \/ \E t \in BusTasks : Use(t)
        \/ \E i \in Ids : Step(i)

(* The runtime polls what can go on. *)
Fairness == \A i \in 1 .. MaxCalls : WF_events(i \in Ids /\ Step(i))

Spec == Init /\ [][Next]_events /\ Fairness

-----------------------------------------------------------------------------------
(* Properties. *)

TypeOK == /\ \A i \in Ids : calls[i].at \in {"waits", "joins", "done"}
          /\ lock.readers \subseteq Ids /\ ToSet(lock.queue) \subseteq Ids

(* A handler waits for the lock that its own emission keeps: to register, or to emit    *)
(* behind somebody who registers.                                                       *)
Reentered == \E i \in Ids : calls[i].at = "joins" /\ \E n \in DOMAIN calls[i].runs :
                 \E j \in Inner(i, n) :
                     /\ calls[j].at = "waits"
                     /\ \E k \in DOMAIN lock.queue :
                            /\ calls[lock.queue[k]].op = "on"
                            /\ \A m \in 1 .. k - 1 : lock.queue[m] # j

(* Every registration and every emission ends, the ones that handlers make included,    *)
(* unless a handler waits for its own emission: calls do not go on for ever here, so     *)
(* there comes a time when all that began are done.                                     *)
EveryCallEnds == []<>((\A i \in Ids : calls[i].at = "done") \/ Reentered)

(* While somebody emits, nobody registers: the list that an emission works through is   *)
(* the list that the bus has.                                                           *)
EmissionSeesTheList == \A i \in Ids : calls[i].at = "joins" => calls[i].runs = handlers
==================================================================================
