----------------------------- MODULE MaintenanceGate ------------------------------
(* Maintenance mode: karbon-framework/src/http/middleware/maintenance.rs and the file  *)
(* that karbon maintenance on|off creates and removes. Server threads share the flag   *)
(* of set_maintenance and a cached look at the file, in relaxed atomics: on a weakly    *)
(* ordered machine a thread's two stores, and its two loads, can be seen in either      *)
(* order. Time is kept as ages, in ticks.                                               *)
EXTENDS Naturals

CONSTANTS Threads, \* server threads, each deciding about one request at a time
          TTL      \* FLAG_TTL_MS in ticks

GateAssumption == TTL \in Nat \ {0}

VARIABLES file,     \* whether the flag file exists
          flag,     \* MAINTENANCE
          present,  \* FLAG_PRESENT
          checked,  \* age of FLAG_CHECKED_AT_MS, Old when it was never set
          thread,   \* per thread: where its decision is
          ordered,  \* whether the machine keeps relaxed accesses in program order
          settled,  \* history: age of the last change of the file
          prompt    \* history: no tick has passed in the middle of a decision

vars == <<file, flag, present, checked, thread, ordered, settled, prompt>>

(* The cap of all ages. *)
Old == TTL + 1

Idle == [pc |-> "idle"]

Init == /\ file \in BOOLEAN
        /\ flag = FALSE
        /\ present = FALSE
        /\ checked = Old
        /\ thread = [t \in Threads |-> Idle]
        /\ ordered \in BOOLEAN
        /\ settled = Old
        /\ prompt = TRUE

At(t, pc) == thread[t].pc = pc

Answer(t, closed, by) ==
    thread' = [thread EXCEPT ![t] = [pc |-> "answer", closed |-> closed, by |-> by]]

(* is_maintenance: the flag first; the file only when it is off. *)
Request(t) == /\ At(t, "idle")
              /\ IF flag THEN Answer(t, TRUE, "flag")
                 ELSE thread' = [thread EXCEPT ![t] = [pc |-> "check"]]
              /\ UNCHANGED <<file, flag, present, checked, ordered, settled, prompt>>

Fresh_Inclusive == checked <= TTL

(* flag_file_present: a check less than FLAG_TTL_MS ago is believed. *)
Fresh == checked < TTL

Load(t) == /\ At(t, "check")
           /\ thread' = [thread EXCEPT ![t] =
                             IF Fresh THEN [pc |-> "cached", early |-> present]
                             ELSE [pc |-> "stat", now |-> 0]]
           /\ UNCHANGED <<file, flag, present, checked, ordered, settled, prompt>>

(* The second load: in order, or as if it had been the first. *)
Looks(t) == {present} \union (IF ordered THEN {} ELSE {thread[t].early})

Cached_Slides(t) == /\ At(t, "cached")
                    /\ \E p \in Looks(t) : Answer(t, p, "file")
                    /\ checked' = 0
                    /\ UNCHANGED <<file, flag, present, ordered, settled, prompt>>

Cached(t) == /\ At(t, "cached")
             /\ \E p \in Looks(t) : Answer(t, p, "file")
             /\ UNCHANGED <<file, flag, present, checked, ordered, settled, prompt>>

(* path.exists() *)
Stat(t) == /\ At(t, "stat")
           /\ thread' = [thread EXCEPT ![t] = [pc |-> "store", now |-> @.now, seen |-> file,
                                               stores |-> {"present", "checked"}]]
           /\ UNCHANGED <<file, flag, present, checked, ordered, settled, prompt>>

(* FLAG_PRESENT, then FLAG_CHECKED_AT_MS: the time that was read before the stat. *)
Store(t, what) ==
    /\ At(t, "store")
    /\ what \in thread[t].stores
    /\ ordered => what = "present" \/ "present" \notin thread[t].stores
    /\ IF what = "present"
       THEN present' = thread[t].seen /\ UNCHANGED checked
       ELSE checked' = thread[t].now /\ UNCHANGED present
    /\ thread' = [thread EXCEPT ![t].stores = @ \ {what}]
    /\ UNCHANGED <<file, flag, ordered, settled, prompt>>

Stored(t) == /\ At(t, "store")
             /\ thread[t].stores = {}
             /\ Answer(t, thread[t].seen, "file")
             /\ UNCHANGED <<file, flag, present, checked, ordered, settled, prompt>>

(* 503, or on to the handler; an exempt path goes on in both cases. *)
Done(t) == /\ At(t, "answer")
           /\ thread' = [thread EXCEPT ![t] = Idle]
           /\ UNCHANGED <<file, flag, present, checked, ordered, settled, prompt>>

Decide(t) == \/ Load(t) \/ Cached(t) \/ Stat(t) \/ Stored(t) \/ Done(t)
             \/ \E what \in {"present", "checked"} : Store(t, what)

(* karbon maintenance on | off *)
Toggle == /\ file' = ~file
          /\ settled' = 0
          /\ UNCHANGED <<flag, present, checked, thread, ordered, prompt>>

SetMaintenance(enabled) ==
    /\ flag' = enabled
    /\ UNCHANGED <<file, present, checked, thread, ordered, settled, prompt>>

Older(age) == IF age < Old THEN age + 1 ELSE Old

Tick == /\ checked' = Older(checked)
        /\ settled' = Older(settled)
        /\ thread' = [t \in Threads |-> IF thread[t].pc \in {"stat", "store"}
                                        THEN [thread[t] EXCEPT !.now = Older(@)]
                                        ELSE thread[t]]
        /\ prompt' = (prompt /\ \A t \in Threads : At(t, "idle"))
        /\ UNCHANGED <<file, flag, present, ordered>>

Next == \/ \E t \in Threads : Request(t) \/ Decide(t)
        \/ Toggle
        \/ \E enabled \in BOOLEAN : SetMaintenance(enabled)
        \/ Tick

Spec == Init /\ [][Next]_vars

(* Threads go on with what they began, and time passes. *)
Fairness == WF_vars(Tick) /\ \A t \in Threads : WF_vars(Decide(t))

FairSpec == Spec /\ Fairness

-----------------------------------------------------------------------------------
(* Properties. *)

Ages == 0 .. Old

TypeOK == /\ {file, flag, present, ordered, prompt} \subseteq BOOLEAN
          /\ {checked, settled} \subseteq Ages
          /\ thread \in [Threads -> {Idle}
                 \union [pc : {"check"}]
                 \union [pc : {"cached"}, early : BOOLEAN]
                 \union [pc : {"stat"}, now : Ages]
                 \union [pc : {"store"}, now : Ages, seen : BOOLEAN,
                         stores : SUBSET {"present", "checked"}]
                 \union [pc : {"answer"}, closed : BOOLEAN, by : {"flag", "file"}]]

(* "Traffic resumes within a second": an answer differs from the file only while the   *)
(* file's last change is less than the TTL ago - where relaxed accesses keep their     *)
(* order and no decision takes as long as a tick. (The flag of set_maintenance closes  *)
(* the application on its own.)                                                        *)
WithinASecond ==
    ordered /\ prompt =>
        \A t \in Threads : At(t, "answer") /\ thread[t].by = "file"
                               => thread[t].closed = file \/ settled < TTL

(* On every machine, however slow a thread: a file that stays is obeyed in the end,    *)
(* whatever set_maintenance does ("it can never be used to lift a maintenance an       *)
(* operator declared on disk"), and a file that stays away lets traffic through once   *)
(* the flag stays off - even if a slow thread overwrote a newer look at the file with  *)
(* an older one.                                                                       *)
FileIsObeyed ==
    /\ <>[]file => <>[](\A t \in Threads : At(t, "answer") => thread[t].closed)
    /\ <>[](~file /\ ~flag) => <>[](\A t \in Threads : At(t, "answer") => ~thread[t].closed)
==================================================================================
