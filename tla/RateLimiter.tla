------------------------------- MODULE RateLimiter --------------------------------
(* RateLimitLayer: karbon-framework/src/http/middleware/rate_limit.rs. All clones of   *)
(* the service share one map under a mutex, so a request is counted in one step. Time  *)
(* is kept as ages, in ticks; which address a request has is decided by its caller.    *)
EXTENDS Integers, FiniteSets

CONSTANTS IPs,         \* client addresses
          MaxRequests, \* max_requests
          Window,      \* window, in ticks
          Sweep        \* SWEEP_THRESHOLD

(* Sizes of any value; the properties hold for MaxRequests = 0 too: everyone is refused. *)
LimiterAssumption == {MaxRequests, Window, Sweep} \subseteq Nat

VARIABLES store,     \* the map: address -> count of the window and age of its start
          answer,    \* the last answer in this tick: to whom, and whether it was let in
          accepted   \* history: per address, the requests let in within the last window

limiter == <<store, answer, accepted>>

Ages == 0 .. Window + 1

Silent == [to |-> "nobody"]

Init == /\ store = [ip \in {} |-> [count |-> 0, age |-> 0]]
        /\ answer = Silent
        /\ accepted = [ip \in IPs |-> {}]

Large == Cardinality(DOMAIN store) > Sweep

(* Once the map is large, expired windows are evicted. *)
Kept == IF Large THEN {ip \in DOMAIN store : store[ip].age <= Window} ELSE DOMAIN store

NewWindow == [count |-> 0, age |-> 0]

Renewed_Slides(ip) == IF store[ip].age > Window THEN NewWindow
                      ELSE [store[ip] EXCEPT !.age = 0]

(* The entry a request is counted in: a new one, or a reset one, when there is none    *)
(* that still runs.                                                                    *)
Renewed(ip) == IF store[ip].age > Window THEN NewWindow ELSE store[ip]

(* A count above max is refused; counting further makes no difference (the bound). *)
Counted(entry) == [entry EXCEPT !.count = IF @ > MaxRequests THEN @ ELSE @ + 1]

(* A request let in now; the number tells it from the others of this tick. *)
Passed(ip) == [age |-> 0, nth |-> Cardinality(accepted[ip])]

Call(ip) ==
    LET entry == Counted(IF ip \in Kept THEN Renewed(ip) ELSE NewWindow)
        ok == entry.count <= MaxRequests
    IN  /\ store' = [i \in Kept \union {ip} |-> IF i = ip THEN entry ELSE store[i]]
        /\ answer' = [to |-> ip, ok |-> ok]
        /\ accepted' = IF ok THEN [accepted EXCEPT ![ip] = @ \union {Passed(ip)}] ELSE accepted

Aged(r) == [r EXCEPT !.age = @ + 1]

Tick == /\ store' = [ip \in DOMAIN store |->
                        [store[ip] EXCEPT !.age = IF @ > Window THEN @ ELSE @ + 1]]
        /\ answer' = Silent
        /\ accepted' = [ip \in IPs |-> {Aged(r) : r \in {s \in accepted[ip] : s.age < Window}}]

Next == (\E ip \in IPs : Call(ip)) \/ Tick

Spec == Init /\ [][Next]_limiter

-----------------------------------------------------------------------------------
(* Properties. *)

Recent(ip) == Cardinality(accepted[ip])

TypeOK == /\ DOMAIN store \subseteq IPs
          /\ \A ip \in DOMAIN store : store[ip] \in [count : 1 .. MaxRequests + 1, age : Ages]
          /\ answer = Silent \/ answer \in [to : IPs, ok : BOOLEAN]
          /\ accepted \in [IPs -> SUBSET [age : 0 .. Window, nth : 0 .. 2 * MaxRequests]]

(* The limit, whatever else the map holds and when it is swept: no address gets more   *)
(* than two windows' worth in the length of one window, however its requests fall      *)
(* across the reset; and one that is refused has had its max within the last window,   *)
(* so that being refused, and going on asking, never prolongs the wait.                *)
RateLimited ==
    /\ \A ip \in IPs : Recent(ip) <= 2 * MaxRequests
    /\ answer # Silent /\ ~answer.ok => Recent(answer.to) >= MaxRequests
==================================================================================
