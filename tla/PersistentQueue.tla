----------------------------- MODULE PersistentQueue -----------------------------
(* The DB-backed job queue of karbon-framework/src/job/persistent.rs: jobs are rows *)
(* of one table; any number of workers poll it, claim a row by deleting it, run the *)
(* handler of its kind and re-insert the job when the handler fails.                *)
(*                                                                                  *)
(* Every SQL statement is atomic; between two of them, and while a handler runs,    *)
(* other workers move and a process may stop, with every loop it spawned.               *)
EXTENDS Naturals

CONSTANTS Jobs,         \* one element per successful call of push
          Workers,      \* background loops spawned by start, in any process
          Handled,      \* the jobs whose KIND is registered in the builder
          MaxAttempts,  \* the builder's max_attempts
          MaxFaults     \* bound on crashes and database errors in a behaviour

ASSUME ConstantsAssumption == /\ Handled \subseteq Jobs
                              /\ MaxAttempts \in Nat
                              /\ MaxFaults \in Nat

VARIABLES table,    \* the rows of _karbon_jobs
          nextId,   \* the id the next INSERT is given (AUTOINCREMENT)
          worker,   \* per worker: the statement it is about to run and the row it read
          pushed,   \* the jobs whose push has returned Ok
          runs,     \* history: executions started, per job
          outcome,  \* history: how a job ended ("none" while it has not)
          faults,   \* crashes, panics and database errors so far
          takenBy   \* history: the kind of fault that took a job from its loop

vars == <<table, nextId, worker, pushed, runs, outcome, faults, takenBy>>

Row == [id : Nat, job : Jobs, attempts : Nat]

Phase == {"poll", "claim", "run", "requeue", "sleep", "down", "panicked"}

Outcome == {"none", "done", "dead", "dropped"}

(* A process that stops, a handler that panics, a re-insert that fails, an answer    *)
(* of the DELETE that does not arrive.                                               *)
FaultKind == {"stop", "panic", "insert", "answer"}

NoRow == [id |-> 0]

Init == /\ table = {}
        /\ nextId = 1
        /\ worker = [w \in Workers |-> [pc |-> "poll", row |-> NoRow]]
        /\ pushed = {}
        /\ runs = [j \in Jobs |-> 0]
        /\ outcome = [j \in Jobs |-> "none"]
        /\ faults = 0
        /\ takenBy = [j \in Jobs |-> "none"]

Goto(w, pc, row) == worker' = [worker EXCEPT ![w] = [pc |-> pc, row |-> row]]

Holds(w, j) == worker[w].pc \in {"run", "requeue"} /\ worker[w].row.job = j

Fault == /\ faults < MaxFaults
         /\ faults' = faults + 1

(* The jobs in the hands of these loops are nobody's any more. *)
TakeFrom(S, how) ==
    takenBy' = [j \in Jobs |-> IF \E w \in S : Holds(w, j) THEN how ELSE takenBy[j]]

End(j, how) == outcome' = [outcome EXCEPT ![j] = how]

(* INSERT INTO _karbon_jobs: the database gives the row an id of its own. *)
Insert(j, attempts) ==
    /\ table' = table \union {[id |-> nextId, job |-> j, attempts |-> attempts]}
    /\ nextId' = nextId + 1

Push(j) ==
    /\ j \notin pushed
    /\ Insert(j, 0)
    /\ pushed' = pushed \union {j}
    /\ UNCHANGED <<worker, runs, outcome, faults, takenBy>>

-----------------------------------------------------------------------------------
(* One round of a worker: start's loop around process_one. *)

Oldest == {r \in table : \A s \in table : r.id <= s.id}

(* SELECT ... ORDER BY id LIMIT 1. *)
Select(w) ==
    /\ worker[w].pc = "poll"
    /\ \/ \E r \in Oldest : Goto(w, "claim", r)
       \/ table = {} /\ Goto(w, "sleep", NoRow)
    /\ UNCHANGED <<table, nextId, pushed, runs, outcome, faults, takenBy>>

(* A row claimed with its DELETE: the handler of its kind starts, or, when none is *)
(* registered, the job is dropped and the worker goes on.                          *)
Dispatch(w, r) ==
    IF r.job \in Handled
    THEN /\ Goto(w, "run", r)
         /\ runs' = [runs EXCEPT ![r.job] = @ + 1]
         /\ UNCHANGED outcome
    ELSE /\ Goto(w, "poll", NoRow)
         /\ End(r.job, "dropped")
         /\ UNCHANGED runs

Delete(id) == table' = {r \in table : r.id # id}

Claim_Unchecked(w) ==
    LET row == worker[w].row
    IN  /\ worker[w].pc = "claim"
        /\ Delete(row.id)
        /\ Dispatch(w, row)
        /\ UNCHANGED <<nextId, pushed, faults, takenBy>>

Claim_KeepsUnhandled(w) ==
    LET row == worker[w].row
    IN  /\ worker[w].pc = "claim"
        /\ IF row \in table /\ row.job \in Handled
           THEN Delete(row.id) /\ Dispatch(w, row)
           ELSE Goto(w, "sleep", NoRow) /\ UNCHANGED <<table, runs, outcome>>
        /\ UNCHANGED <<nextId, pushed, faults, takenBy>>

(* Claim by delete: a worker whose DELETE affects no row lost the race. *)
Claim(w) ==
    LET row == worker[w].row
    IN  /\ worker[w].pc = "claim"
        /\ Delete(row.id)
        /\ IF \E r \in table : r.id = row.id
           THEN Dispatch(w, row)
           ELSE Goto(w, "sleep", NoRow) /\ UNCHANGED <<runs, outcome>>
        /\ UNCHANGED <<nextId, pushed, faults, takenBy>>

HandlerOk(w) ==
    /\ worker[w].pc = "run"
    /\ Goto(w, "poll", NoRow)
    /\ End(worker[w].row.job, "done")
    /\ UNCHANGED <<table, nextId, pushed, runs, faults, takenBy>>

HandlerErr_Forgets(w) ==
    LET row == worker[w].row
    IN  /\ worker[w].pc = "run"
        /\ Goto(w, "poll", NoRow)
        /\ IF row.attempts + 1 < MaxAttempts THEN UNCHANGED outcome
           ELSE End(row.job, "dead")
        /\ UNCHANGED <<table, nextId, pushed, runs, faults, takenBy>>

HandlerErr_OneMore(w) ==
    LET row == worker[w].row
    IN  /\ worker[w].pc = "run"
        /\ IF row.attempts + 1 <= MaxAttempts
           THEN Goto(w, "requeue", row) /\ UNCHANGED outcome
           ELSE Goto(w, "poll", NoRow) /\ End(row.job, "dead")
        /\ UNCHANGED <<table, nextId, pushed, runs, faults, takenBy>>

(* The handler, or the decoding of the payload, returned an error: the job is to be *)
(* re-queued while its next attempt is below max_attempts, else it is a dead letter.*)
HandlerErr(w) ==
    LET row == worker[w].row
    IN  /\ worker[w].pc = "run"
        /\ IF row.attempts + 1 < MaxAttempts
           THEN Goto(w, "requeue", row) /\ UNCHANGED outcome
           ELSE Goto(w, "poll", NoRow) /\ End(row.job, "dead")
        /\ UNCHANGED <<table, nextId, pushed, runs, faults, takenBy>>

Requeue_SameCount(w) ==
    LET row == worker[w].row
    IN  /\ worker[w].pc = "requeue"
        /\ Insert(row.job, row.attempts)
        /\ Goto(w, "poll", NoRow)
        /\ UNCHANGED <<pushed, runs, outcome, faults, takenBy>>

Requeue_SameId(w) ==
    LET row == worker[w].row
    IN  /\ worker[w].pc = "requeue"
        /\ table' = table \union {[row EXCEPT !.attempts = @ + 1]}
        /\ Goto(w, "poll", NoRow)
        /\ UNCHANGED <<nextId, pushed, runs, outcome, faults, takenBy>>

(* The failed job goes back as a new row that counts the attempt. *)
Requeue(w) ==
    LET row == worker[w].row
    IN  /\ worker[w].pc = "requeue"
        /\ Insert(row.job, row.attempts + 1)
        /\ Goto(w, "poll", NoRow)
        /\ UNCHANGED <<pushed, runs, outcome, faults, takenBy>>

(* The poll interval elapsed. *)
Wake(w) ==
    /\ worker[w].pc = "sleep"
    /\ Goto(w, "poll", NoRow)
    /\ UNCHANGED <<table, nextId, pushed, runs, outcome, faults, takenBy>>

-----------------------------------------------------------------------------------
(* Faults. *)

(* The SELECT or the DELETE fails: process_one returns Err, start logs and sleeps. *)
QueryFails(w) ==
    /\ worker[w].pc \in {"poll", "claim"}
    /\ Fault
    /\ Goto(w, "sleep", NoRow)
    /\ UNCHANGED <<table, nextId, pushed, runs, outcome, takenBy>>

(* The DELETE took effect and its answer did not arrive: also an Err for the worker. *)
ClaimReplyLost(w) ==
    /\ worker[w].pc = "claim"
    /\ Fault
    /\ Delete(worker[w].row.id)
    /\ Goto(w, "sleep", NoRow)
    /\ takenBy' = [j \in Jobs |-> IF worker[w].row \in table /\ worker[w].row.job = j
                                  THEN "answer" ELSE takenBy[j]]
    /\ UNCHANGED <<nextId, pushed, runs, outcome>>

(* The INSERT of a retry fails: its result is discarded (let _ = ...). *)
RequeueFails(w) ==
    /\ worker[w].pc = "requeue"
    /\ Fault
    /\ Goto(w, "poll", NoRow)
    /\ TakeFrom({w}, "insert")
    /\ UNCHANGED <<table, nextId, pushed, runs, outcome>>

(* The handler panics and takes the spawned loop with it: nobody restarts the loop. *)
Panic(w) ==
    /\ worker[w].pc = "run"
    /\ Fault
    /\ Goto(w, "panicked", NoRow)
    /\ TakeFrom({w}, "panic")
    /\ UNCHANGED <<table, nextId, pushed, runs, outcome>>

(* A process stops, and every loop its calls of start have spawned: one of them, *)
(* or all, as the loops are spread over the processes.                           *)
Crash(S) ==
    /\ S # {} /\ \A w \in S : worker[w].pc # "down"
    /\ Fault
    /\ worker' = [w \in Workers |-> IF w \in S THEN [pc |-> "down", row |-> NoRow]
                                   ELSE worker[w]]
    /\ TakeFrom(S, "stop")
    /\ UNCHANGED <<table, nextId, pushed, runs, outcome>>

(* The application starts again and calls start. *)
Restart(w) ==
    /\ worker[w].pc = "down"
    /\ Goto(w, "poll", NoRow)
    /\ UNCHANGED <<table, nextId, pushed, runs, outcome, faults, takenBy>>

Work(w) == \/ Select(w) \/ Claim(w) \/ HandlerOk(w) \/ HandlerErr(w)
           \/ Requeue(w) \/ Wake(w) \/ Restart(w)

Failure(w) == \/ QueryFails(w) \/ ClaimReplyLost(w) \/ RequeueFails(w)
              \/ Panic(w)

Next == \/ \E j \in Jobs : Push(j)
        \/ \E w \in Workers : Work(w) \/ Failure(w)
        \/ \E S \in SUBSET Workers : Crash(S)

Spec == Init /\ [][Next]_vars

(* The runtime keeps polling a spawned loop, statements and handlers return, and a *)
(* stopped application is started again.                                           *)
FairSpec == Spec /\ \A w \in Workers : WF_vars(Work(w))

-----------------------------------------------------------------------------------
(* Properties. *)

InHands(j) == \E w \in Workers : Holds(w, j)

Stored(j) == \E r \in table : r.job = j

Settled(j) == outcome[j] # "none"

Lost(j) == j \in pushed /\ ~Stored(j) /\ ~Settled(j) /\ ~InHands(j)

TypeOK == /\ table \subseteq Row
          /\ nextId \in Nat
          /\ worker \in [Workers -> [pc : Phase, row : Row \union {NoRow}]]
          /\ \A w \in Workers : worker[w].pc \in {"claim", "run", "requeue"}
                                    => worker[w].row \in Row
          /\ pushed \subseteq Jobs
          /\ runs \in [Jobs -> Nat]
          /\ outcome \in [Jobs -> Outcome]
          /\ faults \in Nat
          /\ takenBy \in [Jobs -> FaultKind \union {"none"}]

(* A job is in one place at a time: one row of the table, or the hands of one      *)
(* worker, or finished - however the SELECTs and DELETEs of the workers interleave *)
(* and wherever they stop (claim by delete, process_one).                          *)
SingleCustody ==
    \A j \in Jobs :
        /\ \A r, s \in table : r.job = j /\ s.job = j => r = s
        /\ \A v, w \in Workers : Holds(v, j) /\ Holds(w, j) => v = w
        /\ ~(Stored(j) /\ \E w \in Workers : Holds(w, j))
        /\ Settled(j) => ~Stored(j) /\ \A w \in Workers : ~Holds(w, j)

(* A job is never executed more than max_attempts times (once when it is 0 or 1),  *)
(* across workers, crashes and re-insertions under new ids: the count the row      *)
(* carries is the number of executions.                                            *)
AttemptsBounded == \A j \in Jobs : runs[j] <= 1 \/ runs[j] <= MaxAttempts

(* Workers take jobs in the order of their rows: when a DELETE succeeds, no older  *)
(* row waits, although the id was read in an earlier statement and other workers   *)
(* claimed and re-inserted rows since.                                             *)
ClaimsOldest ==
    [][\A r \in table : r \notin table' => \A s \in table : r.id <= s.id]_vars

(* "Jobs pushed here are stored in a table and survive restarts": the stop of a    *)
(* process takes no job away.                                                      *)
SurviveRestarts == \A j \in Jobs : Lost(j) => takenBy[j] # "stop"

(* A job is lost exactly when a fault found it outside the table: with a loop that  *)
(* ran its handler or was about to re-insert it, or between a DELETE and its answer.*)
(* The loops lose none by themselves, in no interleaving; no fault takes a job that *)
(* is in its row or finished; and what a fault took never comes back.               *)
LostOnlyToFaults == \A j \in Jobs : Lost(j) <=> takenBy[j] # "none"

(* Every pushed job is eventually finished, unless a fault took it: retries end and *)
(* no job is passed over for ever by the others' retries. Only a queue all of whose *)
(* loops ended in a panicking handler stands still.                                 *)
EveryJobResolved ==
    \A j \in Jobs : j \in pushed ~> \/ Settled(j) \/ Lost(j)
                                    \/ \A w \in Workers : worker[w].pc = "panicked"

(* What the interleavings keep true and the two safety properties rest on.          *)
(* Ids: an id names one row for ever, so a row read by an earlier SELECT is either  *)
(* gone or still the same, and still the oldest, when its DELETE runs.              *)
IdsNameRows ==
    /\ \A r \in table : r.id < nextId
    /\ \A r, s \in table : r.id = s.id => r = s
    /\ \A w \in Workers : worker[w].pc = "claim" =>
           /\ worker[w].row.id < nextId
           /\ \A r \in table : /\ r.id = worker[w].row.id => r = worker[w].row
                               /\ worker[w].row.id <= r.id

(* The count of a row is the number of executions before it, of a held row one less *)
(* than those so far, and a row is only written with an attempt left.               *)
CountsAreRuns ==
    /\ \A r \in table : /\ r.attempts = runs[r.job]
                        /\ r.attempts = 0 \/ r.attempts < MaxAttempts
    /\ \A w \in Workers : worker[w].pc \in {"run", "requeue"} =>
           LET row == worker[w].row
           IN  /\ runs[row.job] = row.attempts + 1
               /\ row.attempts = 0 \/ row.attempts < MaxAttempts
               /\ worker[w].pc = "requeue" => row.attempts + 1 < MaxAttempts

OnlyPushed ==
    \A j \in Jobs \ pushed : /\ runs[j] = 0
                             /\ ~Stored(j)
                             /\ ~Settled(j)
                             /\ \A w \in Workers : ~Holds(w, j)

(* The inductive invariant: every step of every worker and every fault keeps these  *)
(* parts together, none of them alone.                                              *)
IInv == /\ TypeOK
        /\ IdsNameRows
        /\ SingleCustody
        /\ CountsAreRuns
        /\ AttemptsBounded
        /\ OnlyPushed

(* The place of a job in the abstract queue. *)
Custody(j) == IF Settled(j) THEN "settled"
              ELSE IF Stored(j) THEN "queued"
              ELSE IF InHands(j) THEN "running"
              ELSE IF j \in pushed THEN "lost" ELSE "absent"

Abstract == INSTANCE JobCustody WITH custody <- [j \in Jobs |-> Custody(j)],
                                     runs <- runs

(* The queue implements JobCustody: every statement of every worker is one step of *)
(* one job between the abstract places, or none.                                   *)
ImplementsCustody == Abstract!Spec
==================================================================================
