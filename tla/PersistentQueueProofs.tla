-------------------------- MODULE PersistentQueueProofs --------------------------
(* Proofs about PersistentQueue: its inductive invariant, and from it the custody   *)
(* of every job and the bound on its executions, for any jobs, workers and limits.  *)
EXTENDS PersistentQueue, TLAPS

(* Workers that hold no row and touch none leave the invariant alone, whatever rows *)
(* leave the table with them.                                                       *)
LEMMA AllLetGo ==
    ASSUME IInv, NEW S \in SUBSET Workers,
           NEW pc \in {"poll", "sleep", "down", "panicked"},
           worker' = [v \in Workers |-> IF v \in S THEN [pc |-> pc, row |-> NoRow]
                                       ELSE worker[v]],
           table' \subseteq table, faults' \in Nat,
           takenBy' \in [Jobs -> FaultKind \union {"none"}],
           UNCHANGED <<nextId, pushed, runs, outcome>>
    PROVE  IInv'
<1>1. \A v \in Workers : worker'[v] = IF v \in S THEN [pc |-> pc, row |-> NoRow]
                                              ELSE worker[v]
    OBVIOUS
<1>2. \A v \in Workers, j \in Jobs : Holds(v, j)' => Holds(v, j)
    BY <1>1 DEF Holds
<1>3. TypeOK'
    <2>1. worker' \in [Workers -> [pc : Phase, row : Row \union {NoRow}]]
        BY <1>1 DEF IInv, TypeOK, Phase
    <2> QED  BY <1>1, <2>1 DEF IInv, TypeOK
<1>4. IdsNameRows'
    BY <1>1 DEF IInv, IdsNameRows
<1>5. SingleCustody'
    BY <1>2 DEF IInv, SingleCustody, Stored, Settled
<1>6. CountsAreRuns'
    BY <1>1 DEF IInv, CountsAreRuns
<1>7. AttemptsBounded'
    BY DEF IInv, AttemptsBounded
<1>8. OnlyPushed'
    BY <1>2 DEF IInv, OnlyPushed, Stored, Settled
<1> QED  BY <1>3, <1>4, <1>5, <1>6, <1>7, <1>8 DEF IInv

(* One worker that lets go. *)
LEMMA LetGo ==
    ASSUME IInv, NEW w \in Workers,
           NEW pc \in {"poll", "sleep", "down", "panicked"},
           Goto(w, pc, NoRow), table' \subseteq table, faults' \in Nat,
           takenBy' \in [Jobs -> FaultKind \union {"none"}],
           UNCHANGED <<nextId, pushed, runs, outcome>>
    PROVE  IInv'
<1>1. worker' = [v \in Workers |-> IF v \in {w} THEN [pc |-> pc, row |-> NoRow] ELSE worker[v]]
    BY DEF Goto, IInv, TypeOK
<1> QED  BY <1>1, AllLetGo

(* The queue starts with an empty table and idle workers.                           *)
LEMMA InitIInv == Init => IInv
<1> SUFFICES ASSUME Init PROVE IInv
    OBVIOUS
<1>1. TypeOK
    BY ConstantsAssumption DEF Init, TypeOK, Phase, Outcome, FaultKind
<1>2. IdsNameRows /\ CountsAreRuns /\ AttemptsBounded
    BY ConstantsAssumption DEF Init, IdsNameRows, CountsAreRuns, AttemptsBounded
<1>3. SingleCustody /\ OnlyPushed
    BY DEF Init, SingleCustody, OnlyPushed, Stored, Settled, Holds
<1> QED  BY <1>1, <1>2, <1>3 DEF IInv

(* A push adds a row with a fresh id for a job that is nowhere yet.                 *)
LEMMA PushIInv ==
    ASSUME IInv, NEW j \in Jobs, Push(j)
    PROVE  IInv'
<1> DEFINE new == [id |-> nextId, job |-> j, attempts |-> 0]
<1>1. /\ table' = table \union {new}
      /\ nextId' = nextId + 1
      /\ pushed' = pushed \union {j}
      /\ j \notin pushed
      /\ UNCHANGED <<worker, runs, outcome, faults, takenBy>>
    BY DEF Push, Insert
<1>2. TypeOK'
    BY <1>1 DEF IInv, TypeOK, Row
<1>3. IdsNameRows'
    BY <1>1 DEF IInv, TypeOK, IdsNameRows, Row
<1>4. SingleCustody'
    BY <1>1 DEF IInv, SingleCustody, OnlyPushed, Stored, Settled, Holds
<1>5. CountsAreRuns'
    BY <1>1 DEF IInv, CountsAreRuns, OnlyPushed
<1>6. AttemptsBounded'
    BY <1>1 DEF IInv, AttemptsBounded
<1>7. OnlyPushed'
    BY <1>1 DEF IInv, OnlyPushed, Stored, Settled, Holds
<1> QED  BY <1>2, <1>3, <1>4, <1>5, <1>6, <1>7 DEF IInv

(* A worker reads the oldest row, or finds none and sleeps.                         *)
LEMMA SelectIInv ==
    ASSUME IInv, NEW w \in Workers, Select(w)
    PROVE  IInv'
<1>1. ASSUME NEW r \in Oldest, Goto(w, "claim", r) PROVE IInv'
    <2>1. /\ r \in table
          /\ r \in Row
          /\ \A t \in table : r.id <= t.id
          /\ UNCHANGED <<table, nextId, pushed, runs, outcome, faults, takenBy>>
        BY DEF Oldest, Select, IInv, TypeOK
    <2>2. \A v \in Workers : worker'[v] = IF v = w THEN [pc |-> "claim", row |-> r]
                                                  ELSE worker[v]
        BY <1>1 DEF Goto, IInv, TypeOK
    <2>3. \A v \in Workers, j \in Jobs : Holds(v, j)' => Holds(v, j)
        BY <2>2 DEF Holds
    <2>4. TypeOK'
        <3>1. worker' \in [Workers -> [pc : Phase, row : Row \union {NoRow}]]
            BY <1>1, <2>1, <2>2 DEF Goto, IInv, TypeOK, Phase
        <3> QED  BY <2>1, <2>2, <3>1 DEF IInv, TypeOK
    <2>5. IdsNameRows'
        BY <2>1, <2>2 DEF IInv, IdsNameRows
    <2>6. SingleCustody' /\ OnlyPushed'
        BY <2>1, <2>3 DEF IInv, SingleCustody, OnlyPushed, Stored, Settled
    <2>7. CountsAreRuns' /\ AttemptsBounded'
        BY <2>1, <2>2 DEF IInv, CountsAreRuns, AttemptsBounded
    <2> QED  BY <2>4, <2>5, <2>6, <2>7 DEF IInv
<1>2. CASE table = {} /\ Goto(w, "sleep", NoRow)
    <2>1. /\ table' \subseteq table /\ faults' \in Nat
          /\ takenBy' \in [Jobs -> FaultKind \union {"none"}]
          /\ UNCHANGED <<nextId, pushed, runs, outcome>>
        BY DEF Select, IInv, TypeOK
    <2> QED  BY <1>2, <2>1, LetGo
<1> QED  BY <1>1, <1>2 DEF Select

(* The DELETE found the row, so the row is the one the SELECT read: the job moves    *)
(* from the table to the worker.                                                    *)
LEMMA ClaimIInv ==
    ASSUME IInv, NEW w \in Workers, Claim(w)
    PROVE  IInv'
<1> DEFINE row == worker[w].row
<1>1. /\ worker[w].pc = "claim"
      /\ row \in Row
      /\ table' = {r \in table : r.id # row.id}
      /\ UNCHANGED <<nextId, pushed, faults, takenBy>>
    BY DEF Claim, Delete, IInv, TypeOK
<1>2. CASE ~ \E r \in table : r.id = row.id
    <2>1. /\ Goto(w, "sleep", NoRow) /\ table' \subseteq table /\ faults' \in Nat
          /\ takenBy' \in [Jobs -> FaultKind \union {"none"}]
          /\ UNCHANGED <<nextId, pushed, runs, outcome>>
        BY <1>1, <1>2 DEF Claim, IInv, TypeOK
    <2> QED  BY <2>1, LetGo
<1>3. CASE \E r \in table : r.id = row.id
    <2>1. row \in table
        BY <1>1, <1>3 DEF IInv, IdsNameRows
    <2>2. Dispatch(w, row)
        BY <1>3 DEF Claim
    <2>3. \A r \in table' : r \in table /\ r.job # row.job
        BY <1>1, <2>1 DEF IInv, SingleCustody, TypeOK, Row
    <2>4. /\ row.job \in Jobs /\ row.attempts \in Nat /\ row.attempts = runs[row.job]
          /\ row.attempts = 0 \/ row.attempts < MaxAttempts
          /\ row.job \in pushed /\ ~Settled(row.job)
          /\ \A v \in Workers : ~Holds(v, row.job)
        BY <1>1, <2>1 DEF IInv, Row, CountsAreRuns, OnlyPushed, SingleCustody, Stored
    <2>5. CASE row.job \in Handled
        <3>1. /\ Goto(w, "run", row)
              /\ runs' = [runs EXCEPT ![row.job] = @ + 1]
              /\ UNCHANGED outcome
            BY <2>2, <2>5 DEF Dispatch
        <3>2. \A v \in Workers : worker'[v] = IF v = w THEN [pc |-> "run", row |-> row]
                                                      ELSE worker[v]
            BY <3>1 DEF Goto, IInv, TypeOK
        <3>3. \A j \in Jobs : runs'[j] = IF j = row.job THEN runs[j] + 1 ELSE runs[j]
            BY <3>1 DEF IInv, TypeOK
        <3>4. \A v \in Workers, j \in Jobs :
                  Holds(v, j)' <=> (v = w /\ j = row.job) \/ (v # w /\ Holds(v, j))
            BY <3>2 DEF Holds
        <3>5. \A j \in Jobs : /\ Stored(j)' => Stored(j) /\ j # row.job
                              /\ Settled(j)' <=> Settled(j)
            BY <2>3, <3>1 DEF Stored, Settled
        <3>6. TypeOK'
            <4>1. worker' \in [Workers -> [pc : Phase, row : Row \union {NoRow}]]
                BY <1>1, <3>1 DEF Goto, IInv, TypeOK, Phase
            <4>2. runs' \in [Jobs -> Nat]
                BY <2>4, <3>1 DEF IInv, TypeOK
            <4> QED  BY <1>1, <2>3, <3>1, <3>2, <4>1, <4>2 DEF IInv, TypeOK
        <3>7. IdsNameRows'
            BY <1>1, <2>3, <3>2 DEF IInv, IdsNameRows
        <3>8. SingleCustody'
            BY <2>3, <2>4, <3>4, <3>5 DEF IInv, SingleCustody
        <3>9. CountsAreRuns'
            <4>1. \A r \in table' : /\ r.attempts = runs'[r.job]
                                    /\ r.attempts = 0 \/ r.attempts < MaxAttempts
                BY <2>3, <3>3 DEF IInv, TypeOK, Row, CountsAreRuns
            <4>2. \A v \in Workers : v # w /\ worker[v].pc \in {"run", "requeue"}
                        => worker[v].row.job \in Jobs /\ worker[v].row.job # row.job
                BY <2>4 DEF IInv, TypeOK, Row, Holds
            <4> QED  BY <2>4, <3>2, <3>3, <4>1, <4>2 DEF IInv, CountsAreRuns
        <3>10. AttemptsBounded'
            BY <2>4, <3>3, ConstantsAssumption DEF IInv, AttemptsBounded
        <3>11. OnlyPushed'
            BY <1>1, <2>4, <3>3, <3>4, <3>5 DEF IInv, OnlyPushed
        <3> QED  BY <3>6, <3>7, <3>8, <3>9, <3>10, <3>11 DEF IInv
    <2>6. CASE row.job \notin Handled
        <3>1. /\ Goto(w, "poll", NoRow)
              /\ outcome' = [outcome EXCEPT ![row.job] = "dropped"]
              /\ UNCHANGED runs
            BY <2>2, <2>6 DEF Dispatch, End
        <3>2. \A v \in Workers : worker'[v] = IF v = w THEN [pc |-> "poll", row |-> NoRow]
                                                      ELSE worker[v]
            BY <3>1 DEF Goto, IInv, TypeOK
        <3>3. \A v \in Workers, j \in Jobs : Holds(v, j)' => v # w /\ Holds(v, j)
            BY <3>2 DEF Holds
        <3>4. \A j \in Jobs : /\ Stored(j)' => Stored(j) /\ j # row.job
                              /\ Settled(j)' <=> Settled(j) \/ j = row.job
            BY <2>3, <2>4, <3>1 DEF Stored, Settled, IInv, TypeOK
        <3>5. TypeOK'
            <4>1. worker' \in [Workers -> [pc : Phase, row : Row \union {NoRow}]]
                BY <3>1 DEF Goto, IInv, TypeOK, Phase
            <4>2. outcome' \in [Jobs -> Outcome]
                BY <2>4, <3>1 DEF IInv, TypeOK, Outcome
            <4> QED  BY <1>1, <2>3, <3>1, <3>2, <4>1, <4>2 DEF IInv, TypeOK
        <3>6. IdsNameRows'
            BY <1>1, <2>3, <3>2 DEF IInv, IdsNameRows
        <3>7. SingleCustody'
            BY <2>3, <2>4, <3>3, <3>4 DEF IInv, SingleCustody
        <3>8. CountsAreRuns' /\ AttemptsBounded'
            BY <2>3, <3>1, <3>2 DEF IInv, CountsAreRuns, AttemptsBounded
        <3>9. OnlyPushed'
            BY <1>1, <2>4, <3>1, <3>3, <3>4 DEF IInv, OnlyPushed
        <3> QED  BY <3>5, <3>6, <3>7, <3>8, <3>9 DEF IInv
    <2> QED  BY <2>5, <2>6
<1> QED  BY <1>2, <1>3

(* A job that ended is in nobody's hands and in no row.                             *)
LEMMA EndIInv ==
    ASSUME IInv, NEW w \in Workers, worker[w].pc = "run",
           NEW how \in {"done", "dead"},
           Goto(w, "poll", NoRow), End(worker[w].row.job, how),
           UNCHANGED <<table, nextId, pushed, runs, faults, takenBy>>
    PROVE  IInv'
<1> DEFINE job == worker[w].row.job
<1>1. job \in Jobs /\ Holds(w, job) /\ job \in pushed
    BY DEF IInv, TypeOK, Row, Holds, OnlyPushed
<1>2. \A v \in Workers : worker'[v] = IF v = w THEN [pc |-> "poll", row |-> NoRow]
                                              ELSE worker[v]
    BY DEF Goto, IInv, TypeOK
<1>3. \A v \in Workers, j \in Jobs : Holds(v, j)' => v # w /\ Holds(v, j)
    BY <1>2 DEF Holds
<1>4. \A j \in Jobs : /\ Stored(j)' <=> Stored(j)
                      /\ Settled(j)' <=> Settled(j) \/ j = job
    BY <1>1 DEF End, Stored, Settled, IInv, TypeOK
<1>5. TypeOK'
    <2>1. worker' \in [Workers -> [pc : Phase, row : Row \union {NoRow}]]
        BY DEF Goto, IInv, TypeOK, Phase
    <2>2. outcome' \in [Jobs -> Outcome]
        BY <1>1 DEF End, IInv, TypeOK, Outcome
    <2> QED  BY <1>2, <2>1, <2>2 DEF IInv, TypeOK
<1>6. IdsNameRows'
    BY <1>2 DEF IInv, IdsNameRows
<1>7. SingleCustody'
    BY <1>1, <1>3, <1>4 DEF IInv, SingleCustody
<1>8. CountsAreRuns' /\ AttemptsBounded'
    BY <1>2 DEF IInv, CountsAreRuns, AttemptsBounded
<1>9. OnlyPushed'
    BY <1>1, <1>3, <1>4 DEF IInv, OnlyPushed
<1> QED  BY <1>5, <1>6, <1>7, <1>8, <1>9 DEF IInv

(* A failed job is kept for its retry or ended as a dead letter.                    *)
LEMMA HandlerErrIInv ==
    ASSUME IInv, NEW w \in Workers, HandlerErr(w)
    PROVE  IInv'
<1> DEFINE row == worker[w].row
<1>1. worker[w].pc = "run" /\ UNCHANGED <<table, nextId, pushed, runs, faults, takenBy>>
    BY DEF HandlerErr
<1>2. CASE row.attempts + 1 < MaxAttempts
    <2>1. Goto(w, "requeue", row) /\ UNCHANGED outcome
        BY <1>2 DEF HandlerErr
    <2>2. \A v \in Workers : worker'[v] = IF v = w THEN [pc |-> "requeue", row |-> row]
                                                  ELSE worker[v]
        BY <2>1 DEF Goto, IInv, TypeOK
    <2>3. \A v \in Workers, j \in Jobs : Holds(v, j)' <=> Holds(v, j)
        BY <1>1, <2>2 DEF Holds
    <2>4. TypeOK'
        <3>1. worker' \in [Workers -> [pc : Phase, row : Row \union {NoRow}]]
            BY <1>1, <2>1 DEF Goto, IInv, TypeOK, Phase
        <3> QED  BY <1>1, <2>1, <2>2, <3>1 DEF IInv, TypeOK
    <2>5. IdsNameRows'
        BY <1>1, <2>2 DEF IInv, IdsNameRows
    <2>6. SingleCustody' /\ OnlyPushed'
        BY <1>1, <2>1, <2>3 DEF IInv, SingleCustody, OnlyPushed, Stored, Settled
    <2>7. CountsAreRuns' /\ AttemptsBounded'
        BY <1>1, <1>2, <2>2 DEF IInv, CountsAreRuns, AttemptsBounded
    <2> QED  BY <2>4, <2>5, <2>6, <2>7 DEF IInv
<1>3. CASE ~(row.attempts + 1 < MaxAttempts)
    <2>1. Goto(w, "poll", NoRow) /\ End(row.job, "dead")
        BY <1>3 DEF HandlerErr
    <2> QED  BY <1>1, <2>1, EndIInv
<1> QED  BY <1>2, <1>3

(* The retry is a new row of the job only this worker held, with a fresh id.        *)
LEMMA RequeueIInv ==
    ASSUME IInv, NEW w \in Workers, Requeue(w)
    PROVE  IInv'
<1> DEFINE row == worker[w].row
           new == [id |-> nextId, job |-> row.job, attempts |-> row.attempts + 1]
<1>1. /\ worker[w].pc = "requeue"
      /\ table' = table \union {new}
      /\ nextId' = nextId + 1
      /\ Goto(w, "poll", NoRow)
      /\ UNCHANGED <<pushed, runs, outcome, faults, takenBy>>
    BY DEF Requeue, Insert
<1>2. /\ row \in Row /\ row.job \in Jobs /\ row.attempts \in Nat
      /\ Holds(w, row.job) /\ row.job \in pushed
      /\ runs[row.job] = row.attempts + 1 /\ row.attempts + 1 < MaxAttempts
    BY <1>1 DEF IInv, TypeOK, Row, Holds, OnlyPushed, CountsAreRuns
<1>3. \A v \in Workers : worker'[v] = IF v = w THEN [pc |-> "poll", row |-> NoRow]
                                              ELSE worker[v]
    BY <1>1 DEF Goto, IInv, TypeOK
<1>4. \A v \in Workers, j \in Jobs : Holds(v, j)' <=> v # w /\ Holds(v, j)
    BY <1>3 DEF Holds
<1>5. \A j \in Jobs : /\ Stored(j)' <=> Stored(j) \/ j = row.job
                      /\ Settled(j)' <=> Settled(j)
    <2>1. new \in table' /\ new.job = row.job
        BY <1>1
    <2>2. \A r : r \in table' <=> r \in table \/ r = new
        BY <1>1
    <2> HIDE DEF new, row
    <2>3. ASSUME NEW j \in Jobs PROVE Stored(j)' <=> Stored(j) \/ j = row.job
        BY <2>1, <2>2 DEF Stored
    <2>4. outcome' = outcome
        BY <1>1
    <2> QED  BY <2>3, <2>4 DEF Settled
<1>6. TypeOK'
    <2>1. worker' \in [Workers -> [pc : Phase, row : Row \union {NoRow}]]
        BY <1>1 DEF Goto, IInv, TypeOK, Phase
    <2>2. new \in Row
        BY <1>2 DEF IInv, TypeOK, Row
    <2> QED  BY <1>1, <1>3, <2>1, <2>2 DEF IInv, TypeOK
<1>7. IdsNameRows'
    BY <1>1, <1>3 DEF IInv, TypeOK, IdsNameRows, Row
<1>8. SingleCustody'
    <2>1. ~Stored(row.job)
        BY <1>2 DEF IInv, SingleCustody
    <2>2. \A r, s \in table' : r.job = s.job => r = s
        BY <1>1, <2>1 DEF IInv, TypeOK, Row, SingleCustody, Stored
    <2> QED  BY <1>2, <1>4, <1>5, <2>2 DEF IInv, SingleCustody
<1>9. CountsAreRuns'
    BY <1>1, <1>2, <1>3 DEF IInv, CountsAreRuns
<1>10. AttemptsBounded'
    BY <1>1 DEF IInv, AttemptsBounded
<1>11. OnlyPushed'
    BY <1>1, <1>2, <1>4, <1>5 DEF IInv, OnlyPushed
<1> QED  BY <1>6, <1>7, <1>8, <1>9, <1>10, <1>11 DEF IInv

(* The faults of one worker only ever take things away.                            *)
LEMMA FailureIInv ==
    ASSUME IInv, NEW w \in Workers, Failure(w)
    PROVE  IInv'
<1>1. table' \subseteq table /\ faults' \in Nat /\ UNCHANGED <<nextId, pushed, runs, outcome>>
    BY DEF Failure, QueryFails, ClaimReplyLost, RequeueFails, Panic, Delete, Fault,
           IInv, TypeOK
<1>2. \E pc \in {"poll", "sleep", "down", "panicked"} : Goto(w, pc, NoRow)
    BY DEF Failure, QueryFails, ClaimReplyLost, RequeueFails, Panic
<1>3. takenBy' \in [Jobs -> FaultKind \union {"none"}]
    BY DEF Failure, QueryFails, ClaimReplyLost, RequeueFails, Panic, TakeFrom, FaultKind,
           IInv, TypeOK
<1> QED  BY <1>1, <1>2, <1>3, LetGo

(* And so does the stop of a process, with all of its loops.                       *)
LEMMA CrashIInv ==
    ASSUME IInv, NEW S \in SUBSET Workers, Crash(S)
    PROVE  IInv'
<1>1. table' \subseteq table /\ faults' \in Nat /\ UNCHANGED <<nextId, pushed, runs, outcome>>
    BY DEF Crash, Fault, IInv, TypeOK
<1>2. takenBy' \in [Jobs -> FaultKind \union {"none"}]
    BY DEF Crash, TakeFrom, FaultKind, IInv, TypeOK
<1> QED  BY <1>1, <1>2, AllLetGo DEF Crash

(* Every step keeps the invariant.                                                 *)
LEMMA NextIInv == IInv /\ [Next]_vars => IInv'
<1> SUFFICES ASSUME IInv, [Next]_vars PROVE IInv'
    OBVIOUS
<1>1. ASSUME NEW j \in Jobs, Push(j) PROVE IInv'
    BY <1>1, PushIInv
<1>2. ASSUME NEW w \in Workers, Select(w) PROVE IInv'
    BY <1>2, SelectIInv
<1>3. ASSUME NEW w \in Workers, Claim(w) PROVE IInv'
    BY <1>3, ClaimIInv
<1>4. ASSUME NEW w \in Workers, HandlerOk(w) PROVE IInv'
    BY <1>4, EndIInv DEF HandlerOk
<1>5. ASSUME NEW w \in Workers, HandlerErr(w) PROVE IInv'
    BY <1>5, HandlerErrIInv
<1>6. ASSUME NEW w \in Workers, Requeue(w) PROVE IInv'
    BY <1>6, RequeueIInv
<1>7. ASSUME NEW w \in Workers, Wake(w) \/ Restart(w) PROVE IInv'
    <2>1. /\ Goto(w, "poll", NoRow) /\ table' \subseteq table /\ faults' \in Nat
          /\ takenBy' \in [Jobs -> FaultKind \union {"none"}]
          /\ UNCHANGED <<nextId, pushed, runs, outcome>>
        BY <1>7 DEF Wake, Restart, IInv, TypeOK
    <2> QED  BY <2>1, LetGo
<1>8. ASSUME NEW w \in Workers, Failure(w) PROVE IInv'
    BY <1>8, FailureIInv
<1>9. ASSUME NEW S \in SUBSET Workers, Crash(S) PROVE IInv'
    BY <1>9, CrashIInv
<1>10. CASE UNCHANGED vars
    BY <1>10 DEF vars, IInv, TypeOK, IdsNameRows, SingleCustody, CountsAreRuns,
                AttemptsBounded, OnlyPushed, Stored, Settled, Holds
<1> QED  BY <1>1, <1>2, <1>3, <1>4, <1>5, <1>6, <1>7, <1>8, <1>9, <1>10 DEF Next, Work

(* The parts of the invariant hold together in every reachable state.              *)
THEOREM SpecIInv == Spec => []IInv
BY InitIInv, NextIInv, PTL DEF Spec

(* Every variable keeps its type, whatever the workers and the faults do.          *)
THEOREM SpecTypeOK == Spec => []TypeOK
<1>1. IInv => TypeOK
    BY DEF IInv
<1> QED  BY <1>1, SpecIInv, PTL

(* No job is ever in two places: claim by delete gives each row to one worker, and *)
(* a retry never leaves a second copy behind.                                      *)
THEOREM SpecSingleCustody == Spec => []SingleCustody
<1>1. IInv => SingleCustody
    BY DEF IInv
<1> QED  BY <1>1, SpecIInv, PTL

(* No job is executed more often than max_attempts allows.                         *)
THEOREM SpecAttemptsBounded == Spec => []AttemptsBounded
<1>1. IInv => AttemptsBounded
    BY DEF IInv
<1> QED  BY <1>1, SpecIInv, PTL

(* A row only ever leaves the table while no older one is in it.                   *)
THEOREM SpecClaimsOldest == Spec => ClaimsOldest
<1> DEFINE TakesOldest == \A r \in table : r \notin table' => \A s \in table : r.id <= s.id
<1>1. ASSUME IInv, Next PROVE TakesOldest
    <2>1. ASSUME NEW w \in Workers, worker[w].pc = "claim", Delete(worker[w].row.id)
          PROVE  TakesOldest
        BY <1>1, <2>1 DEF IInv, IdsNameRows, Delete
    <2>2. ASSUME table \subseteq table' PROVE TakesOldest
        BY <2>2
    <2>3. ASSUME NEW w \in Workers, Work(w) \/ Failure(w) PROVE TakesOldest
        <3>1. \/ worker[w].pc = "claim" /\ Delete(worker[w].row.id)
              \/ table \subseteq table'
            BY <2>3 DEF Work, Select, Claim, HandlerOk, HandlerErr, Requeue, Insert, Wake,
                        Restart, Failure, QueryFails, ClaimReplyLost, RequeueFails, Panic
        <3> QED  BY <2>1, <2>2, <3>1
    <2>4. ASSUME NEW j \in Jobs, Push(j) PROVE TakesOldest
        BY <2>2, <2>4 DEF Push, Insert
    <2>5. ASSUME NEW S \in SUBSET Workers, Crash(S) PROVE TakesOldest
        BY <2>2, <2>5 DEF Crash
    <2> QED  BY <1>1, <2>3, <2>4, <2>5 DEF Next
<1>2. IInv /\ [Next]_vars => [TakesOldest]_vars
    BY <1>1
<1> QED  BY <1>2, SpecIInv, PTL DEF Spec, ClaimsOldest

-----------------------------------------------------------------------------------
(* The refinement: each step moves one job between the places of JobCustody.        *)

(* Where a job is, once SingleCustody and OnlyPushed hold.                          *)
LEMMA CustodyIs ==
    ASSUME IInv, NEW j \in Jobs
    PROVE  /\ Custody(j) = "absent" <=> j \notin pushed
           /\ Custody(j) = "settled" <=> Settled(j)
           /\ Custody(j) = "queued" <=> Stored(j)
           /\ Custody(j) = "running" <=> InHands(j)
           /\ Custody(j) = "lost" <=> Lost(j)
BY DEF IInv, SingleCustody, OnlyPushed, Custody, Lost, InHands

(* A job for which nothing changed stays where it is.                               *)
LEMMA SameCustody ==
    ASSUME NEW j \in Jobs, (j \in pushed)' <=> j \in pushed, Stored(j)' <=> Stored(j),
           Settled(j)' <=> Settled(j), InHands(j)' <=> InHands(j)
    PROVE  Custody(j)' = Custody(j)
BY DEF Custody, Lost, InHands

(* One job moves and the others stay.                                               *)
LEMMA MoveOne ==
    ASSUME NEW j \in Jobs, NEW to,
           \A k \in Jobs \ {j} : Custody(k)' = Custody(k),
           Custody(j)' = to
    PROVE  [k \in Jobs |-> Custody(k)]' = [[k \in Jobs |-> Custody(k)] EXCEPT ![j] = to]
OBVIOUS

(* Jobs under way that are lost in one step, while the others stay.                 *)
LEMMA LoseJobs ==
    ASSUME NEW T \in SUBSET Jobs,
           \A k \in T : Custody(k) \in {"queued", "running"} /\ Custody(k)' = "lost",
           \A k \in Jobs \ T : Custody(k)' = Custody(k),
           UNCHANGED runs
    PROVE  Abstract!Next
<1>1. [k \in Jobs |-> Custody(k)]' =
          [k \in Jobs |-> IF k \in T THEN "lost" ELSE [i \in Jobs |-> Custody(i)][k]]
    OBVIOUS
<1>2. \A k \in T : [i \in Jobs |-> Custody(i)][k] \in {"queued", "running"}
    OBVIOUS
<1>3. Abstract!Lose(T)
    BY <1>1, <1>2 DEF Abstract!Lose
<1> QED  BY <1>3 DEF Abstract!Next

(* Only the worker that moves can pick a job up or put it down.                     *)
LEMMA HandsAfter ==
    ASSUME IInv, NEW w \in Workers, NEW pc, NEW row, Goto(w, pc, row), NEW k \in Jobs
    PROVE  InHands(k)' <=> \/ pc \in {"run", "requeue"} /\ row.job = k
                           \/ InHands(k) /\ ~Holds(w, k)
<1>1. \A v \in Workers : worker'[v] = IF v = w THEN [pc |-> pc, row |-> row] ELSE worker[v]
    BY DEF Goto, IInv, TypeOK
<1>2. \A v \in Workers : Holds(v, k)' <=> IF v = w THEN pc \in {"run", "requeue"} /\ row.job = k
                                                  ELSE Holds(v, k)
    BY <1>1 DEF Holds
<1>3. \A v \in Workers : Holds(v, k) /\ Holds(w, k) => v = w
    BY DEF IInv, SingleCustody
<1> QED  BY <1>2, <1>3 DEF InHands

(* A step in which a worker without a job gets none: the abstract queue stutters.    *)
LEMMA IdleStep ==
    ASSUME IInv, NEW w \in Workers, NEW pc \in Phase \ {"run", "requeue"}, NEW row,
           worker[w].pc \notin {"run", "requeue"}, Goto(w, pc, row),
           UNCHANGED <<table, pushed, runs, outcome>>
    PROVE  UNCHANGED Abstract!vars
<1>1. ASSUME NEW k \in Jobs PROVE Custody(k)' = Custody(k)
    <2>1. InHands(k)' <=> InHands(k)
        BY HandsAfter DEF Holds
    <2>2. Stored(k)' <=> Stored(k)
        BY DEF Stored
    <2>3. Settled(k)' <=> Settled(k)
        BY DEF Settled
    <2> QED  BY <2>1, <2>2, <2>3, SameCustody
<1> QED  BY <1>1 DEF Abstract!vars

(* A worker that puts its job down: the job ends, is stored again, or is lost.       *)
LEMMA PutDown ==
    ASSUME IInv, NEW w \in Workers, worker[w].pc \in {"run", "requeue"},
           NEW j, worker[w].row.job = j,
           NEW pc \in Phase \ {"run", "requeue"}, Goto(w, pc, NoRow),
           UNCHANGED pushed,
           \A k \in Jobs \ {j} : (Stored(k)' <=> Stored(k)) /\ (Settled(k)' <=> Settled(k))
    PROVE  /\ j \in Jobs
           /\ Custody(j) = "running"
           /\ Custody(j)' = IF Settled(j)' THEN "settled"
                            ELSE IF Stored(j)' THEN "queued" ELSE "lost"
           /\ \A k \in Jobs \ {j} : Custody(k)' = Custody(k)
<1>1. j \in Jobs /\ Holds(w, j) /\ InHands(j)
    BY DEF IInv, TypeOK, Row, Holds, InHands
<1>2. Custody(j) = "running" /\ j \in pushed
    BY <1>1, CustodyIs DEF IInv, OnlyPushed
<1>3. ~InHands(j)'
    BY <1>1, HandsAfter
<1>4. Custody(j)' = IF Settled(j)' THEN "settled" ELSE IF Stored(j)' THEN "queued" ELSE "lost"
    BY <1>2, <1>3 DEF Custody
<1>5. ASSUME NEW k \in Jobs \ {j} PROVE Custody(k)' = Custody(k)
    <2>1. InHands(k)' <=> InHands(k)
        BY <1>5, HandsAfter DEF Holds
    <2> QED  BY <2>1, SameCustody
<1> QED  BY <1>1, <1>2, <1>4, <1>5

(* The job of a worker that panics or fails to store the retry is lost.               *)
LEMMA LoseFromHands ==
    ASSUME IInv, NEW w \in Workers, worker[w].pc \in {"run", "requeue"},
           NEW pc \in Phase \ {"run", "requeue"}, Goto(w, pc, NoRow),
           UNCHANGED <<table, pushed, runs, outcome>>
    PROVE  Abstract!Next
<1>1. PICK j : j = worker[w].row.job
    OBVIOUS
<1>2. \A k : (Stored(k)' <=> Stored(k)) /\ (Settled(k)' <=> Settled(k))
    BY DEF Stored, Settled
<1>3. /\ j \in Jobs
      /\ Custody(j) = "running"
      /\ Custody(j)' = IF Settled(j)' THEN "settled" ELSE IF Stored(j)' THEN "queued" ELSE "lost"
      /\ \A k \in Jobs \ {j} : Custody(k)' = Custody(k)
    BY <1>1, <1>2, PutDown
<1>4. ~Stored(j) /\ ~Settled(j)
    BY <1>3, CustodyIs DEF IInv, SingleCustody, InHands
<1>5. Custody(j)' = "lost"
    BY <1>2, <1>3, <1>4
<1>6. /\ {j} \in SUBSET Jobs
      /\ \A k \in {j} : Custody(k) \in {"queued", "running"} /\ Custody(k)' = "lost"
      /\ \A k \in Jobs \ {j} : Custody(k)' = Custody(k)
    BY <1>3, <1>5
<1> QED  BY <1>6, LoseJobs

(* A DELETE that finds the row takes the row's job, and no other, out of the table.  *)
LEMMA DeleteTakes ==
    ASSUME IInv, NEW w \in Workers, worker[w].pc = "claim", Delete(worker[w].row.id),
           \E r \in table : r.id = worker[w].row.id, NEW j, worker[w].row.job = j
    PROVE  /\ j \in Jobs
           /\ Custody(j) = "queued"
           /\ ~Stored(j)'
           /\ \A k \in Jobs \ {j} : Stored(k)' <=> Stored(k)
<1>1. worker[w].row \in table
    BY DEF IInv, IdsNameRows
<1>2. j \in Jobs /\ Stored(j)
    BY <1>1 DEF IInv, TypeOK, Row, Stored
<1>3. \A r \in table : r \in table' <=> r.job # j
    BY <1>1, <1>2 DEF Delete, IInv, SingleCustody, IdsNameRows, TypeOK, Row
<1>4. table' \subseteq table
    BY DEF Delete
<1> QED  BY <1>2, <1>3, <1>4, CustodyIs DEF Stored

(* A claim is the start or the discarding of the oldest job, or nothing.             *)
LEMMA ClaimStep ==
    ASSUME IInv, NEW w \in Workers, Claim(w)
    PROVE  Abstract!Next \/ UNCHANGED Abstract!vars
<1>1. PICK row : row = worker[w].row
    OBVIOUS
<1>2. PICK j : j = row.job
    OBVIOUS
<1>3. worker[w].pc = "claim" /\ Delete(row.id) /\ pushed' = pushed
    BY <1>1 DEF Claim
<1>4. CASE ~ \E r \in table : r.id = row.id
    <2>1. Goto(w, "sleep", NoRow) /\ UNCHANGED <<table, pushed, runs, outcome>>
        BY <1>1, <1>3, <1>4 DEF Claim, Delete
    <2> QED  BY <1>3, <2>1, IdleStep DEF Phase
<1>5. CASE \E r \in table : r.id = row.id
    <2>1. /\ j \in Jobs /\ Custody(j) = "queued" /\ ~Stored(j)'
          /\ \A k \in Jobs \ {j} : Stored(k)' <=> Stored(k)
        BY <1>1, <1>2, <1>3, <1>5, DeleteTakes
    <2>2. Dispatch(w, row)
        BY <1>1, <1>5 DEF Claim
    <2>3. ~Settled(j) /\ j \in pushed
        BY <2>1, CustodyIs DEF IInv, SingleCustody, OnlyPushed
    <2>4. CASE row.job \in Handled
        <3>1. /\ Goto(w, "run", row)
              /\ runs' = [runs EXCEPT ![j] = @ + 1]
              /\ UNCHANGED outcome
            BY <1>2, <2>2, <2>4 DEF Dispatch
        <3>2. \A k \in Jobs : /\ Settled(k)' <=> Settled(k)
                              /\ InHands(k)' <=> InHands(k) \/ k = j
            BY <1>2, <1>3, <3>1, HandsAfter DEF Settled, Holds
        <3>3. \A k \in Jobs \ {j} : Custody(k)' = Custody(k)
            BY <1>3, <2>1, <3>2, SameCustody
        <3>4. Custody(j)' = "running"
            BY <2>1, <2>3, <3>2 DEF Custody
        <3>5. Abstract!Start(j)
            BY <2>1, <3>1, <3>3, <3>4, MoveOne DEF Abstract!Start, Abstract!Move
        <3> QED  BY <2>1, <3>5 DEF Abstract!Next
    <2>5. CASE row.job \notin Handled
        <3>1. /\ Goto(w, "poll", NoRow)
              /\ outcome' = [outcome EXCEPT ![j] = "dropped"]
              /\ UNCHANGED runs
            BY <1>2, <2>2, <2>5 DEF Dispatch, End
        <3>2. \A k \in Jobs : /\ Settled(k)' <=> Settled(k) \/ k = j
                              /\ InHands(k)' <=> InHands(k)
            BY <1>3, <2>1, <3>1, HandsAfter DEF Settled, Holds, IInv, TypeOK
        <3>3. \A k \in Jobs \ {j} : Custody(k)' = Custody(k)
            BY <1>3, <2>1, <3>2, SameCustody
        <3>4. Custody(j)' = "settled"
            BY <2>1, <3>2 DEF Custody
        <3>5. Abstract!Discard(j)
            BY <2>1, <3>1, <3>3, <3>4, MoveOne DEF Abstract!Discard, Abstract!Move
        <3> QED  BY <2>1, <3>5 DEF Abstract!Next
    <2> QED  BY <2>4, <2>5
<1> QED  BY <1>4, <1>5

(* The end of an execution settles its job.                                         *)
LEMMA EndStep ==
    ASSUME IInv, NEW w \in Workers, worker[w].pc = "run",
           NEW how \in {"done", "dead"},
           Goto(w, "poll", NoRow), End(worker[w].row.job, how),
           UNCHANGED <<table, pushed, runs>>
    PROVE  Abstract!Next
<1>1. PICK j : j = worker[w].row.job
    OBVIOUS
<1>2. j \in Jobs
    BY <1>1 DEF IInv, TypeOK, Row
<1>3. \A k \in Jobs : (Stored(k)' <=> Stored(k)) /\ (Settled(k)' <=> Settled(k) \/ k = j)
    BY <1>1, <1>2 DEF Stored, Settled, End, IInv, TypeOK
<1>4. /\ Custody(j) = "running"
      /\ Custody(j)' = "settled"
      /\ \A k \in Jobs \ {j} : Custody(k)' = Custody(k)
    BY <1>1, <1>2, <1>3, PutDown DEF Phase
<1>5. Abstract!Settle(j)
    BY <1>2, <1>4, MoveOne DEF Abstract!Settle, Abstract!Move
<1> QED  BY <1>2, <1>5 DEF Abstract!Next

(* A failed execution settles its job, or leaves it in hand for its retry.          *)
LEMMA HandlerErrStep ==
    ASSUME IInv, NEW w \in Workers, HandlerErr(w)
    PROVE  Abstract!Next \/ UNCHANGED Abstract!vars
<1>1. PICK row : row = worker[w].row
    OBVIOUS
<1>2. worker[w].pc = "run" /\ UNCHANGED <<table, pushed, runs>>
    BY DEF HandlerErr
<1>3. CASE row.attempts + 1 < MaxAttempts
    <2>1. Goto(w, "requeue", row) /\ UNCHANGED outcome
        BY <1>1, <1>3 DEF HandlerErr
    <2>2. \A k \in Jobs : /\ Stored(k)' <=> Stored(k)
                          /\ Settled(k)' <=> Settled(k)
                          /\ InHands(k)' <=> InHands(k)
        BY <1>1, <1>2, <2>1, HandsAfter DEF Stored, Settled, Holds, InHands
    <2>3. \A k \in Jobs : Custody(k)' = Custody(k)
        BY <1>2, <2>2, SameCustody
    <2> QED  BY <1>2, <2>3 DEF Abstract!vars
<1>4. CASE ~(row.attempts + 1 < MaxAttempts)
    <2>1. Goto(w, "poll", NoRow) /\ End(worker[w].row.job, "dead")
        BY <1>1, <1>4 DEF HandlerErr
    <2> QED  BY <1>2, <2>1, EndStep
<1> QED  BY <1>3, <1>4

(* A retry stores the job again, and has an attempt left to do so.                  *)
LEMMA RequeueStep ==
    ASSUME IInv, NEW w \in Workers, Requeue(w)
    PROVE  Abstract!Next
<1>1. PICK j : j = worker[w].row.job
    OBVIOUS
<1>2. /\ worker[w].pc = "requeue" /\ Goto(w, "poll", NoRow)
      /\ UNCHANGED <<pushed, runs, outcome>>
    BY DEF Requeue
<1>3. j \in Jobs /\ runs[j] < MaxAttempts
    BY <1>1, <1>2 DEF IInv, TypeOK, Row, CountsAreRuns
<1>4. \A k \in Jobs : (Stored(k)' <=> Stored(k) \/ k = j) /\ (Settled(k)' <=> Settled(k))
    <2>1. PICK new : new = [id |-> nextId, job |-> j,
                            attempts |-> worker[w].row.attempts + 1]
        OBVIOUS
    <2>2. table' = table \union {new} /\ new.job = j
        BY <1>1, <2>1 DEF Requeue, Insert
    <2> QED  BY <1>2, <2>2 DEF Stored, Settled
<1>5. /\ Custody(j) = "running"
      /\ Custody(j)' = IF Settled(j)' THEN "settled" ELSE "queued"
      /\ \A k \in Jobs \ {j} : Custody(k)' = Custody(k)
    BY <1>1, <1>2, <1>3, <1>4, PutDown DEF Phase
<1>6. ~Settled(j)
    BY <1>3, <1>5, CustodyIs DEF IInv, SingleCustody, InHands
<1>7. Custody(j)' = "queued"
    BY <1>3, <1>4, <1>5, <1>6
<1>8. Abstract!Retry(j)
    BY <1>2, <1>3, <1>5, <1>7, MoveOne DEF Abstract!Retry, Abstract!Move
<1> QED  BY <1>3, <1>8 DEF Abstract!Next

(* A push stores a job the queue did not have.                                      *)
LEMMA PushStep ==
    ASSUME IInv, NEW j \in Jobs, Push(j)
    PROVE  Abstract!Next
<1>1. /\ j \notin pushed /\ pushed' = pushed \union {j}
      /\ table' = table \union {[id |-> nextId, job |-> j, attempts |-> 0]}
      /\ UNCHANGED <<worker, runs, outcome>>
    BY DEF Push, Insert
<1>2. \A k \in Jobs : /\ Stored(k)' <=> Stored(k) \/ k = j
                      /\ Settled(k)' <=> Settled(k)
                      /\ InHands(k)' <=> InHands(k)
    <2>1. PICK new : new = [id |-> nextId, job |-> j, attempts |-> 0]
        OBVIOUS
    <2>2. table' = table \union {new} /\ new.job = j
        BY <1>1, <2>1
    <2>3. \A k \in Jobs : Stored(k)' <=> Stored(k) \/ k = j
        BY <2>2 DEF Stored
    <2> QED  BY <1>1, <2>3 DEF Settled, InHands, Holds
<1>3. \A k \in Jobs \ {j} : Custody(k)' = Custody(k)
    BY <1>1, <1>2, SameCustody
<1>4. Custody(j) = "absent" /\ ~Settled(j)
    BY <1>1, CustodyIs DEF IInv, OnlyPushed
<1>5. Custody(j)' = "queued"
    BY <1>2, <1>4 DEF Custody
<1>6. Abstract!Store(j)
    BY <1>1, <1>3, <1>4, <1>5, MoveOne DEF Abstract!Store, Abstract!Move
<1> QED  BY <1>6 DEF Abstract!Next

(* A fault loses the job it hits in the worker's hands, or the row it deleted.       *)
LEMMA FailureStep ==
    ASSUME IInv, NEW w \in Workers, Failure(w)
    PROVE  Abstract!Next \/ UNCHANGED Abstract!vars
<1>1. CASE QueryFails(w) \/ RequeueFails(w) \/ Panic(w)
    <2>1. PICK pc \in Phase \ {"run", "requeue"} : Goto(w, pc, NoRow)
        BY <1>1 DEF QueryFails, RequeueFails, Panic, Phase
    <2>2. UNCHANGED <<table, pushed, runs, outcome>>
        BY <1>1 DEF QueryFails, RequeueFails, Panic
    <2> QED  BY <2>1, <2>2, IdleStep, LoseFromHands
<1>2. CASE ClaimReplyLost(w)
    <2>1. /\ worker[w].pc = "claim" /\ Delete(worker[w].row.id) /\ Goto(w, "sleep", NoRow)
          /\ UNCHANGED <<pushed, runs, outcome>>
        BY <1>2 DEF ClaimReplyLost
    <2>2. CASE \E r \in table : r.id = worker[w].row.id
        <3>1. PICK j : j = worker[w].row.job
            OBVIOUS
        <3>2. /\ j \in Jobs /\ Custody(j) = "queued" /\ ~Stored(j)'
              /\ \A k \in Jobs \ {j} : Stored(k)' <=> Stored(k)
            BY <2>1, <2>2, <3>1, DeleteTakes
        <3>3. \A k \in Jobs : /\ Settled(k)' <=> Settled(k)
                              /\ InHands(k)' <=> InHands(k)
            BY <2>1, HandsAfter DEF Settled, Holds
        <3>4. \A k \in Jobs \ {j} : Custody(k)' = Custody(k)
            BY <2>1, <3>2, <3>3, SameCustody
        <3>5. ~Settled(j) /\ ~InHands(j) /\ j \in pushed
            BY <3>2, CustodyIs DEF IInv, SingleCustody, OnlyPushed, InHands
        <3>6. Custody(j)' = "lost"
            BY <2>1, <3>2, <3>3, <3>5 DEF Custody
        <3>7. /\ {j} \in SUBSET Jobs
              /\ \A k \in {j} : Custody(k) \in {"queued", "running"} /\ Custody(k)' = "lost"
            BY <3>2, <3>6
        <3> QED  BY <2>1, <3>4, <3>7, LoseJobs
    <2>3. CASE ~ \E r \in table : r.id = worker[w].row.id
        <3>1. UNCHANGED <<table, pushed, runs, outcome>>
            BY <2>1, <2>3 DEF Delete
        <3> QED  BY <2>1, <3>1, IdleStep DEF Phase
    <2> QED  BY <2>2, <2>3
<1> QED  BY <1>1, <1>2 DEF Failure

(* After a stop nobody holds the jobs of its loops, and the others keep theirs.      *)
LEMMA HandsAfterCrash ==
    ASSUME IInv, NEW S \in SUBSET Workers, Crash(S), NEW k \in Jobs
    PROVE  /\ InHands(k)' <=> InHands(k) /\ ~ \E w \in S : Holds(w, k)
           /\ Stored(k)' <=> Stored(k)
           /\ Settled(k)' <=> Settled(k)
           /\ pushed' = pushed
<1>1. \A v \in Workers : Holds(v, k)' <=> v \notin S /\ Holds(v, k)
    BY DEF Crash, Holds
<1>2. \A v, w \in Workers : Holds(v, k) /\ Holds(w, k) => v = w
    BY DEF IInv, SingleCustody
<1> QED  BY <1>1, <1>2 DEF InHands, Crash, Stored, Settled

(* The stop of a process loses, in one step, what its loops had in hand.             *)
LEMMA CrashStep ==
    ASSUME IInv, NEW S \in SUBSET Workers, Crash(S)
    PROVE  Abstract!Next
<1> DEFINE T == {k \in Jobs : \E w \in S : Holds(w, k)}
<1>1. ASSUME NEW k \in T PROVE Custody(k) = "running" /\ Custody(k)' = "lost"
    <2>1. k \in Jobs /\ InHands(k) /\ k \in pushed
        BY DEF InHands, IInv, OnlyPushed
    <2>2. ~Settled(k) /\ ~Stored(k)
        BY <2>1 DEF IInv, SingleCustody, InHands
    <2>3. ~InHands(k)' /\ ~Settled(k)' /\ ~Stored(k)' /\ pushed' = pushed
        BY <2>1, <2>2, HandsAfterCrash
    <2> QED  BY <2>1, <2>2, <2>3 DEF Custody
<1>2. ASSUME NEW k \in Jobs \ T PROVE Custody(k)' = Custody(k)
    BY HandsAfterCrash, SameCustody
<1>3. T \in SUBSET Jobs /\ UNCHANGED runs
    BY DEF Crash
<1> HIDE DEF T
<1> QED  BY <1>1, <1>2, <1>3, LoseJobs

(* Every step of the queue is a step of the abstract one, or none of it.            *)
LEMMA NextStep == IInv /\ [Next]_vars => [Abstract!Next]_(Abstract!vars)
<1> SUFFICES ASSUME IInv, [Next]_vars
             PROVE  Abstract!Next \/ UNCHANGED Abstract!vars
    OBVIOUS
<1>1. ASSUME NEW j \in Jobs, Push(j) PROVE Abstract!Next
    BY <1>1, PushStep
<1>2. ASSUME NEW w \in Workers, Select(w) PROVE UNCHANGED Abstract!vars
    <2>1. PICK pc \in Phase \ {"run", "requeue"} : \E row : Goto(w, pc, row)
        BY <1>2 DEF Select, Phase
    <2> QED  BY <1>2, <2>1, IdleStep DEF Select
<1>3. ASSUME NEW w \in Workers, Claim(w)
      PROVE  Abstract!Next \/ UNCHANGED Abstract!vars
    BY <1>3, ClaimStep
<1>4. ASSUME NEW w \in Workers, HandlerOk(w) PROVE Abstract!Next
    BY <1>4, EndStep DEF HandlerOk
<1>5. ASSUME NEW w \in Workers, HandlerErr(w)
      PROVE  Abstract!Next \/ UNCHANGED Abstract!vars
    BY <1>5, HandlerErrStep
<1>6. ASSUME NEW w \in Workers, Requeue(w) PROVE Abstract!Next
    BY <1>6, RequeueStep
<1>7. ASSUME NEW w \in Workers, Wake(w) \/ Restart(w) PROVE UNCHANGED Abstract!vars
    <2>1. /\ worker[w].pc \in {"sleep", "down"} /\ Goto(w, "poll", NoRow)
          /\ UNCHANGED <<table, pushed, runs, outcome>>
        BY <1>7 DEF Wake, Restart
    <2> QED  BY <2>1, IdleStep DEF Phase
<1>8. ASSUME NEW w \in Workers, Failure(w)
      PROVE  Abstract!Next \/ UNCHANGED Abstract!vars
    BY <1>8, FailureStep
<1>9. ASSUME NEW S \in SUBSET Workers, Crash(S) PROVE Abstract!Next
    BY <1>9, CrashStep
<1>10. CASE UNCHANGED vars
    BY <1>10 DEF vars, Abstract!vars, Custody, Settled, Stored, InHands, Holds
<1> QED  BY <1>1, <1>2, <1>3, <1>4, <1>5, <1>6, <1>7, <1>8, <1>9, <1>10 DEF Next, Work

(* The queue implements the abstract custody of its jobs: claim by delete, retries   *)
(* by re-insertion and every fault are steps of jobs between its places.             *)
THEOREM SpecImplementsCustody == Spec => ImplementsCustody
<1>1. Init => Abstract!Init
    <2> SUFFICES ASSUME Init PROVE Abstract!Init
        OBVIOUS
    <2>1. \A j \in Jobs : Custody(j) = "absent"
        BY DEF Init, Custody, Settled, Stored, InHands, Holds
    <2> QED  BY <2>1 DEF Init, Abstract!Init
<1>2. IInv /\ [Next]_vars => [Abstract!Next]_(Abstract!vars)
    BY NextStep
<1> QED  BY <1>1, <1>2, SpecIInv, PTL DEF Spec, ImplementsCustody, Abstract!Spec

-----------------------------------------------------------------------------------
(* What is lost: exactly what the faults took, and for ever.                        *)

(* A push and a worker lose nothing by themselves: a job leaves the table into the  *)
(* hands of the worker, and these with an outcome or back into the table.           *)
LEMMA NothingIsLost ==
    ASSUME IInv, NEW k \in Jobs,
           (\E j \in Jobs : Push(j)) \/ (\E w \in Workers : Work(w)), Lost(k)'
    PROVE  Lost(k)
<1>1. ASSUME NEW j \in Jobs, Push(j) PROVE Lost(k)
    <2>1. PICK new : new = [id |-> nextId, job |-> j, attempts |-> 0]
        OBVIOUS
    <2>2. table' = table \union {new} /\ new.job = j /\ pushed' = pushed \union {j}
        BY <1>1, <2>1 DEF Push, Insert
    <2>3. k # j
        BY <2>2 DEF Lost, Stored
    <2> QED  BY <1>1, <2>2, <2>3 DEF Push, Lost, Stored, Settled, InHands, Holds
<1>2. ASSUME NEW w \in Workers, Work(w) PROVE Lost(k)
    <2>0. pushed' = pushed
        BY <1>2 DEF Work, Select, Claim, HandlerOk, HandlerErr, Requeue, Wake, Restart
    <2>1. CASE Select(w)
        <3>1. PICK pc \in {"claim", "sleep"} : \E row : Goto(w, pc, row)
            BY <2>1 DEF Select
        <3>2. InHands(k) => InHands(k)'
            BY <2>1, <3>1, HandsAfter DEF Select, Holds
        <3> QED  BY <2>1, <3>2 DEF Select, Lost, Stored, Settled
    <2>2. CASE Claim(w)
        <3>1. PICK row : row = worker[w].row
            OBVIOUS
        <3>2. PICK j : j = row.job
            OBVIOUS
        <3>3. worker[w].pc = "claim" /\ Delete(row.id) /\ ~Holds(w, k)
            BY <2>2, <3>1 DEF Claim, Holds
        <3>4. CASE ~ \E r \in table : r.id = row.id
            <4>1. Goto(w, "sleep", NoRow) /\ UNCHANGED <<table, outcome>>
                BY <2>2, <3>1, <3>3, <3>4 DEF Claim, Delete
            <4>2. InHands(k) => InHands(k)'
                BY <3>3, <4>1, HandsAfter
            <4> QED  BY <2>0, <4>1, <4>2 DEF Lost, Stored, Settled
        <3>5. CASE \E r \in table : r.id = row.id
            <4>1. /\ j \in Jobs
                  /\ \A i \in Jobs \ {j} : Stored(i)' <=> Stored(i)
                BY <3>1, <3>2, <3>3, <3>5, DeleteTakes
            <4>2. Dispatch(w, row)
                BY <2>2, <3>1, <3>5 DEF Claim
            <4>3. CASE row.job \in Handled
                <5>1. Goto(w, "run", row) /\ UNCHANGED outcome
                    BY <4>2, <4>3 DEF Dispatch
                <5>2. InHands(k)' <=> InHands(k) \/ k = j
                    BY <3>2, <3>3, <5>1, HandsAfter
                <5>3. k # j
                    BY <5>2 DEF Lost
                <5> QED  BY <2>0, <4>1, <5>1, <5>2, <5>3 DEF Lost, Settled
            <4>4. CASE row.job \notin Handled
                <5>1. /\ Goto(w, "poll", NoRow)
                      /\ outcome' = [outcome EXCEPT ![j] = "dropped"]
                    BY <3>2, <4>2, <4>4 DEF Dispatch, End
                <5>2. InHands(k) => InHands(k)'
                    BY <3>3, <5>1, HandsAfter
                <5>3. k # j /\ (Settled(k) => Settled(k)')
                    BY <4>1, <5>1 DEF Lost, Settled, IInv, TypeOK
                <5> QED  BY <2>0, <4>1, <5>2, <5>3 DEF Lost
            <4> QED  BY <4>3, <4>4
        <3> QED  BY <3>4, <3>5
    <2>3. CASE HandlerOk(w) \/ (HandlerErr(w) /\ ~(worker[w].row.attempts + 1 < MaxAttempts))
        <3>1. PICK j : j = worker[w].row.job
            OBVIOUS
        <3>2. /\ worker[w].pc = "run" /\ Goto(w, "poll", NoRow) /\ UNCHANGED table
              /\ \E how \in {"done", "dead"} : outcome' = [outcome EXCEPT ![j] = how]
            BY <2>3, <3>1 DEF HandlerOk, HandlerErr, End
        <3>3. k # j /\ (Settled(k) => Settled(k)')
            BY <3>2 DEF Lost, Settled, IInv, TypeOK
        <3>4. InHands(k) => InHands(k)'
            BY <3>1, <3>2, <3>3, HandsAfter DEF Holds
        <3> QED  BY <2>0, <3>2, <3>3, <3>4 DEF Lost, Stored
    <2>4. CASE HandlerErr(w) /\ worker[w].row.attempts + 1 < MaxAttempts
        <3>1. PICK row : row = worker[w].row
            OBVIOUS
        <3>2. worker[w].pc = "run" /\ Goto(w, "requeue", row) /\ UNCHANGED <<table, outcome>>
            BY <2>4, <3>1 DEF HandlerErr
        <3>3. InHands(k) => InHands(k)'
            BY <3>1, <3>2, HandsAfter DEF Holds
        <3> QED  BY <2>0, <3>2, <3>3 DEF Lost, Stored, Settled
    <2>5. CASE Requeue(w)
        <3>1. PICK new : new = [id |-> nextId, job |-> worker[w].row.job,
                                attempts |-> worker[w].row.attempts + 1]
            OBVIOUS
        <3>2. /\ table' = table \union {new} /\ new.job = worker[w].row.job
              /\ Goto(w, "poll", NoRow) /\ UNCHANGED outcome
            BY <2>5, <3>1 DEF Requeue, Insert
        <3>3. k # worker[w].row.job
            BY <3>2 DEF Lost, Stored
        <3>4. InHands(k) => InHands(k)'
            BY <3>2, <3>3, HandsAfter DEF Holds
        <3> QED  BY <2>0, <3>2, <3>4 DEF Lost, Stored, Settled
    <2>6. CASE Wake(w) \/ Restart(w)
        <3>1. /\ worker[w].pc \in {"sleep", "down"} /\ Goto(w, "poll", NoRow)
              /\ UNCHANGED <<table, outcome>>
            BY <2>6 DEF Wake, Restart
        <3>2. InHands(k) => InHands(k)'
            BY <3>1, HandsAfter DEF Holds
        <3> QED  BY <2>0, <3>1, <3>2 DEF Lost, Stored, Settled
    <2> QED  BY <1>2, <2>1, <2>2, <2>3, <2>4, <2>5, <2>6 DEF Work
<1> QED  BY <1>1, <1>2

(* No step brings a lost job back: JobCustody has no move out of that place.        *)
LEMMA LostStays ==
    ASSUME IInv, IInv', [Next]_vars, NEW k \in Jobs, Lost(k)
    PROVE  Lost(k)'
<1>1. Custody(k) = "lost"
    BY CustodyIs
<1>2. ASSUME Abstract!Next PROVE Custody(k)' = "lost"
    <2>1. ASSUME NEW j \in Jobs, NEW from, from # "lost", NEW to, Abstract!Move(j, from, to)
          PROVE  Custody(k)' = "lost"
        BY <1>1, <2>1 DEF Abstract!Move
    <2>2. ASSUME NEW T \in SUBSET Jobs, Abstract!Lose(T) PROVE Custody(k)' = "lost"
        BY <1>1, <2>2 DEF Abstract!Lose
    <2>3. ASSUME NEW j \in Jobs, \/ Abstract!Store(j) \/ Abstract!Start(j)
                                 \/ Abstract!Discard(j) \/ Abstract!Settle(j)
                                 \/ Abstract!Retry(j)
          PROVE  Custody(k)' = "lost"
        <3>1. \/ Abstract!Move(j, "absent", "queued") \/ Abstract!Move(j, "queued", "running")
              \/ Abstract!Move(j, "queued", "settled") \/ Abstract!Move(j, "running", "settled")
              \/ Abstract!Move(j, "running", "queued")
            BY <2>3 DEF Abstract!Store, Abstract!Start, Abstract!Discard, Abstract!Settle,
                        Abstract!Retry
        <3> QED  BY <2>1, <3>1
    <2> QED  BY <1>2, <2>2, <2>3 DEF Abstract!Next
<1>3. ASSUME UNCHANGED Abstract!vars PROVE Custody(k)' = "lost"
    <2>1. [j \in Jobs |-> Custody(j)]' = [j \in Jobs |-> Custody(j)]
        BY <1>3 DEF Abstract!vars
    <2>2. [j \in Jobs |-> Custody(j)]'[k] = [j \in Jobs |-> Custody(j)][k]
        BY <2>1
    <2> QED  BY <1>1, <2>2
<1>4. Custody(k)' = "lost"
    BY <1>2, <1>3, NextStep
<1>5. (Custody(k) = "lost")' => Lost(k)'
    BY DEF IInv, SingleCustody, OnlyPushed, Custody, Lost, InHands
<1> QED  BY <1>4, <1>5

(* A fault of one worker loses the job in its hands, or the one whose row it deleted *)
(* for nobody, and the history names just this job.                                  *)
LEMMA FailureTakes ==
    ASSUME IInv, NEW w \in Workers, Failure(w), NEW k \in Jobs, ~Lost(k)
    PROVE  /\ Lost(k)' => takenBy'[k] # "none"
           /\ takenBy'[k] # takenBy[k] => Lost(k)'
<1>0. k \in pushed <=> k \in pushed'
    BY DEF Failure, QueryFails, ClaimReplyLost, RequeueFails, Panic
<1>1. CASE QueryFails(w)
    <2>1. InHands(k) => InHands(k)'
        BY <1>1, HandsAfter DEF QueryFails, Holds
    <2> QED  BY <1>1, <2>1 DEF QueryFails, Lost, Stored, Settled
<1>2. CASE RequeueFails(w) \/ Panic(w)
    <2>1. /\ UNCHANGED <<table, pushed, outcome>>
          /\ \E pc \in {"poll", "panicked"} : Goto(w, pc, NoRow)
          /\ \E how \in {"insert", "panic"} : TakeFrom({w}, how)
        BY <1>2 DEF RequeueFails, Panic
    <2>2. InHands(k)' <=> InHands(k) /\ ~Holds(w, k)
        BY <2>1, HandsAfter
    <2>3. IF Holds(w, k) THEN takenBy'[k] \in {"insert", "panic"} ELSE takenBy'[k] = takenBy[k]
        BY <2>1 DEF TakeFrom
    <2>4. Holds(w, k) => InHands(k) /\ ~Stored(k) /\ ~Settled(k) /\ k \in pushed
        BY DEF InHands, IInv, SingleCustody, OnlyPushed
    <2> QED  BY <2>1, <2>2, <2>3, <2>4 DEF Lost, Stored, Settled
<1>3. CASE ClaimReplyLost(w)
    <2>1. PICK row : row = worker[w].row
        OBVIOUS
    <2>2. /\ worker[w].pc = "claim" /\ Delete(row.id) /\ Goto(w, "sleep", NoRow)
          /\ UNCHANGED <<pushed, outcome>>
          /\ takenBy' = [j \in Jobs |-> IF row \in table /\ row.job = j THEN "answer"
                                        ELSE takenBy[j]]
        BY <1>3, <2>1 DEF ClaimReplyLost
    <2>3. InHands(k)' <=> InHands(k)
        BY <2>2, HandsAfter DEF Holds
    <2>4. CASE row \in table /\ row.job = k
        <3>1. ~Stored(k)' /\ k \in pushed /\ ~Settled(k) /\ ~InHands(k)
            BY <2>1, <2>2, <2>4, DeleteTakes
               DEF IInv, SingleCustody, OnlyPushed, Stored, InHands
        <3> QED  BY <2>2, <2>3, <2>4, <3>1 DEF Lost, Settled
    <2>5. CASE ~(row \in table /\ row.job = k)
        <3>1. Stored(k) => Stored(k)'
            BY <2>1, <2>2, <2>5 DEF Delete, Stored, IInv, IdsNameRows
        <3> QED  BY <2>2, <2>3, <2>5, <3>1 DEF Lost, Settled
    <2> QED  BY <2>4, <2>5
<1> QED  BY <1>1, <1>2, <1>3 DEF Failure

(* The stop of a process loses the jobs in the hands of its loops, and the history   *)
(* names just these.                                                                 *)
LEMMA CrashTakes ==
    ASSUME IInv, NEW S \in SUBSET Workers, Crash(S), NEW k \in Jobs, ~Lost(k)
    PROVE  /\ Lost(k)' => takenBy'[k] # "none"
           /\ takenBy'[k] # takenBy[k] => Lost(k)'
<1>1. takenBy'[k] = IF \E w \in S : Holds(w, k) THEN "stop" ELSE takenBy[k]
    BY DEF Crash, TakeFrom
<1>2. (\E w \in S : Holds(w, k)) => InHands(k) /\ ~Stored(k) /\ ~Settled(k) /\ k \in pushed
    BY DEF InHands, IInv, SingleCustody, OnlyPushed
<1> QED  BY <1>1, <1>2, HandsAfterCrash DEF Lost

(* Every step keeps the lost jobs and those the faults took the same.                *)
LEMMA LossesAreFaults ==
    ASSUME IInv, LostOnlyToFaults, [Next]_vars
    PROVE  LostOnlyToFaults'
<1>1. IInv'
    BY NextIInv
<1> SUFFICES ASSUME NEW k \in Jobs PROVE Lost(k)' <=> takenBy'[k] # "none"
    BY DEF LostOnlyToFaults
<1>2. Lost(k) <=> takenBy[k] # "none"
    BY DEF LostOnlyToFaults
<1>3. CASE Lost(k)
    <2>1. Lost(k)'
        BY <1>1, <1>3, LostStays
    <2>2. takenBy'[k] # "none"
        <3>1. takenBy' = takenBy \/ takenBy'[k] \in FaultKind \/ takenBy'[k] = takenBy[k]
            BY DEF Next, Push, Work, Select, Claim, HandlerOk, HandlerErr, Requeue, Wake, Restart,
                   Failure, QueryFails, ClaimReplyLost, RequeueFails, Panic, Crash, TakeFrom,
                   FaultKind, vars
        <3> QED  BY <1>2, <1>3, <3>1 DEF FaultKind
    <2> QED  BY <2>1, <2>2
<1>4. CASE ~Lost(k)
    <2>1. CASE (\E j \in Jobs : Push(j)) \/ (\E w \in Workers : Work(w))
        <3>1. takenBy' = takenBy
            BY <2>1 DEF Push, Work, Select, Claim, HandlerOk, HandlerErr, Requeue, Wake, Restart
        <3> QED  BY <1>2, <1>4, <2>1, <3>1, NothingIsLost
    <2>2. CASE \E w \in Workers : Failure(w)
        BY <1>2, <1>4, <2>2, FailureTakes
    <2>3. CASE \E S \in SUBSET Workers : Crash(S)
        BY <1>2, <1>4, <2>3, CrashTakes
    <2>4. CASE UNCHANGED vars
        BY <1>2, <1>4, <2>4 DEF vars, Lost, Stored, Settled, InHands, Holds
    <2> QED  BY <2>1, <2>2, <2>3, <2>4 DEF Next
<1> QED  BY <1>3, <1>4

(* The workers lose no job among them, in no interleaving; what is lost is what a    *)
(* fault found in the hands of the loops it hit, all the loops of a process for one   *)
(* stop of it; and it is lost for ever.                                              *)
THEOREM SpecLostOnlyToFaults == Spec => []LostOnlyToFaults
<1>1. Init => LostOnlyToFaults
    BY DEF Init, LostOnlyToFaults, Lost
<1>2. IInv /\ LostOnlyToFaults /\ [Next]_vars => LostOnlyToFaults'
    BY LossesAreFaults
<1> QED  BY <1>1, <1>2, SpecIInv, PTL DEF Spec
=================================================================================
