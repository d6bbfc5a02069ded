----------------------------- MODULE InProcessProofs ------------------------------
(* Proofs about the job queue, the message bus and the event bus of one server process, *)
(* side by side as MCInProcess has them: the job queue, for any jobs, workers, limits   *)
(* and capacity, the message bus, for any messages and handlers, and the event bus.      *)
EXTENDS MCInProcess, TLAPS

(* The job queue: permits are not lost or doubled, and a job is executed as often as    *)
(* its errors and its limit say.                                                        *)

(* The channel holds each sent job once: what the dispatcher receives has not started. *)
ChannelHoldsSent ==
    /\ \A i \in DOMAIN channel : phase[channel[i]] = "sent"
    /\ \A i, k \in DOMAIN channel : channel[i] = channel[k] => i = k

(* Who waits for a permit has not started, who holds one has not ended, and who runs   *)
(* or sleeps before a retry holds one.                                                 *)
PermitsFollowPhases ==
    /\ \A j \in Jobs : Waits(sem, j) => phase[j] = "acquiring"
    /\ \A j \in sem.held : phase[j] \in {"acquiring", "running", "backoff"}
    /\ \A j \in Jobs : phase[j] \in {"running", "backoff"} => j \in sem.held

(* The loop variable of a task counts the retries, and bounds them.                    *)
AttemptsCount ==
    \A j \in Jobs :
        /\ attempt[j] <= MaxRetries[j]
        /\ phase[j] = "backoff" => attempt[j] < MaxRetries[j]
        /\ phase[j] = "failed" => attempt[j] = MaxRetries[j]
        /\ executions[j] = IF phase[j] \in {"new", "offered", "sent", "spawned", "acquiring"}
                           THEN 0 ELSE attempt[j] + 1
        /\ phase[j] \in {"new", "offered", "sent", "spawned", "acquiring"} => attempt[j] = 0

IInv == /\ TypeOK
        /\ Sound(sem, Workers, Jobs)
        /\ ChannelHoldsSent
        /\ PermitsFollowPhases
        /\ AttemptsCount

-----------------------------------------------------------------------------------

(* A queue starts empty, with all its permits.                                         *)
LEMMA InitIInv == Init => IInv
<1> SUFFICES ASSUME Init PROVE IInv
    OBVIOUS
<1>1. Sound(sem, Workers, Jobs) /\ sem.held = {} /\ \A j : ~Waits(sem, j)
    BY NewIsSound, JobQueueAssumption DEF Init
<1>2. TypeOK
    BY <1>1, JobQueueAssumption DEF Init, TypeOK, Phase, Sound, Typed
<1>3. ChannelHoldsSent /\ PermitsFollowPhases
    BY <1>1 DEF Init, ChannelHoldsSent, PermitsFollowPhases
<1>4. AttemptsCount
    BY JobQueueAssumption DEF Init, AttemptsCount
<1> QED  BY <1>1, <1>2, <1>3, <1>4 DEF IInv

(* A job moves on without touching its permit, the channel or its count: it stays on   *)
(* the same side of its start, and asks for no permit.                                 *)
LEMMA OfferIInv ==
    ASSUME IInv, NEW j \in Jobs, Offer(j)
    PROVE  IInv'
<1>1. /\ phase[j] = "new"
      /\ \A k \in Jobs : phase'[k] = IF k = j THEN "offered" ELSE phase[k]
      /\ UNCHANGED <<owner, channel, dispatcher, attempt, sem, executions>>
    BY DEF Offer, To, IInv, TypeOK
<1>2. TypeOK'
    BY <1>1 DEF Offer, To, IInv, TypeOK, Phase
<1>3. Sound(sem, Workers, Jobs)'
    BY <1>1 DEF IInv
<1>4. ChannelHoldsSent'
    BY <1>1 DEF IInv, TypeOK, ChannelHoldsSent
<1>5. PermitsFollowPhases'
    BY <1>1 DEF IInv, TypeOK, PermitsFollowPhases, Waits
<1>6. AttemptsCount'
    BY <1>1 DEF IInv, AttemptsCount
<1> QED  BY <1>2, <1>3, <1>4, <1>5, <1>6 DEF IInv

(* A job enters the channel, which held no copy of it.                                *)
LEMMA PushIInv ==
    ASSUME IInv, NEW j \in Jobs, Push(j)
    PROVE  IInv'
<1>1. /\ phase[j] = "offered"
      /\ \A k \in Jobs : phase'[k] = IF k = j THEN "sent" ELSE phase[k]
      /\ channel' = Append(channel, j)
      /\ UNCHANGED <<owner, dispatcher, attempt, sem, executions>>
    BY DEF Push, To, IInv, TypeOK
<1>2. /\ channel \in Seq(Jobs)
      /\ channel' \in Seq(Jobs)
      /\ Len(channel') = Len(channel) + 1
      /\ DOMAIN channel' = 1 .. Len(channel) + 1 /\ DOMAIN channel = 1 .. Len(channel)
      /\ \A i \in DOMAIN channel : channel'[i] = channel[i]
      /\ channel'[Len(channel) + 1] = j
    BY <1>1 DEF IInv, TypeOK
<1>3. TypeOK'
    BY <1>1, <1>2, JobQueueAssumption DEF Push, To, IInv, TypeOK, Phase
<1>4. Sound(sem, Workers, Jobs)'
    BY <1>1 DEF IInv
<1>5. ChannelHoldsSent'
    <2>1. \A i \in DOMAIN channel : channel[i] # j /\ channel[i] \in Jobs
        BY <1>1, <1>2 DEF IInv, ChannelHoldsSent
    <2> QED  BY <1>1, <1>2, <2>1 DEF IInv, ChannelHoldsSent
<1>6. PermitsFollowPhases'
    BY <1>1 DEF IInv, TypeOK, PermitsFollowPhases, Waits
<1>7. AttemptsCount'
    BY <1>1 DEF IInv, AttemptsCount
<1> QED  BY <1>3, <1>4, <1>5, <1>6, <1>7 DEF IInv

(* The dispatcher takes the head of the channel, which is nowhere else in it.          *)
LEMMA ReceiveIInv ==
    ASSUME IInv, Receive
    PROVE  IInv'
<1> DEFINE j == Head(channel)
<1>1. /\ channel \in Seq(Jobs) /\ channel # <<>>
      /\ channel' = Tail(channel) /\ channel' \in Seq(Jobs)
      /\ Len(channel) \in Nat \ {0}
      /\ j = channel[1] /\ j \in Jobs
      /\ DOMAIN channel = 1 .. Len(channel) /\ DOMAIN channel' = 1 .. Len(channel) - 1
      /\ Len(channel') = Len(channel) - 1
      /\ \A i \in DOMAIN channel' : i + 1 \in DOMAIN channel /\ channel'[i] = channel[i + 1]
    <2>1. channel \in Seq(Jobs) /\ channel # <<>> /\ channel' = Tail(channel)
        BY DEF Receive, IInv, TypeOK
    <2>2. Len(channel) \in Nat \ {0} /\ DOMAIN channel = 1 .. Len(channel)
        BY <2>1, EmptySeq
    <2>3. /\ channel' \in Seq(Jobs) /\ Len(channel') = Len(channel) - 1
          /\ \A i \in 1 .. Len(channel') : channel'[i] = channel[i + 1]
        BY <2>1, HeadTailProperties
    <2>4. j = channel[1] /\ j \in Jobs
        BY <2>1, <2>2
    <2>5. DOMAIN channel' = 1 .. Len(channel) - 1
        BY <2>3
    <2> QED  BY <2>1, <2>2, <2>3, <2>4, <2>5
<1>2. /\ phase[j] = "sent"
      /\ \A k \in Jobs : phase'[k] = IF k = j THEN "spawned" ELSE phase[k]
      /\ UNCHANGED <<owner, dispatcher, attempt, sem, executions>>
    <2>1. 1 \in DOMAIN channel
        BY <1>1
    <2>2. phase[j] = "sent"
        BY <1>1, <2>1 DEF IInv, ChannelHoldsSent
    <2>3. phase' = [phase EXCEPT ![j] = "spawned"] /\ phase \in [Jobs -> Phase]
        BY DEF Receive, To, IInv, TypeOK
    <2> HIDE DEF j
    <2> QED  BY <2>2, <2>3 DEF Receive
<1>3. TypeOK'
    BY <1>1, <1>2, JobQueueAssumption DEF Receive, To, IInv, TypeOK, Phase
<1> HIDE DEF j
<1>4. Sound(sem, Workers, Jobs)'
    BY <1>2 DEF IInv
<1>5. ChannelHoldsSent'
    <2>1. \A i \in DOMAIN channel' : channel'[i] \in Jobs /\ channel'[i] # j
        <3> SUFFICES ASSUME NEW i \in DOMAIN channel' PROVE channel'[i] \in Jobs /\ channel'[i] # j
            OBVIOUS
        <3>1. i + 1 # 1
            BY <1>1
        <3>2. channel[i + 1] # channel[1]
            BY <1>1, <3>1 DEF IInv, ChannelHoldsSent
        <3> QED  BY <1>1, <3>2
    <2>2. \A i \in DOMAIN channel' : phase'[channel'[i]] = "sent"
        BY <1>1, <1>2, <2>1 DEF IInv, ChannelHoldsSent
    <2>3. \A i, k \in DOMAIN channel' : channel'[i] = channel'[k] => i = k
        <3> SUFFICES ASSUME NEW i \in DOMAIN channel', NEW k \in DOMAIN channel',
                            channel'[i] = channel'[k]
                     PROVE  i = k
            OBVIOUS
        <3>1. i + 1 = k + 1
            BY <1>1 DEF IInv, ChannelHoldsSent
        <3> QED  BY <1>1, <3>1
    <2> QED  BY <2>2, <2>3 DEF ChannelHoldsSent
<1>6. PermitsFollowPhases'
    BY <1>1, <1>2 DEF IInv, TypeOK, PermitsFollowPhases, Waits
<1>7. AttemptsCount'
    BY <1>1, <1>2 DEF IInv, AttemptsCount
<1> QED  BY <1>3, <1>4, <1>5, <1>6, <1>7 DEF IInv

-----------------------------------------------------------------------------------

(* A spawned task asks for a permit: it has none and is not in the line yet.           *)
LEMMA AskPermitIInv ==
    ASSUME IInv, NEW j \in Jobs, AskPermit(j)
    PROVE  IInv'
<1>1. /\ phase[j] = "spawned"
      /\ \A k \in Jobs : phase'[k] = IF k = j THEN "acquiring" ELSE phase[k]
      /\ sem' = Acquire(sem, j)
      /\ UNCHANGED <<owner, channel, dispatcher, attempt, executions>>
    BY DEF AskPermit, To, IInv, TypeOK
<1>2. /\ Sound(sem', Workers, Jobs)
      /\ \A u : u # j => /\ u \in sem'.held <=> u \in sem.held
                         /\ Waits(sem', u) <=> Waits(sem, u)
    <2>1. j \notin sem.held /\ ~Waits(sem, j)
        BY <1>1 DEF IInv, PermitsFollowPhases
    <2> QED  BY <1>1, <2>1, AcquireIsSound, JobQueueAssumption DEF IInv
<1>3. TypeOK'
    BY <1>1, <1>2 DEF AskPermit, To, IInv, TypeOK, Phase, Sound, Typed
<1>4. ChannelHoldsSent'
    BY <1>1 DEF IInv, TypeOK, ChannelHoldsSent
<1>5. PermitsFollowPhases'
    BY <1>1, <1>2 DEF IInv, TypeOK, PermitsFollowPhases
<1>6. AttemptsCount'
    BY <1>1 DEF IInv, AttemptsCount
<1> QED  BY <1>2, <1>3, <1>4, <1>5, <1>6 DEF IInv

(* A task that holds a permit moves on with it.                                        *)
LEMMA HolderIInv ==
    ASSUME IInv, NEW j \in Jobs, NEW p \in {"running", "backoff"},
           j \in sem.held, To(j, p), UNCHANGED <<owner, channel, dispatcher, sem>>,
           TypeOK', AttemptsCount'
    PROVE  IInv'
<1>1. \A k \in Jobs : phase'[k] = IF k = j THEN p ELSE phase[k]
    BY DEF To, IInv, TypeOK
<1>2. phase[j] # "sent" /\ ~Waits(sem, j)
    BY DEF IInv, PermitsFollowPhases, Sound, OnceEach, Waits
<1>3. ChannelHoldsSent'
    BY <1>1, <1>2 DEF IInv, TypeOK, ChannelHoldsSent
<1>4. PermitsFollowPhases'
    <2>1. \A k : Waits(sem, k)' <=> Waits(sem, k)
        BY DEF Waits
    <2> QED  BY <1>1, <1>2, <2>1 DEF IInv, TypeOK, PermitsFollowPhases
<1> QED  BY <1>3, <1>4 DEF IInv

(* The first execution of a job that got its permit.                                   *)
LEMMA StartIInv ==
    ASSUME IInv, NEW j \in Jobs, Start(j)
    PROVE  IInv'
<1>1. /\ phase[j] = "acquiring" /\ j \in sem.held
      /\ \A k \in Jobs : phase'[k] = IF k = j THEN "running" ELSE phase[k]
      /\ \A k \in Jobs : executions'[k] = IF k = j THEN executions[k] + 1 ELSE executions[k]
      /\ UNCHANGED <<owner, channel, dispatcher, attempt, sem>>
    BY DEF Start, To, Execute, IInv, TypeOK
<1>2. TypeOK'
    BY <1>1 DEF Start, To, Execute, IInv, TypeOK, Phase
<1>3. AttemptsCount'
    BY <1>1, JobQueueAssumption DEF IInv, TypeOK, AttemptsCount
<1> QED  BY <1>1, <1>2, <1>3, HolderIInv DEF Start

(* A retry counts an attempt and an execution together.                                *)
LEMMA RetryIInv ==
    ASSUME IInv, NEW j \in Jobs, Retry(j)
    PROVE  IInv'
<1>1. /\ phase[j] = "backoff" /\ j \in sem.held
      /\ \A k \in Jobs : phase'[k] = IF k = j THEN "running" ELSE phase[k]
      /\ \A k \in Jobs : executions'[k] = IF k = j THEN executions[k] + 1 ELSE executions[k]
      /\ \A k \in Jobs : attempt'[k] = IF k = j THEN attempt[k] + 1 ELSE attempt[k]
      /\ UNCHANGED <<owner, channel, dispatcher, sem>>
    BY DEF Retry, To, Execute, IInv, TypeOK, PermitsFollowPhases
<1>2. TypeOK'
    BY <1>1 DEF Retry, To, Execute, IInv, TypeOK, Phase
<1>3. AttemptsCount'
    <2>1. attempt[j] \in Nat /\ MaxRetries[j] \in Nat /\ attempt[j] < MaxRetries[j]
          /\ executions[j] = attempt[j] + 1
        BY <1>1, JobQueueAssumption DEF IInv, TypeOK, AttemptsCount
    <2>2. attempt'[j] <= MaxRetries[j] /\ executions'[j] = attempt'[j] + 1
        BY <1>1, <2>1
    <2> QED  BY <1>1, <2>2 DEF IInv, AttemptsCount
<1> QED  BY <1>1, <1>2, <1>3, HolderIInv DEF Retry

(* The end of a task gives its permit back, whatever the end is.                       *)
LEMMA FinishIInv ==
    ASSUME IInv, NEW j \in Jobs, NEW p \in Ended,
           Returns(j), Finish(j, p), p = "failed" => attempt[j] = MaxRetries[j],
           UNCHANGED <<owner, channel, dispatcher, attempt, executions>>
    PROVE  IInv'
<1>1. /\ phase[j] = "running" /\ j \in sem.held
      /\ \A k \in Jobs : phase'[k] = IF k = j THEN p ELSE phase[k]
      /\ sem' = Release(sem, j)
    BY DEF Returns, Finish, To, IInv, TypeOK, PermitsFollowPhases
<1>2. /\ Sound(sem', Workers, Jobs)
      /\ j \notin sem'.held /\ ~Waits(sem', j)
      /\ \A u : u # j => /\ u \in sem.held => u \in sem'.held
                         /\ u \in sem'.held => u \in sem.held \/ Waits(sem, u)
                         /\ Waits(sem', u) => Waits(sem, u)
    BY <1>1, ReleaseIsSound, JobQueueAssumption DEF IInv
<1>3. TypeOK'
    BY <1>1, <1>2 DEF Finish, To, Ended, IInv, TypeOK, Phase, Sound, Typed
<1>4. ChannelHoldsSent'
    BY <1>1 DEF IInv, TypeOK, ChannelHoldsSent
<1>5. PermitsFollowPhases'
    <2>1. sem'.held \subseteq Jobs
        BY <1>3 DEF TypeOK
    <2> QED  BY <1>1, <1>2, <2>1 DEF Ended, IInv, TypeOK, PermitsFollowPhases
<1>6. AttemptsCount'
    BY <1>1 DEF Ended, IInv, AttemptsCount
<1> QED  BY <1>2, <1>3, <1>4, <1>5, <1>6 DEF IInv

(* An error keeps the permit for the sleep while retries are left, and ends the job at *)
(* exactly its limit.                                                                  *)
LEMMA ExecuteErrIInv ==
    ASSUME IInv, NEW j \in Jobs, ExecuteErr(j)
    PROVE  IInv'
<1>1. CASE attempt[j] < MaxRetries[j]
    <2>1. /\ phase[j] = "running" /\ j \in sem.held
          /\ \A k \in Jobs : phase'[k] = IF k = j THEN "backoff" ELSE phase[k]
          /\ To(j, "backoff")
          /\ UNCHANGED <<owner, channel, dispatcher, attempt, sem, executions>>
        BY <1>1 DEF ExecuteErr, Returns, To, IInv, TypeOK, PermitsFollowPhases
    <2>2. TypeOK'
        BY <2>1 DEF To, IInv, TypeOK, Phase
    <2>3. AttemptsCount'
        BY <1>1, <2>1 DEF IInv, AttemptsCount
    <2> QED  BY <2>1, <2>2, <2>3, HolderIInv
<1>2. CASE ~(attempt[j] < MaxRetries[j])
    <2>1. attempt[j] = MaxRetries[j]
        BY <1>2, JobQueueAssumption DEF IInv, TypeOK, AttemptsCount
    <2> QED  BY <1>2, <2>1, FinishIInv DEF ExecuteErr, Ended
<1> QED  BY <1>1, <1>2

-----------------------------------------------------------------------------------

(* Every step keeps the invariant; the end of the queue touches no task.               *)
LEMMA NextIInv == IInv /\ [Next]_vars => IInv'
<1> SUFFICES ASSUME IInv, [Next]_vars PROVE IInv'
    OBVIOUS
<1>1. ASSUME NEW j \in Jobs, Task(j) PROVE IInv'
    <2>1. CASE AskPermit(j)
        BY <2>1, AskPermitIInv
    <2>2. CASE Start(j)
        BY <2>2, StartIInv
    <2>3. CASE ExecuteOk(j)
        BY <2>3, FinishIInv DEF ExecuteOk, Ended
    <2>4. CASE ExecuteErr(j)
        BY <2>4, ExecuteErrIInv
    <2>5. CASE ExecutePanics(j)
        BY <2>5, FinishIInv DEF ExecutePanics, Ended
    <2>6. CASE Retry(j)
        BY <2>6, RetryIInv
    <2> QED  BY <1>1, <2>1, <2>2, <2>3, <2>4, <2>5, <2>6 DEF Task
<1>2. CASE DispatcherEnds \/ DropQueue \/ Shutdown \/ UNCHANGED vars
    <2>1. /\ UNCHANGED <<channel, phase, attempt, sem, executions>>
          /\ owner' \in {"using", "dropped", "shutdown"}
          /\ dispatcher' \in {"running", "ended"}
        BY <1>2 DEF DispatcherEnds, DropQueue, Shutdown, vars, IInv, TypeOK
    <2>2. TypeOK'
        BY <2>1 DEF IInv, TypeOK
    <2>3. /\ Sound(sem, Workers, Jobs)' /\ ChannelHoldsSent' /\ AttemptsCount'
        BY <2>1 DEF IInv, ChannelHoldsSent, AttemptsCount
    <2>4. PermitsFollowPhases'
        BY <2>1 DEF IInv, PermitsFollowPhases, Waits
    <2> QED  BY <2>2, <2>3, <2>4 DEF IInv
<1> QED  BY <1>1, <1>2, OfferIInv, PushIInv, ReceiveIInv DEF Next

(* What the invariant says of the properties.                                          *)
LEMMA InvariantIsSound == IInv => TypeOK /\ PermitsConserved /\ ExecutionsExact
<1> SUFFICES ASSUME IInv PROVE TypeOK /\ PermitsConserved /\ ExecutionsExact
    OBVIOUS
<1>1. TypeOK
    BY DEF IInv
<1>2. PermitsConserved
    BY DEF IInv, TypeOK, PermitsFollowPhases, PermitsConserved, Executing, Sound, Balanced
<1>3. ExecutionsExact
    BY JobQueueAssumption DEF IInv, TypeOK, AttemptsCount, ExecutionsExact
<1> QED  BY <1>1, <1>2, <1>3

(* Type correctness of the queue of job/mod.rs: the channel never holds more than its  *)
(* capacity, and the variables stay in their ranges.                                   *)
THEOREM TypeCorrect == Spec => []TypeOK
BY InvariantIsSound, InitIInv, NextIInv, PTL DEF Spec

(* Permits are conserved, for any number of workers: each is free or held by a job     *)
(* that is about to run, runs or sleeps before a retry, also after errors and panics.  *)
THEOREM PermitsAreConserved == Spec => []PermitsConserved
BY InvariantIsSound, InitIInv, NextIInv, PTL DEF Spec

(* A job is executed once and once per retry: never more often than its limit allows,  *)
(* exactly that often when it failed, and never before it has a permit.                *)
THEOREM ExecutionsAreExact == Spec => []ExecutionsExact
BY InvariantIsSound, InitIInv, NextIInv, PTL DEF Spec

-----------------------------------------------------------------------------------
(* The message bus, for any messages, handlers, workers, retries and capacity: no permit *)
(* is lost, registrations that came first are seen, every handler of a background       *)
(* message has its turn, and a synchronous dispatch stops at the first error.           *)

Permits == IF BusWorkers = 0 THEN 1 ELSE BusWorkers

Calls == [handler : Handlers, result : {"ok", "err"}]

(* TypeOK bounds pos and attempt of each message; that they are functions as well.     *)
Typing == /\ Bus!TypeOK
          /\ pos \in [Messages -> Nat] /\ try \in [Messages -> Nat]

(* What only a background message goes through, and what only a synchronous one.       *)
TwoTransports ==
    \A m \in Messages :
        /\ stage[m] \in {"offered", "sent", "spawned", "acquiring", "backoff"} => m \in Async
        /\ stage[m] \in {"called", "error", "cancelled"} => m \notin Async

BusChannelHoldsSent ==
    /\ \A i \in DOMAIN line : stage[line[i]] = "sent"
    /\ \A i, k \in DOMAIN line : line[i] = line[k] => i = k

BusPermitsFollowPhases ==
    /\ \A m \in Async : Bus!Waits(permits, m) => stage[m] = "acquiring"
    /\ \A m \in permits.held : stage[m] \in {"acquiring", "running", "backoff"}
    /\ \A m \in Async : stage[m] \in {"running", "backoff"} => m \in permits.held

Begins(s, t) == Len(s) <= Len(t) /\ \A i \in 1 .. Len(s) : s[i] = t[i]

(* Registrations are appended: what was registered at the call stays in front, in the  *)
(* map until the list is read and then in the list.                                    *)
RegisteredFirst ==
    \A m \in Messages :
        /\ stage[m] \in {"called", "offered", "sent", "spawned", "acquiring"}
               => Begins(known[m], handlers[TypeOf[m]])
        /\ stage[m] \in {"running", "backoff", "done", "error"} => Begins(known[m], list[m])

(* The calls are those of p - 1 handlers that had their turn, and n errors of the next.*)
Halfway(handlerList, p, n, made) ==
    \E cut \in [0 .. p - 1 -> 0 .. Len(made)] :
        /\ cut[0] = 0 /\ Len(made) = cut[p - 1] + n
        /\ \A i \in 1 .. p - 1 : Bus!Turn(made, handlerList[i], cut[i - 1], cut[i])
        /\ \A k \in cut[p - 1] + 1 .. Len(made) :
               made[k] = [handler |-> handlerList[p], result |-> "err"]

(* The first n handlers were called once each, in order, and returned Ok.              *)
AllOk(handlerList, n, made) ==
    /\ Len(made) = n
    /\ \A i \in 1 .. n : made[i] = [handler |-> handlerList[i], result |-> "ok"]

NotStarted == {"new", "called", "offered", "sent", "spawned", "acquiring"}

(* The log of a message is as far as its position and its attempts say.                *)
Progress(m) ==
    /\ stage[m] \in NotStarted => pos[m] = 1 /\ try[m] = 0 /\ log[m] = <<>>
    /\ stage[m] \in {"running", "backoff", "error"} => pos[m] <= Len(list[m])
    /\ stage[m] = "done" => pos[m] = Len(list[m]) + 1
    /\ stage[m] = "backoff" => try[m] < BusRetries
    /\ m \in Async =>
           /\ stage[m] \in {"running", "done"}
                  => Halfway(list[m], pos[m], try[m], log[m])
           /\ stage[m] = "backoff" => Halfway(list[m], pos[m], try[m] + 1, log[m])
           /\ stage[m] = "done" => try[m] = 0
    /\ m \notin Async =>
           /\ stage[m] \in {"running", "done"} => AllOk(list[m], pos[m] - 1, log[m])
           /\ stage[m] = "error" =>
                  /\ Len(log[m]) = pos[m]
                  /\ \A i \in 1 .. pos[m] - 1 :
                         log[m][i] = [handler |-> list[m][i], result |-> "ok"]
                  /\ log[m][pos[m]] = [handler |-> list[m][pos[m]], result |-> "err"]

BusIInv == /\ Typing
        /\ TwoTransports
        /\ Bus!Sound(permits, Permits, Async)
        /\ BusChannelHoldsSent
        /\ BusPermitsFollowPhases
        /\ RegisteredFirst
        /\ \A m \in Messages : Progress(m)

-----------------------------------------------------------------------------------

(* Before the first call there is nothing to cut.                                      *)
LEMMA HalfwayStarts ==
    ASSUME NEW handlerList
    PROVE  Halfway(handlerList, 1, 0, <<>>)
<1> DEFINE cut == [i \in 0 .. 0 |-> 0]
<1>1. cut \in [0 .. 1 - 1 -> 0 .. Len(<<>>)] /\ cut[0] = 0 /\ cut[1 - 1] = 0
    OBVIOUS
<1> HIDE DEF cut
<1> QED  BY <1>1 DEF Halfway

(* One more error of the handler whose turn it is.                                     *)
LEMMA HalfwayErr ==
    ASSUME NEW handlerList, NEW p \in Nat \ {0}, NEW n \in Nat, NEW made \in Seq(Calls),
           Halfway(handlerList, p, n, made),
           NEW d, d = Append(made, [handler |-> handlerList[p], result |-> "err"])
    PROVE  Halfway(handlerList, p, n + 1, d)
<1>1. PICK cut \in [0 .. p - 1 -> 0 .. Len(made)] :
          /\ cut[0] = 0 /\ Len(made) = cut[p - 1] + n
          /\ \A i \in 1 .. p - 1 : Bus!Turn(made, handlerList[i], cut[i - 1], cut[i])
          /\ \A k \in cut[p - 1] + 1 .. Len(made) :
                 made[k] = [handler |-> handlerList[p], result |-> "err"]
    BY DEF Halfway
<1>2. /\ Len(d) = Len(made) + 1 /\ Len(made) \in Nat
      /\ \A k \in 1 .. Len(made) : d[k] = made[k]
      /\ d[Len(made) + 1] = [handler |-> handlerList[p], result |-> "err"]
    OBVIOUS
<1>3. cut \in [0 .. p - 1 -> 0 .. Len(d)] /\ Len(d) = cut[p - 1] + (n + 1)
    BY <1>1, <1>2
<1>4. \A i \in 1 .. p - 1 : Bus!Turn(d, handlerList[i], cut[i - 1], cut[i])
    <2> SUFFICES ASSUME NEW i \in 1 .. p - 1 PROVE Bus!Turn(d, handlerList[i], cut[i - 1], cut[i])
        OBVIOUS
    <2>1. i - 1 \in 0 .. p - 1 /\ i \in 0 .. p - 1
        OBVIOUS
    <2>2. cut[i - 1] \in 0 .. Len(made) /\ cut[i] \in 0 .. Len(made)
        BY <2>1
    <2>3. Bus!Turn(made, handlerList[i], cut[i - 1], cut[i])
        BY <1>1
    <2>4. cut[i] \in 1 .. Len(made)
        BY <2>2, <2>3 DEF Bus!Turn
    <2> QED  BY <1>2, <2>2, <2>3, <2>4 DEF Bus!Turn
<1>5. \A k \in cut[p - 1] + 1 .. Len(d) : d[k] = [handler |-> handlerList[p], result |-> "err"]
    <2>1. cut[p - 1] \in 0 .. Len(made)
        OBVIOUS
    <2> QED  BY <1>1, <1>2, <2>1
<1> QED  BY <1>1, <1>3, <1>4, <1>5 DEF Halfway

(* The turn of a handler ends with an Ok, or with the error of its last attempt.       *)
LEMMA HalfwayNext ==
    ASSUME NEW handlerList, NEW p \in Nat \ {0}, NEW n \in 0 .. BusRetries,
           NEW made \in Seq(Calls), NEW r \in {"ok", "err"}, r = "err" => n = BusRetries,
           BusRetries \in Nat,
           Halfway(handlerList, p, n, made),
           NEW d, d = Append(made, [handler |-> handlerList[p], result |-> r])
    PROVE  Halfway(handlerList, p + 1, 0, d)
<1>1. PICK cut \in [0 .. p - 1 -> 0 .. Len(made)] :
          /\ cut[0] = 0 /\ Len(made) = cut[p - 1] + n
          /\ \A i \in 1 .. p - 1 : Bus!Turn(made, handlerList[i], cut[i - 1], cut[i])
          /\ \A k \in cut[p - 1] + 1 .. Len(made) :
                 made[k] = [handler |-> handlerList[p], result |-> "err"]
    BY DEF Halfway
<1>2. /\ Len(d) = Len(made) + 1 /\ Len(made) \in Nat
      /\ \A k \in 1 .. Len(made) : d[k] = made[k]
      /\ d[Len(made) + 1] = [handler |-> handlerList[p], result |-> r]
    OBVIOUS
<1> DEFINE cut2 == [i \in 0 .. p |-> IF i = p THEN Len(d) ELSE cut[i]]
<1>3. /\ cut2 \in [0 .. (p + 1) - 1 -> 0 .. Len(d)]
      /\ cut2[0] = 0 /\ cut2[p] = Len(d)
      /\ \A i \in 0 .. p - 1 : cut2[i] = cut[i] /\ cut[i] \in 0 .. Len(made)
    BY <1>1, <1>2
<1> HIDE DEF cut2
<1>4. \A i \in 1 .. p - 1 : Bus!Turn(d, handlerList[i], cut2[i - 1], cut2[i])
    <2> SUFFICES ASSUME NEW i \in 1 .. p - 1
                 PROVE  Bus!Turn(d, handlerList[i], cut2[i - 1], cut2[i])
        OBVIOUS
    <2>1. i - 1 \in 0 .. p - 1 /\ i \in 0 .. p - 1
        OBVIOUS
    <2>2. /\ cut2[i - 1] = cut[i - 1] /\ cut2[i] = cut[i]
          /\ cut[i - 1] \in 0 .. Len(made) /\ cut[i] \in 0 .. Len(made)
        BY <1>3, <2>1
    <2>3. Bus!Turn(made, handlerList[i], cut[i - 1], cut[i])
        BY <1>1
    <2>4. cut[i] \in 1 .. Len(made)
        BY <2>2, <2>3 DEF Bus!Turn
    <2>5. Bus!Turn(d, handlerList[i], cut[i - 1], cut[i])
        BY <1>2, <2>2, <2>3, <2>4 DEF Bus!Turn
    <2> QED  BY <2>2, <2>5
<1>5. Bus!Turn(d, handlerList[p], cut2[p - 1], cut2[p])
    <2>1. cut2[p - 1] = cut[p - 1] /\ cut[p - 1] \in 0 .. Len(made)
        BY <1>3
    <2>2. Len(d) - cut[p - 1] = n + 1
        BY <1>1, <1>2, <2>1
    <2>3. \A k \in cut[p - 1] + 1 .. Len(made) :
              d[k] = [handler |-> handlerList[p], result |-> "err"]
        BY <1>1, <1>2, <2>1
    <2>4. \A k \in cut[p - 1] + 1 .. Len(d) : k \in cut[p - 1] + 1 .. Len(made) \/ k = Len(d)
        BY <1>2, <2>1
    <2>5. \A k \in cut[p - 1] + 1 .. Len(d) :
              /\ d[k].handler = handlerList[p]
              /\ d[k].result = "ok" => k = Len(d)
        BY <1>2, <2>3, <2>4
    <2>6. d[Len(d)].result = "err" => Len(d) - cut[p - 1] = BusRetries + 1
        <3>1. d[Len(d)] = [handler |-> handlerList[p], result |-> r]
            BY <1>2
        <3>2. d[Len(d)].result = "err" => n = BusRetries
            BY <3>1
        <3> QED  BY <2>2, <3>2
    <2>7. Len(d) - cut[p - 1] \in 1 .. BusRetries + 1
        BY <2>2
    <2>8. Bus!Turn(d, handlerList[p], cut[p - 1], Len(d))
        BY <2>5, <2>6, <2>7 DEF Bus!Turn
    <2> QED  BY <1>3, <2>1, <2>8
<1>6. \A i \in 1 .. (p + 1) - 1 : Bus!Turn(d, handlerList[i], cut2[i - 1], cut2[i])
    BY <1>4, <1>5
<1>7. Len(d) = cut2[(p + 1) - 1] + 0 /\ cut2[(p + 1) - 1] + 1 .. Len(d) = {}
    BY <1>2, <1>3
<1> QED  BY <1>3, <1>6, <1>7 DEF Halfway

(* The last turn ended: the cuts are those of BackgroundReachesAll.                    *)
LEMMA HalfwayEnds ==
    ASSUME NEW handlerList, Len(handlerList) \in Nat,
           DOMAIN handlerList = 1 .. Len(handlerList), NEW made, Len(made) \in Nat,
           Halfway(handlerList, Len(handlerList) + 1, 0, made)
    PROVE  \E cut \in [0 .. Len(handlerList) -> 0 .. Len(made)] :
               /\ cut[0] = 0 /\ cut[Len(handlerList)] = Len(made)
               /\ \A i \in DOMAIN handlerList : Bus!Turn(made, handlerList[i], cut[i - 1], cut[i])
<1>1. (Len(handlerList) + 1) - 1 = Len(handlerList)
    OBVIOUS
<1>2. PICK cut \in [0 .. Len(handlerList) -> 0 .. Len(made)] :
          /\ cut[0] = 0 /\ Len(made) = cut[Len(handlerList)] + 0
          /\ \A i \in 1 .. Len(handlerList) : Bus!Turn(made, handlerList[i], cut[i - 1], cut[i])
    BY <1>1 DEF Halfway
<1>3. cut[Len(handlerList)] = Len(made)
    BY <1>2
<1> QED  BY <1>2, <1>3

-----------------------------------------------------------------------------------

(* A bus starts without messages, with all its permits.                                *)
LEMMA BusInitIInv ==
    ASSUME Bus!BusAssumption, Bus!Init
    PROVE  BusIInv
<1>1. Bus!Sound(permits, Permits, Async) /\ permits.held = {} /\ \A m : ~Bus!Waits(permits, m)
    BY Bus!NewIsSound DEF Bus!Init, Bus!BusAssumption, Permits
<1>2. Typing
    BY <1>1 DEF Bus!Init, Bus!BusAssumption, Typing, Bus!TypeOK, Bus!Phase, Bus!Sound, Bus!Typed
<1>3. TwoTransports /\ BusChannelHoldsSent /\ BusPermitsFollowPhases
    BY <1>1
       DEF Bus!Init, Bus!BusAssumption, TwoTransports, BusChannelHoldsSent, BusPermitsFollowPhases
<1>4. RegisteredFirst
    BY DEF Bus!Init, RegisteredFirst
<1>5. \A m \in Messages : Progress(m)
    BY DEF Bus!Init, Progress, NotStarted
<1> QED  BY <1>1, <1>2, <1>3, <1>4, <1>5 DEF BusIInv

(* Whom the channel and the semaphore know are background messages.                    *)
LEMMA Members ==
    ASSUME Bus!BusAssumption, BusIInv
    PROVE  /\ \A i \in DOMAIN line : line[i] \in Async /\ line[i] \in Messages
           /\ \A m \in permits.held : m \in Async /\ m \in Messages
           /\ \A m \in Async : m \in Messages
<1>1. line \in Seq(Async) /\ permits.held \subseteq Async /\ Async \subseteq Messages
    BY DEF BusIInv, Typing, Bus!TypeOK, Bus!BusAssumption
<1>2. \A i \in DOMAIN line : line[i] \in Async
    BY <1>1
<1> QED  BY <1>1, <1>2

(* What a step does not touch of a message stays as it is.                             *)
LEMMA OtherProgress ==
    ASSUME NEW m, Progress(m),
           stage'[m] = stage[m], list'[m] = list[m], pos'[m] = pos[m],
           try'[m] = try[m], log'[m] = log[m]
    PROVE  Progress(m)'
BY DEF Progress

(* A registration goes to the end of the handlers of its type.                         *)
LEMMA HandleIInv ==
    ASSUME Bus!BusAssumption, BusIInv, NEW h \in Handlers, Bus!Handle(h)
    PROVE  BusIInv'
<1>1. UNCHANGED <<open, line, worker, permits, stage, list, pos, try, known, log>>
    BY DEF Bus!Handle, Bus!task
<1>2. /\ handlers' = [handlers EXCEPT ![TypeOf[h]] = Append(@, h)]
      /\ handlers \in [Bus!Types -> Seq(Handlers)] /\ TypeOf[h] \in Bus!Types
    BY DEF Bus!Handle, BusIInv, Typing, Bus!TypeOK, Bus!Types
<1>3. handlers' \in [Bus!Types -> Seq(Handlers)]
    BY <1>2
<1>4. Typing'
    BY <1>1, <1>3 DEF BusIInv, Typing, Bus!TypeOK
<1>5. TwoTransports' /\ Bus!Sound(permits, Permits, Async)' /\ BusChannelHoldsSent'
    BY <1>1 DEF BusIInv, TwoTransports, BusChannelHoldsSent, Permits
<1>6. BusPermitsFollowPhases'
    BY <1>1 DEF BusIInv, BusPermitsFollowPhases, Bus!Waits
<1>7. RegisteredFirst'
    <2> SUFFICES ASSUME NEW m \in Messages,
                        Begins(known[m], handlers[TypeOf[m]])
                 PROVE  Begins(known[m], handlers'[TypeOf[m]])
        BY <1>1 DEF BusIInv, RegisteredFirst
    <2>1. TypeOf[m] \in Bus!Types /\ handlers[TypeOf[m]] \in Seq(Handlers)
          /\ known[m] \in Seq(Handlers)
        BY DEF Bus!Types, BusIInv, Typing, Bus!TypeOK
    <2>2. \/ handlers'[TypeOf[m]] = handlers[TypeOf[m]]
          \/ handlers'[TypeOf[m]] = Append(handlers[TypeOf[m]], h)
        BY <1>2, <2>1
    <2>3. CASE handlers'[TypeOf[m]] = Append(handlers[TypeOf[m]], h)
        <3>1. /\ Len(handlers'[TypeOf[m]]) = Len(handlers[TypeOf[m]]) + 1
              /\ \A i \in 1 .. Len(handlers[TypeOf[m]]) :
                     handlers'[TypeOf[m]][i] = handlers[TypeOf[m]][i]
            BY <2>1, <2>3
        <3>2. Len(handlers[TypeOf[m]]) \in Nat /\ Len(known[m]) \in Nat
            BY <2>1
        <3> QED  BY <3>1, <3>2 DEF Begins
    <2> QED  BY <2>2, <2>3
<1>8. \A m \in Messages : Progress(m)'
    BY <1>1, OtherProgress DEF BusIInv
<1> QED  BY <1>4, <1>5, <1>6, <1>7, <1>8 DEF BusIInv

(* A call takes note of the handlers there are.                                        *)
LEMMA CallIInv ==
    ASSUME Bus!BusAssumption, BusIInv, NEW m \in Messages, Bus!Call(m)
    PROVE  BusIInv'
<1> DEFINE p == IF m \in Async THEN "offered" ELSE "called"
<1>1. /\ stage[m] = "new"
      /\ \A k \in Messages : stage'[k] = IF k = m THEN p ELSE stage[k]
      /\ \A k \in Messages : known'[k] = IF k = m THEN handlers[TypeOf[m]] ELSE known[k]
      /\ UNCHANGED <<handlers, open, line, worker, permits, list, pos, try, log>>
    BY DEF Bus!Call, Bus!To, BusIInv, Typing, Bus!TypeOK
<1>2. handlers[TypeOf[m]] \in Seq(Handlers)
    BY DEF BusIInv, Typing, Bus!TypeOK, Bus!Types
<1>3. Typing'
    BY <1>1, <1>2 DEF Bus!Call, Bus!To, BusIInv, Typing, Bus!TypeOK, Bus!Phase
<1>4. TwoTransports' /\ Bus!Sound(permits, Permits, Async)'
    BY <1>1 DEF BusIInv, TwoTransports, Permits
<1>5. BusChannelHoldsSent'
    BY <1>1, Members DEF BusIInv, BusChannelHoldsSent
<1>6. BusPermitsFollowPhases'
    BY <1>1, Members DEF BusIInv, BusPermitsFollowPhases, Bus!Waits
<1>7. RegisteredFirst'
    BY <1>1, <1>2 DEF BusIInv, RegisteredFirst, Begins
<1>8. \A k \in Messages : Progress(k)'
    <2>1. Progress(m)'
        BY <1>1 DEF BusIInv, Progress, NotStarted
    <2> QED  BY <1>1, <2>1, OtherProgress DEF BusIInv
<1> QED  BY <1>3, <1>4, <1>5, <1>6, <1>7, <1>8 DEF BusIInv

(* A message enters the channel, which held no copy of it.                             *)
LEMMA SendIInv ==
    ASSUME Bus!BusAssumption, BusIInv, NEW m \in Messages, Bus!Send(m)
    PROVE  BusIInv'
<1>1. /\ stage[m] = "offered" /\ m \in Async
      /\ \A k \in Messages : stage'[k] = IF k = m THEN "sent" ELSE stage[k]
      /\ line' = Append(line, m)
      /\ UNCHANGED <<handlers, open, worker, permits, list, pos, try, known, log>>
    BY DEF Bus!Send, Bus!To, Bus!task, BusIInv, Typing, Bus!TypeOK, TwoTransports
<1>2. /\ line \in Seq(Async) /\ line' \in Seq(Async)
      /\ Len(line') = Len(line) + 1
      /\ DOMAIN line' = 1 .. Len(line) + 1 /\ DOMAIN line = 1 .. Len(line)
      /\ \A i \in DOMAIN line : line'[i] = line[i]
      /\ line'[Len(line) + 1] = m
    BY <1>1 DEF BusIInv, Typing, Bus!TypeOK
<1>3. Typing'
    <2>1. Len(line') <= BusCapacity
        BY <1>2 DEF Bus!Send, Bus!BusAssumption
    <2>2. stage' \in [Messages -> Bus!Phase]
        BY DEF Bus!Send, Bus!To, BusIInv, Typing, Bus!TypeOK, Bus!Phase
    <2> QED  BY <1>1, <1>2, <2>1, <2>2 DEF BusIInv, Typing, Bus!TypeOK
<1>4. TwoTransports' /\ Bus!Sound(permits, Permits, Async)'
    BY <1>1 DEF BusIInv, TwoTransports, Permits
<1>5. BusChannelHoldsSent'
    <2>1. \A i \in DOMAIN line : line[i] # m /\ line[i] \in Messages
        BY <1>1, Members DEF BusIInv, BusChannelHoldsSent
    <2> QED  BY <1>1, <1>2, <2>1 DEF BusIInv, BusChannelHoldsSent
<1>6. BusPermitsFollowPhases'
    BY <1>1, Members DEF BusIInv, BusPermitsFollowPhases, Bus!Waits
<1>7. RegisteredFirst'
    BY <1>1 DEF BusIInv, RegisteredFirst
<1>8. \A k \in Messages : Progress(k)'
    <2>1. Progress(m)'
        BY <1>1 DEF BusIInv, Progress, NotStarted
    <2> QED  BY <1>1, <2>1, OtherProgress DEF BusIInv
<1> QED  BY <1>3, <1>4, <1>5, <1>6, <1>7, <1>8 DEF BusIInv

(* The worker takes the head of the channel, which is nowhere else in it.              *)
LEMMA BusReceiveIInv ==
    ASSUME Bus!BusAssumption, BusIInv, Bus!Receive
    PROVE  BusIInv'
<1>0. PICK m : m = Head(line)
    OBVIOUS
<1>1. /\ line' \in Seq(Async)
      /\ Len(line) \in Nat \ {0} /\ Len(line') = Len(line) - 1
      /\ m = line[1] /\ m \in Async /\ m \in Messages
      /\ DOMAIN line = 1 .. Len(line) /\ DOMAIN line' = 1 .. Len(line) - 1
      /\ \A i \in DOMAIN line' : i + 1 \in DOMAIN line /\ line'[i] = line[i + 1]
    <2>1. line \in Seq(Async) /\ line # <<>> /\ line' = Tail(line)
        BY DEF Bus!Receive, BusIInv, Typing, Bus!TypeOK
    <2>2. Len(line) \in Nat \ {0} /\ DOMAIN line = 1 .. Len(line)
        BY <2>1, EmptySeq
    <2>3. /\ line' \in Seq(Async) /\ Len(line') = Len(line) - 1
          /\ \A i \in 1 .. Len(line') : line'[i] = line[i + 1]
        BY <2>1, HeadTailProperties
    <2>4. m = line[1] /\ m \in Async /\ m \in Messages
        BY <1>0, <2>1, <2>2, Members
    <2>5. DOMAIN line' = 1 .. Len(line) - 1
        BY <2>3
    <2> QED  BY <2>1, <2>2, <2>3, <2>4, <2>5
<1>2. /\ stage[m] = "sent"
      /\ \A k \in Messages : stage'[k] = IF k = m THEN "spawned" ELSE stage[k]
      /\ UNCHANGED <<handlers, open, worker, permits, list, pos, try, known, log>>
    <2>1. stage[m] = "sent"
        BY <1>1 DEF BusIInv, BusChannelHoldsSent
    <2>2. stage' = [stage EXCEPT ![m] = "spawned"] /\ stage \in [Messages -> Bus!Phase]
        BY <1>0 DEF Bus!Receive, Bus!To, BusIInv, Typing, Bus!TypeOK
    <2>3. UNCHANGED <<handlers, open, worker, permits, list, pos, try, known, log>>
        BY DEF Bus!Receive, Bus!task
    <2> QED  BY <2>1, <2>2, <2>3
<1>3. Typing'
    <2>1. stage' = [stage EXCEPT ![m] = "spawned"] /\ stage \in [Messages -> Bus!Phase]
        BY <1>0 DEF Bus!Receive, Bus!To, BusIInv, Typing, Bus!TypeOK
    <2>2. Len(line') <= BusCapacity
        BY <1>1 DEF BusIInv, Typing, Bus!TypeOK, Bus!BusAssumption
    <2>3. stage' \in [Messages -> Bus!Phase]
        BY <2>1 DEF Bus!Phase
    <2> QED  BY <1>1, <1>2, <2>2, <2>3 DEF BusIInv, Typing, Bus!TypeOK
<1>4. TwoTransports' /\ Bus!Sound(permits, Permits, Async)'
    BY <1>1, <1>2 DEF BusIInv, TwoTransports, Permits
<1>5. BusChannelHoldsSent'
    <2>1. \A i \in DOMAIN line' : line'[i] \in Messages /\ line'[i] # m
        <3> SUFFICES ASSUME NEW i \in DOMAIN line'
                     PROVE  line'[i] \in Messages /\ line'[i] # m
            OBVIOUS
        <3>1. i + 1 # 1
            BY <1>1
        <3>2. line[i + 1] # line[1]
            BY <1>1, <3>1 DEF BusIInv, BusChannelHoldsSent
        <3> QED  BY <1>1, <3>2, Members
    <2>2. \A i \in DOMAIN line' : stage'[line'[i]] = "sent"
        BY <1>1, <1>2, <2>1 DEF BusIInv, BusChannelHoldsSent
    <2>3. \A i, k \in DOMAIN line' : line'[i] = line'[k] => i = k
        <3> SUFFICES ASSUME NEW i \in DOMAIN line', NEW k \in DOMAIN line',
                            line'[i] = line'[k]
                     PROVE  i = k
            OBVIOUS
        <3>1. i + 1 = k + 1
            BY <1>1 DEF BusIInv, BusChannelHoldsSent
        <3> QED  BY <1>1, <3>1
    <2> QED  BY <2>2, <2>3 DEF BusChannelHoldsSent
<1>6. BusPermitsFollowPhases'
    BY <1>1, <1>2, Members DEF BusIInv, BusPermitsFollowPhases, Bus!Waits
<1>7. RegisteredFirst'
    BY <1>1, <1>2 DEF BusIInv, RegisteredFirst
<1>8. \A k \in Messages : Progress(k)'
    <2>1. Progress(m)'
        BY <1>1, <1>2 DEF BusIInv, Progress, NotStarted
    <2> QED  BY <1>2, <2>1, OtherProgress DEF BusIInv
<1> QED  BY <1>3, <1>4, <1>5, <1>6, <1>7, <1>8 DEF BusIInv

(* A spawned task asks for a permit: it has none and is not in the line yet.           *)
LEMMA BusAskPermitIInv ==
    ASSUME Bus!BusAssumption, BusIInv, NEW m \in Messages, Bus!AskPermit(m)
    PROVE  BusIInv'
<1>1. /\ stage[m] = "spawned" /\ m \in Async
      /\ \A k \in Messages : stage'[k] = IF k = m THEN "acquiring" ELSE stage[k]
      /\ permits' = Bus!Acquire(permits, m)
      /\ UNCHANGED <<handlers, open, line, worker, list, pos, try, known, log>>
    BY DEF Bus!AskPermit, Bus!To, Bus!task, BusIInv, Typing, Bus!TypeOK, TwoTransports
<1>2. /\ Bus!Sound(permits', Permits, Async)
      /\ \A u : u # m => /\ u \in permits'.held <=> u \in permits.held
                         /\ Bus!Waits(permits', u) <=> Bus!Waits(permits, u)
    <2>1. m \notin permits.held /\ ~Bus!Waits(permits, m)
        BY <1>1 DEF BusIInv, BusPermitsFollowPhases
    <2>2. Permits \in Nat
        BY DEF Permits, Bus!BusAssumption
    <2> QED  BY <1>1, <2>1, <2>2, Bus!AcquireIsSound DEF BusIInv
<1>3. Typing'
    BY <1>1, <1>2
       DEF Bus!AskPermit, Bus!To, BusIInv, Typing, Bus!TypeOK, Bus!Phase, Bus!Sound, Bus!Typed
<1>4. TwoTransports' /\ Bus!Sound(permits, Permits, Async)'
    BY <1>1, <1>2 DEF BusIInv, TwoTransports, Permits
<1>5. BusChannelHoldsSent'
    BY <1>1, Members DEF BusIInv, BusChannelHoldsSent
<1>6. BusPermitsFollowPhases'
    <2>1. \A k \in permits'.held : k \in Messages /\ (k \in permits.held \/ k = m)
        <3>1. permits'.held \subseteq Async /\ \A k \in Async : k \in Messages
            BY <1>2, Members DEF Bus!Sound, Bus!Typed
        <3> QED  BY <1>2, <3>1
    <2>2. \A k \in permits'.held : stage'[k] \in {"acquiring", "running", "backoff"}
        BY <1>1, <2>1 DEF BusIInv, BusPermitsFollowPhases
    <2>3. \A k \in Async : Bus!Waits(permits, k)' => stage'[k] = "acquiring"
        BY <1>1, <1>2, Members DEF BusIInv, BusPermitsFollowPhases
    <2>4. \A k \in Async : stage'[k] \in {"running", "backoff"} => k \in permits'.held
        BY <1>1, <1>2, Members DEF BusIInv, BusPermitsFollowPhases
    <2> QED  BY <2>2, <2>3, <2>4 DEF BusPermitsFollowPhases
<1>7. RegisteredFirst'
    BY <1>1 DEF BusIInv, RegisteredFirst
<1>8. \A k \in Messages : Progress(k)'
    <2>1. /\ stage[m] = "spawned" /\ stage'[m] = "acquiring"
          /\ \A k \in Messages : k # m => stage'[k] = stage[k]
          /\ UNCHANGED <<list, pos, try, log>>
        BY <1>1
    <2>2. Progress(m)'
        BY <2>1 DEF BusIInv, Progress, NotStarted
    <2> QED  BY <2>1, <2>2, OtherProgress DEF BusIInv
<1> QED  BY <1>3, <1>4, <1>5, <1>6, <1>7, <1>8 DEF BusIInv

(* A message that may call handlers goes on, or ends: a background message then gives  *)
(* its permit back, whatever the end is.                                               *)
LEMMA MovesIInv ==
    ASSUME Bus!BusAssumption, BusIInv,
           NEW m \in Messages, NEW p \in {"running", "backoff"} \union Bus!Ended,
           stage[m] \in {"called", "acquiring", "running", "backoff"},
           m \in Async => m \in permits.held,
           m \in Async => p \notin {"error", "cancelled"},
           m \notin Async => p # "backoff",
           Bus!To(m, p),
           permits' = IF m \in Async /\ p \in Bus!Ended THEN Bus!Release(permits, m) ELSE permits,
           UNCHANGED <<handlers, open, line, worker, known>>,
           list' \in [Messages -> Seq(Handlers)],
           pos' \in [Messages -> Nat], try' \in [Messages -> Nat],
           log' \in [Messages -> Seq(Calls)],
           pos'[m] \in 1 .. Len(list'[m]) + 1, try'[m] \in 0 .. BusRetries,
           p \in {"running", "backoff", "done", "error"} => Begins(known[m], list'[m]),
           Progress(m)',
           \A k \in Messages \ {m} : /\ list'[k] = list[k] /\ pos'[k] = pos[k]
                                     /\ try'[k] = try[k] /\ log'[k] = log[k]
    PROVE  BusIInv'
<1>1. /\ \A k \in Messages : stage'[k] = IF k = m THEN p ELSE stage[k]
      /\ stage' \in [Messages -> Bus!Phase]
    BY DEF Bus!To, BusIInv, Typing, Bus!TypeOK, Bus!Phase, Bus!Ended
<1>2. ~Bus!Waits(permits, m)
    BY DEF BusIInv, Bus!Sound, Bus!OnceEach, Bus!Waits, BusPermitsFollowPhases, TwoTransports,
           Typing, Bus!TypeOK, Bus!Typed
<1>3. /\ Bus!Sound(permits', Permits, Async)
      /\ m \in Async /\ p \in Bus!Ended => m \notin permits'.held
      /\ m \in Async /\ p \notin Bus!Ended => m \in permits'.held
      /\ \A u : u # m => /\ u \in permits.held => u \in permits'.held
                         /\ u \in permits'.held => u \in permits.held \/ Bus!Waits(permits, u)
                         /\ Bus!Waits(permits', u) => Bus!Waits(permits, u)
      /\ ~Bus!Waits(permits', m)
    <2>1. Permits \in Nat
        BY DEF Permits, Bus!BusAssumption
    <2>2. CASE m \in Async /\ p \in Bus!Ended
        BY <2>1, <2>2, Bus!ReleaseIsSound DEF BusIInv
    <2>3. CASE ~(m \in Async /\ p \in Bus!Ended)
        BY <2>3, <1>2 DEF BusIInv
    <2> QED  BY <2>2, <2>3
<1>4. Typing'
    <2>1. permits' \in [free : Nat, held : SUBSET Async, line : Seq(Async)]
        BY <1>3 DEF Bus!Sound, Bus!Typed
    <2>2. \A k \in Messages : pos'[k] \in 1 .. Len(list'[k]) + 1 /\ try'[k] \in 0 .. BusRetries
        BY DEF BusIInv, Typing, Bus!TypeOK
    <2>3. log' \in [Messages -> Seq([handler : Handlers, result : {"ok", "err"}])]
        BY DEF Calls
    <2> QED  BY <1>1, <2>1, <2>2, <2>3 DEF BusIInv, Typing, Bus!TypeOK
<1>5. TwoTransports'
    BY <1>1 DEF BusIInv, TwoTransports, Bus!Ended
<1>6. BusChannelHoldsSent'
    <2>1. \A i \in DOMAIN line : line[i] # m
        BY DEF BusIInv, BusChannelHoldsSent
    <2> QED  BY <1>1, <2>1, Members DEF BusIInv, BusChannelHoldsSent
<1>7. BusPermitsFollowPhases'
    <2>1. \A k \in permits'.held : k \in Async /\ k \in Messages
        <3>1. permits'.held \subseteq Async
            BY <1>3 DEF Bus!Sound, Bus!Typed
        <3> QED  BY <3>1, Members
    <2>2. \A k \in Async : Bus!Waits(permits, k)' => Bus!Waits(permits', k)
        BY DEF Bus!Waits
    <2>3. \A k \in Async : Bus!Waits(permits', k) => stage'[k] = "acquiring"
        BY <1>1, <1>3, Members DEF BusIInv, BusPermitsFollowPhases
    <2>4. \A k \in permits'.held : stage'[k] \in {"acquiring", "running", "backoff"}
        BY <1>1, <1>3, <2>1 DEF BusIInv, BusPermitsFollowPhases, Bus!Ended
    <2>5. \A k \in Async : stage'[k] \in {"running", "backoff"} => k \in permits'.held
        BY <1>1, <1>3, Members DEF BusIInv, BusPermitsFollowPhases, Bus!Ended
    <2> QED  BY <2>2, <2>3, <2>4, <2>5 DEF BusPermitsFollowPhases
<1>8. RegisteredFirst'
    <2>1. ASSUME NEW k \in Messages \ {m}
          PROVE  /\ stage'[k] = stage[k] /\ known'[k] = known[k] /\ list'[k] = list[k]
                 /\ handlers' = handlers
        BY <1>1
    <2>2. /\ stage'[m] \notin {"called", "offered", "sent", "spawned", "acquiring"}
          /\ stage'[m] \in {"running", "backoff", "done", "error"} => Begins(known'[m], list'[m])
        BY <1>1 DEF Bus!Ended
    <2> QED  BY <2>1, <2>2 DEF BusIInv, RegisteredFirst
<1>9. \A k \in Messages : Progress(k)'
    BY <1>1, OtherProgress DEF BusIInv
<1> QED  BY <1>3, <1>4, <1>5, <1>6, <1>7, <1>8, <1>9 DEF BusIInv

-----------------------------------------------------------------------------------

(* The typing of what belongs to one message.                                          *)
LEMMA TypesOf ==
    ASSUME BusIInv, NEW m \in Messages
    PROVE  /\ list[m] \in Seq(Handlers) /\ Len(list[m]) \in Nat
           /\ known[m] \in Seq(Handlers)
           /\ handlers[TypeOf[m]] \in Seq(Handlers) /\ Len(handlers[TypeOf[m]]) \in Nat
           /\ pos[m] \in Nat /\ pos[m] \in 1 .. Len(list[m]) + 1
           /\ try[m] \in Nat /\ try[m] \in 0 .. BusRetries
           /\ log[m] \in Seq(Calls)
<1>1. /\ list \in [Messages -> Seq(Handlers)] /\ known \in [Messages -> Seq(Handlers)]
      /\ handlers \in [Bus!Types -> Seq(Handlers)] /\ TypeOf[m] \in Bus!Types
      /\ log \in [Messages -> Seq(Calls)]
    BY DEF BusIInv, Typing, Bus!TypeOK, Bus!Types, Calls
<1>2. list[m] \in Seq(Handlers) /\ known[m] \in Seq(Handlers) /\ log[m] \in Seq(Calls)
    BY <1>1
<1>3. handlers[TypeOf[m]] \in Seq(Handlers)
    BY <1>1
<1>4. /\ pos[m] \in Nat /\ pos[m] \in 1 .. Len(list[m]) + 1
      /\ try[m] \in Nat /\ try[m] \in 0 .. BusRetries
    BY DEF BusIInv, Typing, Bus!TypeOK
<1> QED  BY <1>2, <1>3, <1>4

(* The list is read when the message may start, and nothing was called yet.            *)
LEMMA SnapshotIInv ==
    ASSUME Bus!BusAssumption, BusIInv, NEW m \in Messages, Bus!Snapshot(m)
    PROVE  BusIInv'
<1> DEFINE l == handlers[TypeOf[m]]
<1> DEFINE p == IF l = <<>> THEN "done" ELSE "running"
<1>1. /\ l \in Seq(Handlers) /\ Len(l) \in Nat
      /\ pos[m] = 1 /\ try[m] = 0 /\ log[m] = <<>>
      /\ m \in Async => m \in permits.held
      /\ stage[m] \in {"called", "acquiring"}
      /\ Begins(known[m], l)
    <2>1. l \in Seq(Handlers) /\ Len(l) \in Nat
        BY TypesOf
    <2>2. stage[m] \in {"called", "acquiring"} /\ (m \in Async => m \in permits.held)
        BY DEF Bus!Snapshot, Bus!Ready
    <2>3. pos[m] = 1 /\ try[m] = 0 /\ log[m] = <<>>
        BY <2>2 DEF BusIInv, Progress, NotStarted
    <2>4. Begins(known[m], l)
        BY <2>2 DEF BusIInv, RegisteredFirst
    <2> QED  BY <2>1, <2>2, <2>3, <2>4
<1>2. /\ list' = [list EXCEPT ![m] = l]
      /\ Bus!To(m, p)
      /\ permits' = IF m \in Async /\ p \in Bus!Ended THEN Bus!Release(permits, m) ELSE permits
      /\ UNCHANGED <<handlers, open, line, worker, pos, try, known, log>>
    BY DEF Bus!Snapshot, Bus!Finish, Bus!Ended
<1>3. /\ list' \in [Messages -> Seq(Handlers)] /\ list'[m] = l
      /\ \A k \in Messages \ {m} : list'[k] = list[k]
    BY <1>1, <1>2 DEF BusIInv, Typing, Bus!TypeOK
<1>4. stage'[m] = p /\ (p = "done" => Len(l) = 0) /\ (p = "running" => Len(l) >= 1)
    BY <1>1, <1>2, EmptySeq DEF Bus!To, BusIInv, Typing, Bus!TypeOK
<1>5. Progress(m)'
    <2>1. Halfway(l, 1, 0, <<>>) /\ AllOk(l, 0, <<>>)
        BY HalfwayStarts DEF AllOk
    <2>2. pos'[m] = 1 /\ try'[m] = 0 /\ log'[m] = <<>> /\ list'[m] = l
        BY <1>1, <1>2, <1>3
    <2>3. p \in {"done", "running"}
        OBVIOUS
    <2> HIDE DEF l, p
    <2> QED  BY <1>1, <1>4, <2>1, <2>2, <2>3 DEF Progress, NotStarted
<1>6. /\ pos \in [Messages -> Nat] /\ try \in [Messages -> Nat]
      /\ log \in [Messages -> Seq(Calls)]
    BY DEF BusIInv, Typing, Bus!TypeOK, Calls
<1>7. pos'[m] \in 1 .. Len(list'[m]) + 1 /\ try'[m] \in 0 .. BusRetries
    BY <1>1, <1>2, <1>3 DEF Bus!BusAssumption
<1>8. p \in {"running", "backoff"} \union Bus!Ended /\ p \notin {"error", "cancelled", "backoff"}
    BY DEF Bus!Ended
<1> HIDE DEF l, p
<1> QED  BY <1>1, <1>2, <1>3, <1>5, <1>6, <1>7, <1>8, MovesIInv

(* The log with one more call of the handler whose turn it is.                         *)
LEMMA CalledIs ==
    ASSUME Bus!BusAssumption, BusIInv, NEW m \in Messages, stage[m] = "running",
           NEW r \in {"ok", "err"}, Bus!Called(m, r)
    PROVE  /\ log' \in [Messages -> Seq(Calls)]
           /\ log'[m] = Append(log[m], [handler |-> list[m][pos[m]], result |-> r])
           /\ \A k \in Messages \ {m} : log'[k] = log[k]
           /\ log[m] \in Seq(Calls)
           /\ pos[m] \in 1 .. Len(list[m]) /\ pos[m] \in Nat \ {0}
           /\ list[m] \in Seq(Handlers) /\ Len(list[m]) \in Nat
           /\ try[m] \in 0 .. BusRetries
           /\ Begins(known[m], list[m])
<1>1. /\ list[m] \in Seq(Handlers) /\ Len(list[m]) \in Nat
      /\ pos[m] \in 1 .. Len(list[m]) /\ pos[m] \in Nat \ {0}
      /\ try[m] \in 0 .. BusRetries
      /\ Begins(known[m], list[m])
    <2>1. pos[m] <= Len(list[m])
        BY DEF BusIInv, Progress
    <2>2. Begins(known[m], list[m])
        BY DEF BusIInv, RegisteredFirst
    <2> QED  BY <2>1, <2>2, TypesOf
<1>2. log \in [Messages -> Seq(Calls)]
    BY DEF BusIInv, Typing, Bus!TypeOK, Calls
<1>3. [handler |-> list[m][pos[m]], result |-> r] \in Calls
    BY <1>1 DEF Calls
<1> DEFINE call == [handler |-> list[m][pos[m]], result |-> r]
<1>4. log' = [log EXCEPT ![m] = Append(@, call)]
    BY DEF Bus!Called
<1> HIDE DEF call
<1>5. call \in Calls
    BY <1>3 DEF call
<1>6. Append(log[m], call) \in Seq(Calls) /\ log[m] \in Seq(Calls)
    BY <1>2, <1>5
<1>7. /\ log' \in [Messages -> Seq(Calls)] /\ log'[m] = Append(log[m], call)
      /\ \A k \in Messages \ {m} : log'[k] = log[k]
    BY <1>2, <1>4, <1>6
<1> QED  BY <1>1, <1>6, <1>7 DEF call

(* The next handler has its turn, or the message is done.                              *)
LEMMA NextHandlerIInv ==
    ASSUME Bus!BusAssumption, BusIInv, NEW m \in Messages, stage[m] = "running",
           NEW r \in {"ok", "err"}, Bus!Called(m, r), Bus!NextHandler(m),
           r = "err" => m \in Async /\ try[m] = BusRetries,
           UNCHANGED <<handlers, open, line, worker, list, known>>
    PROVE  BusIInv'
<1> DEFINE p == IF pos[m] = Len(list[m]) THEN "done" ELSE "running"
<1> DEFINE made == Append(log[m], [handler |-> list[m][pos[m]], result |-> r])
<1>1. /\ Bus!To(m, p)
      /\ permits' = IF m \in Async /\ p \in Bus!Ended THEN Bus!Release(permits, m) ELSE permits
      /\ pos' = [pos EXCEPT ![m] = @ + 1] /\ try' = [try EXCEPT ![m] = 0]
    BY DEF Bus!NextHandler, Bus!Finish, Bus!Ended
<1>2. /\ pos' \in [Messages -> Nat] /\ try' \in [Messages -> Nat]
      /\ pos'[m] = pos[m] + 1 /\ try'[m] = 0
      /\ \A k \in Messages \ {m} : pos'[k] = pos[k] /\ try'[k] = try[k]
    BY <1>1 DEF BusIInv, Typing, Bus!TypeOK
<1>3. stage'[m] = p /\ p \in {"done", "running"}
    BY <1>1 DEF Bus!To, BusIInv, Typing, Bus!TypeOK
<1>4. m \in Async => Halfway(list[m], pos[m] + 1, 0, made)
    <2> SUFFICES ASSUME m \in Async PROVE Halfway(list[m], pos[m] + 1, 0, made)
        OBVIOUS
    <2>1. Halfway(list[m], pos[m], try[m], log[m])
        BY DEF BusIInv, Progress
    <2>2. r = "err" => try[m] = BusRetries
        OBVIOUS
    <2>3. BusRetries \in Nat
        BY DEF Bus!BusAssumption
    <2>4. made = Append(log[m], [handler |-> list[m][pos[m]], result |-> r])
        OBVIOUS
    <2> HIDE DEF made
    <2> QED  BY <2>1, <2>2, <2>3, <2>4, CalledIs, HalfwayNext
<1>5. m \notin Async => AllOk(list[m], pos[m], made)
    <2> SUFFICES ASSUME m \notin Async PROVE AllOk(list[m], pos[m], made)
        OBVIOUS
    <2>1. AllOk(list[m], pos[m] - 1, log[m]) /\ r = "ok"
        BY DEF BusIInv, Progress
    <2>3. pos[m] \in Nat \ {0}
        BY CalledIs
    <2>4. /\ Len(log[m]) = pos[m] - 1 /\ Len(log[m]) + 1 = pos[m]
          /\ \A i \in 1 .. pos[m] - 1 : log[m][i] = [handler |-> list[m][i], result |-> "ok"]
        <3>1. Len(log[m]) = pos[m] - 1
            BY <2>1 DEF AllOk
        <3>2. Len(log[m]) + 1 = pos[m]
            BY <2>3, <3>1
        <3> QED  BY <2>1, <3>1, <3>2 DEF AllOk
    <2>2. /\ Len(made) = Len(log[m]) + 1
          /\ \A i \in 1 .. Len(log[m]) : made[i] = log[m][i]
          /\ made[Len(log[m]) + 1] = [handler |-> list[m][pos[m]], result |-> r]
        BY CalledIs
    <2> HIDE DEF made
    <2>5. Len(made) = pos[m] /\ made[pos[m]] = [handler |-> list[m][pos[m]], result |-> "ok"]
        BY <2>1, <2>2, <2>4
    <2>6. \A i \in 1 .. pos[m] - 1 : made[i] = [handler |-> list[m][i], result |-> "ok"]
        BY <2>2, <2>4
    <2>7. \A i \in 1 .. pos[m] : i \in 1 .. pos[m] - 1 \/ i = pos[m]
        BY <2>3
    <2> QED  BY <2>5, <2>6, <2>7 DEF AllOk
<1>6. Progress(m)'
    <2>1. list'[m] = list[m] /\ log'[m] = made
        BY CalledIs
    <2>2. pos[m] \in 1 .. Len(list[m]) /\ Len(list[m]) \in Nat
        BY CalledIs
    <2>3. /\ p = "done" => pos[m] + 1 = Len(list[m]) + 1
          /\ p = "running" => pos[m] + 1 <= Len(list[m])
          /\ (pos[m] + 1) - 1 = pos[m]
        BY <2>2
    <2> HIDE DEF p, made
    <2> QED  BY <1>2, <1>3, <1>4, <1>5, <2>1, <2>3 DEF Progress, NotStarted
<1>7. m \in Async => m \in permits.held
    BY DEF BusIInv, BusPermitsFollowPhases
<1>8. pos'[m] \in 1 .. Len(list'[m]) + 1 /\ try'[m] \in 0 .. BusRetries
    <2>1. pos[m] \in 1 .. Len(list[m]) /\ Len(list[m]) \in Nat
        BY CalledIs
    <2>2. BusRetries \in Nat
        BY DEF Bus!BusAssumption
    <2> QED  BY <1>2, <2>1, <2>2
<1>9. list' \in [Messages -> Seq(Handlers)] /\ \A k \in Messages : list'[k] = list[k]
    BY DEF BusIInv, Typing, Bus!TypeOK
<1>10. p \in {"running", "backoff"} \union Bus!Ended /\ p \notin {"error", "cancelled", "backoff"}
    BY DEF Bus!Ended
<1>11. Begins(known[m], list'[m])
    BY CalledIs
<1> HIDE DEF p
<1> QED  BY <1>1, <1>2, <1>6, <1>7, <1>8, <1>9, <1>10, <1>11, CalledIs, MovesIInv

(* An error with attempts left sleeps; the last one ends the turn, or the dispatch.    *)
LEMMA CallErrIInv ==
    ASSUME Bus!BusAssumption, BusIInv, NEW m \in Messages, Bus!CallErr(m)
    PROVE  BusIInv'
<1>1. /\ stage[m] = "running" /\ Bus!Called(m, "err")
      /\ UNCHANGED <<handlers, open, line, worker, list, known>>
    BY DEF Bus!CallErr
<1>2. /\ list' \in [Messages -> Seq(Handlers)] /\ \A k \in Messages : list'[k] = list[k]
      /\ m \in Async => m \in permits.held
    BY <1>1 DEF BusIInv, Typing, Bus!TypeOK, BusPermitsFollowPhases
<1> DEFINE call == [handler |-> list[m][pos[m]], result |-> "err"]
<1>6. /\ log' \in [Messages -> Seq(Calls)] /\ log'[m] = Append(log[m], call)
      /\ \A k \in Messages \ {m} : log'[k] = log[k]
      /\ log[m] \in Seq(Calls)
      /\ pos[m] \in 1 .. Len(list[m]) /\ pos[m] \in Nat \ {0}
      /\ list[m] \in Seq(Handlers) /\ Len(list[m]) \in Nat
      /\ try[m] \in 0 .. BusRetries
      /\ Begins(known[m], list'[m])
    BY <1>1, <1>2, CalledIs
<1> HIDE DEF call
<1>3. CASE m \in Async /\ try[m] = BusRetries /\ Bus!NextHandler(m)
    BY <1>1, <1>3, NextHandlerIInv
<1>4. CASE /\ m \in Async /\ try[m] < BusRetries
           /\ Bus!To(m, "backoff") /\ UNCHANGED <<permits, pos, try>>
    <2>1. stage'[m] = "backoff"
        BY <1>4 DEF Bus!To, BusIInv, Typing, Bus!TypeOK
    <2>2. Halfway(list[m], pos[m], try[m], log[m])
        BY <1>1, <1>4 DEF BusIInv, Progress
    <2>3. Halfway(list[m], pos[m], try[m] + 1, log'[m])
        <3>1. try[m] \in Nat
            BY TypesOf
        <3> QED  BY <1>6, <2>2, <3>1, HalfwayErr DEF call
    <2>4. Progress(m)'
        <3>1. pos[m] <= Len(list[m]) /\ list'[m] = list[m]
            BY <1>2, <1>6
        <3> QED  BY <1>4, <2>1, <2>3, <3>1 DEF Progress, NotStarted
    <2>5. "backoff" \notin Bus!Ended
        BY DEF Bus!Ended
    <2>6. /\ pos' \in [Messages -> Nat] /\ try' \in [Messages -> Nat]
          /\ pos'[m] \in 1 .. Len(list'[m]) + 1 /\ try'[m] \in 0 .. BusRetries
        BY <1>2, <1>4 DEF BusIInv, Typing, Bus!TypeOK
    <2> QED  BY <1>1, <1>2, <1>4, <1>6, <2>4, <2>5, <2>6, MovesIInv
<1>5. CASE m \notin Async /\ Bus!To(m, "error") /\ UNCHANGED <<permits, pos, try>>
    <2>1. stage'[m] = "error"
        BY <1>5 DEF Bus!To, BusIInv, Typing, Bus!TypeOK
    <2> DEFINE made == Append(log[m], call)
    <2>2. /\ Len(log[m]) = pos[m] - 1
          /\ \A i \in 1 .. pos[m] - 1 : log[m][i] = [handler |-> list[m][i], result |-> "ok"]
        BY <1>1, <1>5 DEF BusIInv, Progress, AllOk
    <2>3. log[m] \in Seq(Calls) /\ pos[m] \in Nat \ {0} /\ pos[m] <= Len(list[m])
        BY <1>6
    <2>4. /\ Len(made) = Len(log[m]) + 1
          /\ \A i \in 1 .. Len(log[m]) : made[i] = log[m][i]
          /\ made[Len(log[m]) + 1] = [handler |-> list[m][pos[m]], result |-> "err"]
        BY <2>3 DEF call
    <2>5. /\ Len(made) = pos[m]
          /\ \A i \in 1 .. pos[m] - 1 : made[i] = [handler |-> list[m][i], result |-> "ok"]
          /\ made[pos[m]] = [handler |-> list[m][pos[m]], result |-> "err"]
        <3> HIDE DEF made
        <3>1. Len(log[m]) + 1 = pos[m]
            BY <2>2, <2>3
        <3> QED  BY <2>2, <2>4, <3>1
    <2>6. log'[m] = made /\ list'[m] = list[m] /\ pos'[m] = pos[m]
        BY <1>2, <1>5, <1>6
    <2>7. Progress(m)'
        <3> HIDE DEF made
        <3> QED  BY <1>5, <2>1, <2>3, <2>5, <2>6 DEF Progress, NotStarted
    <2>8. "error" \in Bus!Ended /\ "error" # "backoff"
        BY DEF Bus!Ended
    <2>9. /\ pos' \in [Messages -> Nat] /\ try' \in [Messages -> Nat]
          /\ pos'[m] \in 1 .. Len(list'[m]) + 1 /\ try'[m] \in 0 .. BusRetries
        BY <1>2, <1>5 DEF BusIInv, Typing, Bus!TypeOK
    <2> QED  BY <1>1, <1>2, <1>5, <1>6, <2>7, <2>8, <2>9, MovesIInv
<1> QED  BY <1>3, <1>4, <1>5 DEF Bus!CallErr

(* What does not touch the log of a message: a retry after the sleep, a panic, and a   *)
(* caller that is gone.                                                                *)
LEMMA QuietIInv ==
    ASSUME Bus!BusAssumption, BusIInv,
           NEW m \in Messages, Bus!Retry(m) \/ Bus!CallPanics(m) \/ Bus!CallerGone(m)
    PROVE  BusIInv'
<1>1. UNCHANGED <<handlers, open, line, worker, list, pos, known, log>>
    BY DEF Bus!Retry, Bus!CallPanics, Bus!CallerGone, Bus!task
<1>2. /\ list' \in [Messages -> Seq(Handlers)] /\ pos' \in [Messages -> Nat]
      /\ log' \in [Messages -> Seq(Calls)]
      /\ try \in [Messages -> Nat] /\ stage \in [Messages -> Bus!Phase]
    BY <1>1 DEF BusIInv, Typing, Bus!TypeOK, Calls
<1>3. CASE Bus!Retry(m)
    <2>1. /\ stage[m] = "backoff" /\ Bus!To(m, "running") /\ stage'[m] = "running"
          /\ try' = [try EXCEPT ![m] = @ + 1] /\ permits' = permits
        BY <1>2, <1>3 DEF Bus!Retry, Bus!To
    <2>2. /\ m \in Async /\ m \in permits.held
        BY <2>1 DEF BusIInv, TwoTransports, BusPermitsFollowPhases
    <2>3. /\ try[m] < BusRetries /\ pos[m] <= Len(list[m])
          /\ Halfway(list[m], pos[m], try[m] + 1, log[m])
        BY <2>1, <2>2 DEF BusIInv, Progress
    <2>4. /\ try' \in [Messages -> Nat] /\ try'[m] = try[m] + 1
          /\ \A k \in Messages \ {m} : try'[k] = try[k]
        BY <1>2, <2>1
    <2>5. pos'[m] \in 1 .. Len(list'[m]) + 1 /\ try'[m] \in 0 .. BusRetries
        BY <1>1, <2>3, <2>4, TypesOf DEF Bus!BusAssumption
    <2>6. Progress(m)'
        BY <1>1, <2>1, <2>2, <2>3, <2>4 DEF Progress, NotStarted
    <2>7. Begins(known[m], list'[m])
        BY <1>1, <2>1 DEF BusIInv, RegisteredFirst
    <2>8. "running" \notin Bus!Ended
        BY DEF Bus!Ended
    <2> QED  BY <1>1, <1>2, <2>1, <2>2, <2>4, <2>5, <2>6, <2>7, <2>8, MovesIInv
<1>4. ASSUME NEW p \in {"panicked", "cancelled"},
             stage[m] \in {"called", "running"}, Bus!To(m, p), UNCHANGED try,
             stage[m] = "called" => m \notin Async, p = "cancelled" => m \notin Async,
             permits' = IF m \in Async THEN Bus!Release(permits, m) ELSE permits
      PROVE  BusIInv'
    <2>1. stage'[m] = p
        BY <1>2, <1>4 DEF Bus!To
    <2>2. Progress(m)'
        BY <2>1 DEF Progress, NotStarted
    <2>3. m \in Async => m \in permits.held
        BY <1>4 DEF BusIInv, BusPermitsFollowPhases
    <2>4. pos'[m] \in 1 .. Len(list'[m]) + 1 /\ try'[m] \in 0 .. BusRetries
        BY <1>1, <1>4, TypesOf
    <2>5. p \in Bus!Ended /\ p \notin {"running", "backoff", "done", "error"}
        BY DEF Bus!Ended
    <2>6. try' \in [Messages -> Nat]
        BY <1>2, <1>4
    <2> QED  BY <1>1, <1>2, <1>4, <2>2, <2>3, <2>4, <2>5, <2>6, MovesIInv
<1>5. CASE Bus!CallPanics(m)
    BY <1>1, <1>4, <1>5 DEF Bus!CallPanics, Bus!Finish, Bus!task
<1>6. CASE Bus!CallerGone(m)
    BY <1>1, <1>4, <1>6 DEF Bus!CallerGone, Bus!task
<1> QED  BY <1>3, <1>5, <1>6

-----------------------------------------------------------------------------------

(* Every step keeps the invariant; the end of the bus or of its worker touches no      *)
(* message.                                                                            *)
LEMMA BusNextIInv ==
    ASSUME Bus!BusAssumption, BusIInv, [Bus!Next]_busVars
    PROVE  BusIInv'
<1>1. ASSUME NEW m \in Messages, Bus!Task(m) PROVE BusIInv'
    <2>1. CASE Bus!CallOk(m)
        BY <2>1, NextHandlerIInv DEF Bus!CallOk
    <2>2. CASE Bus!Retry(m) \/ Bus!CallPanics(m)
        BY <2>2, QuietIInv
    <2> QED  BY <1>1, <2>1, <2>2, BusAskPermitIInv, SnapshotIInv, CallErrIInv DEF Bus!Task
<1>2. CASE Bus!WorkerEnds \/ Bus!DropBus \/ UNCHANGED busVars
    <2>1. /\ UNCHANGED <<handlers, line, permits, stage, list, pos, try, known, log>>
          /\ open' \in BOOLEAN /\ worker' \in {"running", "ended"}
        BY <1>2 DEF Bus!WorkerEnds, Bus!DropBus, busVars, Bus!task, BusIInv, Typing, Bus!TypeOK
    <2>2. Typing'
        BY <2>1 DEF BusIInv, Typing, Bus!TypeOK
    <2>3. /\ TwoTransports' /\ Bus!Sound(permits, Permits, Async)' /\ BusChannelHoldsSent'
          /\ RegisteredFirst'
        BY <2>1 DEF BusIInv, TwoTransports, BusChannelHoldsSent, RegisteredFirst, Permits
    <2>4. BusPermitsFollowPhases'
        BY <2>1 DEF BusIInv, BusPermitsFollowPhases, Bus!Waits
    <2>5. \A m \in Messages : Progress(m)'
        BY <2>1, OtherProgress DEF BusIInv
    <2> QED  BY <2>2, <2>3, <2>4, <2>5 DEF BusIInv
<1>3. ASSUME NEW m \in Messages, Bus!Call(m) \/ Bus!Send(m) \/ Bus!Task(m) \/ Bus!CallerGone(m)
      PROVE  BusIInv'
    BY <1>1, <1>3, CallIInv, SendIInv, QuietIInv
<1> QED  BY <1>2, <1>3, HandleIInv, BusReceiveIInv DEF Bus!Next

(* Type correctness of the bus of message/mod.rs.                                      *)
THEOREM BusTypeCorrect == Bus!Spec => []Bus!TypeOK
<1>1. Bus!Init => BusIInv
    BY InstanceAssumptions, BusInitIInv
<1>2. BusIInv /\ [Bus!Next]_(Bus!vars) => BusIInv'
    BY InstanceAssumptions, BusNextIInv DEF busVars, Bus!vars
<1>3. BusIInv => Bus!TypeOK
    BY DEF BusIInv, Typing
<1> QED  BY <1>1, <1>2, <1>3, PTL DEF Bus!Spec

(* The permits the invariant counts are those of WorkersBounded.                       *)
LEMMA PermitsAreSafe == BusIInv => Bus!WorkersBounded
BY DEF BusIInv, BusPermitsFollowPhases, Bus!WorkersBounded, Bus!Sound, Bus!Balanced, Permits

(* As many background messages are handled at a time as there are workers, one when    *)
(* none is asked for, and no error, panic or missing handler loses a permit.           *)
THEOREM WorkersAreBounded == Bus!Spec => []Bus!WorkersBounded
<1>1. Bus!Init => BusIInv
    BY InstanceAssumptions, BusInitIInv
<1>2. BusIInv /\ [Bus!Next]_(Bus!vars) => BusIInv'
    BY InstanceAssumptions, BusNextIInv DEF busVars, Bus!vars
<1> QED  BY <1>1, <1>2, PermitsAreSafe, PTL DEF Bus!Spec

(* Who is in front of the list is what IsPrefix means.                                 *)
LEMMA RegisteredAreSeen == BusIInv => Bus!SeesRegisteredHandlers
<1> SUFFICES ASSUME BusIInv, NEW m \in Messages,
                    stage[m] \in {"running", "backoff", "done", "error"}
             PROVE  Bus!IsPrefix(known[m], list[m])
    BY DEF Bus!SeesRegisteredHandlers
<1>1. Begins(known[m], list[m])
    BY DEF BusIInv, RegisteredFirst
<1>2. known[m] \in Seq(Handlers) /\ list[m] \in Seq(Handlers)
    BY TypesOf
<1>3. SubSeq(known[m], 1, Len(known[m])) = SubSeq(list[m], 1, Len(known[m]))
    <2> DEFINE n == Len(known[m])
    <2>1. n \in Nat /\ n <= Len(list[m]) /\ \A i \in 1 .. n : known[m][i] = list[m][i]
        BY <1>1, <1>2 DEF Begins
    <2>2. SubSeq(known[m], 1, n) = [i \in 1 .. n |-> known[m][i]]
        BY <1>2, <2>1
    <2>3. SubSeq(list[m], 1, n) = [i \in 1 .. n |-> list[m][i]]
        BY <1>2, <2>1
    <2> QED  BY <2>1, <2>2, <2>3
<1> QED  BY <1>1, <1>3 DEF Begins, Bus!IsPrefix

(* A handler registered before a message was dispatched handles it, in its place.      *)
THEOREM RegistrationsAreSeen == Bus!Spec => []Bus!SeesRegisteredHandlers
<1>1. Bus!Init => BusIInv
    BY InstanceAssumptions, BusInitIInv
<1>2. BusIInv /\ [Bus!Next]_(Bus!vars) => BusIInv'
    BY InstanceAssumptions, BusNextIInv DEF busVars, Bus!vars
<1> QED  BY <1>1, <1>2, RegisteredAreSeen, PTL DEF Bus!Spec

(* At the end of a message the cuts reach the end of its log.                          *)
LEMMA TurnsAreTaken ==
    ASSUME Bus!BusAssumption
    PROVE  BusIInv => Bus!BackgroundReachesAll
<1> SUFFICES ASSUME BusIInv, NEW m \in Async, stage[m] = "done"
             PROVE  \E cut \in [0 .. Len(list[m]) -> 0 .. Len(log[m])] :
                        /\ cut[0] = 0 /\ cut[Len(list[m])] = Len(log[m])
                        /\ \A i \in DOMAIN list[m] :
                               Bus!Turn(log[m], list[m][i], cut[i - 1], cut[i])
    BY DEF Bus!BackgroundReachesAll
<1>1. m \in Messages
    BY Members
<1>2. Halfway(list[m], Len(list[m]) + 1, 0, log[m])
    BY <1>1 DEF BusIInv, Progress
<1>3. /\ Len(list[m]) \in Nat /\ DOMAIN list[m] = 1 .. Len(list[m])
      /\ Len(log[m]) \in Nat
    BY <1>1, TypesOf
<1> QED  BY <1>2, <1>3, HalfwayEnds

(* A background message that is done was offered to every handler of its list in turn, *)
(* each until it took it or had failed max_retries + 1 times.                          *)
THEOREM EveryHandlerHasItsTurn == Bus!Spec => []Bus!BackgroundReachesAll
<1>1. Bus!Init => BusIInv
    BY InstanceAssumptions, BusInitIInv
<1>2. BusIInv /\ [Bus!Next]_(Bus!vars) => BusIInv'
    BY InstanceAssumptions, BusNextIInv DEF busVars, Bus!vars
<1> QED  BY <1>1, <1>2, TurnsAreTaken, InstanceAssumptions, PTL DEF Bus!Spec

(* A log that is as far as the position says is the log SyncStopsAtFirstError asks for. *)
LEMMA SyncIsInOrder == BusIInv => Bus!SyncStopsAtFirstError
<1> SUFFICES ASSUME BusIInv, NEW m \in Messages \ Async
             PROVE  /\ stage[m] = "done" =>
                        log[m] = [i \in DOMAIN list[m] |->
                                     [handler |-> list[m][i], result |-> "ok"]]
                    /\ stage[m] = "error" =>
                        /\ log[m] = [i \in 1 .. Len(log[m]) |->
                                       [handler |-> list[m][i],
                                        result |-> IF i = Len(log[m]) THEN "err" ELSE "ok"]]
                        /\ Len(log[m]) \in 1 .. Len(list[m])
    BY DEF Bus!SyncStopsAtFirstError
<1>1. /\ list[m] \in Seq(Handlers) /\ DOMAIN list[m] = 1 .. Len(list[m])
      /\ log[m] \in Seq(Calls) /\ Len(log[m]) \in Nat /\ Len(list[m]) \in Nat
      /\ pos[m] \in Nat /\ pos[m] \in 1 .. Len(list[m]) + 1
    BY TypesOf
<1>2. log[m] = [i \in 1 .. Len(log[m]) |-> log[m][i]]
    BY <1>1
<1>3. CASE stage[m] = "done"
    <2>1. AllOk(list[m], Len(list[m]), log[m])
        <3>1. AllOk(list[m], pos[m] - 1, log[m]) /\ pos[m] = Len(list[m]) + 1
            BY <1>3 DEF BusIInv, Progress
        <3>2. pos[m] - 1 = Len(list[m])
            BY <1>1, <3>1
        <3> QED  BY <3>1, <3>2
    <2> QED  BY <1>1, <1>2, <1>3, <2>1 DEF AllOk
<1>4. CASE stage[m] = "error"
    <2>1. /\ Len(log[m]) = pos[m] /\ pos[m] <= Len(list[m])
          /\ \A i \in 1 .. pos[m] - 1 :
                 log[m][i] = [handler |-> list[m][i], result |-> "ok"]
          /\ log[m][pos[m]] = [handler |-> list[m][pos[m]], result |-> "err"]
        BY <1>4 DEF BusIInv, Progress
    <2>2. \A i \in 1 .. Len(log[m]) :
              log[m][i] = [handler |-> list[m][i],
                           result |-> IF i = Len(log[m]) THEN "err" ELSE "ok"]
        BY <1>1, <2>1
    <2> QED  BY <1>1, <1>2, <1>4, <2>1, <2>2
<1> QED  BY <1>3, <1>4

(* A synchronous dispatch runs the handlers once each in order, up to the first error. *)
THEOREM SyncStopsThere == Bus!Spec => []Bus!SyncStopsAtFirstError
<1>1. Bus!Init => BusIInv
    BY InstanceAssumptions, BusInitIInv
<1>2. BusIInv /\ [Bus!Next]_(Bus!vars) => BusIInv'
    BY InstanceAssumptions, BusNextIInv DEF busVars, Bus!vars
<1> QED  BY <1>1, <1>2, SyncIsInOrder, PTL DEF Bus!Spec

-----------------------------------------------------------------------------------
(* The event bus: the list an emission works through is the one the bus has, since a    *)
(* call that works is among the readers, and who registers waits until there are none.  *)

EventCalls == [by : Seq(BusTasks \union Nat), op : {"on", "emit"}, does : Events!Kinds,
               at : {"waits", "joins", "done"}, runs : Seq(Events!Kinds), ended : SUBSET Nat]

EventIInv ==
    /\ registered \in Seq(Events!Kinds)
    /\ calls \in Seq(EventCalls)
    /\ lock \in [readers : SUBSET (1 .. Len(calls)), queue : Seq(1 .. Len(calls))]
    /\ \A i \in DOMAIN calls :
           calls[i].at = "joins" => i \in lock.readers /\ calls[i].runs = registered

(* A new call waits at the end of the queue.                                            *)
LEMMA BeginKeeps ==
    ASSUME EventIInv, NEW by \in Seq(BusTasks \union Nat), NEW op \in {"on", "emit"},
           NEW does \in Events!Kinds, Events!Begin(by, op, does)
    PROVE  EventIInv'
<1> DEFINE call == Events!Call(by, op, does)
<1>1. call \in EventCalls /\ call.at = "waits"
    BY DEF Events!Call, EventCalls
<1>2. /\ calls' = Append(calls, call) /\ registered' = registered
      /\ lock' = [lock EXCEPT !.queue = Append(@, Len(calls) + 1)]
    BY DEF Events!Begin
<1> HIDE DEF call
<1>3. /\ calls' \in Seq(EventCalls) /\ Len(calls') = Len(calls) + 1 /\ Len(calls) \in Nat
      /\ \A i \in 1 .. Len(calls) : calls'[i] = calls[i]
      /\ calls'[Len(calls) + 1] = call /\ DOMAIN calls' = 1 .. Len(calls) + 1
      /\ DOMAIN calls = 1 .. Len(calls)
    BY <1>1, <1>2 DEF EventIInv
<1>4. /\ lock'.readers = lock.readers
      /\ lock' \in [readers : SUBSET (1 .. Len(calls')), queue : Seq(1 .. Len(calls'))]
    <2>1. /\ lock.readers \subseteq 1 .. Len(calls) + 1
          /\ Append(lock.queue, Len(calls) + 1) \in Seq(1 .. Len(calls) + 1)
        <3>1. lock.queue \in Seq(1 .. Len(calls))
            BY DEF EventIInv
        <3>2. lock.queue \in Seq(1 .. Len(calls) + 1)
            BY <1>3, <3>1, SeqMonotonic
        <3> QED  BY <1>3, <3>2 DEF EventIInv
    <2>2. lock' = [readers |-> lock.readers, queue |-> Append(lock.queue, Len(calls) + 1)]
        BY <1>2 DEF EventIInv
    <2> QED  BY <1>3, <2>1, <2>2
<1>5. \A i \in DOMAIN calls' :
          calls'[i].at = "joins" => i \in lock'.readers /\ calls'[i].runs = registered'
    BY <1>1, <1>2, <1>3, <1>4 DEF EventIInv
<1> QED  BY <1>2, <1>3, <1>4, <1>5 DEF EventIInv

(* One call goes a step on, and the others stay as they are.                            *)
LEMMA OneCallMoves ==
    ASSUME EventIInv, NEW i \in DOMAIN calls, NEW c \in EventCalls,
           calls' = [calls EXCEPT ![i] = c], registered' \in Seq(Events!Kinds),
           lock'.readers \subseteq 1 .. Len(calls),
           lock' \in [readers : SUBSET (1 .. Len(calls)), queue : Seq(1 .. Len(calls))],
           c.at = "joins" => i \in lock'.readers /\ c.runs = registered',
           \A k \in DOMAIN calls \ {i} :
               calls[k].at = "joins" => k \in lock'.readers /\ calls[k].runs = registered'
    PROVE  EventIInv'
<1>1. calls \in Seq(EventCalls)
    BY DEF EventIInv
<1>2. /\ calls' \in Seq(EventCalls) /\ Len(calls') = Len(calls)
      /\ DOMAIN calls' = DOMAIN calls
      /\ \A k \in DOMAIN calls : calls'[k] = IF k = i THEN c ELSE calls[k]
    BY <1>1
<1> QED  BY <1>2 DEF EventIInv

(* Every step of the event bus keeps its invariant.                                     *)
LEMMA EventStepKeeps ==
    ASSUME EventIInv, [Events!Next]_eventVars
    PROVE  EventIInv'
<1>1. /\ calls \in Seq(EventCalls) /\ DOMAIN calls = 1 .. Len(calls) /\ Len(calls) \in Nat
      /\ registered \in Seq(Events!Kinds)
      /\ lock.readers \subseteq 1 .. Len(calls) /\ lock.queue \in Seq(1 .. Len(calls))
      /\ lock = [readers |-> lock.readers, queue |-> lock.queue]
    BY DEF EventIInv
<1>2. ASSUME NEW t \in BusTasks, Events!Use(t) PROVE EventIInv'
    <2>1. <<t>> \in Seq(BusTasks \union Nat)
        OBVIOUS
    <2>2. "quiet" \in Events!Kinds
        BY DEF Events!Kinds
    <2> QED  BY <1>2, <2>1, <2>2, BeginKeeps DEF Events!Use
<1>3. ASSUME NEW i \in DOMAIN calls, Events!On(i) PROVE EventIInv'
    <2> DEFINE c == [calls[i] EXCEPT !.at = "done"]
    <2>1. /\ calls[i].op = "on" /\ lock.queue # <<>> /\ lock.readers = {}
          /\ registered' = Append(registered, calls[i].does)
          /\ lock' = [lock EXCEPT !.queue = Tail(@)]
          /\ calls' = [calls EXCEPT ![i] = c]
        BY <1>3 DEF Events!On, Events!Admitted
    <2>2. calls[i] \in EventCalls
        BY <1>1
    <2>3. c \in EventCalls /\ c.at = "done"
        BY <2>2 DEF EventCalls
    <2>4. registered' \in Seq(Events!Kinds)
        BY <1>1, <2>1, <2>2 DEF EventCalls
    <2>5. lock' = [readers |-> {}, queue |-> Tail(lock.queue)]
        BY <1>1, <2>1
    <2>6. Tail(lock.queue) \in Seq(1 .. Len(calls))
        BY <1>1, <2>1, HeadTailProperties
    <2>7. \A k \in DOMAIN calls \ {i} : calls[k].at # "joins"
        BY <2>1 DEF EventIInv
    <2> HIDE DEF c
    <2> QED  BY <2>1, <2>3, <2>4, <2>5, <2>6, <2>7, OneCallMoves
<1>4. ASSUME NEW i \in DOMAIN calls, Events!Emit(i) PROVE EventIInv'
    <2> DEFINE c == [calls[i] EXCEPT !.at = "joins", !.runs = registered]
    <2>1. /\ lock.queue # <<>> /\ registered' = registered
          /\ lock' = [queue |-> Tail(lock.queue), readers |-> lock.readers \union {i}]
          /\ calls' = [calls EXCEPT ![i].at = "joins", ![i].runs = registered]
        BY <1>4 DEF Events!Emit, Events!Admitted
    <2>2. calls[i] \in EventCalls
        BY <1>1
    <2>3. c \in EventCalls /\ c.at = "joins" /\ c.runs = registered
        BY <1>1, <2>2 DEF EventCalls
    <2>4. calls' = [calls EXCEPT ![i] = c]
        BY <1>1, <2>1
    <2>5. Tail(lock.queue) \in Seq(1 .. Len(calls))
        BY <1>1, <2>1, HeadTailProperties
    <2>6. lock.readers \union {i} \subseteq 1 .. Len(calls)
        BY <1>1
    <2>7. lock'.readers = lock.readers \union {i} /\ lock'.queue = Tail(lock.queue)
        BY <2>1
    <2>8. \A k \in DOMAIN calls \ {i} :
              calls[k].at = "joins" => k \in lock.readers /\ calls[k].runs = registered
        BY DEF EventIInv
    <2>9. lock' \in [readers : SUBSET (1 .. Len(calls)), queue : Seq(1 .. Len(calls))]
        BY <2>1, <2>5, <2>6
    <2>10. /\ lock'.readers \subseteq 1 .. Len(calls) /\ registered' \in Seq(Events!Kinds)
           /\ i \in lock'.readers /\ \A k \in lock.readers : k \in lock'.readers
        BY <1>1, <2>1, <2>6, <2>7
    <2> HIDE DEF c
    <2> QED  BY <2>1, <2>3, <2>4, <2>8, <2>9, <2>10, OneCallMoves
<1>5. ASSUME NEW i \in DOMAIN calls, Events!Return(i) PROVE EventIInv'
    <2> DEFINE c == [calls[i] EXCEPT !.at = "done"]
    <2>1. /\ registered' = registered
          /\ lock' = [lock EXCEPT !.readers = @ \ {i}]
          /\ calls' = [calls EXCEPT ![i] = c]
        BY <1>5 DEF Events!Return, Events!Released
    <2>2. calls[i] \in EventCalls
        BY <1>1
    <2>3. c \in EventCalls /\ c.at = "done"
        BY <2>2 DEF EventCalls
    <2>4. lock' = [readers |-> lock.readers \ {i}, queue |-> lock.queue]
        BY <1>1, <2>1
    <2>5. \A k \in DOMAIN calls \ {i} :
              calls[k].at = "joins" => k \in lock.readers \ {i} /\ calls[k].runs = registered
        BY DEF EventIInv
    <2> HIDE DEF c
    <2> QED  BY <1>1, <2>1, <2>3, <2>4, <2>5, OneCallMoves
<1>6. ASSUME NEW i \in DOMAIN calls, NEW n \in DOMAIN calls[i].runs,
             Events!Handles(i, n) \/ Events!HandlerEnds(i, n)
      PROVE  EventIInv'
    <2>1. calls[i] \in EventCalls /\ n \in Nat /\ i \in Nat
        <3>1. calls[i] \in EventCalls
            BY <1>1
        <3>2. calls[i].runs \in Seq(Events!Kinds)
            BY <3>1 DEF EventCalls
        <3> QED  BY <1>1, <3>1, <3>2
    <2>2. CASE Events!Handles(i, n)
        <3>1. <<i, n>> \in Seq(BusTasks \union Nat) /\ "quiet" \in Events!Kinds
            BY <2>1 DEF Events!Kinds
        <3> QED  BY <2>2, <3>1, BeginKeeps DEF Events!Handles
    <2>3. CASE Events!HandlerEnds(i, n)
        <3> DEFINE c == [calls[i] EXCEPT !.ended = @ \union {n}]
        <3>1. /\ calls' = [calls EXCEPT ![i] = c] /\ UNCHANGED <<registered, lock>>
            BY <2>3 DEF Events!HandlerEnds
        <3>2. c \in EventCalls /\ c.at = calls[i].at /\ c.runs = calls[i].runs
            BY <2>1 DEF EventCalls
        <3>3. \A k \in DOMAIN calls :
                  calls[k].at = "joins" => k \in lock.readers /\ calls[k].runs = registered
            BY DEF EventIInv
        <3> HIDE DEF c
        <3> QED  BY <1>1, <3>1, <3>2, <3>3, OneCallMoves
    <2> QED  BY <1>6, <2>2, <2>3
<1>7. CASE UNCHANGED eventVars
    BY <1>7 DEF eventVars, EventIInv
<1>8. ASSUME NEW i \in Events!Ids, Events!Step(i) PROVE EventIInv'
    BY <1>3, <1>4, <1>5, <1>6, <1>8 DEF Events!Step, Events!Ids
<1> QED  BY <1>2, <1>7, <1>8 DEF Events!Next

-----------------------------------------------------------------------------------
(* The three of them. *)

ProcessIInv == IInv /\ BusIInv /\ EventIInv

(* All three begin as their invariants ask.                                             *)
LEMMA ProcessInit == MCInit => ProcessIInv
<1> SUFFICES ASSUME MCInit PROVE ProcessIInv
    OBVIOUS
<1>1. IInv
    BY InitIInv DEF MCInit
<1>2. BusIInv
    BY InstanceAssumptions, BusInitIInv DEF MCInit
<1>3. EventIInv
    <2>1. registered = <<>> /\ calls = <<>> /\ lock = [readers |-> {}, queue |-> <<>>]
        BY DEF MCInit, Events!Init
    <2>2. Len(calls) = 0 /\ DOMAIN calls = {}
        BY <2>1
    <2> QED  BY <2>1, <2>2 DEF EventIInv
<1> QED  BY <1>1, <1>2, <1>3 DEF ProcessIInv

(* A step of one of them leaves the others alone.                                       *)
LEMMA ProcessStep ==
    ASSUME ProcessIInv, [MCNext]_<<part, vars, busVars, eventVars>>
    PROVE  ProcessIInv'
<1>1. [Next]_vars /\ [Bus!Next]_busVars /\ [Events!Next]_eventVars
    BY DEF MCNext
<1>2. IInv'
    BY <1>1, NextIInv DEF ProcessIInv
<1>3. BusIInv'
    BY <1>1, InstanceAssumptions, BusNextIInv DEF ProcessIInv
<1>4. EventIInv'
    BY <1>1, EventStepKeeps DEF ProcessIInv
<1> QED  BY <1>2, <1>3, <1>4 DEF ProcessIInv

(* Permits are conserved, in the job queue and in the message bus: each is free or held *)
(* by one that runs, for any jobs, messages, handlers, workers, retries and capacities, *)
(* whichever error or panic ends a run.                                                 *)
THEOREM NoPermitIsLost == MCSpec => []NoPermitLeaks
<1>1. ProcessIInv => NoPermitLeaks
    <2> SUFFICES ASSUME ProcessIInv PROVE NoPermitLeaks
        OBVIOUS
    <2>1. TypeOK /\ PermitsConserved
        BY InvariantIsSound DEF ProcessIInv
    <2>2. Bus!TypeOK /\ Bus!WorkersBounded
        BY PermitsAreSafe DEF ProcessIInv, BusIInv, Typing
    <2> QED  BY <2>1, <2>2 DEF NoPermitLeaks
<1> QED  BY <1>1, ProcessInit, ProcessStep, PTL DEF MCSpec

(* Every handler of a message has its turn, in order, as often as message/mod.rs says,  *)
(* and an emission of event/mod.rs runs the handlers that are registered.               *)
THEOREM HandlersHaveTheirTurn == MCSpec => []HandlersAreReached
<1>1. ProcessIInv => HandlersAreReached
    <2> SUFFICES ASSUME ProcessIInv PROVE HandlersAreReached
        OBVIOUS
    <2>1. Bus!SeesRegisteredHandlers /\ Bus!SyncStopsAtFirstError
        BY RegisteredAreSeen, SyncIsInOrder DEF ProcessIInv
    <2>2. Bus!BackgroundReachesAll
        BY TurnsAreTaken, InstanceAssumptions DEF ProcessIInv
    <2>3. Events!TypeOK
        <3>1. calls \in Seq(EventCalls) /\ lock.queue \in Seq(1 .. Len(calls))
            BY DEF ProcessIInv, EventIInv
        <3>2. \A i \in DOMAIN calls : calls[i] \in EventCalls
            BY <3>1
        <3>3. Events!ToSet(lock.queue) \subseteq DOMAIN calls
            BY <3>1 DEF Events!ToSet
        <3> QED  BY <3>2, <3>3 DEF ProcessIInv, EventIInv, Events!TypeOK, Events!Ids, EventCalls
    <2>4. Events!EmissionSeesTheList
        BY DEF ProcessIInv, EventIInv, Events!EmissionSeesTheList, Events!Ids
    <2> QED  BY <2>1, <2>2, <2>3, <2>4 DEF HandlersAreReached
<1> QED  BY <1>1, ProcessInit, ProcessStep, PTL DEF MCSpec

(* A job of the process is executed once and once per retry, and never more often.      *)
THEOREM ProcessExecutesExactly == MCSpec => []ExecutionsExact
<1>1. ProcessIInv => ExecutionsExact
    BY InvariantIsSound DEF ProcessIInv
<1> QED  BY <1>1, ProcessInit, ProcessStep, PTL DEF MCSpec
==================================================================================
