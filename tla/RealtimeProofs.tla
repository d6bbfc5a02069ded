------------------------------ MODULE RealtimeProofs ------------------------------
(* Proofs about what stays connected to a server, for any clients, rooms, browsers,    *)
(* networks, recorders and threads: the rooms and the sets of the connections agree, no *)
(* message is missed silently, Studio is guarded and misses no record, and the gate     *)
(* follows its file.                                                                    *)
EXTENDS MCRealtime, FiniteSetTheorems, SequenceTheorems, TLAPS

-----------------------------------------------------------------------------------
(* The gate. While the machine keeps the order and nobody is slow, what a thread saw,    *)
(* stored or believed differs from the file only if the file changed since: a decision   *)
(* under way lies within the current tick, and a look that is believed is as old as its  *)
(* time says.                                                                          *)

Near(value) == value = u1 \/ u7 < TTL

GateInv ==
    /\ Gate!TypeOK
    /\ u6 /\ u8 =>
         /\ u3 = u1 \/ u7 <= u4
         /\ \A t \in Threads :
              /\ u5[t].pc = "cached" => Near(u3)
              /\ u5[t].pc \in {"stat", "store"} => u5[t].now = 0
              /\ u5[t].pc = "store" =>
                     /\ u5[t].seen = u1 \/ u7 = 0
                     /\ "checked" \notin u5[t].stores => "present" \notin u5[t].stores
                     /\ "present" \notin u5[t].stores => u3 = u1 \/ u7 = 0
              /\ u5[t].pc = "answer" /\ u5[t].by = "file" => Near(u5[t].closed)

(* What a thread goes through in a decision, and what it carries there.                 *)
Deciding == {Gate!Idle}
            \union [pc : {"check"}]
            \union [pc : {"cached"}, early : BOOLEAN]
            \union [pc : {"stat"}, now : Gate!Ages]
            \union [pc : {"store"}, now : Gate!Ages, seen : BOOLEAN,
                    stores : SUBSET {"present", "checked"}]
            \union [pc : {"answer"}, closed : BOOLEAN, by : {"flag", "file"}]

(* At the start nobody decides, and no look at the file was taken.                      *)
LEMMA GateStarts == Gate!Init => GateInv
<1> SUFFICES ASSUME Gate!Init PROVE GateInv
    OBVIOUS
<1>1. Gate!TypeOK
    <2>1. {u1, u2, u3, u6, u8} \subseteq BOOLEAN
        BY DEF Gate!Init
    <2>2. u4 \in Gate!Ages /\ u7 \in Gate!Ages
        BY InstanceAssumptions DEF Gate!Init, Gate!Ages, Gate!Old, Gate!GateAssumption
    <2> QED  BY <2>1, <2>2 DEF Gate!Init, Gate!TypeOK
<1>2. \A t \in Threads : u5[t].pc = "idle"
    BY DEF Gate!Init, Gate!Idle
<1>3. u7 <= u4
    BY InstanceAssumptions DEF Gate!Init, Gate!Old, Gate!GateAssumption
<1> QED  BY <1>1, <1>2, <1>3 DEF GateInv

(* A thread that takes a step leaves the others, the file and its age as they were.     *)
LEMMA OneThreadMoves ==
    ASSUME GateInv, NEW t \in Threads, NEW new \in Deciding,
           u5' = [u5 EXCEPT ![t] = new],
           u3' \in BOOLEAN, u4' \in Gate!Ages,
           UNCHANGED <<u1, u2, u6, u7, u8>>,
           u6 /\ u8 =>
             /\ u3' = u1 \/ u7 <= u4'
             /\ u3' = u3 \/ u3' = u1 \/ u7 = 0
             /\ new.pc = "cached" => Near(u3')
             /\ new.pc \in {"stat", "store"} => new.now = 0
             /\ new.pc = "store" =>
                    /\ new.seen = u1 \/ u7 = 0
                    /\ "checked" \notin new.stores => "present" \notin new.stores
                    /\ "present" \notin new.stores => u3' = u1 \/ u7 = 0
             /\ new.pc = "answer" /\ new.by = "file" => Near(new.closed)
    PROVE  GateInv'
<1>1. /\ u5' \in [Threads -> Deciding] /\ u5'[t] = new
      /\ \A s \in Threads : s # t => u5'[s] = u5[s]
    BY DEF GateInv, Gate!TypeOK, Deciding
<1>2. Gate!TypeOK'
    BY <1>1 DEF GateInv, Gate!TypeOK, Deciding, Gate!Ages, Gate!Old
<1>3. ASSUME u6', u8', NEW s \in Threads
      PROVE  /\ u5'[s].pc = "cached" => Near(u3)'
             /\ u5'[s].pc \in {"stat", "store"} => u5'[s].now = 0
             /\ u5'[s].pc = "store" =>
                    /\ u5'[s].seen = u1' \/ u7' = 0
                    /\ "checked" \notin u5'[s].stores => "present" \notin u5'[s].stores
                    /\ "present" \notin u5'[s].stores => u3' = u1' \/ u7' = 0
             /\ u5'[s].pc = "answer" /\ u5'[s].by = "file" => Near(u5[s].closed)'
    <2>1. u6 /\ u8 /\ 0 < TTL
        BY <1>3, InstanceAssumptions DEF Gate!GateAssumption
    <2>2. CASE s = t
        BY <1>1, <2>1, <2>2 DEF Near
    <2>3. CASE s # t
        BY <1>1, <2>1, <2>3 DEF Near, GateInv
    <2> QED  BY <2>2, <2>3
<1> QED  BY <1>2, <1>3 DEF GateInv

(* Every step of a thread, of the operator and of the clock keeps it.                   *)
LEMMA GateKeeps == GateInv /\ Gate!Next => GateInv'
<1> SUFFICES ASSUME GateInv, Gate!Next PROVE GateInv'
    OBVIOUS
<1>0. /\ u5 \in [Threads -> Deciding] /\ u3 \in BOOLEAN /\ u1 \in BOOLEAN
      /\ u4 \in Gate!Ages /\ u7 \in Gate!Ages /\ TTL \in Nat \ {0}
    BY InstanceAssumptions DEF GateInv, Gate!TypeOK, Deciding, Gate!GateAssumption
<1>1. ASSUME NEW t \in Threads, Gate!Request(t) PROVE GateInv'
    <2>1. PICK new \in Deciding :
              u5' = [u5 EXCEPT ![t] = new] /\ new.pc \in {"check", "answer"}
                  /\ (new.pc = "answer" => new.by = "flag")
        <3>1. CASE u2
            <4>1. [pc |-> "answer", closed |-> TRUE, by |-> "flag"] \in Deciding
                BY DEF Deciding
            <4> QED  BY <1>1, <3>1, <4>1 DEF Gate!Request, Gate!Answer
        <3>2. CASE ~u2
            <4>1. [pc |-> "check"] \in Deciding
                BY DEF Deciding
            <4> QED  BY <1>1, <3>2, <4>1 DEF Gate!Request
        <3> QED  BY <3>1, <3>2
    <2> QED  BY <1>0, <1>1, <2>1, OneThreadMoves DEF Gate!Request, GateInv
<1>2. ASSUME NEW t \in Threads, Gate!Load(t) PROVE GateInv'
    <2>1. CASE Gate!Fresh
        <3> DEFINE new == [pc |-> "cached", early |-> u3]
        <3>1. new \in Deciding /\ u5' = [u5 EXCEPT ![t] = new]
            BY <1>0, <1>2, <2>1 DEF Gate!Load, Deciding
        <3>2. u6 /\ u8 => Near(u3)
            BY <1>0, <2>1 DEF GateInv, Near, Gate!Fresh, Gate!Ages, Gate!Old
        <3>3. u6 /\ u8 => u3 = u1 \/ u7 <= u4
            BY DEF GateInv
        <3> QED  BY <1>0, <1>2, <3>1, <3>2, <3>3, OneThreadMoves DEF Gate!Load, Near
    <2>2. CASE ~Gate!Fresh
        <3> DEFINE new == [pc |-> "stat", now |-> 0]
        <3>1. new \in Deciding /\ u5' = [u5 EXCEPT ![t] = new]
            BY <1>0, <1>2, <2>2 DEF Gate!Load, Deciding, Gate!Ages, Gate!Old
        <3>2. u6 /\ u8 => u3 = u1 \/ u7 <= u4
            BY DEF GateInv
        <3> QED  BY <1>0, <1>2, <3>1, <3>2, OneThreadMoves DEF Gate!Load
    <2> QED  BY <2>1, <2>2
<1>3. ASSUME NEW t \in Threads, Gate!Cached(t) PROVE GateInv'
    <2>1. PICK p \in Gate!Looks(t) : Gate!Answer(t, p, "file")
        BY <1>3 DEF Gate!Cached
    <2> DEFINE new == [pc |-> "answer", closed |-> p, by |-> "file"]
    <2>2. new \in Deciding /\ u5' = [u5 EXCEPT ![t] = new]
        <3>1. u5[t] \in [pc : {"cached"}, early : BOOLEAN]
            BY <1>0, <1>3 DEF Gate!Cached, Gate!At, Deciding, Gate!Idle
        <3>2. p \in BOOLEAN
            BY <1>0, <2>1, <3>1 DEF Gate!Looks
        <3> QED  BY <2>1, <3>2 DEF Gate!Answer, Deciding
    <2>3. u6 /\ u8 => Near(p) /\ (u3 = u1 \/ u7 <= u4)
        BY <1>3, <2>1 DEF Gate!Cached, Gate!At, Gate!Looks, GateInv
    <2> QED  BY <1>0, <1>3, <2>2, <2>3, OneThreadMoves DEF Gate!Cached, Near
<1>4. ASSUME NEW t \in Threads, Gate!Stat(t) PROVE GateInv'
    <2>1. u5[t] \in [pc : {"stat"}, now : Gate!Ages]
        BY <1>0, <1>4 DEF Gate!Stat, Gate!At, Deciding, Gate!Idle
    <2> DEFINE new == [pc |-> "store", now |-> u5[t].now, seen |-> u1, stores |-> {"present", "checked"}]
    <2>2. new \in Deciding /\ u5' = [u5 EXCEPT ![t] = new]
        BY <1>0, <1>4, <2>1 DEF Gate!Stat, Deciding
    <2>3. u6 /\ u8 => u5[t].now = 0 /\ (u3 = u1 \/ u7 <= u4)
        BY <2>1 DEF GateInv
    <2> QED  BY <1>0, <1>4, <2>2, <2>3, OneThreadMoves DEF Gate!Stat
<1>5. ASSUME NEW t \in Threads, NEW what \in {"present", "checked"}, Gate!Store(t, what)
      PROVE  GateInv'
    <2>1. u5[t] \in [pc : {"store"}, now : Gate!Ages, seen : BOOLEAN,
                     stores : SUBSET {"present", "checked"}]
        BY <1>0, <1>5 DEF Gate!Store, Gate!At, Deciding, Gate!Idle
    <2> DEFINE new == [u5[t] EXCEPT !.stores = @ \ {what}]
    <2>2. new \in Deciding /\ u5' = [u5 EXCEPT ![t] = new]
        BY <1>0, <1>5, <2>1 DEF Gate!Store, Deciding
    <2>3. /\ new.pc = "store" /\ new.now = u5[t].now /\ new.seen = u5[t].seen
          /\ new.stores = u5[t].stores \ {what}
        BY <2>1
    <2>4. u6 /\ u8 =>
                     /\ u3 = u1 \/ u7 <= u4
                     /\ u5[t].now = 0
                     /\ u5[t].seen = u1 \/ u7 = 0
                     /\ "checked" \notin u5[t].stores => "present" \notin u5[t].stores
                     /\ "present" \notin u5[t].stores => u3 = u1 \/ u7 = 0
        BY <2>1 DEF GateInv
    <2> HIDE DEF new
    <2>5. CASE what = "present"
        <3>1. u3' = u5[t].seen /\ u4' = u4
            BY <1>5, <2>5 DEF Gate!Store
        <3>2. u3' \in BOOLEAN /\ 0 <= u4
            BY <1>0, <2>1, <3>1 DEF Gate!Ages, Gate!Old
        <3>3. UNCHANGED <<u1, u2, u6, u7, u8>>
            BY <1>5 DEF Gate!Store
        <3>4. u6 /\ u8 => ("checked" \notin new.stores => "present" \notin new.stores)
            BY <2>3, <2>4, <2>5, <3>1, <1>0
        <3>5. u6 /\ u8 => u3' = u1 \/ u7 = 0
            BY <2>4, <3>1, Zenon
        <3>6. u6 /\ u8 => u3' = u1 \/ u7 <= u4'
            <4>1. u7 = 0 => u7 <= u4'
                BY <3>1, <3>2
            <4> QED  BY <3>5, <4>1, Zenon
        <3> QED  BY <1>0, <2>2, <2>3, <2>4, <3>1, <3>2, <3>3, <3>4, <3>5, <3>6, OneThreadMoves
    <2>6. CASE what = "checked"
        <3>1. u4' = u5[t].now /\ u3' = u3 /\ (u6 => "present" \notin u5[t].stores)
            BY <1>5, <2>6 DEF Gate!Store
        <3>2. u4' \in Gate!Ages /\ (u7 = 0 => u7 <= 0)
            BY <1>0, <2>1, <3>1 DEF Gate!Ages, Gate!Old
        <3>3. UNCHANGED <<u1, u2, u6, u7, u8>>
            BY <1>5 DEF Gate!Store
        <3>4. u6 => "present" \notin new.stores
            BY <2>3, <2>4, <2>6, <3>1, <1>0
        <3>5. u6 /\ u8 => u3' = u1 \/ u7 = 0
            BY <2>4, <3>1, Zenon
        <3>6. u6 /\ u8 => u3' = u1 \/ u7 <= u4'
            <4>1. u7 = 0 => u7 <= u4' \/ ~(u6 /\ u8)
                BY <2>4, <3>1, <3>2
            <4> QED  BY <3>5, <4>1, Zenon
        <3> QED  BY <1>0, <2>2, <2>3, <2>4, <3>1, <3>2, <3>3, <3>4, <3>5, <3>6, OneThreadMoves
    <2> QED  BY <2>5, <2>6
<1>6. ASSUME NEW t \in Threads, Gate!Stored(t) PROVE GateInv'
    <2>1. u5[t] \in [pc : {"store"}, now : Gate!Ages, seen : BOOLEAN,
                     stores : SUBSET {"present", "checked"}]
        BY <1>0, <1>6 DEF Gate!Stored, Gate!At, Deciding, Gate!Idle
    <2> DEFINE new == [pc |-> "answer", closed |-> u5[t].seen, by |-> "file"]
    <2>2. new \in Deciding /\ u5' = [u5 EXCEPT ![t] = new]
        BY <1>0, <1>6, <2>1 DEF Gate!Stored, Gate!Answer, Deciding
    <2>3. u6 /\ u8 => (u3 = u1 \/ u7 <= u4) /\ (u5[t].seen = u1 \/ u7 = 0)
        BY <2>1 DEF GateInv
    <2>4. u6 /\ u8 => Near(new.closed)
        BY <1>0, <2>3 DEF Near
    <2> QED  BY <1>0, <1>6, <2>2, <2>3, <2>4, OneThreadMoves DEF Gate!Stored
<1>7. ASSUME NEW t \in Threads, Gate!Done(t) PROVE GateInv'
    <2>1. Gate!Idle \in Deciding /\ Gate!Idle.pc = "idle"
        BY DEF Deciding, Gate!Idle
    <2> QED  BY <1>0, <1>7, <2>1, OneThreadMoves DEF Gate!Done, GateInv
<1>8. CASE Gate!Toggle
    <2>1. Gate!TypeOK'
        BY <1>0, <1>8 DEF GateInv, Gate!Toggle, Gate!TypeOK, Gate!Ages, Gate!Old
    <2>2. u7' = 0 /\ u7' <= u4' /\ u7' < TTL /\ UNCHANGED <<u3, u5, u6, u8>>
        BY <1>0, <1>8 DEF Gate!Toggle, Gate!Ages, Gate!Old
    <2> QED  BY <2>1, <2>2 DEF GateInv, Near
<1>9. ASSUME NEW enabled \in BOOLEAN, Gate!SetMaintenance(enabled) PROVE GateInv'
    <2>1. Gate!TypeOK'
        BY <1>9 DEF GateInv, Gate!SetMaintenance, Gate!TypeOK
    <2> QED  BY <1>9, <2>1 DEF GateInv, Near, Gate!SetMaintenance
<1>10. CASE Gate!Tick
    <2>1. /\ \A age \in Gate!Ages : Gate!Older(age) \in Gate!Ages
          /\ u7 <= u4 => Gate!Older(u7) <= Gate!Older(u4)
        BY <1>0 DEF Gate!Ages, Gate!Old, Gate!Older
    <2>2. u5' \in [Threads -> Deciding]
        <3>1. ASSUME NEW t \in Threads PROVE u5'[t] \in Deciding
            <4>1. CASE u5[t].pc \in {"stat", "store"}
                <5>1. u5[t].now \in Gate!Ages /\ u5'[t] = [u5[t] EXCEPT !.now = Gate!Older(@)]
                    BY <1>0, <1>10, <4>1 DEF Gate!Tick, Deciding, Gate!Idle
                <5>2. Gate!Older(u5[t].now) \in Gate!Ages
                    BY <2>1, <5>1
                <5> QED  BY <1>0, <4>1, <5>1, <5>2 DEF Deciding, Gate!Idle
            <4>2. CASE u5[t].pc \notin {"stat", "store"}
                BY <1>0, <1>10, <4>2 DEF Gate!Tick
            <4> QED  BY <4>1, <4>2
        <3> QED  BY <1>10, <3>1 DEF Gate!Tick
    <2>3. Gate!TypeOK'
        BY <1>0, <1>10, <2>1, <2>2 DEF GateInv, Gate!Tick, Gate!TypeOK, Deciding, Gate!At
    <2>4. u6' /\ u8' => u6 /\ u8 /\ \A t \in Threads : u5'[t].pc = "idle"
        BY <1>10 DEF Gate!Tick, Gate!At
    <2>5. u6' /\ u8' => u3' = u1' \/ u7' <= u4'
        BY <1>10, <2>1, <2>4 DEF Gate!Tick, GateInv
    <2> QED  BY <2>3, <2>4, <2>5 DEF GateInv
<1> QED  BY <1>1, <1>2, <1>3, <1>4, <1>5, <1>6, <1>7, <1>8, <1>9, <1>10
         DEF Gate!Next, Gate!Decide

-----------------------------------------------------------------------------------
(* Studio. A session that a browser has was opened with the key, whoever brought it: its *)
(* network and its end are those of a grant. The shared cache has no token, and where    *)
(* the build is a release a browser knows that of a start only if it was in a session.   *)

Servers == [release : BOOLEAN, key : BOOLEAN, env : {"development", "production"},
            start : 1 .. MaxStarts, allowed : Allowed, mounted : BOOLEAN]

Sessions == {Debug!NoCookie} \union {[exp |-> grant[2] + SessionLife, ip |-> grant[1]] : grant \in u6}

People(sessions) == [Browsers -> [ip : Ips, session : sessions, token : 0 .. MaxStarts,
                                  was : SUBSET (1 .. MaxStarts)]]

Answers == [kind : {"none", "studio", "terminal"}, shown : BOOLEAN, granted : BOOLEAN]

AnswerIsRight ==
    /\ u5.kind \in {"studio", "terminal"} =>
           u5.shown \/ (u1.env = "development" /\ (u1.release => u5.granted))
    /\ u5.kind = "terminal" => u1.env = "development"

Known(b) == u1.release => u2[b].token \in u2[b].was \union {Debug!NoToken}

AccessInv == /\ u1 \in Servers
             /\ u2 \in People(Sessions)
             /\ u3 \in 0 .. MaxTime
             /\ u4.token = Debug!NoToken
             /\ u5 \in Answers /\ AnswerIsRight
             /\ u6 \subseteq Ips \X (0 .. MaxTime)
             /\ \A b \in Browsers : Known(b)

(* Debug mode is earned: a valid cookie is one that was granted to its network.         *)
LEMMA ActiveIsEarned ==
    ASSUME AccessInv, NEW b \in Browsers, NEW token,
           u1.release, Debug!active(Debug!Request(b, token))
    PROVE  Debug!Granted(u2[b].ip)
<1> DEFINE cookie == u2[b].session
<1>1. Debug!cookie_valid(cookie, u2[b].ip)
    BY DEF Debug!active, Debug!always_on, Debug!Request
<1>2. PICK grant \in u6 : cookie = [exp |-> grant[2] + SessionLife, ip |-> grant[1]]
    BY <1>1 DEF AccessInv, People, Sessions, Debug!cookie_valid
<1>3. grant[1] = u2[b].ip /\ u3 <= grant[2] + SessionLife /\ Debug!ip_allowed(u2[b].ip)
    BY <1>1, <1>2 DEF Debug!cookie_valid
<1> QED  BY <1>3 DEF Debug!Granted

(* What the invariant says of the properties.                                           *)
LEMMA AccessIsGuarded ==
    AccessInv => Debug!TypeOK /\ Debug!SessionsAreEarned /\ Debug!StudioIsGuarded
<1> SUFFICES ASSUME AccessInv PROVE Debug!TypeOK /\ Debug!SessionsAreEarned /\ Debug!StudioIsGuarded
    OBVIOUS
<1>1. Debug!TypeOK
    BY DEF AccessInv, People, Debug!TypeOK, Answers
<1>2. Debug!SessionsAreEarned
    BY ActiveIsEarned DEF Debug!SessionsAreEarned
<1>3. Debug!StudioIsGuarded
    BY DEF AccessInv, AnswerIsRight, Known, Debug!StudioIsGuarded
<1> QED  BY <1>1, <1>2, <1>3

(* At the start nobody has a session or a token.                                        *)
LEMMA AccessStarts == Debug!Init => AccessInv
<1> SUFFICES ASSUME Debug!Init PROVE AccessInv
    OBVIOUS
<1>1. MaxStarts \in Nat \ {0} /\ MaxTime \in Nat /\ Allowed \subseteq SUBSET Ips
    BY InstanceAssumptions DEF Debug!AccessAssumption
<1>2. u1 \in Servers
    BY <1>1 DEF Debug!Init, Servers
<1>3. PICK ip \in u1.allowed :
          u2 = [b \in Browsers |-> [ip |-> ip, session |-> Debug!NoCookie,
                                     token |-> Debug!NoToken, was |-> {}]]
    BY DEF Debug!Init
<1>4. ip \in Ips
    BY <1>1, <1>2 DEF Servers
<1>5. u2 \in People(Sessions) /\ \A b \in Browsers : Known(b)
    BY <1>1, <1>3, <1>4 DEF People, Sessions, Known, Debug!NoToken
<1>6. u5 \in Answers /\ AnswerIsRight
    BY DEF Debug!Init, Debug!NoAnswer, Answers, AnswerIsRight
<1> QED  BY <1>1, <1>2, <1>3, <1>5, <1>6 DEF AccessInv, Debug!Init, Debug!NoPage

(* What a browser is told is the token of this start, in debug mode, or none.          *)
LEMMA LearningKeeps ==
    ASSUME AccessInv, NEW b \in Browsers, NEW token \in {Debug!NoToken, u1.start},
           NEW debug \in BOOLEAN,
           u1.release => token = Debug!NoToken \/ debug \/ token = u2[b].token
    PROVE  /\ Debug!Learns(b, token, debug) \in People(Sessions)
           /\ UNCHANGED u1 /\ u2' = Debug!Learns(b, token, debug) => \A c \in Browsers : Known(c)'
<1> DEFINE learnt == IF token = Debug!NoToken THEN u2[b].token ELSE token
           was == IF debug THEN u2[b].was \union {u1.start} ELSE u2[b].was
<1>1. /\ u2 \in People(Sessions) /\ u1.start \in 1 .. MaxStarts
      /\ MaxStarts \in Nat
    BY InstanceAssumptions DEF AccessInv, Servers, Debug!AccessAssumption
<1>2. learnt \in 0 .. MaxStarts /\ was \in SUBSET (1 .. MaxStarts)
    BY <1>1 DEF People, Debug!NoToken
<1>3. Debug!Learns(b, token, debug) =
          [u2 EXCEPT ![b] = [ip |-> u2[b].ip, session |-> u2[b].session, token |-> learnt, was |-> was]]
    BY DEF Debug!Learns
<1>4. u1.release => learnt \in was \union {Debug!NoToken}
    BY DEF AccessInv, Known
<1> HIDE DEF learnt, was
<1>5. Debug!Learns(b, token, debug) \in People(Sessions)
    BY <1>1, <1>2, <1>3 DEF People
<1>6. /\ Debug!Learns(b, token, debug)[b].token = learnt
      /\ Debug!Learns(b, token, debug)[b].was = was
      /\ \A c \in Browsers : c # b => Debug!Learns(b, token, debug)[c] = u2[c]
    BY <1>1, <1>3 DEF People
<1> QED  BY <1>4, <1>5, <1>6 DEF AccessInv, Known

(* Every request, every move of a browser, every tick and every start keep it.          *)
LEMMA AccessKeeps == AccessInv /\ Debug!Next => AccessInv'
<1> SUFFICES ASSUME AccessInv, Debug!Next PROVE AccessInv'
    OBVIOUS
<1>0. /\ MaxStarts \in Nat \ {0} /\ MaxTime \in Nat /\ SessionLife \in Nat
      /\ Allowed \subseteq SUBSET Ips
    BY InstanceAssumptions DEF Debug!AccessAssumption
<1>a. Debug!NoAnswer \in Answers /\ Debug!NoAnswer.kind = "none"
    BY DEF Debug!NoAnswer, Answers
<1>1. CASE Debug!Tick
    <2>1. u3' \in 0 .. MaxTime
        BY <1>0, <1>1 DEF Debug!Tick, AccessInv
    <2>2. Sessions' = Sessions /\ AnswerIsRight' /\ \A b \in Browsers : Known(b)'
        BY <1>1 DEF Debug!Tick, AccessInv, Sessions, AnswerIsRight, Known
    <2> QED  BY <1>1, <2>1, <2>2 DEF Debug!Tick, AccessInv, People
<1>2. CASE Debug!Restart
    <2>1. u1' \in Servers /\ u1'.release = u1.release
        BY <1>0, <1>2 DEF Debug!Restart, AccessInv, Servers
    <2>2. Sessions' = Sessions
        BY <1>2 DEF Debug!Restart, Sessions
    <2>3. u5' \in Answers /\ AnswerIsRight'
        BY <1>2, <1>a DEF Debug!Restart, AnswerIsRight
    <2>4. \A b \in Browsers : Known(b)'
        BY <1>2, <2>1 DEF Debug!Restart, AccessInv, Known
    <2> QED  BY <1>2, <2>1, <2>2, <2>3, <2>4 DEF Debug!Restart, AccessInv, People
<1>3. ASSUME NEW b \in Browsers, NEW right \in BOOLEAN, Debug!Activate(b, right)
      PROVE  AccessInv'
    <2> DEFINE opens == right /\ u1.key /\ Debug!ip_allowed(u2[b].ip)
               grant == <<u2[b].ip, u3>>
    <2>1. /\ u5' = Debug!NoAnswer /\ UNCHANGED <<u1, u3, u4>>
          /\ u2' = IF opens THEN [u2 EXCEPT ![b].session = Debug!session_cookie(u2[b].ip)] ELSE u2
          /\ u6' = IF opens THEN u6 \union {grant} ELSE u6
        BY <1>3 DEF Debug!Activate, Debug!Request
    <2>2. grant \in Ips \X (0 .. MaxTime)
        BY DEF AccessInv, People
    <2>3. u6 \subseteq u6' /\ u6' \subseteq Ips \X (0 .. MaxTime)
        BY <2>1, <2>2 DEF AccessInv
    <2>4. u5' \in Answers /\ AnswerIsRight'
        BY <2>1, <1>a DEF AnswerIsRight
    <2>5. Sessions \subseteq Sessions'
        BY <2>3 DEF Sessions
    <2>6. /\ u2' \in People(Sessions')
          /\ \A c \in Browsers : u2'[c].token = u2[c].token /\ u2'[c].was = u2[c].was
        <3>1. CASE opens
            <4> DEFINE cookie == [exp |-> grant[2] + SessionLife, ip |-> grant[1]]
            <4>1. grant \in u6' /\ cookie = Debug!session_cookie(u2[b].ip)
                BY <2>1, <3>1 DEF Debug!session_cookie
            <4>2. cookie \in Sessions'
                BY <4>1 DEF Sessions
            <4> HIDE DEF cookie
            <4>3. u2' = [u2 EXCEPT ![b].session = cookie]
                BY <2>1, <3>1, <4>1
            <4> QED  BY <2>5, <4>2, <4>3 DEF AccessInv, People
        <3>2. CASE ~opens
            BY <2>1, <2>5, <3>2 DEF AccessInv, People
        <3> QED  BY <3>1, <3>2
    <2>7. \A c \in Browsers : Known(c)'
        BY <2>1, <2>6 DEF AccessInv, Known
    <2> QED  BY <2>1, <2>3, <2>4, <2>6, <2>7 DEF AccessInv, People
<1>4. ASSUME NEW b \in Browsers, Debug!Deactivate(b) PROVE AccessInv'
    <2>1. /\ u2' = [u2 EXCEPT ![b].session = Debug!NoCookie] /\ u5' = Debug!NoAnswer
          /\ UNCHANGED <<u1, u3, u4, u6>>
        BY <1>4 DEF Debug!Deactivate
    <2>2. Sessions' = Sessions /\ Debug!NoCookie \in Sessions
        BY <2>1 DEF Sessions
    <2>3. /\ u2' \in People(Sessions)
          /\ \A c \in Browsers : u2'[c].token = u2[c].token /\ u2'[c].was = u2[c].was
        BY <2>1, <2>2 DEF AccessInv, People
    <2>4. u5' \in Answers /\ AnswerIsRight'
        BY <2>1, <1>a DEF AnswerIsRight
    <2>5. \A c \in Browsers : Known(c)'
        BY <2>1, <2>3 DEF AccessInv, Known
    <2> QED  BY <2>1, <2>2, <2>3, <2>4, <2>5 DEF AccessInv, People
<1>5. ASSUME NEW b \in Browsers, Debug!VisitPage(b) PROVE AccessInv'
    <2> DEFINE debug == Debug!active(Debug!Request(b, Debug!NoToken))
               page == Debug!Toolbar(debug)
    <2>1. /\ u5' = Debug!NoAnswer /\ u2' = Debug!Learns(b, page.token, debug)
          /\ u4' = IF page.public THEN [token |-> page.token, there |-> TRUE] ELSE u4
          /\ UNCHANGED <<u1, u3, u6>>
        BY <1>5 DEF Debug!VisitPage
    <2>2. debug \in BOOLEAN
        BY DEF Debug!Request, AccessInv, Debug!active, Debug!always_on, Servers, Debug!cookie_valid,
               Debug!ip_allowed
    <2> HIDE DEF debug
    <2>3. /\ page.token \in {Debug!NoToken, u1.start}
          /\ page.public \/ ~debug => page.token = Debug!NoToken
        BY <2>2 DEF Debug!Toolbar
    <2> HIDE DEF page
    <2>4. u5' \in Answers /\ AnswerIsRight'
        BY <2>1, <1>a DEF AnswerIsRight
    <2>5. u4'.token = Debug!NoToken
        BY <2>1, <2>3 DEF AccessInv
    <2>6. Sessions' = Sessions
        BY <2>1 DEF Sessions
    <2>7. u2' \in People(Sessions) /\ \A c \in Browsers : Known(c)'
        BY <2>1, <2>2, <2>3, LearningKeeps
    <2> QED  BY <2>1, <2>4, <2>5, <2>6, <2>7 DEF AccessInv, People
<1>6. ASSUME NEW b \in Browsers, Debug!VisitCached(b) PROVE AccessInv'
    <2>1. u2' = Debug!Learns(b, Debug!NoToken, FALSE) /\ UNCHANGED <<u1, u3, u4, u5, u6>>
        BY <1>6 DEF Debug!VisitCached, AccessInv
    <2>2. u2' \in People(Sessions) /\ \A c \in Browsers : Known(c)'
        BY <2>1, LearningKeeps
    <2>3. Sessions' = Sessions /\ AnswerIsRight'
        BY <2>1 DEF AccessInv, Sessions, AnswerIsRight
    <2> QED  BY <2>1, <2>2, <2>3 DEF AccessInv, People
<1>7. ASSUME NEW b \in Browsers, NEW path \in {"dashboard", "api", "terminal"},
             NEW token \in {Debug!NoToken, u2[b].token}, Debug!VisitStudio(b, path, token)
      PROVE  AccessInv'
    <2> DEFINE r == Debug!Request(b, token)
               terminal == path = "terminal"
               enters == Debug!Guard(r) /\ Debug!check_token(r) /\ (terminal => Debug!studio_dev_open)
               in == Debug!Answer(r, IF terminal THEN "terminal" ELSE "studio")
               debug == Debug!active(r)
               told == IF path = "dashboard" THEN u1.start ELSE Debug!NoToken
    <2>1. /\ IF enters THEN u5' = in /\ u2' = Debug!Learns(b, told, debug)
                       ELSE u5' = Debug!NoAnswer /\ u2' = u2
          /\ UNCHANGED <<u1, u3, u4, u6>>
        BY <1>7 DEF Debug!VisitStudio
    <2>2. Sessions' = Sessions
        BY <2>1 DEF Sessions
    <2>3. debug \in BOOLEAN /\ told \in {Debug!NoToken, u1.start}
        BY DEF Debug!Request, AccessInv, Debug!active, Debug!always_on, Servers, Debug!cookie_valid,
               Debug!ip_allowed
    <2>4. in \in Answers
        <3>1. Debug!Granted(u2[b].ip) \in BOOLEAN
            BY DEF Debug!Granted, Debug!ip_allowed
        <3> QED  BY <3>1 DEF Debug!Answer, Answers, Debug!Request
    <2>5. ASSUME enters
          PROVE  /\ r.token = u1.start \/ Debug!studio_dev_open
                 /\ u1.release => r.token = u1.start \/ debug
        BY <2>5 DEF Debug!Guard, Debug!Carries, Debug!check_token
    <2>6. ASSUME enters
          PROVE  /\ in.kind \in {"studio", "terminal"} =>
                        in.shown \/ (u1.env = "development" /\ (u1.release => in.granted))
                 /\ in.kind = "terminal" => u1.env = "development"
        <3>1. u1.release /\ debug => Debug!Granted(u2[b].ip)
            BY ActiveIsEarned
        <3>2. in.shown = (r.token = u1.start) /\ in.granted = Debug!Granted(u2[b].ip)
            BY DEF Debug!Answer, Debug!Request
        <3>3. in.kind = "terminal" => u1.env = "development"
            BY <2>6 DEF Debug!Answer, Debug!studio_dev_open
        <3> QED  BY <2>5, <2>6, <3>1, <3>2, <3>3 DEF Debug!studio_dev_open
    <2>7. u5' \in Answers /\ AnswerIsRight'
        BY <1>a, <2>1, <2>4, <2>6 DEF AnswerIsRight
    <2>8. enters /\ u1.release => told = Debug!NoToken \/ debug \/ told = u2[b].token
        <3>1. u1.start # Debug!NoToken
            BY <1>0 DEF AccessInv, Servers, Debug!NoToken
        <3>2. r.token = token
            BY DEF Debug!Request
        <3> QED  BY <2>5, <3>1, <3>2
    <2> HIDE DEF enters, debug, told
    <2>9. u2' \in People(Sessions) /\ \A c \in Browsers : Known(c)'
        <3>1. CASE enters
            BY <2>1, <2>3, <2>8, <3>1, LearningKeeps
        <3>2. CASE ~enters
            BY <2>1, <3>2 DEF AccessInv, Known
        <3> QED  BY <3>1, <3>2
    <2> QED  BY <2>1, <2>2, <2>7, <2>9 DEF AccessInv, People
<1>8. ASSUME NEW b \in Browsers, NEW ip \in Ips, Debug!Move(b, ip) PROVE AccessInv'
    <2>1. u2' = [u2 EXCEPT ![b].ip = ip] /\ UNCHANGED <<u1, u3, u4, u5, u6>>
        BY <1>8 DEF Debug!Move
    <2>2. /\ u2' \in People(Sessions)
          /\ \A c \in Browsers : u2'[c].token = u2[c].token /\ u2'[c].was = u2[c].was
        BY <2>1 DEF AccessInv, People
    <2>3. Sessions' = Sessions /\ AnswerIsRight' /\ \A c \in Browsers : Known(c)'
        BY <2>1, <2>2 DEF AccessInv, Sessions, AnswerIsRight, Known
    <2> QED  BY <2>1, <2>2, <2>3 DEF AccessInv, People
<1>9. ASSUME NEW b \in Browsers, NEW c \in Browsers, Debug!Copy(b, c) PROVE AccessInv'
    <2>1. u2' = [u2 EXCEPT ![c].session = u2[b].session] /\ UNCHANGED <<u1, u3, u4, u5, u6>>
        BY <1>9 DEF Debug!Copy
    <2>2. /\ u2' \in People(Sessions)
          /\ \A d \in Browsers : u2'[d].token = u2[d].token /\ u2'[d].was = u2[d].was
        BY <2>1 DEF AccessInv, People
    <2>3. Sessions' = Sessions /\ AnswerIsRight' /\ \A d \in Browsers : Known(d)'
        BY <2>1, <2>2 DEF AccessInv, Sessions, AnswerIsRight, Known
    <2> QED  BY <2>1, <2>2, <2>3 DEF AccessInv, People
<1> QED  BY <1>1, <1>2, <1>3, <1>4, <1>5, <1>6, <1>7, <1>8, <1>9 DEF Debug!Next

-----------------------------------------------------------------------------------
(* The rooms. Each critical section changes the membership of one connection, and drops  *)
(* a room with its last member.                                                        *)

IsRooms(r) == /\ DOMAIN r \subseteq Channels
              /\ r \in [DOMAIN r -> SUBSET Clients]
              /\ \A ch \in DOMAIN r : r[ch] # {}

In(r, c, ch) == ch \in DOMAIN r /\ c \in r[ch]

(* A connection that joins is in the room; nothing else changes.                        *)
LEMMA InsertAdds ==
    ASSUME NEW r, IsRooms(r), NEW ch \in Channels, NEW c \in Clients
    PROVE  /\ IsRooms(Insert(r, ch, c))
           /\ In(Insert(r, ch, c), c, ch)
           /\ \A d \in Clients, x \in Channels :
                  d # c \/ x # ch => (In(Insert(r, ch, c), d, x) <=> In(r, d, x))
<1> DEFINE new == Insert(r, ch, c)
<1>1. CASE ch \in DOMAIN r
    <2>1. new = [r EXCEPT ![ch] = r[ch] \union {c}]
        BY <1>1 DEF Insert
    <2>2. /\ DOMAIN new = DOMAIN r /\ new[ch] = r[ch] \union {c}
          /\ \A x \in DOMAIN r : x # ch => new[x] = r[x]
        BY <1>1, <2>1 DEF IsRooms
    <2>3. new \in [DOMAIN new -> SUBSET Clients]
        BY <1>1, <2>1, <2>2 DEF IsRooms
    <2> QED  BY <1>1, <2>2, <2>3 DEF IsRooms, In
<1>2. CASE ch \notin DOMAIN r
    <2>1. new = [x \in DOMAIN r \union {ch} |-> IF x = ch THEN {c} ELSE r[x]]
        BY <1>2 DEF Insert
    <2>2. /\ DOMAIN new = DOMAIN r \union {ch} /\ new[ch] = {c}
          /\ \A x \in DOMAIN r : new[x] = r[x]
        BY <1>2, <2>1
    <2>3. new \in [DOMAIN new -> SUBSET Clients]
        BY <2>1, <2>2 DEF IsRooms
    <2> QED  BY <1>2, <2>2, <2>3 DEF IsRooms, In
<1> QED  BY <1>1, <1>2

(* A connection that leaves is in the room no more; nothing else changes, unless it was *)
(* the last one there.                                                                 *)
LEMMA RemoveTakes ==
    ASSUME NEW r, IsRooms(r), NEW ch \in Channels, NEW c \in Clients
    PROVE  /\ IsRooms(Remove(r, ch, c))
           /\ ~In(Remove(r, ch, c), c, ch)
           /\ \A d \in Clients, x \in Channels :
                  d # c \/ x # ch => (In(Remove(r, ch, c), d, x) <=> In(r, d, x))
<1> DEFINE new == Remove(r, ch, c)
<1>1. CASE ch \notin DOMAIN r
    BY <1>1 DEF Remove, In
<1>2. CASE ch \in DOMAIN r /\ r[ch] \subseteq {c}
    <2>1. new = [x \in DOMAIN r \ {ch} |-> r[x]]
        BY <1>2 DEF Remove, Restrict
    <2>2. new \in [DOMAIN new -> SUBSET Clients] /\ DOMAIN new = DOMAIN r \ {ch}
        BY <2>1 DEF IsRooms
    <2>3. \A x \in DOMAIN new : new[x] = r[x]
        BY <2>1
    <2> QED  BY <1>2, <2>2, <2>3 DEF IsRooms, In
<1>3. CASE ch \in DOMAIN r /\ ~(r[ch] \subseteq {c})
    <2>1. new = [r EXCEPT ![ch] = r[ch] \ {c}]
        BY <1>3 DEF Remove
    <2>2. /\ DOMAIN new = DOMAIN r /\ new[ch] = r[ch] \ {c}
          /\ \A x \in DOMAIN r : x # ch => new[x] = r[x]
        BY <1>3, <2>1 DEF IsRooms
    <2>3. new \in [DOMAIN new -> SUBSET Clients]
        BY <1>3, <2>1, <2>2 DEF IsRooms
    <2> QED  BY <1>3, <2>2, <2>3 DEF IsRooms, In
<1> QED  BY <1>1, <1>2, <1>3

(* Cleanup takes one connection from the rooms it names, and no other connection.       *)
LEMMA RemoveAllTakes ==
    ASSUME NEW r, IsRooms(r), NEW channels \in SUBSET Channels, NEW c \in Clients
    PROVE  /\ IsRooms(RemoveAll(r, channels, c))
           /\ \A d \in Clients, x \in Channels :
                  d # c => (In(RemoveAll(r, channels, c), d, x) <=> In(r, d, x))
<1> DEFINE others == {ch \in DOMAIN r : ch \notin channels \/ r[ch] \ {c} # {}}
           new == RemoveAll(r, channels, c)
<1>1. new = [ch \in others |-> IF ch \in channels THEN r[ch] \ {c} ELSE r[ch]]
    BY DEF RemoveAll
<1>2. DOMAIN new = others /\ others \subseteq DOMAIN r
    BY <1>1
<1>3. \A ch \in others : new[ch] = IF ch \in channels THEN r[ch] \ {c} ELSE r[ch]
    BY <1>1
<1>4. new \in [DOMAIN new -> SUBSET Clients]
    BY <1>1, <1>2 DEF IsRooms
<1> HIDE DEF others
<1>5. \A ch \in others : new[ch] # {}
    BY <1>2, <1>3 DEF IsRooms, others
<1> QED  BY <1>2, <1>3, <1>4, <1>5 DEF IsRooms, In, others

Messages == [channel : Channels, sender : Clients \union {Server}]

Reading == {<<"idle">>, <<"ended">>} \union ({"joining", "leaving"} \X Channels)

Writing == {<<"recv">>, <<"ended">>} \union ({"send"} \X Nat)

Types == /\ log \in Seq(Messages)
         /\ conn \in [Clients -> {"new", "open", "closing", "gone"}]
         /\ aborted \subseteq Clients
         /\ subs \in [Clients -> SUBSET Channels]
         /\ reader \in [Clients -> Reading]
         /\ writer \in [Clients -> Writing]
         /\ cursor \in [Clients -> Nat]
         /\ \A c \in Clients : cursor[c] <= Len(log)
         /\ since \in [Clients -> [Channels -> Nat]]
         /\ delivered \in [Clients -> Seq(Nat)]

(* A connection that was not accepted yet has done nothing.                             *)
Untouched(c) == /\ subs[c] = {} /\ reader[c] = <<"idle">> /\ writer[c] = <<"recv">>
                /\ delivered[c] = <<>>

(* The set of a connection is ahead of the room that its reader is about to enter or to *)
(* leave, and agrees with all others until the connection is closed.                    *)
Moves(c, ch) == reader[c] \in {<<"joining", ch>>, <<"leaving", ch>>}

RoomOf(c) ==
    /\ conn[c] = "new" => Untouched(c)
    /\ c \in aborted => conn[c] \in {"closing", "gone"}
    /\ IsFiniteSet(subs[c]) /\ Cardinality(subs[c]) <= MaxChannels
    /\ \A ch \in Channels :
           /\ reader[c] = <<"joining", ch>> => ch \in subs[c]
           /\ reader[c] = <<"leaving", ch>> => ch \notin subs[c]
           /\ conn[c] \in {"new", "open"} /\ ~Moves(c, ch)
                 => (In(rooms, c, ch) <=> ch \in subs[c])

RoomInv == Types /\ IsRooms(rooms) /\ \A c \in Clients : RoomOf(c)

(* What the invariant says of the properties.                                           *)
LEMMA RoomsFollow == RoomInv => TypeOK /\ RoomsMatchSubscriptions /\ NoEmptyRoom
<1> SUFFICES ASSUME RoomInv PROVE TypeOK /\ RoomsMatchSubscriptions /\ NoEmptyRoom
    OBVIOUS
<1>1. TypeOK
    <2>1. \E dom \in SUBSET Channels : rooms \in [dom -> SUBSET Clients]
        BY DEF RoomInv, IsRooms
    <2>2. \A c \in Clients : cursor[c] \in 0 .. Len(log)
        BY DEF RoomInv, Types
    <2> QED  BY <2>1, <2>2 DEF RoomInv, Types, TypeOK, Messages, Reading, Writing
<1>2. RoomsMatchSubscriptions
    <2>1. \A c \in Clients, ch \in Channels : reader[c] = <<"idle">> => ~Moves(c, ch)
        BY DEF Moves
    <2> QED  BY <2>1 DEF RoomInv, RoomOf, RoomsMatchSubscriptions, Member, In
<1>3. NoEmptyRoom
    BY DEF RoomInv, IsRooms, NoEmptyRoom
<1> QED  BY <1>1, <1>2, <1>3

(* At the start there are no rooms, and nobody is connected.                            *)
LEMMA RoomsStart == Init => RoomInv
<1> SUFFICES ASSUME Init PROVE RoomInv
    OBVIOUS
<1>1. Types
    BY DEF Init, Types, Reading, Writing, Messages
<1>2. IsRooms(rooms) /\ DOMAIN rooms = {}
    BY DEF Init, IsRooms
<1>3. \A c \in Clients : Untouched(c)
    BY DEF Init, Untouched
<1>4. IsFiniteSet({}) /\ Cardinality({}) = 0 /\ 0 <= MaxChannels
    BY FS_EmptySet, RegistryAssumption
<1>5. \A c \in Clients, ch \in Channels : ~In(rooms, c, ch) /\ ~Moves(c, ch)
    BY <1>2, <1>3 DEF In, Moves, Untouched
<1> QED  BY <1>1, <1>2, <1>3, <1>4, <1>5 DEF Init, RoomInv, RoomOf, Untouched, Moves

(* A step of a connection, or of the application, keeps the types.                      *)
LEMMA TypesStay == Types /\ Next => Types'
<1> SUFFICES ASSUME Types, Next PROVE Types'
    OBVIOUS
<1>1. ASSUME NEW ch \in Channels, NEW sender \in Clients \union {Server}, Append1(ch, sender),
             UNCHANGED <<conn, aborted, subs, reader, writer, cursor, since, delivered>>
      PROVE  Types'
    <2>1. log' \in Seq(Messages) /\ Len(log') = Len(log) + 1
        BY <1>1 DEF Append1, Types, Messages
    <2> QED  BY <1>1, <2>1 DEF Types
<1>2. ASSUME NEW c \in Clients, NEW ch \in Channels,
             Join(c, ch) \/ JoinRoom(c, ch) \/ Leave(c, ch) \/ LeaveRoom(c, ch)
      PROVE  Types'
    <2>1. CASE Join(c, ch)
        BY <2>1 DEF Join, Reader, Types, Reading
    <2>2. CASE JoinRoom(c, ch)
        BY <2>2 DEF JoinRoom, Reader, Types, Reading
    <2>3. CASE Leave(c, ch)
        BY <2>3 DEF Leave, Reader, Types, Reading
    <2>4. CASE LeaveRoom(c, ch)
        BY <2>4 DEF LeaveRoom, Reader, Types, Reading
    <2> QED  BY <1>2, <2>1, <2>2, <2>3, <2>4
<1>3. ASSUME NEW c \in Clients, Connect(c) \/ ReaderEnds(c) \/ Select(c) \/ Stop(c) \/ Cleanup(c)
      PROVE  Types'
    <2>1. CASE Connect(c)
        <3>1. Len(log) \in Nat
            BY DEF Types
        <3> QED  BY <2>1, <3>1 DEF Connect, Types
    <2>2. CASE ReaderEnds(c)
        BY <2>2 DEF ReaderEnds, Reader, Types, Reading
    <2>3. CASE Select(c)
        BY <2>3 DEF Select, Types
    <2>4. CASE Stop(c)
        BY <2>4 DEF Stop, Reader, Writer, Types, Reading, Writing
    <2>5. CASE Cleanup(c)
        BY <2>5 DEF Cleanup, Types
    <2> QED  BY <1>3, <2>1, <2>2, <2>3, <2>4, <2>5
<1>4. ASSUME NEW c \in Clients, Take(c) PROVE Types'
    <2>1. /\ cursor[c] \in Nat /\ cursor' = [cursor EXCEPT ![c] = cursor[c] + 1]
          /\ cursor[c] + 1 <= Len(log) /\ log' = log
          /\ writer' = [writer EXCEPT ![c] = <<"send", cursor[c] + 1>>] \/ writer' = writer
        BY <1>4 DEF Take, Writer, Types
    <2>2. <<"send", cursor[c] + 1>> \in Writing
        BY <2>1 DEF Writing
    <2>3. writer' \in [Clients -> Writing]
        BY <2>1, <2>2 DEF Types
    <2>4. cursor' \in [Clients -> Nat] /\ \A d \in Clients : cursor'[d] <= Len(log')
        BY <2>1 DEF Types
    <2> QED  BY <1>4, <2>3, <2>4 DEF Take, Types
<1>5. ASSUME NEW c \in Clients, Lag(c) PROVE Types'
    BY <1>5 DEF Lag, Writer, Types, Writing
<1>6. ASSUME NEW c \in Clients, NEW i \in 1 .. Len(log), Deliver(c, i) PROVE Types'
    <2>1. i \in Nat
        OBVIOUS
    <2> QED  BY <1>6, <2>1 DEF Deliver, Writer, Types, Writing
<1>7. ASSUME NEW c \in Clients, NEW i \in 1 .. Len(log), SocketFails(c, i) PROVE Types'
    BY <1>7 DEF SocketFails, Writer, Types, Writing
<1>8. ASSUME NEW ch \in Channels, Broadcast(ch) PROVE Types'
    BY <1>1, <1>8 DEF Broadcast
<1>9. ASSUME NEW c \in Clients, NEW ch \in Channels, Publish(c, ch) PROVE Types'
    BY <1>1, <1>9 DEF Publish
<1> QED  BY <1>2, <1>3, <1>4, <1>5, <1>6, <1>7, <1>8, <1>9 DEF Next, ReadTask, RoomTask, WriteTask

(* A connection that does nothing is in the rooms it was in.                            *)
LEMMA BystanderStays ==
    ASSUME NEW d \in Clients, RoomOf(d),
           subs'[d] = subs[d], reader'[d] = reader[d], writer'[d] = writer[d],
           conn'[d] = conn[d], delivered'[d] = delivered[d],
           d \in aborted' => d \in aborted,
           \A ch \in Channels : In(rooms, d, ch)' <=> In(rooms, d, ch)
    PROVE  RoomOf(d)'
BY DEF RoomOf, Untouched, Moves

(* No step of a connection separates what another one is in from what it asked for, and  *)
(* its own steps go through the two in order.                                          *)
LEMMA RoomsKeep == RoomInv /\ Next => RoomInv'
<1> SUFFICES ASSUME RoomInv, Next PROVE RoomInv'
    OBVIOUS
<1>0. Types /\ Types' /\ IsRooms(rooms) /\ \A d \in Clients : RoomOf(d)
    BY TypesStay DEF RoomInv
<1>1. ASSUME NEW ch \in Channels, NEW sender, Append1(ch, sender),
             UNCHANGED <<rooms, conn, aborted, subs, reader, writer, cursor, since, delivered>>
      PROVE  RoomInv'
    <2>1. \A d \in Clients : RoomOf(d)'
        BY <1>0, <1>1, BystanderStays DEF In
    <2> QED  BY <1>0, <1>1, <2>1 DEF RoomInv
<1>2. ASSUME NEW c \in Clients, NEW ch \in Channels, Join(c, ch) PROVE RoomInv'
    <2>1. /\ UNCHANGED <<rooms, conn, aborted, writer, delivered>>
          /\ conn[c] # "new" /\ reader[c] = <<"idle">>
          /\ subs' = [subs EXCEPT ![c] = subs[c] \union {ch}]
          /\ reader' = [reader EXCEPT ![c] = <<"joining", ch>>]
        BY <1>2 DEF Join, Reads, Reader
    <2>2. \A d \in Clients : d # c => RoomOf(d)'
        BY <1>0, <2>1, BystanderStays DEF Types, In
    <2>3. subs'[c] = subs[c] \union {ch} /\ reader'[c] = <<"joining", ch>>
        BY <1>0, <2>1 DEF Types
    <2>4. IsFiniteSet(subs'[c]) /\ Cardinality(subs'[c]) <= MaxChannels
        <3>1. IsFiniteSet(subs[c]) /\ Cardinality(subs[c]) <= MaxChannels /\ Cardinality(subs[c]) \in Nat
            BY <1>0, FS_CardinalityType DEF RoomOf
        <3>2. CASE ch \in subs[c]
            <4>1. subs'[c] = subs[c]
                BY <2>3, <3>2
            <4> QED  BY <3>1, <4>1
        <3>3. CASE ch \notin subs[c]
            <4>1. ~Full(c)
                BY <1>2, <3>3 DEF Join
            <4>2. Cardinality(subs'[c]) = Cardinality(subs[c]) + 1 /\ IsFiniteSet(subs'[c])
                BY <2>3, <3>1, <3>3, FS_AddElement
            <4> QED  BY <3>1, <4>1, <4>2, RegistryAssumption DEF Full
        <3> QED  BY <3>2, <3>3
    <2>5. RoomOf(c)'
        <3>1. \A x \in Channels : x # ch => ~Moves(c, x) /\ (x \in subs'[c] <=> x \in subs[c])
            BY <2>1, <2>3 DEF Moves
        <3>2. Moves(c, ch)' /\ ch \in subs'[c]
            BY <2>3 DEF Moves
        <3>3. \A x \in Channels :
                  /\ reader'[c] = <<"joining", x>> => x \in subs'[c]
                  /\ reader'[c] = <<"leaving", x>> => x \notin subs'[c]
            BY <2>3
        <3>4. \A x \in Channels : conn[c] \in {"new", "open"} /\ ~Moves(c, x)'
                                     => (In(rooms, c, x) <=> x \in subs'[c])
            BY <1>0, <3>1, <3>2 DEF RoomOf
        <3>5. conn'[c] # "new" /\ (c \in aborted' => conn'[c] \in {"closing", "gone"})
            BY <1>0, <2>1 DEF RoomOf
        <3>6. conn'[c] = conn[c] /\ \A x \in Channels : In(rooms, c, x)' <=> In(rooms, c, x)
            BY <2>1 DEF In
        <3> QED  BY <2>4, <3>3, <3>4, <3>5, <3>6 DEF RoomOf
    <2> QED  BY <1>0, <2>1, <2>2, <2>5 DEF RoomInv
<1>3. ASSUME NEW c \in Clients, NEW ch \in Channels, Leave(c, ch) PROVE RoomInv'
    <2>1. /\ UNCHANGED <<rooms, conn, aborted, writer, delivered>>
          /\ conn[c] # "new" /\ reader[c] = <<"idle">>
          /\ subs' = [subs EXCEPT ![c] = subs[c] \ {ch}]
          /\ reader' = [reader EXCEPT ![c] = <<"leaving", ch>>]
        BY <1>3 DEF Leave, Reads, Reader
    <2>2. \A d \in Clients : d # c => RoomOf(d)'
        BY <1>0, <2>1, BystanderStays DEF Types, In
    <2>3. subs'[c] = subs[c] \ {ch} /\ reader'[c] = <<"leaving", ch>>
        BY <1>0, <2>1 DEF Types
    <2>4. IsFiniteSet(subs'[c]) /\ Cardinality(subs'[c]) <= MaxChannels
        <3>1. IsFiniteSet(subs[c]) /\ Cardinality(subs[c]) <= MaxChannels /\ Cardinality(subs[c]) \in Nat
            BY <1>0, FS_CardinalityType DEF RoomOf
        <3>2. /\ IsFiniteSet(subs'[c]) /\ Cardinality(subs'[c]) \in Nat
              /\ Cardinality(subs'[c]) <= Cardinality(subs[c])
            BY <2>3, <3>1, FS_Subset, FS_CardinalityType
        <3> QED  BY <3>1, <3>2, RegistryAssumption
    <2>5. RoomOf(c)'
        <3>1. \A x \in Channels : x # ch => ~Moves(c, x) /\ (x \in subs'[c] <=> x \in subs[c])
            BY <2>1, <2>3 DEF Moves
        <3>2. Moves(c, ch)' /\ ch \notin subs'[c]
            BY <2>3 DEF Moves
        <3>3. \A x \in Channels :
                  /\ reader'[c] = <<"joining", x>> => x \in subs'[c]
                  /\ reader'[c] = <<"leaving", x>> => x \notin subs'[c]
            BY <2>3
        <3>4. \A x \in Channels : conn[c] \in {"new", "open"} /\ ~Moves(c, x)'
                                     => (In(rooms, c, x) <=> x \in subs'[c])
            BY <1>0, <3>1, <3>2 DEF RoomOf
        <3>5. conn'[c] # "new" /\ (c \in aborted' => conn'[c] \in {"closing", "gone"})
            BY <1>0, <2>1 DEF RoomOf
        <3>6. conn'[c] = conn[c] /\ \A x \in Channels : In(rooms, c, x)' <=> In(rooms, c, x)
            BY <2>1 DEF In
        <3> QED  BY <2>4, <3>3, <3>4, <3>5, <3>6 DEF RoomOf
    <2> QED  BY <1>0, <2>1, <2>2, <2>5 DEF RoomInv
<1>4. ASSUME NEW c \in Clients, NEW ch \in Channels, JoinRoom(c, ch) \/ LeaveRoom(c, ch)
      PROVE  RoomInv'
    <2>1. /\ UNCHANGED <<conn, aborted, subs, writer, delivered>>
          /\ conn[c] # "new" /\ Moves(c, ch)
          /\ reader' = [reader EXCEPT ![c] = <<"idle">>] /\ reader'[c] = <<"idle">>
        BY <1>0, <1>4 DEF JoinRoom, LeaveRoom, Reads, Reader, Moves, Types
    <2>2. IsRooms(rooms')
        BY <1>0, <1>4, InsertAdds, RemoveTakes DEF JoinRoom, LeaveRoom
    <2>3. \A d \in Clients, x \in Channels : d # c \/ x # ch => (In(rooms', d, x) <=> In(rooms, d, x))
        BY <1>0, <1>4, InsertAdds, RemoveTakes DEF JoinRoom, LeaveRoom
    <2>4. In(rooms', c, ch) <=> ch \in subs[c]
        <3>1. CASE JoinRoom(c, ch)
            BY <1>0, <3>1, InsertAdds DEF JoinRoom, Reads, RoomOf
        <3>2. CASE LeaveRoom(c, ch)
            BY <1>0, <3>2, RemoveTakes DEF LeaveRoom, Reads, RoomOf
        <3> QED  BY <1>4, <3>1, <3>2
    <2>5. \A d \in Clients : d # c => RoomOf(d)'
        BY <1>0, <2>1, <2>3, BystanderStays DEF Types, In
    <2>6. RoomOf(c)'
        <3>1. \A x \in Channels : x # ch => ~Moves(c, x)
            BY <2>1 DEF Moves
        <3>2. \A x \in Channels : conn[c] \in {"new", "open"} => (In(rooms', c, x) <=> x \in subs[c])
            BY <1>0, <2>3, <2>4, <3>1 DEF RoomOf
        <3>3. IsFiniteSet(subs[c]) /\ Cardinality(subs[c]) <= MaxChannels
            BY <1>0 DEF RoomOf
        <3>4. conn'[c] # "new" /\ (c \in aborted' => conn'[c] \in {"closing", "gone"})
            BY <1>0, <2>1 DEF RoomOf
        <3>5. \A x \in Channels : reader'[c] # <<"joining", x>> /\ reader'[c] # <<"leaving", x>>
            BY <2>1
        <3>6. /\ conn'[c] = conn[c] /\ subs'[c] = subs[c]
              /\ \A x \in Channels : In(rooms, c, x)' <=> In(rooms', c, x)
            BY <2>1 DEF In
        <3> QED  BY <3>2, <3>3, <3>4, <3>5, <3>6 DEF RoomOf
    <2> QED  BY <1>0, <2>2, <2>5, <2>6 DEF RoomInv, IsRooms
<1>5. ASSUME NEW c \in Clients, Connect(c) \/ ReaderEnds(c) \/ Select(c) \/ Stop(c)
      PROVE  RoomInv'
    <2>1. /\ UNCHANGED <<rooms, subs, delivered>>
          /\ \A d \in Clients : d # c => /\ conn'[d] = conn[d] /\ reader'[d] = reader[d]
                                         /\ writer'[d] = writer[d] /\ (d \in aborted' => d \in aborted)
        BY <1>0, <1>5 DEF Connect, ReaderEnds, Select, Stop, Reader, Writer, Types
    <2>2. \A d \in Clients : d # c => RoomOf(d)'
        BY <1>0, <2>1, BystanderStays DEF In
    <2>3. /\ conn'[c] # "new"
          /\ conn'[c] = "open" => conn[c] \in {"new", "open"}
          /\ c \in aborted' => conn'[c] \in {"closing", "gone"}
          /\ \/ reader'[c] = reader[c]
             \/ reader'[c] = <<"ended">> /\ (reader[c] = <<"idle">> \/ conn'[c] # "open")
        <3>1. CASE Connect(c)
            BY <1>0, <3>1 DEF Connect, Types, RoomOf
        <3>2. CASE ReaderEnds(c)
            BY <1>0, <3>2 DEF ReaderEnds, Reads, Reader, Types, RoomOf
        <3>3. CASE Select(c)
            BY <1>0, <3>3 DEF Select, Types
        <3>4. CASE Stop(c)
            BY <1>0, <3>4 DEF Stop, Reader, Types, RoomOf
        <3> QED  BY <1>5, <3>1, <3>2, <3>3, <3>4
    <2>4. RoomOf(c)'
        BY <1>0, <2>1, <2>3 DEF RoomOf, Moves, In
    <2> QED  BY <1>0, <2>1, <2>2, <2>4 DEF RoomInv
<1>6. ASSUME NEW c \in Clients, Cleanup(c) PROVE RoomInv'
    <2>1. /\ UNCHANGED <<aborted, subs, reader, writer, delivered>> /\ conn'[c] = "gone"
          /\ \A d \in Clients : d # c => conn'[d] = conn[d]
          /\ rooms' = RemoveAll(rooms, subs[c], c) /\ subs[c] \in SUBSET Channels
        BY <1>0, <1>6 DEF Cleanup, Types
    <2>2. /\ IsRooms(rooms')
          /\ \A d \in Clients, x \in Channels : d # c => (In(rooms', d, x) <=> In(rooms, d, x))
        BY <1>0, <2>1, RemoveAllTakes
    <2>3. \A d \in Clients : d # c => RoomOf(d)'
        BY <1>0, <2>1, <2>2, BystanderStays DEF In
    <2>4. RoomOf(c)'
        BY <1>0, <2>1 DEF RoomOf
    <2> QED  BY <1>0, <2>2, <2>3, <2>4 DEF RoomInv, IsRooms
<1>7. ASSUME NEW c \in Clients, WriteTask(c) PROVE RoomInv'
    <2>1. /\ UNCHANGED <<rooms, conn, aborted, subs, reader>> /\ conn[c] # "new"
          /\ \A d \in Clients : d # c => writer'[d] = writer[d] /\ delivered'[d] = delivered[d]
        BY <1>0, <1>7 DEF WriteTask, Take, Lag, Deliver, SocketFails, Writes, Writer, Types
    <2>2. \A d \in Clients : d # c => RoomOf(d)'
        BY <1>0, <2>1, BystanderStays DEF In
    <2>3. RoomOf(c)'
        BY <1>0, <2>1 DEF RoomOf, Moves, In
    <2> QED  BY <1>0, <2>1, <2>2, <2>3 DEF RoomInv
<1>8. ASSUME NEW ch \in Channels, Broadcast(ch) PROVE RoomInv'
    BY <1>1, <1>8 DEF Broadcast
<1>9. ASSUME NEW c \in Clients, NEW ch \in Channels, Publish(c, ch) PROVE RoomInv'
    BY <1>1, <1>9 DEF Publish
<1> QED  BY <1>2, <1>3, <1>4, <1>5, <1>6, <1>7, <1>8, <1>9 DEF Next, ReadTask, RoomTask

-----------------------------------------------------------------------------------
(* The messages. What a writer was given lies behind its cursor, in order; what it is    *)
(* writing is the last one it took; and who subscribes is owed only what comes later.    *)

Due(c, i) == /\ log[i].channel \in subs[c] /\ since[c][log[i].channel] < i
             /\ log[i].sender # c

GapOf(c) ==
    /\ \A i, k \in DOMAIN delivered[c] : i < k => delivered[c][i] < delivered[c][k]
    /\ \A i \in DOMAIN delivered[c] : delivered[c][i] <= cursor[c]
    /\ \A m \in Nat : writer[c] = <<"send", m>> =>
           m = cursor[c] /\ \A i \in DOMAIN delivered[c] : delivered[c][i] < m
    /\ writer[c] # <<"ended">> =>
           \A i \in 1 .. cursor[c] :
               Due(c, i) => i \in Range(delivered[c]) \/ writer[c] = <<"send", i>>

GapInv == RoomInv /\ \A c \in Clients : GapOf(c)

(* At the start nothing was sent.                                                       *)
LEMMA GapsStart == Init => GapInv
<1> SUFFICES ASSUME Init PROVE GapInv
    OBVIOUS
<1>1. ASSUME NEW c \in Clients PROVE GapOf(c)
    <2>1. cursor[c] = 0 /\ delivered[c] = <<>> /\ writer[c] = <<"recv">>
        BY DEF Init
    <2> QED  BY <2>1 DEF GapOf
<1> QED  BY <1>1, RoomsStart DEF GapInv

(* The log only grows: a connection that neither takes, nor writes, nor subscribes to    *)
(* anything new is owed what it was owed.                                              *)
LEMMA NothingIsOwed ==
    ASSUME Types, NEW d \in Clients, GapOf(d),
           subs'[d] \subseteq subs[d], since'[d] = since[d], cursor'[d] = cursor[d],
           delivered'[d] = delivered[d],
           writer'[d] = writer[d] \/ writer'[d] = <<"ended">>,
           \A i \in 1 .. Len(log) : log'[i] = log[i]
    PROVE  GapOf(d)'
<1>1. cursor[d] \in Nat /\ cursor[d] <= Len(log) /\ Len(log) \in Nat
    BY DEF Types
<1>2. \A i \in 1 .. cursor[d] : Due(d, i)' => Due(d, i)
    BY <1>1 DEF Due
<1>3. writer'[d] # <<"ended">> =>
          \A i \in 1 .. cursor[d] :
              Due(d, i)' => i \in Range(delivered[d]) \/ writer'[d] = <<"send", i>>
    BY <1>2 DEF GapOf
<1>4. \A m \in Nat : writer'[d] = <<"send", m>> => writer'[d] = writer[d]
    OBVIOUS
<1> QED  BY <1>3, <1>4 DEF GapOf

(* Every step of a connection keeps it: a message that its writer passes over was not    *)
(* for it, and one that it takes is written next or the connection ends.                *)
LEMMA GapsKeep == GapInv /\ Next => GapInv'
<1> SUFFICES ASSUME GapInv, Next PROVE GapInv'
    OBVIOUS
<1>0. /\ Types /\ Types' /\ RoomInv' /\ \A d \in Clients : GapOf(d) /\ RoomOf(d)
      /\ Len(log) \in Nat
    BY TypesStay, RoomsKeep DEF GapInv, RoomInv, Types
<1>1. ASSUME NEW ch \in Channels, NEW sender \in Clients \union {Server}, Append1(ch, sender),
             UNCHANGED <<subs, writer, cursor, since, delivered>>
      PROVE  GapInv'
    <2>1. \A i \in 1 .. Len(log) : log'[i] = log[i]
        BY <1>0, <1>1 DEF Append1, Types, Messages
    <2>2. \A d \in Clients : GapOf(d)'
        BY <1>0, <1>1, <2>1, NothingIsOwed
    <2> QED  BY <1>0, <2>2 DEF GapInv
<1>2. ASSUME NEW c \in Clients, NEW ch \in Channels, Join(c, ch) PROVE GapInv'
    <2>1. /\ UNCHANGED <<log, writer, cursor, delivered>>
          /\ subs' = [subs EXCEPT ![c] = subs[c] \union {ch}]
          /\ since' = IF ch \in subs[c] THEN since ELSE [since EXCEPT ![c][ch] = Len(log)]
        BY <1>2 DEF Join
    <2>2. \A d \in Clients : d # c => subs'[d] = subs[d] /\ since'[d] = since[d]
        BY <1>0, <2>1 DEF Types
    <2>3. \A d \in Clients : d # c => GapOf(d)'
        BY <1>0, <2>1, <2>2, NothingIsOwed
    <2>4. GapOf(c)'
        <3>1. cursor[c] \in Nat /\ cursor[c] <= Len(log)
            BY <1>0 DEF Types
        <3>2. CASE ch \in subs[c]
            <4>1. subs'[c] = subs[c] /\ since'[c] = since[c]
                BY <1>0, <2>1, <3>2 DEF Types
            <4> QED  BY <1>0, <2>1, <4>1, NothingIsOwed
        <3>3. CASE ch \notin subs[c]
            <4>1. /\ subs'[c] = subs[c] \union {ch} /\ since'[c][ch] = Len(log)
                  /\ \A x \in Channels : x # ch => since'[c][x] = since[c][x]
                BY <1>0, <2>1, <3>3 DEF Types
            <4>2. \A i \in 1 .. cursor[c] : log[i].channel \in Channels
                <5>1. \A i \in 1 .. Len(log) : log[i] \in Messages
                    BY <1>0 DEF Types
                <5> QED  BY <1>0, <3>1, <5>1 DEF Messages
            <4>3. \A i \in 1 .. cursor[c] : Due(c, i)' => Due(c, i)
                BY <1>0, <2>1, <3>1, <4>1, <4>2 DEF Due
            <4> QED  BY <1>0, <2>1, <4>3 DEF GapOf
        <3> QED  BY <3>2, <3>3
    <2> QED  BY <1>0, <2>3, <2>4 DEF GapInv
<1>3. ASSUME NEW c \in Clients, NEW ch \in Channels,
             Leave(c, ch) \/ JoinRoom(c, ch) \/ LeaveRoom(c, ch)
      PROVE  GapInv'
    <2>1. /\ UNCHANGED <<log, writer, cursor, since, delivered>>
          /\ \A d \in Clients : subs'[d] \subseteq subs[d]
        BY <1>0, <1>3 DEF Leave, JoinRoom, LeaveRoom, Types
    <2>2. \A d \in Clients : GapOf(d)'
        BY <1>0, <2>1, NothingIsOwed
    <2> QED  BY <1>0, <2>2 DEF GapInv
<1>4. ASSUME NEW c \in Clients, Connect(c) PROVE GapInv'
    <2>1. /\ UNCHANGED <<log, writer, subs, since, delivered>> /\ conn[c] = "new"
          /\ cursor' = [cursor EXCEPT ![c] = Len(log)]
        BY <1>4 DEF Connect
    <2>2. \A d \in Clients : d # c => cursor'[d] = cursor[d]
        BY <1>0, <2>1 DEF Types
    <2>3. \A d \in Clients : d # c => GapOf(d)'
        BY <1>0, <2>1, <2>2, NothingIsOwed
    <2>4. subs'[c] = {} /\ writer'[c] = <<"recv">> /\ delivered'[c] = <<>>
        BY <1>0, <2>1 DEF RoomOf, Untouched
    <2>5. GapOf(c)'
        BY <2>4 DEF GapOf, Due
    <2> QED  BY <1>0, <2>3, <2>5 DEF GapInv
<1>5. ASSUME NEW c \in Clients,
             \/ ReaderEnds(c) \/ Select(c) \/ Stop(c) \/ Cleanup(c) \/ Lag(c)
             \/ \E i \in 1 .. Len(log) : SocketFails(c, i)
      PROVE  GapInv'
    <2>1. /\ UNCHANGED <<log, cursor, subs, since, delivered>>
          /\ \A d \in Clients : writer'[d] = writer[d] \/ writer'[d] = <<"ended">>
        BY <1>0, <1>5 DEF ReaderEnds, Select, Stop, Cleanup, Lag, SocketFails, Writer, Types
    <2>2. \A d \in Clients : GapOf(d)'
        BY <1>0, <2>1, NothingIsOwed
    <2> QED  BY <1>0, <2>2 DEF GapInv
<1>6. ASSUME NEW c \in Clients, Take(c) PROVE GapInv'
    <2> DEFINE next == cursor[c] + 1
    <2>1. /\ UNCHANGED <<log, subs, since, delivered>> /\ writer[c] = <<"recv">>
          /\ cursor' = [cursor EXCEPT ![c] = next] /\ next <= Len(log)
          /\ IF log[next].sender # c /\ log[next].channel \in subs[c]
             THEN writer' = [writer EXCEPT ![c] = <<"send", next>>] ELSE writer' = writer
        BY <1>6 DEF Take, Writes, Writer
    <2>2. \A d \in Clients : d # c => cursor'[d] = cursor[d] /\ writer'[d] = writer[d]
        BY <1>0, <2>1 DEF Types
    <2>3. \A d \in Clients : d # c => GapOf(d)'
        BY <1>0, <2>1, <2>2, NothingIsOwed
    <2>4. GapOf(c)'
        <3>1. cursor[c] \in Nat /\ next \in Nat /\ cursor'[c] = next /\ delivered'[c] = delivered[c]
            BY <1>0, <2>1 DEF Types
        <3>2. /\ Due(c, next) => writer'[c] = <<"send", next>>
              /\ writer'[c] \in {<<"recv">>, <<"send", next>>}
            BY <1>0, <2>1, <3>1 DEF Types, Due
        <3>3. \A i \in DOMAIN delivered[c] : delivered[c][i] \in Nat /\ delivered[c][i] < next
            <4>1. \A i \in DOMAIN delivered[c] : delivered[c][i] \in Nat
                BY <1>0 DEF Types
            <4> QED  BY <1>0, <3>1, <4>1 DEF GapOf
        <3>4. \A i \in 1 .. next : i = next \/ i \in 1 .. cursor[c]
            BY <3>1
        <3>5. \A i \in 1 .. cursor[c] : Due(c, i) => i \in Range(delivered[c])
            BY <1>0, <2>1 DEF GapOf
        <3>6. \A i \in 1 .. next : Due(c, i)' => i \in Range(delivered'[c]) \/ writer'[c] = <<"send", i>>
            BY <2>1, <3>1, <3>2, <3>4, <3>5 DEF Due
        <3>7. \A m \in Nat : writer'[c] = <<"send", m>> => m = next
            BY <3>2
        <3>8. \A i, k \in DOMAIN delivered[c] : i < k => delivered[c][i] < delivered[c][k]
            BY <1>0 DEF GapOf
        <3>9. \A i \in DOMAIN delivered[c] : delivered[c][i] <= next
            BY <3>1, <3>3
        <3> QED  BY <3>1, <3>3, <3>6, <3>7, <3>8, <3>9 DEF GapOf
    <2> QED  BY <1>0, <2>3, <2>4 DEF GapInv
<1>7. ASSUME NEW c \in Clients, NEW m \in 1 .. Len(log), Deliver(c, m) PROVE GapInv'
    <2>1. /\ UNCHANGED <<log, subs, since, cursor>> /\ writer[c] = <<"send", m>> /\ m \in Nat
          /\ delivered' = [delivered EXCEPT ![c] = Append(delivered[c], m)]
          /\ writer' = [writer EXCEPT ![c] = <<"recv">>]
        BY <1>7 DEF Deliver, Writes, Writer
    <2>2. \A d \in Clients : d # c => delivered'[d] = delivered[d] /\ writer'[d] = writer[d]
        BY <1>0, <2>1 DEF Types
    <2>3. \A d \in Clients : d # c => GapOf(d)'
        BY <1>0, <2>1, <2>2, NothingIsOwed
    <2>4. GapOf(c)'
        <3> DEFINE n == Len(delivered[c])
        <3>1. /\ delivered[c] \in Seq(Nat) /\ n \in Nat /\ cursor[c] \in Nat
              /\ delivered'[c] = Append(delivered[c], m) /\ writer'[c] = <<"recv">>
            BY <1>0, <2>1 DEF Types
        <3>2. /\ DOMAIN delivered'[c] = 1 .. n + 1 /\ DOMAIN delivered[c] = 1 .. n
              /\ delivered'[c][n + 1] = m
              /\ \A i \in 1 .. n : delivered'[c][i] = delivered[c][i] /\ delivered[c][i] \in Nat
            BY <2>1, <3>1
        <3>3. m = cursor[c] /\ \A i \in 1 .. n : delivered[c][i] < m
            BY <1>0, <2>1, <3>2 DEF GapOf
        <3>4. \A i, k \in 1 .. n : i < k => delivered[c][i] < delivered[c][k]
            BY <1>0, <3>2 DEF GapOf
        <3> HIDE DEF n
        <3>5. \A i, k \in DOMAIN delivered'[c] : i < k => delivered'[c][i] < delivered'[c][k]
            BY <3>1, <3>2, <3>3, <3>4
        <3>6. \A i \in DOMAIN delivered'[c] : delivered'[c][i] <= cursor[c]
            BY <2>1, <3>1, <3>2, <3>3
        <3>7. Range(delivered[c]) \union {m} \subseteq Range(delivered'[c])
            BY <3>1, <3>2 DEF Range
        <3>8. \A i \in 1 .. cursor[c] : Due(c, i) => i \in Range(delivered[c]) \/ i = m
            BY <1>0, <2>1 DEF GapOf
        <3>9. \A i \in 1 .. cursor[c] : Due(c, i)' => i \in Range(delivered'[c])
            BY <2>1, <3>7, <3>8 DEF Due
        <3> QED  BY <2>1, <3>1, <3>5, <3>6, <3>9 DEF GapOf
    <2> QED  BY <1>0, <2>3, <2>4 DEF GapInv
<1>8. ASSUME NEW ch \in Channels, Broadcast(ch) PROVE GapInv'
    BY <1>1, <1>8 DEF Broadcast
<1>9. ASSUME NEW c \in Clients, NEW ch \in Channels, Publish(c, ch) PROVE GapInv'
    BY <1>1, <1>9 DEF Publish
<1> QED  BY <1>2, <1>3, <1>4, <1>5, <1>6, <1>7, <1>8, <1>9 DEF Next, ReadTask, RoomTask, WriteTask

-----------------------------------------------------------------------------------
(* The collector. What a dashboard that kept up was not told in the totals, it is told   *)
(* by what is broadcast from the moment on at which it subscribed.                       *)

Records == [id : Nat, kind : Kinds]

CollectorTypes ==
    /\ u1 \in [lists : [Kinds -> Seq(Records)], next_id : 1 .. MaxRecords + 1, totals : [Kinds -> Nat]]
    /\ u2 \in [Recorders -> [at : {"idle"}] \union [at : {"broadcast"}, record : Records]]
    /\ u3 \in Seq(Records)
    /\ u4 \in [at : {"away", "subscribed", "following", "gone"}, next : Nat, counted : [Kinds -> Nat],
               got : Seq(Records), lagged : BOOLEAN]
    /\ u5 \in [at : {"reading", "done"}, left : SUBSET Kinds, lists : [Kinds -> Seq(Records)],
               totals : [Kinds -> Nat]]
    /\ u6 \in [all : [Kinds -> Seq(Records)], cleared : [Kinds -> Nat]]

(* A record that is yet to be broadcast. *)
Pending(r) == u2[r].at = "broadcast"

(* A record has a number of its own, higher than those before it.                       *)
Numbered ==
    /\ \A kind \in Kinds :
           /\ \A i \in 1 .. Len(u6.all[kind]) : u6.all[kind][i].id < u1.next_id
           /\ \A i, j \in 1 .. Len(u6.all[kind]) : i < j => u6.all[kind][i].id < u6.all[kind][j].id
    /\ \A i \in 1 .. Len(u3) : u3[i].id < u1.next_id
    /\ \A i, j \in 1 .. Len(u3) : u3[i].id = u3[j].id => i = j
    /\ \A r \in Recorders :
           Pending(r) => /\ u2[r].record.id < u1.next_id
                         /\ \A i \in 1 .. Len(u3) : u3[i].id # u2[r].record.id
                         /\ \A q \in Recorders : Pending(q) /\ u2[q].record.id = u2[r].record.id => q = r

Listed(kind) == Collector!Least(Len(u6.all[kind]) - u6.cleared[kind], MaxOf[kind])

Latest ==
    \A kind \in Kinds :
        /\ u6.cleared[kind] <= Len(u6.all[kind])
        /\ Len(u1.lists[kind]) = Listed(kind)
        /\ \A i \in 1 .. Listed(kind) :
               u1.lists[kind][i] = u6.all[kind][Len(u6.all[kind]) - Listed(kind) + i]
        /\ u1.totals[kind] = Len(u6.all[kind])

(* What is broadcast, or will be, since the dashboard subscribed.                       *)
Reached(id) == \/ \E r \in Recorders : Pending(r) /\ u2[r].record.id = id
               \/ \E j \in u4.next - Len(u4.got) .. Len(u3) : u3[j].id = id

Followed ==
    /\ u4.next \in 1 .. Len(u3) + 1
    /\ u4.at \in {"away", "subscribed"} => u4.got = <<>>
    /\ \A i \in 1 .. Len(u4.got) : \E j \in 1 .. u4.next - 1 : u4.got[i] = u3[j]
    /\ \A i, j \in 1 .. Len(u4.got) : u4.got[i].id = u4.got[j].id => i = j
    /\ ~u4.lagged =>
           /\ Len(u4.got) < u4.next
           /\ \A i \in 1 .. Len(u4.got) : u4.got[i] = u3[u4.next - Len(u4.got) + i - 1]

Announced ==
    u4.at = "following" /\ ~u4.lagged =>
        \A kind \in Kinds : \A i \in u4.counted[kind] + 1 .. Len(u6.all[kind]) :
            Reached(u6.all[kind][i].id)

(* Newest first, and counted. *)
Newest(list) == \A i \in 1 .. Len(list) - 1 : list[i].id > list[i + 1].id

Paged == \A kind \in Kinds :
             /\ Newest(u5.lists[kind])
             /\ Len(u5.lists[kind]) <= u1.totals[kind]
             /\ u5.at = "done" => Len(u5.lists[kind]) <= u5.totals[kind]

CollectorInv == CollectorTypes /\ Numbered /\ Latest /\ Followed /\ Announced /\ Paged

LEMMA Positive == Ring \in Nat \ {0} /\ MaxRecords \in Nat /\ MaxOf \in [Kinds -> Nat \ {0}]
    BY InstanceAssumptions DEF Collector!CollectorAssumption

(* What the types say of each part. *)
LEMMA Shaped ==
    ASSUME CollectorTypes
    PROVE  /\ u1.next_id \in Nat /\ u3 \in Seq(Records) /\ u4.got \in Seq(Records) /\ u4.next \in Nat
           /\ \A kind \in Kinds :
                  /\ u1.lists[kind] \in Seq(Records) /\ u6.all[kind] \in Seq(Records)
                  /\ u5.lists[kind] \in Seq(Records) /\ u1.totals[kind] \in Nat
                  /\ u6.cleared[kind] \in Nat /\ u4.counted[kind] \in Nat
           /\ \A r \in Recorders : Pending(r) => u2[r].record \in Records
<1> HIDE DEF Records
<1>1. /\ u1.next_id \in Nat /\ u3 \in Seq(Records) /\ u4.got \in Seq(Records) /\ u4.next \in Nat
      /\ \A r \in Recorders : Pending(r) => u2[r].record \in Records
    BY Positive DEF CollectorTypes, Pending
<1>2. ASSUME NEW kind \in Kinds
      PROVE  /\ u1.lists[kind] \in Seq(Records) /\ u6.all[kind] \in Seq(Records)
             /\ u5.lists[kind] \in Seq(Records) /\ u1.totals[kind] \in Nat
             /\ u6.cleared[kind] \in Nat /\ u4.counted[kind] \in Nat
    BY DEF CollectorTypes
<1> QED  BY <1>1, <1>2

LEMMA Entries ==
    ASSUME NEW w \in Seq(Records)
    PROVE  /\ Len(w) \in Nat
           /\ \A i \in 1 .. Len(w) : w[i] \in Records /\ w[i].id \in Nat
<1>1. \A x \in Records : x.id \in Nat
    BY DEF Records
<1> HIDE DEF Records
<1> QED  BY <1>1, ElementOfSeq

LEMMA Lengthens ==
    ASSUME NEW S, NEW w \in Seq(S), NEW x \in S
    PROVE  /\ Append(w, x) \in Seq(S) /\ Len(Append(w, x)) = Len(w) + 1
           /\ Append(w, x)[Len(w) + 1] = x
           /\ \A i \in 1 .. Len(w) : Append(w, x)[i] = w[i]
    OBVIOUS

LEMMA CollectorStarts == Collector!Init => CollectorInv
<1> SUFFICES ASSUME Collector!Init PROVE CollectorInv
    OBVIOUS
<1>1. <<>> \in Seq(Records) /\ Len(<<>>) = 0
    OBVIOUS
<1> HIDE DEF Records
<1>2. CollectorTypes
    <2>1. /\ [kind \in Kinds |-> <<>>] \in [Kinds -> Seq(Records)]
          /\ [kind \in Kinds |-> 0] \in [Kinds -> Nat]
        BY <1>1
    <2>2. 1 \in 1 .. MaxRecords + 1
        BY Positive
    <2> QED  BY <1>1, <2>1, <2>2 DEF Collector!Init, Collector!Idle, CollectorTypes
<1>3. Numbered
    BY <1>1 DEF Collector!Init, Collector!Idle, Numbered, Pending
<1>4. Latest
    BY <1>1, Positive DEF Collector!Init, Latest, Listed, Collector!Least
<1>5. Followed /\ Announced
    BY <1>1 DEF Collector!Init, Followed, Announced
<1>6. Paged
    BY <1>1 DEF Collector!Init, Paged, Newest
<1> QED  BY <1>2, <1>3, <1>4, <1>5, <1>6 DEF CollectorInv

(* A record under the lock: counted, listed, and yet to be broadcast.                   *)
LEMMA RecordingKeeps ==
    ASSUME CollectorInv, NEW r \in Recorders, NEW kind \in Kinds, Collector!RecordOne(r, kind)
    PROVE  CollectorInv'
<1> USE DEF CollectorInv
<1> DEFINE id == u1.next_id
           new == Collector!Record(id, kind)
           all == u6.all[kind]
           list == u1.lists[kind]
           short == IF Len(list) >= MaxOf[kind] THEN Tail(list) ELSE list
<1>1. /\ u2[r] = Collector!Idle /\ id <= MaxRecords /\ UNCHANGED <<u3, u4, u5>>
      /\ u1' = [u1 EXCEPT !.next_id = @ + 1, !.totals[kind] = @ + 1,
                          !.lists[kind] = Collector!Kept(@, new, MaxOf[kind])]
      /\ u2' = [u2 EXCEPT ![r] = [at |-> "broadcast", record |-> new]]
      /\ u6' = [u6 EXCEPT !.all[kind] = Append(@, new)]
    BY DEF Collector!RecordOne
<1>2. /\ new \in Records /\ new.id = id /\ id \in Nat /\ id + 1 \in 1 .. MaxRecords + 1
      /\ all \in Seq(Records) /\ list \in Seq(Records) /\ MaxOf[kind] \in Nat \ {0}
    <2>1. id \in Nat /\ id + 1 \in 1 .. MaxRecords + 1
        <3>1. id \in 1 .. MaxRecords + 1
            BY DEF CollectorTypes
        <3>2. id <= MaxRecords /\ MaxRecords \in Nat
            BY <1>1, Positive
        <3> HIDE DEF id
        <3> QED  BY <3>1, <3>2
    <2>2. new \in Records /\ new.id = id
        BY <2>1 DEF Records, Collector!Record
    <2> QED  BY <2>1, <2>2, Positive, Shaped
<1> HIDE DEF new
<1>3. /\ Append(all, new) \in Seq(Records) /\ Len(Append(all, new)) = Len(all) + 1
      /\ Append(all, new)[Len(all) + 1] = new
      /\ \A i \in 1 .. Len(all) : Append(all, new)[i] = all[i]
    <2> HIDE DEF all, Records
    <2> QED  BY <1>2, Lengthens
<1>4. /\ short \in Seq(Records)
      /\ Len(short) = IF Len(list) >= MaxOf[kind] THEN Len(list) - 1 ELSE Len(list)
      /\ \A i \in 1 .. Len(short) : short[i] = IF Len(list) >= MaxOf[kind] THEN list[i + 1] ELSE list[i]
    <2>1. CASE Len(list) >= MaxOf[kind]
        <3>1. list # <<>>
            BY <1>2, <2>1
        <3> QED  BY <1>2, <2>1, <3>1, HeadTailProperties
    <2>2. CASE ~(Len(list) >= MaxOf[kind])
        BY <1>2, <2>2
    <2> QED  BY <2>1, <2>2
<1>5. /\ Append(short, new) \in Seq(Records) /\ Len(Append(short, new)) = Len(short) + 1
      /\ Append(short, new)[Len(short) + 1] = new
      /\ \A i \in 1 .. Len(short) : Append(short, new)[i] = short[i]
    <2> HIDE DEF short, Records
    <2>1. short \in Seq(Records) /\ new \in Records
        BY <1>2, <1>4
    <2> QED  BY <2>1, Lengthens
<1>6. /\ u1'.next_id = id + 1 /\ u1'.totals = [u1.totals EXCEPT ![kind] = @ + 1]
      /\ u1'.lists = [u1.lists EXCEPT ![kind] = Append(short, new)]
      /\ u6'.all = [u6.all EXCEPT ![kind] = Append(all, new)] /\ u6'.cleared = u6.cleared
    <2> HIDE DEF Records
    <2> QED  BY <1>1 DEF CollectorTypes, Collector!Kept
<1>7. /\ u6'.all[kind] = Append(all, new) /\ u1'.lists[kind] = Append(short, new)
      /\ u1'.totals[kind] = u1.totals[kind] + 1
      /\ \A k \in Kinds \ {kind} : /\ u6'.all[k] = u6.all[k] /\ u1'.lists[k] = u1.lists[k]
                                   /\ u1'.totals[k] = u1.totals[k]
    <2> HIDE DEF short, all, Records
    <2> QED  BY <1>6 DEF CollectorTypes
<1>8. /\ u2'[r] = [at |-> "broadcast", record |-> new]
      /\ \A q \in Recorders \ {r} : u2'[q] = u2[q]
      /\ ~Pending(r) /\ Pending(r)' /\ u2'[r].record = new
      /\ \A q \in Recorders \ {r} : Pending(q)' <=> Pending(q)
    BY <1>1 DEF CollectorTypes, Pending, Collector!Idle
<1>9. CollectorTypes'
    <2>1. u1' \in [lists : [Kinds -> Seq(Records)], next_id : 1 .. MaxRecords + 1, totals : [Kinds -> Nat]]
        <3> HIDE DEF Records, short, all, id
        <3>1. u1' = [u1 EXCEPT !.next_id = id + 1, !.totals = [u1.totals EXCEPT ![kind] = @ + 1],
                               !.lists = [u1.lists EXCEPT ![kind] = Append(short, new)]]
            BY <1>1 DEF CollectorTypes, Collector!Kept, short, id
        <3>2. /\ [u1.totals EXCEPT ![kind] = @ + 1] \in [Kinds -> Nat]
              /\ [u1.lists EXCEPT ![kind] = Append(short, new)] \in [Kinds -> Seq(Records)]
            BY <1>5 DEF CollectorTypes
        <3> QED  BY <1>2, <3>1, <3>2 DEF CollectorTypes
    <2>2. u2' \in [Recorders -> [at : {"idle"}] \union [at : {"broadcast"}, record : Records]]
        <3> HIDE DEF Records
        <3> QED  BY <1>1, <1>2 DEF CollectorTypes
    <2>3. u6' \in [all : [Kinds -> Seq(Records)], cleared : [Kinds -> Nat]]
        <3> HIDE DEF Records, all
        <3> QED  BY <1>1, <1>3, <1>6 DEF CollectorTypes
    <2> QED  BY <1>1, <2>1, <2>2, <2>3 DEF CollectorTypes
(* What follows needs no more than this of the two sequences.                           *)
<1>a. /\ id = u1.next_id /\ u1'.next_id = id + 1 /\ id \in Nat /\ new.id = id /\ new \in Records
      /\ UNCHANGED <<u3, u4, u5>>
    BY <1>1, <1>2, <1>6
<1>b. /\ all = u6.all[kind] /\ Len(all) \in Nat /\ Len(u6'.all[kind]) = Len(all) + 1
      /\ u6'.all[kind][Len(all) + 1] = new
      /\ \A i \in 1 .. Len(all) : u6'.all[kind][i] = all[i]
      /\ \A i \in 1 .. Len(all) : all[i].id \in Nat /\ all[i].id < id
    <2>1. \A i \in 1 .. Len(all) : all[i].id < id
        BY DEF Numbered
    <2> HIDE DEF all, id
    <2> QED  BY <1>2, <1>3, <1>7, <2>1, Entries DEF all
<1>c. /\ list = u1.lists[kind] /\ Len(list) \in Nat
      /\ Len(u1'.lists[kind]) = (IF Len(list) >= MaxOf[kind] THEN Len(list) ELSE Len(list) + 1)
      /\ \A i \in 1 .. Len(u1'.lists[kind]) :
             u1'.lists[kind][i] = IF i = Len(u1'.lists[kind]) THEN new
                                  ELSE IF Len(list) >= MaxOf[kind] THEN list[i + 1] ELSE list[i]
    <2> HIDE DEF short, list
    <2>1. Len(list) \in Nat /\ MaxOf[kind] \in Nat
        BY <1>2
    <2> QED  BY <1>4, <1>5, <1>7, <2>1 DEF list
<1> HIDE DEF id, all, list, short
<1>10. Numbered'
    <2>1. ASSUME NEW k \in Kinds
          PROVE  /\ \A i \in 1 .. Len(u6'.all[k]) : u6'.all[k][i].id < u1'.next_id
                 /\ \A i, j \in 1 .. Len(u6'.all[k]) : i < j => u6'.all[k][i].id < u6'.all[k][j].id
        <3>1. CASE k = kind
            <4>1. \A i, j \in 1 .. Len(all) : i < j => all[i].id < all[j].id
                BY <1>b DEF Numbered
            <4>0. \A i \in 1 .. Len(all) + 1 : i = Len(all) + 1 \/ i \in 1 .. Len(all)
                BY <1>b
            <4>2. ASSUME NEW i \in 1 .. Len(all) + 1
                  PROVE  /\ u6'.all[kind][i].id < u1'.next_id
                         /\ \A j \in 1 .. Len(all) + 1 :
                                i < j => i \in 1 .. Len(all) /\ u6'.all[kind][i].id < u6'.all[kind][j].id
                <5>1. CASE i = Len(all) + 1
                    BY <1>a, <1>b, <5>1
                <5>2. CASE i \in 1 .. Len(all)
                    <6>1. u6'.all[kind][i] = all[i] /\ all[i].id \in Nat /\ all[i].id < id
                        BY <1>b, <5>2
                    <6>2. ASSUME NEW j \in 1 .. Len(all) + 1, i < j
                          PROVE  u6'.all[kind][i].id < u6'.all[kind][j].id
                        <7>1. CASE j = Len(all) + 1
                            BY <1>a, <1>b, <6>1, <7>1
                        <7>2. CASE j \in 1 .. Len(all)
                            BY <1>b, <4>1, <5>2, <6>1, <6>2, <7>2
                        <7> QED  BY <4>0, <7>1, <7>2
                    <6> QED  BY <1>a, <5>2, <6>1, <6>2
                <5> QED  BY <4>0, <5>1, <5>2
            <4> QED  BY <1>b, <3>1, <4>2
        <3>2. CASE k # kind
            <4>1. u6'.all[k] = u6.all[k] /\ u6.all[k] \in Seq(Records)
                BY <1>7, <3>2, Shaped
            <4>2. \A i \in 1 .. Len(u6.all[k]) : u6.all[k][i].id < id /\ u6.all[k][i].id \in Nat
                BY <1>a, <4>1, Entries DEF Numbered
            <4> QED  BY <1>a, <4>1, <4>2 DEF Numbered
        <3> QED  BY <3>1, <3>2
    <2>2. \A i \in 1 .. Len(u3) : u3[i].id < id /\ u3[i].id \in Nat
        BY <1>a, Entries, Shaped DEF Numbered
    <2>3. \A q \in Recorders : Pending(q) => u2[q].record.id < id /\ u2[q].record.id \in Nat
        BY <1>a, Shaped DEF Numbered, Records
    <2>4. ASSUME NEW p \in Recorders, Pending(p)'
          PROVE  /\ u2'[p].record.id < u1'.next_id
                 /\ \A i \in 1 .. Len(u3) : u3[i].id # u2'[p].record.id
                 /\ \A q \in Recorders : Pending(q)' /\ u2'[q].record.id = u2'[p].record.id => q = p
        <3>1. CASE p = r
            BY <1>a, <1>8, <2>2, <2>3, <3>1
        <3>2. CASE p # r
            <4>1. Pending(p) /\ u2'[p] = u2[p]
                BY <1>8, <2>4, <3>2
            <4> QED  BY <1>a, <1>8, <2>2, <2>3, <3>2, <4>1 DEF Numbered
        <3> QED  BY <3>1, <3>2
    <2>5. \A i \in 1 .. Len(u3) : u3[i].id < u1'.next_id
        BY <1>a, <2>2
    <2> QED  BY <1>a, <2>1, <2>4, <2>5 DEF Numbered
<1>11. Latest'
    <2> SUFFICES ASSUME NEW k \in Kinds
                 PROVE  /\ u6'.cleared[k] <= Len(u6'.all[k])
                        /\ Len(u1'.lists[k]) = Listed(k)'
                        /\ \A i \in 1 .. Listed(k)' :
                               u1'.lists[k][i] = u6'.all[k][Len(u6'.all[k]) - Listed(k)' + i]
                        /\ u1'.totals[k] = Len(u6'.all[k])
        BY DEF Latest
    <2>1. CASE k = kind
        <3> DEFINE c == u6.cleared[kind]  n == Listed(kind)  m == Listed(kind)'
        <3>1. /\ c \in Nat /\ c <= Len(all) /\ Len(all) \in Nat /\ Len(list) = n
              /\ u1.totals[kind] = Len(all) /\ MaxOf[kind] \in Nat \ {0}
            BY <1>b, <1>c, Shaped, Positive DEF Latest
        <3>2. n = IF Len(all) - c < MaxOf[kind] THEN Len(all) - c ELSE MaxOf[kind]
            BY <1>b DEF Listed, Collector!Least
        <3>3. m = IF Len(all) + 1 - c < MaxOf[kind] THEN Len(all) + 1 - c ELSE MaxOf[kind]
            <4>1. u6'.cleared[kind] = c /\ Len(u6'.all[kind]) = Len(all) + 1
                BY <1>b, <1>6
            <4> DEFINE all2 == u6'.all[kind]  c2 == u6'.cleared[kind]
            <4>2. m = IF Len(all2) - c2 < MaxOf[kind] THEN Len(all2) - c2 ELSE MaxOf[kind]
                BY DEF Listed, Collector!Least
            <4> HIDE DEF m, c, all2, c2
            <4>3. c2 = c /\ Len(all2) = Len(all) + 1
                BY <4>1 DEF all2, c2
            <4> QED  BY <3>1, <4>2, <4>3
        <3>4. \A i \in 1 .. n : list[i] = all[Len(all) - n + i]
            BY <1>b, <1>c DEF Latest
        <3>0. u6'.cleared[kind] = c /\ u1'.totals[kind] = Len(all) + 1
            BY <1>6, <1>7, <3>1
        <3> HIDE DEF n, m, c
        <3>5. Len(u1'.lists[kind]) = m /\ m \in Nat /\ n \in Nat
            BY <1>c, <3>1, <3>2, <3>3
        <3>6. \A i \in 1 .. m : u1'.lists[kind][i] = u6'.all[kind][Len(all) + 1 - m + i]
            <4> SUFFICES ASSUME NEW i \in 1 .. m
                         PROVE  u1'.lists[kind][i] = u6'.all[kind][Len(all) + 1 - m + i]
                OBVIOUS
            <4>1. Len(all) + 1 - m + i \in 1 .. Len(all) + 1
                <5>1. m <= Len(all) + 1
                    BY <3>1, <3>3
                <5> QED  BY <3>1, <3>5, <5>1
            <4>2. CASE i = m
                <5>1. Len(all) + 1 - m + i = Len(all) + 1
                    BY <3>1, <3>5, <4>2
                <5> QED  BY <1>b, <1>c, <3>5, <4>1, <4>2, <5>1
            <4>3. CASE i # m
                <5>1. u6'.all[kind][Len(all) + 1 - m + i] = all[Len(all) + 1 - m + i]
                    <6>1. Len(all) + 1 - m + i # Len(all) + 1
                        BY <3>1, <3>5, <4>3
                    <6> QED  BY <1>b, <4>1, <6>1, SMTT(30)
                <5>2. CASE Len(list) >= MaxOf[kind]
                    <6>1. m = n /\ i + 1 \in 1 .. n
                        BY <3>1, <3>2, <3>3, <3>5, <4>3, <5>2
                    <6>2. u1'.lists[kind][i] = list[i + 1] /\ list[i + 1] = all[Len(all) - n + (i + 1)]
                        BY <1>c, <3>4, <3>5, <4>3, <5>2, <6>1
                    <6>3. Len(all) - n + (i + 1) = Len(all) + 1 - m + i
                        BY <3>1, <3>5, <6>1
                    <6> QED  BY <5>1, <6>2, <6>3
                <5>3. CASE ~(Len(list) >= MaxOf[kind])
                    <6>1. m = n + 1 /\ i \in 1 .. n
                        BY <3>1, <3>2, <3>3, <3>5, <4>3, <5>3
                    <6>2. u1'.lists[kind][i] = list[i] /\ list[i] = all[Len(all) - n + i]
                        BY <1>c, <3>4, <3>5, <4>3, <5>3, <6>1
                    <6>3. Len(all) - n + i = Len(all) + 1 - m + i
                        BY <3>1, <3>5, <6>1
                    <6> QED  BY <5>1, <6>2, <6>3
                <5> QED  BY <5>2, <5>3
            <4> QED  BY <4>2, <4>3
        <3>7. c <= Len(all) + 1
            BY <3>1
        <3>8. Listed(kind)' = m
            BY DEF m
        <3>9. /\ u6'.cleared[kind] <= Len(u6'.all[kind]) /\ Len(u1'.lists[kind]) = m
              /\ \A i \in 1 .. m : u1'.lists[kind][i] = u6'.all[kind][Len(u6'.all[kind]) - m + i]
              /\ u1'.totals[kind] = Len(u6'.all[kind])
            BY <1>b, <3>0, <3>5, <3>6, <3>7
        <3> QED  BY <2>1, <3>8, <3>9
    <2>2. CASE k # kind
        <3>1. /\ u6'.all[k] = u6.all[k] /\ u1'.lists[k] = u1.lists[k] /\ u1'.totals[k] = u1.totals[k]
              /\ u6'.cleared[k] = u6.cleared[k]
            BY <1>6, <1>7, <2>2
        <3>2. Listed(k)' = Listed(k)
            BY <3>1 DEF Listed
        <3> QED  BY <3>1, <3>2 DEF Latest
    <2> QED  BY <2>1, <2>2
<1>12. Announced'
    <2> DEFINE Told(x) == \/ \E q \in Recorders : Pending(q)' /\ u2'[q].record.id = x
                          \/ \E j \in u4.next - Len(u4.got) .. Len(u3) : u3[j].id = x
    <2>1. ASSUME NEW x, Reached(x) PROVE Told(x)
        BY <1>a, <1>8, <2>1 DEF Reached
    <2>2. Told(new.id)
        BY <1>8
    <2> HIDE DEF Told
    <2>3. ASSUME u4.at = "following", ~u4.lagged,
                 NEW k \in Kinds, NEW i \in u4.counted[k] + 1 .. Len(u6'.all[k])
          PROVE  Told(u6'.all[k][i].id)
        <3>0. u4.counted[k] \in Nat
            BY Shaped
        <3>1. \A j \in u4.counted[k] + 1 .. Len(u6.all[k]) : Reached(u6.all[k][j].id)
            BY <2>3 DEF Announced
        <3>2. CASE k # kind
            <4>1. u6'.all[k] = u6.all[k]
                BY <1>7, <3>2
            <4>2. Reached(u6.all[k][i].id)
                BY <2>3, <3>1, <4>1
            <4> QED  BY <2>1, <4>1, <4>2
        <3>3. CASE k = kind /\ i = Len(all) + 1
            <4>1. u6'.all[k][i] = new
                BY <1>b, <3>3
            <4> QED  BY <2>2, <4>1
        <3>4. CASE k = kind /\ i # Len(all) + 1
            <4>1. i \in u4.counted[k] + 1 .. Len(all) /\ i \in 1 .. Len(all)
                BY <1>b, <2>3, <3>0, <3>4
            <4>2. u6'.all[k][i] = all[i] /\ Reached(all[i].id)
                BY <1>b, <3>1, <3>4, <4>1
            <4> QED  BY <2>1, <4>2
        <3> QED  BY <3>2, <3>3, <3>4
    <2>4. u4.at = "following" /\ ~u4.lagged =>
              \A k \in Kinds : \A i \in u4.counted[k] + 1 .. Len(u6'.all[k]) : Told(u6'.all[k][i].id)
        BY <2>3
    <2>5. u4' = u4 /\ u3' = u3
        BY <1>a
    <2>6. u4.at = "following" /\ ~u4.lagged =>
              \A k \in Kinds : \A i \in u4.counted[k] + 1 .. Len(u6'.all[k]) :
                  \/ \E q \in Recorders : Pending(q)' /\ u2'[q].record.id = u6'.all[k][i].id
                  \/ \E j \in u4.next - Len(u4.got) .. Len(u3) : u3[j].id = u6'.all[k][i].id
        BY <2>4 DEF Told
    <2> QED  BY <2>5, <2>6 DEF Announced, Reached
<1>13. Paged'
    <2>1. \A k \in Kinds : u1'.totals[k] >= u1.totals[k] /\ u1.totals[k] \in Nat /\ u1'.totals[k] \in Nat
                           /\ Len(u5.lists[k]) \in Nat
        <3>1. \A k \in Kinds : u1.totals[k] \in Nat /\ u5.lists[k] \in Seq(Records)
            BY Shaped
        <3> HIDE DEF Records
        <3> QED  BY <1>7, <3>1
    <2> QED  BY <1>a, <2>1 DEF Paged
<1>14. Followed'
    BY <1>a DEF Followed
<1> QED  BY <1>9, <1>10, <1>11, <1>12, <1>13, <1>14

(* What was recorded goes to the ring. *)
LEMMA BroadcastKeeps ==
    ASSUME CollectorInv, NEW r \in Recorders, Collector!Broadcast(r) PROVE CollectorInv'
<1> USE DEF CollectorInv
<1> DEFINE rec == u2[r].record  n == Len(u3)
<1>1. /\ Pending(r) /\ UNCHANGED <<u1, u4, u5, u6>> /\ u3' = Append(u3, rec)
      /\ u2' = [u2 EXCEPT ![r] = Collector!Idle]
    BY DEF Collector!Broadcast, Pending
<1>2. rec \in Records /\ n \in Nat /\ u3 \in Seq(Records) /\ rec.id \in Nat
    BY <1>1, Shaped, Entries DEF Records
<1>3. /\ u3' \in Seq(Records) /\ Len(u3') = n + 1 /\ u3'[n + 1] = rec
      /\ \A i \in 1 .. n : u3'[i] = u3[i]
    <2> HIDE DEF Records, rec
    <2> QED  BY <1>1, <1>2, Lengthens
<1>4. /\ ~Pending(r)'
      /\ \A q \in Recorders \ {r} : u2'[q] = u2[q] /\ (Pending(q)' <=> Pending(q))
    BY <1>1 DEF CollectorTypes, Pending, Collector!Idle
<1>5. CollectorTypes'
    <2>1. u2' \in [Recorders -> [at : {"idle"}] \union [at : {"broadcast"}, record : Records]]
        BY <1>1 DEF CollectorTypes, Collector!Idle
    <2> HIDE DEF Records
    <2> QED  BY <1>1, <1>3, <2>1 DEF CollectorTypes
<1> HIDE DEF rec, n
<1>0. \A i \in 1 .. n + 1 : i = n + 1 \/ i \in 1 .. n
    BY <1>2
<1>a. n = Len(u3) /\ rec = u2[r].record
    BY DEF n, rec
<1>6. Numbered'
    <2>1. rec.id < u1.next_id /\ \A i \in 1 .. n : u3[i].id # rec.id
        BY <1>1, <1>a DEF Numbered
    <2>2. \A i \in 1 .. n + 1 : u3'[i].id < u1.next_id
        BY <1>0, <1>3, <1>a, <2>1 DEF Numbered
    <2>3. ASSUME NEW i \in 1 .. n + 1, NEW j \in 1 .. n + 1, u3'[i].id = u3'[j].id PROVE i = j
        BY <1>0, <1>3, <1>a, <2>1, <2>3 DEF Numbered
    <2>4. ASSUME NEW p \in Recorders, Pending(p)'
          PROVE  /\ u2'[p].record.id < u1.next_id
                 /\ \A i \in 1 .. n + 1 : u3'[i].id # u2'[p].record.id
                 /\ \A q \in Recorders : Pending(q)' /\ u2'[q].record.id = u2'[p].record.id => q = p
        <3>1. p # r /\ Pending(p) /\ u2'[p] = u2[p]
            BY <1>4, <2>4
        <3>2. rec.id # u2[p].record.id
            BY <1>1, <1>a, <3>1 DEF Numbered
        <3>3. \A i \in 1 .. n + 1 : u3'[i].id # u2'[p].record.id
            BY <1>0, <1>3, <1>a, <3>1, <3>2 DEF Numbered
        <3>4. ASSUME NEW q \in Recorders, Pending(q)', u2'[q].record.id = u2'[p].record.id PROVE q = p
            <4>1. Pending(q) /\ u2'[q] = u2[q]
                BY <1>4, <3>4
            <4> QED  BY <3>1, <3>4, <4>1 DEF Numbered
        <3> QED  BY <3>1, <3>3, <3>4 DEF Numbered
    <2> QED  BY <1>1, <1>3, <2>2, <2>3, <2>4 DEF Numbered
<1>7. Latest' /\ Paged'
    BY <1>1 DEF Latest, Listed, Paged
<1>8. Followed'
    <2>1. /\ u4.next \in 1 .. n + 2
          /\ \A i \in 1 .. Len(u4.got) : \E j \in 1 .. u4.next - 1 : u4.got[i] = u3'[j]
        BY <1>2, <1>3, <1>a, Shaped DEF Followed
    <2>2. ASSUME ~u4.lagged, NEW i \in 1 .. Len(u4.got)
          PROVE  u4.got[i] = u3'[u4.next - Len(u4.got) + i - 1]
        <3>1. u4.next \in Nat /\ Len(u4.got) \in Nat /\ Len(u4.got) < u4.next /\ u4.next <= n + 1
            BY <1>2, <1>a, <2>2, Entries, Shaped DEF Followed
        <3>2. u4.next - Len(u4.got) + i - 1 \in 1 .. n
            BY <1>2, <3>1
        <3> QED  BY <1>3, <1>a, <2>2, <3>2 DEF Followed
    <2>3. u4.next \in 1 .. Len(u3') + 1
        BY <1>2, <1>3, <2>1
    <2> QED  BY <1>1, <1>3, <2>1, <2>2, <2>3 DEF Followed
<1>9. Announced'
    <2>1. ASSUME u4.at = "following", ~u4.lagged, NEW x, Reached(x)
          PROVE  \/ \E q \in Recorders : Pending(q)' /\ u2'[q].record.id = x
                 \/ \E j \in u4.next - Len(u4.got) .. Len(u3') : u3'[j].id = x
        <3>0. u4.next \in Nat /\ Len(u4.got) \in Nat /\ Len(u4.got) < u4.next /\ u4.next <= n + 1
            BY <1>2, <1>a, <2>1, Entries, Shaped DEF Followed
        <3>1. CASE rec.id = x
            <4>1. n + 1 \in u4.next - Len(u4.got) .. Len(u3')
                BY <1>2, <1>3, <3>0
            <4> QED  BY <1>3, <3>1, <4>1
        <3>2. ASSUME NEW q \in Recorders, Pending(q), u2[q].record.id = x, rec.id # x
              PROVE  Pending(q)' /\ u2'[q].record.id = x
            BY <1>4, <1>a, <3>2
        <3>3. ASSUME NEW j \in u4.next - Len(u4.got) .. n, u3[j].id = x
              PROVE  j \in u4.next - Len(u4.got) .. Len(u3') /\ u3'[j].id = x
            <4>1. j \in 1 .. n /\ j \in u4.next - Len(u4.got) .. n + 1
                BY <1>2, <3>0
            <4> QED  BY <1>3, <3>3, <4>1
        <3> QED  BY <1>a, <2>1, <3>1, <3>2, <3>3 DEF Reached
    <2>2. ASSUME u4.at = "following", ~u4.lagged,
                 NEW k \in Kinds, NEW i \in u4.counted[k] + 1 .. Len(u6.all[k])
          PROVE  \/ \E q \in Recorders : Pending(q)' /\ u2'[q].record.id = u6.all[k][i].id
                 \/ \E j \in u4.next - Len(u4.got) .. Len(u3') : u3'[j].id = u6.all[k][i].id
        <3>1. Reached(u6.all[k][i].id)
            BY <2>2 DEF Announced
        <3> QED  BY <2>1, <2>2, <3>1
    <2>3. u4' = u4 /\ u6' = u6
        BY <1>1
    <2>4. u4.at = "following" /\ ~u4.lagged =>
              \A k \in Kinds : \A i \in u4.counted[k] + 1 .. Len(u6.all[k]) :
                  \/ \E q \in Recorders : Pending(q)' /\ u2'[q].record.id = u6.all[k][i].id
                  \/ \E j \in u4.next - Len(u4.got) .. Len(u3') : u3'[j].id = u6.all[k][i].id
        BY <2>2
    <2> QED  BY <2>3, <2>4 DEF Announced, Reached
<1> QED  BY <1>5, <1>6, <1>7, <1>8, <1>9

(* The lists are emptied; the totals and the numbers stay.                              *)
LEMMA ClearingKeeps == ASSUME CollectorInv, Collector!Clear PROVE CollectorInv'
<1> USE DEF CollectorInv
<1>1. /\ UNCHANGED <<u2, u3, u4, u5>> /\ u1' = [u1 EXCEPT !.lists = [kind \in Kinds |-> <<>>]]
      /\ u6' = [u6 EXCEPT !.cleared = [kind \in Kinds |-> Len(u6.all[kind])]]
    BY DEF Collector!Clear
<1>2. \A kind \in Kinds : Len(u6.all[kind]) \in Nat
    BY Shaped, Entries
<1> HIDE DEF Records
<1>3. /\ u1'.lists = [kind \in Kinds |-> <<>>] /\ u1'.next_id = u1.next_id /\ u1'.totals = u1.totals
      /\ u6'.all = u6.all /\ u6'.cleared = [kind \in Kinds |-> Len(u6.all[kind])]
    BY <1>1 DEF CollectorTypes
<1>4. <<>> \in Seq(Records) /\ Len(<<>>) = 0
    OBVIOUS
<1>5. CollectorTypes'
    <2>1. /\ [kind \in Kinds |-> <<>>] \in [Kinds -> Seq(Records)]
          /\ [kind \in Kinds |-> Len(u6.all[kind])] \in [Kinds -> Nat]
        BY <1>2, <1>4
    <2> QED  BY <1>1, <2>1 DEF CollectorTypes
<1>6. Numbered'
    BY <1>1, <1>3 DEF Numbered, Pending
<1>7. Latest'
    <2> SUFFICES ASSUME NEW kind \in Kinds
                 PROVE  /\ u6'.cleared[kind] <= Len(u6'.all[kind])
                        /\ Len(u1'.lists[kind]) = Listed(kind)' /\ Listed(kind)' = 0
                        /\ u1'.totals[kind] = Len(u6'.all[kind])
        BY DEF Latest
    <2>1. u6'.cleared[kind] = Len(u6.all[kind]) /\ u1'.lists[kind] = <<>> /\ u6'.all[kind] = u6.all[kind]
          /\ u1'.totals[kind] = u1.totals[kind]
        BY <1>3
    <2>2. MaxOf[kind] \in Nat \ {0}
        BY Positive
    <2>3. Listed(kind)' = 0
        BY <1>2, <2>1, <2>2 DEF Listed, Collector!Least
    <2> QED  BY <1>2, <1>4, <2>1, <2>3 DEF Latest
<1>8. Followed' /\ Announced' /\ Paged'
    BY <1>1, <1>3 DEF Followed, Announced, Reached, Pending, Paged
<1> QED  BY <1>5, <1>6, <1>7, <1>8

(* Taking the totals, following the ring, and leaving.                                  *)
LEMMA DashboardKeeps ==
    ASSUME CollectorInv,
           Collector!Connect \/ Collector!SendStats \/ Collector!Receive \/ Collector!Disconnect
    PROVE  CollectorInv'
<1> USE DEF CollectorInv
<1>1. UNCHANGED <<u1, u2, u3, u5, u6>>
    BY DEF Collector!Connect, Collector!SendStats, Collector!Receive, Collector!Disconnect
<1>2. Numbered' /\ Latest' /\ Paged'
    BY <1>1 DEF Numbered, Pending, Latest, Listed, Paged
<1>3. \A x : Reached(x) <=> Reached(x)
    OBVIOUS
<1>4. Len(u3) \in Nat /\ u3 \in Seq(Records) /\ u4.got \in Seq(Records) /\ Len(u4.got) \in Nat /\ u4.next \in Nat
    BY Shaped, Entries
<1>5. CASE Collector!Connect
    <2>1. u4.at = "away" /\ u4' = [u4 EXCEPT !.at = "subscribed", !.next = Len(u3) + 1] /\ u4.got = <<>>
        BY <1>5 DEF Collector!Connect, Followed
    <2> HIDE DEF Records
    <2>2. u4'.at = "subscribed" /\ u4'.next = Len(u3) + 1 /\ u4'.got = <<>> /\ Len(<<>>) = 0
        BY <2>1 DEF CollectorTypes
    <2>3. CollectorTypes'
        <3>1. Len(u3) + 1 \in Nat
            BY <1>4
        <3> QED  BY <1>1, <2>1, <3>1 DEF CollectorTypes
    <2>4. Followed' /\ Announced'
        BY <1>1, <1>4, <2>2 DEF Followed, Announced
    <2> QED  BY <1>2, <2>3, <2>4
<1>6. CASE Collector!SendStats
    <2>1. u4.at = "subscribed" /\ u4' = [u4 EXCEPT !.at = "following", !.counted = u1.totals]
        BY <1>6 DEF Collector!SendStats, Collector!Stats
    <2> HIDE DEF Records
    <2>2. /\ u4'.counted = u1.totals /\ u4'.next = u4.next /\ u4'.got = u4.got /\ u4'.lagged = u4.lagged
          /\ u4.got = <<>> /\ u4'.at = "following"
        BY <2>1 DEF CollectorTypes, Followed
    <2>3. CollectorTypes'
        BY <1>1, <2>1 DEF CollectorTypes
    <2>4. Followed'
        BY <1>1, <2>2 DEF Followed
    <2>5. \A kind \in Kinds : u4'.counted[kind] + 1 .. Len(u6'.all[kind]) = {}
        <3>1. \A kind \in Kinds : u4'.counted[kind] = Len(u6.all[kind]) /\ Len(u6.all[kind]) \in Nat
            BY <2>2, Shaped, Entries DEF Latest
        <3> QED  BY <1>1, <3>1
    <2>6. Announced'
        BY <2>5 DEF Announced
    <2> QED  BY <1>2, <2>3, <2>4, <2>6
<1>7. CASE Collector!Disconnect
    <2>1. /\ u4.at \in {"subscribed", "following"} /\ u4' = [u4 EXCEPT !.at = "gone"]
        BY <1>7 DEF Collector!Disconnect
    <2> HIDE DEF Records
    <2>2. /\ u4'.next = u4.next /\ u4'.got = u4.got /\ u4'.lagged = u4.lagged /\ u4'.at = "gone"
        BY <2>1 DEF CollectorTypes
    <2>3. CollectorTypes'
        BY <1>1, <2>1 DEF CollectorTypes
    <2>4. Followed' /\ Announced'
        BY <1>1, <2>2 DEF Followed, Announced
    <2> QED  BY <1>2, <2>3, <2>4
<1>8. CASE Collector!Receive
    <2>1. u4.at = "following" /\ u4.next <= Len(u3) /\ u4.next >= 1
        BY <1>8, <1>4 DEF Collector!Receive, Followed
    <2>2. CASE u4.next < Collector!Oldest
        <3>1. u4' = [u4 EXCEPT !.next = Collector!Oldest, !.lagged = TRUE]
            BY <1>8, <2>2 DEF Collector!Receive
        <3>2. Collector!Oldest \in 1 .. Len(u3) + 1 /\ Collector!Oldest \in Nat
            BY <1>4, <2>1, Positive DEF Collector!Oldest
        <3> HIDE DEF Records, Collector!Oldest
        <3>3. /\ u4'.next = Collector!Oldest /\ u4'.got = u4.got /\ u4'.lagged /\ u4'.at = "following"
            BY <2>1, <3>1 DEF CollectorTypes
        <3>4. CollectorTypes'
            BY <1>1, <3>1, <3>2 DEF CollectorTypes
        <3>5. \A j \in 1 .. u4.next - 1 : j \in 1 .. Collector!Oldest - 1
            BY <1>4, <2>2, <3>2
        <3>6. Followed'
            BY <1>1, <2>1, <3>2, <3>3, <3>5 DEF Followed
        <3>7. Announced'
            BY <3>3 DEF Announced
        <3> QED  BY <1>2, <3>4, <3>6, <3>7
    <2>3. CASE ~(u4.next < Collector!Oldest)
        <3> DEFINE n == u4.next  x == u3[n]  m == Len(u4.got)
        <3>1. u4' = [u4 EXCEPT !.next = n + 1, !.got = Append(u4.got, x)]
            BY <1>8, <2>3 DEF Collector!Receive
        <3>2. x \in Records /\ x.id \in Nat /\ n \in 1 .. Len(u3) /\ n \in Nat /\ m \in Nat
            BY <1>4, <2>1, Entries
        <3> HIDE DEF Records
        <3>3. /\ Append(u4.got, x) \in Seq(Records) /\ Len(Append(u4.got, x)) = m + 1
              /\ Append(u4.got, x)[m + 1] = x
              /\ \A i \in 1 .. m : Append(u4.got, x)[i] = u4.got[i]
            <4> HIDE DEF x
            <4> QED  BY <1>4, <3>2, Lengthens
        <3>4. /\ u4'.next = n + 1 /\ u4'.got = Append(u4.got, x) /\ u4'.lagged = u4.lagged
              /\ u4'.at = "following" /\ u4'.counted = u4.counted
            BY <2>1, <3>1 DEF CollectorTypes
        <3>5. CollectorTypes'
            <4> HIDE DEF n, x
            <4>1. n + 1 \in Nat
                BY <3>2
            <4> QED  BY <1>1, <3>1, <3>3, <4>1 DEF CollectorTypes
        <3>6. /\ n = u4.next /\ x = u3[n] /\ m = Len(u4.got)
              /\ Len(u4'.got) = m + 1 /\ u4'.got[m + 1] = x
              /\ \A i \in 1 .. m : u4'.got[i] = u4.got[i]
            BY <3>3, <3>4
        <3> HIDE DEF n, x, m
        <3>7. \A i \in 1 .. m + 1 : i = m + 1 \/ i \in 1 .. m
            BY <3>2
        <3>8. \A i \in 1 .. m : \E j \in 1 .. n - 1 : u4.got[i] = u3[j]
            BY <3>6 DEF Followed
        <3>9. \A i \in 1 .. m + 1 : \E j \in 1 .. n : u4'.got[i] = u3[j]
            BY <3>2, <3>6, <3>7, <3>8
        <3>10. \A i \in 1 .. m : u4.got[i].id # x.id
            <4> SUFFICES ASSUME NEW i \in 1 .. m, u4.got[i].id = x.id PROVE FALSE
                OBVIOUS
            <4>1. PICK j \in 1 .. n - 1 : u4.got[i] = u3[j]
                BY <3>8
            <4>2. j \in 1 .. Len(u3) /\ j # n
                BY <3>2, <4>1
            <4> QED  BY <3>2, <3>6, <4>1, <4>2 DEF Numbered
        <3>11. \A i, j \in 1 .. m + 1 : u4'.got[i].id = u4'.got[j].id => i = j
            <4>1. \A i, j \in 1 .. m : u4.got[i].id = u4.got[j].id => i = j
                BY <3>6 DEF Followed
            <4> SUFFICES ASSUME NEW i \in 1 .. m + 1, NEW j \in 1 .. m + 1, u4'.got[i].id = u4'.got[j].id
                         PROVE  i = j
                OBVIOUS
            <4>2. CASE i = m + 1 /\ j \in 1 .. m
                BY <3>6, <3>10, <4>2
            <4>3. CASE j = m + 1 /\ i \in 1 .. m
                BY <3>6, <3>10, <4>3
            <4>4. CASE i \in 1 .. m /\ j \in 1 .. m
                BY <3>6, <4>1, <4>4
            <4> QED  BY <3>7, <4>2, <4>3, <4>4
        <3>12. ASSUME ~u4.lagged
               PROVE  /\ m < n
                      /\ \A i \in 1 .. m + 1 : u4'.got[i] = u3[(n + 1) - (m + 1) + i - 1]
            <4>1. m < n /\ \A i \in 1 .. m : u4.got[i] = u3[n - m + i - 1]
                BY <3>6, <3>12 DEF Followed
            <4>2. \A i \in 1 .. m : u4'.got[i] = u3[(n + 1) - (m + 1) + i - 1]
                <5>1. \A i \in 1 .. m : (n + 1) - (m + 1) + i - 1 = n - m + i - 1
                    BY <3>2
                <5> QED  BY <3>6, <4>1, <5>1
            <4>3. u4'.got[m + 1] = u3[(n + 1) - (m + 1) + (m + 1) - 1]
                <5>1. (n + 1) - (m + 1) + (m + 1) - 1 = n
                    BY <3>2
                <5> QED  BY <3>6, <5>1
            <4> QED  BY <3>7, <4>1, <4>2, <4>3
        <3>13. Followed'
            <4>1. n + 1 \in 1 .. Len(u3) + 1 /\ (n + 1) - 1 = n
                BY <1>4, <3>2
            <4>2. ~u4.lagged => m + 1 < n + 1
                BY <3>2, <3>12
            <4>3. /\ u4'.next \in 1 .. Len(u3') + 1
                  /\ u4'.at = "following"
                  /\ \A i \in 1 .. Len(u4'.got) : \E j \in 1 .. u4'.next - 1 : u4'.got[i] = u3'[j]
                BY <1>1, <3>4, <3>6, <3>9, <4>1
            <4>4. \A i, j \in 1 .. Len(u4'.got) : u4'.got[i].id = u4'.got[j].id => i = j
                BY <3>6, <3>11
            <4>5. ~u4'.lagged => /\ Len(u4'.got) < u4'.next
                                /\ \A i \in 1 .. Len(u4'.got) : u4'.got[i] = u3'[u4'.next - Len(u4'.got) + i - 1]
                BY <1>1, <3>4, <3>6, <3>12, <4>2
            <4> QED  BY <4>3, <4>4, <4>5 DEF Followed
        <3>14. Announced'
            <4>1. (n + 1) - (m + 1) = n - m
                BY <3>2
            <4>2. u4'.next - Len(u4'.got) = u4.next - Len(u4.got)
                BY <3>4, <3>6, <4>1
            <4>3. u1' = u1 /\ u2' = u2 /\ u3' = u3 /\ u6' = u6
                BY <1>1
            <4> QED  BY <2>1, <3>4, <4>2, <4>3 DEF Announced, Reached, Pending
        <3> QED  BY <1>2, <3>5, <3>13, <3>14
    <2> QED  BY <2>2, <2>3
<1> QED  BY <1>5, <1>6, <1>7, <1>8

(* The page of all lists. *)
LEMMA PageKeeps ==
    ASSUME CollectorInv, Collector!ReadStats \/ \E kind \in Kinds : Collector!ReadList(kind)
    PROVE  CollectorInv'
<1> USE DEF CollectorInv
<1>1. UNCHANGED <<u1, u2, u3, u4, u6>>
    BY DEF Collector!ReadStats, Collector!ReadList
<1>2. Numbered' /\ Latest' /\ Followed' /\ Announced'
    BY <1>1 DEF Numbered, Pending, Latest, Listed, Followed, Announced, Reached
<1>3. CASE Collector!ReadStats
    <2>1. u5' = [u5 EXCEPT !.at = "done", !.totals = u1.totals]
        BY <1>3 DEF Collector!ReadStats, Collector!Stats
    <2> HIDE DEF Records
    <2>2. CollectorTypes'
        BY <1>1, <2>1 DEF CollectorTypes
    <2>3. u5'.lists = u5.lists /\ u5'.totals = u1.totals
        BY <2>1 DEF CollectorTypes
    <2>4. Paged'
        BY <1>1, <2>3 DEF Paged
    <2> QED  BY <1>2, <2>2, <2>4
<1>4. ASSUME NEW kind \in Kinds, Collector!ReadList(kind) PROVE CollectorInv'
    <2> DEFINE list == u1.lists[kind]  back == Collector!Reverse(list)  all == u6.all[kind]
    <2>1. /\ u5.at = "reading"
          /\ u5' = [u5 EXCEPT !.left = @ \ {kind}, !.lists[kind] = back]
        BY <1>4 DEF Collector!ReadList
    <2>2. list \in Seq(Records) /\ Len(list) \in Nat
        BY Shaped, Entries
    <2>3. back = [i \in 1 .. Len(list) |-> list[(Len(list) - i) + 1]]
        BY DEF Collector!Reverse
    <2>4. \A i \in 1 .. Len(list) : (Len(list) - i) + 1 \in 1 .. Len(list)
        BY <2>2
    <2>5. back \in Seq(Records) /\ Len(back) = Len(list)
        <3> HIDE DEF Records, list, back
        <3>1. \A i \in 1 .. Len(list) : list[(Len(list) - i) + 1] \in Records
            BY <2>2, <2>4, Entries
        <3>2. back \in [1 .. Len(list) -> Records]
            BY <2>3, <3>1
        <3> QED  BY <2>2, <3>2
    <2> HIDE DEF Records, back
    <2>6. CollectorTypes'
        BY <1>1, <2>1, <2>5 DEF CollectorTypes
    <2>7. /\ u5'.lists[kind] = back /\ \A k \in Kinds \ {kind} : u5'.lists[k] = u5.lists[k]
          /\ u5'.at = "reading"
        BY <2>1 DEF CollectorTypes
    <2>8. /\ Len(all) \in Nat /\ Len(list) <= Len(all) /\ u1.totals[kind] = Len(all)
          /\ \A i \in 1 .. Len(list) : list[i] = all[Len(all) - Len(list) + i]
          /\ \A i \in 1 .. Len(all) : all[i].id \in Nat
        <3>1. u6.all[kind] \in Seq(Records) /\ u6.cleared[kind] \in Nat /\ MaxOf[kind] \in Nat
            BY Shaped, Positive
        <3>2. Listed(kind) <= Len(u6.all[kind])
            BY <3>1, Entries DEF Latest, Listed, Collector!Least
        <3> QED  BY <3>1, <3>2, Entries DEF Latest
    <2>9. list = u1.lists[kind] /\ all = u6.all[kind]
        OBVIOUS
    <2> HIDE DEF list, all
    <2>10. \A i, j \in 1 .. Len(list) : i < j => list[i].id < list[j].id /\ list[i].id \in Nat /\ list[j].id \in Nat
        <3> SUFFICES ASSUME NEW i \in 1 .. Len(list), NEW j \in 1 .. Len(list), i < j
                     PROVE  list[i].id < list[j].id /\ list[i].id \in Nat /\ list[j].id \in Nat
            OBVIOUS
        <3> DEFINE a == Len(all) - Len(list) + i  b == Len(all) - Len(list) + j
        <3>1. a \in 1 .. Len(all) /\ b \in 1 .. Len(all) /\ a < b
            BY <2>2, <2>8
        <3>2. list[i] = all[a] /\ list[j] = all[b]
            BY <2>8
        <3> HIDE DEF a, b
        <3>3. all[a].id < all[b].id
            BY <2>9, <3>1 DEF Numbered
        <3> QED  BY <2>8, <3>1, <3>2, <3>3
    <2>11. Newest(back)
        <3> SUFFICES ASSUME NEW i \in 1 .. Len(list) - 1 PROVE back[i].id > back[i + 1].id
            BY <2>5 DEF Newest
        <3>1. i \in 1 .. Len(list) /\ i + 1 \in 1 .. Len(list)
            BY <2>2
        <3>2. back[i] = list[(Len(list) - i) + 1] /\ back[i + 1] = list[(Len(list) - (i + 1)) + 1]
            BY <2>3, <3>1
        <3> DEFINE a == (Len(list) - (i + 1)) + 1  b == (Len(list) - i) + 1
        <3>3. a < b /\ a \in 1 .. Len(list) /\ b \in 1 .. Len(list)
            BY <2>2, <3>1
        <3>4. back[i] = list[b] /\ back[i + 1] = list[a]
            BY <3>2
        <3> HIDE DEF a, b
        <3>5. list[a].id < list[b].id /\ list[a].id \in Nat /\ list[b].id \in Nat
            BY <2>10, <3>3
        <3> QED  BY <3>4, <3>5
    <2>12. Paged'
        <3> SUFFICES ASSUME NEW k \in Kinds
                     PROVE  Newest(u5.lists[k])' /\ Len(u5'.lists[k]) <= u1.totals[k]
            BY <1>1, <2>7 DEF Paged
        <3>1. CASE k = kind
            BY <2>5, <2>7, <2>8, <2>11, <3>1 DEF Newest
        <3>2. CASE k # kind
            BY <2>7, <3>2 DEF Paged, Newest
        <3> QED  BY <3>1, <3>2
    <2> QED  BY <1>2, <2>6, <2>12
<1> QED  BY <1>3, <1>4

LEMMA CollectorKeeps == CollectorInv /\ Collector!Next => CollectorInv'
    BY RecordingKeeps, BroadcastKeeps, ClearingKeeps, DashboardKeeps, PageKeeps DEF Collector!Next

LEMMA CollectorHolds ==
    CollectorInv => /\ Collector!TypeOK /\ Collector!ListsHoldTheLatest
                    /\ Collector!DashboardMissesNothing /\ Collector!PageIsCounted
<1> SUFFICES ASSUME CollectorInv
             PROVE  /\ Collector!TypeOK /\ Collector!ListsHoldTheLatest
                    /\ Collector!DashboardMissesNothing /\ Collector!PageIsCounted
    OBVIOUS
<1> USE DEF CollectorInv
<1>1. ASSUME NEW kind \in Kinds
      PROVE  /\ Len(u6.all[kind]) \in Nat /\ u6.all[kind] \in Seq(Records) /\ u1.lists[kind] \in Seq(Records)
             /\ Listed(kind) \in 0 .. Len(u6.all[kind]) /\ Listed(kind) <= MaxOf[kind]
    <2>1. u6.all[kind] \in Seq(Records) /\ u6.cleared[kind] \in Nat /\ MaxOf[kind] \in Nat
          /\ u1.lists[kind] \in Seq(Records)
        BY Shaped, Positive
    <2>2. Len(u6.all[kind]) \in Nat
        BY <2>1, Entries
    <2>3. u6.cleared[kind] <= Len(u6.all[kind])
        BY DEF Latest
    <2> QED  BY <2>1, <2>2, <2>3 DEF Listed, Collector!Least
<1>2. Collector!TypeOK
    <2>1. u1.next_id \in 1 .. MaxRecords + 1
        BY DEF CollectorTypes
    <2>2. \A kind \in Kinds : Len(u1.lists[kind]) <= MaxOf[kind]
        BY <1>1 DEF Latest
    <2>3. u4.next <= Len(u3) + 1
        BY DEF Followed
    <2> QED  BY <2>1, <2>2, <2>3 DEF Collector!TypeOK
<1>3. Collector!ListsHoldTheLatest
    <2> SUFFICES ASSUME NEW kind \in Kinds
                 PROVE  /\ u1.lists[kind] = SubSeq(u6.all[kind], Len(u6.all[kind]) - Listed(kind) + 1,
                                                   Len(u6.all[kind]))
                        /\ u1.totals[kind] = Len(u6.all[kind])
        BY DEF Collector!ListsHoldTheLatest, Listed
    <2> DEFINE all == u6.all[kind]  n == Listed(kind)  list == u1.lists[kind]
               last == SubSeq(all, Len(all) - n + 1, Len(all))
    <2>1. /\ Len(list) = n /\ \A i \in 1 .. n : list[i] = all[Len(all) - n + i]
          /\ u1.totals[kind] = Len(all)
        BY DEF Latest
    <2>2. Len(all) \in Nat /\ n \in 0 .. Len(all) /\ all \in Seq(Records) /\ list \in Seq(Records)
        BY <1>1
    <2> HIDE DEF Records, all, n, list
    <2>3. \A i \in Len(all) - n + 1 .. Len(all) : all[i] \in Records
        BY <2>2, Entries
    <2>4. /\ Len(all) - n + 1 \in Int /\ Len(all) \in Int
          /\ n = IF Len(all) - n + 1 <= Len(all) THEN Len(all) - (Len(all) - n + 1) + 1 ELSE 0
          /\ n = Len(all) - (Len(all) - n + 1) + 1
        BY <2>2
    <2>5. /\ last \in Seq(Records) /\ Len(last) = n
          /\ \A i \in 1 .. n : last[i] = all[(Len(all) - n + 1) + i - 1]
        BY <2>3, <2>4, SubSeqProperties
    <2>6. \A i \in 1 .. n : (Len(all) - n + 1) + i - 1 = Len(all) - n + i
        BY <2>2
    <2> HIDE DEF last
    <2>7. list = last
        BY <2>1, <2>2, <2>5, <2>6, SeqEqual
    <2> QED  BY <2>1, <2>7 DEF last, all, n, list
<1>4. Collector!DashboardMissesNothing
    <2> SUFFICES ASSUME u4.at = "following"
                 PROVE  /\ \A i, j \in DOMAIN u4.got : u4.got[i].id = u4.got[j].id => i = j
                        /\ u4.next > Len(u3) /\ ~u4.lagged =>
                               \A kind \in Kinds : \A i \in u4.counted[kind] + 1 .. Len(u6.all[kind]) :
                                   u6.all[kind][i].id \in Collector!Got \union Collector!Broadcasting
        BY DEF Collector!DashboardMissesNothing
    <2>1. DOMAIN u4.got = 1 .. Len(u4.got) /\ Len(u4.got) \in Nat /\ u4.next \in Nat /\ Len(u3) \in Nat
        BY Shaped, Entries
    <2>2. ASSUME u4.next > Len(u3), ~u4.lagged, NEW x, Reached(x)
          PROVE  x \in Collector!Got \union Collector!Broadcasting
        <3>1. ASSUME NEW r \in Recorders, Pending(r), u2[r].record.id = x
              PROVE  x \in Collector!Broadcasting
            BY <3>1 DEF Collector!Broadcasting, Pending
        <3>2. ASSUME NEW j \in u4.next - Len(u4.got) .. Len(u3), u3[j].id = x
              PROVE  x \in Collector!Got
            <4> DEFINE i == j - (u4.next - Len(u4.got)) + 1
            <4>1. i \in 1 .. Len(u4.got) /\ u4.next - Len(u4.got) + i - 1 = j
                BY <2>1, <2>2
            <4>2. u4.got[i] = u3[u4.next - Len(u4.got) + i - 1]
                BY <2>2, <4>1 DEF Followed
            <4> HIDE DEF i
            <4> QED  BY <2>1, <3>2, <4>1, <4>2 DEF Collector!Got
        <3> QED  BY <2>2, <3>1, <3>2 DEF Reached
    <2>3. u4.next > Len(u3) /\ ~u4.lagged =>
              \A kind \in Kinds : \A i \in u4.counted[kind] + 1 .. Len(u6.all[kind]) :
                  u6.all[kind][i].id \in Collector!Got \union Collector!Broadcasting
        BY <2>2 DEF Announced
    <2> QED  BY <2>1, <2>3 DEF Followed
<1>5. Collector!PageIsCounted
    BY DEF Collector!PageIsCounted, Paged, Newest
<1> QED  BY <1>2, <1>3, <1>4, <1>5

-----------------------------------------------------------------------------------
(* The theorems. The parts share no variable: a step of one leaves the others alone.    *)

SafetyInv == RoomInv /\ (part = "access" => AccessInv) /\ (part = "studio" => CollectorInv)

(* The channels, the access to Studio and its collector keep theirs side by side.       *)
LEMMA SafetyHolds == SafetySpec => []SafetyInv
<1>1. SafetyInit => SafetyInv
    BY RoomsStart, AccessStarts, CollectorStarts DEF SafetyInit, SafetyInv
<1>2. SafetyInv /\ [SafetyNext]_<<part, vars, state>> => SafetyInv'
    <2> SUFFICES ASSUME SafetyInv, [SafetyNext]_<<part, vars, state>> PROVE SafetyInv'
        OBVIOUS
    <2>1. ASSUME UNCHANGED vars PROVE RoomInv'
        BY <2>1 DEF SafetyInv, vars, RoomInv, RoomOf, Types, IsRooms, In, Moves, Untouched
    <2>2. ASSUME UNCHANGED state PROVE AccessInv' <=> AccessInv
        BY <2>2 DEF state, AccessInv, People, Sessions, AnswerIsRight, Known
    <2>a. ASSUME UNCHANGED state PROVE CollectorInv' <=> CollectorInv
        BY <2>a DEF state, CollectorInv, CollectorTypes, Numbered, Pending, Latest, Listed, Followed,
                    Announced, Reached, Paged
    <2>3. CASE Rooms
        BY <2>2, <2>3, RoomsKeep DEF Rooms, SafetyInv
    <2>4. CASE part = "studio" /\ Collector!Next /\ UNCHANGED <<part, vars, u7, u8>>
        BY <2>1, <2>4, CollectorKeeps DEF SafetyInv
    <2>5. CASE part = "access" /\ Debug!Next /\ UNCHANGED <<part, vars, u7, u8>>
        BY <2>1, <2>5, AccessKeeps DEF SafetyInv
    <2>6. CASE UNCHANGED <<part, vars, state>>
        BY <2>1, <2>2, <2>a, <2>6 DEF SafetyInv
    <2> QED  BY <2>3, <2>4, <2>5, <2>6 DEF SafetyNext
<1> QED  BY <1>1, <1>2, PTL DEF SafetySpec

(* The rooms of channel_registry.rs are the ones the connections that stand still asked *)
(* for, none of them has more than it may, and no room is empty.                        *)
THEOREM RoomsStayExact == SafetySpec => []RoomsAreExact
<1>1. SafetyInv => RoomsAreExact
    BY RoomsFollow DEF SafetyInv, RoomsAreExact
<1> QED  BY <1>1, SafetyHolds, PTL

(* A session is worth nothing but what it was granted for; Studio answers who shows its  *)
(* token and, in development, who is in a session; and its token is known only to who    *)
(* was in one while it was drawn: dev_mode.rs, studio/handlers.rs.                       *)
THEOREM StudioStaysGuarded == SafetySpec => []StudioIsGuarded
<1>1. SafetyInv => StudioIsGuarded
    BY AccessIsGuarded DEF SafetyInv, StudioIsGuarded
<1> QED  BY <1>1, SafetyHolds, PTL

(* Whatever is recorded is in its list, if that is long enough, in the totals, and on    *)
(* each dashboard that kept up: counted in the greeting, sent, or yet to be broadcast.   *)
THEOREM NoRecordIsMissed == SafetySpec => []StudioMissesNothing
<1>1. SafetyInv => StudioMissesNothing
    BY CollectorHolds DEF SafetyInv, StudioMissesNothing
<1> QED  BY <1>1, SafetyHolds, PTL

LiveInv == GapInv /\ GateInv

(* The channels and the gate keep theirs side by side.                                  *)
LEMMA LiveHolds == LiveSpec => []LiveInv
<1>1. LiveInit => LiveInv
    BY GapsStart, GateStarts DEF LiveInit, LiveInv
<1>2. LiveInv /\ [LiveNext]_<<part, vars, state>> => LiveInv'
    <2> SUFFICES ASSUME LiveInv, [LiveNext]_<<part, vars, state>> PROVE LiveInv'
        OBVIOUS
    <2>1. ASSUME UNCHANGED vars PROVE GapInv'
        <3>1. RoomInv'
            BY <2>1 DEF LiveInv, GapInv, vars, RoomInv, RoomOf, Types, IsRooms, In, Moves, Untouched
        <3>2. \A c \in Clients : GapOf(c)'
            BY <2>1 DEF LiveInv, GapInv, vars, GapOf, Due
        <3> QED  BY <3>1, <3>2 DEF GapInv
    <2>2. ASSUME UNCHANGED state PROVE GateInv'
        BY <2>2 DEF LiveInv, state, GateInv, Gate!TypeOK, Near
    <2>3. CASE Rooms
        BY <2>2, <2>3, GapsKeep DEF Rooms, LiveInv
    <2>4. CASE Gate!Next /\ UNCHANGED <<part, vars>>
        BY <2>1, <2>4, GateKeeps DEF LiveInv
    <2>5. CASE UNCHANGED <<part, vars, state>>
        BY <2>1, <2>2, <2>5 DEF LiveInv
    <2> QED  BY <2>3, <2>4, <2>5 DEF LiveNext
<1>3. LiveSpec => LiveInit /\ [][LiveNext]_<<part, vars, state>>
    BY DEF LiveSpec
<1> QED  BY <1>1, <1>2, <1>3, PTL

(* A connection of channel_registry.rs that stays open is given every message it is     *)
(* owed, in order; one whose receiver was overtaken ends.                               *)
THEOREM NoGapIsSilent == LiveSpec => []NoSilentGap
<1>1. GapInv => NoSilentGap
    BY DEF GapInv, GapOf, Due, NoSilentGap
<1> QED  BY <1>1, LiveHolds, PTL DEF LiveInv

(* The cached look at the flag file of maintenance.rs: on a machine that keeps the       *)
(* order, no answer disagrees with a file that has been as it is for a second.          *)
THEOREM TrafficFollowsTheFile == LiveSpec => []WithinASecond
<1>1. GateInv => WithinASecond
    BY DEF GateInv, Near, Gate!WithinASecond, Gate!At, WithinASecond
<1> QED  BY <1>1, LiveHolds, PTL DEF LiveInv
==================================================================================
