----------------------------- MODULE TokioSemaphore ------------------------------
(* tokio::sync::Semaphore as the code uses it: acquire takes a free permit or joins  *)
(* a line, a released permit goes straight to the head of the line, and dropping an  *)
(* acquire that still waits leaves the line. A task that was given a permit while it *)
(* waited finds itself in "held" when it is next polled.                             *)
EXTENDS Naturals, Sequences, FiniteSets, FiniteSetTheorems, SequenceTheorems, TLAPS

NewSemaphore(n) == [free |-> n, held |-> {}, line |-> <<>>]

Acquire(s, t) == IF s.free > 0
                 THEN [s EXCEPT !.free = @ - 1, !.held = @ \union {t}]
                 ELSE [s EXCEPT !.line = Append(@, t)]

Release(s, t) == IF s.line = <<>>
                 THEN [s EXCEPT !.free = @ + 1, !.held = @ \ {t}]
                 ELSE [s EXCEPT !.held = (@ \ {t}) \union {Head(s.line)},
                                !.line = Tail(@)]

Waits(s, t) == \E i \in DOMAIN s.line : s.line[i] = t

LeaveLine(s, t) ==
    LET place == CHOOSE i \in DOMAIN s.line : s.line[i] = t
    IN  IF Waits(s, t)
        THEN [s EXCEPT !.line = [i \in 1 .. Len(s.line) - 1 |->
                                    IF i < place THEN s.line[i] ELSE s.line[i + 1]]]
        ELSE s

----------------------------------------------------------------------------------
(* What the operators keep: the permits are as many as there were at the start, and a *)
(* task holds at most one of them or stands in line for it once.                      *)

Typed(s, T) == s \in [free : Nat, held : SUBSET T, line : Seq(T)]

Balanced(s, n) == IsFiniteSet(s.held) /\ s.free + Cardinality(s.held) = n

(* A permit that comes back goes to the head of the line: the head must be a task that *)
(* holds none, or a permit would be lost with it.                                      *)
OnceEach(s) == /\ \A i \in DOMAIN s.line : s.line[i] \notin s.held
               /\ \A i, k \in DOMAIN s.line : s.line[i] = s.line[k] => i = k

Sound(s, n, T) == Typed(s, T) /\ Balanced(s, n) /\ OnceEach(s)

(* A new semaphore has all its permits free.                                           *)
LEMMA NewIsSound ==
    ASSUME NEW n \in Nat, NEW T
    PROVE  /\ Sound(NewSemaphore(n), n, T)
           /\ NewSemaphore(n).held = {}
           /\ \A t : ~Waits(NewSemaphore(n), t)
<1>1. Balanced(NewSemaphore(n), n)
    BY FS_EmptySet DEF Balanced, NewSemaphore
<1> QED  BY <1>1 DEF Sound, Typed, OnceEach, NewSemaphore, Waits

(* A task that has no permit and does not wait gets one or waits; nobody else notices. *)
LEMMA AcquireIsSound ==
    ASSUME NEW s, NEW n \in Nat, NEW T, NEW t \in T,
           Sound(s, n, T), t \notin s.held, ~Waits(s, t)
    PROVE  /\ Sound(Acquire(s, t), n, T)
           /\ \A u : u # t => /\ u \in Acquire(s, t).held <=> u \in s.held
                              /\ Waits(Acquire(s, t), u) <=> Waits(s, u)
           /\ Waits(Acquire(s, t), t) \/ t \in Acquire(s, t).held
<1> DEFINE a == Acquire(s, t)
<1>1. CASE s.free > 0
    <2>1. a = [free |-> s.free - 1, held |-> s.held \union {t}, line |-> s.line]
        BY <1>1 DEF Acquire, Sound, Typed
    <2>2. Balanced(a, n)
        <3>1. IsFiniteSet(s.held) /\ Cardinality(s.held) \in Nat
            BY FS_CardinalityType DEF Sound, Balanced
        <3>2. /\ IsFiniteSet(s.held \union {t})
              /\ Cardinality(s.held \union {t}) = Cardinality(s.held) + 1
            BY <3>1, FS_AddElement
        <3>3. a.held = s.held \union {t} /\ a.free = s.free - 1
            BY <2>1
        <3> QED  BY <3>1, <3>2, <3>3 DEF Sound, Balanced, Typed
    <2>3. a.held = s.held \union {t} /\ a.line = s.line
        BY <2>1
    <2>4. Typed(a, T)
        BY <1>1, <2>1 DEF Sound, Typed
    <2>5. OnceEach(a)
        BY <2>3 DEF Sound, OnceEach, Waits
    <2>6. \A u : Waits(a, u) <=> Waits(s, u)
        BY <2>3 DEF Waits
    <2> QED  BY <2>2, <2>3, <2>4, <2>5, <2>6 DEF Sound
<1>2. CASE ~(s.free > 0)
    <2>1. a = [free |-> s.free, held |-> s.held, line |-> Append(s.line, t)]
        BY <1>2 DEF Acquire, Sound, Typed
    <2>2. /\ Append(s.line, t) \in Seq(T)
          /\ Len(Append(s.line, t)) = Len(s.line) + 1
          /\ \A i \in 1 .. Len(s.line) : Append(s.line, t)[i] = s.line[i]
          /\ Append(s.line, t)[Len(s.line) + 1] = t
          /\ Len(s.line) \in Nat
        BY DEF Sound, Typed
    <2>3. DOMAIN a.line = 1 .. Len(s.line) + 1 /\ DOMAIN s.line = 1 .. Len(s.line)
        BY <2>1, <2>2 DEF Sound, Typed
    <2>4. \A u : Waits(a, u) <=> Waits(s, u) \/ u = t
        BY <2>1, <2>2, <2>3 DEF Waits
    <2>5. OnceEach(a)
        BY <2>1, <2>2, <2>3 DEF OnceEach, Sound, Waits
    <2>6. Typed(a, T) /\ Balanced(a, n)
        BY <2>1, <2>2 DEF Sound, Typed, Balanced
    <2>7. a.held = s.held
        BY <2>1
    <2> QED  BY <2>4, <2>5, <2>6, <2>7 DEF Sound
<1> QED  BY <1>1, <1>2

(* A task that gives its permit back has none and does not wait; the others still hold *)
(* what they held, and those who waited still wait or hold.                            *)
LEMMA ReleaseIsSound ==
    ASSUME NEW s, NEW n \in Nat, NEW T, NEW t \in T,
           Sound(s, n, T), t \in s.held
    PROVE  /\ Sound(Release(s, t), n, T)
           /\ t \notin Release(s, t).held /\ ~Waits(Release(s, t), t)
           /\ \A u : u # t => /\ u \in s.held => u \in Release(s, t).held
                              /\ u \in Release(s, t).held => u \in s.held \/ Waits(s, u)
                              /\ Waits(Release(s, t), u) => Waits(s, u)
<1> DEFINE r == Release(s, t)
<1>0. ~Waits(s, t)
    BY DEF Sound, OnceEach, Waits
<1>1. CASE s.line = <<>>
    <2>1. r = [free |-> s.free + 1, held |-> s.held \ {t}, line |-> s.line]
        BY <1>1 DEF Release, Sound, Typed
    <2>2. Balanced(r, n)
        <3>1. IsFiniteSet(s.held) /\ Cardinality(s.held) \in Nat
            BY FS_CardinalityType DEF Sound, Balanced
        <3>2. /\ IsFiniteSet(s.held \ {t})
              /\ Cardinality(s.held \ {t}) = Cardinality(s.held) - 1
            BY <3>1, FS_RemoveElement
        <3>3. r.held = s.held \ {t} /\ r.free = s.free + 1
            BY <2>1
        <3> QED  BY <3>1, <3>2, <3>3 DEF Sound, Balanced, Typed
    <2>3. r.held = s.held \ {t} /\ r.line = s.line
        BY <2>1
    <2>4. Typed(r, T)
        BY <2>1 DEF Sound, Typed
    <2>5. OnceEach(r)
        BY <2>3 DEF Sound, OnceEach
    <2>6. \A u : Waits(r, u) <=> Waits(s, u)
        BY <2>3 DEF Waits
    <2> QED  BY <1>0, <2>2, <2>3, <2>4, <2>5, <2>6 DEF Sound
<1>2. CASE s.line # <<>>
    <2> DEFINE h == Head(s.line)
    <2>1. r = [free |-> s.free, held |-> (s.held \ {t}) \union {h}, line |-> Tail(s.line)]
        BY <1>2 DEF Release, Sound, Typed
    <2>2. /\ Tail(s.line) \in Seq(T)
          /\ Len(s.line) \in Nat \ {0}
          /\ Len(Tail(s.line)) = Len(s.line) - 1
          /\ \A i \in 1 .. Len(s.line) - 1 : Tail(s.line)[i] = s.line[i + 1]
          /\ h = s.line[1] /\ h \in T
        BY <1>2, HeadTailProperties, EmptySeq DEF Sound, Typed
    <2>3. DOMAIN r.line = 1 .. Len(s.line) - 1 /\ DOMAIN s.line = 1 .. Len(s.line)
        BY <2>1, <2>2 DEF Sound, Typed
    <2>4. Waits(s, h) /\ h \notin s.held /\ h # t
        BY <2>2, <2>3 DEF Sound, OnceEach, Waits
    <2>5. \A u : Waits(r, u) => Waits(s, u) /\ u # h
        BY <2>1, <2>2, <2>3 DEF Waits, Sound, OnceEach
    <2>6. Balanced(r, n)
        <3>1. IsFiniteSet(s.held \ {t}) /\ Cardinality(s.held \ {t}) = Cardinality(s.held) - 1
            BY FS_RemoveElement DEF Sound, Balanced
        <3>2. Cardinality((s.held \ {t}) \union {h}) = Cardinality(s.held) - 1 + 1
              /\ IsFiniteSet((s.held \ {t}) \union {h})
            BY <3>1, <2>4, FS_AddElement
        <3> QED  BY <2>1, <3>2, FS_CardinalityType DEF Sound, Balanced, Typed
    <2>8. r.held = (s.held \ {t}) \union {h}
        BY <2>1
    <2>7. OnceEach(r)
        <3>1. \A i \in DOMAIN r.line : Waits(s, r.line[i]) /\ r.line[i] # h /\ r.line[i] \notin s.held
            BY <2>1, <2>2, <2>3 DEF Waits, Sound, OnceEach
        <3>2. \A i, k \in DOMAIN r.line : r.line[i] = r.line[k] => i = k
            <4> SUFFICES ASSUME NEW i \in DOMAIN r.line, NEW k \in DOMAIN r.line,
                                r.line[i] = r.line[k]
                         PROVE  i = k
                OBVIOUS
            <4>1. r.line = Tail(s.line)
                BY <2>1
            <4>2. i \in 1 .. Len(s.line) - 1 /\ k \in 1 .. Len(s.line) - 1
                BY <2>3
            <4>3. s.line[i + 1] = s.line[k + 1]
                BY <2>2, <4>1, <4>2
            <4>4. i + 1 \in DOMAIN s.line /\ k + 1 \in DOMAIN s.line
                BY <2>2, <2>3, <4>2
            <4>5. i + 1 = k + 1
                BY <4>3, <4>4 DEF Sound, OnceEach
            <4> QED  BY <4>2, <4>5
        <3> QED  BY <2>8, <3>1, <3>2 DEF OnceEach
    <2>9. Typed(r, T)
        BY <2>1, <2>2 DEF Sound, Typed
    <2> QED  BY <1>0, <2>4, <2>5, <2>6, <2>7, <2>8, <2>9 DEF Sound
<1> QED  BY <1>1, <1>2

(* A task that leaves the line does not wait any more; nobody else notices.            *)
LEMMA LeaveIsSound ==
    ASSUME NEW s, NEW n \in Nat, NEW T, NEW t, Sound(s, n, T)
    PROVE  /\ Sound(LeaveLine(s, t), n, T)
           /\ ~Waits(LeaveLine(s, t), t)
           /\ LeaveLine(s, t).held = s.held
           /\ \A u : u # t => (Waits(LeaveLine(s, t), u) <=> Waits(s, u))
<1>1. CASE ~Waits(s, t)
    BY <1>1 DEF LeaveLine
<1>2. CASE Waits(s, t)
    <2>1. PICK p \in DOMAIN s.line :
              /\ s.line[p] = t
              /\ LeaveLine(s, t) = [s EXCEPT !.line = [i \in 1 .. Len(s.line) - 1 |->
                                                         IF i < p THEN s.line[i] ELSE s.line[i + 1]]]
        BY <1>2 DEF LeaveLine, Waits
    <2>2. DOMAIN s.line = 1 .. Len(s.line) /\ Len(s.line) \in Nat /\ s.line \in Seq(T) /\ p \in 1 .. Len(s.line)
        BY DEF Sound, Typed
    <2> DEFINE l == [i \in 1 .. Len(s.line) - 1 |-> IF i < p THEN s.line[i] ELSE s.line[i + 1]]
    <2>3. LeaveLine(s, t) = [free |-> s.free, held |-> s.held, line |-> l]
        BY <2>1 DEF Sound, Typed
    <2>4. /\ DOMAIN l = 1 .. Len(s.line) - 1
          /\ \A i \in 1 .. Len(s.line) - 1 : \E j \in 1 .. Len(s.line) \ {p} :
                 l[i] = s.line[j] /\ i = IF j < p THEN j ELSE j - 1
          /\ \A j \in 1 .. Len(s.line) \ {p} : \E i \in 1 .. Len(s.line) - 1 : l[i] = s.line[j]
        <3>1. ASSUME NEW i \in 1 .. Len(s.line) - 1
              PROVE  \E j \in 1 .. Len(s.line) \ {p} : l[i] = s.line[j] /\ i = IF j < p THEN j ELSE j - 1
            <4>1. i < p => i \in 1 .. Len(s.line) \ {p} /\ l[i] = s.line[i]
                BY <2>2
            <4>2. ~(i < p) => i + 1 \in 1 .. Len(s.line) \ {p} /\ l[i] = s.line[i + 1] /\ i + 1 - 1 = i
                              /\ ~(i + 1 < p)
                BY <2>2
            <4> QED BY <4>1, <4>2
        <3>2. ASSUME NEW j \in 1 .. Len(s.line) \ {p}
              PROVE  \E i \in 1 .. Len(s.line) - 1 : l[i] = s.line[j]
            <4>1. j < p => j \in 1 .. Len(s.line) - 1 /\ l[j] = s.line[j]
                BY <2>2
            <4>2. ~(j < p) => j - 1 \in 1 .. Len(s.line) - 1 /\ l[j - 1] = s.line[j]
                BY <2>2
            <4> QED BY <4>1, <4>2
        <3> QED BY <3>1, <3>2
    <2> HIDE DEF l
    <2>5. l \in Seq(T)
        <3>1. \A i \in 1 .. Len(s.line) - 1 : l[i] \in T
            BY <2>2, <2>4, ElementOfSeq
        <3>2. l = [i \in 1 .. Len(s.line) - 1 |-> l[i]]
            BY DEF l
        <3> QED BY <2>2, <3>1, <3>2, IsASeq
    <2>6. \A u : (\E i \in DOMAIN l : l[i] = u) <=> u # t /\ Waits(s, u)
        <3>1. \A j \in DOMAIN s.line \ {p} : s.line[j] # t
            BY <2>1 DEF Sound, OnceEach
        <3>2. ASSUME NEW u, NEW i \in DOMAIN l, l[i] = u PROVE u # t /\ Waits(s, u)
            BY <2>2, <2>4, <3>1, <3>2 DEF Waits
        <3>3. ASSUME NEW u, u # t, Waits(s, u) PROVE \E i \in DOMAIN l : l[i] = u
            <4>1. PICK j \in 1 .. Len(s.line) \ {p} : s.line[j] = u
                BY <2>1, <2>2, <3>3 DEF Waits
            <4> QED BY <2>4, <4>1
        <3> QED BY <3>2, <3>3
    <2>7. \A i, k \in DOMAIN l : l[i] = l[k] => i = k
        <3> SUFFICES ASSUME NEW i \in DOMAIN l, NEW k \in DOMAIN l, l[i] = l[k] PROVE i = k
            OBVIOUS
        <3>1. PICK a \in 1 .. Len(s.line) \ {p} : l[i] = s.line[a] /\ i = IF a < p THEN a ELSE a - 1
            BY <2>4
        <3>2. PICK b \in 1 .. Len(s.line) \ {p} : l[k] = s.line[b] /\ k = IF b < p THEN b ELSE b - 1
            BY <2>4
        <3>3. a = b
            BY <2>2, <3>1, <3>2 DEF Sound, OnceEach
        <3> QED BY <3>1, <3>2, <3>3
    <2>8. \A i \in DOMAIN l : l[i] \notin s.held
        BY <2>2, <2>4 DEF Sound, OnceEach
    <2>9. Sound(LeaveLine(s, t), n, T)
        BY <2>3, <2>5, <2>7, <2>8 DEF Sound, Typed, Balanced, OnceEach
    <2> QED BY <2>3, <2>6, <2>9 DEF Waits
<1> QED BY <1>1, <1>2
==================================================================================
