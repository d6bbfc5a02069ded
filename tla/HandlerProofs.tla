------------------------------- MODULE HandlerProofs -------------------------------
(* Proofs about what handlers keep and share, side by side as MCHttp has them: for any  *)
(* callers, keys, requests, slots, tabs and bounds.                                     *)
EXTENDS MCHttp, Sequences, FiniteSetTheorems, WellFoundedInduction, TLAPS

-----------------------------------------------------------------------------------
(* The cache. A tagged key that is served is promised to its tags: those it has in the  *)
(* end, and meanwhile those whose index set_tagged has written. A promise is kept when  *)
(* the index knows the key and lives as long. Nobody who read an index that has not     *)
(* been rewritten since misses a promised key.                                          *)

Tagging(c, k) == u3[c].pc \in {"index", "write"} /\ u3[c].key = k /\ u6[k] = c

Promised(k, t) == /\ k \notin u8 /\ Cache!Live(k)
                  /\ \/ t \in u4[k]
                     \/ \E c \in Callers : Tagging(c, k) /\ t \in u3[c].tags \ u3[c].left

Kept(k, t) == u2[t].set /\ k \in u2[t].keys /\ u2[k].until <= u2[t].until

CacheIInv ==
    /\ Cache!TypeOK
    /\ \A k \in Keys, t \in Tags : Promised(k, t) => Kept(k, t)
    /\ \A c \in Callers \ u7 : u3[c].pc \in {"write", "invalidate"} =>
           \A k \in Keys : Promised(k, u3[c].tag) => k \in u3[c].keys
    /\ \A c \in Callers, k \in Keys : Tagging(c, k) /\ Cache!Live(k) => u2[k].until <= u1 + u3[c].ttl
    /\ \A c \in Callers : u3[c].pc = "invalidate" =>
           \A k \in u5[c] \ u8 : Cache!Live(k) => k \in u3[c].keys
    /\ Cache!TagIsInvalidated

(* What is stored, and what is known of an operation by where it is.                    *)
LEMMA EntryShape ==
    ASSUME Cache!TypeOK, NEW x \in Keys \union Tags, u2[x].set
    PROVE  u2[x].keys \in SUBSET Keys /\ u2[x].until \in Nat
<1>1. u2[x] \in Cache!Entry
    BY DEF Cache!TypeOK
<1>2. u2[x] = [set |-> FALSE] \/ u2[x] \in [set : {TRUE}, keys : SUBSET Keys, until : Nat]
    BY <1>1 DEF Cache!Entry, Cache!Absent
<1>3. u2[x] # [set |-> FALSE]
    OBVIOUS
<1> QED BY <1>2, <1>3

LEMMA NewEntry ==
    ASSUME Cache!TypeOK, InstanceAssumptions, NEW keys \in SUBSET Keys, NEW ttl \in TTLs
    PROVE  u1 + ttl \in Nat /\ [set |-> TRUE, keys |-> keys, until |-> u1 + ttl] \in Cache!Entry
<1>1. u1 + ttl \in Nat
    BY DEF Cache!TypeOK, InstanceAssumptions, Cache!CacheAssumption
<1> QED BY <1>1 DEF Cache!Entry

LEMMA OpShape ==
    ASSUME Cache!TypeOK, NEW c \in Callers
    PROVE  /\ u3[c].pc = "compute" => u3[c] \in [pc : {"compute"}, key : Keys, ttl : TTLs]
           /\ u3[c].pc = "index" =>
                  u3[c] \in [pc : {"index"}, key : Keys, ttl : TTLs, tags : SUBSET Tags,
                             left : (SUBSET Tags) \ {{}}]
           /\ u3[c].pc = "write" =>
                  u3[c] \in [pc : {"write"}, key : Keys, ttl : TTLs, tags : SUBSET Tags,
                             left : SUBSET Tags, tag : Tags, keys : SUBSET Keys]
           /\ u3[c].pc = "invalidate" =>
                  u3[c] \in [pc : {"invalidate"}, tag : Tags, keys : SUBSET Keys]
<1>1. u3[c] \in Cache!Op
    BY DEF Cache!TypeOK
<1> QED BY <1>1 DEF Cache!Op, Cache!Idle

LEMMA CacheTyped ==
    ASSUME Cache!TypeOK, Cache!Next, InstanceAssumptions
    PROVE  Cache!TypeOK'
<1> USE DEF Cache!TypeOK, Cache!At, Cache!Step, Cache!history
<1>0. /\ Cache!Absent \in Cache!Entry /\ None \notin Callers
      /\ \A x \in Keys \union Tags : (IF Cache!Live(x) THEN u2[x].keys ELSE {}) \in SUBSET Keys
    BY EntryShape DEF Cache!Entry, Cache!Live, InstanceAssumptions, Cache!CacheAssumption
<1>00. Cache!Idle \in Cache!Op /\ [pc |-> "invalidated"] \in Cache!Op
    BY DEF Cache!Op
<1>1. ASSUME NEW c \in Callers, NEW k \in Keys, Cache!RememberHit(c, k) PROVE Cache!TypeOK'
    BY <1>1 DEF Cache!RememberHit, Cache!vars
<1>2. ASSUME NEW c \in Callers, NEW k \in Keys, Cache!InvalidateKey(c, k) PROVE Cache!TypeOK'
    <2>1. u3[c] \in [pc : {"invalidate"}, tag : Tags, keys : SUBSET Keys]
        BY <1>2, OpShape DEF Cache!InvalidateKey
    <2>2. [u3[c] EXCEPT !.keys = @ \ {k}] \in Cache!Op
        BY <2>1 DEF Cache!Op
    <2> QED BY <1>0, <1>2, <2>2 DEF Cache!InvalidateKey, Cache!RemoveRaw
<1>3. ASSUME NEW c \in Callers, NEW k \in Keys, Cache!Remove(c, k) PROVE Cache!TypeOK'
    BY <1>0, <1>3 DEF Cache!Remove, Cache!RemoveRaw
<1>4. ASSUME NEW c \in Callers, NEW k \in Keys, NEW ttl \in TTLs, Cache!RememberMiss(c, k, ttl)
      PROVE  Cache!TypeOK'
    <2>1. [pc |-> "compute", key |-> k, ttl |-> ttl] \in Cache!Op
        BY DEF Cache!Op
    <2> QED BY <1>4, <2>1 DEF Cache!RememberMiss
<1>5. ASSUME NEW c \in Callers, NEW k \in Keys, NEW ttl \in TTLs, NEW tags \in (SUBSET Tags) \ {{}},
             Cache!SetTagged(c, k, ttl, tags)
      PROVE  Cache!TypeOK'
    <2>1. [pc |-> "index", key |-> k, ttl |-> ttl, tags |-> tags, left |-> tags] \in Cache!Op
        BY DEF Cache!Op
    <2>2. [set |-> TRUE, keys |-> {}, until |-> u1 + ttl] \in Cache!Entry
        BY NewEntry
    <2> QED BY <1>5, <2>1, <2>2 DEF Cache!SetTagged, Cache!SetRaw, Cache!Overwritten
<1>6. ASSUME NEW c \in Callers, NEW t \in Tags, Cache!ReadIndex(c, t) PROVE Cache!TypeOK'
    <2>1. u3[c] \in [pc : {"index"}, key : Keys, ttl : TTLs, tags : SUBSET Tags,
                    left : (SUBSET Tags) \ {{}}]
        BY <1>6, OpShape DEF Cache!ReadIndex
    <2>2. [pc |-> "write", key |-> u3[c].key, ttl |-> u3[c].ttl, tags |-> u3[c].tags,
           left |-> u3[c].left, tag |-> t,
           keys |-> IF Cache!Live(t) THEN u2[t].keys ELSE {}] \in Cache!Op
        BY <1>0, <2>1 DEF Cache!Op
    <2> QED BY <1>6, <2>2 DEF Cache!ReadIndex
<1>7. ASSUME NEW c \in Callers, NEW t \in Tags, Cache!Invalidate(c, t) PROVE Cache!TypeOK'
    <2>1. [pc |-> "invalidate", tag |-> t,
           keys |-> IF Cache!Live(t) THEN u2[t].keys ELSE {}] \in Cache!Op
        BY <1>0 DEF Cache!Op
    <2> QED BY <1>7, <2>1 DEF Cache!Invalidate
<1>8. ASSUME NEW c \in Callers, Cache!RememberStores(c) PROVE Cache!TypeOK'
    <2>1. u3[c] \in [pc : {"compute"}, key : Keys, ttl : TTLs]
        BY <1>8, OpShape DEF Cache!RememberStores
    <2>2. [set |-> TRUE, keys |-> {}, until |-> u1 + u3[c].ttl] \in Cache!Entry
        BY <2>1, NewEntry
    <2> QED BY <1>00, <1>8, <2>1, <2>2 DEF Cache!RememberStores, Cache!SetRaw, Cache!Overwritten
<1>9. ASSUME NEW c \in Callers, Cache!RememberFails(c) PROVE Cache!TypeOK'
    BY <1>00, <1>9 DEF Cache!RememberFails
<1>10. ASSUME NEW c \in Callers, Cache!WriteIndex(c) PROVE Cache!TypeOK'
    <2>1. u3[c] \in [pc : {"write"}, key : Keys, ttl : TTLs, tags : SUBSET Tags, left : SUBSET Tags,
                    tag : Tags, keys : SUBSET Keys]
        BY <1>10, OpShape DEF Cache!WriteIndex
    <2> DEFINE left == u3[c].left \ {u3[c].tag}
    <2>2. u3' \in [Callers -> Cache!Op]
        <3>1. \A l \in (SUBSET Tags) \ {{}} :
                  [pc |-> "index", key |-> u3[c].key, ttl |-> u3[c].ttl, tags |-> u3[c].tags,
                   left |-> l] \in Cache!Op
            BY <2>1 DEF Cache!Op
        <3>2. left # {} => left \in (SUBSET Tags) \ {{}}
            BY <2>1
        <3> QED BY <1>00, <1>10, <3>1, <3>2 DEF Cache!WriteIndex, Cache!IndexWritten, Cache!NextTag
    <2>3. u2' \in [Keys \union Tags -> Cache!Entry]
        <3>1. [set |-> TRUE, keys |-> u3[c].keys \union {u3[c].key}, until |-> u1 + u3[c].ttl]
                  \in Cache!Entry
            BY <2>1, NewEntry
        <3> QED BY <1>10, <2>1, <3>1 DEF Cache!WriteIndex, Cache!SetRaw
    <2>4. u4' \in [Keys -> SUBSET Tags]
        BY <1>10, <2>1 DEF Cache!WriteIndex, Cache!IndexWritten
    <2>5. u2[u3[c].tag].set => u2[u3[c].tag].keys \in SUBSET Keys
        BY <2>1, EntryShape
    <2>6. u7' \subseteq Callers /\ u8' \subseteq Keys
        BY <1>10, <2>5 DEF Cache!WriteIndex, Cache!IndexWritten, Cache!Readers
    <2> QED BY <1>10, <2>2, <2>3, <2>4, <2>6 DEF Cache!WriteIndex, Cache!IndexWritten
<1>11. ASSUME NEW c \in Callers, Cache!InvalidateIndex(c) PROVE Cache!TypeOK'
    <2>1. u3[c] \in [pc : {"invalidate"}, tag : Tags, keys : SUBSET Keys]
        BY <1>11, OpShape DEF Cache!InvalidateIndex
    <2>2. u2' \in [Keys \union Tags -> Cache!Entry] /\ u3' \in [Callers -> Cache!Op]
        BY <1>0, <1>00, <1>11, <2>1 DEF Cache!InvalidateIndex, Cache!RemoveRaw, Cache!IndexRemoved
    <2>3. u2[u3[c].tag].set => u2[u3[c].tag].keys \in SUBSET Keys
        BY <2>1, EntryShape
    <2>4. u7' \subseteq Callers /\ u8' \subseteq Keys
        BY <1>11, <2>3 DEF Cache!InvalidateIndex, Cache!IndexRemoved
    <2> QED BY <1>11, <2>2, <2>4 DEF Cache!InvalidateIndex, Cache!IndexRemoved
<1>12. ASSUME NEW c \in Callers, Cache!Return(c) PROVE Cache!TypeOK'
    BY <1>00, <1>12 DEF Cache!Return
<1>13. ASSUME NEW c \in Callers, Cache!Clear(c) PROVE Cache!TypeOK'
    BY <1>0, <1>13 DEF Cache!Clear
<1>14. ASSUME NEW c \in Callers, Cache!CallerGone(c) PROVE Cache!TypeOK'
    BY <1>00, <1>14 DEF Cache!CallerGone
<1>15. CASE Cache!Reclaim
    BY <1>0, <1>15 DEF Cache!Reclaim
<1>16. CASE Cache!Tick
    BY <1>16 DEF Cache!Tick, InstanceAssumptions, Cache!CacheAssumption
<1> QED BY <1>1, <1>2, <1>3, <1>4, <1>5, <1>6, <1>7, <1>8, <1>9, <1>10, <1>11, <1>12, <1>13, <1>14,
           <1>15, <1>16 DEF Cache!Next

-----------------------------------------------------------------------------------
(* A step after which less is served, less is being done and the indexes of what is     *)
(* still served stand.                                                                  *)
LEMMA CalmKeeps ==
    ASSUME CacheIInv, Cache!TypeOK', InstanceAssumptions, u4' = u4, u6' = u6, u8' = u8, u1 <= u1',
           \A k \in Keys : Cache!Live(k)' => Cache!Live(k) /\ u2'[k] = u2[k],
           \A k \in Keys, t \in Tags : Kept(k, t) /\ Cache!Live(k)' => Kept(k, t)',
           \A d \in Callers : u3'[d].pc \in {"index", "write"} => u3'[d] = u3[d],
           \A d \in Callers : u3'[d].pc = "invalidate" =>
               /\ u3[d].pc = "invalidate" /\ u3'[d].tag = u3[d].tag /\ u5'[d] = u5[d]
               /\ \A k \in u3[d].keys : k \in u3'[d].keys \/ ~Cache!Live(k)',
           \A d \in Callers : u3'[d].pc = "invalidated" => u3[d].pc = "invalidated" /\ u5'[d] = u5[d],
           \A d \in Callers : u3'[d].pc \in {"write", "invalidate"} /\ d \in u7 => d \in u7'
    PROVE  CacheIInv'
<1>1. \A k \in Keys, t \in Tags : Promised(k, t)' => Promised(k, t) /\ Cache!Live(k)'
    BY DEF Promised, Tagging
<1>2. \A k \in Keys, t \in Tags : Promised(k, t)' => Kept(k, t)'
    BY <1>1 DEF CacheIInv
<1>3. ASSUME NEW c \in Callers \ u7', u3'[c].pc \in {"write", "invalidate"}, NEW k \in Keys,
             Promised(k, u3[c].tag)'
      PROVE  k \in u3'[c].keys
    <2>1. u3'[c].tag = u3[c].tag /\ u3[c].pc = u3'[c].pc /\ u3[c].tag \in Tags /\ c \notin u7
        BY <1>3, OpShape DEF CacheIInv
    <2>2. Promised(k, u3[c].tag) /\ Cache!Live(k)'
        BY <1>1, <1>3, <2>1
    <2>3. k \in u3[c].keys
        BY <1>3, <2>1, <2>2 DEF CacheIInv
    <2> QED BY <1>3, <2>2, <2>3
<1>4. ASSUME NEW c \in Callers, NEW k \in Keys, Tagging(c, k)', Cache!Live(k)'
      PROVE  u2'[k].until <= u1' + u3'[c].ttl
    <2>1. u3'[c] = u3[c] /\ Tagging(c, k) /\ Cache!Live(k) /\ u2'[k] = u2[k]
        BY <1>4 DEF Tagging
    <2>2. u2[k].until <= u1 + u3[c].ttl
        BY <2>1 DEF CacheIInv
    <2>3. u2[k].until \in Nat
        BY <2>1, EntryShape DEF CacheIInv, Cache!Live
    <2>4. u3[c].ttl \in Nat
        BY <2>1, OpShape DEF CacheIInv, Tagging, InstanceAssumptions, Cache!CacheAssumption
    <2>5. u1 \in Nat /\ u1' \in Nat
        BY DEF CacheIInv, Cache!TypeOK, InstanceAssumptions, Cache!CacheAssumption
    <2> QED BY <2>1, <2>2, <2>3, <2>4, <2>5
<1>5. ASSUME NEW c \in Callers, u3'[c].pc = "invalidate", NEW k \in u5'[c] \ u8', Cache!Live(k)'
      PROVE  k \in u3'[c].keys
    BY <1>5 DEF CacheIInv, Cache!TypeOK
<1>6. Cache!TagIsInvalidated'
    BY DEF CacheIInv, Cache!TypeOK, Cache!TagIsInvalidated, Cache!At
<1>7. \A c \in Callers \ u7' : u3'[c].pc \in {"write", "invalidate"} =>
          \A k \in Keys : Promised(k, u3[c].tag)' => k \in u3'[c].keys
    BY <1>3
<1> QED BY <1>2, <1>3, <1>4, <1>5, <1>6 DEF CacheIInv

LEMMA CalmSteps ==
    ASSUME CacheIInv, Cache!TypeOK', InstanceAssumptions,
           \/ \E c \in Callers :
                 \/ Cache!RememberFails(c) \/ Cache!Return(c) \/ Cache!Clear(c) \/ Cache!CallerGone(c)
                 \/ \E k \in Keys : \/ Cache!RememberHit(c, k) \/ Cache!InvalidateKey(c, k)
                                    \/ Cache!Remove(c, k)
                                    \/ \E ttl \in TTLs : Cache!RememberMiss(c, k, ttl)
           \/ Cache!Reclaim \/ Cache!Tick
    PROVE  CacheIInv'
<1> USE DEF Cache!At, Cache!Step, Cache!history, Cache!vars, Kept, Cache!Live, Cache!RemoveRaw, Cache!Absent
<1>0. Cache!TypeOK /\ Keys \intersect Tags = {} /\ u1 \in Nat
    BY DEF CacheIInv, Cache!TypeOK, InstanceAssumptions, Cache!CacheAssumption
<1>1. ASSUME NEW c \in Callers, NEW o, Cache!Step(c, o), o.pc \in {"idle", "compute"},
             u7' = u7 \/ u7' = u7 \ {c}, u5' = u5 \/ u5' = [u5 EXCEPT ![c] = {}],
             UNCHANGED <<u1, u2, u4, u6, u8>>
      PROVE  CacheIInv'
    BY <1>0, <1>1, CalmKeeps DEF Cache!TypeOK
<1>2. ASSUME NEW c \in Callers, Cache!RememberFails(c) PROVE CacheIInv'
    BY <1>1, <1>2 DEF Cache!RememberFails, Cache!Idle
<1>3. ASSUME NEW c \in Callers, Cache!Return(c) PROVE CacheIInv'
    BY <1>1, <1>3 DEF Cache!Return, Cache!Idle
<1>4. ASSUME NEW c \in Callers, Cache!CallerGone(c) PROVE CacheIInv'
    BY <1>1, <1>4 DEF Cache!CallerGone, Cache!Idle
<1>5. ASSUME NEW c \in Callers, NEW k \in Keys, NEW ttl \in TTLs, Cache!RememberMiss(c, k, ttl)
      PROVE  CacheIInv'
    BY <1>1, <1>5 DEF Cache!RememberMiss
<1>6. ASSUME NEW c \in Callers, Cache!Clear(c) PROVE CacheIInv'
    BY <1>0, <1>6, CalmKeeps DEF Cache!Clear
<1>7. ASSUME NEW c \in Callers, NEW k \in Keys, Cache!RememberHit(c, k) PROVE CacheIInv'
    BY <1>0, <1>7, CalmKeeps DEF Cache!RememberHit
<1>8. ASSUME NEW c \in Callers, NEW k \in Keys, Cache!InvalidateKey(c, k) PROVE CacheIInv'
    BY <1>0, <1>8, CalmKeeps, OpShape DEF Cache!InvalidateKey, Cache!TypeOK
<1>9. ASSUME NEW c \in Callers, NEW k \in Keys, Cache!Remove(c, k) PROVE CacheIInv'
    BY <1>0, <1>9, CalmKeeps DEF Cache!Remove, Cache!TypeOK
<1>10. CASE Cache!Reclaim
    BY <1>0, <1>10, CalmKeeps, EntryShape DEF Cache!Reclaim
<1>11. CASE Cache!Tick
    BY <1>0, <1>11, CalmKeeps, EntryShape DEF Cache!Tick
<1> QED BY <1>2, <1>3, <1>4, <1>5, <1>6, <1>7, <1>8, <1>9, <1>10, <1>11

(* A key that is set is promised to no tag, and nobody owes its removal any more; for   *)
(* the other keys nothing changes.                                                      *)
LEMMA SettingKeeps ==
    ASSUME CacheIInv, Cache!TypeOK', InstanceAssumptions, NEW c \in Callers, NEW k \in Keys,
           NEW ttl \in TTLs, NEW o, NEW by, Cache!SetRaw(k, {}, ttl), Cache!Overwritten(k, by),
           Cache!Step(c, o), UNCHANGED u1, u3[c].pc \in {"idle", "compute"},
           \/ o.pc = "idle" /\ by = None
           \/ o.pc = "index" /\ o.key = k /\ o.ttl = ttl /\ o.left = o.tags /\ by = c
    PROVE  CacheIInv'
<1> USE DEF Cache!At, Cache!Step, Cache!Overwritten
<1>0. /\ Cache!TypeOK /\ Keys \intersect Tags = {} /\ u1 \in Nat /\ None \notin Callers
      /\ TTLs \subseteq Nat
    BY DEF CacheIInv, Cache!TypeOK, InstanceAssumptions, Cache!CacheAssumption
<1>1. /\ u2' = [u2 EXCEPT ![k] = [set |-> TRUE, keys |-> {}, until |-> u1 + ttl]]
      /\ u2 \in [Keys \union Tags -> Cache!Entry] /\ u3 \in [Callers -> Cache!Op]
    BY <1>0 DEF Cache!SetRaw, Cache!TypeOK
<1>2. \A x \in (Keys \union Tags) \ {k} : u2'[x] = u2[x] /\ (Cache!Live(x)' <=> Cache!Live(x))
    BY <1>1 DEF Cache!Live
<1>3. u3' = [u3 EXCEPT ![c] = o] /\ \A d \in Callers \ {c} : u3'[d] = u3[d]
    BY <1>1
<1>4. ASSUME NEW j \in Keys, NEW t \in Tags, Promised(j, t)' PROVE j # k /\ Promised(j, t)
    <2>1. \A d \in Callers : Tagging(d, k)' => d = c /\ u3'[d].tags \ u3'[d].left = {}
        BY <1>0, <1>1, <1>3 DEF Tagging, Cache!TypeOK
    <2>2. j # k
        BY <1>4, <2>1 DEF Promised, CacheIInv, Cache!TypeOK
    <2>3. \A d \in Callers : Tagging(d, j)' => Tagging(d, j) /\ u3'[d] = u3[d]
        BY <1>1, <1>3, <2>2 DEF Tagging, CacheIInv, Cache!TypeOK
    <2> QED BY <1>2, <1>4, <2>2, <2>3 DEF Promised, CacheIInv, Cache!TypeOK
<1>5. \A j \in Keys, t \in Tags : Promised(j, t)' => Kept(j, t)'
    BY <1>0, <1>2, <1>4 DEF CacheIInv, Kept
<1>6. ASSUME NEW d \in Callers \ u7', u3'[d].pc \in {"write", "invalidate"}, NEW j \in Keys,
             Promised(j, u3[d].tag)'
      PROVE  j \in u3'[d].keys
    <2>1. d # c /\ u3'[d] = u3[d] /\ d \notin u7 /\ u3[d].tag \in Tags
        BY <1>0, <1>1, <1>3, <1>6, OpShape
    <2>2. Promised(j, u3[d].tag)
        BY <1>4, <1>6, <2>1
    <2> QED BY <1>6, <2>1, <2>2 DEF CacheIInv
<1>7. ASSUME NEW d \in Callers, NEW j \in Keys, Tagging(d, j)', Cache!Live(j)'
      PROVE  u2'[j].until <= u1' + u3'[d].ttl
    <2>1. CASE j = k
        <3>1. d = c /\ u3'[d] = o /\ o.ttl = ttl
            BY <1>0, <1>1, <1>3, <1>7, <2>1 DEF Tagging, Cache!TypeOK
        <3> QED BY <1>0, <1>1, <2>1, <3>1
    <2>2. CASE j # k
        <3>1. Tagging(d, j) /\ u3'[d] = u3[d]
            BY <1>1, <1>3, <1>7, <2>2 DEF Tagging, CacheIInv, Cache!TypeOK
        <3> QED BY <1>2, <1>7, <2>2, <3>1 DEF CacheIInv
    <2> QED BY <2>1, <2>2
<1>8. ASSUME NEW d \in Callers, u3'[d].pc = "invalidate", NEW j \in u5'[d] \ u8', Cache!Live(j)'
      PROVE  j \in u3'[d].keys
    <2>1. d # c /\ u3'[d] = u3[d] /\ j # k /\ j \in u5[d] \ u8 /\ j \in Keys
        BY <1>0, <1>1, <1>3, <1>8 DEF Cache!TypeOK
    <2> QED BY <1>2, <1>8, <2>1 DEF CacheIInv
<1>9. ASSUME NEW d \in Callers, u3'[d].pc = "invalidated", NEW j \in u5'[d] \ u8'
      PROVE  ~Cache!Live(j)'
    <2>1. d # c /\ u3'[d] = u3[d] /\ j # k /\ j \in u5[d] \ u8 /\ j \in Keys
        BY <1>0, <1>1, <1>3, <1>9 DEF Cache!TypeOK
    <2> QED BY <1>2, <1>9, <2>1 DEF CacheIInv, Cache!TagIsInvalidated
<1>10. Cache!TagIsInvalidated'
    BY <1>9 DEF Cache!TagIsInvalidated
<1> QED BY <1>5, <1>6, <1>7, <1>8, <1>10 DEF CacheIInv

(* Who reads an index reads of every key that is promised to it.                        *)
LEMMA ReadingKeeps ==
    ASSUME CacheIInv, Cache!TypeOK', InstanceAssumptions, NEW c \in Callers, NEW t \in Tags,
           Cache!ReadIndex(c, t) \/ Cache!Invalidate(c, t)
    PROVE  CacheIInv'
<1> USE DEF Cache!At, Cache!Step, Cache!history
<1> DEFINE seen == IF Cache!Live(t) THEN u2[t].keys ELSE {}
<1>0. Cache!TypeOK /\ u1 \in Nat
    BY DEF CacheIInv, Cache!TypeOK, InstanceAssumptions, Cache!CacheAssumption
<1>1. /\ UNCHANGED <<u1, u2, u4, u6, u7, u8>> /\ \A d \in Callers \ {c} : u3'[d] = u3[d] /\ u5'[d] = u5[d]
      /\ u3'[c].tag = t /\ u3'[c].keys = seen /\ u3'[c].pc \in {"write", "invalidate"}
    <2>1. CASE Cache!ReadIndex(c, t)
        BY <1>0, <2>1 DEF Cache!ReadIndex, Cache!TypeOK
    <2>2. CASE Cache!Invalidate(c, t)
        BY <1>0, <2>2 DEF Cache!Invalidate, Cache!TypeOK
    <2> QED BY <2>1, <2>2
<1>2. /\ u3'[c].pc = "write" => /\ u3[c].pc = "index" /\ u3'[c].key = u3[c].key
                                /\ u3'[c].ttl = u3[c].ttl /\ u3'[c].tags = u3[c].tags
                                /\ u3'[c].left = u3[c].left
      /\ u3'[c].pc = "invalidate" => u5'[c] = {k \in Keys : t \in u4[k]}
    BY <1>0 DEF Cache!ReadIndex, Cache!Invalidate, Cache!TypeOK
<1>3. \A k : Cache!Live(k)' <=> Cache!Live(k)
    BY <1>1 DEF Cache!Live
<1>4. \A d \in Callers, k \in Keys : Tagging(d, k)' =>
          /\ Tagging(d, k) /\ u3'[d].tags = u3[d].tags /\ u3'[d].left = u3[d].left
          /\ u3'[d].ttl = u3[d].ttl
    BY <1>1, <1>2 DEF Tagging
<1>5. \A k \in Keys, x \in Tags : Promised(k, x)' => Promised(k, x)
    BY <1>1, <1>3, <1>4 DEF Promised
<1>6. \A k \in Keys : Promised(k, t) => k \in seen
    <2> SUFFICES ASSUME NEW k \in Keys, Promised(k, t) PROVE k \in seen
      OBVIOUS
    <2>1. Kept(k, t) /\ Cache!Live(k)
        BY DEF CacheIInv, Promised
    <2>2. u2[k].until \in Nat /\ u2[t].until \in Nat
        BY <1>0, <2>1, EntryShape DEF Kept, Cache!Live
    <2> QED BY <1>0, <2>1, <2>2 DEF Kept, Cache!Live
<1>7. \A k \in Keys, x \in Tags : Promised(k, x)' => Kept(k, x)'
    BY <1>1, <1>5 DEF CacheIInv, Kept
<1>8. ASSUME NEW d \in Callers \ u7', u3'[d].pc \in {"write", "invalidate"}, NEW k \in Keys,
             Promised(k, u3[d].tag)'
      PROVE  k \in u3'[d].keys
    <2>1. CASE d = c
        BY <1>1, <1>5, <1>6, <1>8, <2>1
    <2>2. CASE d # c
        <3>1. u3'[d] = u3[d] /\ u3[d].tag \in Tags
            BY <1>0, <1>1, <1>8, <2>2, OpShape
        <3>2. Promised(k, u3[d].tag)
            BY <1>5, <1>8, <3>1
        <3> QED BY <1>1, <1>8, <3>1, <3>2 DEF CacheIInv
    <2> QED BY <2>1, <2>2
<1>9. \A d \in Callers, k \in Keys : Tagging(d, k)' /\ Cache!Live(k)' => u2'[k].until <= u1' + u3'[d].ttl
    BY <1>1, <1>3, <1>4 DEF CacheIInv
<1>10. ASSUME NEW d \in Callers, u3'[d].pc = "invalidate", NEW k \in u5'[d] \ u8', Cache!Live(k)'
       PROVE  k \in u3'[d].keys
    <2>1. CASE d = c
        BY <1>1, <1>2, <1>3, <1>6, <1>10, <2>1 DEF Promised
    <2>2. CASE d # c
        BY <1>1, <1>3, <1>10, <2>2 DEF CacheIInv
    <2> QED BY <2>1, <2>2
<1>11. Cache!TagIsInvalidated'
    BY <1>1, <1>3 DEF CacheIInv, Cache!TagIsInvalidated
<1> QED BY <1>7, <1>8, <1>9, <1>10, <1>11 DEF CacheIInv

(* An index that is removed was promised nothing any more: its reader has removed every *)
(* key it read, and one it did not read of is exposed.                                  *)
LEMMA InvalidateIndexKeeps ==
    ASSUME CacheIInv, Cache!TypeOK', InstanceAssumptions, NEW c \in Callers, Cache!InvalidateIndex(c)
    PROVE  CacheIInv'
<1> USE DEF Cache!At, Cache!Step
<1>0. Cache!TypeOK /\ Keys \intersect Tags = {}
    BY DEF CacheIInv, InstanceAssumptions, Cache!CacheAssumption
<1>1. PICK t \in Tags : u3[c].tag = t /\ u3[c].pc = "invalidate" /\ u3[c].keys = {}
    BY <1>0, OpShape DEF Cache!InvalidateIndex
<1>2. /\ UNCHANGED <<u1, u4, u5, u6>> /\ u3' = [u3 EXCEPT ![c] = [pc |-> "invalidated"]]
      /\ u7' = u7 \ {c} /\ u2' = [u2 EXCEPT ![t] = Cache!Absent]
      /\ u8' = IF c \in u7 /\ u2[t].set THEN u8 \union u2[t].keys ELSE u8
    BY <1>1 DEF Cache!InvalidateIndex, Cache!IndexRemoved, Cache!RemoveRaw
<1>3. /\ u3'[c] = [pc |-> "invalidated"] /\ \A d \in Callers \ {c} : u3'[d] = u3[d]
      /\ \A x \in (Keys \union Tags) \ {t} : u2'[x] = u2[x] /\ (Cache!Live(x)' <=> Cache!Live(x))
      /\ u8 \subseteq u8'
    BY <1>0, <1>2 DEF Cache!TypeOK, Cache!Live
<1>4. ASSUME NEW k \in Keys, NEW x \in Tags, Promised(k, x)' PROVE Promised(k, x) /\ x # t
    <2>1. \A d \in Callers : Tagging(d, k)' => Tagging(d, k) /\ u3'[d] = u3[d]
        BY <1>2, <1>3 DEF Tagging
    <2>2. Promised(k, x)
        BY <1>0, <1>2, <1>3, <1>4, <2>1 DEF Promised
    <2>3. ~Promised(k, t)
        BY <1>1, <1>2, <1>4 DEF CacheIInv, Promised, Kept
    <2> QED BY <2>2, <2>3
<1>5. \A k \in Keys, x \in Tags : Promised(k, x)' => Kept(k, x)'
    BY <1>0, <1>3, <1>4 DEF CacheIInv, Kept
<1>6. ASSUME NEW d \in Callers \ u7', u3'[d].pc \in {"write", "invalidate"}, NEW k \in Keys,
             Promised(k, u3[d].tag)'
      PROVE  k \in u3'[d].keys
    <2>1. d # c /\ u3'[d] = u3[d] /\ d \notin u7 /\ u3[d].tag \in Tags
        BY <1>0, <1>2, <1>3, <1>6, OpShape
    <2>2. Promised(k, u3[d].tag)
        BY <1>4, <1>6, <2>1
    <2> QED BY <1>6, <2>1, <2>2 DEF CacheIInv
<1>7. ASSUME NEW d \in Callers, NEW k \in Keys, Tagging(d, k)', Cache!Live(k)'
      PROVE  u2'[k].until <= u1' + u3'[d].ttl
    BY <1>0, <1>2, <1>3, <1>7 DEF CacheIInv, Tagging
<1>8. ASSUME NEW d \in Callers, u3'[d].pc = "invalidate", NEW k \in u5'[d] \ u8', Cache!Live(k)'
      PROVE  k \in u3'[d].keys
    BY <1>0, <1>2, <1>3, <1>8 DEF CacheIInv, Cache!TypeOK
<1>9. ASSUME NEW d \in Callers, u3'[d].pc = "invalidated", NEW k \in u5'[d] \ u8' PROVE ~Cache!Live(k)'
    <2>1. k \in Keys /\ k \in u5[d] \ u8
        BY <1>0, <1>2, <1>3, <1>9 DEF Cache!TypeOK
    <2> QED BY <1>0, <1>1, <1>3, <1>9, <2>1 DEF CacheIInv, Cache!TagIsInvalidated
<1>10. Cache!TagIsInvalidated'
    BY <1>9 DEF Cache!TagIsInvalidated
<1> QED BY <1>5, <1>6, <1>7, <1>8, <1>10 DEF CacheIInv

(* An index that is written back knows what it knew, or what it knew is exposed, and    *)
(* lives as long; who read it before counts as one that did.                            *)
LEMMA WriteIndexKeeps ==
    ASSUME CacheIInv, Cache!TypeOK', InstanceAssumptions, NEW c \in Callers, Cache!WriteIndex(c)
    PROVE  CacheIInv'
<1> USE DEF Cache!At, Cache!Step
<1>0. Cache!TypeOK /\ Keys \intersect Tags = {} /\ u1 \in Nat /\ TTLs \subseteq Nat
    BY DEF CacheIInv, Cache!TypeOK, InstanceAssumptions, Cache!CacheAssumption
<1>1. PICK t \in Tags, key \in Keys, ttl \in TTLs, keys \in SUBSET Keys, tags \in SUBSET Tags,
           left \in SUBSET Tags :
          u3[c] = [pc |-> "write", key |-> key, ttl |-> ttl, tags |-> tags, left |-> left, tag |-> t,
                   keys |-> keys]
    <2>1. u3[c] \in [pc : {"write"}, key : Keys, ttl : TTLs, tags : SUBSET Tags, left : SUBSET Tags,
                     tag : Tags, keys : SUBSET Keys]
        BY <1>0, OpShape DEF Cache!WriteIndex
    <2> QED BY <2>1
<1>2. /\ UNCHANGED <<u1, u5, u6>> /\ u7' = (u7 \union Cache!Readers(t)) \ {c}
      /\ u2' = [u2 EXCEPT ![t] = [set |-> TRUE, keys |-> keys \union {key}, until |-> u1 + ttl]]
      /\ u8' = IF (c \in u7 \/ Cache!Shortens(t, ttl)) /\ u2[t].set THEN u8 \union u2[t].keys ELSE u8
      /\ u4' = IF left \ {t} = {} /\ u6[key] = c THEN [u4 EXCEPT ![key] = tags] ELSE u4
    BY <1>1 DEF Cache!WriteIndex, Cache!IndexWritten, Cache!SetRaw
<1>3. u3' = [u3 EXCEPT ![c] = IF left \ {t} = {} THEN Cache!Idle
                              ELSE [pc |-> "index", key |-> key, ttl |-> ttl, tags |-> tags,
                                    left |-> left \ {t}]]
    BY <1>1 DEF Cache!WriteIndex, Cache!IndexWritten, Cache!NextTag
<1>4. /\ \A d \in Callers \ {c} : u3'[d] = u3[d]
      /\ u3'[c].pc \in {"idle", "index"}
      /\ u3'[c].pc = "index" => /\ u3'[c].key = key /\ u3'[c].ttl = ttl /\ u3'[c].tags = tags
                                /\ u3'[c].left = left \ {t}
    BY <1>0, <1>3 DEF Cache!TypeOK, Cache!Idle
<1>5. /\ u8 \subseteq u8' /\ u2'[t] = [set |-> TRUE, keys |-> keys \union {key}, until |-> u1 + ttl]
      /\ \A x \in (Keys \union Tags) \ {t} : u2'[x] = u2[x] /\ (Cache!Live(x)' <=> Cache!Live(x))
    BY <1>0, <1>2 DEF Cache!TypeOK, Cache!Live
<1>6. ASSUME NEW k \in Keys, NEW x \in Tags, Promised(k, x)'
      PROVE  \/ Promised(k, x)
             \/ x = t /\ k = key /\ Tagging(c, key) /\ Cache!Live(key)
    <2>1. k \notin u8 /\ Cache!Live(k)
        BY <1>0, <1>5, <1>6 DEF Promised
    <2>2. CASE x \in u4'[k] /\ x \notin u4[k]
        <3>1. k = key /\ x \in tags /\ left \ {t} = {} /\ u6[key] = c
            BY <1>0, <1>2, <2>2 DEF Cache!TypeOK
        <3>2. Tagging(c, key) /\ u3[c].tags = tags /\ u3[c].left = left
            BY <1>1, <3>1 DEF Tagging
        <3> QED BY <2>1, <3>1, <3>2 DEF Promised
    <2>3. ASSUME NEW d \in Callers, Tagging(d, k)', x \in u3'[d].tags \ u3'[d].left
          PROVE  Promised(k, x) \/ (x = t /\ k = key /\ Tagging(c, key))
        <3>1. CASE d = c
            <4>1. k = key /\ Tagging(c, key) /\ x \in tags \ (left \ {t})
                BY <1>1, <1>2, <1>4, <2>3, <3>1 DEF Tagging
            <4>2. u3[c].tags = tags /\ u3[c].left = left
                BY <1>1
            <4> QED BY <2>1, <4>1, <4>2 DEF Promised
        <3>2. CASE d # c
            BY <1>2, <1>4, <2>1, <2>3, <3>2 DEF Promised, Tagging
        <3> QED BY <3>1, <3>2
    <2> QED BY <1>6, <2>1, <2>2, <2>3 DEF Promised
<1>7. ASSUME NEW k \in Keys, NEW x \in Tags, Promised(k, x)' PROVE Kept(k, x)'
    <2>1. CASE x = t /\ k = key /\ Tagging(c, key) /\ Cache!Live(key)
        <3>1. u2[key].until <= u1 + u3[c].ttl /\ u3[c].ttl = ttl
            BY <1>1, <2>1 DEF CacheIInv
        <3> QED BY <1>0, <1>5, <2>1, <3>1 DEF Kept
    <2>2. CASE Promised(k, x) /\ x # t
        BY <1>0, <1>5, <2>2 DEF CacheIInv, Kept
    <2>3. CASE Promised(k, x) /\ x = t
        <3>1. Kept(k, t) /\ Cache!Live(k)
            BY <2>3 DEF CacheIInv, Promised
        <3>2. c \notin u7 /\ ~Cache!Shortens(t, ttl)
            BY <1>2, <1>7, <3>1 DEF Promised, Kept
        <3>3. k \in keys
            BY <1>1, <2>3, <3>2 DEF CacheIInv
        <3>4. u2[k].until <= u1 + ttl
            <4>1. u2[k].until \in Nat /\ u2[t].until \in Nat /\ u1 + ttl \in Nat
                BY <1>0, <3>1, EntryShape DEF Kept, Cache!Live
            <4> QED BY <3>1, <3>2, <4>1 DEF Kept, Cache!Shortens
        <3> QED BY <1>0, <1>5, <2>3, <3>3, <3>4 DEF Kept
    <2> QED BY <1>6, <1>7, <2>1, <2>2, <2>3
<1>8. ASSUME NEW d \in Callers \ u7', u3'[d].pc \in {"write", "invalidate"}, NEW k \in Keys,
             Promised(k, u3[d].tag)'
      PROVE  k \in u3'[d].keys
    <2>1. d # c /\ u3'[d] = u3[d] /\ d \notin u7 /\ d \notin Cache!Readers(t) /\ u3[d].tag \in Tags
        BY <1>0, <1>2, <1>4, <1>8, OpShape
    <2>2. u3[d].tag # t
        BY <1>8, <2>1 DEF Cache!Readers
    <2>3. Promised(k, u3[d].tag)
        BY <1>6, <1>8, <2>1, <2>2
    <2> QED BY <1>8, <2>1, <2>3 DEF CacheIInv
<1>9. ASSUME NEW d \in Callers, NEW k \in Keys, Tagging(d, k)', Cache!Live(k)'
      PROVE  u2'[k].until <= u1' + u3'[d].ttl
    <2>1. Tagging(d, k) /\ u3'[d].ttl = u3[d].ttl
        BY <1>1, <1>2, <1>4, <1>9 DEF Tagging
    <2> QED BY <1>0, <1>2, <1>5, <1>9, <2>1 DEF CacheIInv
<1>10. ASSUME NEW d \in Callers, u3'[d].pc = "invalidate", NEW k \in u5'[d] \ u8', Cache!Live(k)'
       PROVE  k \in u3'[d].keys
    BY <1>0, <1>2, <1>4, <1>5, <1>10 DEF CacheIInv, Cache!TypeOK
<1>11. ASSUME NEW d \in Callers, u3'[d].pc = "invalidated", NEW k \in u5'[d] \ u8' PROVE ~Cache!Live(k)'
    <2>1. d # c /\ u3[d].pc = "invalidated" /\ k \in Keys /\ k \in u5[d] \ u8
        BY <1>0, <1>2, <1>4, <1>5, <1>11 DEF Cache!TypeOK
    <2> QED BY <1>0, <1>5, <2>1 DEF CacheIInv, Cache!TagIsInvalidated
<1>12. Cache!TagIsInvalidated'
    BY <1>11 DEF Cache!TagIsInvalidated
<1> QED BY <1>7, <1>8, <1>9, <1>10, <1>12 DEF CacheIInv

LEMMA CacheKeeps ==
    ASSUME CacheIInv, Cache!Next, InstanceAssumptions
    PROVE  CacheIInv'
<1>1. Cache!TypeOK'
    BY CacheTyped DEF CacheIInv
<1>2. ASSUME NEW c \in Callers, Cache!RememberStores(c) PROVE CacheIInv'
    <2>1. u3[c] \in [pc : {"compute"}, key : Keys, ttl : TTLs]
        BY <1>2, OpShape DEF CacheIInv, Cache!RememberStores, Cache!At
    <2> QED BY <1>1, <1>2, <2>1, SettingKeeps DEF Cache!RememberStores, Cache!Idle, Cache!At
<1>3. ASSUME NEW c \in Callers, NEW k \in Keys, NEW ttl \in TTLs, NEW tags \in (SUBSET Tags) \ {{}},
             Cache!SetTagged(c, k, ttl, tags)
      PROVE  CacheIInv'
    BY <1>1, <1>3, SettingKeeps DEF Cache!SetTagged, Cache!At
<1> QED BY <1>1, <1>2, <1>3, CalmSteps, ReadingKeeps, WriteIndexKeeps, InvalidateIndexKeeps DEF Cache!Next

LEMMA CacheStarts ==
    ASSUME Cache!Init, InstanceAssumptions
    PROVE  CacheIInv
<1>1. Cache!TypeOK
    <2>1. Cache!Absent \in Cache!Entry /\ Cache!Idle \in Cache!Op /\ MaxTime \in Nat
        BY DEF Cache!Entry, Cache!Op, InstanceAssumptions, Cache!CacheAssumption
    <2> QED BY <2>1 DEF Cache!Init, Cache!TypeOK
<1>2. \A k \in Keys : ~Cache!Live(k)
    BY DEF Cache!Init, Cache!Live, Cache!Absent
<1>3. \A c \in Callers : u3[c].pc = "idle"
    BY DEF Cache!Init, Cache!Idle
<1> QED BY <1>1, <1>2, <1>3 DEF CacheIInv, Promised, Cache!TagIsInvalidated, Cache!At

LEMMA IndexesCover ==
    ASSUME CacheIInv
    PROVE  Cache!IndexCoversLiveKeys
<1> SUFFICES ASSUME NEW k \in Keys \ u8, Cache!Live(k), NEW t \in u4[k]
             PROVE  Cache!Live(t) /\ k \in u2[t].keys
    BY DEF Cache!IndexCoversLiveKeys
<1>1. t \in Tags /\ Cache!TypeOK /\ u1 \in Int
    BY DEF CacheIInv, Cache!TypeOK
<1>2. Kept(k, t)
    BY <1>1 DEF CacheIInv, Promised
<1>3. u2[k].until \in Nat /\ u2[t].until \in Nat
    BY <1>1, <1>2, EntryShape DEF Kept, Cache!Live
<1> QED BY <1>1, <1>2, <1>3 DEF Kept, Cache!Live

(* When invalidate_tag is done, no key is served that was tagged before it began and    *)
(* was not set again since, and every tagged key that is served is in a live index of   *)
(* each of its tags, but for the keys exposed by a stale or a shorter index: for any    *)
(* callers, keys, tags and times to live (cache/store.rs).                              *)
THEOREM TagsAreInvalidated == Spec => []TagIsInvalidated
<1> DEFINE I == part = "cache" => CacheIInv
<1>1. Init => I
    BY CacheStarts, InstanceAssumptions DEF Init
<1>2. ASSUME I, [Next]_<<part, state>> PROVE I'
    <2>1. CASE UNCHANGED <<part, state>>
        BY <1>2, <2>1 DEF state, CacheIInv, Promised, Tagging, Kept, Cache!TypeOK, Cache!Live,
                          Cache!TagIsInvalidated, Cache!At
    <2>2. CASE Next
        BY <1>2, <2>2, CacheKeeps, InstanceAssumptions DEF Next
    <2> QED BY <1>2, <2>1, <2>2
<1>3. I => TagIsInvalidated
    BY IndexesCover DEF CacheIInv, TagIsInvalidated
<1> QED BY <1>1, <1>2, <1>3, PTL DEF Spec

-----------------------------------------------------------------------------------
(* The resizer. Whoever waits is a handler that was told to wait, whoever holds a slot  *)
(* is one that goes on. A task runs for a handler that waits for it or has left; and    *)
(* what is half written is being written by a task that its handler will clean up       *)
(* after, unless it has left.                                                           *)

Slotted == /\ Images!Sound(u4, MaxConcurrent, Requests)
           /\ \A r \in Requests : Images!Waits(u4, r) => u5[r].pc = "wait"
           /\ \A r \in u4.held : u5[r].pc \in {"wait", "process", "serve", "original"}
           /\ \A r \in Requests : u5[r].pc = "process" => r \in u4.held

Tasked == \A r \in Requests : /\ u5[r].pc \in {"process", "left"} <=> u6[r] # "none"
                              /\ u5[r].pc = "left" => u5[r].spec \in u7

CleanedUp == \A s \in Specs \ u7 : u2[s].state = "partial" =>
                 /\ u5[u2[s].by].pc = "process" /\ u5[u2[s].by].spec = s
                 /\ u6[u2[s].by] \in {"write", "err", "panic"}

ImagesIInv == Images!TypeOK /\ Slotted /\ Tasked /\ CleanedUp

LEMMA RequestShape ==
    ASSUME Images!TypeOK, NEW r \in Requests
    PROVE  u5[r].pc \in {"serve", "original", "wait", "process", "left"} =>
               u5[r] \in [pc : {"serve", "original", "wait", "process", "left"}, spec : Specs]
<1> DEFINE Answers == {"variant", "original", "too many variants", "busy", "torn", "not found", "nobody"}
           New == {[pc |-> "new"]}
           Under == [pc : {"serve", "original", "wait", "process", "left"}, spec : Specs]
           Done == [pc : {"answered"}, answer : Answers]
<1>1. u5 \in [Requests -> New \union Under \union Done]
    BY DEF Images!TypeOK
<1> HIDE DEF Answers
<1>2. \A o \in New : o.pc = "new"
    OBVIOUS
<1>3. \A o \in Done : o.pc = "answered"
    OBVIOUS
<1> HIDE DEF New, Under, Done
<1>4. u5[r] \in Under \/ u5[r].pc \in {"new", "answered"}
    BY <1>1, <1>2, <1>3
<1> QED BY <1>4 DEF Under

LEMMA NewRequest ==
    ASSUME Images!TypeOK, NEW r \in Requests, NEW o,
           \/ o \in [pc : {"serve", "original", "wait", "process", "left"}, spec : Specs]
           \/ o \in [pc : {"answered"}, answer : {"variant", "original", "too many variants", "busy",
                                                  "torn", "not found", "nobody"}],
           u5' = [u5 EXCEPT ![r] = o]
    PROVE  /\ u5' \in [Requests -> {[pc |-> "new"]}
                         \union [pc : {"serve", "original", "wait", "process", "left"}, spec : Specs]
                         \union [pc : {"answered"},
                                 answer : {"variant", "original", "too many variants", "busy",
                                           "torn", "not found", "nobody"}]]
           /\ u5'[r] = o /\ \A q \in Requests \ {r} : u5'[q] = u5[q]
BY DEF Images!TypeOK

LEMMA FileShape ==
    ASSUME Images!TypeOK, NEW s \in Specs, u2[s].state # "absent"
    PROVE  u2[s].by \in Requests
<1>1. u2[s] \in Images!File
    BY DEF Images!TypeOK
<1> QED BY <1>1 DEF Images!File, Images!NoFile

(* A handler that ends leaves the line or gives its slot back; the next one in line     *)
(* waits for it.                                                                        *)
LEMMA GivingBack ==
    ASSUME Images!TypeOK, Slotted, MaxConcurrent \in Nat, NEW r \in Requests,
           u5'[r].pc \in {"answered", "left"}, \A q \in Requests \ {r} : u5'[q] = u5[q],
           u4' = Images!GiveBack(r)
    PROVE  Slotted'
<1>2. /\ Images!Sound(u4', MaxConcurrent, Requests)
      /\ r \notin u4'.held /\ ~Images!Waits(u4', r)
      /\ \A u : u # r => /\ u \in u4.held => u \in u4'.held
                         /\ u \in u4'.held => u \in u4.held \/ Images!Waits(u4, u)
                         /\ Images!Waits(u4', u) => Images!Waits(u4, u)
    <2>1. CASE r \in u4.held
        BY <2>1, Images!ReleaseIsSound DEF Slotted, Images!GiveBack
    <2>2. CASE r \notin u4.held
        BY <2>2, Images!LeaveIsSound DEF Slotted, Images!GiveBack
    <2> QED BY <2>1, <2>2
<1>4. u4.held \subseteq Requests /\ u4'.held \subseteq Requests
    BY <1>2 DEF Slotted, Images!Sound, Images!Typed
<1> QED BY <1>2, <1>4 DEF Slotted

(* A handler that goes on with what it has.                                             *)
LEMMA GoingOn ==
    ASSUME Images!TypeOK, Slotted, NEW r \in Requests, NEW o, u4' = u4, u5' = [u5 EXCEPT ![r] = o],
           ~Images!Waits(u4, r), o.pc = "process" => r \in u4.held,
           o.pc \in {"wait", "process", "serve", "original"} \/ r \notin u4.held
    PROVE  Slotted'
<1>1. u5'[r] = o /\ \A q \in Requests \ {r} : u5'[q] = u5[q]
    BY DEF Images!TypeOK
<1>2. u4.held \subseteq Requests
    BY DEF Slotted, Images!Sound, Images!Typed
<1> QED BY <1>1, <1>2 DEF Slotted
LEMMA NewFile ==
    ASSUME Images!TypeOK, NEW r \in Requests, NEW kind \in {"partial", "whole"}
    PROVE  /\ [state |-> kind, by |-> r, mtime |-> u1] \in Images!File
           /\ Images!NoFile \in Images!File
BY DEF Images!TypeOK, Images!File

(* What a handler does with its request when no file and no task is concerned.          *)
LEMMA HandlerKeeps ==
    ASSUME ImagesIInv, Slotted', NEW r \in Requests, NEW o, u5' = [u5 EXCEPT ![r] = o],
           \/ o \in [pc : {"serve", "original", "wait"}, spec : Specs]
           \/ o \in [pc : {"answered"}, answer : {"variant", "original", "too many variants", "busy",
                                                  "torn", "not found", "nobody"}],
           u5[r].pc \notin {"process", "left"}, UNCHANGED <<u1, u2, u3, u6, u7>>
    PROVE  ImagesIInv'
<1>1. /\ u5'[r] = o /\ o.pc \notin {"process", "left"}
      /\ \A q \in Requests \ {r} : u5'[q] = u5[q]
    BY DEF ImagesIInv, Images!TypeOK
<1>2. Images!TypeOK'
    BY NewRequest DEF ImagesIInv, Images!TypeOK, Slotted, Images!Sound, Images!Typed
<1>0. u2' = u2 /\ u6' = u6 /\ u7' = u7
    OBVIOUS
<1>3. Tasked'
    <2>1. u5[r].pc \notin {"process", "left"} /\ Tasked
        BY DEF ImagesIInv
    <2> SUFFICES ASSUME NEW q \in Requests
                 PROVE  /\ u5'[q].pc \in {"process", "left"} <=> u6'[q] # "none"
                        /\ u5'[q].pc = "left" => u5'[q].spec \in u7'
        BY DEF Tasked
    <2>2. CASE q = r
        BY ONLY <2>1, <2>2, <1>0, <1>1 DEF Tasked
    <2>3. CASE q # r
        BY ONLY <2>1, <2>3, <1>0, <1>1 DEF Tasked
    <2> QED BY <2>2, <2>3
<1>4. CleanedUp'
    <2>0. ASSUME NEW s \in Specs \ u7, u2[s].state = "partial"
          PROVE  /\ u5'[u2[s].by].pc = "process" /\ u5'[u2[s].by].spec = s
                 /\ u6[u2[s].by] \in {"write", "err", "panic"}
        <3>1. u2[s].by \in Requests \ {r}
            BY <2>0, FileShape DEF ImagesIInv, CleanedUp
        <3>2. /\ u5[u2[s].by].pc = "process" /\ u5[u2[s].by].spec = s
              /\ u6[u2[s].by] \in {"write", "err", "panic"}
            BY <2>0 DEF ImagesIInv, CleanedUp
        <3> QED BY ONLY <1>1, <3>1, <3>2
    <2> QED BY ONLY <1>0, <2>0 DEF CleanedUp
<1> QED BY <1>2, <1>3, <1>4 DEF ImagesIInv

LEMMA CheckKeeps ==
    ASSUME ImagesIInv, InstanceAssumptions, NEW r \in Requests, NEW s \in Specs, Images!Check(r, s)
    PROVE  ImagesIInv'
<1> USE DEF ImagesIInv, Images!At, Images!Answer
<1>0. u5[r].pc = "new" /\ ~Images!Waits(u4, r) /\ r \notin u4.held /\ MaxConcurrent \in Nat
    BY DEF Images!Check, Slotted, InstanceAssumptions, Images!ResizerAssumption
<1>1. ASSUME NEW o, u4' = u4, u5' = [u5 EXCEPT ![r] = o],
             o \in [pc : {"serve", "original"}, spec : Specs] \/ o = [pc |-> "answered", answer |-> "too many variants"],
             UNCHANGED <<u1, u2, u3, u6, u7>>
      PROVE  ImagesIInv'
    BY <1>0, <1>1, GoingOn, HandlerKeeps
<1>2. ASSUME u4' = Images!Acquire(u4, r), u5' = [u5 EXCEPT ![r] = [pc |-> "wait", spec |-> s]],
             UNCHANGED <<u1, u2, u3, u6, u7>>
      PROVE  ImagesIInv'
    <2>1. /\ Images!Sound(u4', MaxConcurrent, Requests)
          /\ \A u : u # r => /\ u \in u4'.held <=> u \in u4.held
                             /\ Images!Waits(u4', u) <=> Images!Waits(u4, u)
        BY <1>0, <1>2, Images!AcquireIsSound DEF Slotted
    <2>2. u5'[r].pc = "wait" /\ \A q \in Requests \ {r} : u5'[q] = u5[q]
        BY <1>2 DEF Images!TypeOK
    <2>3. u4'.held \subseteq Requests
        BY <2>1 DEF Images!Sound, Images!Typed
    <2>4. Slotted'
        BY <2>1, <2>2, <2>3 DEF Slotted
    <2> QED BY <1>0, <1>2, <2>4, HandlerKeeps
<1>3. UNCHANGED <<u1, u2, u3, u6, u7>>
    BY DEF Images!Check
<1> QED BY <1>1, <1>2, <1>3 DEF Images!Check

(* A task goes on: no file that a handler still waits for is forgotten half written.    *)
LEMMA TaskGoesOn ==
    ASSUME ImagesIInv, NEW r \in Requests, NEW x \in {"write", "ok", "err", "panic"},
           u6[r] # "none", u6' = [u6 EXCEPT ![r] = x], UNCHANGED <<u1, u3, u4, u5, u7>>,
           u2' \in [Specs -> Images!File],
           \A s \in Specs \ u7 : u2'[s].state = "partial" =>
               \/ u2'[s] = u2[s] /\ (u2[s].by = r => x # "ok")
               \/ u2'[s].by = r /\ x = "write" /\ u5[r].pc = "process" /\ u5[r].spec = s
    PROVE  ImagesIInv'
<1>1. Images!TypeOK'
    BY DEF ImagesIInv, Images!TypeOK
<1>2. Slotted'
    BY DEF ImagesIInv, Slotted
<1>3. u6'[r] = x /\ \A q \in Requests \ {r} : u6'[q] = u6[q]
    BY DEF ImagesIInv, Images!TypeOK
<1>4. Tasked'
    BY <1>3 DEF ImagesIInv, Tasked
<1>5. CleanedUp'
    <2> SUFFICES ASSUME NEW s \in Specs \ u7, u2'[s].state = "partial"
                 PROVE  /\ u5[u2'[s].by].pc = "process" /\ u5[u2'[s].by].spec = s
                        /\ u6'[u2'[s].by] \in {"write", "err", "panic"}
        BY DEF CleanedUp
    <2>1. CASE u2'[s] = u2[s] /\ (u2[s].by = r => x # "ok")
        <3>1. u2[s].by \in Requests
            BY <2>1, FileShape DEF ImagesIInv
        <3> QED BY <1>3, <2>1, <3>1 DEF ImagesIInv, CleanedUp
    <2>2. CASE u2'[s].by = r /\ x = "write" /\ u5[r].pc = "process" /\ u5[r].spec = s
        BY <1>3, <2>2
    <2> QED BY <2>1, <2>2
<1> QED BY <1>1, <1>2, <1>4, <1>5 DEF ImagesIInv

(* A task ends with its handler: what it left half written is removed by then.          *)
LEMMA TaskEnds ==
    ASSUME ImagesIInv, Slotted', NEW r \in Requests, NEW o,
           \/ o \in [pc : {"serve", "original"}, spec : Specs]
           \/ o = [pc |-> "answered", answer |-> "nobody"],
           u5' = [u5 EXCEPT ![r] = o], u6' = [u6 EXCEPT ![r] = "none"], UNCHANGED <<u1, u7>>,
           u2' \in [Specs -> Images!File],
           u3' \in [Specs -> {[state |-> "absent"]} \union [state : {"whole"}, mtime : 0 .. MaxUpdates]],
           \A s \in Specs \ u7 : u2'[s].state = "partial" => u2'[s] = u2[s] /\ u2[s].by # r
    PROVE  ImagesIInv'
<1>0. /\ u5'[r] = o /\ \A q \in Requests \ {r} : u5'[q] = u5[q]
      /\ u6'[r] = "none" /\ \A q \in Requests \ {r} : u6'[q] = u6[q]
    BY DEF ImagesIInv, Images!TypeOK
<1>1. /\ u5'[r] = o /\ o.pc \notin {"process", "left"}
      /\ \A q \in Requests \ {r} : u5'[q] = u5[q]
      /\ u6'[r] = "none" /\ \A q \in Requests \ {r} : u6'[q] = u6[q]
    BY <1>0
<1>2. Images!TypeOK'
    <2>1. /\ u5' \in [Requests -> {[pc |-> "new"]}
                         \union [pc : {"serve", "original", "wait", "process", "left"}, spec : Specs]
                         \union [pc : {"answered"},
                                 answer : {"variant", "original", "too many variants", "busy",
                                           "torn", "not found", "nobody"}]]
        BY NewRequest DEF ImagesIInv
    <2>2. u6' \in [Requests -> {"none", "decode", "write", "ok", "err", "panic"}]
        BY DEF ImagesIInv, Images!TypeOK
    <2> QED BY <2>1, <2>2 DEF ImagesIInv, Images!TypeOK, Slotted, Images!Sound, Images!Typed
<1>3. Tasked'
    BY <1>1 DEF ImagesIInv, Tasked
<1>4. CleanedUp'
    <2> SUFFICES ASSUME NEW s \in Specs \ u7, u2'[s].state = "partial"
                 PROVE  /\ u5'[u2'[s].by].pc = "process" /\ u5'[u2'[s].by].spec = s
                        /\ u6'[u2'[s].by] \in {"write", "err", "panic"}
        BY DEF CleanedUp
    <2>1. u2[s].by \in Requests \ {r} /\ u2'[s] = u2[s]
        BY FileShape DEF ImagesIInv
    <2> QED BY <1>1, <2>1 DEF ImagesIInv, CleanedUp
<1> QED BY <1>2, <1>3, <1>4 DEF ImagesIInv

(* Whoever holds a slot does not stand in line.                                         *)
LEMMA HoldersDoNotWait ==
    ASSUME Slotted, NEW r, r \in u4.held
    PROVE  ~Images!Waits(u4, r)
BY DEF Slotted, Images!Sound, Images!OnceEach, Images!Waits

LEMMA ProcessKeeps ==
    ASSUME ImagesIInv, NEW r \in Requests, Images!Process(r)
    PROVE  ImagesIInv'
<1> DEFINE o == [pc |-> "process", spec |-> u5[r].spec]
<1>0. u5[r].pc = "wait" /\ r \in u4.held /\ u5[r].spec \in Specs
    BY RequestShape DEF Images!Process, Images!At, ImagesIInv
<1>1. /\ u5' = [u5 EXCEPT ![r] = o] /\ u6' = [u6 EXCEPT ![r] = "decode"]
      /\ UNCHANGED <<u1, u2, u3, u4, u7>>
    BY DEF Images!Process, Images!Go
<1>2. o \in [pc : {"serve", "original", "wait", "process", "left"}, spec : Specs] /\ o.pc = "process"
    BY <1>0
<1> HIDE DEF o
<1>3. Slotted'
    BY <1>0, <1>1, <1>2, HoldersDoNotWait, GoingOn DEF ImagesIInv
<1>4. /\ u5'[r] = o /\ \A q \in Requests \ {r} : u5'[q] = u5[q]
      /\ u6'[r] = "decode" /\ \A q \in Requests \ {r} : u6'[q] = u6[q]
    BY <1>1 DEF ImagesIInv, Images!TypeOK
<1>5. Images!TypeOK'
    BY <1>1, <1>2, NewRequest DEF ImagesIInv, Images!TypeOK
<1>6. Tasked'
    BY <1>0, <1>1, <1>2, <1>4 DEF ImagesIInv, Tasked
<1>7. CleanedUp'
    <2> SUFFICES ASSUME NEW s \in Specs \ u7, u2[s].state = "partial"
                 PROVE  /\ u5'[u2[s].by].pc = "process" /\ u5'[u2[s].by].spec = s
                        /\ u6'[u2[s].by] \in {"write", "err", "panic"}
        BY <1>1 DEF CleanedUp
    <2>1. u2[s].by \in Requests \ {r}
        BY <1>0, FileShape DEF ImagesIInv, CleanedUp
    <2> QED BY <1>4, <2>1 DEF ImagesIInv, CleanedUp
<1> QED BY <1>3, <1>5, <1>6, <1>7 DEF ImagesIInv

(* A handler answers: 503 to whoever waited too long, or what was looked up.            *)
LEMMA AnsweringKeeps ==
    ASSUME ImagesIInv, InstanceAssumptions, NEW r \in Requests,
           u5[r].pc \in {"wait", "serve", "original"}, u4' = Images!GiveBack(r),
           NEW what \in {"variant", "original", "busy", "torn", "not found", "nobody"},
           Images!Answer(r, what), UNCHANGED <<u1, u2, u3, u6, u7>>
    PROVE  ImagesIInv'
<1> DEFINE o == [pc |-> "answered", answer |-> what]
<1>1. /\ u5' = [u5 EXCEPT ![r] = o] /\ o.pc = "answered"
      /\ o \in [pc : {"answered"}, answer : {"variant", "original", "too many variants", "busy",
                                               "torn", "not found", "nobody"}]
    BY DEF Images!Answer
<1> HIDE DEF o
<1>2. MaxConcurrent \in Nat /\ Images!TypeOK /\ Slotted
    BY DEF ImagesIInv, InstanceAssumptions, Images!ResizerAssumption
<1>3. u5'[r].pc = "answered" /\ \A q \in Requests \ {r} : u5'[q] = u5[q]
    BY <1>1, <1>2 DEF Images!TypeOK
<1>4. Slotted'
    BY <1>2, <1>3, GivingBack
<1> QED BY <1>1, <1>4, HandlerKeeps

LEMMA BusyAndServeKeep ==
    ASSUME ImagesIInv, InstanceAssumptions, NEW r \in Requests, Images!Busy(r) \/ Images!Serve(r)
    PROVE  ImagesIInv'
<1>1. CASE Images!Busy(r)
    BY <1>1, AnsweringKeeps DEF Images!Busy, Images!At, Images!GiveBack
<1>2. CASE Images!Serve(r)
    <2>1. ASSUME u5[r].pc = "serve" PROVE Images!Found(u2[u5[r].spec]) \in {"not found", "torn", "variant"}
        <3>1. u5[r].spec \in Specs
            BY <2>1, RequestShape DEF ImagesIInv
        <3>2. u2[u5[r].spec] \in Images!File
            BY <3>1 DEF ImagesIInv, Images!TypeOK
        <3>3. u2[u5[r].spec].state \in {"absent", "partial", "whole"}
            BY ONLY <3>2 DEF Images!File, Images!NoFile
        <3> QED BY <3>3 DEF Images!Found
    <2> QED BY <1>2, <2>1, AnsweringKeeps DEF Images!Serve, Images!At
<1> QED BY <1>1, <1>2

LEMMA WritingKeeps ==
    ASSUME ImagesIInv, NEW r \in Requests,
           \/ \E s \in Specs : Images!Create(r, s)
           \/ Images!Written(r)
           \/ \E how \in {"err", "panic"} : Images!Breaks(r, how)
    PROVE  ImagesIInv'
<1> USE DEF Images!Thread
<1>1. ASSUME NEW s \in Specs, Images!Create(r, s) PROVE ImagesIInv'
    <2> DEFINE f == [state |-> "partial", by |-> r, mtime |-> u1]
    <2>1. /\ u2' = [u2 EXCEPT ![s] = f] /\ u6[r] = "decode" /\ u5[r].spec = s
          /\ u5[r].pc \in {"process", "left"} /\ u6' = [u6 EXCEPT ![r] = "write"]
          /\ UNCHANGED <<u1, u3, u4, u5, u7>> /\ f.by = r
        BY <1>1 DEF Images!Create, Images!At
    <2>2. f \in Images!File
        BY NewFile DEF ImagesIInv
    <2> HIDE DEF f
    <2>3. /\ u2' \in [Specs -> Images!File] /\ u2'[s] = f
          /\ \A x \in Specs \ {s} : u2'[x] = u2[x]
        BY <2>1, <2>2 DEF ImagesIInv, Images!TypeOK
    <2>4. s \notin u7 => u5[r].pc = "process"
        BY <2>1 DEF ImagesIInv, Tasked
    <2>5. \A x \in Specs \ u7 : u2'[x].state = "partial" =>
              \/ u2'[x] = u2[x] /\ (u2[x].by = r => "write" # "ok")
              \/ u2'[x].by = r /\ u5[r].pc = "process" /\ u5[r].spec = x
        BY <2>1, <2>3, <2>4
    <2>6. u6[r] # "none" /\ "write" \in {"write", "ok", "err", "panic"}
        BY <2>1
    <2> QED BY <2>1, <2>3, <2>5, <2>6, TaskGoesOn
<1>2. ASSUME Images!Written(r) PROVE ImagesIInv'
    <2> DEFINE f == [state |-> "whole", by |-> r, mtime |-> u1]
    <2>1. /\ u2' = IF Images!Mine(r, u5[r].spec) THEN [u2 EXCEPT ![u5[r].spec] = f] ELSE u2
          /\ u6[r] = "write" /\ u6' = [u6 EXCEPT ![r] = "ok"]
          /\ UNCHANGED <<u1, u3, u4, u5, u7>> /\ f.state = "whole"
        BY <1>2 DEF Images!Written
    <2>2. f \in Images!File
        BY NewFile DEF ImagesIInv
    <2> HIDE DEF f
    <2>3. u5[r].spec \in Specs
        BY <2>1, RequestShape DEF ImagesIInv, Tasked
    <2>4. /\ u2' \in [Specs -> Images!File]
          /\ \A x \in Specs : u2'[x] = IF x = u5[r].spec /\ Images!Mine(r, x) THEN f ELSE u2[x]
        BY <2>1, <2>2, <2>3 DEF ImagesIInv, Images!TypeOK
    <2>5. ASSUME NEW s \in Specs \ u7, u2'[s].state = "partial"
          PROVE  u2'[s] = u2[s] /\ u2[s].by # r
        <3>1. u2'[s] = u2[s]
            BY <2>1, <2>4, <2>5
        <3>2. ~(s = u5[r].spec /\ Images!Mine(r, s))
            BY <2>1, <2>4, <2>5
        <3> QED BY <2>5, <3>1, <3>2 DEF Images!Mine, Images!Exists, ImagesIInv, CleanedUp
    <2> QED BY <2>1, <2>4, <2>5, TaskGoesOn
<1>3. ASSUME NEW how \in {"err", "panic"}, Images!Breaks(r, how) PROVE ImagesIInv'
    BY <1>3, TaskGoesOn DEF Images!Breaks, ImagesIInv, Images!TypeOK
<1> QED BY <1>1, <1>2, <1>3

(* The result of a task reaches its handler, which cleans up after a failure.           *)
LEMMA CollectingKeeps ==
    ASSUME ImagesIInv, NEW r \in Requests,
           Images!Succeeded(r) \/ Images!Failed(r) \/ Images!Panicked(r)
    PROVE  ImagesIInv'
<1> USE DEF Images!Collected, Images!At, Images!Go
<1>1. /\ u5[r].pc = "process" /\ u6' = [u6 EXCEPT ![r] = "none"] /\ UNCHANGED <<u1, u4, u7>>
      /\ \E pc \in {"serve", "original"} : u5' = [u5 EXCEPT ![r] = [pc |-> pc, spec |-> u5[r].spec]]
    BY DEF Images!Succeeded, Images!Failed, Images!Panicked
<1>2. u5[r].spec \in Specs /\ r \in u4.held
    BY <1>1, RequestShape DEF ImagesIInv, Slotted
<1>3. PICK o \in [pc : {"serve", "original"}, spec : Specs] : u5' = [u5 EXCEPT ![r] = o]
    BY <1>1, <1>2
<1>4. Slotted'
    BY <1>1, <1>2, <1>3, HoldersDoNotWait, GoingOn DEF ImagesIInv
<1>5. /\ u3' \in [Specs -> {[state |-> "absent"]} \union [state : {"whole"}, mtime : 0 .. MaxUpdates]]
      /\ u2' \in [Specs -> Images!File]
      /\ \/ u6[r] = "ok" /\ u2' = u2
         \/ \A x \in Specs : u2'[x] = IF x = u5[r].spec THEN Images!NoFile ELSE u2[x]
    <2>1. CASE Images!Succeeded(r)
        BY <2>1 DEF Images!Succeeded, ImagesIInv, Images!TypeOK
    <2>2. CASE Images!Failed(r) \/ Images!Panicked(r)
        <3>1. u2' = [u2 EXCEPT ![u5[r].spec] = Images!NoFile]
            BY <2>2 DEF Images!Failed, Images!Panicked, Images!RemoveFile
        <3>2. \/ u3' = u3
              \/ u3' = [u3 EXCEPT ![u5[r].spec] = [state |-> "whole", mtime |-> u1]]
            BY <2>2 DEF Images!Failed, Images!Panicked, Images!MarkFailed
        <3>3. u3' \in [Specs -> {[state |-> "absent"]} \union [state : {"whole"}, mtime : 0 .. MaxUpdates]]
            <4>1. [state |-> "whole", mtime |-> u1] \in [state : {"whole"}, mtime : 0 .. MaxUpdates]
                BY DEF ImagesIInv, Images!TypeOK
            <4> QED BY <3>2, <4>1 DEF ImagesIInv, Images!TypeOK
        <3> QED BY <1>2, <3>1, <3>3, NewFile DEF ImagesIInv, Images!TypeOK
    <2> QED BY <2>1, <2>2
<1>6. ASSUME NEW s \in Specs \ u7, u2'[s].state = "partial"
      PROVE  u2'[s] = u2[s] /\ u2[s].by # r
    BY <1>5, <1>6 DEF ImagesIInv, CleanedUp, Images!NoFile
<1> QED BY <1>1, <1>3, <1>4, <1>5, <1>6, TaskEnds

LEMMA LeavingKeeps ==
    ASSUME ImagesIInv, InstanceAssumptions, NEW r \in Requests, Images!ClientLeaves(r)
    PROVE  ImagesIInv'
<1>1. CASE u5[r].pc # "process"
    BY <1>1, AnsweringKeeps DEF Images!ClientLeaves, Images!At
<1>2. CASE u5[r].pc = "process"
    <2> DEFINE o == [pc |-> "left", spec |-> u5[r].spec]
    <2>1. /\ u4' = Images!GiveBack(r) /\ u5' = [u5 EXCEPT ![r] = o]
          /\ u7' = u7 \union {u5[r].spec} /\ UNCHANGED <<u1, u2, u3, u6>>
        BY <1>2 DEF Images!ClientLeaves, Images!At, Images!Go
    <2>2. u5[r].spec \in Specs
        BY <1>2, RequestShape DEF ImagesIInv
    <2>3. o \in [pc : {"serve", "original", "wait", "process", "left"}, spec : Specs]
          /\ o.pc = "left" /\ o.spec = u5[r].spec
        BY <2>2
    <2> HIDE DEF o
    <2>9. MaxConcurrent \in Nat /\ Images!TypeOK /\ Slotted
        BY DEF ImagesIInv, InstanceAssumptions, Images!ResizerAssumption
    <2>6. u5'[r] = o /\ \A q \in Requests \ {r} : u5'[q] = u5[q]
        BY <2>1 DEF ImagesIInv, Images!TypeOK
    <2>4. Slotted'
        BY <2>1, <2>3, <2>6, <2>9, GivingBack
    <2>5. Images!TypeOK'
        <3>1. u5' \in [Requests -> {[pc |-> "new"]}
                         \union [pc : {"serve", "original", "wait", "process", "left"}, spec : Specs]
                         \union [pc : {"answered"},
                                 answer : {"variant", "original", "too many variants", "busy",
                                           "torn", "not found", "nobody"}]]
            BY <2>1, <2>3, <2>9, NewRequest, Zenon
        <3>2. u4' \in [free : Nat, held : SUBSET Requests, line : Seq(Requests)]
            BY <2>4 DEF Slotted, Images!Sound, Images!Typed
        <3>3. u7' \subseteq Specs
            BY <2>1, <2>2, <2>9 DEF Images!TypeOK
        <3> QED BY <2>1, <2>9, <3>1, <3>2, <3>3 DEF Images!TypeOK
    <2>7. Tasked'
        BY <1>2, <2>1, <2>3, <2>6 DEF ImagesIInv, Tasked
    <2>8. CleanedUp'
        <3> SUFFICES ASSUME NEW s \in Specs \ u7', u2[s].state = "partial"
                     PROVE  /\ u5'[u2[s].by].pc = "process" /\ u5'[u2[s].by].spec = s
                            /\ u6[u2[s].by] \in {"write", "err", "panic"}
            BY <2>1 DEF CleanedUp
        <3>1. u2[s].by \in Requests \ {r}
            BY <2>1, FileShape DEF ImagesIInv, CleanedUp
        <3> QED BY <2>1, <2>6, <3>1 DEF ImagesIInv, CleanedUp
    <2> QED BY <2>4, <2>5, <2>7, <2>8 DEF ImagesIInv
<1> QED BY <1>1, <1>2

LEMMA OrphanedKeeps ==
    ASSUME ImagesIInv, NEW r \in Requests, Images!Orphaned(r)
    PROVE  ImagesIInv'
<1> DEFINE o == [pc |-> "answered", answer |-> "nobody"]
<1>1. /\ u5[r].pc = "left" /\ u5' = [u5 EXCEPT ![r] = o] /\ u6' = [u6 EXCEPT ![r] = "none"]
      /\ UNCHANGED <<u1, u2, u3, u4, u7>> /\ o.pc = "answered"
    BY DEF Images!Orphaned, Images!At, Images!Answer, Images!Thread
<1>2. r \notin u4.held /\ ~Images!Waits(u4, r)
    BY <1>1 DEF ImagesIInv, Slotted
<1>3. Slotted'
    BY <1>1, <1>2, GoingOn DEF ImagesIInv
<1>4. \A s \in Specs \ u7 : u2'[s].state = "partial" => u2'[s] = u2[s] /\ u2[s].by # r
    BY <1>1 DEF ImagesIInv, CleanedUp
<1>5. /\ u2' \in [Specs -> Images!File]
      /\ u3' \in [Specs -> {[state |-> "absent"]} \union [state : {"whole"}, mtime : 0 .. MaxUpdates]]
    BY <1>1 DEF ImagesIInv, Images!TypeOK
<1> QED BY <1>1, <1>3, <1>4, <1>5, TaskEnds

LEMMA UpdateSourceKeeps ==
    ASSUME ImagesIInv, InstanceAssumptions, Images!UpdateSource
    PROVE  ImagesIInv'
<1>0. u1 \in 0 .. MaxUpdates /\ MaxUpdates \in Nat
    BY DEF ImagesIInv, Images!TypeOK, InstanceAssumptions, Images!ResizerAssumption
<1>1. u1' \in 0 .. MaxUpdates /\ UNCHANGED <<u2, u3, u4, u5, u6, u7>>
    BY <1>0 DEF Images!UpdateSource
<1>2. Images!TypeOK'
    BY <1>1 DEF ImagesIInv, Images!TypeOK
<1> QED BY <1>1, <1>2 DEF ImagesIInv, Slotted, Tasked, CleanedUp

(* Before the first request nothing is held, half written or left.                      *)
LEMMA ImagesStart ==
    ASSUME InstanceAssumptions, Images!Init
    PROVE  ImagesIInv
<1>1. MaxConcurrent \in Nat /\ MaxUpdates \in Nat
    BY DEF InstanceAssumptions, Images!ResizerAssumption
<1>2. /\ Images!Sound(u4, MaxConcurrent, Requests) /\ u4.held = {}
      /\ \A r : ~Images!Waits(u4, r)
    BY <1>1, Images!NewIsSound DEF Images!Init
<1>3. /\ \A r \in Requests : u5[r].pc = "new" /\ u6[r] = "none"
      /\ \A s \in Specs : u2[s].state = "absent"
    BY DEF Images!Init, Images!NoFile
<1>4. Images!TypeOK
    BY <1>1, <1>2 DEF Images!Init, Images!TypeOK, Images!File, Images!Sound, Images!Typed
<1> QED BY <1>2, <1>3, <1>4 DEF ImagesIInv, Slotted, Tasked, CleanedUp

LEMMA ImagesKeep ==
    ASSUME ImagesIInv, InstanceAssumptions, Images!Next
    PROVE  ImagesIInv'
BY CheckKeeps, ProcessKeeps, BusyAndServeKeep, WritingKeeps, CollectingKeeps, LeavingKeeps,
   OrphanedKeeps, UpdateSourceKeeps
DEF Images!Next

LEMMA NothingIsLeft ==
    ASSUME ImagesIInv
    PROVE  Images!SlotsConserved /\ Images!NoDebris
<1>1. Images!SlotsConserved
    BY DEF ImagesIInv, Slotted, Images!Sound, Images!Balanced, Images!SlotsConserved, Images!At
<1>2. Images!NoDebris
    <2> SUFFICES ASSUME NEW s \in Specs \ u7, u2[s].state = "partial"
                 PROVE  \E r \in Requests : Images!Working(r) /\ u5[r].spec = s
        BY DEF Images!NoDebris
    <2>1. u2[s].by \in Requests
        BY FileShape DEF ImagesIInv
    <2> QED BY <2>1 DEF ImagesIInv, CleanedUp, Images!Working
<1> QED BY <1>1, <1>2

(* Timeouts that race with a slot, failures, panics and clients that leave lose no slot *)
(* of the resizer, and a half-written variant stays only where a client left: for any   *)
(* requests, variants, slots and limits (storage/img_resizer.rs).                       *)
THEOREM SlotsAreConserved == Spec => []SlotsConserved
<1> DEFINE I == part = "images" => ImagesIInv
<1>1. Init => I
    BY ImagesStart, InstanceAssumptions DEF Init
<1>2. ASSUME I, [Next]_<<part, state>> PROVE I'
    <2>1. CASE UNCHANGED <<part, state>>
        BY <1>2, <2>1 DEF state, ImagesIInv, Slotted, Tasked, CleanedUp, Images!TypeOK
    <2>2. CASE Next
        BY <1>2, <2>2, ImagesKeep, InstanceAssumptions DEF Next
    <2> QED BY <1>2, <2>1, <2>2
<1>3. I => SlotsConserved
    BY NothingIsLeft DEF ImagesIInv, SlotsConserved
<1> QED BY <1>1, <1>2, <1>3, PTL DEF Spec

-----------------------------------------------------------------------------------
(* Uploads. The file that the handler is about to write is the next in number, and the   *)
(* files before it are all on the disk; beside them there is at most the one at hand.    *)

Fits(types, mime, extension, field) ==
    /\ \E i \in DOMAIN types :
           /\ types[i].mime = mime /\ types[i].magic \subseteq field.file.signatures
           /\ extension \in Upload!ToSet(types[i].extensions)
           /\ types[i].magic = {} => field.claimed = mime
    /\ mime = "image/svg+xml" => Upload!SafeSvg(field.file)
    /\ field.file.size \in 1 .. MaxSize

(* A file that was written carries its number and was judged before.                     *)
Written(types, i, f, disk) ==
    /\ f.name[1] = i /\ f.name \in DOMAIN disk /\ disk[f.name].whole
    /\ Fits(types, f.mime, f.name[2], disk[f.name].field)
    /\ f.size = disk[f.name].field.file.size

Listing(types, files, disk) ==
    /\ files \in Seq({files[i] : i \in DOMAIN files}) /\ Len(files) <= MaxFiles
    /\ \A i \in DOMAIN files : Written(types, i, files[i], disk)

Named(files) == {files[i].name : i \in DOMAIN files}

AtReading == /\ u3.at = "reading" /\ {"at", "files", "tries"} \subseteq DOMAIN u3
             /\ u3.tries = Len(u3.files) /\ DOMAIN u4 = Named(u3.files)

AtWriting == /\ u3.at = "writing" /\ {"at", "files", "tries"} \subseteq DOMAIN u3
             /\ u3.tries = Len(u3.files) + 1 /\ u3.tries <= MaxFiles
             /\ u3.name[1] = u3.tries /\ Fits(u1, u3.mime, u3.name[2], u3.field)
             /\ \/ DOMAIN u4 = Named(u3.files)
                \/ /\ DOMAIN u4 = Named(u3.files) \union {u3.name}
                   /\ u4[u3.name] = [field |-> u3.field, whole |-> FALSE]

AtEnd == \/ u3.at = "answered" /\ DOMAIN u4 = Named(u3.files)
         \/ u3.at = "refused" /\ \A a, b \in DOMAIN u4 \ Named(u3.files) : a = b

UploadsIInv == /\ u1 \in {Upload!Images, Upload!ImagesWithSvg, Upload!Documents, Upload!AllMedia}
               /\ u2 \in 0 .. MaxFields
               /\ Listing(u1, u3.files, u4)
               /\ AtReading \/ AtWriting \/ AtEnd

(* The lists that an application may allow: types are listed once and have an extension. *)
LEMMA AllowedTypes ==
    ASSUME UploadsIInv
    PROVE  /\ DOMAIN u1 \subseteq 1 .. 4
           /\ \A i, k \in DOMAIN u1 : u1[i].mime = u1[k].mime => i = k
           /\ \A i \in DOMAIN u1 : u1[i].extensions[1] \in Upload!ToSet(u1[i].extensions)
           /\ \A i \in DOMAIN u1 : u1[i].mime # "none"
<1> USE DEF Upload!Entry, Upload!ToSet
<1>1. CASE u1 = Upload!Images
    BY <1>1 DEF Upload!Images
<1>2. CASE u1 = Upload!ImagesWithSvg
    BY <1>2 DEF Upload!Images, Upload!ImagesWithSvg
<1>3. CASE u1 = Upload!Documents
    BY <1>3 DEF Upload!Documents
<1>4. CASE u1 = Upload!AllMedia
    <2>1. /\ DOMAIN u1 = 1 .. 4
          /\ u1[1].mime = "image/jpeg" /\ u1[2].mime = "image/webp"
          /\ u1[3].mime = "video/mp4" /\ u1[4].mime = "audio/mpeg"
        BY <1>4, SMTT(30) DEF Upload!Images, Upload!AllMedia
    <2>2. /\ u1[1].extensions = <<"jpg", "jpeg">> /\ u1[2].extensions = <<"webp">>
          /\ u1[3].extensions = <<"mp4">> /\ u1[4].extensions = <<"mp3">>
        BY <1>4, SMTT(30) DEF Upload!Images, Upload!AllMedia
    <2>3. \A i \in DOMAIN u1 : i = 1 \/ i = 2 \/ i = 3 \/ i = 4
        BY <2>1
    <2>4. \A i \in DOMAIN u1 : u1[i].extensions[1] \in Upload!ToSet(u1[i].extensions)
        BY <2>2, <2>3
    <2>5. /\ \A i, k \in DOMAIN u1 : u1[i].mime = u1[k].mime => i = k
          /\ \A i \in DOMAIN u1 : u1[i].mime # "none"
        BY <2>1, <2>3
    <2> QED BY <2>1, <2>4, <2>5
<1> QED BY <1>1, <1>2, <1>3, <1>4 DEF UploadsIInv

(* What was judged fits: whatever the client declared, its bytes carry the type's        *)
(* signatures, and its extension is the type's.                                          *)
LEMMA JudgedFits ==
    ASSUME UploadsIInv, InstanceAssumptions, NEW field, field.file \in Upload!Files, NEW mime,
           mime = Upload!Believed(field.file, field.claimed), mime # "refused",
           ~(field.file.size > MaxSize \/ field.file.size = 0),
           ~(mime = "image/svg+xml" /\ ~Upload!SafeSvg(field.file))
    PROVE  Fits(u1, mime, Upload!Extension(mime, field.extension), field)
<1>1. field.file.size \in 1 .. MaxSize
    <2>1. field.file.size \in {0, 1, MaxSize + 1}
        BY DEF Upload!Files, Upload!File
    <2>2. MaxSize \in Nat \ {0}
        BY DEF InstanceAssumptions, Upload!UploadAssumption
    <2> QED BY <2>1, <2>2
<1>2. \E i \in DOMAIN u1 : /\ u1[i].mime = mime
                           /\ u1[i].magic \subseteq field.file.signatures
                           /\ u1[i].magic = {} => field.claimed = mime
    <2>1. CASE Upload!Detected(field.file) # "none"
        <3> DEFINE hits == {i \in DOMAIN u1 : u1[i].magic # {} /\ u1[i].magic \subseteq field.file.signatures}
        <3>1. hits # {} /\ mime = u1[Upload!Min(hits)].mime
            BY <2>1 DEF Upload!Detected, Upload!Believed
        <3>2. Upload!Min(hits) \in hits
            <4>1. hits \subseteq 1 .. 4
                BY AllowedTypes
            <4> HIDE DEF hits
            <4>2. \E x \in hits : \A y \in hits : x =< y
                <5>1. \A x \in hits : x = 1 \/ x = 2 \/ x = 3 \/ x = 4
                    <6>1. \A x \in 1 .. 4 : x = 1 \/ x = 2 \/ x = 3 \/ x = 4
                        OBVIOUS
                    <6> QED BY <4>1, <6>1, Zenon
                <5> QED BY <3>1, <5>1
            <4> QED BY <4>2 DEF Upload!Min
        <3> QED BY <3>1, <3>2
    <2>2. CASE Upload!Detected(field.file) = "none"
        <3>1. mime = field.claimed /\ \E e \in Upload!find_entry(mime) : e.magic = {}
            BY <2>2 DEF Upload!Believed
        <3> QED BY <3>1 DEF Upload!find_entry, Upload!Entries
    <2> QED BY <2>1, <2>2
<1>3. PICK i \in DOMAIN u1 : /\ u1[i].mime = mime
                             /\ u1[i].magic \subseteq field.file.signatures
                             /\ u1[i].magic = {} => field.claimed = mime
    BY <1>2
<1>4. Upload!find_entry(mime) = {u1[i]}
    BY <1>3, AllowedTypes DEF Upload!find_entry, Upload!Entries
<1>5. Upload!Extension(mime, field.extension) \in Upload!ToSet(u1[i].extensions)
    BY <1>4, AllowedTypes DEF Upload!Extension
<1> QED BY <1>1, <1>3, <1>4, <1>5 DEF Fits

(* The directory is empty before the first field is read.                               *)
LEMMA UploadsStart ==
    ASSUME InstanceAssumptions, Upload!Init
    PROVE  UploadsIInv
<1>1. MaxFields \in Nat /\ MaxFiles \in Nat
    BY DEF InstanceAssumptions, Upload!UploadAssumption
<1>2. u3 = [at |-> "reading", files |-> <<>>, tries |-> 0] /\ u2 = 0 /\ DOMAIN u4 = {}
    BY DEF Upload!Init, Upload!Reading
<1>3. /\ u3.files = <<>> /\ u3.at = "reading" /\ u3.tries = 0
      /\ {"at", "files", "tries"} \subseteq DOMAIN u3
    BY <1>2
<1>4. Listing(u1, <<>>, u4) /\ Named(<<>>) = {} /\ Len(<<>>) = 0
    BY <1>1 DEF Listing, Named
<1>5. AtReading
    BY <1>2, <1>3, <1>4 DEF AtReading
<1> QED BY <1>1, <1>2, <1>3, <1>4, <1>5 DEF UploadsIInv, Upload!Init

(* A request that is refused leaves what is on the disk.                                *)
LEMMA RefusingKeeps ==
    ASSUME UploadsIInv, AtReading \/ AtWriting, Upload!Refuse, u2' \in 0 .. MaxFields
    PROVE  UploadsIInv'
<1>1. u3' = [u3 EXCEPT !.at = "refused"] /\ u1' = u1 /\ u4' = u4
    BY DEF Upload!Refuse
<1>2. u3'.at = "refused" /\ u3'.files = u3.files
    BY <1>1 DEF AtReading, AtWriting
<1>3. Listing(u1, u3.files, u4)'
    BY <1>1, <1>2 DEF UploadsIInv
<1>4. \A a, b \in DOMAIN u4 \ Named(u3.files) : a = b
    BY DEF AtReading, AtWriting
<1>5. AtEnd'
    BY <1>1, <1>2, <1>4 DEF AtEnd
<1> QED BY <1>1, <1>3, <1>5 DEF UploadsIInv

LEMMA NextFieldKeeps ==
    ASSUME UploadsIInv, InstanceAssumptions, NEW file \in Upload!Files, NEW claimed, NEW extension,
           Upload!NextField(Upload!Field(file, claimed, extension))
    PROVE  UploadsIInv'
<1> DEFINE field == [file |-> file, claimed |-> claimed, extension |-> extension]
           mime == Upload!Believed(file, claimed)
           name == Upload!Name(u3.tries + 1, Upload!Extension(mime, extension))
           accepted == [at |-> "writing", files |-> u3.files, tries |-> u3.tries + 1,
                        field |-> field, mime |-> mime, name |-> name]
<1>1. /\ u3.at = "reading" /\ u2 < MaxFields /\ u2' = u2 + 1
      /\ \/ Upload!Refuse
         \/ /\ u3' = accepted /\ u1' = u1 /\ u4' = u4 /\ ~(Len(u3.files) >= MaxFiles)
            /\ mime # "refused" /\ ~(file.size > MaxSize \/ file.size = 0)
            /\ ~(mime = "image/svg+xml" /\ ~Upload!SafeSvg(file))
    BY DEF Upload!NextField, Upload!Field
<1>2. AtReading /\ u2' \in 0 .. MaxFields
    <2>1. AtReading
        BY <1>1 DEF UploadsIInv, AtWriting, AtEnd
    <2>2. MaxFields \in Nat
        BY DEF InstanceAssumptions, Upload!UploadAssumption
    <2> QED BY <1>1, <2>1, <2>2 DEF UploadsIInv
<1>3. CASE ~Upload!Refuse
    <2>1. field.file = file /\ field.claimed = claimed /\ field.extension = extension
        OBVIOUS
    <2> HIDE DEF field
    <2>2. Fits(u1, mime, Upload!Extension(mime, extension), field)
        BY <1>1, <1>3, <2>1, JudgedFits
    <2> HIDE DEF mime
    <2>3. name = <<u3.tries + 1, Upload!Extension(mime, extension)>>
        BY DEF Upload!Name
    <2>4. name[1] = u3.tries + 1 /\ name[2] = Upload!Extension(mime, extension)
        BY <2>3
    <2> HIDE DEF name
    <2>5. u3' = accepted /\ u1' = u1 /\ u4' = u4 /\ ~(Len(u3.files) >= MaxFiles)
        BY <1>1, <1>3 DEF mime
    <2>6. /\ u3'.at = "writing" /\ u3'.files = u3.files /\ u3'.tries = u3.tries + 1
          /\ u3'.field = field /\ u3'.mime = mime /\ u3'.name = name
          /\ {"at", "files", "tries"} \subseteq DOMAIN u3'
        BY <2>5
    <2>7. Listing(u1, u3.files, u4)'
        BY <2>5, <2>6 DEF UploadsIInv
    <2>8. u3.tries = Len(u3.files) /\ u3.tries + 1 <= MaxFiles
        <3>1. MaxFiles \in Nat /\ Len(u3.files) \in Nat
            BY DEF InstanceAssumptions, Upload!UploadAssumption, UploadsIInv, Listing
        <3> QED BY <1>2, <2>5, <3>1 DEF AtReading
    <2>9. Fits(u1, u3.mime, u3.name[2], u3.field)' /\ DOMAIN u4' = Named(u3'.files)
        BY <1>2, <2>2, <2>4, <2>5, <2>6 DEF AtReading
    <2>10. AtWriting'
        BY <2>4, <2>6, <2>8, <2>9 DEF AtWriting
    <2> QED BY <1>2, <2>5, <2>7, <2>10 DEF UploadsIInv
<1> QED BY <1>2, <1>3, RefusingKeeps

(* What is written stays written when something else is added to the disk.              *)
LEMMA WrittenStays ==
    ASSUME NEW types, NEW files, NEW disk, NEW later, Listing(types, files, disk),
           DOMAIN disk \subseteq DOMAIN later, \A n \in Named(files) : later[n] = disk[n]
    PROVE  Listing(types, files, later)
<1>1. \A i \in DOMAIN files : files[i].name \in Named(files)
    BY DEF Named
<1> QED BY <1>1 DEF Listing, Written

(* The next file has a name of its own.                                                 *)
LEMMA NextIsNew ==
    ASSUME UploadsIInv, AtWriting
    PROVE  u3.name \notin Named(u3.files)
<1>1. \A i \in DOMAIN u3.files : i # u3.tries
    BY DEF UploadsIInv, Listing, AtWriting
<1>2. \A i \in DOMAIN u3.files : u3.files[i].name[1] = i
    BY DEF UploadsIInv, Listing, Written
<1> QED BY <1>1, <1>2 DEF AtWriting, Named

LEMMA CreateFileKeeps ==
    ASSUME UploadsIInv, Upload!CreateFile
    PROVE  UploadsIInv'
<1>1. /\ u3.at = "writing" /\ u3.name \notin DOMAIN u4 /\ u1' = u1 /\ u2' = u2 /\ u3' = u3
      /\ u4' = [n \in DOMAIN u4 \union {u3.name} |->
                    IF n = u3.name THEN [field |-> u3.field, whole |-> FALSE] ELSE u4[n]]
    BY DEF Upload!CreateFile
<1>2. AtWriting
    BY <1>1 DEF UploadsIInv, AtReading, AtEnd
<1>3. /\ DOMAIN u4' = DOMAIN u4 \union {u3.name}
      /\ u4'[u3.name] = [field |-> u3.field, whole |-> FALSE]
      /\ \A n \in DOMAIN u4 : u4'[n] = u4[n]
    BY <1>1
<1>4. DOMAIN u4 = Named(u3.files)
    BY <1>1, <1>2 DEF AtWriting
<1>5. Listing(u1, u3.files, u4')
    BY <1>3, <1>4, WrittenStays DEF UploadsIInv
<1>6. AtWriting'
    BY <1>1, <1>2, <1>3, <1>4 DEF AtWriting
<1> QED BY <1>1, <1>5, <1>6 DEF UploadsIInv

(* One more file is listed.                                                             *)
LEMMA ListingGrows ==
    ASSUME NEW types, NEW files, NEW disk, NEW new, NEW k \in Nat, NEW more,
           Listing(types, files, disk), k = Len(files) + 1, k <= MaxFiles,
           DOMAIN more = 1 .. k, more = [i \in 1 .. k |-> more[i]],
           more[k] = new, \A i \in DOMAIN files : more[i] = files[i],
           Written(types, k, new, disk)
    PROVE  /\ Listing(types, more, disk)
           /\ Len(more) = k
           /\ Named(more) = Named(files) \union {new.name}
<1>1. Len(files) \in Nat /\ DOMAIN files = 1 .. Len(files)
    BY DEF Listing
<1>2. more \in Seq({more[i] : i \in DOMAIN more}) /\ Len(more) = k
    OBVIOUS
<1>3. \A i \in 1 .. k : i = k \/ i \in DOMAIN files
    BY <1>1
<1>4. \A i \in 1 .. k : Written(types, i, more[i], disk)
    BY <1>3 DEF Listing
<1>5. Named(more) = Named(files) \union {new.name}
    <2>1. ASSUME NEW i \in 1 .. k
          PROVE  more[i].name \in Named(files) \union {new.name}
        BY <1>3 DEF Named
    <2>2. ASSUME NEW i \in DOMAIN files
          PROVE  i \in 1 .. k /\ files[i].name = more[i].name
        <3>1. more[i] = files[i]
            OBVIOUS
        <3>2. i \in 1 .. k
            BY ONLY <1>1, k = Len(files) + 1, i \in DOMAIN files
        <3> QED BY <3>1, <3>2, Zenon
    <2>3. k \in 1 .. k
        BY <1>1
    <2> QED BY <2>1, <2>2, <2>3 DEF Named
<1> QED BY <1>2, <1>4, <1>5 DEF Listing

(* The file is written to its end and listed.                                           *)
LEMMA WriteKeeps ==
    ASSUME UploadsIInv, Upload!Write
    PROVE  UploadsIInv'
<1> DEFINE new == [name |-> u3.name, mime |-> u3.mime, size |-> u3.field.file.size]
           done == [u4[u3.name] EXCEPT !.whole = TRUE]
<1>1. /\ u3.at = "writing" /\ u3.name \in DOMAIN u4 /\ u1' = u1 /\ u2' = u2
      /\ u3' = [at |-> "reading", files |-> Append(u3.files, new), tries |-> u3.tries]
      /\ u4' = [u4 EXCEPT ![u3.name] = done]
    BY DEF Upload!Write, Upload!Listed
<1>2. AtWriting
    BY <1>1 DEF UploadsIInv, AtReading, AtEnd
<1>3. u3.name \notin Named(u3.files)
    BY <1>2, NextIsNew
<1>4. DOMAIN u4 = Named(u3.files) \union {u3.name} /\ u4[u3.name] = [field |-> u3.field, whole |-> FALSE]
    BY <1>1, <1>2, <1>3 DEF AtWriting
<1>5. done.field = u3.field /\ done.whole
    BY <1>4
<1> HIDE DEF done
<1>6. /\ DOMAIN u4' = DOMAIN u4 /\ u4'[u3.name] = done
      /\ \A n \in Named(u3.files) : u4'[n] = u4[n]
    BY <1>1, <1>3, <1>4
<1>7. /\ new.name = u3.name /\ new.mime = u3.mime /\ new.size = u3.field.file.size
      /\ u3'.files = Append(u3.files, new) /\ u3'.tries = u3.tries /\ u3'.at = "reading"
      /\ {"at", "files", "tries"} \subseteq DOMAIN u3'
    BY <1>1
<1> HIDE DEF new
<1>8. Listing(u1, u3.files, u4')
    BY <1>6, WrittenStays DEF UploadsIInv
<1>9. Written(u1, Len(u3.files) + 1, new, u4')
    BY <1>1, <1>2, <1>5, <1>6, <1>7 DEF Written, AtWriting
<1>10. /\ Listing(u1, u3'.files, u4') /\ Len(u3'.files) = Len(u3.files) + 1
       /\ Named(u3'.files) = Named(u3.files) \union {u3.name}
    <2> DEFINE k == Len(u3.files) + 1
    <2>1. k <= MaxFiles /\ k \in Nat /\ Len(u3.files) \in Nat /\ DOMAIN u3.files = 1 .. Len(u3.files)
        BY <1>2 DEF AtWriting, UploadsIInv, Listing
    <2>2. /\ DOMAIN u3'.files = 1 .. k /\ u3'.files = [i \in 1 .. k |-> u3'.files[i]]
          /\ u3'.files[k] = new /\ \A i \in 1 .. Len(u3.files) : u3'.files[i] = u3.files[i]
        BY <1>7, <2>1 DEF UploadsIInv, Listing
    <2>3. k = Len(u3.files) + 1 /\ Written(u1, k, new, u4')
        BY <1>9
    <2> HIDE DEF k
    <2>4. \A i \in DOMAIN u3.files : u3'.files[i] = u3.files[i]
        BY <2>1, <2>2
    <2>5. /\ Listing(u1, u3'.files, u4') /\ Len(u3'.files) = k
          /\ Named(u3'.files) = Named(u3.files) \union {new.name}
        BY ONLY <1>8, <2>1, <2>2, <2>3, <2>4, ListingGrows
    <2>6. new.name = u3.name
        BY <1>7
    <2> QED BY ONLY <2>3, <2>5, <2>6
<1>11. AtReading'
    <2>1. DOMAIN u4' = Named(u3'.files)
        BY <1>4, <1>6, <1>10
    <2>2. u3'.tries = Len(u3'.files)
        BY <1>2, <1>7, <1>10 DEF AtWriting
    <2> QED BY ONLY <1>7, <2>1, <2>2 DEF AtReading
<1> QED BY <1>1, <1>10, <1>11 DEF UploadsIInv

LEMMA EndOfRequestKeeps ==
    ASSUME UploadsIInv, Upload!EndOfRequest
    PROVE  UploadsIInv'
<1>1. /\ u3.at = "reading" /\ u3' = [u3 EXCEPT !.at = "answered"]
      /\ u1' = u1 /\ u2' = u2 /\ u4' = u4
    BY DEF Upload!EndOfRequest
<1>2. AtReading
    BY <1>1 DEF UploadsIInv, AtWriting, AtEnd
<1>3. u3'.at = "answered" /\ u3'.files = u3.files
    BY <1>1, <1>2 DEF AtReading
<1> QED BY <1>1, <1>2, <1>3 DEF UploadsIInv, AtReading, AtEnd

LEMMA UploadsKeep ==
    ASSUME UploadsIInv, InstanceAssumptions, Upload!Next
    PROVE  UploadsIInv'
<1>1. CASE Upload!BadField \/ Upload!CreateDirFails \/ Upload!WriteFails
    <2>1. u3.at \in {"reading", "writing"} /\ Upload!Refuse /\ u2' = u2
        BY <1>1 DEF Upload!BadField, Upload!CreateDirFails, Upload!WriteFails
    <2>2. AtReading \/ AtWriting
        BY <2>1 DEF UploadsIInv, AtEnd
    <2>3. u2' \in 0 .. MaxFields
        BY <2>1 DEF UploadsIInv
    <2> QED BY <2>1, <2>2, <2>3, RefusingKeeps
<1> QED BY <1>1, NextFieldKeeps, CreateFileKeeps, WriteKeeps, EndOfRequestKeeps DEF Upload!Next

LEMMA SameNumber == \A S : Upload!Cardinality(S) = Cardinality(S)
BY DEF Upload!Cardinality, Cardinality

LEMMA UploadsAreWhole ==
    ASSUME UploadsIInv
    PROVE  Upload!TypeOK /\ Upload!StoredIsWhatItIsCalled /\ Upload!AnswerIsTheDisk
<1> DEFINE n == Len(u3.files)
           listed == Named(u3.files)
<1>1. n \in Nat /\ n <= MaxFiles /\ DOMAIN u3.files = 1 .. n
    BY DEF UploadsIInv, Listing
<1>2. \A i \in DOMAIN u3.files : Written(u1, i, u3.files[i], u4)
    BY DEF UploadsIInv, Listing
<1>3. Upload!TypeOK
    <2>1. u3.at \in {"reading", "writing", "refused", "answered"}
        BY DEF UploadsIInv, AtReading, AtWriting, AtEnd
    <2> QED BY <1>1, <2>1 DEF UploadsIInv, Upload!TypeOK
<1>4. Upload!StoredIsWhatItIsCalled
    <2> SUFFICES ASSUME NEW i \in DOMAIN u3.files
                 PROVE  LET stored == u3.files[i]
                            field == u4[stored.name].field
                        IN  /\ \E e \in Upload!find_entry(stored.mime) :
                                   /\ e.magic \subseteq field.file.signatures
                                   /\ stored.name[2] \in Upload!ToSet(e.extensions)
                                   /\ e.magic = {} => field.claimed = e.mime
                            /\ stored.mime = "image/svg+xml" => Upload!SafeSvg(field.file)
                            /\ stored.size = field.file.size /\ field.file.size \in 1 .. MaxSize
        BY DEF Upload!StoredIsWhatItIsCalled
    <2> DEFINE stored == u3.files[i]
               field == u4[stored.name].field
    <2>1. Fits(u1, stored.mime, stored.name[2], field) /\ stored.size = field.file.size
        BY <1>2 DEF Written
    <2> HIDE DEF stored, field
    <2>2. PICK k \in DOMAIN u1 :
              /\ u1[k].mime = stored.mime /\ u1[k].magic \subseteq field.file.signatures
              /\ stored.name[2] \in Upload!ToSet(u1[k].extensions)
              /\ u1[k].magic = {} => field.claimed = stored.mime
        BY <2>1 DEF Fits
    <2>3. u1[k] \in Upload!find_entry(stored.mime)
        BY <2>2 DEF Upload!find_entry, Upload!Entries
    <2> QED BY <2>1, <2>2, <2>3 DEF Fits, stored, field
<1>5. Upload!AnswerIsTheDisk
    <2>1. Cardinality(listed) = n
        <3> DEFINE f == [i \in 1 .. n |-> u3.files[i].name]
        <3>1. f \in Bijection(1 .. n, listed)
            <4>1. f \in [1 .. n -> listed] /\ \A x \in listed : \E i \in 1 .. n : f[i] = x
                BY <1>1 DEF Named
            <4>2. \A i, k \in 1 .. n : f[i] = f[k] => i = k
                BY <1>1, <1>2 DEF Written
            <4> HIDE DEF f
            <4> QED BY <4>1, <4>2 DEF Bijection, Injection, Surjection, IsInjective
        <3>2. IsFiniteSet(1 .. n) /\ Cardinality(1 .. n) = n
            BY <1>1, FS_Interval
        <3> QED BY <3>1, <3>2, FS_Bijection DEF ExistsBijection
    <2>2. \A name \in listed : name \in DOMAIN u4 /\ u4[name].whole
        BY <1>2 DEF Named, Written
    <2>3. u3.at \in {"reading", "answered"} => DOMAIN u4 = listed
        BY DEF UploadsIInv, AtReading, AtWriting, AtEnd
    <2>4. Cardinality(DOMAIN u4 \ listed) <= 1
        <3>1. \A a, b \in DOMAIN u4 \ listed : a = b
            BY DEF UploadsIInv, AtReading, AtWriting, AtEnd
        <3> HIDE DEF listed
        <3>2. CASE DOMAIN u4 \ listed = {}
            BY <3>2, FS_EmptySet
        <3>3. CASE DOMAIN u4 \ listed # {}
            <4>1. PICK a \in DOMAIN u4 \ listed : TRUE
                BY <3>3
            <4>2. DOMAIN u4 \ listed = {a}
                BY <3>1, <4>1
            <4>3. Cardinality(DOMAIN u4 \ listed) = 1
                BY <4>2, FS_Singleton
            <4> QED BY <4>3
        <3> QED BY <3>2, <3>3
    <2>5. listed = {u3.files[i].name : i \in DOMAIN u3.files}
        BY DEF Named
    <2> HIDE DEF listed
    <2> QED BY <2>1, <2>2, <2>3, <2>4, <2>5, SameNumber DEF Upload!AnswerIsTheDisk
<1> QED BY <1>3, <1>4, <1>5

(* A stored file carries the signatures and the extension of its type, and an answer     *)
(* lists every file that the request left on the disk, once and whole: for any number of *)
(* fields, files and any limit on their size (storage/upload.rs, storage/mime.rs).       *)
THEOREM UploadsStayHonest == Spec => []UploadsAreHonest
<1> DEFINE I == part = "uploads" => UploadsIInv
<1>1. Init => I
    BY UploadsStart, InstanceAssumptions DEF Init
<1>2. ASSUME I, [Next]_<<part, state>> PROVE I'
    <2>1. CASE UNCHANGED <<part, state>>
        BY <1>2, <2>1 DEF state, UploadsIInv, AtReading, AtWriting, AtEnd
    <2>2. CASE Next
        BY <1>2, <2>2, UploadsKeep, InstanceAssumptions DEF Next
    <2> QED BY <1>2, <2>1, <2>2
<1>3. I => UploadsAreHonest
    BY UploadsAreWhole DEF UploadsAreHonest
<1> QED BY <1>1, <1>2, <1>3, PTL DEF Spec

-----------------------------------------------------------------------------------
(* The admin. A row holds what its columns can: what is shown of a value and sent back    *)
(* untouched becomes that value again.                                                   *)

Settled(column, value) ==
    /\ ~column.nullable => value # Pages!Null
    /\ value # Pages!Null => CASE column.kind = "int" -> value \in {"0", "7"}
                               [] column.kind = "bool" -> value \in {"true", "false"}
                               [] column.kind = "json" -> value \in {"{}", "json null"}
                               [] OTHER -> TRUE

SettledRow(columns, row) == \A name \in Pages!Names : Settled(columns[name], row[name])

(* A form shows the row it was opened on; the blank one is no row, it holds NULL only.   *)
Showing(columns, form) ==
    /\ form.at = "form" /\ form.id \in 0 .. MaxRows
    /\ form.id # 0 => SettledRow(columns, form.of)
    /\ \A name \in Pages!Names :
           form.shown[name] = Pages!InInput(Pages!Shown(columns[name].kind, form.of[name]))

Listed(page) == page.at = "list" /\ page.rows \subseteq 1 .. MaxRows

Columns(columns) == \A name \in Pages!Names : /\ columns[name].kind \in Pages!FieldKinds
                                              /\ columns[name].nullable \in BOOLEAN

SettledTable(columns, table) ==
    DOMAIN table \subseteq 1 .. MaxRows /\ \A id \in DOMAIN table : SettledRow(columns, table[id])

SoundTabs(columns, tabs) ==
    DOMAIN tabs = Tabs /\ \A t \in Tabs : Listed(tabs[t]) \/ Showing(columns, tabs[t])

Counted(posts) == /\ {"sent", "next"} \subseteq DOMAIN posts
                  /\ posts.sent \in 0 .. MaxPosts /\ posts.next \in Nat \ {0}

(* What was stored last, and what of it nobody touched.                                  *)
SoundSave(columns, saved) ==
    /\ saved # Pages!Nothing => \A name \in Pages!Names :
           ~columns[name].nullable /\ columns[name].kind = "string" =>
               saved.now[name] \notin Pages!Blank
    /\ \A name \in Pages!Names :
           /\ saved.typed[name] = saved.shown[name]
           /\ saved.opened[name] \notin {Pages!Null, Pages!Lined} /\ columns[name].kind # "datetime"
           => saved.now[name] = saved.opened[name]

AdminIInv == /\ Columns(u1) /\ SettledTable(u1, u2) /\ SoundTabs(u1, u3)
             /\ Counted(u4) /\ SoundSave(u1, u5)

(* No text that is typed or shown is NULL.                                               *)
LEMMA TextsAreNoNull == \A text \in Pages!Texts : text # Pages!Null
<1>1. \A k \in Pages!FieldKinds : Pages!ValuesOf(k) \ {Pages!Lined} \subseteq
          {"", "x", "0", "7", "false", "true", "past", "{}", "json null"}
    <2> SUFFICES ASSUME NEW k \in Pages!FieldKinds
                 PROVE  Pages!ValuesOf(k) \ {Pages!Lined} \subseteq
                            {"", "x", "0", "7", "false", "true", "past", "{}", "json null"}
        OBVIOUS
    <2> USE DEF Pages!ValuesOf
    <2>1. k = "string" => Pages!ValuesOf(k) = {"", "x", Pages!Lined}
        BY Zenon
    <2>2. k = "int" => Pages!ValuesOf(k) = {"0", "7"}
        BY Zenon
    <2>3. k = "bool" => Pages!ValuesOf(k) = {"false", "true"}
        BY Zenon
    <2>4. k = "datetime" => Pages!ValuesOf(k) = {"past"}
        BY Zenon
    <2>5. k = "json" => Pages!ValuesOf(k) = {"{}", "json null"}
        BY Zenon
    <2> HIDE DEF Pages!ValuesOf
    <2> QED BY <2>1, <2>2, <2>3, <2>4, <2>5 DEF Pages!FieldKinds
<1>2. \A k \in Pages!FieldKinds : \A text \in Pages!Typed(k) : text # Pages!Null
    BY <1>1 DEF Pages!Typed, Pages!Null
<1> QED BY <1>2 DEF Pages!Texts, Pages!Null

(* A text becomes a value that its column can hold, whatever was typed: where it means    *)
(* nothing, a value stands in for it, or NULL where that may be.                         *)
LEMMA TextsSettle ==
    ASSUME NEW column, column.kind \in Pages!FieldKinds, NEW text \in Pages!Texts
    PROVE  /\ Settled(column, Pages!base_coerce(column.kind, text))
           /\ column.nullable => Settled(column, Pages!opt_coerce(column.kind, text))
           /\ column.kind = "string" => Pages!base_coerce(column.kind, text) = text
<1>1. text # Pages!Null
    BY TextsAreNoNull
<1> USE DEF Settled, Pages!base_coerce, Pages!opt_coerce, Pages!ParsesAs, Pages!Meant, Pages!Instead,
            Pages!Null
<1>2. CASE column.kind = "string"
    BY <1>1, <1>2
<1>3. CASE column.kind = "int"
    BY <1>1, <1>3
<1>4. CASE column.kind = "bool"
    BY <1>1, <1>4
<1>5. CASE column.kind = "datetime"
    BY <1>1, <1>5
<1>6. CASE column.kind = "json"
    BY <1>1, <1>6
<1> QED BY <1>2, <1>3, <1>4, <1>5, <1>6 DEF Pages!FieldKinds

(* What is shown of a value, in one line, becomes that value again.                      *)
LEMMA ShownComesBack ==
    ASSUME NEW column, column.kind \in Pages!FieldKinds, NEW value, Settled(column, value),
           value \notin {Pages!Null, Pages!Lined}, column.kind # "datetime"
    PROVE  Pages!base_coerce(column.kind, Pages!InInput(Pages!Shown(column.kind, value))) = value
<1>1. Pages!InInput(Pages!Shown(column.kind, value)) = value
    BY DEF Pages!Shown, Pages!InInput
<1> USE DEF Settled, Pages!base_coerce, Pages!ParsesAs, Pages!Meant
<1>2. CASE column.kind = "string"
    BY <1>1, <1>2
<1>3. CASE column.kind = "int"
    BY <1>1, <1>3
<1>4. CASE column.kind = "bool"
    BY <1>1, <1>4
<1>5. CASE column.kind = "json"
    BY <1>1, <1>5
<1> QED BY <1>2, <1>3, <1>4, <1>5 DEF Pages!FieldKinds

(* The form that is opened shows its row.                                                *)
LEMMA FormsShow ==
    ASSUME NEW id \in 0 .. MaxRows, NEW row, id # 0 => SettledRow(u1, row)
    PROVE  Showing(u1, Pages!Form(id, row))
BY DEF Showing, Pages!Form

LEMMA PagesShow ==
    ASSUME AdminIInv, NEW id \in 1 .. MaxRows, MaxRows \in Nat
    PROVE  Listed(Pages!Page(id)) \/ Showing(u1, Pages!Page(id))
<1>1. CASE id \in DOMAIN u2
    <2>1. Pages!Page(id) = Pages!Form(id, u2[id])
        BY <1>1 DEF Pages!Page
    <2>2. id \in 0 .. MaxRows /\ SettledRow(u1, u2[id])
        BY <1>1 DEF AdminIInv, SettledTable
    <2> QED BY <2>1, <2>2, FormsShow
<1>2. CASE id \notin DOMAIN u2
    <2>1. Pages!Page(id) = Pages!List
        BY <1>2 DEF Pages!Page
    <2> QED BY <2>1 DEF AdminIInv, SettledTable, Listed, Pages!List
<1> QED BY <1>1, <1>2

LEMMA BlankShows ==
    ASSUME MaxRows \in Nat
    PROVE  Showing(u1, Pages!Form(0, Pages!EmptyRow))
BY FormsShow

(* A page in a tab takes the place of the one before it.                                 *)
LEMMA TabsStaySound ==
    ASSUME AdminIInv, NEW t \in Tabs, NEW page, Listed(page) \/ Showing(u1, page),
           u3' = [u3 EXCEPT ![t] = page]
    PROVE  SoundTabs(u1, u3')
<1>1. DOMAIN u3' = Tabs /\ u3'[t] = page /\ \A s \in Tabs \ {t} : u3'[s] = u3[s]
    BY DEF AdminIInv, SoundTabs
<1> QED BY <1>1 DEF AdminIInv, SoundTabs

(* Opening a page changes no row.                                                        *)
LEMMA OpeningKeeps ==
    ASSUME AdminIInv, NEW t \in Tabs, NEW page, Listed(page) \/ Showing(u1, page),
           Pages!Opens(t, page)
    PROVE  AdminIInv'
<1>1. SoundTabs(u1, u3')
    BY TabsStaySound DEF Pages!Opens
<1> QED BY <1>1 DEF AdminIInv, Pages!Opens

(* A row that settles joins the table, or takes the place of the one before it.          *)
LEMMA RowsSettle ==
    ASSUME AdminIInv, NEW id \in 1 .. MaxRows, NEW row, SettledRow(u1, row)
    PROVE  SettledTable(u1, Pages!WithRow(id, row))
<1>1. DOMAIN Pages!WithRow(id, row) = DOMAIN u2 \union {id}
    BY DEF Pages!WithRow
<1>2. \A i \in DOMAIN u2 \union {id} :
          Pages!WithRow(id, row)[i] = IF i = id THEN row ELSE u2[i]
    BY DEF Pages!WithRow
<1> HIDE DEF Pages!WithRow
<1> QED BY <1>1, <1>2 DEF AdminIInv, SettledTable

LEMMA CreatedSettles ==
    ASSUME AdminIInv, NEW data \in [Pages!Names -> Pages!Texts]
    PROVE  SettledRow(u1, Pages!Created(data)) /\ SettledRow(u1, Pages!Updated(data))
<1> SUFFICES ASSUME NEW name \in Pages!Names
             PROVE  /\ Settled(u1[name], Pages!Created(data)[name])
                    /\ Settled(u1[name], Pages!Updated(data)[name])
    BY DEF SettledRow
<1>1. u1[name].kind \in Pages!FieldKinds /\ u1[name].nullable \in BOOLEAN /\ data[name] \in Pages!Texts
    BY DEF AdminIInv, Columns
<1>2. /\ Settled(u1[name], Pages!base_coerce(u1[name].kind, data[name]))
      /\ u1[name].nullable => Settled(u1[name], Pages!opt_coerce(u1[name].kind, data[name]))
    BY <1>1, TextsSettle
<1>3. Pages!Updated(data)[name] = Pages!base_coerce(u1[name].kind, data[name])
    BY DEF Pages!Updated
<1>4. Pages!Created(data)[name] = IF u1[name].nullable
                                  THEN Pages!opt_coerce(u1[name].kind, data[name])
                                  ELSE Pages!base_coerce(u1[name].kind, data[name])
    BY DEF Pages!Created
<1> QED BY <1>1, <1>2, <1>3, <1>4

(* What an accepted form stores of an existing row: what was left as shown stays.        *)
LEMMA SavesStaySound ==
    ASSUME AdminIInv, NEW t \in Tabs, Showing(u1, u3[t]), u3[t].id # 0,
           NEW data \in [Pages!Names -> Pages!Texts], Pages!Handles(data), NEW saved,
           saved.opened = u3[t].of, saved.now = Pages!Updated(data), saved.typed = data,
           saved.shown = u3[t].shown
    PROVE  SoundSave(u1, saved)
<1>1. ASSUME NEW name \in Pages!Names
      PROVE  /\ u1[name].kind \in Pages!FieldKinds /\ u1[name].nullable \in BOOLEAN
             /\ data[name] \in Pages!Texts
             /\ saved.now[name] = Pages!base_coerce(u1[name].kind, data[name])
    BY DEF AdminIInv, Columns, Pages!Updated
<1>2. ASSUME NEW name \in Pages!Names, ~u1[name].nullable, u1[name].kind = "string"
      PROVE  saved.now[name] \notin Pages!Blank
    <2>1. data[name] \notin Pages!Blank
        BY <1>2 DEF Pages!Handles, Pages!Validates, Pages!Required
    <2>2. Pages!base_coerce(u1[name].kind, data[name]) = data[name]
        BY <1>1, <1>2, TextsSettle
    <2> QED BY <1>1, <2>1, <2>2
<1>3. ASSUME NEW name \in Pages!Names, saved.typed[name] = saved.shown[name],
             saved.opened[name] \notin {Pages!Null, Pages!Lined}, u1[name].kind # "datetime"
      PROVE  saved.now[name] = saved.opened[name]
    <2>1. data[name] = Pages!InInput(Pages!Shown(u1[name].kind, saved.opened[name]))
        BY <1>3 DEF Showing
    <2>2. Settled(u1[name], saved.opened[name])
        BY DEF Showing, SettledRow
    <2>3. Pages!base_coerce(u1[name].kind,
                            Pages!InInput(Pages!Shown(u1[name].kind, saved.opened[name])))
              = saved.opened[name]
        BY <1>1, <1>3, <2>2, ShownComesBack
    <2> QED BY <1>1, <2>1, <2>3
<1> QED BY <1>2, <1>3 DEF SoundSave

(* A form that is sent: refused, it is opened again; accepted, its row is stored.        *)
LEMMA SubmitKeeps ==
    ASSUME AdminIInv, InstanceAssumptions, NEW t \in Tabs,
           NEW data \in [Pages!Names -> Pages!Texts], Pages!Submit(t, data)
    PROVE  AdminIInv'
<1>1. MaxRows \in Nat \ {0} /\ MaxPosts \in Nat
    BY DEF InstanceAssumptions, Pages!AdminAssumption
<1>2. /\ Showing(u1, u3[t]) /\ u1' = u1 /\ u4.sent < MaxPosts
      /\ u3[t].id = 0 => u4.next <= MaxRows
    <2>1. u3[t].at = "form"
        BY DEF Pages!Submit
    <2>2. ~Listed(u3[t])
        BY <2>1 DEF Listed
    <2> QED BY <2>2 DEF Pages!Submit, AdminIInv, SoundTabs
<1>3. Counted(u4')
    <2>1. /\ u4.sent \in 0 .. MaxPosts /\ u4.next \in Nat \ {0}
          /\ u4' = [sent |-> u4.sent + 1, next |-> u4.next
                                  + (IF Pages!Handles(data) /\ u3[t].id = 0 THEN 1 ELSE 0)]
        BY DEF Pages!Submit, AdminIInv, Counted
    <2>2. /\ {"sent", "next"} \subseteq DOMAIN u4' /\ u4'.sent = u4.sent + 1
          /\ u4'.next \in {u4.next, u4.next + 1}
        BY <2>1
    <2> QED BY <1>1, <1>2, <2>1, <2>2 DEF Counted
<1>4. CASE ~Pages!Handles(data)
    <2>1. Pages!Refused(t)
        BY <1>4 DEF Pages!Submit
    <2> DEFINE page == IF u3[t].id = 0 THEN Pages!Form(0, Pages!EmptyRow) ELSE Pages!Page(u3[t].id)
    <2>2. u3' = [u3 EXCEPT ![t] = page] /\ u2' = u2 /\ u5' = u5
        BY <2>1 DEF Pages!Refused
    <2>3. Listed(page) \/ Showing(u1, page)
        <3>1. CASE u3[t].id = 0
            BY <1>1, <3>1, BlankShows
        <3>2. CASE u3[t].id # 0
            <4>1. u3[t].id \in 1 .. MaxRows
                BY <1>1, <1>2, <3>2 DEF Showing
            <4> QED BY <1>1, <3>2, <4>1, PagesShow
        <3> QED BY <3>1, <3>2
    <2> HIDE DEF page
    <2>4. SoundTabs(u1, u3')
        BY <2>2, <2>3, TabsStaySound
    <2> QED BY <1>2, <1>3, <2>2, <2>4 DEF AdminIInv
<1>5. CASE Pages!Handles(data)
    <2> DEFINE id == u3[t].id
    <2>1. /\ u2' = CASE id = 0 -> Pages!WithRow(u4.next, Pages!Created(data))
                     [] id \in DOMAIN u2 -> Pages!WithRow(id, Pages!Updated(data))
                     [] OTHER -> u2
          /\ u5' = IF id \in DOMAIN u2
                   THEN [before |-> u2[id], opened |-> u3[t].of, now |-> Pages!Updated(data),
                         typed |-> data, shown |-> u3[t].shown]
                   ELSE u5
          /\ u3' = [u3 EXCEPT ![t] = [at |-> "list", rows |-> DOMAIN u2']]
        BY <1>5 DEF Pages!Submit, Pages!Stores
    <2>2. SettledRow(u1, Pages!Created(data)) /\ SettledRow(u1, Pages!Updated(data))
        BY CreatedSettles
    <2>3. SettledTable(u1, u2')
        <3>1. CASE id = 0
            <4>1. u2' = Pages!WithRow(u4.next, Pages!Created(data))
                <5>1. \A x, y, z : (CASE id = 0 -> x [] id \in DOMAIN u2 -> y [] OTHER -> z) = x
                    <6>1. id \notin DOMAIN u2
                        BY <3>1 DEF AdminIInv, SettledTable
                    <6> HIDE DEF id
                    <6> QED BY <3>1, <6>1, Zenon
                <5> QED BY <2>1, <5>1, Zenon
            <4>2. u4.next \in 1 .. MaxRows
                BY <1>1, <1>2, <3>1 DEF AdminIInv, Counted
            <4> QED BY <2>2, <4>1, <4>2, RowsSettle
        <3>2. CASE id # 0 /\ id \in DOMAIN u2
            <4>1. u2' = Pages!WithRow(id, Pages!Updated(data))
                BY <2>1, <3>2, Zenon
            <4>2. id \in 1 .. MaxRows
                BY <3>2 DEF AdminIInv, SettledTable
            <4> QED BY <2>2, <4>1, <4>2, RowsSettle
        <3>3. CASE id # 0 /\ id \notin DOMAIN u2
            <4>1. u2' = u2
                BY <2>1, <3>3, Zenon
            <4> QED BY <4>1 DEF AdminIInv
        <3> QED BY <3>1, <3>2, <3>3
    <2>4. SoundTabs(u1, u3')
        <3> DEFINE page == [at |-> "list", rows |-> DOMAIN u2']
        <3>1. Listed(page)
            BY <2>3 DEF SettledTable, Listed
        <3> HIDE DEF page
        <3> QED BY <2>1, <3>1, TabsStaySound DEF page
    <2>5. SoundSave(u1, u5')
        <3>1. CASE id \in DOMAIN u2
            <4>1. id # 0
                BY <3>1 DEF AdminIInv, SettledTable
            <4>2. /\ u5'.opened = u3[t].of /\ u5'.now = Pages!Updated(data)
                  /\ u5'.typed = data /\ u5'.shown = u3[t].shown
                BY <2>1, <3>1
            <4> QED BY <1>2, <1>5, <4>1, <4>2, SavesStaySound
        <3>2. CASE id \notin DOMAIN u2
            <4>1. u5' = u5
                BY <2>1, <3>2
            <4> QED BY <4>1 DEF AdminIInv
        <3> QED BY <3>1, <3>2
    <2> QED BY <1>2, <1>3, <2>3, <2>4, <2>5 DEF AdminIInv
<1> QED BY <1>4, <1>5

LEMMA DeleteKeeps ==
    ASSUME AdminIInv, InstanceAssumptions, NEW t \in Tabs, NEW id, Pages!Delete(t, id)
    PROVE  AdminIInv'
<1>1. MaxPosts \in Nat /\ u4.sent < MaxPosts /\ u1' = u1 /\ u5' = u5
    BY DEF InstanceAssumptions, Pages!AdminAssumption, Pages!Delete
<1>2. DOMAIN u2' = DOMAIN u2 \ {id} /\ \A i \in DOMAIN u2 \ {id} : u2'[i] = u2[i]
    BY DEF Pages!Delete
<1>3. SettledTable(u1, u2')
    BY <1>2 DEF AdminIInv, SettledTable
<1>4. SoundTabs(u1, u3')
    <2> DEFINE page == [at |-> "list", rows |-> DOMAIN u2']
    <2>1. Listed(page) /\ u3' = [u3 EXCEPT ![t] = page]
        BY <1>3 DEF SettledTable, Listed, Pages!Delete
    <2> HIDE DEF page
    <2> QED BY <2>1, TabsStaySound
<1>5. Counted(u4')
    <2>1. /\ {"sent", "next"} \subseteq DOMAIN u4 /\ u4.sent \in 0 .. MaxPosts
          /\ u4.next \in Nat \ {0}
        BY DEF AdminIInv, Counted
    <2>2. u4' = [u4 EXCEPT !.sent = u4.sent + 1]
        BY DEF Pages!Delete
    <2>3. DOMAIN u4' = DOMAIN u4 /\ u4'.sent = u4.sent + 1 /\ u4'.next = u4.next
        BY <2>1, <2>2
    <2> QED BY <1>1, <2>1, <2>3 DEF Counted
<1> QED BY <1>1, <1>3, <1>4, <1>5 DEF AdminIInv

LEMMA PagesStep ==
    ASSUME AdminIInv, InstanceAssumptions, Pages!Next
    PROVE  AdminIInv'
<1>1. MaxRows \in Nat
    BY DEF InstanceAssumptions, Pages!AdminAssumption
<1>2. PICK t \in Tabs :
          \/ Pages!Index(t) \/ Pages!NewForm(t)
          \/ \E id \in 1 .. MaxRows : Pages!EditForm(t, id) \/ Pages!Delete(t, id)
          \/ \E data \in [Pages!Names -> Pages!Texts] : Pages!Submit(t, data)
    BY DEF Pages!Next
<1>3. CASE Pages!Index(t)
    <2>1. Listed(Pages!List)
        BY DEF AdminIInv, SettledTable, Listed, Pages!List
    <2> QED BY <1>3, <2>1, OpeningKeeps DEF Pages!Index
<1>4. CASE Pages!NewForm(t)
    BY <1>1, <1>4, BlankShows, OpeningKeeps DEF Pages!NewForm
<1>5. ASSUME NEW id \in 1 .. MaxRows, Pages!EditForm(t, id)
      PROVE  AdminIInv'
    BY <1>1, <1>5, PagesShow, OpeningKeeps DEF Pages!EditForm
<1>6. ASSUME NEW id \in 1 .. MaxRows, Pages!Delete(t, id)
      PROVE  AdminIInv'
    BY <1>6, DeleteKeeps
<1>7. ASSUME NEW data \in [Pages!Names -> Pages!Texts], Pages!Submit(t, data)
      PROVE  AdminIInv'
    BY <1>7, SubmitKeeps
<1> QED BY <1>2, <1>3, <1>4, <1>5, <1>6, <1>7

(* The values that a row may start with settle in it.                                    *)
LEMMA ValuesSettle ==
    ASSUME NEW column, column.kind \in Pages!FieldKinds, NEW value,
           \/ value = Pages!Null /\ column.nullable
           \/ value \in Pages!ValuesOf(column.kind)
    PROVE  Settled(column, value)
<1> USE DEF Settled, Pages!ValuesOf, Pages!Null, Pages!Lined
<1>1. CASE column.kind = "string"
    BY <1>1, Zenon
<1>2. CASE column.kind = "int"
    BY <1>2, Zenon
<1>3. CASE column.kind = "bool"
    BY <1>3, Zenon
<1>4. CASE column.kind = "datetime"
    BY <1>4, Zenon
<1>5. CASE column.kind = "json"
    BY <1>5, Zenon
<1> QED BY <1>1, <1>2, <1>3, <1>4, <1>5 DEF Pages!FieldKinds

LEMMA PagesStart ==
    ASSUME InstanceAssumptions, Pages!Init
    PROVE  AdminIInv
<1>1. MaxRows \in Nat \ {0} /\ MaxPosts \in Nat
    BY DEF InstanceAssumptions, Pages!AdminAssumption
<1>2. Columns(u1)
    <2>1. PICK k \in Pages!FieldKinds, n \in BOOLEAN :
              u1 = [name \in Pages!Names |-> IF name = "first" THEN [kind |-> k, nullable |-> n]
                                            ELSE [kind |-> "string", nullable |-> FALSE]]
        BY DEF Pages!Init
    <2>2. ASSUME NEW name \in Pages!Names
          PROVE  \/ u1[name].kind = k /\ u1[name].nullable = n
                 \/ u1[name].kind = "string" /\ u1[name].nullable = FALSE
        BY <2>1
    <2> QED BY <2>2 DEF Columns, Pages!FieldKinds
<1>3. SettledTable(u1, u2)
    <2>1. PICK row \in Pages!Rows(u1) : u2 = [id \in {1} |-> row]
        BY DEF Pages!Init
    <2>2. SettledRow(u1, row)
        BY <1>2, ValuesSettle DEF SettledRow, Columns, Pages!Rows
    <2>3. DOMAIN u2 = {1} /\ u2[1] = row
        BY <2>1
    <2> QED BY <1>1, <2>2, <2>3 DEF SettledTable
<1>4. SoundTabs(u1, u3)
    <2>1. DOMAIN u3 = Tabs /\ \A t \in Tabs : u3[t].at = "list" /\ u3[t].rows = {1}
        BY DEF Pages!Init
    <2> QED BY <1>1, <2>1 DEF SoundTabs, Listed
<1>5. Counted(u4)
    BY <1>1 DEF Counted, Pages!Init
<1>6. SoundSave(u1, u5)
    <2>1. /\ u5 = Pages!Nothing
          /\ \A name \in Pages!Names : u5.typed[name] = "null" /\ u5.shown[name] = "nothing"
        BY DEF Pages!Init, Pages!Nothing, Pages!EmptyRow, Pages!Null
    <2> QED BY <2>1 DEF SoundSave
<1> QED BY <1>2, <1>3, <1>4, <1>5, <1>6 DEF AdminIInv

(* Rows have the values that their columns need, whatever is typed into the forms, and    *)
(* what nobody touched stays as it was shown (EditsAreFaithful), for any tabs and bounds. *)
THEOREM EditsStayFaithful == Spec => []EditsAreFaithful
<1> DEFINE Inv == part = "admin" => AdminIInv
<1>1. InstanceAssumptions
    BY InstanceAssumptions
<1>2. Init => Inv
    BY <1>1, PagesStart DEF Init
<1>3. ASSUME Inv, [Next]_<<part, state>>
      PROVE  Inv'
    <2>1. CASE UNCHANGED <<part, state>>
        BY <1>3, <2>1 DEF state, AdminIInv
    <2>2. CASE part = "admin" /\ Next
        <3>1. Pages!Next /\ part' = part
            BY <2>2 DEF Next
        <3> QED BY <1>1, <1>3, <2>2, <3>1, PagesStep
    <2>3. CASE part # "admin" /\ Next
        BY <2>3 DEF Next
    <2> QED BY <1>3, <2>1, <2>2, <2>3
<1>4. Inv => EditsAreFaithful
    <2> SUFFICES ASSUME AdminIInv PROVE Pages!TypeOK /\ Pages!RowsAreValid /\ Pages!UntouchedStays
        BY DEF EditsAreFaithful
    <2>1. Pages!TypeOK
        BY DEF Pages!TypeOK, AdminIInv, SettledTable, Counted, SoundTabs, Listed, Showing
    <2>2. Pages!RowsAreValid
        <3>1. \A id \in DOMAIN u2, name \in Pages!Names : ~u1[name].nullable => u2[id][name] # Pages!Null
            BY DEF AdminIInv, SettledTable, SettledRow, Settled
        <3> QED BY <3>1 DEF Pages!RowsAreValid, Pages!Required, AdminIInv, SoundSave
    <2>3. Pages!UntouchedStays
        BY DEF Pages!UntouchedStays, AdminIInv, SoundSave
    <2> QED BY <2>1, <2>2, <2>3
<1> QED BY <1>2, <1>3, <1>4, PTL DEF Spec

-----------------------------------------------------------------------------------
(* The URLs of pictures.                                                                *)

(* Of some places in a list one is the last.                                            *)
LEMMA LastPlace ==
    ASSUME NEW n \in Nat, NEW S \in SUBSET (1 .. n), S # {}
    PROVE  \E i \in S : \A j \in S : j <= i
<1> DEFINE T == {k \in Nat : n - k \in S}
           R == OpToRel(<, Nat)
<1>1. \A x, y \in Nat : x < y => <<x, y>> \in R
    BY DEF OpToRel
<1>2. T # {} /\ T \subseteq Nat
    <2>1. PICK i \in S : TRUE
        OBVIOUS
    <2>2. n - i \in Nat /\ n - (n - i) = i
        BY <2>1
    <2> QED  BY <2>1, <2>2
<1>3. PICK k \in T : \A y \in T : <<y, k>> \notin R
    <2> HIDE DEF T, R
    <2>1. IsWellFoundedOn(R, Nat)
        BY NatLessThanWellFounded DEF R
    <2> QED  BY <1>2, <2>1, WFMin
<1> HIDE DEF R
<1>4. n - k \in S
    OBVIOUS
<1>5. \A j \in S : j <= n - k
    <2> SUFFICES ASSUME NEW j \in S, j > n - k PROVE FALSE
        BY <1>3, <1>4
    <2>1. n - j \in T /\ n - j < k
        OBVIOUS
    <2> QED  BY <1>1, <1>3, <2>1
<1> QED  BY <1>4, <1>5

(* A spelling that can be asked for: a list of modifiers with natural numbers.          *)
IsListed(mods) == /\ \E n \in Nat : DOMAIN mods = 1 .. n
                /\ \A i \in DOMAIN mods : mods[i].number.value \in Nat

Sensible(s) == s.w.value \in Nat /\ s.h.value \in Nat /\ IsListed(s.mods)

(* The modifier that stays is one of those with the name.                               *)
LEMMA LatestIsOne ==
    ASSUME NEW mods, IsListed(mods), NEW names, Urls!Of(mods, names) # {}
    PROVE  /\ \E i \in DOMAIN mods : Urls!Latest(mods, names) = mods[i] /\ mods[i].name \in names
           /\ Urls!Latest(mods, names).number.value \in Nat
<1> DEFINE S == Urls!Of(mods, names)
<1>1. PICK n \in Nat : DOMAIN mods = 1 .. n
    BY DEF IsListed
<1>2. S \in SUBSET (1 .. n) /\ S # {}
    BY <1>1 DEF Urls!Of
<1>3. \E i \in S : \A j \in S : j <= i
    <2> HIDE DEF S
    <2> QED  BY <1>2, LastPlace
<1>4. PICK i \in S : Urls!Latest(mods, names) = mods[i]
    BY <1>3, Zenon DEF Urls!Latest
<1>5. i \in DOMAIN mods /\ mods[i].name \in names
    BY DEF Urls!Of
<1> QED  BY <1>4, <1>5 DEF IsListed

(* What a spelling that can be read says.                                               *)
Formats == {"none"} \union Urls!OutputFormats

Sound(spec) ==
    /\ spec = [is |-> "spec", w |-> spec.w, h |-> spec.h, format |-> spec.format, mode |-> spec.mode,
               quality |-> spec.quality, gray |-> spec.gray, blur |-> spec.blur]
    /\ spec.w \in Nat /\ spec.h \in Nat /\ ~(spec.w = 0 /\ spec.h = 0)
    /\ spec.format \in Formats
    /\ \/ spec.mode \in {"cover", "stretch"}
       \/ spec.mode = IF spec.w = 0 THEN "height" ELSE IF spec.h = 0 THEN "width" ELSE "fit"
    /\ spec.quality \in 0 .. 100 /\ spec.gray \in BOOLEAN /\ spec.blur \in 0 .. 20

(* A spelling that is not refused is read as a variant with numbers in their ranges.    *)
LEMMA ReadIsSound ==
    ASSUME NEW s, Sensible(s), Urls!parse_spec(s) # Urls!Nothing
    PROVE  Sound(Urls!parse_spec(s))
<1> DEFINE mods == s.mods
           spec == Urls!parse_spec(s)
           quality == IF Urls!Of(mods, {"q"}) = {} THEN 0
                      ELSE Urls!Clamped(1, Urls!Latest(mods, {"q"}).number.value, 100)
           blur == IF Urls!Of(mods, {"blur"}) = {} THEN 0
                   ELSE Urls!Clamped(1, Urls!Latest(mods, {"blur"}).number.value, 20)
           gray == Urls!Of(mods, {"gray", "grayscale"}) # {}
<1>1. /\ s.format = "none" \/ Urls!Lower(s.format) \in Urls!OutputFormats
      /\ ~(s.w.value = 0 /\ s.h.value = 0)
      /\ spec = [is |-> "spec", w |-> s.w.value, h |-> s.h.value, format |-> Urls!Lower(s.format),
                 mode |-> Urls!Mode(s), quality |-> quality, gray |-> gray, blur |-> blur]
    BY Zenon DEF Urls!parse_spec
<1>2. IsListed(mods) /\ s.w.value \in Nat /\ s.h.value \in Nat
    BY DEF Sensible
<1>3. quality \in 0 .. 100
    BY <1>2, LatestIsOne DEF Urls!Clamped
<1>4. blur \in 0 .. 20
    BY <1>2, LatestIsOne DEF Urls!Clamped
<1>5. \/ Urls!Mode(s) \in {"cover", "stretch"}
      \/ Urls!Mode(s) = IF s.w.value = 0 THEN "height" ELSE IF s.h.value = 0 THEN "width" ELSE "fit"
    <2>1. CASE Urls!Of(mods, {"cover", "stretch"}) = {}
        BY <2>1 DEF Urls!Mode
    <2>2. CASE Urls!Of(mods, {"cover", "stretch"}) # {}
        <3>1. Urls!Latest(mods, {"cover", "stretch"}).name \in {"cover", "stretch"}
            BY <1>2, <2>2, LatestIsOne
        <3> QED  BY <2>2, <3>1 DEF Urls!Mode
    <2> QED  BY <2>1, <2>2
<1>6. Urls!Lower(s.format) \in Formats
    BY <1>1 DEF Formats, Urls!Lower
<1>7. gray \in BOOLEAN
    OBVIOUS
<1> HIDE DEF spec, quality, gray, blur
<1> QED  BY <1>1, <1>2, <1>3, <1>4, <1>5, <1>6, <1>7 DEF Sound, spec

-----------------------------------------------------------------------------------
(* The one spelling of a variant: its modifiers are those the variant has.              *)

Mods == [name : {"cover", "stretch", "q", "gray", "blur"}, number : [value : Nat, plain : BOOLEAN]]

Carries(mods) == {mods[i] : i \in DOMAIN mods}

(* A sequence of modifiers is a list of them.                                           *)
LEMMA ModsAreListed ==
    ASSUME NEW mods \in Seq(Mods)
    PROVE  IsListed(mods)
<1>1. \A m \in Mods : m.number.value \in Nat
    BY DEF Mods
<1>2. \A i \in DOMAIN mods : mods[i] \in Mods
    OBVIOUS
<1>3. Len(mods) \in Nat /\ DOMAIN mods = 1 .. Len(mods)
    OBVIOUS
<1> QED  BY <1>1, <1>2, <1>3 DEF IsListed

(* Two lists of modifiers, joined, have the modifiers of both.                          *)
LEMMA JoinCarries ==
    ASSUME NEW s \in Seq(Mods), NEW t \in Seq(Mods)
    PROVE  s \o t \in Seq(Mods) /\ Carries(s \o t) = Carries(s) \union Carries(t)
<1> DEFINE m == s \o t
<1>1. /\ m \in Seq(Mods) /\ DOMAIN m = 1 .. Len(s) + Len(t)
      /\ Len(s) \in Nat /\ Len(t) \in Nat /\ DOMAIN s = 1 .. Len(s) /\ DOMAIN t = 1 .. Len(t)
      /\ \A i \in 1 .. Len(s) : m[i] = s[i]
      /\ \A i \in 1 .. Len(t) : m[Len(s) + i] = t[i]
    OBVIOUS
<1> HIDE DEF m
<1>2. \A i \in DOMAIN m : i \in 1 .. Len(s) \/ (i - Len(s) \in 1 .. Len(t) /\ m[i] = t[i - Len(s)])
    BY <1>1
<1>3. \A i \in 1 .. Len(t) : Len(s) + i \in DOMAIN m
    BY <1>1
<1>4. \A i \in 1 .. Len(s) : i \in DOMAIN m
    BY <1>1
<1>5. Carries(m) \subseteq Carries(s) \union Carries(t)
    BY <1>1, <1>2 DEF Carries
<1>6. Carries(s) \subseteq Carries(m)
    BY <1>1, <1>4 DEF Carries
<1>7. Carries(t) \subseteq Carries(m)
    BY <1>1, <1>3 DEF Carries
<1> QED  BY <1>1, <1>5, <1>6, <1>7 DEF m

(* A modifier that may be left out.                                                     *)
LEMMA OptionalCarries ==
    ASSUME NEW mod \in Mods, NEW condition \in BOOLEAN
    PROVE  /\ Urls!If(condition, mod) \in Seq(Mods)
           /\ Carries(Urls!If(condition, mod)) = IF condition THEN {mod} ELSE {}
<1>1. CASE condition
    <2>1. Urls!If(condition, mod) = <<mod>>
        BY <1>1 DEF Urls!If
    <2>2. <<mod>> \in Seq(Mods)
        OBVIOUS
    <2>3. Carries(<<mod>>) = {mod}
        <3>1. DOMAIN <<mod>> = {1} /\ <<mod>>[1] = mod
            OBVIOUS
        <3> DEFINE one == <<mod>>
        <3> HIDE DEF one
        <3>2. DOMAIN one = {1} /\ one[1] = mod
            BY <3>1 DEF one
        <3>3. Carries(one) = {mod}
            BY <3>2 DEF Carries
        <3> QED  BY <3>3 DEF one
    <2> QED  BY <1>1, <2>1, <2>2, <2>3
<1>2. CASE ~condition
    BY <1>2 DEF Urls!If, Carries
<1> QED  BY <1>1, <1>2

(* The one spelling has a modifier for each thing the variant sets, and no other.       *)
LEMMA CanonicalCarries ==
    ASSUME NEW spec, Sound(spec)
    PROVE  LET s == Urls!canonical(spec) IN
           /\ s.w.value = spec.w /\ s.h.value = spec.h /\ s.format = spec.format
           /\ s.mods \in Seq(Mods)
           /\ Carries(s.mods) =
                  (IF spec.mode \in {"cover", "stretch"} THEN {Urls!Word(spec.mode)} ELSE {})
                     \union (IF spec.quality # 0 THEN {Urls!Mod("q", Urls!Plainly(spec.quality))} ELSE {})
                     \union (IF spec.gray THEN {Urls!Word("gray")} ELSE {})
                     \union (IF spec.blur # 0 THEN {Urls!Mod("blur", Urls!Plainly(spec.blur))} ELSE {})
<1> DEFINE moded == spec.mode \in {"cover", "stretch"}
           word == IF moded THEN Urls!Word(spec.mode) ELSE Urls!Word("cover")
           s1 == Urls!If(moded, Urls!Word(spec.mode))
           s2 == Urls!If(spec.quality # 0, Urls!Mod("q", Urls!Plainly(spec.quality)))
           s3 == Urls!If(spec.gray, Urls!Word("gray"))
           s4 == Urls!If(spec.blur # 0, Urls!Mod("blur", Urls!Plainly(spec.blur)))
<1>1. /\ Urls!Mod("q", Urls!Plainly(spec.quality)) \in Mods /\ Urls!Word("gray") \in Mods
      /\ Urls!Mod("blur", Urls!Plainly(spec.blur)) \in Mods
      /\ moded => Urls!Word(spec.mode) \in Mods
    BY DEF Sound, Mods, Urls!Mod, Urls!Word, Urls!Plainly, Urls!Number
<1>2. s1 \in Seq(Mods) /\ Carries(s1) = IF moded THEN {Urls!Word(spec.mode)} ELSE {}
    <2>1. CASE moded
        BY <1>1, <2>1, OptionalCarries
    <2>2. CASE ~moded
        BY <2>2 DEF Urls!If, Carries
    <2> QED  BY <2>1, <2>2
<1>3. /\ s2 \in Seq(Mods)
      /\ Carries(s2) = IF spec.quality # 0 THEN {Urls!Mod("q", Urls!Plainly(spec.quality))} ELSE {}
    BY <1>1, OptionalCarries, (spec.quality # 0) \in BOOLEAN
<1>4. s3 \in Seq(Mods) /\ Carries(s3) = IF spec.gray THEN {Urls!Word("gray")} ELSE {}
    BY <1>1, OptionalCarries DEF Sound
<1>5. /\ s4 \in Seq(Mods)
      /\ Carries(s4) = IF spec.blur # 0 THEN {Urls!Mod("blur", Urls!Plainly(spec.blur))} ELSE {}
    BY <1>1, OptionalCarries, (spec.blur # 0) \in BOOLEAN
<1>6. /\ Urls!canonical(spec).w.value = spec.w /\ Urls!canonical(spec).h.value = spec.h
      /\ Urls!canonical(spec).format = spec.format
      /\ Urls!canonical(spec).mods = ((s1 \o s2) \o s3) \o s4
    BY DEF Urls!canonical, Urls!Spelling, Urls!Plainly, Urls!Number
<1> HIDE DEF s1, s2, s3, s4, moded
<1>7. s1 \o s2 \in Seq(Mods) /\ Carries(s1 \o s2) = Carries(s1) \union Carries(s2)
    BY <1>2, <1>3, JoinCarries
<1>8. /\ (s1 \o s2) \o s3 \in Seq(Mods)
      /\ Carries((s1 \o s2) \o s3) = Carries(s1) \union Carries(s2) \union Carries(s3)
    BY <1>4, <1>7, JoinCarries
<1>9. /\ ((s1 \o s2) \o s3) \o s4 \in Seq(Mods)
      /\ Carries(((s1 \o s2) \o s3) \o s4) =
             Carries(s1) \union Carries(s2) \union Carries(s3) \union Carries(s4)
    BY <1>5, <1>8, JoinCarries
<1> QED  BY <1>2, <1>3, <1>4, <1>5, <1>6, <1>9 DEF moded

(* Of modifiers of which no two that count differ, the latest is known by what is there. *)
LEMMA LatestIsKnown ==
    ASSUME NEW mods \in Seq(Mods), NEW names, NEW mod \in Mods,
           {m \in Carries(mods) : m.name \in names} = {mod}
    PROVE  Urls!Of(mods, names) # {} /\ Urls!Latest(mods, names) = mod
<1>1. IsListed(mods)
    BY ModsAreListed
<1>2. Urls!Of(mods, names) # {}
    BY DEF Urls!Of, Carries
<1>3. PICK i \in DOMAIN mods : Urls!Latest(mods, names) = mods[i] /\ mods[i].name \in names
    BY <1>1, <1>2, LatestIsOne
<1> QED  BY <1>2, <1>3 DEF Carries

(* Without a modifier of that name there is none to find.                               *)
LEMMA NoneOf ==
    ASSUME NEW mods, NEW names, {m \in Carries(mods) : m.name \in names} = {}
    PROVE  Urls!Of(mods, names) = {}
BY DEF Urls!Of, Carries

(* A variant's one spelling is read as that variant.                                    *)
LEMMA ReadsBack ==
    ASSUME NEW spec, Sound(spec)
    PROVE  Sensible(Urls!canonical(spec)) /\ Urls!parse_spec(Urls!canonical(spec)) = spec
<1> DEFINE s == Urls!canonical(spec)
           mods == s.mods
           q == Urls!Mod("q", Urls!Plainly(spec.quality))
           b == Urls!Mod("blur", Urls!Plainly(spec.blur))
           gray == Urls!Word("gray")
           word == Urls!Word(spec.mode)
           P1 == spec.mode \in {"cover", "stretch"}
           P2 == spec.quality # 0
           P3 == spec.gray
           P4 == spec.blur # 0
           A1 == IF P1 THEN {word} ELSE {}
           A2 == IF P2 THEN {q} ELSE {}
           A3 == IF P3 THEN {gray} ELSE {}
           A4 == IF P4 THEN {b} ELSE {}
<1>1. /\ s.w.value = spec.w /\ s.h.value = spec.h /\ s.format = spec.format
      /\ mods \in Seq(Mods)
    BY CanonicalCarries
<1>2. Carries(mods) = A1 \union A2 \union A3 \union A4
    BY CanonicalCarries
<1>3. /\ spec.w \in Nat /\ spec.h \in Nat /\ ~(spec.w = 0 /\ spec.h = 0)
      /\ spec.quality \in 0 .. 100 /\ spec.blur \in 0 .. 20
    BY DEF Sound
<1>4. Sensible(s)
    BY <1>1, <1>3, ModsAreListed DEF Sensible
<1>5. P1 \in BOOLEAN /\ P2 \in BOOLEAN /\ P3 \in BOOLEAN /\ P4 \in BOOLEAN
    BY DEF Sound
<1>q. q.name = "q" /\ q.number.value = spec.quality /\ q \in Mods
    BY <1>3 DEF Mods, Urls!Mod, Urls!Plainly, Urls!Number
<1>b. b.name = "blur" /\ b.number.value = spec.blur /\ b \in Mods
    BY <1>3 DEF Mods, Urls!Mod, Urls!Plainly, Urls!Number
<1>g. gray.name = "gray" /\ gray \in Mods
    BY DEF Mods, Urls!Word, Urls!Mod, Urls!Plainly, Urls!Number
<1>w. word.name = spec.mode
    BY DEF Urls!Word, Urls!Mod
<1>v. P1 => word \in Mods /\ word.name \in {"cover", "stretch"}
    BY DEF Mods, Urls!Word, Urls!Mod, Urls!Plainly, Urls!Number
<1>m. P1 \/ spec.mode = IF spec.w = 0 THEN "height" ELSE IF spec.h = 0 THEN "width" ELSE "fit"
    BY DEF Sound
<1>f. Urls!Lower(spec.format) = spec.format /\ (spec.format = "none" \/ spec.format \in Urls!OutputFormats)
    BY DEF Sound, Formats, Urls!OutputFormats, Urls!Lower
<1>6. /\ spec.quality = IF P2 THEN spec.quality ELSE 0
      /\ spec.blur = IF P4 THEN spec.blur ELSE 0
      /\ P1 <=> spec.mode \in {"cover", "stretch"}
      /\ P3 = spec.gray
      /\ P2 => Urls!Clamped(1, spec.quality, 100) = spec.quality
      /\ P4 => Urls!Clamped(1, spec.blur, 20) = spec.blur
    BY <1>3 DEF Urls!Clamped
<1>a. /\ A1 = (IF P1 THEN {word} ELSE {}) /\ A2 = (IF P2 THEN {q} ELSE {})
      /\ A3 = (IF P3 THEN {gray} ELSE {}) /\ A4 = (IF P4 THEN {b} ELSE {})
    OBVIOUS
<1> HIDE DEF s, mods, q, b, gray, word, P1, P2, P3, P4, A1, A2, A3, A4
<1>s. /\ P1 => A1 = {word}
      /\ ~P1 => A1 = {}
      /\ P2 => A2 = {q}
      /\ ~P2 => A2 = {}
      /\ P3 => A3 = {gray}
      /\ ~P3 => A3 = {}
      /\ P4 => A4 = {b}
      /\ ~P4 => A4 = {}
    BY <1>a, Zenon
<1>t. /\ \A m \in A1 : m = word /\ m.name \in {"cover", "stretch"}
      /\ \A m \in A2 : m = q
      /\ \A m \in A3 : m = gray
      /\ \A m \in A4 : m = b
    <2>1. P1 => word.name \in {"cover", "stretch"}
        BY <1>v, Zenon
    <2> QED  BY <1>s, <2>1, Zenon
<1>7. /\ {m \in Carries(mods) : m.name \in {"cover", "stretch"}} = A1
      /\ {m \in Carries(mods) : m.name \in {"q"}} = A2
      /\ {m \in Carries(mods) : m.name \in {"gray", "grayscale"}} = A3
      /\ {m \in Carries(mods) : m.name \in {"blur"}} = A4
      /\ \A m \in Carries(mods) : m.name \in {"cover", "stretch"} \/ m = q \/ m = gray \/ m = b
    <2>1. /\ \A m \in A1 : m.name \in {"cover", "stretch"}
          /\ \A m \in A2 : m.name = "q"
          /\ \A m \in A3 : m.name = "gray"
          /\ \A m \in A4 : m.name = "blur"
        <3>1. q.name = "q" /\ gray.name = "gray" /\ b.name = "blur"
            BY <1>q, <1>b, <1>g
        <3> QED  BY <1>t, <3>1, Zenon
    <2>2. \A m \in Carries(mods) : m \in A1 \/ m \in A2 \/ m \in A3 \/ m \in A4
        BY <1>2, Zenon
    <2>3. \A m \in Carries(mods) : m.name \in {"cover", "stretch"} \/ m = q \/ m = gray \/ m = b
        BY <1>t, <2>2, Zenon
    <2> DEFINE C == A1 \union A2 \union A3 \union A4
    <2>4. /\ {m \in C : m.name \in {"cover", "stretch"}} = A1
          /\ {m \in C : m.name \in {"q"}} = A2
          /\ {m \in C : m.name \in {"gray", "grayscale"}} = A3
          /\ {m \in C : m.name \in {"blur"}} = A4
        BY <2>1
    <2>5. Carries(mods) = C
        BY <1>2
    <2> HIDE DEF C
    <2> QED  BY <2>3, <2>4, <2>5, Zenon
<1>8. \A i \in DOMAIN mods : Urls!Accepted(mods[i])
    <2> SUFFICES ASSUME NEW m \in Carries(mods) PROVE Urls!Accepted(m)
        BY DEF Carries
    <2>1. \/ m.name \in {"cover", "stretch", "gray", "blur"}
          \/ m.name = "q" /\ m.number.value \in 0 .. 100
        BY <1>7, <1>q, <1>b, <1>g, <1>v, <1>3
    <2> QED  BY <2>1 DEF Urls!Accepted
<1>9. Urls!Mode(s) = spec.mode
    <2>1. CASE P1
        <3>1. {m \in Carries(mods) : m.name \in {"cover", "stretch"}} = {word}
            BY <1>7, <1>s, <2>1
        <3>2. /\ Urls!Of(mods, {"cover", "stretch"}) # {}
              /\ Urls!Latest(mods, {"cover", "stretch"}) = word
            BY <1>1, <1>v, <2>1, <3>1, LatestIsKnown
        <3> QED  BY <1>w, <3>2 DEF Urls!Mode, mods
    <2>2. CASE ~P1
        <3>1. {m \in Carries(mods) : m.name \in {"cover", "stretch"}} = {}
            BY <1>7, <1>s, <2>2
        <3>2. Urls!Of(mods, {"cover", "stretch"}) = {}
            BY <3>1, NoneOf
        <3> QED  BY <1>1, <1>m, <2>2, <3>2 DEF Urls!Mode, mods
    <2> QED  BY <2>1, <2>2
<1>10. spec.quality = IF Urls!Of(mods, {"q"}) = {} THEN 0
                     ELSE Urls!Clamped(1, Urls!Latest(mods, {"q"}).number.value, 100)
    <2>1. CASE P2
        <3>1. {m \in Carries(mods) : m.name \in {"q"}} = {q}
            BY <1>7, <1>s, <2>1
        <3>2. Urls!Of(mods, {"q"}) # {} /\ Urls!Latest(mods, {"q"}) = q
            BY <1>1, <1>q, <3>1, LatestIsKnown
        <3> QED  BY <1>q, <1>6, <2>1, <3>2
    <2>2. CASE ~P2
        <3>1. {m \in Carries(mods) : m.name \in {"q"}} = {}
            BY <1>7, <1>s, <2>2
        <3>2. Urls!Of(mods, {"q"}) = {}
            BY <3>1, NoneOf
        <3> QED  BY <1>6, <2>2, <3>2
    <2> QED  BY <2>1, <2>2
<1>11. spec.blur = IF Urls!Of(mods, {"blur"}) = {} THEN 0
                  ELSE Urls!Clamped(1, Urls!Latest(mods, {"blur"}).number.value, 20)
    <2>1. CASE P4
        <3>1. {m \in Carries(mods) : m.name \in {"blur"}} = {b}
            BY <1>7, <1>s, <2>1
        <3>2. Urls!Of(mods, {"blur"}) # {} /\ Urls!Latest(mods, {"blur"}) = b
            BY <1>1, <1>b, <3>1, LatestIsKnown
        <3> QED  BY <1>b, <1>6, <2>1, <3>2
    <2>2. CASE ~P4
        <3>1. {m \in Carries(mods) : m.name \in {"blur"}} = {}
            BY <1>7, <1>s, <2>2
        <3>2. Urls!Of(mods, {"blur"}) = {}
            BY <3>1, NoneOf
        <3> QED  BY <1>6, <2>2, <3>2
    <2> QED  BY <2>1, <2>2
<1>12. spec.gray = (Urls!Of(mods, {"gray", "grayscale"}) # {})
    <2>1. CASE P3
        <3>1. {m \in Carries(mods) : m.name \in {"gray", "grayscale"}} = {gray}
            BY <1>7, <1>s, <2>1
        <3>2. Urls!Of(mods, {"gray", "grayscale"}) # {}
            BY <1>1, <1>g, <3>1, LatestIsKnown
        <3> QED  BY <1>5, <1>6, <2>1, <3>2, Zenon
    <2>2. CASE ~P3
        <3>1. {m \in Carries(mods) : m.name \in {"gray", "grayscale"}} = {}
            BY <1>7, <1>s, <2>2
        <3>2. Urls!Of(mods, {"gray", "grayscale"}) = {}
            BY <3>1, NoneOf
        <3> QED  BY <1>5, <1>6, <2>2, <3>2, Zenon
    <2> QED  BY <2>1, <2>2
<1>13. Urls!parse_spec(s) =
           [is |-> "spec", w |-> spec.w, h |-> spec.h, format |-> spec.format, mode |-> spec.mode,
            quality |-> spec.quality, gray |-> spec.gray, blur |-> spec.blur]
    <2>1. ~(\/ s.format # "none" /\ Urls!Lower(s.format) \notin Urls!OutputFormats
            \/ s.w.value = 0 /\ s.h.value = 0
            \/ \E i \in DOMAIN s.mods : ~Urls!Accepted(s.mods[i]))
        BY <1>1, <1>3, <1>8, <1>f, Zenon DEF mods
    <2>2. Urls!parse_spec(s) =
           [is |-> "spec", w |-> s.w.value, h |-> s.h.value, format |-> Urls!Lower(s.format),
            mode |-> Urls!Mode(s),
            quality |-> IF Urls!Of(s.mods, {"q"}) = {} THEN 0
                        ELSE Urls!Clamped(1, Urls!Latest(s.mods, {"q"}).number.value, 100),
            gray |-> Urls!Of(s.mods, {"gray", "grayscale"}) # {},
            blur |-> IF Urls!Of(s.mods, {"blur"}) = {} THEN 0
                     ELSE Urls!Clamped(1, Urls!Latest(s.mods, {"blur"}).number.value, 20)]
        BY <2>1, Zenon DEF Urls!parse_spec
    <2>3. mods = s.mods
        BY DEF mods
    <2>4. /\ s.w.value = spec.w /\ s.h.value = spec.h /\ Urls!Lower(s.format) = spec.format
        BY <1>1, <1>f
    <2> QED  BY <2>2, <2>3, <2>4, <1>9, <1>10, <1>11, <1>12, Zenon
<1> QED  BY <1>4, <1>13 DEF Sound, s, mods

-----------------------------------------------------------------------------------
(* What a picture has of what was asked.                                                *)

HasAsked(spec, anchor, made, type) ==
    /\ made.width = spec.w /\ made.height = spec.h /\ made.mode = spec.mode
    /\ made.gray = spec.gray /\ made.blur = spec.blur
    /\ made.anchor = Urls!parse_anchor(anchor)
    /\ spec.quality # 0 /\ made.encoding = "jpeg" => made.quality = spec.quality
    /\ spec.format # "none" => made.encoding = Urls!Encoding(spec.format)
    /\ type \in {made.encoding, "avif"}

(* A processor that is set up for a variant makes it.                                   *)
LEMMA ProcessorHasAsked ==
    ASSUME NEW spec, Sound(spec), NEW anchor, NEW path, FileTypes[path] \in Urls!allowed_formats
    PROVE  LET extension == Urls!OutExtension(spec, path) IN
           HasAsked(spec, anchor, Urls!Processor(spec, anchor, extension),
                    Urls!ContentType(extension))
<1> DEFINE extension == Urls!OutExtension(spec, path)
           made == Urls!Processor(spec, anchor, extension)
<1>1. extension \in {"jpg", "jpeg", "png", "gif", "webp", "avif"}
    BY DEF Sound, Formats, Urls!OutputFormats, Urls!OutExtension, Urls!allowed_formats
<1>2. spec.format # "none" => extension = spec.format
    BY DEF Urls!OutExtension
<1>3. Urls!ContentType(extension) \in {Urls!Encoding(extension), "avif"}
    <2> HIDE DEF extension
    <2> QED  BY <1>1 DEF Urls!ContentType, Urls!Encoding
<1>4. /\ made.width = spec.w /\ made.height = spec.h /\ made.mode = spec.mode
      /\ made.gray = spec.gray /\ made.blur = spec.blur
      /\ made.anchor = Urls!parse_anchor(anchor) /\ made.encoding = Urls!Encoding(extension)
      /\ made.quality = IF Urls!Encoding(extension) \in {"png", "gif"} THEN 0
                        ELSE IF spec.quality = 0 THEN Urls!DefaultQuality ELSE spec.quality
    BY DEF Urls!Processor
<1> HIDE DEF extension, made
<1>5. spec.quality # 0 /\ made.encoding = "jpeg" => made.quality = spec.quality
    BY <1>4
<1> QED  BY <1>2, <1>3, <1>4, <1>5, Zenon DEF HasAsked, extension, made

(* The URLs that are asked for are sensible.                                            *)
LEMMA UrlsAreSensible ==
    ASSUME NEW url \in Urls!First \union Urls!Later
    PROVE  Sensible(url.s) /\ url.path \in Urls!Paths
<1>1. MaxWidth \in Nat
    BY InstanceAssumptions DEF Urls!UrlAssumption
<1>2. \A mods \in [1 .. 3 -> Urls!Words \union Urls!Numbered] : IsListed(mods)
    <2>1. \A m \in Urls!Words \union Urls!Numbered : m.number.value \in Nat
        BY DEF Urls!Words, Urls!Numbered, Urls!Word, Urls!Mod, Urls!Plainly, Urls!Number
    <2> QED  BY <2>1 DEF IsListed
<1>3. \A m : m.number.value \in Nat => IsListed(<<m>>)
    <2> SUFFICES ASSUME NEW m, m.number.value \in Nat PROVE IsListed(<<m>>)
        OBVIOUS
    <2>1. DOMAIN <<m>> = 1 .. 1 /\ <<m>>[1] = m
        OBVIOUS
    <2> DEFINE one == <<m>>
    <2> HIDE DEF one
    <2>2. DOMAIN one = 1 .. 1 /\ one[1] = m
        BY <2>1 DEF one
    <2>3. IsListed(one)
        BY <2>2 DEF IsListed
    <2> QED  BY <2>3 DEF one
<1>4. IsListed(<<>>)
    BY DEF IsListed
<1>5. \A name : IsListed(<<Urls!Word(name)>>)
    BY <1>3 DEF Urls!Word, Urls!Mod, Urls!Plainly, Urls!Number
<1>6. IsListed(<<Urls!Mod("q", Urls!Unit)>>)
    BY <1>3 DEF Urls!Unit, Urls!Mod, Urls!Plainly, Urls!Number
<1>7. /\ Urls!Unit.value \in Nat /\ Urls!Plainly(0).value \in Nat
      /\ Urls!Number(1, FALSE).value \in Nat /\ Urls!Plainly(MaxWidth + 1).value \in Nat
    BY <1>1 DEF Urls!Unit, Urls!Plainly, Urls!Number
<1>8. ASSUME NEW w, NEW h, NEW mods, NEW format, NEW path, NEW anchor, NEW encoded,
             w.value \in Nat, h.value \in Nat, IsListed(mods), path \in Urls!Paths,
             url = Urls!Url(Urls!Spelling(w, h, mods, format), path, anchor, encoded)
      PROVE  Sensible(url.s) /\ url.path \in Urls!Paths
    BY <1>8 DEF Urls!Url, Urls!Spelling, Sensible
<1> DEFINE Threes == [1 .. 3 -> Urls!Words \union Urls!Numbered]
           W == {Urls!Plainly(0), Urls!Unit, Urls!Number(1, FALSE), Urls!Plainly(MaxWidth + 1)}
           H == {Urls!Plainly(0), Urls!Unit}
           F == {"none", "JPG", "png", "bmp"}
           M == {<<>>, <<Urls!Word("cover")>>, <<Urls!Word("grayscale")>>, <<Urls!Mod("q", Urls!Unit)>>}
           A == {"none", "top", "middle"}
           E == BOOLEAN
           M2 == {<<>>, <<Urls!Word("cover")>>, <<Urls!Word("gray")>>}
           A2 == {"none", "top"}
           Square(mods, path, anchor) ==
               Urls!Url(Urls!Spelling(Urls!Unit, Urls!Unit, mods, "none"), path, anchor, FALSE)
           OneUrl(w, h, format, mods, path, anchor, encoded) ==
               Urls!Url(Urls!Spelling(w, h, mods, format), path, anchor, encoded)
<1>9. /\ Urls!First = {Square(mods, path, "top") : mods \in Threes, path \in Urls!Photos}
                         \union {OneUrl(w, h, format, mods, path, anchor, encoded) :
                                    w \in W, h \in H, format \in F, mods \in M,
                                    path \in Urls!Paths, anchor \in A, encoded \in E}
      /\ Urls!Later = {Square(mods, path, anchor) :
                          mods \in M2, path \in Urls!Photos, anchor \in A2}
    BY DEF Urls!First, Urls!Later
<1>10. /\ \A mods \in Threes \union M \union M2 : IsListed(mods)
       /\ \A w \in W \union H : w.value \in Nat
       /\ Urls!Photos \subseteq Urls!Paths
    BY <1>2, <1>4, <1>5, <1>6, <1>7 DEF Urls!Photos
<1>11. ASSUME NEW mods \in Threes \union M2, NEW path \in Urls!Photos, NEW anchor,
              url = Square(mods, path, anchor)
       PROVE  Sensible(url.s) /\ url.path \in Urls!Paths
    BY <1>7, <1>8, <1>10, <1>11
<1>12. ASSUME NEW w \in W, NEW h \in H, NEW format \in F, NEW mods \in M, NEW path \in Urls!Paths,
              NEW anchor \in A, NEW encoded \in E,
              url = OneUrl(w, h, format, mods, path, anchor, encoded)
       PROVE  Sensible(url.s) /\ url.path \in Urls!Paths
    <2>1. w.value \in Nat /\ h.value \in Nat /\ IsListed(mods)
        BY <1>10
    <2> QED  BY <1>8, <1>12, <2>1, Zenon
<1> HIDE DEF Threes, W, H, F, M, A, E, M2, A2, Square, OneUrl
<1>13. CASE url \in {Square(mods, path, "top") : mods \in Threes, path \in Urls!Photos}
    BY <1>11, <1>13
<1>14. CASE url \in {OneUrl(w, h, format, mods, path, anchor, encoded) :
                         w \in W, h \in H, format \in F, mods \in M,
                         path \in Urls!Paths, anchor \in A, encoded \in E}
    <2>1. PICK w \in W, h \in H, format \in F, mods \in M, path \in Urls!Paths, anchor \in A,
               encoded \in E : url = OneUrl(w, h, format, mods, path, anchor, encoded)
        BY <1>14
    <2> QED  BY <1>12, <2>1, Zenon
<1>15. CASE url \in {Square(mods, path, anchor) :
                         mods \in M2, path \in Urls!Photos, anchor \in A2}
    BY <1>11, <1>15
<1> QED  BY <1>9, <1>13, <1>14, <1>15

-----------------------------------------------------------------------------------
(* The invariant of the URLs: a client that was redirected asks for the one spelling of *)
(* what it asked for first, and a file in the cache is what its name says.              *)

Asking ==
    /\ u3 = [asks |-> u3.asks, s |-> u3.s, first |-> u3.first, path |-> u3.path,
             anchor |-> u3.anchor, encoded |-> u3.encoded, redirects |-> u3.redirects,
             count |-> u3.count]
    /\ Sensible(u3.s) /\ u3.path \in Urls!Paths
    /\ Urls!parse_spec(u3.s) = Urls!parse_spec(u3.first)
    /\ \/ u3.redirects = 0
       \/ u3.redirects = 1 /\ Urls!canonical(Urls!parse_spec(u3.s)) = u3.s

IsAsNamed(cached, name) ==
    /\ name[1] \in {Urls!Flat(path) : path \in Urls!Paths}
    /\ cached[name].made = Urls!Processor(Urls!parse_spec(name[2]), name[3], name[4])

UrlsIInv ==
    /\ u3.asks \in BOOLEAN /\ u3.count \in 0 .. MaxUrls
    /\ u3.asks => Asking /\ u4 = Urls!Nothing
    /\ u4.is \in {"nothing", "refused", "picture"}
    /\ u4.is = "picture" =>
          HasAsked(Urls!parse_spec(u3.first), u3.anchor, u4.picture.made, u4.type)
    /\ IsFiniteSet(DOMAIN u2) /\ \A name \in DOMAIN u2 : IsAsNamed(u2, name)
    /\ Urls!VariantsAreBounded

(* The instance counts as the library does.                                             *)
LEMMA SameCount == \A S : Urls!Cardinality(S) = Cardinality(S)
BY DEF Urls!Cardinality, Cardinality

(* The invariant of the URLs says what is to be shown of them.                          *)
LEMMA UrlsAreSound ==
    ASSUME UrlsIInv
    PROVE  Urls!TypeOK /\ Urls!PictureIsAsAsked /\ Urls!VariantsAreBounded
<1>1. Urls!TypeOK
    BY DEF UrlsIInv, Urls!TypeOK, IsAsNamed
<1>2. u3.asks => u3.redirects <= 1
    BY DEF UrlsIInv, Asking
<1>3. Urls!PictureIsAsAsked
    BY <1>2, Zenon DEF UrlsIInv, Urls!PictureIsAsAsked, HasAsked, Urls!Asked
<1> QED  BY <1>1, <1>3 DEF UrlsIInv

(* It holds of an empty cache and a client that has not asked.                          *)
LEMMA UrlsStart ==
    ASSUME Urls!Init
    PROVE  UrlsIInv
<1>1. DOMAIN u2 = {}
    BY DEF Urls!Init
<1>2. u3 = [asks |-> FALSE, count |-> 0] /\ u4 = [is |-> "nothing"]
    BY DEF Urls!Init, Urls!Nothing
<1>3. MaxUrls \in Nat /\ MaxVariants \in Nat
    BY InstanceAssumptions DEF Urls!UrlAssumption
<1>4. Urls!VariantsAreBounded
    <2>1. \A path : Urls!VariantsOf(path) = {}
        BY <1>1 DEF Urls!VariantsOf
    <2>2. Urls!Cardinality({}) = 0
        BY SameCount, FS_EmptySet
    <2> QED  BY <1>3, <2>1, <2>2 DEF Urls!VariantsAreBounded
<1>5. IsFiniteSet(DOMAIN u2)
    BY <1>1, FS_EmptySet
<1> QED  BY <1>1, <1>2, <1>3, <1>4, <1>5 DEF UrlsIInv

(* A client asks for another URL.                                                       *)
LEMMA AskKeeps ==
    ASSUME UrlsIInv, u3.count \in 0 .. MaxUrls - 1,
           NEW url \in Urls!First \union Urls!Later, Urls!Ask(url)
    PROVE  UrlsIInv'
<1>1. /\ u3' = [asks |-> TRUE, s |-> url.s, first |-> url.s, path |-> url.path,
                anchor |-> url.anchor, encoded |-> url.encoded, redirects |-> 0,
                count |-> u3.count + 1]
      /\ u4' = [is |-> "nothing"] /\ UNCHANGED u2
    BY DEF Urls!Ask, Urls!Nothing
<1>2. Sensible(url.s) /\ url.path \in Urls!Paths
    BY UrlsAreSensible
<1>3. u3.count + 1 \in 0 .. MaxUrls
    BY InstanceAssumptions DEF Urls!UrlAssumption
<1>4. Asking' /\ u3'.asks = TRUE /\ u3'.count \in 0 .. MaxUrls
    BY <1>1, <1>2, <1>3 DEF Asking
<1>5. Urls!VariantsAreBounded'
    BY <1>1, Zenon DEF UrlsIInv, Urls!VariantsAreBounded, Urls!VariantsOf
<1>6. IsFiniteSet(DOMAIN u2') /\ \A name \in DOMAIN u2' : IsAsNamed(u2', name)
    BY <1>1 DEF UrlsIInv
<1>7. u4'.is = "nothing" /\ u4' = Urls!Nothing
    BY <1>1 DEF Urls!Nothing
<1> QED  BY <1>4, <1>5, <1>6, <1>7 DEF UrlsIInv

(* An answer leaves the client with what it asked for.                                  *)
LEMMA AnsweredKeeps ==
    ASSUME UrlsIInv, u3.asks, NEW a, Urls!Answered(a), a.is \in {"refused", "picture"},
           a.is = "picture" =>
               HasAsked(Urls!parse_spec(u3.first), u3.anchor, a.picture.made, a.type),
           IsFiniteSet(DOMAIN u2') /\ \A name \in DOMAIN u2' : IsAsNamed(u2', name),
           Urls!VariantsAreBounded'
    PROVE  UrlsIInv'
<1>1. u4' = a /\ u3' = [u3 EXCEPT !.asks = FALSE]
    BY DEF Urls!Answered
<1>2. Asking
    BY DEF UrlsIInv
<1>3. u3'.asks = FALSE /\ u3'.count = u3.count /\ u3'.first = u3.first /\ u3'.anchor = u3.anchor
    BY <1>1, <1>2 DEF Asking
<1>4. u3'.count \in 0 .. MaxUrls
    BY <1>3 DEF UrlsIInv
<1>5. u4'.is = "picture" =>
          HasAsked(Urls!parse_spec(u3'.first), u3'.anchor, u4'.picture.made, u4'.type)
    BY <1>1, <1>3, Zenon
<1>6. u4'.is \in {"nothing", "refused", "picture"}
    BY <1>1
<1> QED  BY <1>3, <1>4, <1>5, <1>6, Zenon DEF UrlsIInv

(* A refusal.                                                                           *)
LEMMA RefuseKeeps ==
    ASSUME UrlsIInv, Urls!Refuse
    PROVE  UrlsIInv'
<1> DEFINE a == [is |-> "refused"]
<1>1. u3.asks /\ Urls!Answered(a) /\ UNCHANGED u2
    BY DEF Urls!Refuse
<1>2. a.is \in {"refused", "picture"} /\ a.is # "picture"
    OBVIOUS
<1>3. Urls!VariantsAreBounded'
    BY <1>1, Zenon DEF UrlsIInv, Urls!VariantsAreBounded, Urls!VariantsOf
<1>4. IsFiniteSet(DOMAIN u2') /\ \A name \in DOMAIN u2' : IsAsNamed(u2', name)
    BY <1>1 DEF UrlsIInv
<1> HIDE DEF a
<1> QED  BY <1>1, <1>2, <1>3, <1>4, AnsweredKeeps, Zenon

(* A request that is not refused can be read.                                           *)
LEMMA WhatIsRead ==
    ASSUME UrlsIInv, u3.asks, Urls!Course # "refuse"
    PROVE  /\ Asking /\ Sound(Urls!Spec0)
           /\ Urls!canonical(Urls!Spec0) # u3.s => Urls!Course = "redirect"
           /\ Urls!canonical(Urls!Spec0) = u3.s =>
                  /\ ~Urls!Refuses
                  /\ Urls!Course = IF Urls!File \in DOMAIN u2 THEN "cached" ELSE "process"
<1>1. Asking
    BY DEF UrlsIInv
<1>2. Urls!Spec0 # Urls!Nothing
    BY DEF Urls!Course
<1>3. Sound(Urls!Spec0)
    BY <1>1, <1>2, ReadIsSound DEF Asking, Urls!Spec0
<1> QED  BY <1>1, <1>2, <1>3, Zenon DEF Urls!Course

(* The client follows a redirect: it asks for the one spelling, which is read as the    *)
(* same variant and is not redirected again.                                            *)
LEMMA RedirectKeeps ==
    ASSUME UrlsIInv, Urls!RedirectTo
    PROVE  UrlsIInv'
<1>1. /\ u3.asks /\ Urls!Course = "redirect"
      /\ u3' = [u3 EXCEPT !.s = Urls!canonical(Urls!Spec0), !.redirects = @ + 1]
      /\ UNCHANGED <<u2, u4>>
    BY DEF Urls!RedirectTo
<1>2. Asking /\ Sound(Urls!Spec0) /\ Urls!canonical(Urls!Spec0) # u3.s
    <2>1. Urls!Course # "refuse" /\ Urls!Course # "cached" /\ Urls!Course # "process"
        BY <1>1
    <2> QED  BY <1>1, <2>1, WhatIsRead, Zenon
<1>3. u3.redirects = 0
    BY <1>2 DEF Asking, Urls!Spec0
<1>4. /\ u3' = [asks |-> u3.asks, s |-> Urls!canonical(Urls!Spec0), first |-> u3.first,
                path |-> u3.path, anchor |-> u3.anchor, encoded |-> u3.encoded,
                redirects |-> 1, count |-> u3.count]
    <2>1. u3' = [u3 EXCEPT !.s = Urls!canonical(Urls!Spec0), !.redirects = 1]
        BY <1>1, <1>3
    <2> QED  BY <1>2, <2>1 DEF Asking
<1>5. /\ Sensible(Urls!canonical(Urls!Spec0))
      /\ Urls!parse_spec(Urls!canonical(Urls!Spec0)) = Urls!Spec0
    BY <1>2, ReadsBack
<1>6. Urls!parse_spec(Urls!canonical(Urls!Spec0)) = Urls!parse_spec(u3.first)
    BY <1>2, <1>5 DEF Asking, Urls!Spec0
<1>7. Asking'
    BY <1>2, <1>4, <1>5, <1>6 DEF Asking
<1>8. u3'.asks = u3.asks /\ u3'.count = u3.count /\ u3'.first = u3.first /\ u3'.anchor = u3.anchor
    BY <1>4
<1>9. Urls!VariantsAreBounded'
    BY <1>1, Zenon DEF UrlsIInv, Urls!VariantsAreBounded, Urls!VariantsOf
<1>10. IsFiniteSet(DOMAIN u2') /\ \A name \in DOMAIN u2' : IsAsNamed(u2', name)
    BY <1>1 DEF UrlsIInv
<1>11. u4' = u4 /\ u4 = Urls!Nothing
    BY <1>1 DEF UrlsIInv
<1>12. u4'.is = "nothing"
    BY <1>11 DEF Urls!Nothing
<1> QED  BY <1>1, <1>7, <1>8, <1>9, <1>10, <1>11, <1>12 DEF UrlsIInv

(* A file that is in the cache, or is made now, is what was asked for.                  *)
LEMMA ShownHasAsked ==
    ASSUME UrlsIInv, u3.asks, Urls!Course \in {"cached", "process"},
           NEW picture, picture.made = Urls!Processor(Urls!Spec0, u3.anchor, Urls!File[4])
    PROVE  /\ Sound(Urls!Spec0) /\ Urls!canonical(Urls!Spec0) = u3.s
           /\ ~Urls!Refuses /\ u3.path \in Urls!Paths
           /\ Urls!Shown(picture).is = "picture"
           /\ HasAsked(Urls!parse_spec(u3.first), u3.anchor, Urls!Shown(picture).picture.made,
                       Urls!Shown(picture).type)
<1>1. /\ Asking /\ Sound(Urls!Spec0) /\ Urls!canonical(Urls!Spec0) = u3.s /\ ~Urls!Refuses
    <2>1. Urls!Course # "refuse" /\ Urls!Course # "redirect"
        OBVIOUS
    <2> QED  BY <2>1, WhatIsRead, Zenon
<1>2. FileTypes[u3.path] \in Urls!allowed_formats
    BY <1>1, Zenon DEF Urls!Refuses
<1>3. Urls!File[4] = Urls!OutExtension(Urls!Spec0, u3.path)
    BY DEF Urls!File, Urls!CachePath
<1>4. HasAsked(Urls!Spec0, u3.anchor, picture.made, Urls!ContentType(Urls!File[4]))
    BY <1>1, <1>2, <1>3, ProcessorHasAsked
<1>5. /\ Urls!Shown(picture).is = "picture" /\ Urls!Shown(picture).picture = picture
      /\ Urls!Shown(picture).type = Urls!ContentType(Urls!File[4])
    BY DEF Urls!Shown
<1>6. Urls!Spec0 = Urls!parse_spec(u3.first)
    BY <1>1 DEF Asking, Urls!Spec0
<1> QED  BY <1>1, <1>4, <1>5, <1>6, Zenon DEF Asking

(* A file in the cache, read by its name, is the variant that is asked for.             *)
LEMMA FromCacheKeeps ==
    ASSUME UrlsIInv, Urls!FromCache
    PROVE  UrlsIInv'
<1> DEFINE picture == u2[Urls!File]
<1>1. /\ u3.asks /\ Urls!Course = "cached" /\ Urls!Answered(Urls!Shown(picture)) /\ UNCHANGED u2
    BY DEF Urls!FromCache
<1>2. /\ Sound(Urls!Spec0) /\ Urls!File \in DOMAIN u2
    <2>1. Urls!Course # "refuse" /\ Urls!Course # "redirect" /\ Urls!Course # "process"
        BY <1>1
    <2> QED  BY <1>1, <2>1, WhatIsRead, Zenon
<1>3. picture.made = Urls!Processor(Urls!Spec0, u3.anchor, Urls!File[4])
    <2>1. IsAsNamed(u2, Urls!File)
        BY <1>2 DEF UrlsIInv
    <2>2. Urls!File[2] = Urls!canonical(Urls!Spec0) /\ Urls!File[3] = u3.anchor
        BY DEF Urls!File, Urls!CachePath
    <2>3. Urls!parse_spec(Urls!canonical(Urls!Spec0)) = Urls!Spec0
        BY <1>2, ReadsBack
    <2> QED  BY <2>1, <2>2, <2>3 DEF IsAsNamed
<1>4. Urls!VariantsAreBounded'
    BY <1>1, Zenon DEF UrlsIInv, Urls!VariantsAreBounded, Urls!VariantsOf
<1>5. IsFiniteSet(DOMAIN u2') /\ \A name \in DOMAIN u2' : IsAsNamed(u2', name)
    BY <1>1 DEF UrlsIInv
<1> HIDE DEF picture
<1>6. /\ Urls!Shown(picture).is = "picture"
      /\ HasAsked(Urls!parse_spec(u3.first), u3.anchor, Urls!Shown(picture).picture.made,
                  Urls!Shown(picture).type)
    BY <1>1, <1>3, ShownHasAsked
<1> QED  BY <1>1, <1>4, <1>5, <1>6, AnsweredKeeps

(* A file that is made is what its name says, and there was room for it.                *)
LEMMA MakingKeeps ==
    ASSUME UrlsIInv, Urls!Process
    PROVE  UrlsIInv'
<1> DEFINE file == Urls!File
           made == Urls!Made
<1>1. /\ u3.asks /\ Urls!Course = "process" /\ Urls!Answered(Urls!Shown(made))
      /\ u2' = [name \in DOMAIN u2 \union {file} |-> IF name = file THEN made ELSE u2[name]]
    BY DEF Urls!Process
<1>2. made.made = Urls!Processor(Urls!Spec0, u3.anchor, file[4])
    BY DEF Urls!Made, Urls!Picture
<1>3. /\ file[1] = Urls!Flat(u3.path) /\ file[2] = Urls!canonical(Urls!Spec0)
      /\ file[3] = u3.anchor
    BY DEF Urls!File, Urls!CachePath
<1>4. /\ Sound(Urls!Spec0) /\ ~Urls!Refuses /\ u3.path \in Urls!Paths
      /\ Urls!Shown(made).is = "picture"
      /\ HasAsked(Urls!parse_spec(u3.first), u3.anchor, Urls!Shown(made).picture.made,
                  Urls!Shown(made).type)
    BY <1>1, <1>2, ShownHasAsked
<1>5. file \notin DOMAIN u2
    <2>1. Urls!Course # "refuse" /\ Urls!Course # "redirect" /\ Urls!Course # "cached"
        BY <1>1
    <2> QED  BY <1>1, <2>1, WhatIsRead, Zenon
<1>6. MaxVariants \in Nat
    BY InstanceAssumptions DEF Urls!UrlAssumption
<1>7. IsFiniteSet(DOMAIN u2) /\ \A path : IsFiniteSet(Urls!VariantsOf(path))
    <2>1. IsFiniteSet(DOMAIN u2)
        BY DEF UrlsIInv
    <2>2. \A path : Urls!VariantsOf(path) \subseteq DOMAIN u2
        BY DEF Urls!VariantsOf
    <2> QED  BY <2>1, <2>2, FS_Subset
<1>8. Cardinality(Urls!VariantsOf(u3.path)) < MaxVariants
    <2>1. ~(Urls!Cardinality(Urls!VariantsOf(u3.path)) >= MaxVariants)
        BY <1>4, <1>5, Zenon DEF Urls!Refuses
    <2>2. Cardinality(Urls!VariantsOf(u3.path)) \in Nat
        BY <1>7, FS_CardinalityType
    <2> QED  BY <1>6, <2>1, <2>2, SameCount
<1> HIDE DEF file, made
<1>9. DOMAIN u2' = DOMAIN u2 \union {file} /\ u2'[file] = made
      /\ \A name \in DOMAIN u2 : u2'[name] = u2[name]
    BY <1>1, <1>5
<1>10. IsFiniteSet(DOMAIN u2')
    BY <1>7, <1>9, FS_AddElement
<1>11. IsAsNamed(u2', file)
    <2>1. Urls!parse_spec(file[2]) = Urls!Spec0
        BY <1>3, <1>4, ReadsBack
    <2> QED  BY <1>2, <1>3, <1>4, <1>9, <2>1 DEF IsAsNamed
<1>12. \A name \in DOMAIN u2' : IsAsNamed(u2', name)
    <2>1. \A name \in DOMAIN u2 : IsAsNamed(u2', name)
        BY <1>9 DEF UrlsIInv, IsAsNamed
    <2> QED  BY <1>9, <1>11, <2>1
<1>13. Urls!VariantsAreBounded'
    <2> SUFFICES ASSUME NEW path \in Urls!Paths
                 PROVE  Cardinality(Urls!VariantsOf(path)') <= MaxVariants
        BY SameCount DEF Urls!VariantsAreBounded
    <2>1. Cardinality(Urls!VariantsOf(path)) <= MaxVariants
        BY SameCount DEF UrlsIInv, Urls!VariantsAreBounded
    <2>2. CASE Urls!Flat(path) # file[1]
        <3>1. Urls!VariantsOf(path)' = Urls!VariantsOf(path)
            BY <1>9, <2>2 DEF Urls!VariantsOf
        <3> QED  BY <2>1, <3>1
    <2>3. CASE Urls!Flat(path) = file[1]
        <3>1. Urls!VariantsOf(path)' = Urls!VariantsOf(u3.path) \union {file}
            BY <1>3, <1>9, <2>3 DEF Urls!VariantsOf
        <3>2. /\ Cardinality(Urls!VariantsOf(path)') <= Cardinality(Urls!VariantsOf(u3.path)) + 1
              /\ Cardinality(Urls!VariantsOf(path)') \in Nat
              /\ Cardinality(Urls!VariantsOf(u3.path)) \in Nat
            <4> DEFINE V == Urls!VariantsOf(u3.path)
            <4>1. IsFiniteSet(V)
                BY <1>7
            <4> HIDE DEF V
            <4>2. Cardinality(V \union {file}) <= Cardinality(V) + 1
                  /\ Cardinality(V \union {file}) \in Nat /\ Cardinality(V) \in Nat
                <5>1. Cardinality(V) \in Nat
                    BY <4>1, FS_CardinalityType
                <5>2. Cardinality(V \union {file}) = Cardinality(V)
                         \/ Cardinality(V \union {file}) = Cardinality(V) + 1
                    BY <4>1, FS_AddElement
                <5> QED  BY <5>1, <5>2
            <4> QED  BY <3>1, <4>2 DEF V
        <3> QED  BY <1>6, <1>8, <3>2
    <2> QED  BY <2>2, <2>3
<1> QED  BY <1>1, <1>4, <1>10, <1>12, <1>13, AnsweredKeeps

(* Every step keeps the invariant of the URLs.                                          *)
LEMMA UrlsStep ==
    ASSUME UrlsIInv, Urls!Next
    PROVE  UrlsIInv'
<1>1. MaxUrls \in Nat \ {0}
    BY InstanceAssumptions DEF Urls!UrlAssumption
<1>2. CASE u3.count = 0 /\ \E url \in Urls!First : Urls!Ask(url)
    <2>1. u3.count \in 0 .. MaxUrls - 1
        BY <1>1, <1>2
    <2> QED  BY <1>2, <2>1, AskKeeps
<1>3. CASE u3.count \in 1 .. MaxUrls - 1 /\ \E url \in Urls!Later : Urls!Ask(url)
    <2>1. u3.count \in 0 .. MaxUrls - 1
        BY <1>1, <1>3
    <2> QED  BY <1>3, <2>1, AskKeeps
<1> QED  BY <1>2, <1>3, RefuseKeeps, RedirectKeeps, FromCacheKeeps, MakingKeeps, Zenon
            DEF Urls!Next

-----------------------------------------------------------------------------------
(* The sizes of pictures. Quotients first: rounded either way they stay below a whole    *)
(* number that the fraction is not above, raised they reach one that it is not below.    *)
LEMMA Division ==
    ASSUME NEW m \in Nat, NEW n \in Nat \ {0}
    PROVE  /\ m \div n \in Nat /\ m % n \in 0 .. n - 1
           /\ m = n * (m \div n) + (m % n)
OBVIOUS

(* A quotient stays below what its fraction stays below.                                *)
LEMMA QuotientBelow ==
    ASSUME NEW m \in Nat, NEW n \in Nat \ {0}, NEW b \in Nat, m < (b + 1) * n
    PROVE  m \div n \in 0 .. b
OBVIOUS

(* Rounded either way, it does too; of nothing, there is nothing to round.              *)
LEMMA RoundedBelow ==
    ASSUME NEW m \in Nat, NEW n \in Nat, NEW b \in Nat, m <= b * n,
           NEW q \in Sizes!Rounded(m, n)
    PROVE  q \in 0 .. b
<1>1. CASE m = 0
    BY <1>1 DEF Sizes!Rounded
<1>2. CASE m # 0
    <2>1. n \in Nat \ {0}
        BY <1>2
    <2>2. m \div n \in 0 .. b
        BY <2>1, QuotientBelow
    <2>3. 2 * m + n < (b + 1) * (2 * n)
        BY <2>1
    <2>4. (2 * m + n) \div (2 * n) \in 0 .. b
        BY <2>1, <2>3, QuotientBelow
    <2> QED  BY <1>2, <2>1, <2>2, <2>4 DEF Sizes!Rounded
<1> QED  BY <1>1, <1>2

(* Raised, it reaches a whole number that the fraction is not below.                    *)
LEMMA RaisedAbove ==
    ASSUME NEW m \in Nat, NEW n \in Nat \ {0}, NEW b \in Nat, b * n <= m,
           NEW q \in Sizes!Raised(m, n)
    PROVE  q \in Nat /\ q >= b
<1>1. CASE m = 0
    <2>1. b = 0
        BY <1>1
    <2> QED  BY <1>1, <2>1 DEF Sizes!Raised
<1>2. CASE m # 0
    <2>1. /\ m \div n \in Nat /\ m % n \in 0 .. n - 1
          /\ m = n * (m \div n) + (m % n)
        BY Division
    <2>2. b <= m \div n \/ (b = m \div n + 1 /\ m % n # 0)
        BY <2>1
    <2> QED  BY <1>2, <2>1, <2>2 DEF Sizes!Raised
<1> QED  BY <1>1, <1>2

(* Whatever is divided, the result is a side.                                           *)
LEMMA QuotientsAreSides ==
    ASSUME Sizes!SizesAssumption, NEW m \in Nat, NEW n \in Nat
    PROVE  Sizes!Rounded(m, n) \subseteq Nat /\ Sizes!Raised(m, n) \subseteq Nat
<1>1. MaxSide \in Nat
    BY DEF Sizes!SizesAssumption
<1>2. CASE n = 0
    BY <1>1, <1>2 DEF Sizes!Rounded, Sizes!Raised
<1>3. CASE n # 0
    <2>1. m <= m * n
        BY <1>3
    <2>2. \A q \in Sizes!Rounded(m, n) : q \in Nat
        BY <2>1, RoundedBelow
    <2>3. 0 * n <= m /\ n \in Nat \ {0}
        BY <1>3
    <2>4. \A q \in Sizes!Raised(m, n) : q \in Nat
        BY <2>3, RaisedAbove
    <2> QED  BY <2>2, <2>4
<1> QED  BY <1>2, <1>3

-----------------------------------------------------------------------------------

Modes == {"fit", "cover", "stretch", "width", "height"}

(* What a size that comes out of a resize is, of a picture of w by h and a box of tw by *)
(* th: of a picture and a box that are not empty, all that is promised.                 *)
Sized(next, w, h, tw, th) ==
    /\ next.step = "rotate" /\ next.w \in Nat /\ next.h \in Nat
    /\ next.stamp = <<>>
    /\ tw <= w /\ th <= h => next.w <= Sizes!Larger(w, 1) /\ next.h <= Sizes!Larger(h, 1)
    /\ w > 0 /\ h > 0 =>
           /\ tw > 0 /\ th > 0 => next.w > 0 /\ next.h > 0
           /\ u2.mode \in {"cover", "stretch"} => next.w = tw /\ next.h = th
           /\ u2.mode = "fit" /\ tw > 0 /\ th > 0 =>
                  /\ next.w <= tw /\ next.h <= th
                  /\ next.w = tw \/ next.h = th

(* A side in proportion to the other is within a bound that the exact quotient meets.   *)
LEMMA ScaledBelow ==
    ASSUME NEW w \in Nat, NEW h \in Nat, NEW tw \in Nat, NEW b \in Nat,
           h * tw <= b * w, NEW n \in Sizes!Rounded(h * tw, w)
    PROVE  n \in 0 .. b
BY h * tw \in Nat, RoundedBelow

(* What is scaled to fit a box fits it, and fills one of its sides.                     *)
LEMMA FitSized ==
    ASSUME NEW w \in Nat, NEW h \in Nat, NEW tw \in Nat, NEW th \in Nat,
           u2.mode = "fit", NEW next \in Sizes!fit(w, h, tw, th)
    PROVE  Sized(next, w, h, tw, th)
<1>1. CASE tw = w /\ th = h
    <2>1. next = Sizes!At("rotate", w, h)
        BY <1>1 DEF Sizes!fit
    <2> QED  BY <1>1, <2>1 DEF Sized, Sizes!At, Sizes!Larger
<1> DEFINE own(side, target) == Sizes!Stretched(side, target)
<1>2. \A side \in Nat, target \in Nat :
          /\ own(side, target) \in Nat \ {0}
          /\ target <= side => own(side, target) <= Sizes!Larger(side, 1)
          /\ side > 0 /\ target > 0 => own(side, target) = target
    BY DEF Sizes!Stretched, Sizes!Larger
<1>3. ASSUME NEW n \in Nat, NEW b \in Nat, n <= b
      PROVE  /\ Sizes!Larger(n, 1) \in Nat \ {0}
             /\ b > 0 => Sizes!Larger(n, 1) <= b
    BY <1>3 DEF Sizes!Larger
<1>4. ASSUME NEW n \in Nat, NEW b \in Nat, n <= b
      PROVE  Sizes!Larger(n, 1) <= Sizes!Larger(b, 1)
    BY <1>4 DEF Sizes!Larger
<1>5. CASE ~(tw = w /\ th = h) /\ ~Sizes!NoRatio(w, tw) /\ tw * h <= th * w
    <2>1. PICK n \in Sizes!Rounded(h * tw, w) :
              next = Sizes!At("rotate", own(w, tw), Sizes!Larger(n, 1))
        BY <1>5 DEF Sizes!fit
    <2>2. h * tw <= th * w
        BY <1>5
    <2>3. n \in 0 .. th
        BY <2>2, ScaledBelow
    <2>4. next.step = "rotate" /\ next.stamp = <<>> /\ next.w = own(w, tw) /\ next.h = Sizes!Larger(n, 1)
        BY <2>1 DEF Sizes!At
    <2>5. th <= h => n <= h
        BY <2>3
    <2> HIDE DEF own
    <2>6. /\ next.w \in Nat \ {0}
          /\ tw <= w => next.w <= Sizes!Larger(w, 1)
          /\ w > 0 /\ tw > 0 => next.w = tw
        BY <1>2, <2>4
    <2>7. /\ next.h \in Nat \ {0}
          /\ th <= h => next.h <= Sizes!Larger(h, 1)
          /\ th > 0 => next.h <= th
        BY <1>3, <1>4, <2>3, <2>4, <2>5
    <2> QED  BY <1>5, <2>4, <2>6, <2>7, u2.mode = "fit" DEF Sized
<1>6. CASE ~(tw = w /\ th = h) /\ ~(~Sizes!NoRatio(w, tw) /\ tw * h <= th * w)
    <2>1. PICK n \in Sizes!Rounded(w * th, h) :
              next = Sizes!At("rotate", Sizes!Larger(n, 1), own(h, th))
        BY <1>6 DEF Sizes!fit
    <2>2. w * th <= tw * h
        BY <1>6 DEF Sizes!NoRatio
    <2>3. n \in 0 .. tw
        BY <2>2, ScaledBelow
    <2>4. next.step = "rotate" /\ next.stamp = <<>> /\ next.h = own(h, th) /\ next.w = Sizes!Larger(n, 1)
        BY <2>1 DEF Sizes!At
    <2>5. tw <= w => n <= w
        BY <2>3
    <2> HIDE DEF own
    <2>6. /\ next.h \in Nat \ {0}
          /\ th <= h => next.h <= Sizes!Larger(h, 1)
          /\ h > 0 /\ th > 0 => next.h = th
        BY <1>2, <2>4
    <2>7. /\ next.w \in Nat \ {0}
          /\ tw <= w => next.w <= Sizes!Larger(w, 1)
          /\ tw > 0 => next.w <= tw
        BY <1>3, <1>4, <2>3, <2>4, <2>5
    <2> QED  BY <1>6, <2>4, <2>6, <2>7, u2.mode = "fit" DEF Sized
<1> QED  BY <1>1, <1>5, <1>6

(* What is scaled to a width or a height has it, and keeps the limits of the other.     *)
LEMMA OneSideSized ==
    ASSUME Sizes!SizesAssumption, NEW w \in Nat, NEW h \in Nat, NEW tw \in Nat, NEW th \in Nat
    PROVE  /\ u2.mode = "width" =>
                  \A n \in Sizes!Rounded(h * tw, w) :
                      Sized(Sizes!At("rotate", tw, Sizes!Larger(n, 1)), w, h, tw, th)
           /\ u2.mode = "height" =>
                  \A n \in Sizes!Rounded(w * th, h) :
                      Sized(Sizes!At("rotate", Sizes!Larger(n, 1), th), w, h, tw, th)
<1>1. ASSUME u2.mode = "width", NEW n \in Sizes!Rounded(h * tw, w)
      PROVE  Sized(Sizes!At("rotate", tw, Sizes!Larger(n, 1)), w, h, tw, th)
    <2>1. n \in Nat
        BY QuotientsAreSides, h * tw \in Nat
    <2>2. tw <= w => n <= h
        BY ScaledBelow, tw <= w => h * tw <= h * w
    <2>3. /\ Sizes!Larger(n, 1) \in Nat \ {0}
          /\ tw <= w => Sizes!Larger(n, 1) <= Sizes!Larger(h, 1) /\ tw <= Sizes!Larger(w, 1)
        BY <2>1, <2>2 DEF Sizes!Larger
    <2> QED  BY <1>1, <2>3 DEF Sized, Sizes!At
<1>2. ASSUME u2.mode = "height", NEW n \in Sizes!Rounded(w * th, h)
      PROVE  Sized(Sizes!At("rotate", Sizes!Larger(n, 1), th), w, h, tw, th)
    <2>1. n \in Nat
        BY QuotientsAreSides, w * th \in Nat
    <2>2. th <= h => n <= w
        BY ScaledBelow, th <= h => w * th <= w * h
    <2>3. /\ Sizes!Larger(n, 1) \in Nat \ {0}
          /\ th <= h => Sizes!Larger(n, 1) <= Sizes!Larger(w, 1) /\ th <= Sizes!Larger(h, 1)
        BY <2>1, <2>2 DEF Sizes!Larger
    <2> QED  BY <1>2, <2>3 DEF Sized, Sizes!At
<1> QED  BY <1>1, <1>2

(* What is scaled over a box can be cut to it.                                          *)
LEMMA CoverSized ==
    ASSUME Sizes!SizesAssumption, NEW w \in Nat, NEW h \in Nat, NEW tw \in Nat, NEW th \in Nat,
           u2.mode = "cover", NEW next \in Sizes!cover(w, h, tw, th)
    PROVE  Sized(next, w, h, tw, th)
<1>1. ASSUME NEW sw \in Nat, NEW sh \in Nat, w > 0 /\ h > 0 => sw >= tw /\ sh >= th
      PROVE  Sized(Sizes!Clipped(sw, sh, tw, th), w, h, tw, th)
    BY <1>1 DEF Sized, Sizes!Clipped, Sizes!At, Sizes!Smaller, Sizes!Larger
<1>0. /\ w * tw \in Nat /\ h * tw \in Nat /\ w * th \in Nat /\ h * th \in Nat
    OBVIOUS
<1>2. CASE ~Sizes!NoRatio(w, tw) /\ tw * h >= th * w
    <2>1. PICK sw \in Sizes!Raised(w * tw, w), sh \in Sizes!Raised(h * tw, w) :
              next = Sizes!Clipped(sw, sh, tw, th)
        BY <1>2 DEF Sizes!cover
    <2>2. sw \in Nat /\ sh \in Nat
        BY <1>0, QuotientsAreSides
    <2>3. w > 0 => sw >= tw
        BY <1>0, RaisedAbove, tw * w <= w * tw
    <2>4. w > 0 => sh >= th
        BY <1>0, <1>2, RaisedAbove, th * w <= h * tw
    <2> QED  BY <1>1, <2>1, <2>2, <2>3, <2>4
<1>3. CASE ~(~Sizes!NoRatio(w, tw) /\ tw * h >= th * w)
    <2>1. PICK sw \in Sizes!Raised(w * th, h), sh \in Sizes!Raised(h * th, h) :
              next = Sizes!Clipped(sw, sh, tw, th)
        BY <1>3 DEF Sizes!cover
    <2>2. sw \in Nat /\ sh \in Nat
        BY <1>0, QuotientsAreSides
    <2>3. w > 0 => tw * h <= w * th
        BY <1>3 DEF Sizes!NoRatio
    <2>4. w > 0 /\ h > 0 => sw >= tw
        BY <1>0, <2>3, RaisedAbove
    <2>5. h > 0 => sh >= th
        BY <1>0, RaisedAbove, th * h <= h * th
    <2> QED  BY <1>1, <2>1, <2>2, <2>4, <2>5
<1> QED  BY <1>2, <1>3

(* A resize in any mode has the size that the mode asks for.                            *)
LEMMA ResizeSized ==
    ASSUME Sizes!SizesAssumption, NEW w \in Nat, NEW h \in Nat, NEW tw \in Nat, NEW th \in Nat,
           u2.mode \in Modes, NEW next \in Sizes!apply_resize(w, h, tw, th)
    PROVE  Sized(next, w, h, tw, th)
<1>1. CASE u2.mode = "fit"
    BY <1>1, FitSized DEF Sizes!apply_resize
<1>2. CASE u2.mode = "cover"
    BY <1>2, CoverSized DEF Sizes!apply_resize
<1>3. CASE u2.mode = "stretch"
    <2>1. next = Sizes!At("rotate", tw, th)
        BY <1>3 DEF Sizes!apply_resize
    <2> QED  BY <1>3, <2>1 DEF Sized, Sizes!At, Sizes!Larger
<1>4. CASE u2.mode \in {"width", "height"}
    BY <1>4, OneSideSized DEF Sizes!apply_resize
<1> QED  BY <1>1, <1>2, <1>3, <1>4 DEF Modes

-----------------------------------------------------------------------------------
(* A picture in the pipeline: loaded, cut to the region, resized, turned.               *)

Anchors == {"top-left", "center", "bottom-right"}
Sides == Nat \union {Sizes!Unset}

Builders == [width : Sides, height : Sides, mode : Modes, anchor : Anchors,
             upscale : BOOLEAN, keep : BOOLEAN, region : {Sizes!Uncut} \union Regions,
             quarter : BOOLEAN, watermark : 0 .. 100, position : Anchors]

Steps == {"none", "refused", "crop", "resize", "rotate", "watermark", "done"}

(* What NeverEnlarged and BoxIsFilled say of a size, before the turn.                   *)
Whole(w, h) == /\ w \in Nat /\ h \in Nat
               /\ ~(Sizes!EmptyBox \/ Sizes!EmptyRegion) => w >= 1 /\ h >= 1
               /\ ~u2.upscale => w <= u4.w /\ h <= u4.h
               /\ Sizes!Boxed /\ ~Sizes!EmptyRegion =>
                      /\ u2.mode \in {"cover", "stretch"} => w = u2.width /\ h = u2.height
                      /\ u2.mode = "fit" /\ ~Sizes!EmptyBox =>
                             /\ w <= u2.width /\ h <= u2.height
                             /\ w = u2.width \/ h = u2.height

SizesIInv ==
    /\ u1 \in 0 .. MaxCalls
    /\ u2 \in Builders
    /\ u3.step \in Steps /\ u3.w \in Nat /\ u3.h \in Nat
    /\ u3.step # "none" => u4.w \in Nat \ {0} /\ u4.h \in Nat \ {0}
    /\ u3.step = "crop" => u3.w = u4.w /\ u3.h = u4.h
    /\ u3.step = "resize" => /\ u3.w = Sizes!Base[1] /\ u3.h = Sizes!Base[2]
                             /\ u3.x + u3.w <= u4.w /\ u3.y + u3.h <= u4.h
    /\ Sizes!Placed => Whole(Sizes!Upright[1], Sizes!Upright[2])
    /\ u3.step # "done" => u3.stamp = <<>>
    /\ Sizes!CutsAreInside /\ Sizes!StampIsWhereAsked

(* A region that is clamped to the picture lies in it.                                  *)
LEMMA CropInside ==
    ASSUME Sizes!SizesAssumption, NEW region \in Regions,
           NEW p, p.w \in Nat \ {0}, p.h \in Nat \ {0}
    PROVE  LET c == Sizes!Cropped(region, p) IN
           /\ c.step = "resize" /\ c.stamp = <<>>
           /\ c.w \in Nat /\ c.h \in Nat /\ c.x \in Nat /\ c.y \in Nat
           /\ 0 \notin {region[3], region[4]} => c.w > 0 /\ c.h > 0
           /\ c.x + c.w <= p.w /\ c.y + c.h <= p.h
<1>1. /\ region[1] \in Nat /\ region[2] \in Nat
      /\ region[3] \in Nat /\ region[4] \in Nat
    BY DEF Sizes!SizesAssumption
<1> DEFINE x == Sizes!Smaller(region[1], p.w - 1)
           y == Sizes!Smaller(region[2], p.h - 1)
<1>2. x \in 0 .. p.w - 1 /\ y \in 0 .. p.h - 1
    BY <1>1 DEF Sizes!Smaller
<1>3. /\ Sizes!Smaller(region[3], p.w - x) \in 0 .. p.w - x
      /\ Sizes!Smaller(region[4], p.h - y) \in 0 .. p.h - y
      /\ 0 \notin {region[3], region[4]} => /\ Sizes!Smaller(region[3], p.w - x) > 0
                                            /\ Sizes!Smaller(region[4], p.h - y) > 0
    BY <1>1, <1>2 DEF Sizes!Smaller
<1> HIDE DEF x, y
<1>4. Sizes!Cropped(region, p) =
          [Sizes!At("resize", Sizes!Smaller(region[3], p.w - x), Sizes!Smaller(region[4], p.h - y))
              EXCEPT !.x = x, !.y = y]
    BY DEF Sizes!Cropped, x, y
<1> QED  BY <1>2, <1>3, <1>4 DEF Sizes!At

(* What is to be resized is not larger than the source, and has a pixel if the region has. *)
LEMMA BaseInside ==
    ASSUME Sizes!SizesAssumption, u2 \in Builders, u4.w \in Nat \ {0}, u4.h \in Nat \ {0}
    PROVE  /\ Sizes!Base[1] \in 0 .. u4.w /\ Sizes!Base[2] \in 0 .. u4.h
           /\ ~Sizes!EmptyRegion => Sizes!Base[1] > 0 /\ Sizes!Base[2] > 0
<1>1. CASE u2.region = Sizes!Uncut
    BY <1>1 DEF Sizes!Base
<1>2. CASE u2.region # Sizes!Uncut
    <2>1. u2.region \in Regions
        BY <1>2 DEF Builders
    <2> DEFINE c == Sizes!Cropped(u2.region, u4)
    <2>2. c.w \in 0 .. u4.w /\ c.h \in 0 .. u4.h
        BY <2>1, CropInside
    <2>3. 0 \notin {u2.region[3], u2.region[4]} => c.w > 0 /\ c.h > 0
        BY <2>1, CropInside
    <2>4. Sizes!Base = <<c.w, c.h>>
        BY <1>2 DEF Sizes!Base
    <2> HIDE DEF c
    <2> QED  BY <1>2, <2>2, <2>3, <2>4 DEF Sizes!EmptyRegion
<1> QED  BY <1>1, <1>2

(* The invariant of the sizes holds of a processor nobody has called.                   *)
LEMMA SizesStart ==
    ASSUME Sizes!SizesAssumption, Sizes!Init
    PROVE  SizesIInv
<1>1. u2 \in Builders
    BY DEF Sizes!Init, Builders, Modes, Sides, Anchors
<1> QED  BY <1>1 DEF Sizes!Init, SizesIInv, Sizes!At, Steps, Sizes!Placed, Sizes!CutsAreInside,
                    Sizes!StampIsWhereAsked, Sizes!SizesAssumption

(* A call finds no picture in the pipeline.                                             *)
LEMMA CallKeeps ==
    ASSUME Sizes!SizesAssumption, SizesIInv, NEW change \in Builders, Sizes!Call(change)
    PROVE  SizesIInv'
<1>1. /\ u3.step = "none" /\ UNCHANGED <<u3, u4>> /\ u2' \in Builders /\ u1' \in 0 .. MaxCalls
    BY DEF Sizes!Call, SizesIInv, Sizes!SizesAssumption
<1> QED  BY <1>1 DEF SizesIInv, Sizes!Placed, Sizes!CutsAreInside, Sizes!StampIsWhereAsked

(* A call on the processor changes its fields and no picture.                           *)
LEMMA CallsKeep ==
    ASSUME Sizes!SizesAssumption, SizesIInv,
           \/ \E box \in Boxes : Sizes!resize(box) \/ Sizes!width(box[1]) \/ Sizes!height(box[2])
           \/ \E m \in {"fit", "cover", "stretch", "width", "height"} : Sizes!mode(m)
           \/ \E a \in {"top-left", "center", "bottom-right"} : Sizes!anchor(a)
           \/ Sizes!keep_orientation
           \/ \E region \in Regions : Sizes!crop(region)
           \/ \E flag \in BOOLEAN : Sizes!rotate(flag) \/ Sizes!upscale(flag)
           \/ \E percent \in {0, 50}, a \in {"top-left", "center", "bottom-right"} :
                  Sizes!watermark(percent, a)
    PROVE  SizesIInv'
<1>0. u2 \in Builders
    BY DEF SizesIInv
<1>1. ASSUME NEW box \in Boxes, Sizes!resize(box) \/ Sizes!width(box[1]) \/ Sizes!height(box[2])
      PROVE  \E change \in Builders : Sizes!Call(change)
    <2>1. box[1] \in Nat /\ box[2] \in Nat
        BY DEF Sizes!SizesAssumption
    <2> QED  BY <1>0, <1>1, <2>1 DEF Sizes!resize, Sizes!width, Sizes!height, Builders, Modes, Sides
<1>2. ASSUME NEW m \in {"fit", "cover", "stretch", "width", "height"}, Sizes!mode(m)
      PROVE  \E change \in Builders : Sizes!Call(change)
    BY <1>0, <1>2 DEF Sizes!mode, Builders, Modes
<1>3. ASSUME NEW a \in {"top-left", "center", "bottom-right"}, Sizes!anchor(a)
      PROVE  \E change \in Builders : Sizes!Call(change)
    BY <1>0, <1>3 DEF Sizes!anchor, Builders, Anchors
<1>4. ASSUME Sizes!keep_orientation
      PROVE  \E change \in Builders : Sizes!Call(change)
    BY <1>0, <1>4 DEF Sizes!keep_orientation, Builders
<1>5. ASSUME NEW region \in Regions, Sizes!crop(region)
      PROVE  \E change \in Builders : Sizes!Call(change)
    BY <1>0, <1>5 DEF Sizes!crop, Builders
<1>6. ASSUME NEW flag \in BOOLEAN, Sizes!rotate(flag) \/ Sizes!upscale(flag)
      PROVE  \E change \in Builders : Sizes!Call(change)
    BY <1>0, <1>6 DEF Sizes!rotate, Sizes!upscale, Builders
<1>7. ASSUME NEW percent \in {0, 50}, NEW a \in Anchors, Sizes!watermark(percent, a)
      PROVE  \E change \in Builders : Sizes!Call(change)
    <2>1. Sizes!Smaller(Sizes!Larger(percent, 1), 100) \in 0 .. 100
        BY DEF Sizes!Smaller, Sizes!Larger
    <2> QED  BY <1>0, <1>7, <2>1 DEF Sizes!watermark, Builders
<1> QED  BY <1>1, <1>2, <1>3, <1>4, <1>5, <1>6, <1>7, CallKeeps DEF Anchors

(* A picture is decoded, or refused for its size.                                       *)
LEMMA LoadKeeps ==
    ASSUME Sizes!SizesAssumption, SizesIInv,
           NEW original \in Sources, NEW sideways \in BOOLEAN, Sizes!decode_safe(original, sideways)
    PROVE  SizesIInv'
<1>1. original[1] \in Nat \ {0} /\ original[2] \in Nat \ {0}
    BY DEF Sizes!SizesAssumption
<1>2. PICK w \in Nat \ {0}, h \in Nat \ {0}, step \in {"refused", "crop"} :
          u3' = Sizes!At(step, w, h) /\ u4' = Sizes!At("loaded", w, h)
    BY <1>1 DEF Sizes!decode_safe
<1>3. u1' = u1 /\ u2' = u2
    BY DEF Sizes!decode_safe
<1>4. /\ u3'.step = step /\ u3'.w = w /\ u3'.h = h /\ u3'.stamp = <<>>
      /\ u4'.w = w /\ u4'.h = h
    BY <1>2 DEF Sizes!At
<1> QED  BY <1>3, <1>4 DEF SizesIInv, Steps, Sizes!Placed, Sizes!CutsAreInside, Sizes!StampIsWhereAsked

(* The crop.                                                                            *)
LEMMA CropKeeps ==
    ASSUME Sizes!SizesAssumption, SizesIInv, Sizes!Crop
    PROVE  SizesIInv'
<1>1. /\ UNCHANGED <<u1, u2, u4>> /\ u3.w = u4.w /\ u3.h = u4.h
      /\ u4.w \in Nat \ {0} /\ u4.h \in Nat \ {0} /\ u2 \in Builders
    BY DEF Sizes!Crop, Sizes!Goes, SizesIInv
<1>2. Sizes!Base' = Sizes!Base
    BY <1>1 DEF Sizes!Base, Sizes!Cropped
<1>3. /\ u3'.step = "resize" /\ u3'.stamp = <<>> /\ u3'.w \in Nat /\ u3'.h \in Nat
      /\ u3'.w = Sizes!Base[1] /\ u3'.h = Sizes!Base[2]
      /\ u3'.x + u3'.w <= u4.w /\ u3'.y + u3'.h <= u4.h
    <2>1. CASE u2.region = Sizes!Uncut
        <3>1. u3' = Sizes!At("resize", u4.w, u4.h)
            BY <1>1, <2>1 DEF Sizes!Crop, Sizes!Goes
        <3> QED  BY <1>1, <2>1, <3>1 DEF Sizes!At, Sizes!Base
    <2>2. CASE u2.region # Sizes!Uncut
        <3>1. u2.region \in Regions
            BY <1>1, <2>2 DEF Builders
        <3>2. u3' = Sizes!Cropped(u2.region, u3)
            BY <2>2 DEF Sizes!Crop, Sizes!Goes
        <3>3. Sizes!Cropped(u2.region, u3) = Sizes!Cropped(u2.region, u4)
            BY <1>1 DEF Sizes!Cropped
        <3> DEFINE c == Sizes!Cropped(u2.region, u4)
        <3>4. /\ c.step = "resize" /\ c.stamp = <<>>
              /\ c.w \in Nat /\ c.h \in Nat
              /\ c.x + c.w <= u4.w /\ c.y + c.h <= u4.h
            BY <1>1, <3>1, CropInside
        <3>5. Sizes!Base = <<c.w, c.h>> /\ u3' = c
            BY <2>2, <3>2, <3>3 DEF Sizes!Base
        <3> HIDE DEF c
        <3> QED  BY <3>4, <3>5
    <2> QED  BY <2>1, <2>2
<1> QED  BY <1>1, <1>2, <1>3 DEF SizesIInv, Steps, Sizes!Placed, Sizes!CutsAreInside,
                                Sizes!StampIsWhereAsked

(* The box a picture is resized to, and what it means that there is nothing to do.      *)
LEMMA TargetInside ==
    ASSUME u2 \in Builders, NEW asked \in Sides, NEW side \in Nat
    PROVE  /\ Sizes!Target(asked, side) \in Nat
           /\ asked # 0 /\ side > 0 => Sizes!Target(asked, side) > 0
           /\ ~u2.upscale => Sizes!Target(asked, side) <= side
           /\ asked # Sizes!Unset /\ (u2.upscale \/ asked <= side) =>
                  Sizes!Target(asked, side) = asked
BY DEF Sizes!Target, Sizes!Unset, Sizes!Smaller, Sides

(* The resize: in the box, and not larger than the source unless it may be.             *)
LEMMA ResizeKeeps ==
    ASSUME Sizes!SizesAssumption, SizesIInv, Sizes!Resize
    PROVE  SizesIInv'
<1>1. /\ UNCHANGED <<u1, u2, u4>> /\ u3.step = "resize"
      /\ u3.w = Sizes!Base[1] /\ u3.h = Sizes!Base[2]
      /\ u4.w \in Nat \ {0} /\ u4.h \in Nat \ {0} /\ u2 \in Builders
    BY DEF Sizes!Resize, Sizes!Goes, SizesIInv
<1>2. /\ u3.w \in 0 .. u4.w /\ u3.h \in 0 .. u4.h
      /\ ~Sizes!EmptyRegion => u3.w > 0 /\ u3.h > 0
    BY <1>1, BaseInside
<1>3. u2.width \in Sides /\ u2.height \in Sides /\ u2.mode \in Modes /\ u2.upscale \in BOOLEAN
    BY <1>1 DEF Builders
<1> DEFINE tw == Sizes!Target(u2.width, u3.w)
           th == Sizes!Target(u2.height, u3.h)
<1>4. /\ tw \in Nat /\ th \in Nat
      /\ ~Sizes!EmptyBox /\ ~Sizes!EmptyRegion => tw > 0 /\ th > 0
      /\ ~u2.upscale => tw <= u3.w /\ th <= u3.h
      /\ Sizes!Boxed => tw = u2.width /\ th = u2.height
    <2>0. u3.w \in Nat /\ u3.h \in Nat
        BY <1>2
    <2>1. Sizes!Boxed => /\ u2.width # Sizes!Unset /\ (u2.upscale \/ u2.width <= u3.w)
                         /\ u2.height # Sizes!Unset /\ (u2.upscale \/ u2.height <= u3.h)
        BY <1>1 DEF Sizes!Boxed
    <2>2. ~Sizes!EmptyBox => u2.width # 0 /\ u2.height # 0
        BY DEF Sizes!EmptyBox
    <2>3. /\ tw \in Nat
          /\ u2.width # 0 /\ u3.w > 0 => tw > 0
          /\ ~u2.upscale => tw <= u3.w
          /\ u2.width # Sizes!Unset /\ (u2.upscale \/ u2.width <= u3.w) => tw = u2.width
        BY <1>1, <1>3, <2>0, TargetInside, Zenon
    <2>4. /\ th \in Nat
          /\ u2.height # 0 /\ u3.h > 0 => th > 0
          /\ ~u2.upscale => th <= u3.h
          /\ u2.height # Sizes!Unset /\ (u2.upscale \/ u2.height <= u3.h) => th = u2.height
        BY <1>1, <1>3, <2>0, TargetInside, Zenon
    <2> HIDE DEF tw, th
    <2> QED  BY <1>2, <2>1, <2>2, <2>3, <2>4
<1>5. (Sizes!Boxed' <=> Sizes!Boxed) /\ (Sizes!EmptyRegion' <=> Sizes!EmptyRegion)
    BY <1>1 DEF Sizes!Boxed, Sizes!Base, Sizes!Cropped, Sizes!EmptyRegion
<1>6. /\ u3'.step = "rotate" /\ u3'.stamp = <<>>
      /\ Whole(u3'.w, u3'.h)
    <2>1. CASE Sizes!Skipped
        <3>1. u3' = Sizes!At("rotate", u3.w, u3.h)
            BY <2>1 DEF Sizes!Resize, Sizes!Goes
        <3>2. Sizes!Boxed => u3.w = u2.width /\ u3.h = u2.height
            BY <1>4, <2>1 DEF Sizes!Skipped, Sizes!Boxed
        <3>3. Whole(u3.w, u3.h)
            BY <1>2, <3>2 DEF Whole
        <3> QED  BY <3>1, <3>3 DEF Sizes!At
    <2>2. CASE ~Sizes!Skipped
        <3>1. u3' \in Sizes!apply_resize(u3.w, u3.h, tw, th)
            BY <2>2 DEF Sizes!Resize, Sizes!Goes
        <3> HIDE DEF tw, th
        <3>2. Sized(u3', u3.w, u3.h, tw, th)
            BY <1>2, <1>3, <1>4, <3>1, ResizeSized
        <3>3. u3'.w \in Nat /\ u3'.h \in Nat
            BY <3>2 DEF Sized
        <3>4. ~(Sizes!EmptyBox \/ Sizes!EmptyRegion) => u3'.w >= 1 /\ u3'.h >= 1
            BY <1>2, <1>4, <3>2, <3>3 DEF Sized
        <3>5. ~u2.upscale => u3'.w <= u4.w /\ u3'.h <= u4.h
            <4>1. Sizes!Larger(u3.w, 1) <= u4.w /\ Sizes!Larger(u3.h, 1) <= u4.h
                BY <1>1, <1>2 DEF Sizes!Larger
            <4>2. Sizes!Larger(u3.w, 1) \in Nat /\ Sizes!Larger(u3.h, 1) \in Nat
                BY <1>2 DEF Sizes!Larger
            <4>3. ~u2.upscale => u3'.w <= Sizes!Larger(u3.w, 1) /\ u3'.h <= Sizes!Larger(u3.h, 1)
                BY <1>4, <3>2 DEF Sized
            <4> QED  BY <1>1, <3>3, <4>1, <4>2, <4>3
        <3>6. Sizes!Boxed /\ ~Sizes!EmptyRegion =>
                  /\ u2.mode \in {"cover", "stretch"} => u3'.w = u2.width /\ u3'.h = u2.height
                  /\ u2.mode = "fit" /\ ~Sizes!EmptyBox =>
                         /\ u3'.w <= u2.width /\ u3'.h <= u2.height
                         /\ u3'.w = u2.width \/ u3'.h = u2.height
            BY <1>2, <1>4, <3>2 DEF Sized
        <3>7. u3'.step = "rotate" /\ u3'.stamp = <<>>
            BY <3>2 DEF Sized
        <3> QED  BY <3>3, <3>4, <3>5, <3>6, <3>7 DEF Whole
    <2> QED  BY <2>1, <2>2
<1>7. PICK w \in Nat, h \in Nat : w = u3'.w /\ h = u3'.h
    BY <1>6 DEF Whole
<1>8. Whole(w, h)'
    BY <1>1, <1>5, <1>6, <1>7 DEF Whole, Sizes!EmptyBox
<1>9. (Sizes!Upright[1])' = w /\ (Sizes!Upright[2])' = h
    BY <1>6, <1>7 DEF Sizes!Upright
<1>10. Whole(Sizes!Upright[1], Sizes!Upright[2])'
    BY <1>8, <1>9 DEF Whole
<1> QED  BY <1>1, <1>6, <1>7, <1>10
         DEF SizesIInv, Steps, Sizes!Placed, Sizes!CutsAreInside, Sizes!StampIsWhereAsked

(* The rotation swaps the sides, or does not.                                           *)
LEMMA RotateKeeps ==
    ASSUME SizesIInv, Sizes!Rotate
    PROVE  SizesIInv'
<1>1. /\ UNCHANGED <<u1, u2, u4>> /\ u3.step = "rotate"
      /\ Whole(u3.w, u3.h) /\ u2 \in Builders
      /\ u4.w \in Nat \ {0} /\ u4.h \in Nat \ {0}
    BY DEF Sizes!Rotate, Sizes!Goes, SizesIInv, Sizes!Placed, Sizes!Upright
<1>2. PICK w \in Nat, h \in Nat : w = u3.w /\ h = u3.h
    BY <1>1 DEF Whole
<1>3. /\ u3'.step = "watermark" /\ u3'.stamp = <<>>
      /\ u3'.w = IF u2.quarter THEN h ELSE w
      /\ u3'.h = IF u2.quarter THEN w ELSE h
    BY <1>2 DEF Sizes!Rotate, Sizes!Goes, Sizes!At
<1>4. (Sizes!Boxed' <=> Sizes!Boxed) /\ (Sizes!EmptyRegion' <=> Sizes!EmptyRegion)
    BY <1>1 DEF Sizes!Boxed, Sizes!Base, Sizes!Cropped, Sizes!EmptyRegion
<1>5. Whole(w, h)'
    BY <1>1, <1>2, <1>4 DEF Whole, Sizes!EmptyBox
<1>6. (Sizes!Upright[1])' = w /\ (Sizes!Upright[2])' = h
    BY <1>1, <1>3 DEF Sizes!Upright
<1>7. Whole(Sizes!Upright[1], Sizes!Upright[2])'
    BY <1>5, <1>6 DEF Whole
<1> QED  BY <1>1, <1>3, <1>7 DEF SizesIInv, Steps, Sizes!Placed, Sizes!CutsAreInside,
                                Sizes!StampIsWhereAsked

(* A stamp that has room with its margins lies within them.                             *)
LEMMA StampInside ==
    ASSUME Sizes!SizesAssumption, u2 \in Builders, NEW w \in Nat, NEW side \in Nat \ {0},
           side + 2 * Margin <= w
    PROVE  Sizes!crop_offset(w, side + 2 * Margin) + Margin + side + Margin <= w
<1>1. Margin \in Nat
    BY DEF Sizes!SizesAssumption
<1>2. w - (side + 2 * Margin) \in Nat
    BY <1>1
<1>3. \A room \in Nat : room \div 2 <= room
    OBVIOUS
<1>4. Sizes!crop_offset(w, side + 2 * Margin) <= w - (side + 2 * Margin)
      /\ Sizes!crop_offset(w, side + 2 * Margin) \in Int
    BY <1>1, <1>2, <1>3 DEF Sizes!crop_offset, Sizes!Larger
<1> QED  BY <1>1, <1>4

(* Where its position is the anchor of the cuts, it is where its position says.          *)
LEMMA StampInPlace ==
    ASSUME Sizes!SizesAssumption, u2 \in Builders, NEW w \in Nat, NEW side \in Nat \ {0},
           side + 2 * Margin <= w, u2.position = u2.anchor
    PROVE  Sizes!InPlace(u2.position, w, side, Sizes!crop_offset(w, side + 2 * Margin) + Margin)
<1>1. Margin \in Nat
    BY DEF Sizes!SizesAssumption
<1>2. PICK room \in Nat : room = w - (side + 2 * Margin)
    BY <1>1
<1>3. Sizes!Larger(w - (side + 2 * Margin), 0) = room
    BY <1>2 DEF Sizes!Larger
<1>4. CASE u2.anchor = "top-left"
    <2>1. Sizes!crop_offset(w, side + 2 * Margin) = 0
        BY <1>4 DEF Sizes!crop_offset
    <2> QED  BY <1>1, <1>4, <2>1 DEF Sizes!InPlace
<1>5. CASE u2.anchor = "bottom-right"
    <2>1. Sizes!crop_offset(w, side + 2 * Margin) = room
        BY <1>3, <1>5 DEF Sizes!crop_offset
    <2> QED  BY <1>1, <1>2, <1>5, <2>1 DEF Sizes!InPlace
<1>6. CASE u2.anchor = "center"
    <2>1. Sizes!crop_offset(w, side + 2 * Margin) = room \div 2
        BY <1>3, <1>6 DEF Sizes!crop_offset
    <2>2. room - 2 * (room \div 2) \in {0, 1} /\ room \div 2 \in Nat
        OBVIOUS
    <2>3. w - (2 * (room \div 2 + Margin) + side) = room - 2 * (room \div 2)
        BY <1>1, <1>2, <2>2
    <2> QED  BY <1>6, <2>1, <2>2, <2>3 DEF Sizes!InPlace
<1> QED  BY <1>4, <1>5, <1>6 DEF Builders, Anchors

(* The watermark lies in the picture, with its margins.                                 *)
LEMMA StampKeeps ==
    ASSUME Sizes!SizesAssumption, SizesIInv, Sizes!apply_watermark
    PROVE  SizesIInv'
<1>1. /\ UNCHANGED <<u1, u2, u4>> /\ u3.step = "watermark"
      /\ u3.w \in Nat /\ u3.h \in Nat /\ u2 \in Builders
      /\ Whole(Sizes!Upright[1], Sizes!Upright[2])
      /\ u4.w \in Nat \ {0} /\ u4.h \in Nat \ {0}
    BY DEF Sizes!apply_watermark, Sizes!Goes, SizesIInv, Sizes!Placed
<1> DEFINE stamp == Sizes!Stamp(u3, Margin)
<1>2. /\ u3'.step = "done" /\ u3'.w = u3.w /\ u3'.h = u3.h
      /\ u3'.stamp = IF u2.watermark = 0 THEN <<>> ELSE <<stamp>>
    BY DEF Sizes!apply_watermark, Sizes!Goes, Sizes!At
<1>3. /\ stamp.w + 2 * Margin <= u3.w => stamp.x + stamp.w + Margin <= u3.w
      /\ stamp.h + 2 * Margin <= u3.h => stamp.y + stamp.h + Margin <= u3.h
      /\ u2.position = u2.anchor =>
             /\ stamp.w + 2 * Margin <= u3.w => Sizes!InPlace(u2.position, u3.w, stamp.w, stamp.x)
             /\ stamp.h + 2 * Margin <= u3.h => Sizes!InPlace(u2.position, u3.h, stamp.h, stamp.y)
    <2> DEFINE side == Sizes!Larger((u3.w * u2.watermark) \div 100, 1)
    <2>1. side \in Nat \ {0}
        <3>1. u2.watermark \in Nat
            BY <1>1 DEF Builders
        <3>2. u3.w * u2.watermark \in Nat
            BY <1>1, <3>1
        <3> QED  BY <3>2 DEF Sizes!Larger
    <2>2. /\ stamp.w = side /\ stamp.h = side
          /\ stamp.x = Sizes!crop_offset(u3.w, side + 2 * Margin) + Margin
          /\ stamp.y = Sizes!crop_offset(u3.h, side + 2 * Margin) + Margin
        BY DEF Sizes!Stamp
    <2>3. Margin \in Nat
        BY DEF Sizes!SizesAssumption
    <2> HIDE DEF side, stamp
    <2>4. \A w \in Nat : side + 2 * Margin <= w =>
              Sizes!crop_offset(w, side + 2 * Margin) + Margin + side + Margin <= w
        BY <1>1, <2>1, StampInside
    <2>5. \A w \in Nat : Sizes!crop_offset(w, side + 2 * Margin) \in Int
        BY <1>1, <2>1, <2>3 DEF Sizes!crop_offset, Sizes!Larger
    <2>6. \A w \in Nat : u2.position = u2.anchor /\ side + 2 * Margin <= w =>
              Sizes!InPlace(u2.position, w, side, Sizes!crop_offset(w, side + 2 * Margin) + Margin)
        BY <1>1, <2>1, StampInPlace
    <2>7. u2.position = u2.anchor =>
              /\ stamp.w + 2 * Margin <= u3.w => Sizes!InPlace(u2.position, u3.w, stamp.w, stamp.x)
              /\ stamp.h + 2 * Margin <= u3.h => Sizes!InPlace(u2.position, u3.h, stamp.h, stamp.y)
        BY <1>1, <2>2, <2>6
    <2> QED  BY <1>1, <2>1, <2>2, <2>3, <2>4, <2>5, <2>7
<1> HIDE DEF stamp
<1>4. (Sizes!CutsAreInside)' /\ (Sizes!StampIsWhereAsked)'
    <2>1. (Sizes!CutsAreInside)'
        BY <1>2, <1>3 DEF Sizes!CutsAreInside
    <2>2. (Sizes!StampIsWhereAsked)'
        BY <1>1, <1>2, <1>3 DEF Sizes!StampIsWhereAsked, Sizes!InPlace
    <2> QED  BY <2>1, <2>2
<1>5. (Sizes!Boxed' <=> Sizes!Boxed) /\ (Sizes!EmptyRegion' <=> Sizes!EmptyRegion)
    BY <1>1 DEF Sizes!Boxed, Sizes!Base, Sizes!Cropped, Sizes!EmptyRegion
<1>6. PICK w \in Nat, h \in Nat : w = Sizes!Upright[1] /\ h = Sizes!Upright[2]
    BY <1>1 DEF Whole
<1>7. Whole(w, h)'
    BY <1>1, <1>5, <1>6 DEF Whole, Sizes!EmptyBox
<1>8. (Sizes!Upright[1])' = w /\ (Sizes!Upright[2])' = h
    BY <1>1, <1>2, <1>6 DEF Sizes!Upright
<1>9. Whole(Sizes!Upright[1], Sizes!Upright[2])'
    BY <1>7, <1>8 DEF Whole
<1> QED  BY <1>1, <1>2, <1>4, <1>9 DEF SizesIInv, Steps, Sizes!Placed

(* Every step keeps the invariant of the sizes.                                         *)
LEMMA SizesStep ==
    ASSUME Sizes!SizesAssumption, SizesIInv, Sizes!Next
    PROVE  SizesIInv'
BY CallsKeep, LoadKeeps, CropKeeps, ResizeKeeps, RotateKeeps, StampKeeps DEF Sizes!Next

(* The invariant of the sizes says what is to be shown of them.                         *)
LEMMA SizesAreSound ==
    ASSUME SizesIInv
    PROVE  /\ Sizes!TypeOK /\ Sizes!NeverEnlarged /\ Sizes!BoxIsFilled /\ Sizes!CutsAreInside
           /\ Sizes!StampIsWhereAsked
<1>1. Sizes!TypeOK
    BY DEF SizesIInv, Sizes!TypeOK, Steps, Builders, Sides
<1>2. Sizes!NeverEnlarged
    BY DEF SizesIInv, Whole, Sizes!NeverEnlarged
<1>3. Sizes!BoxIsFilled
    <2>1. Sizes!Upright = <<Sizes!Upright[1], Sizes!Upright[2]>>
        BY DEF Sizes!Upright
    <2> QED  BY <2>1 DEF SizesIInv, Whole, Sizes!BoxIsFilled
<1> QED  BY <1>1, <1>2, <1>3 DEF SizesIInv

(* A client is redirected once at most and is given what the first spelling of its URL   *)
(* asked for, from the cache as from the processor; no image has more variants than it   *)
(* may have; and the calls on a processor make a picture that is not larger than its     *)
(* source, that fills the box it is cut to, is cut inside and stamped where the anchor   *)
(* is (PicturesAreAsAsked): for any files, bounds, sizes, boxes and regions, those of no *)
(* pixel included.                                                                       *)
THEOREM PicturesAreMadeAsAsked == Spec => []PicturesAreAsAsked
<1> DEFINE Inv == (part = "urls" => UrlsIInv) /\ (part = "sizes" => SizesIInv)
<1>1. Urls!UrlAssumption /\ Sizes!SizesAssumption
    BY InstanceAssumptions DEF InstanceAssumptions
<1>2. Init => Inv
    BY <1>1, UrlsStart, SizesStart DEF Init
<1>3. ASSUME Inv, [Next]_<<part, state>>
      PROVE  Inv'
    <2>1. CASE UNCHANGED <<part, state>>
        <3>1. UNCHANGED <<u1, u2, u3, u4>> /\ part' = part
            BY <2>1 DEF state
        <3>2. UrlsIInv => UrlsIInv'
            BY <3>1 DEF UrlsIInv, Asking, Urls!VariantsAreBounded, Urls!VariantsOf
        <3>3. SizesIInv => SizesIInv'
            BY <3>1 DEF SizesIInv, Whole, Sizes!Upright, Sizes!Boxed, Sizes!Base, Sizes!Cropped,
                        Sizes!CutsAreInside, Sizes!Placed, Sizes!StampIsWhereAsked,
                        Sizes!InPlace, Sizes!EmptyBox, Sizes!EmptyRegion
        <3> QED  BY <1>3, <3>1, <3>2, <3>3
    <2>2. CASE part = "urls" /\ Next
        <3>1. Urls!Next /\ part' = part
            BY <2>2 DEF Next
        <3> QED  BY <1>3, <2>2, <3>1, UrlsStep
    <2>3. CASE part = "sizes" /\ Next
        <3>1. Sizes!Next /\ part' = part
            BY <2>3 DEF Next
        <3> QED  BY <1>1, <1>3, <2>3, <3>1, SizesStep
    <2>4. CASE part \notin {"urls", "sizes"} /\ Next
        BY <2>4 DEF Next
    <2> QED  BY <1>3, <2>1, <2>2, <2>3, <2>4
<1>4. Inv => PicturesAreAsAsked
    BY UrlsAreSound, SizesAreSound DEF PicturesAreAsAsked
<1> QED  BY <1>2, <1>3, <1>4, PTL DEF Spec
==================================================================================
