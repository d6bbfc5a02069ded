------------------------------- MODULE TaggedCache -------------------------------
(* The cache facade of karbon-framework/src/cache/store.rs over the memory store of   *)
(* cache/memory.rs: remember (cache-aside), set_tagged and invalidate_tag. One store  *)
(* call is atomic - it runs under the store's lock - and the facade's operations are  *)
(* sequences of them: other callers, and the clock, move in between, and a caller     *)
(* that is dropped at an await leaves its operation where it was.                     *)
EXTENDS Naturals, FiniteSets

CONSTANTS Callers,  \* tasks that use the cache
          Nobody,   \* no caller
          Keys,     \* cache keys
          Tags,     \* tags; each has an index entry of its own in the store
          TTLs,     \* the times to live callers pass
          MaxTime   \* bound on the clock

CacheAssumption == /\ Nobody \notin Callers
                   /\ Keys \intersect Tags = {}
                   /\ TTLs \subseteq Nat /\ MaxTime \in Nat

VARIABLES now,      \* the clock
          entry,    \* the store: what is set for each key and tag index, and until when
          op,       \* each caller's operation
          tagged,   \* history: the tags of the last set_tagged of each key, once it is done
          due,      \* history: per caller, the keys its invalidate_tag is to remove
          setter,   \* history: who set each key last with set_tagged, if nobody set it since
          stale,    \* history: the callers that read an index before another rewrote it
          exposed   \* history: the keys whose index a stale caller replaced or removed, or
                    \* was made to expire earlier than it would have

vars == <<now, entry, op, tagged, due, setter, stale, exposed>>
history == <<tagged, due, setter, stale, exposed>>

Absent == [set |-> FALSE]

(* What is stored under a tag is the list of its keys; a key's value is not told apart. *)
Entry == {Absent} \union [set : {TRUE}, keys : SUBSET Keys, until : Nat]

Idle == [pc |-> "idle"]

Init == /\ now = 0
        /\ entry = [x \in Keys \union Tags |-> Absent]
        /\ op = [c \in Callers |-> Idle]
        /\ tagged = [k \in Keys |-> {}]
        /\ due = [c \in Callers |-> {}]
        /\ setter = [k \in Keys |-> Nobody]
        /\ stale = {}
        /\ exposed = {}

(* get_raw ignores an entry when now is past its expiry. *)
Live(x) == entry[x].set /\ now <= entry[x].until

SetRaw(x, keys, ttl) ==
    entry' = [entry EXCEPT ![x] = [set |-> TRUE, keys |-> keys, until |-> now + ttl]]

RemoveRaw(x) == entry' = [entry EXCEPT ![x] = Absent]

At(c, pc) == op[c].pc = pc

Step(c, o) == op' = [op EXCEPT ![c] = o]

(* A key that is set anew is not a tagged one until set_tagged is done with it, and    *)
(* no invalidation that is under way owes its removal.                                 *)
Overwritten(k, by) == /\ tagged' = [tagged EXCEPT ![k] = {}]
                      /\ setter' = [setter EXCEPT ![k] = by]
                      /\ due' = [c \in Callers |-> due[c] \ {k}]
                      /\ exposed' = exposed \ {k}
                      /\ UNCHANGED stale

-----------------------------------------------------------------------------------
(* remember: get, then the computation, then set. *)

RememberHit(c, k) == /\ At(c, "idle")
                     /\ Live(k)
                     /\ UNCHANGED vars

RememberMiss(c, k, ttl) == /\ At(c, "idle")
                           /\ ~Live(k)
                           /\ Step(c, [pc |-> "compute", key |-> k, ttl |-> ttl])
                           /\ UNCHANGED <<now, entry, history>>

RememberStores(c) == /\ At(c, "compute")
                     /\ SetRaw(op[c].key, {}, op[c].ttl)
                     /\ Overwritten(op[c].key, Nobody)
                     /\ Step(c, Idle)
                     /\ UNCHANGED now

(* f returned an error: nothing is stored. *)
RememberFails(c) == /\ At(c, "compute")
                    /\ Step(c, Idle)
                    /\ UNCHANGED <<now, entry, history>>

-----------------------------------------------------------------------------------
(* set_tagged: the value, then for each tag a read and a write of its index. *)

NextTag(c, left) ==
    IF left = {} THEN Step(c, Idle)
    ELSE Step(c, [pc |-> "index", key |-> op[c].key, ttl |-> op[c].ttl, tags |-> op[c].tags,
                  left |-> left])

SetTagged(c, k, ttl, tags) ==
    /\ At(c, "idle")
    /\ SetRaw(k, {}, ttl)
    /\ Overwritten(k, c)
    /\ Step(c, [pc |-> "index", key |-> k, ttl |-> ttl, tags |-> tags, left |-> tags])
    /\ UNCHANGED now

ReadIndex(c, t) ==
    /\ At(c, "index") /\ t \in op[c].left
    /\ Step(c, [pc |-> "write", key |-> op[c].key, ttl |-> op[c].ttl, tags |-> op[c].tags,
                left |-> op[c].left, tag |-> t,
                keys |-> IF Live(t) THEN entry[t].keys ELSE {}])
    /\ UNCHANGED <<now, entry, history>>

(* The callers that know the index of t as it was before it is rewritten. *)
Readers(t) == {c \in Callers : op[c].pc \in {"write", "invalidate"} /\ op[c].tag = t}

Shortens(t, ttl) == entry[t].set /\ now + ttl < entry[t].until

IndexWritten(c, left) ==
    LET t == op[c].tag
    IN  /\ NextTag(c, left)
        /\ tagged' = IF left = {} /\ setter[op[c].key] = c
                     THEN [tagged EXCEPT ![op[c].key] = op[c].tags] ELSE tagged
        /\ stale' = (stale \union Readers(t)) \ {c}
        /\ exposed' = IF (c \in stale \/ Shortens(t, op[c].ttl)) /\ entry[t].set
                      THEN exposed \union entry[t].keys ELSE exposed
        /\ UNCHANGED <<now, due, setter>>

WriteIndex_Replaces(c) ==
    /\ At(c, "write")
    /\ SetRaw(op[c].tag, {op[c].key}, op[c].ttl)
    /\ IndexWritten(c, op[c].left \ {op[c].tag})

(* The whole list is written back, with the time to live of this call. *)
WriteIndex(c) ==
    /\ At(c, "write")
    /\ SetRaw(op[c].tag, op[c].keys \union {op[c].key}, op[c].ttl)
    /\ IndexWritten(c, op[c].left \ {op[c].tag})

-----------------------------------------------------------------------------------
(* invalidate_tag: the index, then each of its keys, then the index itself. *)

Invalidate(c, t) ==
    /\ At(c, "idle")
    /\ Step(c, [pc |-> "invalidate", tag |-> t, keys |-> IF Live(t) THEN entry[t].keys ELSE {}])
    /\ due' = [due EXCEPT ![c] = {k \in Keys : t \in tagged[k]}]
    /\ UNCHANGED <<now, entry, tagged, setter, stale, exposed>>

InvalidateKey(c, k) ==
    /\ At(c, "invalidate") /\ k \in op[c].keys
    /\ RemoveRaw(k)
    /\ Step(c, [op[c] EXCEPT !.keys = @ \ {k}])
    /\ UNCHANGED <<now, history>>

IndexRemoved(c) ==
    /\ Step(c, [pc |-> "invalidated"])
    /\ stale' = stale \ {c}
    /\ exposed' = IF c \in stale /\ entry[op[c].tag].set
                  THEN exposed \union entry[op[c].tag].keys ELSE exposed
    /\ UNCHANGED <<now, tagged, due, setter>>

InvalidateIndex_First(c) ==
    /\ At(c, "invalidate")
    /\ RemoveRaw(op[c].tag)
    /\ IndexRemoved(c)

InvalidateIndex(c) ==
    /\ At(c, "invalidate") /\ op[c].keys = {}
    /\ RemoveRaw(op[c].tag)
    /\ IndexRemoved(c)

Return(c) == /\ At(c, "invalidated")
             /\ Step(c, Idle)
             /\ due' = [due EXCEPT ![c] = {}]
             /\ UNCHANGED <<now, entry, tagged, setter, stale, exposed>>

-----------------------------------------------------------------------------------

Remove(c, k) == /\ At(c, "idle")
                /\ RemoveRaw(k)
                /\ UNCHANGED <<now, op, history>>

Clear(c) == /\ At(c, "idle")
            /\ entry' = [x \in Keys \union Tags |-> Absent]
            /\ UNCHANGED <<now, op, history>>

(* MemoryStore::cleanup keeps the entries whose expiry is after now. *)
Reclaim == /\ entry' = [x \in Keys \union Tags |->
                          IF entry[x].set /\ entry[x].until > now THEN entry[x] ELSE Absent]
           /\ UNCHANGED <<now, op, history>>

(* The caller is dropped at an await. *)
CallerGone(c) == /\ ~At(c, "idle")
                 /\ Step(c, Idle)
                 /\ due' = [due EXCEPT ![c] = {}]
                 /\ stale' = stale \ {c}
                 /\ UNCHANGED <<now, entry, tagged, setter, exposed>>

Tick == /\ now < MaxTime
        /\ now' = now + 1
        /\ UNCHANGED <<entry, op, history>>

Next == \/ \E c \in Callers :
              \/ \E k \in Keys : \/ RememberHit(c, k) \/ InvalidateKey(c, k) \/ Remove(c, k)
                                 \/ \E ttl \in TTLs :
                                       \/ RememberMiss(c, k, ttl)
                                       \/ \E tags \in (SUBSET Tags) \ {{}} :
                                             SetTagged(c, k, ttl, tags)
              \/ \E t \in Tags : ReadIndex(c, t) \/ Invalidate(c, t)
              \/ RememberStores(c) \/ RememberFails(c) \/ WriteIndex(c)
              \/ InvalidateIndex(c) \/ Return(c) \/ Clear(c) \/ CallerGone(c)
        \/ Reclaim \/ Tick

Spec == Init /\ [][Next]_vars

-----------------------------------------------------------------------------------
(* Properties. *)

Op == {Idle, [pc |-> "invalidated"]}
      \union [pc : {"compute"}, key : Keys, ttl : TTLs]
      \union [pc : {"index"}, key : Keys, ttl : TTLs, tags : SUBSET Tags,
              left : (SUBSET Tags) \ {{}}]
      \union [pc : {"write"}, key : Keys, ttl : TTLs, tags : SUBSET Tags, left : SUBSET Tags,
              tag : Tags, keys : SUBSET Keys]
      \union [pc : {"invalidate"}, tag : Tags, keys : SUBSET Keys]

TypeOK == /\ now \in 0 .. MaxTime
          /\ entry \in [Keys \union Tags -> Entry]
          /\ op \in [Callers -> Op]
          /\ tagged \in [Keys -> SUBSET Tags]
          /\ due \in [Callers -> SUBSET Keys]
          /\ setter \in [Keys -> Callers \union {Nobody}]
          /\ stale \subseteq Callers
          /\ exposed \subseteq Keys

(* "Store a value associated with one or more tags, so it can later be invalidated as  *)
(* a group": when invalidate_tag is done, no key is served that was tagged before it    *)
(* began and was not set again since - except the keys exposed by a caller that         *)
(* rewrote or removed an index another had rewritten since it read it, or by a shorter  *)
(* time to live. Overlaps of other operations, expiries, clean-ups and operations that  *)
(* were given up half way expose none.                                                  *)
TagIsInvalidated ==
    \A c \in Callers : At(c, "invalidated") => \A k \in due[c] \ exposed : ~Live(k)

(* A tagged key that is still served is in a live index of each of its tags: the index  *)
(* outlives its keys, with the same exception.                                          *)
IndexCoversLiveKeys ==
    \A k \in Keys \ exposed : Live(k) =>
        \A t \in tagged[k] : Live(t) /\ k \in entry[t].keys
==================================================================================
