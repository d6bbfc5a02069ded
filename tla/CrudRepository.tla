------------------------------ MODULE CrudRepository ------------------------------
(* CrudRepository, the methods an entity inherits: db/repository.rs. With SOFT_DELETE  *)
(* a deletion only sets deleted_at, and every method that reads has to leave such rows *)
(* out on its own: each writes its WHERE for itself.                                   *)
EXTENDS Naturals, FiniteSets

CONSTANTS Ids, Owners   \* keys of the rows, and of the rows they belong to

RepositoryAssumption == IsFiniteSet(Ids)

VARIABLES rows,    \* the table: id -> its owner, and whether deleted_at is set
          entity,  \* SOFT_DELETE and HAS_SLUG of the entity
          live,    \* history: the rows that were not deleted, or were restored
          read     \* what the last method returned, and for which conditions

repository == <<rows, entity, live, read>>

Read(by, conds, ids, answer) == [by |-> by, conds |-> conds, ids |-> ids, answer |-> answer]

Silent == Read("none", {}, {}, 0)

Init == /\ rows = [id \in {} |-> [owner |-> 0, deleted |-> FALSE]]
        /\ entity \in [soft : BOOLEAN, slug : BOOLEAN]
        /\ live = {} /\ read = Silent

(* A condition compares a column with one value, or with several (IN). A slug names one *)
(* row, as an id does.                                                                  *)
Condition(col, vals) == [col |-> col, vals |-> vals]

Holds(id, cond) == IF cond.col = "owner" THEN rows[id].owner \in cond.vals ELSE id \in cond.vals

soft_filter_Never == FALSE

(* soft_filter, soft_where, and the last clause of build_where_query. *)
soft_filter == entity.soft

(* The rows that a text with these conditions, and the filter or not, asks for. *)
Select(conds, filter) == {id \in DOMAIN rows : /\ filter => ~rows[id].deleted
                                               /\ \A cond \in conds : Holds(id, cond)}

Returns(by, conds, ids, answer) == /\ read' = Read(by, conds, ids, answer)
                                   /\ UNCHANGED <<rows, entity, live>>

(* An identifier that is none, or a direction that is none: nothing is sent. *)
Refused == Returns("refused", {}, {}, 0)

-----------------------------------------------------------------------------------
(* Reading. *)

find_by_id(id) == LET conds == {Condition("id", {id})}
                  IN  Returns("found", conds, Select(conds, soft_filter), 0)

(* An error for an entity without a slug. *)
find_by_slug(id) == LET conds == {Condition("slug", {id})}
                    IN  IF entity.slug THEN Returns("found", conds, Select(conds, soft_filter), 0)
                        ELSE Refused

count == Returns("count", {}, {}, Cardinality(Select({}, soft_filter)))

exists(id) == LET conds == {Condition("id", {id})}
              IN  Returns("exists", conds, {}, Select(conds, soft_filter) # {})

find_all == Returns("found", {}, Select({}, soft_filter), 0)

find_all_with_trashed == Returns("trashed", {}, Select({}, FALSE), 0)

(* build_where_query: each column equals its value. *)
Wheres == {{}} \union {{Condition("owner", {owner})} : owner \in Owners}
               \union {{Condition("owner", {owner}), Condition("id", {id})} : owner \in Owners, id \in Ids}

(* The first row, in whichever order the database has them. *)
find_where(conds) == LET found == Select(conds, soft_filter)
                     IN  \E ids \in IF found = {} THEN {{}} ELSE {{id} : id \in found} :
                             Returns("one", conds, ids, 0)

find_all_where(conds) == Returns("found", conds, Select(conds, soft_filter), 0)

has_many(owner) == find_all_where({Condition("owner", {owner})})

(* load_grouped_by: one query for several owners, its rows grouped by their owner.      *)
load_grouped_by(owners) ==
    LET conds == {Condition("owner", owners)}
        found == IF owners = {} THEN {} ELSE Select(conds, soft_filter)
    IN  Returns("grouped", conds, found,
                [owner \in {rows[id].owner : id \in found} |->
                    {id \in found : rows[id].owner = owner}])

-----------------------------------------------------------------------------------
(* Writing. Rows are inserted with Insertable, not by a method of this trait.           *)

Writes(table, alive) == rows' = table /\ live' = alive /\ read' = Silent /\ UNCHANGED entity

Insert(id, owner) ==
    /\ id \notin DOMAIN rows
    /\ Writes([i \in DOMAIN rows \union {id} |->
                  IF i = id THEN [owner |-> owner, deleted |-> FALSE] ELSE rows[i]],
              live \union {id})

(* UPDATE .. SET deleted_at .. WHERE id, which may meet no row; DELETE .. WHERE id.      *)
Marked(id, deleted) == [i \in DOMAIN rows |->
                           [owner |-> rows[i].owner,
                            deleted |-> IF i = id THEN deleted ELSE rows[i].deleted]]

Without(id) == [i \in DOMAIN rows \ {id} |-> rows[i]]

delete(id) == Writes(IF entity.soft THEN Marked(id, TRUE) ELSE Without(id), live \ {id})

force_delete(id) == Writes(Without(id), live \ {id})

(* An error for an entity without SOFT_DELETE. *)
restore(id) == IF entity.soft
               THEN Writes(Marked(id, FALSE), live \union ({id} \intersect DOMAIN rows))
               ELSE Refused

Next == \/ count \/ find_all \/ find_all_with_trashed \/ Refused
        \/ \E id \in Ids : \/ find_by_id(id) \/ find_by_slug(id) \/ exists(id)
                           \/ delete(id) \/ force_delete(id) \/ restore(id)
                           \/ \E owner \in Owners : Insert(id, owner)
        \/ \E conds \in Wheres : find_where(conds) \/ find_all_where(conds)
        \/ \E owner \in Owners : has_many(owner)
        \/ \E owners \in SUBSET Owners : load_grouped_by(owners)

Spec == Init /\ [][Next]_repository

-----------------------------------------------------------------------------------
(* Properties. *)

TypeOK == /\ DOMAIN rows \subseteq Ids /\ live \subseteq DOMAIN rows
          /\ \A id \in DOMAIN rows : rows[id] \in [owner : Owners, deleted : BOOLEAN]
          /\ read.by \in {"none", "refused", "found", "exists", "count", "one", "grouped", "trashed"}

Meant(conds) == {id \in live : \A cond \in conds : Holds(id, cond)}

(* Every way to read agrees on which rows there are: those that were not deleted since *)
(* they were made or restored, and only the one that says so sees the others too. What *)
(* is loaded for several owners at once is what each would have loaded for itself.     *)
DeletedIsUnseen ==
    /\ read.by = "found" => read.ids = Meant(read.conds)
    /\ read.by = "exists" => read.answer = (Meant(read.conds) # {})
    /\ read.by = "count" => read.answer = Cardinality(live)
    /\ read.by = "one" => /\ read.ids \subseteq Meant(read.conds)
                          /\ read.ids = {} => Meant(read.conds) = {}
    /\ read.by = "grouped" => \A cond \in read.conds : \A owner \in cond.vals :
           Meant({Condition("owner", {owner})}) =
               IF owner \in DOMAIN read.answer THEN read.answer[owner] ELSE {}
    /\ read.by = "trashed" => live \subseteq read.ids
==================================================================================
