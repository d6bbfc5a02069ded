------------------------------- MODULE SqlBuilders --------------------------------
(* The run-time builders of SQL: db/builder.rs (InsertBuilder, UpdateBuilder,          *)
(* DeleteBuilder, CountBuilder) and db/select_builder.rs (SelectBuilder). A builder is *)
(* called in any order and executed once. What it sends is a text with placeholders    *)
(* and a list of arguments: Insert, Delete and Count make both at each call, Update    *)
(* and Select keep the clauses and make both when they are executed. Of a clause, its  *)
(* wording and its placeholders matter here.                                           *)
EXTENDS Integers, SequencesExt

CONSTANTS Values,    \* values that are bound
          MaxCalls   \* bound: clauses of one builder

BuildersAssumption == MaxCalls \in Nat

VARIABLES builder,  \* the builder
          asked,    \* history: the clauses its caller asked for, with their values
          sent      \* what became of it: the text and its arguments, or an error

sql == <<builder, asked, sent>>

Kinds == {"insert", "update", "delete", "count", "select"}

Nothing == [status |-> "building"]

(* "set" also holds the columns of an insert; "shape" is what a select says besides     *)
(* its conditions, and the LIMIT of the others, which is text.                          *)
Init == /\ builder \in [kind : Kinds, set : {<<>>}, where : {<<>>}, args : {<<>>},
                        param_count : {0}, all_rows : {FALSE}, error : {FALSE}, shape : {{}}]
        /\ asked = [set |-> <<>>, where |-> <<>>]
        /\ sent = Nothing

Building(kinds) == sent = Nothing /\ builder.kind \in kinds

Clause(wording, vals) == [wording |-> wording, vals |-> vals]

(* The numbers that placeholder() is given for n values after those before. *)
Marks(before, n) == [k \in 1 .. n |-> before + k]

Asks(part, clause) ==
    /\ Len(asked.set) + Len(asked.where) < MaxCalls   \* bound
    /\ asked' = [asked EXCEPT ![part] = Append(@, clause)]
    /\ UNCHANGED sent

(* Clause::raw, Clause::bound, Condition: the values stay with their clause. *)
Keeps(part, clause) ==
    /\ builder' = [builder EXCEPT ![part] = Append(@, clause), !.param_count = @ + Len(clause.vals)]
    /\ Asks(part, clause)

(* The text is written at once, and the values go to the arguments. *)
Writes(part, clause) ==
    /\ builder' = [builder EXCEPT
                      ![part] = Append(@, [wording |-> clause.wording,
                                           marks |-> Marks(builder.param_count, Len(clause.vals))]),
                      !.param_count = @ + Len(clause.vals),
                      !.args = @ \o clause.vals]
    /\ Asks(part, clause)

-----------------------------------------------------------------------------------
(* The calls. *)

Compared(value) == Clause("compared", <<value>>)
Worded == Clause("raw", <<>>)

(* in_clause, and where_in of Update: an empty list is 1 = 0. *)
InClause(list) == IF list = <<>> THEN Worded ELSE Clause("in", list)

(* set, set_optional. *)
InsertSet(value) == Building({"insert"}) /\ Writes("set", Compared(value))

(* set, set_if with a value; set_raw, set_now. *)
UpdateSet(value) == Building({"update"}) /\ Keeps("set", Compared(value))
UpdateSetRaw == Building({"update"}) /\ Keeps("set", Worded)

(* Every ? of the expression is bound to the one value; an expression without any is an *)
(* error of execute().                                                                  *)
UpdateSetExpr(count, value) ==
    Building({"update"}) /\ Keeps("set", Clause("expression", [k \in 1 .. count |-> value]))

UpdateSetExprError == /\ Building({"update"})
                      /\ builder' = [builder EXCEPT !.error = TRUE]
                      /\ UNCHANGED <<asked, sent>>

(* where_eq .. where_gte, where_older_than; where_null .. where_raw; where_in. *)
UpdateWhere(value) == Building({"update"}) /\ Keeps("where", Compared(value))
UpdateWhereText == Building({"update"}) /\ Keeps("where", Worded)
UpdateWhereIn(list) == Building({"update"}) /\ Keeps("where", InClause(list))

DeleteWhere(value) == Building({"delete"}) /\ Writes("where", Compared(value))
DeleteWhereText == Building({"delete"}) /\ Writes("where", Worded)
DeleteWhereIn(list) == Building({"delete"}) /\ Writes("where", InClause(list))

CountWhere(value) == Building({"count"}) /\ Writes("where", Compared(value))
CountWhereText == Building({"count"}) /\ Writes("where", Worded)
CountWhereIn(list) == Building({"count"}) /\ Writes("where", InClause(list))

(* Select keeps an empty list as it is. *)
SelectWhere(value) == Building({"select"}) /\ Keeps("where", Compared(value))
SelectWhereText == Building({"select"}) /\ Keeps("where", Worded)
SelectWhereIn(list) == Building({"select"}) /\ Keeps("where", Clause("in", list))

(* all(), which an UPDATE or a DELETE without any condition has to say. *)
All == /\ Building({"update", "delete"})
       /\ builder' = [builder EXCEPT !.all_rows = TRUE]
       /\ UNCHANGED <<asked, sent>>

Shapes(what) == /\ builder' = [builder EXCEPT !.shape = @ \union {what}]
                /\ UNCHANGED <<asked, sent>>

(* limit() of Update and Delete exists with MySQL. *)
LimitWrite == Building({"update", "delete"}) /\ Shapes("limit")

(* "group" also stands for join, which a count keeps as well, "limit" also for columns, *)
(* order_by and offset, which it leaves out.                                            *)
SelectShape(what) == Building({"select"}) /\ Shapes(what)

Ends(status) == sent' = [status |-> status] /\ UNCHANGED <<builder, asked>>

(* Select asserts that names are identifiers, and joins and raw text free of quotes.    *)
BadIdentifier == Building({"select"}) /\ Ends("panicked")

-----------------------------------------------------------------------------------
(* execute. *)

Total(clauses) == FoldLeft(LAMBDA n, clause : n + Len(clause.vals), 0, clauses)

(* to_sql of UpdateBuilder, build_where: one counter runs through the clauses. *)
Rendered(clauses) ==
    [i \in DOMAIN clauses |->
        [wording |-> clauses[i].wording,
         marks |-> Marks(Total(SubSeq(clauses, 1, i - 1)), Len(clauses[i].vals))]]

(* The binders of the clauses, one after the other. *)
Bound(clauses) == FlattenSeq([i \in DOMAIN clauses |-> clauses[i].vals])

Send(text, args, shape) == /\ sent' = [status |-> "sent", text |-> text, args |-> args, shape |-> shape]
                           /\ UNCHANGED <<builder, asked>>

(* The placeholders of an insert are counted again. *)
InsertExecute ==
    /\ Building({"insert"})
    /\ Send([i \in DOMAIN builder.set |-> [builder.set[i] EXCEPT !.marks = <<i>>]], builder.args, {})

UpdateArgs_WhereFirst == Bound(builder.where \o builder.set)

(* Values are bound in the order of the text, whatever the order of the calls. *)
UpdateArgs == Bound(builder.set \o builder.where)

UpdateExecute ==
    /\ Building({"update"})
    /\ CASE builder.error -> Ends("refused")
         [] ~builder.error /\ builder.set = <<>> -> Ends("nothing")
         [] ~builder.error /\ builder.set # <<>> /\ builder.where = <<>> /\ ~builder.all_rows ->
                Ends("refused")
         [] OTHER -> Send(Rendered(builder.set \o builder.where), UpdateArgs, builder.shape)

DeleteExecute ==
    /\ Building({"delete"})
    /\ IF builder.where = <<>> /\ ~builder.all_rows THEN Ends("refused")
       ELSE Send(builder.where, builder.args, builder.shape)

CountExecute == Building({"count"}) /\ Send(builder.where, builder.args, {})

(* fetch_all; fetch_one asks for one row. *)
SelectFetch(one) ==
    /\ Building({"select"})
    /\ Send(Rendered(builder.where), Bound(builder.where),
            builder.shape \union (IF one THEN {"limit"} ELSE {}))

(* build_count has the joins and groups of the select, and not its page. *)
SelectCount == /\ Building({"select"})
               /\ Send(Rendered(builder.where), Bound(builder.where),
                       builder.shape \intersect {"group"})

Lists == UNION {[1 .. n -> Values] : n \in 0 .. 2}

Calls == \/ UpdateSetRaw \/ UpdateSetExprError \/ UpdateWhereText \/ DeleteWhereText
         \/ CountWhereText \/ SelectWhereText \/ All \/ LimitWrite
         \/ \E what \in {"group", "limit"} : SelectShape(what)
         \/ \E value \in Values : \/ InsertSet(value) \/ UpdateSet(value) \/ UpdateWhere(value)
                                  \/ DeleteWhere(value) \/ CountWhere(value) \/ SelectWhere(value)
                                  \/ \E count \in 1 .. 2 : UpdateSetExpr(count, value)
         \/ \E list \in Lists : \/ UpdateWhereIn(list) \/ DeleteWhereIn(list)
                                \/ CountWhereIn(list) \/ SelectWhereIn(list)

Next == \/ Calls \/ BadIdentifier
        \/ InsertExecute \/ UpdateExecute \/ DeleteExecute \/ CountExecute \/ SelectCount
        \/ \E one \in BOOLEAN : SelectFetch(one)

Spec == Init /\ [][Next]_sql

-----------------------------------------------------------------------------------
(* Properties. *)

TypeOK == /\ builder.kind \in Kinds /\ builder.shape \subseteq {"group", "limit"}
          /\ builder.param_count = Total(asked.set \o asked.where)
          /\ sent.status \in {"building", "panicked", "refused", "nothing", "sent"}

(* Each value arrives where its caller put it. The text and the arguments are made      *)
(* apart, in one of two ways; a database reads the arguments in the order of the text   *)
(* (MySQL, SQLite) or by the numbers of the placeholders (PostgreSQL), so the numbers    *)
(* have to follow the text, whatever the order of the calls, with none missing.         *)
BindsMatch ==
    sent.status = "sent" =>
        LET clauses == asked.set \o asked.where
            read == FlattenSeq([i \in DOMAIN sent.text |-> sent.text[i].marks])
        IN  /\ read = [k \in DOMAIN sent.args |-> k]
            /\ sent.args = Bound(clauses)
            /\ DOMAIN sent.text = DOMAIN clauses
            /\ \A i \in DOMAIN clauses : /\ sent.text[i].wording = clauses[i].wording
                                         /\ Len(sent.text[i].marks) = Len(clauses[i].vals)

(* A statement that changes rows names which, or its caller said all(); and an update   *)
(* one of whose expressions was wrong changes nothing.                                  *)
NoneByAccident ==
    sent.status = "sent" /\ builder.kind \in {"update", "delete"} =>
        /\ asked.where = <<>> => builder.all_rows
        /\ builder.kind = "update" => asked.set # <<>> /\ ~builder.error
==================================================================================
