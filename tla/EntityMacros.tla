------------------------------- MODULE EntityMacros -------------------------------
(* The statements that the derives Insertable and Updatable write for a struct:        *)
(* karbon-macros/src/lib.rs. The columns, the placeholders and the calls of bind come  *)
(* out of separate loops over the fields, some at compile time and some at run time.   *)
EXTENDS Integers, FiniteSets, SequencesExt

CONSTANTS Names,     \* names of fields
          MaxFields  \* bound: fields of a struct

EntityAssumption == MaxFields \in Nat

VARIABLES struct,   \* the derive, its struct and the fields in their order
          value,    \* the values of an instance; 0 is None, or an empty text
          outcome   \* what became of the derive, or of the call on the instance

entity == <<struct, value, outcome>>

Drivers == {"mysql", "postgres", "sqlite"}

(* The attributes of a field; slug_from names another one. *)
Attributes(derive) == IF derive = "insert" THEN {"auto_increment", "skip_insert"}
                      ELSE {"primary_key", "skip_update"}

None == "none"

Fields(derive) == [name : Names, option : BOOLEAN, attrs : SUBSET Attributes(derive),
                   slug_from : IF derive = "insert" THEN Names \union {None} ELSE {None}]

Structs(derive) ==
    [derive : {derive}, table_name : BOOLEAN, timestamps : BOOLEAN,
     fields : UNION {{fs \in [1 .. n -> Fields(derive)] :
                         Cardinality({fs[i].name : i \in 1 .. n}) = n} : n \in 0 .. MaxFields}]

Init == /\ struct \in Structs("insert") \union Structs("update")
        /\ value \in [Names -> 0 .. 1]
        /\ outcome = [status |-> "none"]

-----------------------------------------------------------------------------------

Without(attrs) == SelectSeq(struct.fields, LAMBDA f : f.attrs \intersect attrs = {})

ColumnsOf(fields) == [i \in DOMAIN fields |-> fields[i].name]

(* The first primary key counts, and the others are no part of the SET. *)
Keys == SelectSeq(struct.fields, LAMBDA f : "primary_key" \in f.attrs)

(* Insertable: every field that is not generated, then created_at. *)
insert_fields == Without({"auto_increment", "skip_insert"})

TextField(name) == \E i \in DOMAIN struct.fields :
                       struct.fields[i].name = name /\ ~struct.fields[i].option

(* A derive needs a table, an update its key; and a slug is made from a text field, for *)
(* a text field: the code the macro writes has is_empty of one and slugify of the other. *)
Compiles == /\ struct.table_name
            /\ struct.derive = "update" => Keys # <<>>
            /\ struct.derive = "insert" =>
                   \A i \in DOMAIN insert_fields :
                       insert_fields[i].slug_from # None =>
                           ~insert_fields[i].option /\ TextField(insert_fields[i].slug_from)

Now == "now"
Given(name) == <<name, value[name]>>

(* A slug that was given stays, an empty one is made from its source. *)
InsertValue(f) == IF f.slug_from # None /\ value[f.name] = 0
                  THEN <<"slug", Given(f.slug_from)>> ELSE Given(f.name)

Stamped(seq, stamp) == IF struct.timestamps THEN Append(seq, stamp) ELSE seq

column_names == Stamped(ColumnsOf(insert_fields), "created_at")

InsertArgs == Stamped([i \in DOMAIN insert_fields |-> InsertValue(insert_fields[i])], Now)

(* Updatable: Some is written, None is left out, a field that is no Option is always    *)
(* written; then updated_at, and the key of the WHERE last.                             *)
update_fields == SelectSeq(Without({"primary_key", "skip_update"}),
                           LAMBDA f : f.option => value[f.name] # 0)

set_clauses == Stamped(ColumnsOf(update_fields), "updated_at")

UpdateBinds == Stamped([i \in DOMAIN update_fields |-> Given(update_fields[i].name)], Now)

UpdateArgs_KeyFirst == <<Given(Keys[1].name)>> \o UpdateBinds

(* The calls of bind: the fields, the time, the key. *)
UpdateArgs == Append(UpdateBinds, Given(Keys[1].name))

-----------------------------------------------------------------------------------

(* db::placeholder *)
placeholder(driver, n) == IF driver = "postgres" THEN <<"$", n>> ELSE <<"?">>

Ends(o) == outcome' = o /\ UNCHANGED <<struct, value>>
Ready == outcome.status = "none"

CompileError == Ready /\ ~Compiles /\ Ends([status |-> "compile error"])

(* The text is a literal, made when the struct is compiled: a ? for every column. *)
Insert(driver) ==
    /\ Ready /\ Compiles /\ struct.derive = "insert"
    /\ Ends([status |-> "sent", driver |-> driver, columns |-> column_names,
             marks |-> [i \in DOMAIN column_names |-> <<"?">>], args |-> InsertArgs])

Update(driver) ==
    /\ Ready /\ Compiles /\ struct.derive = "update"
    /\ IF set_clauses = <<>> THEN Ends([status |-> "nothing"])
       ELSE Ends([status |-> "sent", driver |-> driver,
                  columns |-> Append(set_clauses, Keys[1].name),
                  marks |-> [i \in 1 .. Len(set_clauses) + 1 |-> placeholder(driver, i)],
                  args |-> UpdateArgs])

Next == CompileError \/ \E driver \in Drivers : Insert(driver) \/ Update(driver)

Spec == Init /\ [][Next]_entity

-----------------------------------------------------------------------------------
(* Properties. *)

TypeOK == outcome.status \in {"none", "compile error", "nothing", "sent"}

(* The value that the i-th placeholder, in the order of the text, is read with.         *)
Sent(col, val) == \E i \in DOMAIN outcome.columns :
                      outcome.columns[i] = col /\ outcome.args[i] = val

Left(f) == \/ f.attrs # {}
           \/ struct.derive = "update" /\ f.option /\ value[f.name] = 0

(* What is sent is what the struct says: each column gets the value of its own field    *)
(* (an empty slug that of its source), None leaves a column alone, generated columns    *)
(* are not written, the time is, and an update is for the row of its key and no other.  *)
ColumnsGetTheirFields ==
    outcome.status = "sent" =>
        /\ Len(outcome.args) = Len(outcome.columns) /\ Len(outcome.marks) = Len(outcome.columns)
        /\ \A f \in ToSet(struct.fields) :
               /\ ~Left(f) => Sent(f.name, IF f.slug_from # None /\ value[f.name] = 0
                                           THEN <<"slug", Given(f.slug_from)>> ELSE Given(f.name))
               /\ Left(f) /\ "primary_key" \notin f.attrs => f.name \notin ToSet(outcome.columns)
        /\ struct.timestamps =>
               Sent(IF struct.derive = "insert" THEN "created_at" ELSE "updated_at", Now)
        /\ struct.derive = "update" =>
               /\ Last(outcome.columns) = Keys[1].name /\ Last(outcome.args) = Given(Keys[1].name)
               /\ \A f \in ToSet(Tail(Keys)) : f.name \notin ToSet(outcome.columns)

(* Drivers are switched with a feature flag (README.md:31): the text that a derive      *)
(* writes has the placeholders of whichever driver it is for.                           *)
EveryDriverInserts ==
    outcome.status = "sent" =>
        \A i \in DOMAIN outcome.marks : outcome.marks[i] = placeholder(outcome.driver, i)
==================================================================================
