--------------------------------- MODULE SchemaDiff ---------------------------------
(* karbon migrate diff (mod schema_diff in karbon-cli/src/commands/migrate.rs): the     *)
(* entities of the sources are compared with the tables of the database, and what the   *)
(* database lacks becomes a migration file. SchemaMigrations has the running of files    *)
(* in detail; here one file is one step, and what its statements do to the tables counts.*)
EXTENDS Integers, FiniteSetsExt, SequencesExt, TLC

CONSTANTS MaxEdits,  \* bound: changes of an entity
          MaxDiffs   \* bound: migration files that are ever written

DiffAssumption == {MaxEdits, MaxDiffs} \subseteq Nat

VARIABLES driver,
          entities,  \* source file -> its structs, in their order
          database,  \* table -> its columns and whether it holds rows
          files,     \* number of the migration -> the statements of its two sections
          applied,   \* numbers in the tracking table
          past       \* how many edits and diffs; the entities of the last diff; whether everything
            \* was as it should: no diff while a file was pending, no file applied by half;
            \* number -> tables and file when it was applied; the tables after a rollback,
            \* and before what it undid

diffing == <<driver, entities, database, files, applied, past>>

-----------------------------------------------------------------------------------
(* Entities. *)

Field(name, optional) == [name |-> name, optional |-> optional]
Title == Field("title", FALSE)
Managed == {"id", "created", "updated", "created_at", "updated_at"}

(* A file holds the entity with its id, and the structs to insert and to update it.     *)
Struct(fields) == [id |-> FALSE, fields |-> fields]
Identified(fields) == [id |-> TRUE, fields |-> fields]
Optional(fields) == {Field(f.name, TRUE) : f \in fields}

Sources(fields) == {<<Identified(fields), Struct(fields), Identified(Optional(fields))>>,
                    <<Struct(fields), Identified(fields), Identified(Optional(fields))>>,
                    <<Struct(fields)>>}

Fieldings == {{Title}, {Title, Field("slug", FALSE)}, {Title, Field("slug", TRUE)},
              {Title, Field("created_at", TRUE)}}

find_entity_struct_Last(structs) ==
    {structs[i].fields : i \in {i \in DOMAIN structs : structs[i].id
                                   /\ \A j \in i + 1 .. Len(structs) : ~structs[j].id}}

(* The first struct with an id; a file without one is no entity. *)
find_entity_struct(structs) ==
    {structs[i].fields : i \in {i \in DOMAIN structs : structs[i].id
                                   /\ \A j \in 1 .. i - 1 : ~structs[j].id}}

(* rust_to_sql: a type of the driver, and NOT NULL unless the field is an Option.       *)
Column_Required(f) == [name |-> f.name, null |-> FALSE, unique |-> FALSE]
Column(f) == [name |-> f.name, null |-> f.optional, unique |-> FALSE]

(* A table is named as its file here: table_name, or the plural of the struct. *)
parse_entities ==
    [file \in {file \in DOMAIN entities : find_entity_struct(entities[file]) # {}} |->
        {Column(f) : f \in {f \in UNION find_entity_struct(entities[file]) : f.name \notin Managed}}]

-----------------------------------------------------------------------------------
(* Statements, and what the database makes of them. *)

CreateTable(t, columns) == [do |-> "create", table |-> t, columns |-> columns]
DropTable(t) == [do |-> "drop", table |-> t, columns |-> {}]
AddColumn(t, column) == [do |-> "add", table |-> t, columns |-> {column}]
DropColumn(t, column) == [do |-> "remove", table |-> t, columns |-> {column}]

(* The columns the table gets with every CREATE; the slug is unique there, and only     *)
(* there: an added column never is.                                                     *)
Given == {[name |-> n, null |-> FALSE, unique |-> FALSE] : n \in {"id", "created", "updated"}}
create_table_sql(columns) == Given \union {[c EXCEPT !.unique = c.name = "slug"] : c \in columns}

NamesIn(columns) == {c.name : c \in columns}
Has(db, s) == NamesIn(s.columns) \subseteq NamesIn(db[s.table].columns)

(* A column that may not be NULL is refused for rows that are there, but by MySQL,      *)
(* which fills it.                                                                      *)
Accepts(db, s) ==
    CASE s.do \in {"create", "drop"} -> TRUE
      [] s.do = "add" -> /\ s.table \in DOMAIN db
                         /\ ~Has(db, s)
                         /\ \/ driver = "mysql" \/ ~db[s.table].rows
                            \/ \A c \in s.columns : c.null
      [] OTHER -> s.table \in DOMAIN db /\ Has(db, s)

(* IF NOT EXISTS and IF EXISTS pass over what is there or is not. *)
Effect(db, s) ==
    CASE s.do = "create" -> db @@ (s.table :> [columns |-> create_table_sql(s.columns), rows |-> FALSE])
      [] s.do = "drop" -> [t \in DOMAIN db \ {s.table} |-> db[t]]
      [] s.do = "add" -> [db EXCEPT ![s.table].columns = @ \union s.columns]
      [] OTHER -> [db EXCEPT ![s.table].columns =
                      {c \in @ : c.name \notin NamesIn(s.columns)}]

(* A script stops at the first refusal; PostgreSQL then takes back the whole of it.     *)
Script(statements) ==
    LET Do(r, s) == IF r.ok /\ Accepts(r.db, s) THEN [r EXCEPT !.db = Effect(r.db, s)]
                    ELSE [r EXCEPT !.ok = FALSE]
        result == FoldLeft(Do, [ok |-> TRUE, db |-> database], statements)
    IN  IF ~result.ok /\ driver = "postgres" THEN [ok |-> FALSE, db |-> database] ELSE result

-----------------------------------------------------------------------------------
(* The diff. *)

Lacking(t) == {c \in parse_entities[t] : c.name \notin NamesIn(database[t].columns)}

(* Per table: CREATE what is not there, ADD the columns that a table lacks. Nothing is   *)
(* ever dropped or altered by an up section.                                            *)
Ups(t) == IF t \notin DOMAIN database THEN <<CreateTable(t, parse_entities[t])>>
          ELSE SetToSeq({AddColumn(t, c) : c \in Lacking(t)})
Downs_Table(t) == <<DropTable(t)>>
Downs(t) == IF t \notin DOMAIN database THEN <<DropTable(t)>>
            ELSE SetToSeq({DropColumn(t, c) : c \in Lacking(t)})

Changed == SetToSeq(DOMAIN parse_entities)
Changes == FlattenSeq([i \in DOMAIN Changed |-> Ups(Changed[i])])
Undoing == FlattenSeq([i \in DOMAIN Changed |-> Downs(Changed[i])])

next_number_Last == Max(DOMAIN files \union {1})
next_number == Max(DOMAIN files \union {0}) + 1

Pending == DOMAIN files \ applied
Tables(db) == [t \in DOMAIN db |-> db[t].columns]

Diff == /\ DOMAIN parse_entities # {} /\ Changes # <<>> /\ past.diffs < MaxDiffs
        /\ files' = (next_number :> [up |-> Changes, down |-> Undoing]) @@ files
        /\ past' = [past EXCEPT !.diffs = @ + 1, !.diffed = entities,
                                !.clean = @ /\ Pending = {}]
        /\ UNCHANGED <<driver, entities, database, applied>>

(* karbon migrate, file by file: the first that is pending; one that fails stays so.    *)
Apply == /\ Pending # {}
         /\ LET v == Min(Pending)  r == Script(files[v].up)
            IN  /\ database' = r.db
                /\ applied' = IF r.ok THEN applied \union {v} ELSE applied
                /\ past' = [past EXCEPT !.clean = @ /\ (r.ok \/ r.db = database),
                                        !.taken = (v :> [tables |-> Tables(database),
                                                         file |-> files[v]]) @@ @]
         /\ UNCHANGED <<driver, entities, files>>

Rollback == /\ applied # {}
            /\ LET v == Max(applied)  r == Script(files[v].down)
               IN  /\ database' = r.db
                   /\ applied' = IF r.ok THEN applied \ {v} ELSE applied
                   /\ past' = [past EXCEPT !.undone = <<Tables(r.db), past.taken[v].tables>>,
                                           !.clean = @ /\ r.ok]
            /\ UNCHANGED <<driver, entities, files>>

-----------------------------------------------------------------------------------
(* The developer, who may also throw a file away that was not applied, and the rows of  *)
(* the running application.                                                             *)

Edit == /\ past.edits < MaxEdits
        /\ \E file \in DOMAIN entities, structs \in UNION {Sources(fields) : fields \in Fieldings} :
               structs # entities[file] /\ entities' = [entities EXCEPT ![file] = structs]
        /\ past' = [past EXCEPT !.edits = @ + 1]
        /\ UNCHANGED <<driver, database, files, applied>>

Discard == /\ \E v \in Pending : files' = [n \in DOMAIN files \ {v} |-> files[n]]
           /\ past' = [past EXCEPT !.diffed = <<>>]
           /\ UNCHANGED <<driver, entities, database, applied>>

Insert == /\ \E t \in DOMAIN database : database' = [database EXCEPT ![t].rows = TRUE]
          /\ UNCHANGED <<driver, entities, files, applied, past>>

Init == /\ driver \in {"mysql", "postgres", "sqlite"}
        /\ entities \in {[f \in {"posts"} |-> s] : s \in Sources({Title})}
        /\ database = <<>> /\ files = <<>> /\ applied = {}
        /\ past = [edits |-> 0, diffs |-> 0, diffed |-> <<>>, clean |-> TRUE, taken |-> <<>>,
                   undone |-> <<>>]

Next == Diff \/ Apply \/ Rollback \/ Edit \/ Discard \/ Insert

Spec == Init /\ [][Next]_diffing

-----------------------------------------------------------------------------------
(* Properties. *)

TypeOK == applied \subseteq DOMAIN files /\ DOMAIN database \subseteq DOMAIN entities

(* The entity of a file: the struct that has exactly the fields that may be inserted.   *)
Entity(structs) == CHOOSE s \in ToSet(structs) : s.id /\ Struct(s.fields) \in ToSet(structs)
Meant(file) == IF \E i \in DOMAIN entities[file] : entities[file][i].id
               THEN {f \in Entity(entities[file]).fields : f.name \notin Managed} ELSE {}

(* Whether a column came with the last file that was applied. *)
CameLast(file, name) ==
    LET before == past.taken[Max(DOMAIN files)].tables
    IN  file \in DOMAIN before => name \notin NamesIn(before[file])

(* "The entities are the source of truth": when the last diff of these entities has     *)
(* been applied, every field of an entity is a column of its table, and one that came    *)
(* with this diff may be NULL exactly if its field is an Option - unless a diff was made *)
(* while another was pending (whose CREATE TABLE IF NOT EXISTS then hides it), or a file *)
(* was applied by half. A column that was there keeps its NULL or NOT NULL, whatever its *)
(* field has become: a diff alters nothing.                                              *)
DatabaseFollows ==
    past.clean /\ Pending = {} /\ past.diffed = entities =>
        \A file \in DOMAIN entities : \A f \in Meant(file) :
            /\ file \in DOMAIN database
            /\ \E c \in database[file].columns :
                   c.name = f.name /\ (CameLast(file, f.name) => c.null = f.optional)
            /\ f = Title => [name |-> "title", null |-> FALSE, unique |-> FALSE] \in database[file].columns

(* A rollback gives back the tables as they were before the file it undoes, also after  *)
(* entities were edited, files thrown away and others applied, within the same limits.  *)
RollbackRestores == past.clean /\ past.undone # <<>> => past.undone[1] = past.undone[2]

(* What is recorded as applied is what was applied: no number is given twice. *)
NumbersAreNew == \A v \in applied : files[v] = past.taken[v].file
==================================================================================
