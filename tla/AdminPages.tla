--------------------------------- MODULE AdminPages --------------------------------
(* The admin pages that karbon generate admin writes for an entity                     *)
(* (ADMIN_CONTROLLER_TEMPLATE in commands/generate.rs) with the forms they use         *)
(* (form/mod.rs, form/field.rs) and the script in the page: a value is shown as a text,*)
(* edited in one of several tabs, checked, turned back into a value and stored. Values *)
(* are named by a text each; "null" is NULL.                                           *)
EXTENDS Integers, Sequences

CONSTANTS Tabs,     \* pages that are open in browsers
          MaxRows,  \* bound: rows that are ever in the table
          MaxPosts  \* bound: forms that are sent

(* There is a row from the start. *)
AdminAssumption == MaxRows \in Nat \ {0} /\ MaxPosts \in Nat

VARIABLES columns,  \* column -> its kind and whether it may be NULL
          table,    \* id -> row
          tabs,     \* tab -> the page in it
          posts,    \* how many forms were sent, and the next id of the table
          saved     \* the last row that was stored: as it was, as it is, what was typed

admin == <<columns, table, tabs, posts, saved>>

-----------------------------------------------------------------------------------
(* Texts and values. *)

Names == {"first", "second"}
FieldKinds == {"string", "int", "bool", "datetime", "json"}

Null == "null"
Lined == "x with a line break"

ValuesOf(kind) == CASE kind = "string" -> {"", "x", Lined} [] kind = "int" -> {"0", "7"}
                    [] kind = "bool" -> {"false", "true"} [] kind = "datetime" -> {"past"}
                    [] OTHER -> {"{}", "json null"}

(* display_expr: a time is written with a space in it, NULL as an empty text. *)
Shown(kind, value) == IF value = Null THEN ""
                      ELSE IF kind = "datetime" THEN value \o " with a space" ELSE value

(* Every field is an input of one line: a browser leaves line breaks out of its text.   *)
InInput(text) == IF text = Lined THEN "x" ELSE text

(* What the types parse: a time only with a T in it. *)
ParsesAs(kind, text) == CASE kind = "int" -> text \in {"0", "7"}
                          [] kind = "bool" -> TRUE
                          [] kind = "datetime" -> text = "past with a T"
                          [] kind = "json" -> text \in {"{}", "json null"}
                          [] OTHER -> TRUE

Meant(kind, text) == CASE kind = "bool" -> IF text = "true" THEN "true" ELSE "false"
                       [] kind = "datetime" -> "past" [] OTHER -> text

Instead(kind) == CASE kind = "int" -> "0" [] kind = "datetime" -> "now" [] OTHER -> "json null"

base_coerce_Null(kind, text) == IF ParsesAs(kind, text) THEN Meant(kind, text) ELSE Null
base_coerce(kind, text) == IF ParsesAs(kind, text) THEN Meant(kind, text) ELSE Instead(kind)

opt_coerce(kind, text) == CASE kind = "bool" -> Meant(kind, text)
                            [] kind # "bool" /\ text # "" /\ ParsesAs(kind, text) -> Meant(kind, text)
                            [] OTHER -> Null

-----------------------------------------------------------------------------------
(* Form::handle: every field is bound and checked, in a form that is built anew. *)

Blank == {"", " "}
Required(name) == ~columns[name].nullable

Validates(name, text) == Required(name) => text \notin Blank

Handles(data) == \A name \in Names : Validates(name, data[name])

(* create builds New with what may be NULL; update gives every column a value. *)
Created(data) == [name \in Names |-> IF columns[name].nullable
                                     THEN opt_coerce(columns[name].kind, data[name])
                                     ELSE base_coerce(columns[name].kind, data[name])]
Updated(data) == [name \in Names |-> base_coerce(columns[name].kind, data[name])]

-----------------------------------------------------------------------------------
(* The pages. *)

List == [at |-> "list", rows |-> DOMAIN table]
Form(id, row) == [at |-> "form", id |-> id, of |-> row,
                  shown |-> [name \in Names |-> InInput(Shown(columns[name].kind, row[name]))]]
EmptyRow == [name \in Names |-> Null]

Opens(t, page) == tabs' = [tabs EXCEPT ![t] = page] /\ UNCHANGED <<columns, table, posts, saved>>

Index(t) == Opens(t, List)
NewForm(t) == Opens(t, Form(0, EmptyRow))

(* edit_form: a row that is gone leads back to the list. *)
Page(id) == IF id \in DOMAIN table THEN Form(id, table[id]) ELSE List
EditForm(t, id) == tabs[t].at = "list" /\ id \in tabs[t].rows /\ Opens(t, Page(id))

(* The script sends the form; an answer that is no redirect, as the one with the errors *)
(* in it, is thrown away and the page is loaded again.                                  *)
Refused(t) == /\ tabs' = [tabs EXCEPT ![t] = IF @.id = 0 THEN Form(0, EmptyRow) ELSE Page(@.id)]
              /\ UNCHANGED <<table, saved>>

WithRow(id, row) == [i \in DOMAIN table \union {id} |-> IF i = id THEN row ELSE table[i]]

Stores(t, data) ==
    LET id == tabs[t].id IN
    /\ table' = CASE id = 0 -> WithRow(posts.next, Created(data))
                  [] id \in DOMAIN table -> WithRow(id, Updated(data))
                  [] OTHER -> table
    /\ saved' = IF id \in DOMAIN table
                THEN [before |-> table[id], opened |-> tabs[t].of, now |-> Updated(data),
                      typed |-> data, shown |-> tabs[t].shown]
                ELSE saved
    /\ tabs' = [tabs EXCEPT ![t] = [at |-> "list", rows |-> DOMAIN table']]

(* A field is left as it was shown, or a text is typed into it. *)
Typed(kind) == {"", " ", "x"}
    \union (IF kind = "datetime" THEN {"past with a T"} ELSE ValuesOf(kind) \ {Lined})

Submit(t, data) == /\ tabs[t].at = "form" /\ posts.sent < MaxPosts
                   /\ \A name \in Names :
                          data[name] \in Typed(columns[name].kind) \union {tabs[t].shown[name]}
                   /\ tabs[t].id = 0 => posts.next <= MaxRows
                   /\ UNCHANGED columns
                   /\ posts' = [sent |-> posts.sent + 1, next |-> posts.next
                                    + (IF Handles(data) /\ tabs[t].id = 0 THEN 1 ELSE 0)]
                   /\ IF Handles(data) THEN Stores(t, data) ELSE Refused(t)

Delete(t, id) == /\ tabs[t].at = "list" /\ id \in tabs[t].rows /\ posts.sent < MaxPosts
                 /\ table' = [i \in DOMAIN table \ {id} |-> table[i]]
                 /\ tabs' = [tabs EXCEPT ![t] = [at |-> "list", rows |-> DOMAIN table']]
                 /\ posts' = [posts EXCEPT !.sent = @ + 1] /\ UNCHANGED <<columns, saved>>

Rows(cols) == {row \in [Names -> {Null} \union UNION {ValuesOf(k) : k \in FieldKinds}] :
                   \A name \in Names :
                       \/ row[name] = Null /\ cols[name].nullable
                       \/ row[name] \in ValuesOf(cols[name].kind)}

Nothing == [before |-> EmptyRow, opened |-> EmptyRow, now |-> EmptyRow,
            typed |-> EmptyRow, shown |-> [name \in Names |-> "nothing"]]

Texts == {"past with a space"} \union UNION {Typed(k) : k \in FieldKinds}

(* The second column is a required string: what matters of two columns is that one may  *)
(* be refused while the other is not.                                                   *)
Init == /\ columns \in {[name \in Names |-> IF name = "first" THEN [kind |-> k, nullable |-> n]
                                            ELSE [kind |-> "string", nullable |-> FALSE]] :
                        k \in FieldKinds, n \in BOOLEAN}
        /\ table \in {[id \in {1} |-> row] : row \in Rows(columns)}
        /\ tabs = [t \in Tabs |-> [at |-> "list", rows |-> {1}]]
        /\ posts = [sent |-> 0, next |-> 2] /\ saved = Nothing

Next == \E t \in Tabs :
            \/ Index(t) \/ NewForm(t)
            \/ \E id \in 1 .. MaxRows : EditForm(t, id) \/ Delete(t, id)
            \/ \E data \in [Names -> Texts] : Submit(t, data)

Spec == Init /\ [][Next]_admin

-----------------------------------------------------------------------------------
(* Properties. *)

TypeOK == /\ DOMAIN table \subseteq 1 .. MaxRows /\ posts.sent \in 0 .. MaxPosts
          /\ \A t \in Tabs : tabs[t].at \in {"list", "form"}

(* Whatever is typed, a column that may not be NULL gets a value, and a required text   *)
(* that was given through a form is not blank.                                          *)
RowsAreValid ==
    /\ \A id \in DOMAIN table, name \in Names : Required(name) => table[id][name] # Null
    /\ saved # Nothing => \A name \in Names :
           Required(name) /\ columns[name].kind = "string" => saved.now[name] \notin Blank

(* Who saves a form and leaves a field as it was shown leaves the column as it was when *)
(* the form was opened. That is so but for three: NULL becomes a value, a time becomes  *)
(* the time of the save, and a text of several lines becomes one of a single line.      *)
UntouchedStays ==
    \A name \in Names :
        /\ saved.typed[name] = saved.shown[name]
        /\ saved.opened[name] \notin {Null, Lined} /\ columns[name].kind # "datetime"
        => saved.now[name] = saved.opened[name]
==================================================================================
