------------------------------ MODULE RoleHierarchy -------------------------------
(* The roles an application runs with: security/role_hierarchy.rs, role_file.rs and    *)
(* the two readers, security_yaml.rs and security_toml.rs. The file is read line by    *)
(* line, checked for cycles by a depth-first search, and then asked which roles a user *)
(* has. Lines are what is left of comments, quotes and blanks; the text of the toml    *)
(* crate's own syntax errors is not modelled.                                          *)
EXTENDS Integers, SequencesExt, FiniteSetsExt, TLC

CONSTANTS Roles,        \* names that are valid
          MaxLines,     \* bound: lines of a file after its two headers
          MAX_ROLES, MAX_CHILDREN

RolesAssumption == MaxLines \in Nat /\ MAX_ROLES \in Nat /\ MAX_CHILDREN \in Nat

VARIABLES files,    \* what the application finds when it starts
          lines,    \* the lines read so far
          parser,   \* what the reader expects, and the entries it made of the lines
          search,   \* the depth-first search through the entries, or through the answer
          app       \* how far the application has come, and its hierarchy

roleFile == <<files, lines, parser, search, app>>

BadName == "ROLE_?"
Block == <<"block">>      \* an entry without a value: a list of items is to follow
NoIndent == -1

Entry(role, children) == [role |-> role, children |-> children]

default_hierarchy == <<>>  \* the roles of this model are none of the default ones

Init == /\ files \in [explicit : BOOLEAN, yaml : {"absent", "fine", "refused"},
                      toml : {"absent", "fine"}]
        /\ lines = <<>>
        /\ parser = [need |-> "security", section |-> NoIndent, entry |-> NoIndent,
                     item |-> NoIndent, entries |-> <<>>]
        /\ search = [path |-> <<>>, next |-> 1, done |-> {}]
        /\ app = [at |-> "starting"]

Refuse(why) == app' = [at |-> "refused", why |-> why]

Runs(entries, from) == app' = [at |-> "running", hierarchy |-> entries, from |-> from]

-----------------------------------------------------------------------------------
(* resolve_app_hierarchy, find_security_file, read_file. *)

(* A hierarchy set in code is not checked: it may hold a cycle. *)
Explicit(entries) == /\ app.at = "starting" /\ files.explicit
                     /\ Runs(entries, "set by the application")
                     /\ UNCHANGED <<files, lines, parser, search>>

Present == {f \in {"yaml", "toml"} : files[f] # "absent"}

(* A file that cannot be read, is too large or that everybody can write. *)
Refused(f) == files[f] = "refused"

FindFile == /\ app.at = "starting" /\ ~files.explicit
            /\ CASE Present = {} -> Runs(default_hierarchy, "default")
                 [] Cardinality(Present) = 2 -> Refuse("ambiguous")
                 [] \E f \in Present : Refused(f) /\ Present = {f} -> Refuse("file")
                 [] OTHER -> app' = [at |-> "reading"]
            /\ UNCHANGED <<files, lines, parser, search>>

-----------------------------------------------------------------------------------
(* The readers. *)

Syntax == IF files.yaml = "fine" THEN "yaml" ELSE "toml"

Line(indent, kind, role, value) ==
    [indent |-> indent, kind |-> kind, role |-> role, value |-> value]

is_valid_role(name) == name \in Roles
ValidEntry(line) ==
    /\ line.kind = "entry" /\ is_valid_role(line.role)
    /\ line.value = Block \/ \A i \in DOMAIN line.value : is_valid_role(line.value[i])

Reads(line, p) == /\ lines' = Append(lines, line)
                  /\ parser' = p
                  /\ UNCHANGED <<files, search, app>>

Rejects(line) == /\ lines' = Append(lines, line)
                 /\ Refuse("syntax")
                 /\ UNCHANGED <<files, parser, search>>

Header(line) ==
    CASE parser.need = "security" /\ line.kind = "security" /\ line.indent = 0 ->
             Reads(line, [parser EXCEPT !.need = "section"])
      [] parser.need = "section" /\ line.kind = "section" /\ line.indent > 0 ->
             Reads(line, [parser EXCEPT !.need = "entry", !.section = line.indent])
      [] OTHER -> Rejects(line)

(* parse_entries: every entry is as deep as the first one. *)
EntryLine(line) ==
    IF /\ line.indent > parser.section
       /\ parser.entry \in {NoIndent, line.indent}
       /\ ValidEntry(line)
    THEN Reads(line, [parser EXCEPT
                         !.need = IF line.value = Block THEN "items" ELSE "entry",
                         !.entry = line.indent, !.item = NoIndent,
                         !.entries = Append(@, Entry(line.role, IF line.value = Block THEN <<>>
                                                                ELSE line.value))])
    ELSE Rejects(line)

(* parse_block_list: an item may stand as deep as its entry. *)
EndsList(line) == line.kind # "item" \/ line.indent < parser.entry

Item(line) ==
    IF is_valid_role(line.role) /\ parser.item \in {NoIndent, line.indent}
    THEN Reads(line, [parser EXCEPT
                         !.item = line.indent,
                         !.entries[Len(parser.entries)].children = Append(@, line.role)])
    ELSE Rejects(line)

ListIsEmpty == parser.need = "items" /\ parser.item = NoIndent

ReadYaml(line) ==
    /\ app.at = "reading" /\ Syntax = "yaml"
    /\ CASE parser.need \in {"security", "section"} -> Header(line)
         [] parser.need = "entry" -> EntryLine(line)
         [] parser.need = "items" ->
                IF ~EndsList(line) THEN Item(line)
                ELSE IF ListIsEmpty THEN Rejects(line) ELSE EntryLine(line)

(* [security.role_hierarchy] is one line, and indentation means nothing. A role that is *)
(* declared twice is an error of the toml crate.                                       *)
TomlHeader(line) == IF line.kind = "section" THEN Reads(line, [parser EXCEPT !.need = "entry"])
                    ELSE Rejects(line)

ReadToml(line) ==
    /\ app.at = "reading" /\ Syntax = "toml"
    /\ CASE parser.need = "security" -> TomlHeader(line)
         [] OTHER ->
              IF /\ ValidEntry(line) /\ line.value # Block
                 /\ \A i \in DOMAIN parser.entries : parser.entries[i].role # line.role
              THEN Reads(line, [parser EXCEPT !.entries = Append(@, Entry(line.role, line.value))])
              ELSE Rejects(line)

(* validate: each role once, never its own child, each child once; then the limits. *)
Sound(entries) ==
    /\ \A i, j \in DOMAIN entries : i # j => entries[i].role # entries[j].role
    /\ \A i \in DOMAIN entries : /\ entries[i].role \notin ToSet(entries[i].children)
                                 /\ IsInjective(entries[i].children)
                                 /\ Len(entries[i].children) <= MAX_CHILDREN
    /\ Len(entries) <= MAX_ROLES

(* The end of the file. Without a section the application runs with the default roles; *)
(* an empty section is a hierarchy without entries.                                    *)
EndOfFile ==
    /\ app.at = "reading"
    /\ CASE parser.need \in {"security", "section"} -> Runs(default_hierarchy, "default")
         [] ListIsEmpty -> Refuse("syntax")
         [] OTHER -> IF Sound(parser.entries) THEN app' = [at |-> "checking"]
                     ELSE Refuse("entries")
    /\ UNCHANGED <<files, lines, parser, search>>

-----------------------------------------------------------------------------------
(* check_cycles and visit: the recursion is a path of roles, each with the number of   *)
(* the child it visits next. resolve_recursive walks the same way without a path.      *)

Children(entries, role) ==
    LET found == {i \in DOMAIN entries : entries[i].role = role}
    IN  IF found = {} THEN <<>> ELSE entries[Max(found)].children

Visit(role) ==
    IF \E i \in DOMAIN search.path : search.path[i].role = role THEN "cycle"
    ELSE IF role \in search.done THEN "done" ELSE "new"

Pushed(path, role) == Append(path, [role |-> role, child |-> 1])
Deeper_Two(path) == [path EXCEPT ![Len(path)].child = @ + 2]
Deeper(path) == [path EXCEPT ![Len(path)].child = @ + 1]

(* visit is called on a role, by the loop or by the role above it in the path. *)
Calls(role, path, next) ==
    CASE Visit(role) = "cycle" -> Refuse("cycle") /\ UNCHANGED search
      [] Visit(role) = "done" -> /\ search' = [search EXCEPT !.path = path, !.next = next]
                                 /\ UNCHANGED app
      [] OTHER -> /\ search' = [search EXCEPT !.path = Pushed(path, role), !.next = next]
                  /\ UNCHANGED app

(* done is written when a role is left, not when it is entered: the path tells a cycle *)
(* from a role that is reached twice.                                                  *)
Leave == /\ search' = [search EXCEPT !.path = Front(@),
                                     !.done = @ \union {Last(search.path).role}]
         /\ UNCHANGED app

CheckCycles ==
    /\ app.at = "checking"
    /\ IF search.path = <<>>
       THEN IF search.next > Len(parser.entries)
            THEN Runs(parser.entries, Syntax) /\ UNCHANGED search
            ELSE Calls(parser.entries[search.next].role, <<>>, search.next + 1)
       ELSE LET top == Last(search.path)
                children == Children(parser.entries, top.role)
            IN  IF top.child > Len(children) THEN Leave
                ELSE Calls(children[top.child], Deeper(search.path), search.next)
    /\ UNCHANGED <<files, lines, parser>>

-----------------------------------------------------------------------------------
(* has_role, resolve and resolve_recursive. *)

Ask(user, required) ==
    /\ app.at = "running"
    /\ app' = [at |-> "resolving", hierarchy |-> app.hierarchy, from |-> app.from,
               user |-> user, required |-> required]
    /\ search' = [path |-> <<>>, next |-> 1, done |-> {}]
    /\ UNCHANGED <<files, lines, parser>>

Answers(granted) == app' = [app EXCEPT !.at = "answered"] @@ [granted |-> granted]

Resolves(role, path, next) ==
    search' = IF role \in search.done THEN [search EXCEPT !.path = path, !.next = next]
              ELSE [path |-> Pushed(path, role), next |-> next,
                    done |-> search.done \union {role}]

Resolve ==
    /\ app.at = "resolving"
    /\ IF search.path = <<>>
       THEN IF app.required \in ToSet(app.user) \/ search.next > Len(app.user)
            THEN /\ Answers(app.required \in ToSet(app.user) \union search.done)
                 /\ UNCHANGED search
            ELSE Resolves(app.user[search.next], <<>>, search.next + 1) /\ UNCHANGED app
       ELSE LET top == Last(search.path)
                children == Children(app.hierarchy, top.role)
            IN  /\ IF top.child > Len(children)
                   THEN search' = [search EXCEPT !.path = Front(@)]
                   ELSE Resolves(children[top.child], Deeper(search.path), search.next)
                /\ UNCHANGED app
    /\ UNCHANGED <<files, lines, parser>>

-----------------------------------------------------------------------------------

(* Values of an entry: none, an empty list, one name; two names come in items. *)
ValuesOf == {Block, <<>>} \union {<<r>> : r \in Roles}

Body == {Line(i, "entry", r, v) : i \in {1, 2}, r \in Roles, v \in ValuesOf}
          \union {Line(i, "item", r, <<>>) : i \in {2, 3}, r \in Roles \union {BadName}}
          \union {Line(1, "other", BadName, <<>>), Line(2, "entry", BadName, <<>>)}

Inputs == IF parser.need \in {"security", "section"}
          THEN {Line(0, "security", BadName, <<>>), Line(1, "section", BadName, <<>>),
                Line(0, "other", BadName, <<>>)}
          ELSE Body

Next == \/ \E r, s \in Roles : Explicit(<<Entry(r, <<s>>), Entry(s, <<r>>)>>)
        \/ FindFile
        \/ Len(lines) < MaxLines + 2 /\ \E line \in Inputs : ReadYaml(line) \/ ReadToml(line)
        \/ EndOfFile \/ CheckCycles
        \/ \E r, s \in Roles : Ask(<<r>>, s) \/ (files.explicit /\ \E t \in Roles : Ask(<<r, s>>, t))
        \/ Resolve

Spec == Init /\ [][Next]_roleFile

-----------------------------------------------------------------------------------
(* Properties. *)

TypeOK == /\ app.at \in {"starting", "refused", "reading", "checking", "running", "resolving",
                         "answered"}
          /\ search.done \subseteq Roles
          /\ Len(lines) <= MaxLines + 2

(* The entries as a person reads them: one for each line with a colon, its children on *)
(* the line or in the items below it.                                                  *)
Heads == {i \in DOMAIN lines : lines[i].kind = "entry"}
ItemsBelow(i) == SelectInSubSeq(lines, i + 1, Len(lines), LAMBDA line : line.kind # "item")
ListEnd(i) == IF ItemsBelow(i) = 0 THEN Len(lines) ELSE ItemsBelow(i) - 1
ListItems(i) == [k \in 1 .. ListEnd(i) - i |-> lines[i + k].role]
ChildrenOf(i) == IF lines[i].value = Block THEN ListItems(i) ELSE lines[i].value
Declared == {<<lines[i].role, ToSet(ChildrenOf(i))>> : i \in Heads}

Closed(set, pairs) == \A p \in pairs : p[1] \in set => p[2] \subseteq set
Reach(from, pairs) ==
    CHOOSE set \in SUBSET Roles :
        /\ from \subseteq set /\ Closed(set, pairs)
        /\ \A other \in SUBSET Roles : from \subseteq other /\ Closed(other, pairs) => set \subseteq other
Cyclic(pairs) == \E p \in pairs : p[1] \in Reach(p[2], pairs)

Pairs(entries) == {<<entries[i].role, ToSet(entries[i].children)>> : i \in DOMAIN entries}

(* A file is never half understood: the application runs with exactly what the file    *)
(* says, line for line, and only without cycles; it is stopped for a cycle only when   *)
(* there is one; and the default roles stand in only for a file that has no section.   *)
FileIsTheHierarchy ==
    /\ app.at = "running" /\ app.from \in {"yaml", "toml"} =>
           /\ Pairs(app.hierarchy) = Declared
           /\ Cardinality(Heads) = Len(app.hierarchy)
           /\ ~Cyclic(Declared)
           /\ \A i \in DOMAIN lines : lines[i].kind \in {"security", "section", "entry", "item"}
    /\ app.at = "refused" /\ app.why = "cycle" => Cyclic(Declared)
    /\ app.at = "running" /\ app.from = "default" =>
           \A i \in DOMAIN lines : lines[i].kind = "security"

(* A role is granted exactly when it can be reached from those of the user, also when  *)
(* a hierarchy set in code goes round in circles.                                      *)
GrantsTheReachable ==
    app.at = "answered" =>
        (app.granted <=> app.required \in Reach(ToSet(app.user), Pairs(app.hierarchy)))
==================================================================================
