------------------------------ MODULE ProjectGenerator -----------------------------
(* karbon generate (commands/generate.rs): a command is a row of writes, each of which  *)
(* looks at what is there first, and none of which is undone when a later one fails or *)
(* the command is stopped. A file is the lines that matter here: the fields of an      *)
(* entity that a source file was written for, the declarations of a mod.rs, what       *)
(* main.rs declares and mounts. A file that was cut short has no lines.                *)
EXTENDS Integers, SequencesExt

CONSTANTS Entities,    \* names given on the command line
          MaxCommands  \* bound: commands

(* No entity is called mod: it is a keyword, and its file would be the folder's own.   *)
GeneratorAssumption == MaxCommands \in Nat /\ "mod" \notin Entities

VARIABLES project,  \* path -> lines
          marked,   \* whether main.rs has the marker comments, as new projects have
          command,  \* the command that runs: what is left to do, and the write under way
          history   \* how many commands, the project before this one, the files that the last one
            \* ended well with, whether a file was ever cut short, what of the entity's mod.rs a
            \* failure took that nobody saw, the admin pages that came before their repository

generator == <<project, marked, command, history>>

-----------------------------------------------------------------------------------

Folders == {"entity", "repository", "controller"}
Mod(folder) == <<folder, "mod">>
Main == <<"main", "rs">>

Source(folder, name) == <<folder, name>>
Sources == ({"entity", "repository", "controller", "admin"} \X Entities)

(* The admin pages live in the folder of the controllers, under a name of their own.   *)
FolderOf(kind) == IF kind = "admin" THEN "controller" ELSE kind

Declares(kind, name) == <<"mod", <<kind, name>>>>
Exports(name) == <<"use", name>>
DeclaresFolder(folder) == <<"mod", folder>>
Mounts(kind, name) == <<"nest", <<kind, name>>>>
Documents(kind, name) == <<"openapi", <<kind, name>>>>

Exists(path) == path \in DOMAIN project
Lines(path) == IF Exists(path) THEN project[path] ELSE <<>>

-----------------------------------------------------------------------------------
(* What a command is going to do, in its order. *)

WriteFile(path, lines) == [do |-> "file", path |-> path, lines |-> lines]
Append1(do, path, line) == [do |-> do, path |-> path, lines |-> <<line>>]

Generic == <<"handlers">>

Registers(kind, name) ==
    <<Append1("append_mod", Mod(FolderOf(kind)), Declares(kind, name)),
      Append1("main", Main, DeclaresFolder(FolderOf(kind)))>>

(* The route and its documentation go before markers, which old projects do not have.  *)
Routes(kind, name) == <<Append1("marker", Main, Mounts(kind, name)),
                        Append1("marker", Main, Documents(kind, name))>>

generate_entity(name, fields) ==
    <<WriteFile(Source("entity", name), fields)>> \o Registers("entity", name)

generate_controller(name) ==
    <<WriteFile(Source("controller", name), Generic)>> \o Registers("controller", name)
        \o Routes("controller", name)

generate_crud_ModFirst(name, fields) ==
    generate_entity(name, fields)
        \o <<WriteFile(Mod("repository"), <<>>)>> \o Registers("repository", name)
        \o <<WriteFile(Source("repository", name), fields)>>
        \o <<Append1("use", Mod("entity"), Exports(name))>>
        \o generate_controller(name)

(* An empty repository/mod.rs is written where there is none. *)
generate_crud(name, fields) ==
    generate_entity(name, fields)
        \o <<WriteFile(Source("repository", name), fields)>>
        \o (IF Exists(Mod("repository")) THEN <<>> ELSE <<WriteFile(Mod("repository"), <<>>)>>)
        \o Registers("repository", name)
        \o <<Append1("use", Mod("entity"), Exports(name))>>
        \o generate_controller(name)

(* The fields are those that can be read in the file of the entity. *)
generate_admin(name) ==
    <<WriteFile(Source("admin", name), project[Source("entity", name)])>>
        \o Registers("admin", name)
        \o <<Append1("main", Main, DeclaresFolder("entity"))>>
        \o Routes("admin", name)

Plan(kind, name, fields) == CASE kind = "entity" -> generate_entity(name, fields)
                              [] kind = "controller" -> generate_controller(name)
                              [] kind = "crud" -> generate_crud(name, fields)
                              [] OTHER -> generate_admin(name)

-----------------------------------------------------------------------------------
(* The fields of the command line; none means title and slug, and one without a type,  *)
(* or with a type nobody knows, is refused.                                            *)
Specs == {<<>>, <<"name">>, <<"no type">>}
ParsedFields(specs) == IF specs = <<>> THEN <<"title", "slug">> ELSE specs
Readable(kind, specs) == kind \in {"entity", "crud"} => specs # <<"no type">>

(* A source is compiled: its folder declares it, and main.rs the folder. *)
InCrate(kind, name) ==
    /\ Declares(kind, name) \in ToSet(Lines(Mod(FolderOf(kind))))
    /\ Exists(Main) => DeclaresFolder(FolderOf(kind)) \in ToSet(Lines(Main))

(* The admin pages need the entity, with fields. They also call what the repository of  *)
(* crud implements for it, which the command does not ask for.                          *)
Ready(kind, name) == kind = "admin" => Lines(Source("entity", name)) # <<>>

Idle == [at |-> "idle"]

Run(kind, name, specs, dry, force) ==
    /\ command = Idle /\ history.commands < MaxCommands
    /\ Readable(kind, specs) /\ Ready(kind, name)   \* else it is refused and writes nothing
    /\ history' = [history EXCEPT !.before = project, !.commands = @ + 1, !.ended = {}, !.unseen = "none",
                   !.early = IF kind = "admin" /\ ~dry /\ ~InCrate("repository", name)
                             THEN @ \union {name} ELSE @]
    /\ command' = [at |-> "looks", todo |-> Plan(kind, name, ParsedFields(specs)),
                   kind |-> kind, name |-> name, dry |-> dry, force |-> force]
    /\ UNCHANGED <<project, marked>>

Doing == Head(command.todo)
Looks == command.at = "looks" /\ command.todo # <<>>

Next1 == [command EXCEPT !.at = "looks", !.todo = Tail(@)]

Passes == command' = Next1 /\ UNCHANGED <<project, marked, history>>

(* fs::write: the file is there and empty, then it is filled. *)
Begins(path, lines) ==
    /\ project' = [p \in DOMAIN project \union {path} |-> IF p = path THEN <<>> ELSE project[p]]
    /\ command' = [command EXCEPT !.at = "writes", !.todo[1].lines = lines]
    /\ UNCHANGED <<marked, history>>

Fills == /\ command.at = "writes"
         /\ project' = [project EXCEPT ![Doing.path] = Doing.lines]
         /\ command' = Next1
         /\ UNCHANGED <<marked, history>>

Present_Never(path, line) == FALSE
Present(path, line) == line \in ToSet(Lines(path))

(* ensure_main_module needs main.rs; wire_route and append_at_marker need the marker    *)
(* too, and leave the route to the user without it.                                     *)
Possible == CASE Doing.do = "main" -> Exists(Main)
              [] Doing.do = "marker" -> Exists(Main) /\ marked
              [] OTHER -> TRUE

(* write_file keeps what is there, unless --force is given; the others read the file    *)
(* and add their line unless the line is there.                                         *)
Needed == /\ ~command.dry
          /\ IF Doing.do = "file" THEN ~Exists(Doing.path) \/ command.force
             ELSE Possible /\ ~Present(Doing.path, Doing.lines[1])

Skip == Looks /\ ~Needed /\ Passes

Write == /\ Looks /\ Needed
         /\ Begins(Doing.path, IF Doing.do = "file" THEN Doing.lines
                               ELSE Lines(Doing.path) \o Doing.lines)

Ends(wired) == history' = [history EXCEPT !.before = project, !.ended = wired,
                                         !.cut = @ \/ command.at = "writes"]

(* The command is stopped by the user, between two writes or within one, which takes    *)
(* the markers out of main.rs too.                                                      *)
Stopped == /\ command # Idle
           /\ command' = Idle /\ Ends({})
           /\ marked' = (marked /\ ~(command.at = "writes" /\ Doing.path = Main))
           /\ UNCHANGED project

Swallows == /\ command' = Next1
            /\ history' = [history EXCEPT !.unseen = IF command.at = "writes" THEN "file"
                                                    ELSE IF @ = "none" THEN "export" ELSE @,
                                         !.cut = @ \/ command.at = "writes"]
            /\ UNCHANGED <<project, marked>>

(* A write is refused, or breaks off: the command ends with the error, except for the    *)
(* export, whose error nobody looks at.                                                  *)
Fails == /\ (Looks /\ Needed) \/ command.at = "writes"
         /\ IF Doing.do = "use" THEN Swallows ELSE Stopped

Finishes == /\ command.at = "looks" /\ command.todo = <<>>
            /\ command' = Idle /\ UNCHANGED <<project, marked>>
            /\ Ends(IF command.dry THEN {}
                    ELSE IF command.kind = "crud"
                    THEN {"entity", "repository", "controller"} \X {command.name}
                    ELSE {Source(command.kind, command.name)})

(* A project of karbon new has a main.rs that declares its controllers; a library has   *)
(* none.                                                                                *)
Init == /\ marked \in BOOLEAN
        /\ project \in {[p \in {Main, Mod("controller")} |->
                            IF p = Main THEN <<DeclaresFolder("controller")>> ELSE <<>>],
                        [p \in {} |-> <<>>]}
        /\ command = Idle
        /\ history = [commands |-> 0, before |-> project, ended |-> {}, cut |-> FALSE,
                       unseen |-> "none", early |-> {}]

Next == \/ Skip \/ Write \/ Fills \/ Fails \/ Stopped \/ Finishes
        \/ \E kind \in {"entity", "controller", "crud", "admin"}, name \in Entities,
              specs \in Specs, dry, force \in BOOLEAN : Run(kind, name, specs, dry, force)

Spec == Init /\ [][Next]_generator

-----------------------------------------------------------------------------------
(* Properties. *)

TypeOK == /\ command.at \in {"idle", "looks", "writes"}
          /\ history.unseen \in {"none", "export", "file"}
          /\ DOMAIN project \subseteq Sources \union {Mod(f) : f \in Folders} \union {Main}

Writing(path) == command.at = "writes" /\ Doing.path = path

(* Whenever the command stands still, or was stopped, everything that is declared is    *)
(* there, what is mounted is declared on the way from main.rs, and a repository finds    *)
(* its entity and admin pages the repository that implements what they call: the project *)
(* builds after a command that did not get to its end, as long as no file was cut short  *)
(* and no admin pages came before their repository, which the command lets pass.         *)
NothingDangles ==
    ~history.cut /\ command.at # "writes" =>
        /\ \A folder \in Folders : \A source \in Sources :
               <<"mod", source>> \in ToSet(Lines(Mod(folder))) => Exists(source)
        /\ \A source \in Sources :
               <<"nest", source>> \in ToSet(Lines(Main)) =>
                   /\ <<"mod", source>> \in ToSet(Lines(Mod("controller")))
                   /\ DeclaresFolder("controller") \in ToSet(Lines(Main))
        /\ \A name \in Entities : Exports(name) \in ToSet(Lines(Mod("entity"))) =>
               Exists(Source("entity", name))
        /\ \A name \in Entities :
               /\ Declares("repository", name) \in ToSet(Lines(Mod("repository"))) =>
                      InCrate("entity", name)
               /\ Declares("admin", name) \in ToSet(Lines(Mod("controller"))) =>
                      name \in history.early \/ InCrate("repository", name)

(* No command, however often it is given, declares or mounts anything twice. *)
WiredOnce == \A path \in DOMAIN project : IsInjective(project[path])

(* A command that ended well, after whatever others failed or were stopped before it,  *)
(* has its files there, declared and, where main.rs has the markers, mounted, and crud  *)
(* its entity exported - unless the write of the export failed, which it does not say:   *)
(* then the export is missing, and with a write that broke off the whole mod.rs.         *)
DoneIsWired ==
    \A source \in history.ended :
        LET folder == FolderOf(source[1]) IN
        /\ Exists(source)
        /\ folder # "entity" \/ history.unseen # "file" =>
               <<"mod", source>> \in ToSet(Lines(Mod(folder)))
        /\ source[1] = "repository" /\ history.unseen = "none" =>
               Exports(source[2]) \in ToSet(Lines(Mod("entity")))
        /\ Exists(Main) =>
               /\ DeclaresFolder(folder) \in ToSet(Lines(Main))
               /\ marked /\ source[1] \in {"controller", "admin"} =>
                      <<"nest", source>> \in ToSet(Lines(Main))

(* --dry-run writes nothing; without --force no source changes that was there before;   *)
(* and no command takes a line out of a mod.rs or of main.rs, unless it is stopped or    *)
(* fails while it writes.                                                                *)
WhatIsThereStays ==
    command # Idle =>
        /\ command.dry => project = history.before
        /\ \A path \in DOMAIN history.before :
               IF path \in Sources
               THEN command.force \/ project[path] = history.before[path]
               ELSE \/ Writing(path) \/ (path = Mod("entity") /\ history.unseen = "file")
                    \/ IsPrefix(history.before[path], project[path])
==================================================================================
