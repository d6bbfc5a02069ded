----------------------------- MODULE GeneratorProofs ------------------------------
(* Proofs about ProjectGenerator as it is part of MCOperations: what every sequence of  *)
(* commands leaves of a project, for any entities, wherever a command stops.            *)
EXTENDS MCOperations, FiniteSetTheorems, TLAPS

-----------------------------------------------------------------------------------
(* karbon generate. What a command still has to do, a write under way taken as done,   *)
(* and what a file holds when that write is through.                                   *)

Rest == IF u3.at = "writes" THEN Tail(u3.todo) ELSE u3.todo
Held(path) == IF Generating!Writing(path) THEN Generating!Doing.lines ELSE Generating!Lines(path)
Has(path, line) == line \in Generating!ToSet(Held(path))

(* The writes of a plan, by what they are for. *)
Kinds == {"entity", "repository", "controller", "admin"}
Routed == {"controller", "admin"}
Authors(kind, name) == Generating!WriteFile(Generating!Source(kind, name), <<>>)
Registers(kind, name) == Generating!Append1("append_mod", Generating!Mod(Generating!FolderOf(kind)),
                                            Generating!Declares(kind, name))
Opens(folder) == Generating!Append1("main", Generating!Main, Generating!DeclaresFolder(folder))
Routes(kind, name) == Generating!Append1("marker", Generating!Main, Generating!Mounts(kind, name))
Explains(kind, name) == Generating!Append1("marker", Generating!Main,
                                           Generating!Documents(kind, name))
Exports(name) == Generating!Append1("use", Generating!Mod("entity"), Generating!Exports(name))
Founds == Generating!WriteFile(Generating!Mod("repository"), <<>>)

Declarations == {Generating!Declares(k, n) : k \in Kinds, n \in Entities}
Folders == {Generating!DeclaresFolder(f) : f \in Generating!Folders}
Mounts == {Generating!Mounts(k, n) : k \in Kinds, n \in Entities}
Documents == {Generating!Documents(k, n) : k \in Kinds, n \in Entities}
Uses == {Generating!Exports(n) : n \in Entities}
AnyLine == {"title", "slug", "name", "no type", "handlers"} \union Declarations \union Folders
               \union Mounts \union Documents \union Uses
Wholes == {lines \in Seq(AnyLine) : Generating!IsInjective(lines)}
Paths == Generating!Sources \union {Generating!Mod(f) : f \in Generating!Folders}
             \union {Generating!Main}

Filled == {Generating!WriteFile(path, lines) : path \in Generating!Sources, lines \in Wholes}
Registered == {Registers(k, n) : k \in Kinds, n \in Entities}
Opened == {Opens(f) : f \in Generating!Folders}
Routings == {Routes(k, n) : k \in Routed, n \in Entities}
Explained == {Explains(k, n) : k \in Routed, n \in Entities}
Exported == {Exports(n) : n \in Entities}
Writes == Filled \union {Founds} \union Registered \union Opened \union Routings
              \union Explained \union Exported

(* A write that was done, or that need not be; and one that is among the first of what *)
(* is left to do, if it is not done.                                                   *)
Settled(write) ==
    CASE write.do = "file" -> Generating!Exists(write.path)
      [] write.do = "main" -> Generating!Exists(Generating!Main) => Has(write.path, write.lines[1])
      [] write.do = "marker" ->
             Generating!Exists(Generating!Main) /\ u2 = TRUE => Has(write.path, write.lines[1])
      [] OTHER -> Has(write.path, write.lines[1])
Alike(a, b) == a.do = b.do /\ a.path = b.path /\ (a.do = "file" \/ a.lines = b.lines)
Before(write, i) == Settled(write) \/ \E j \in 1 .. i - 1 : Alike(Rest[j], write)

Wet == u3.at # "idle" /\ ~u3.dry

Shaped ==
    /\ u2 \in BOOLEAN
    /\ DOMAIN u1 \subseteq Paths /\ u1 \in [DOMAIN u1 -> Wholes]
    /\ u4 = [commands |-> u4.commands, before |-> u4.before, ended |-> u4.ended, cut |-> u4.cut,
             unseen |-> u4.unseen, early |-> u4.early]
    /\ u4.unseen \in {"none", "export", "file"}
    /\ u4.cut \in BOOLEAN /\ u4.ended \subseteq Generating!Sources
    /\ \A path \in DOMAIN u4.before : u4.before[path] \in Wholes
    /\ \/ u3 = Generating!Idle
       \/ u3 \in [at : {"looks", "writes"},
                  todo : Seq([do : {"file", "append_mod", "main", "marker", "use"},
                              path : Paths, lines : Wholes]),
                  kind : {"entity", "controller", "crud", "admin"}, name : Entities,
                  dry : BOOLEAN, force : BOOLEAN]
    /\ u3.at = "writes" => /\ u3.todo # <<>> /\ ~u3.dry
                           /\ Generating!Exists(Generating!Doing.path)
                           /\ Generating!Doing.do = "use" =>
                                  Generating!Doing.path = Generating!Mod("entity")

Planned == u3.at # "idle" => \A i \in 1 .. Len(Rest) : Rest[i] \in Writes

(* What a write builds upon comes before it: nothing is declared or mounted that is    *)
(* not there. An empty mod.rs is only written where there is none.                     *)
Ordered ==
    Wet => \A i \in 1 .. Len(Rest) :
        /\ \A k \in Kinds, n \in Entities :
               /\ Rest[i] = Registers(k, n) => Before(Authors(k, n), i)
               /\ Rest[i] = Routes(k, n) => Before(Registers(k, n), i) /\ Before(Opens("controller"), i)
        /\ \A n \in Entities : Rest[i] = Exports(n) => Before(Authors("entity", n), i)
        /\ Rest[i] = Founds => /\ ~Generating!Exists(Generating!Mod("repository"))
                               /\ \A j \in 1 .. i - 1 : Rest[j].path # Generating!Mod("repository")

Goals(kind) == IF kind = "crud" THEN {"entity", "repository", "controller"} ELSE {kind}

(* A repository comes after its entity, and admin pages after their repository if they   *)
(* did not come too early.                                                               *)
Compiled(k, n) == Settled(Registers(k, n)) /\ Settled(Opens(Generating!FolderOf(k)))
Founded ==
    Wet /\ ~u4.cut => \A i \in 1 .. Len(Rest) : \A n \in Entities :
        /\ Rest[i] = Registers("repository", n) =>
               Before(Registers("entity", n), i) /\ Before(Opens("entity"), i)
        /\ Rest[i] = Registers("admin", n) => n \in u4.early \/ Compiled("repository", n)

(* What a command is for is done, or still to be done, but for what a failed export took. *)
Aimed ==
    Wet => /\ \A k \in Goals(u3.kind) :
                  /\ Before(Authors(k, u3.name), Len(Rest) + 1)
                  /\ (k = "entity" /\ u4.unseen = "file") \/ Before(Registers(k, u3.name), Len(Rest) + 1)
                  /\ Before(Opens(Generating!FolderOf(k)), Len(Rest) + 1)
                  /\ k \in Routed => Before(Routes(k, u3.name), Len(Rest) + 1)
           /\ u3.kind = "crud" /\ u4.unseen = "none" => Before(Exports(u3.name), Len(Rest) + 1)

Sound ==
    ~u4.cut =>
        /\ \A k \in Kinds, n \in Entities :
               /\ \A f \in Generating!Folders :
                      Has(Generating!Mod(f), Generating!Declares(k, n)) => Generating!Exists(<<k, n>>)
               /\ Has(Generating!Main, Generating!Mounts(k, n)) =>
                      /\ Has(Generating!Mod("controller"), Generating!Declares(k, n))
                      /\ Has(Generating!Main, Generating!DeclaresFolder("controller"))
        /\ \A n \in Entities : Has(Generating!Mod("entity"), Generating!Exports(n)) =>
               Generating!Exists(<<"entity", n>>)

Backed ==
    ~u4.cut => \A n \in Entities :
        /\ Has(Generating!Mod("repository"), Generating!Declares("repository", n)) =>
               Compiled("entity", n)
        /\ Has(Generating!Mod("controller"), Generating!Declares("admin", n)) =>
               n \in u4.early \/ Compiled("repository", n)

Extends(s, t) == Len(s) <= Len(t) /\ \A i \in 1 .. Len(s) : t[i] = s[i]

Kept ==
    u3.at # "idle" =>
        /\ u4.ended = {}
        /\ u3.dry => u1 = u4.before
        /\ \A path \in DOMAIN u4.before :
               /\ Generating!Exists(path)
               /\ path \in Generating!Sources =>
                      u3.force \/ (~Generating!Writing(path) /\ u1[path] = u4.before[path])
               /\ path \notin Generating!Sources =>
                      \/ (path = Generating!Mod("entity") /\ u4.unseen = "file")
                      \/ Extends(u4.before[path], Held(path))

GenerateInv == /\ Shaped /\ Planned /\ Ordered /\ Founded /\ Aimed /\ Sound /\ Backed /\ Kept
               /\ Generating!DoneIsWired

(* Each write is known by what it does and by its line. *)
LEMMA WritesDiffer ==
    /\ \A path, lines : LET w == Generating!WriteFile(path, lines) IN
           w.do = "file" /\ w.path = path /\ w.lines = lines
    /\ \A k \in Kinds, n \in Entities :
           /\ Registers(k, n).do = "append_mod"
           /\ Registers(k, n).path = Generating!Mod(Generating!FolderOf(k))
           /\ Registers(k, n).lines = <<Generating!Declares(k, n)>>
    /\ \A f \in Generating!Folders :
           /\ Opens(f).do = "main"
           /\ Opens(f).path = Generating!Main
           /\ Opens(f).lines = <<Generating!DeclaresFolder(f)>>
    /\ \A k \in Kinds, n \in Entities :
           /\ Routes(k, n).do = "marker"
           /\ Routes(k, n).path = Generating!Main
           /\ Routes(k, n).lines = <<Generating!Mounts(k, n)>>
           /\ Explains(k, n).do = "marker"
           /\ Explains(k, n).path = Generating!Main
           /\ Explains(k, n).lines = <<Generating!Documents(k, n)>>
    /\ \A n \in Entities :
           /\ Exports(n).do = "use"
           /\ Exports(n).path = Generating!Mod("entity")
           /\ Exports(n).lines = <<Generating!Exports(n)>>
    /\ Founds.do = "file" /\ Founds.path = Generating!Mod("repository") /\ Founds.lines = <<>>
    /\ \A k, k2 \in Kinds, n, n2 \in Entities :
           /\ Registers(k, n) = Registers(k2, n2) => k = k2 /\ n = n2
           /\ Routes(k, n) = Routes(k2, n2) => k = k2 /\ n = n2
           /\ Routes(k, n) # Explains(k2, n2)
    /\ \A n, n2 \in Entities : Exports(n) = Exports(n2) => n = n2
<1> USE DEF Generating!WriteFile, Generating!Append1, Founds, Registers, Opens, Routes, Explains,
            Exports
<1>1. \A k, k2 \in Kinds, n, n2 \in Entities :
           /\ Registers(k, n) = Registers(k2, n2) => k = k2 /\ n = n2
           /\ Routes(k, n) = Routes(k2, n2) => k = k2 /\ n = n2
           /\ Routes(k, n) # Explains(k2, n2)
    BY DEF Generating!Declares, Generating!Mounts, Generating!Documents
<1>2. \A n, n2 \in Entities : Exports(n) = Exports(n2) => n = n2
    BY DEF Generating!Exports
<1> QED  BY <1>1, <1>2

(* Files, mod.rs and main.rs have paths of their own. *)
LEMMA PathsDiffer ==
    /\ \A k \in Kinds, n \in Entities : /\ Generating!Source(k, n) \in Generating!Sources
                                        /\ Generating!Source(k, n) = <<k, n>>
                                        /\ Generating!FolderOf(k) \in Generating!Folders
    /\ \A path \in Generating!Sources : \E k \in Kinds, n \in Entities : path = Generating!Source(k, n)
    /\ \A f, g \in Generating!Folders : Generating!Mod(f) = Generating!Mod(g) => f = g
    /\ \A f \in Generating!Folders : /\ Generating!Mod(f) # Generating!Main
                                     /\ Generating!Mod(f) \notin Generating!Sources
    /\ Generating!Main \notin Generating!Sources
BY InstanceAssumptions
   DEF Generating!GeneratorAssumption, Generating!Source, Generating!Sources, Generating!Mod,
       Generating!Main, Generating!Folders, Generating!FolderOf, Kinds

(* A line on its own is a file, and so is what a source file is filled with. *)
LEMMA LinesAreWhole ==
    /\ \A line \in AnyLine : <<line>> \in Wholes
    /\ <<>> \in Wholes
    /\ \A k \in Kinds, n \in Entities : /\ Generating!Declares(k, n) \in AnyLine
                                        /\ Generating!Mounts(k, n) \in AnyLine
                                        /\ Generating!Documents(k, n) \in AnyLine
                                        /\ Generating!Exports(n) \in AnyLine
    /\ \A f \in Generating!Folders : Generating!DeclaresFolder(f) \in AnyLine
    /\ Generating!Generic \in Wholes
    /\ \A specs \in Generating!Specs \ {<<"no type">>} : Generating!ParsedFields(specs) \in Wholes
<1>1. \A line \in AnyLine : <<line>> \in Wholes
    BY DEF Wholes, Generating!IsInjective
<1>2. <<>> \in Wholes
    BY DEF Wholes, Generating!IsInjective
<1>3. /\ \A k \in Kinds, n \in Entities : /\ Generating!Declares(k, n) \in AnyLine
                                          /\ Generating!Mounts(k, n) \in AnyLine
                                          /\ Generating!Documents(k, n) \in AnyLine
                                          /\ Generating!Exports(n) \in AnyLine
      /\ \A f \in Generating!Folders : Generating!DeclaresFolder(f) \in AnyLine
    <2>1. /\ \A k \in Kinds, n \in Entities : Generating!Declares(k, n) \in Declarations
          /\ \A k \in Kinds, n \in Entities : Generating!Mounts(k, n) \in Mounts
          /\ \A k \in Kinds, n \in Entities : Generating!Documents(k, n) \in Documents
          /\ \A n \in Entities : Generating!Exports(n) \in Uses
          /\ \A f \in Generating!Folders : Generating!DeclaresFolder(f) \in Folders
        BY DEF Declarations, Mounts, Documents, Uses, Folders
    <2> QED  BY <2>1 DEF AnyLine
<1>4. "title" \in AnyLine /\ "slug" \in AnyLine /\ "name" \in AnyLine /\ "handlers" \in AnyLine
    BY DEF AnyLine
<1>5. Generating!Generic \in Wholes
    BY <1>1, <1>4 DEF Generating!Generic
<1>6. <<"title", "slug">> \in Wholes
    BY <1>4 DEF Wholes, Generating!IsInjective
<1>7. \A specs \in Generating!Specs \ {<<"no type">>} : specs = <<>> \/ specs = <<"name">>
    BY DEF Generating!Specs
<1>8. \A specs \in Generating!Specs \ {<<"no type">>} : Generating!ParsedFields(specs) \in Wholes
    BY <1>1, <1>4, <1>6, <1>7 DEF Generating!ParsedFields
<1> QED  BY <1>1, <1>2, <1>3, <1>5, <1>8

(* The writes of a plan are writes of known lines to known files. *)
Named == [do : {"file", "append_mod", "main", "marker", "use"}, path : Paths, lines : Wholes]
LEMMA WritesAreNamed == \A w \in Writes : w \in Named
<1>1. Routed \subseteq Kinds
    BY DEF Routed, Kinds
<1>2. \A w \in Writes : \/ \E k \in Kinds, n \in Entities, lines \in Wholes :
                                w = Generating!WriteFile(Generating!Source(k, n), lines)
                        \/ w = Founds
                        \/ \E k \in Kinds, n \in Entities : w = Registers(k, n)
                        \/ \E f \in Generating!Folders : w = Opens(f)
                        \/ \E k \in Routed, n \in Entities : w = Routes(k, n)
                        \/ \E k \in Routed, n \in Entities : w = Explains(k, n)
                        \/ \E n \in Entities : w = Exports(n)
    BY PathsDiffer
       DEF Writes, Filled, Registered, Opened, Routings, Explained, Exported
<1>3. "entity" \in Generating!Folders /\ "repository" \in Generating!Folders
    BY DEF Generating!Folders
<1>4. /\ \A k \in Kinds, n \in Entities : Generating!Source(k, n) \in Paths
      /\ \A f \in Generating!Folders : Generating!Mod(f) \in Paths
      /\ Generating!Main \in Paths
    <2>1. \A k \in Kinds, n \in Entities : Generating!Source(k, n) \in Generating!Sources
        BY <1>3, PathsDiffer
    <2>2. \A f \in Generating!Folders : Generating!Mod(f) \in Paths
        BY Zenon DEF Paths
    <2> QED  BY <2>1, <2>2, Zenon DEF Paths
<1>5. \A path \in Paths, lines \in Wholes : Generating!WriteFile(path, lines) \in Named
    BY DEF Named, Generating!WriteFile
<1>6. \A do \in {"append_mod", "main", "marker", "use"}, path \in Paths, line \in AnyLine :
          Generating!Append1(do, path, line) \in Named
    BY LinesAreWhole DEF Named, Generating!Append1
<1>7. Founds \in Named
    BY <1>3, <1>4, <1>5, LinesAreWhole DEF Founds
<1>8. \A k \in Kinds, n \in Entities : Registers(k, n) \in Named
    <2> SUFFICES ASSUME NEW k \in Kinds, NEW n \in Entities PROVE Registers(k, n) \in Named
        OBVIOUS
    <2>1. Generating!FolderOf(k) \in Generating!Folders
        BY <1>3, PathsDiffer
    <2>2. Generating!Declares(k, n) \in AnyLine
        BY LinesAreWhole
    <2> QED  BY <2>1, <2>2, <1>4, <1>6 DEF Registers
<1>9. \A f \in Generating!Folders : Opens(f) \in Named
    BY <1>4, <1>6, LinesAreWhole DEF Opens
<1>10. \A k \in Routed, n \in Entities : Routes(k, n) \in Named /\ Explains(k, n) \in Named
    BY <1>1, <1>4, <1>6, LinesAreWhole DEF Routes, Explains
<1>11. \A n \in Entities : Exports(n) \in Named
    BY <1>3, <1>4, <1>6, LinesAreWhole DEF Exports, Kinds
<1>12. \A w \in Writes : w \in Named
    BY <1>2, <1>4, <1>5, <1>7, <1>8, <1>9, <1>10, <1>11
<1> QED  BY <1>12

(* Every write that a plan may have is among the writes.                             *)
LEMMA WritesThere ==
    /\ \A k \in Kinds, n \in Entities, lines \in Wholes :
           Generating!WriteFile(Generating!Source(k, n), lines) \in Writes
    /\ Founds \in Writes
    /\ \A k \in Kinds, n \in Entities : Registers(k, n) \in Writes /\ Exports(n) \in Writes
    /\ \A f \in Generating!Folders : Opens(f) \in Writes
    /\ \A k \in Routed, n \in Entities : Routes(k, n) \in Writes /\ Explains(k, n) \in Writes
<1>1. /\ \A k \in Kinds, n \in Entities : Registers(k, n) \in Registered
      /\ \A n \in Entities : Exports(n) \in Exported
      /\ \A f \in Generating!Folders : Opens(f) \in Opened
    BY DEF Registered, Exported, Opened
<1>2. /\ \A k \in Routed, n \in Entities : Routes(k, n) \in Routings
      /\ \A k \in Routed, n \in Entities : Explains(k, n) \in Explained
    BY DEF Routings, Explained
<1>3. \A path \in Generating!Sources, lines \in Wholes :
          Generating!WriteFile(path, lines) \in Filled
    BY DEF Filled
<1>4. \A k \in Kinds, n \in Entities : Generating!Source(k, n) \in Generating!Sources
    BY PathsDiffer
<1> QED  BY <1>1, <1>2, <1>3, <1>4 DEF Writes

(* A write fills a source, founds repository/mod.rs, or adds a line of one kind.     *)
LEMMA WritesAreKnown ==
    \A w \in Writes : \/ \E k \in Kinds, n \in Entities : /\ w.do = "file" /\ w.lines \in Wholes
                                                          /\ w.path = Generating!Source(k, n)
                      \/ w = Founds
                      \/ \E k \in Kinds, n \in Entities : w = Registers(k, n)
                      \/ \E f \in Generating!Folders : w = Opens(f)
                      \/ \E k \in Routed, n \in Entities : w = Routes(k, n)
                      \/ \E k \in Routed, n \in Entities : w = Explains(k, n)
                      \/ \E n \in Entities : w = Exports(n)
<1>2. \A w \in Writes : \/ \E k \in Kinds, n \in Entities, lines \in Wholes :
                                w = Generating!WriteFile(Generating!Source(k, n), lines)
                        \/ w = Founds
                        \/ \E k \in Kinds, n \in Entities : w = Registers(k, n)
                        \/ \E f \in Generating!Folders : w = Opens(f)
                        \/ \E k \in Routed, n \in Entities : w = Routes(k, n)
                        \/ \E k \in Routed, n \in Entities : w = Explains(k, n)
                        \/ \E n \in Entities : w = Exports(n)
    BY PathsDiffer
       DEF Writes, Filled, Registered, Opened, Routings, Explained, Exported
<1> QED  BY <1>2, WritesDiffer

(* The writes of two lists in a row. *)
Chained(both, s, t) == /\ both \in Seq(Writes) /\ Len(both) = Len(s) + Len(t)
                       /\ \A i \in 1 .. Len(s) : both[i] = s[i]
                       /\ \A i \in 1 .. Len(t) : both[Len(s) + i] = t[i]

(* A list after another is a list of the writes of both, in their order.             *)
LEMMA Joined ==
    ASSUME NEW s \in Seq(Writes), NEW t \in Seq(Writes)
    PROVE  Chained(s \o t, s, t)
BY DEF Chained

(* A list of one write.                                                              *)
LEMMA OneWrite ==
    ASSUME NEW a \in Writes
    PROVE  <<a>> \in Seq(Writes) /\ Len(<<a>>) = 1 /\ <<a>>[1] = a
OBVIOUS

(* A list of two writes.                                                             *)
LEMMA TwoWrites ==
    ASSUME NEW a \in Writes, NEW b \in Writes
    PROVE  <<a, b>> \in Seq(Writes) /\ Len(<<a, b>>) = 2 /\ <<a, b>>[1] = a /\ <<a, b>>[2] = b
OBVIOUS

(* A source file is written, then declared, then its folder is. *)
SourceWrites(k, name, lines) ==
    <<Generating!WriteFile(Generating!Source(k, name), lines)>> \o Generating!Registers(k, name)

(* What writes a source file has three writes: the file, its line and its folder's.  *)
LEMMA SourcePlan ==
    ASSUME NEW k \in Kinds, NEW name \in Entities, NEW lines \in Wholes
    PROVE  LET p == SourceWrites(k, name, lines) IN
           /\ p \in Seq(Writes) /\ Len(p) = 3
           /\ p[1] = Generating!WriteFile(Generating!Source(k, name), lines)
           /\ p[2] = Registers(k, name) /\ p[3] = Opens(Generating!FolderOf(k))
<1> DEFINE w == Generating!WriteFile(Generating!Source(k, name), lines)
           f == <<w>>
           r == Generating!Registers(k, name)
           p == SourceWrites(k, name, lines)
<1>1. w \in Writes /\ Registers(k, name) \in Writes /\ Opens(Generating!FolderOf(k)) \in Writes
    <2>1. Generating!FolderOf(k) \in Generating!Folders
        BY PathsDiffer
    <2> QED  BY <2>1, WritesThere
<1>2. r = <<Registers(k, name), Opens(Generating!FolderOf(k))>>
    BY DEF Generating!Registers, Registers, Opens
<1>3. /\ f \in Seq(Writes) /\ Len(f) = 1 /\ f[1] = w
      /\ r \in Seq(Writes) /\ Len(r) = 2
      /\ r[1] = Registers(k, name) /\ r[2] = Opens(Generating!FolderOf(k))
    BY <1>1, <1>2, OneWrite, TwoWrites
<1>4. p = f \o r
    BY DEF SourceWrites
<1> HIDE DEF w, f, r, p
<1>5. Chained(p, f, r)
    BY <1>3, <1>4, Joined, Zenon
<1>6. /\ p \in Seq(Writes) /\ Len(p) = 3
      /\ p[1] = w /\ p[2] = Registers(k, name) /\ p[3] = Opens(Generating!FolderOf(k))
    BY <1>3, <1>5 DEF Chained
<1> QED  BY <1>6, Zenon DEF w, p

(* The handlers come with a route and its documentation. *)
LEMMA RoutesPlan ==
    ASSUME NEW k \in Routed, NEW name \in Entities
    PROVE  LET p == Generating!Routes(k, name) IN
           /\ p \in Seq(Writes) /\ Len(p) = 2
           /\ p[1] = Routes(k, name) /\ p[2] = Explains(k, name)
<1>1. Generating!Routes(k, name) = <<Routes(k, name), Explains(k, name)>>
    BY DEF Generating!Routes, Routes, Explains
<1>2. Routes(k, name) \in Writes /\ Explains(k, name) \in Writes
    BY WritesThere, Zenon
<1> QED  BY <1>1, <1>2, TwoWrites

(* The writes of generate controller.                                                *)
LEMMA ControllerPlan ==
    ASSUME NEW name \in Entities
    PROVE  LET p == Generating!generate_controller(name) IN
           /\ p \in Seq(Writes) /\ Len(p) = 5
           /\ p[1] = Generating!WriteFile(Generating!Source("controller", name), Generating!Generic)
           /\ p[2] = Registers("controller", name) /\ p[3] = Opens("controller")
           /\ p[4] = Routes("controller", name) /\ p[5] = Explains("controller", name)
<1> DEFINE w == Generating!WriteFile(Generating!Source("controller", name), Generating!Generic)
           s == SourceWrites("controller", name, Generating!Generic)
           r == Generating!Routes("controller", name)
           p == Generating!generate_controller(name)
<1>1. /\ "controller" \in Kinds /\ "controller" \in Routed
      /\ Generating!FolderOf("controller") = "controller"
    BY DEF Kinds, Routed, Generating!FolderOf
<1>2. Generating!Generic \in Wholes
    BY LinesAreWhole, Zenon
<1>3. p = s \o r
    BY DEF Generating!generate_controller, SourceWrites
<1> HIDE DEF p
<1>4. /\ s \in Seq(Writes) /\ Len(s) = 3 /\ s[1] = w
      /\ s[2] = Registers("controller", name) /\ s[3] = Opens("controller")
    BY <1>1, <1>2, SourcePlan
<1>5. /\ r \in Seq(Writes) /\ Len(r) = 2
      /\ r[1] = Routes("controller", name) /\ r[2] = Explains("controller", name)
    BY <1>1, RoutesPlan
<1> HIDE DEF w, s, r
<1>6. Chained(p, s, r)
    BY <1>3, <1>4, <1>5, Joined, Zenon
<1>7. /\ p \in Seq(Writes) /\ Len(p) = 5
      /\ p[1] = w /\ p[2] = Registers("controller", name) /\ p[3] = Opens("controller")
      /\ p[4] = Routes("controller", name) /\ p[5] = Explains("controller", name)
    BY <1>4, <1>5, <1>6 DEF Chained
<1> QED  BY <1>7, Zenon DEF w, p

(* The writes of generate admin, for an entity that is there.                        *)
LEMMA AdminPlan ==
    ASSUME NEW name \in Entities, u1[Generating!Source("entity", name)] \in Wholes
    PROVE  LET p == Generating!generate_admin(name) IN
           /\ p \in Seq(Writes) /\ Len(p) = 6
           /\ p[1] = Generating!WriteFile(Generating!Source("admin", name),
                                          u1[Generating!Source("entity", name)])
           /\ p[2] = Registers("admin", name) /\ p[3] = Opens("controller")
           /\ p[4] = Opens("entity")
           /\ p[5] = Routes("admin", name) /\ p[6] = Explains("admin", name)
<1> DEFINE lines == u1[Generating!Source("entity", name)]
           w == Generating!WriteFile(Generating!Source("admin", name), lines)
           s == SourceWrites("admin", name, lines)
           o == <<Opens("entity")>>
           so == s \o o
           r == Generating!Routes("admin", name)
           p == Generating!generate_admin(name)
<1>1. /\ "admin" \in Kinds /\ "admin" \in Routed /\ Generating!FolderOf("admin") = "controller"
      /\ "entity" \in Generating!Folders
    BY DEF Kinds, Routed, Generating!FolderOf, Generating!Folders
<1>2. p = so \o r
    BY DEF Generating!generate_admin, SourceWrites, Opens
<1> HIDE DEF p
<1>3. /\ s \in Seq(Writes) /\ Len(s) = 3 /\ s[1] = w
      /\ s[2] = Registers("admin", name) /\ s[3] = Opens("controller")
    BY <1>1, SourcePlan
<1>4. o \in Seq(Writes) /\ Len(o) = 1 /\ o[1] = Opens("entity")
    <2>1. Opens("entity") \in Writes
        BY <1>1, WritesThere, Zenon
    <2> QED  BY <2>1, OneWrite
<1>5. /\ r \in Seq(Writes) /\ Len(r) = 2
      /\ r[1] = Routes("admin", name) /\ r[2] = Explains("admin", name)
    BY <1>1, RoutesPlan
<1> HIDE DEF w, s, o, r
<1>6. Chained(so, s, o)
    BY <1>3, <1>4, Joined, Zenon
<1> HIDE DEF so
<1>7. /\ so \in Seq(Writes) /\ Len(so) = 4
      /\ so[1] = w /\ so[2] = Registers("admin", name) /\ so[3] = Opens("controller")
      /\ so[4] = Opens("entity")
    BY <1>3, <1>4, <1>6 DEF Chained
<1>8. Chained(p, so, r)
    BY <1>2, <1>5, <1>7, Joined, Zenon
<1>9. /\ p \in Seq(Writes) /\ Len(p) = 6
      /\ p[1] = w /\ p[2] = Registers("admin", name) /\ p[3] = Opens("controller")
      /\ p[4] = Opens("entity")
      /\ p[5] = Routes("admin", name) /\ p[6] = Explains("admin", name)
    BY <1>5, <1>7, <1>8 DEF Chained
<1> QED  BY <1>9, Zenon DEF w, p

(* The writes of generate crud, one more if repository/mod.rs is to be founded.      *)
LEMMA CrudPlan ==
    ASSUME NEW name \in Entities, NEW fields \in Wholes
    PROVE  LET p == Generating!generate_crud(name, fields)
               d == IF Generating!Exists(Generating!Mod("repository")) THEN 0 ELSE 1
           IN  /\ p \in Seq(Writes) /\ Len(p) = 12 + d
               /\ p[1] = Generating!WriteFile(Generating!Source("entity", name), fields)
               /\ p[2] = Registers("entity", name) /\ p[3] = Opens("entity")
               /\ p[4] = Generating!WriteFile(Generating!Source("repository", name), fields)
               /\ d = 1 => p[5] = Founds
               /\ p[5 + d] = Registers("repository", name) /\ p[6 + d] = Opens("repository")
               /\ p[7 + d] = Exports(name)
               /\ p[8 + d] = Generating!WriteFile(Generating!Source("controller", name),
                                                  Generating!Generic)
               /\ p[9 + d] = Registers("controller", name) /\ p[10 + d] = Opens("controller")
               /\ p[11 + d] = Routes("controller", name) /\ p[12 + d] = Explains("controller", name)
<1> DEFINE d == IF Generating!Exists(Generating!Mod("repository")) THEN 0 ELSE 1
           w1 == Generating!WriteFile(Generating!Source("entity", name), fields)
           w2 == Generating!WriteFile(Generating!Source("repository", name), fields)
           w3 == Generating!WriteFile(Generating!Source("controller", name), Generating!Generic)
           e == SourceWrites("entity", name, fields)
           w == <<w2>>
           x == IF Generating!Exists(Generating!Mod("repository")) THEN <<>> ELSE <<Founds>>
           r == Generating!Registers("repository", name)
           u == <<Exports(name)>>
           c == Generating!generate_controller(name)
           ew == e \o w
           ewx == ew \o x
           ewxr == ewx \o r
           ewxru == ewxr \o u
           p == Generating!generate_crud(name, fields)
<1>1. /\ "entity" \in Kinds /\ "repository" \in Kinds
      /\ Generating!FolderOf("entity") = "entity" /\ Generating!FolderOf("repository") = "repository"
      /\ "repository" \in Generating!Folders
    BY DEF Kinds, Generating!FolderOf, Generating!Folders
<1>2. p = ewxru \o c
    BY DEF Generating!generate_crud, Generating!generate_entity, SourceWrites, Exports, Founds
<1> HIDE DEF p
<1>3. /\ e \in Seq(Writes) /\ Len(e) = 3 /\ e[1] = w1
      /\ e[2] = Registers("entity", name) /\ e[3] = Opens("entity")
    BY <1>1, SourcePlan
<1>4. w \in Seq(Writes) /\ Len(w) = 1 /\ w[1] = w2
    <2>1. w2 \in Writes
        BY <1>1, WritesThere, Zenon
    <2> QED  BY <2>1, OneWrite
<1>5. x \in Seq(Writes) /\ Len(x) = d /\ (d = 1 => x[1] = Founds) /\ d \in {0, 1}
    <2>1. Founds \in Writes
        BY WritesThere, Zenon
    <2> QED  BY <2>1, OneWrite
<1>6. /\ r \in Seq(Writes) /\ Len(r) = 2
      /\ r[1] = Registers("repository", name) /\ r[2] = Opens("repository")
    <2>1. Registers("repository", name) \in Writes /\ Opens("repository") \in Writes
        BY <1>1, WritesThere, Zenon
    <2>2. r = <<Registers("repository", name), Opens("repository")>>
        BY <1>1 DEF Generating!Registers, Registers, Opens
    <2> HIDE DEF r
    <2> QED  BY <2>1, <2>2, TwoWrites
<1>7. u \in Seq(Writes) /\ Len(u) = 1 /\ u[1] = Exports(name)
    <2>1. Exports(name) \in Writes
        BY <1>1, WritesThere, Zenon
    <2> QED  BY <2>1, OneWrite
<1>8. /\ c \in Seq(Writes) /\ Len(c) = 5 /\ c[1] = w3
      /\ c[2] = Registers("controller", name) /\ c[3] = Opens("controller")
      /\ c[4] = Routes("controller", name) /\ c[5] = Explains("controller", name)
    BY ControllerPlan
<1> HIDE DEF d, w1, w2, w3, e, w, x, r, u, c
<1>9. Chained(ew, e, w)
    BY <1>3, <1>4, Joined, Zenon
<1> HIDE DEF ew
<1>10. /\ ew \in Seq(Writes) /\ Len(ew) = 4 /\ ew[1] = w1
       /\ ew[2] = Registers("entity", name) /\ ew[3] = Opens("entity") /\ ew[4] = w2
    BY <1>3, <1>4, <1>9 DEF Chained
<1>11. Chained(ewx, ew, x)
    BY <1>5, <1>10, Joined, Zenon
<1> HIDE DEF ewx
<1>12. /\ ewx \in Seq(Writes) /\ Len(ewx) = 4 + d /\ ewx[1] = w1
       /\ ewx[2] = Registers("entity", name) /\ ewx[3] = Opens("entity") /\ ewx[4] = w2
       /\ d = 1 => ewx[5] = Founds
    BY <1>5, <1>10, <1>11 DEF Chained
<1>13. Chained(ewxr, ewx, r)
    BY <1>6, <1>12, Joined, Zenon
<1> HIDE DEF ewxr
<1>14. /\ ewxr \in Seq(Writes) /\ Len(ewxr) = 6 + d
       /\ \A i \in 1 .. 4 + d : ewxr[i] = ewx[i]
       /\ ewxr[5 + d] = Registers("repository", name) /\ ewxr[6 + d] = Opens("repository")
    BY <1>5, <1>6, <1>12, <1>13 DEF Chained
<1>15. Chained(ewxru, ewxr, u)
    BY <1>7, <1>14, Joined, Zenon
<1> HIDE DEF ewxru
<1>16. /\ ewxru \in Seq(Writes) /\ Len(ewxru) = 7 + d
       /\ \A i \in 1 .. 6 + d : ewxru[i] = ewxr[i]
       /\ ewxru[7 + d] = Exports(name)
    BY <1>5, <1>7, <1>14, <1>15 DEF Chained
<1>17. Chained(p, ewxru, c)
    BY <1>2, <1>8, <1>16, Joined, Zenon
<1>18. /\ p \in Seq(Writes) /\ Len(p) = 12 + d
       /\ \A i \in 1 .. 7 + d : p[i] = ewxru[i]
       /\ p[8 + d] = w3
       /\ p[9 + d] = Registers("controller", name) /\ p[10 + d] = Opens("controller")
       /\ p[11 + d] = Routes("controller", name) /\ p[12 + d] = Explains("controller", name)
    BY <1>5, <1>8, <1>16, <1>17 DEF Chained
<1>19. /\ p[1] = w1 /\ p[2] = Registers("entity", name) /\ p[3] = Opens("entity") /\ p[4] = w2
       /\ d = 1 => p[5] = Founds
    BY <1>5, <1>12, <1>14, <1>16, <1>18
<1>20. /\ p[5 + d] = Registers("repository", name) /\ p[6 + d] = Opens("repository")
       /\ p[7 + d] = Exports(name)
    <2>1. 5 + d \in 1 .. 6 + d /\ 6 + d \in 1 .. 6 + d /\ 5 + d \in 1 .. 7 + d /\ 6 + d \in 1 .. 7 + d
          /\ 7 + d \in 1 .. 7 + d
        BY <1>5
    <2> QED  BY <2>1, <1>14, <1>16, <1>18
<1> QED  BY <1>18, <1>19, <1>20 DEF d, w1, w2, w3, p

(* The order that a plan keeps, and what it does for its goals. *)
Among(write, p, n) == \E j \in 1 .. n : Alike(p[j], write)
InOrderOf(p) ==
    \A i \in 1 .. Len(p) :
        /\ \A k \in Kinds, n \in Entities :
               /\ p[i] = Registers(k, n) => Among(Authors(k, n), p, i - 1)
               /\ p[i] = Routes(k, n) => /\ Among(Registers(k, n), p, i - 1)
                                         /\ Among(Opens("controller"), p, i - 1)
        /\ \A n \in Entities :
               /\ p[i] = Exports(n) => Among(Authors("entity", n), p, i - 1)
               /\ p[i] = Registers("repository", n) => /\ Among(Registers("entity", n), p, i - 1)
                                                       /\ Among(Opens("entity"), p, i - 1)
        /\ p[i] = Founds => /\ ~Generating!Exists(Generating!Mod("repository"))
                            /\ \A j \in 1 .. i - 1 : p[j].path # Generating!Mod("repository")
Reaches(p, k, name) ==
    /\ Among(Authors(k, name), p, Len(p))
    /\ Among(Registers(k, name), p, Len(p))
    /\ Among(Opens(Generating!FolderOf(k)), p, Len(p))
    /\ k \in Routed => Among(Routes(k, name), p, Len(p))
Fits(p, kind, name) ==
    /\ p \in Seq(Writes) /\ InOrderOf(p)
    /\ \A k \in Goals(kind) : Reaches(p, k, name)
    /\ kind = "crud" => Among(Exports(name), p, Len(p))
    /\ \A i \in 1 .. Len(p), n \in Entities : p[i] = Registers("admin", n) => kind = "admin" /\ n = name

(* What a source is filled with does not tell two writes of it apart.                *)
LEMMA AlikeWrites ==
    /\ \A w : Alike(w, w)
    /\ \A k, n, lines : Alike(Generating!WriteFile(Generating!Source(k, n), lines), Authors(k, n))
BY DEF Alike, Authors, Generating!WriteFile

(* The plan of generate entity keeps the order and reaches its goals.                *)
LEMMA EntityFits ==
    ASSUME NEW name \in Entities, NEW fields \in Wholes
    PROVE  Fits(Generating!generate_entity(name, fields), "entity", name)
<1> DEFINE p == Generating!generate_entity(name, fields)
<1>1. /\ "entity" \in Kinds /\ Generating!FolderOf("entity") = "entity" /\ "entity" \notin Routed
      /\ "entity" \in Generating!Folders /\ Routed \subseteq Kinds
    BY DEF Kinds, Routed, Generating!FolderOf, Generating!Folders
<1>2. /\ p \in Seq(Writes) /\ Len(p) = 3
      /\ p[1] = Generating!WriteFile(Generating!Source("entity", name), fields)
      /\ p[2] = Registers("entity", name) /\ p[3] = Opens("entity")
    <2>1. p = SourceWrites("entity", name, fields)
        BY DEF Generating!generate_entity, SourceWrites
    <2> QED  BY <1>1, <2>1, SourcePlan
<1> HIDE DEF p
<1>3. /\ p[1].do = "file" /\ p[1].path = Generating!Source("entity", name)
      /\ p[2].do = "append_mod" /\ p[3].do = "main"
    BY <1>1, <1>2, WritesDiffer
<1>4. /\ Alike(p[1], Authors("entity", name)) /\ Alike(p[2], Registers("entity", name))
      /\ Alike(p[3], Opens("entity"))
    BY <1>2, AlikeWrites
<1>r. \A i \in 1 .. Len(p), k \in Kinds, n \in Entities :
          p[i] = Registers(k, n) => i = 2 /\ k = "entity" /\ n = name
    <2> SUFFICES ASSUME NEW i \in 1 .. Len(p), NEW k \in Kinds, NEW n \in Entities,
                        p[i] = Registers(k, n)
                 PROVE  i = 2 /\ k = "entity" /\ n = name
        OBVIOUS
    <2>1. p[i].do = "append_mod"
        BY WritesDiffer
    <2>2. i = 2
        BY <1>2, <1>3, <2>1
    <2> QED  BY <1>1, <1>2, <2>2, WritesDiffer
<1>5. InOrderOf(p)
    <2> SUFFICES ASSUME NEW i \in 1 .. Len(p)
                 PROVE  /\ \A k \in Kinds, n \in Entities :
                               /\ p[i] = Registers(k, n) => Among(Authors(k, n), p, i - 1)
                               /\ p[i] # Routes(k, n)
                        /\ \A n \in Entities : p[i] # Exports(n)
                        /\ p[i] # Founds
        BY <1>r DEF InOrderOf, Kinds
    <2>1. i = 1 \/ i = 2 \/ i = 3
        BY <1>2
    <2>2. /\ \A k \in Kinds, n \in Entities : p[i] # Routes(k, n)
          /\ \A n \in Entities : p[i] # Exports(n)
        BY <1>3, <2>1, WritesDiffer
    <2>3. p[i] # Founds
        BY <1>1, <1>3, <2>1, WritesDiffer, PathsDiffer DEF Generating!Folders
    <2>4. ASSUME NEW k \in Kinds, NEW n \in Entities, p[i] = Registers(k, n)
          PROVE  Among(Authors(k, n), p, i - 1)
        BY <1>4, <1>r, <2>4 DEF Among
    <2> QED  BY <2>2, <2>3, <2>4
<1>6. Reaches(p, "entity", name)
    BY <1>1, <1>2, <1>4 DEF Reaches, Among
<1> QED  BY <1>2, <1>5, <1>6, <1>r DEF Fits, Goals, Kinds, p

(* The plan of generate controller keeps the order and reaches its goals.            *)
LEMMA ControllerFits ==
    ASSUME NEW name \in Entities
    PROVE  Fits(Generating!generate_controller(name), "controller", name)
<1> DEFINE p == Generating!generate_controller(name)
<1>1. /\ "controller" \in Kinds /\ Generating!FolderOf("controller") = "controller"
      /\ "controller" \in Generating!Folders /\ "controller" \in Routed
      /\ "repository" \in Generating!Folders /\ Routed \subseteq Kinds
    BY DEF Kinds, Routed, Generating!FolderOf, Generating!Folders
<1>2. /\ p \in Seq(Writes) /\ Len(p) = 5
      /\ p[1] = Generating!WriteFile(Generating!Source("controller", name), Generating!Generic)
      /\ p[2] = Registers("controller", name) /\ p[3] = Opens("controller")
      /\ p[4] = Routes("controller", name) /\ p[5] = Explains("controller", name)
    BY ControllerPlan
<1> HIDE DEF p
<1>3. /\ p[1].do = "file" /\ p[1].path = Generating!Source("controller", name)
      /\ p[2].do = "append_mod" /\ p[3].do = "main" /\ p[4].do = "marker" /\ p[5].do = "marker"
    BY <1>1, <1>2, WritesDiffer
<1>4. /\ Alike(p[1], Authors("controller", name)) /\ Alike(p[2], Registers("controller", name))
      /\ Alike(p[3], Opens("controller")) /\ Alike(p[4], Routes("controller", name))
    BY <1>2, AlikeWrites
<1>r. \A i \in 1 .. Len(p), k \in Kinds, n \in Entities :
          p[i] = Registers(k, n) => i = 2 /\ k = "controller" /\ n = name
    <2> SUFFICES ASSUME NEW i \in 1 .. Len(p), NEW k \in Kinds, NEW n \in Entities,
                        p[i] = Registers(k, n)
                 PROVE  i = 2 /\ k = "controller" /\ n = name
        OBVIOUS
    <2>1. p[i].do = "append_mod"
        BY WritesDiffer
    <2>2. i = 2
        BY <1>2, <1>3, <2>1
    <2> QED  BY <1>1, <1>2, <2>2, WritesDiffer
<1>5. InOrderOf(p)
    <2> SUFFICES ASSUME NEW i \in 1 .. Len(p)
                 PROVE  /\ \A k \in Kinds, n \in Entities :
                               /\ p[i] = Registers(k, n) => Among(Authors(k, n), p, i - 1)
                               /\ p[i] = Routes(k, n) => /\ Among(Registers(k, n), p, i - 1)
                                                         /\ Among(Opens("controller"), p, i - 1)
                        /\ \A n \in Entities : p[i] # Exports(n)
                        /\ p[i] # Founds
        BY <1>r DEF InOrderOf, Kinds
    <2>1. i = 1 \/ i = 2 \/ i = 3 \/ i = 4 \/ i = 5
        BY <1>2
    <2>2. \A n \in Entities : p[i] # Exports(n)
        BY <1>3, <2>1, WritesDiffer
    <2>3. p[i] # Founds
        BY <1>1, <1>3, <2>1, WritesDiffer, PathsDiffer
    <2>4. ASSUME NEW k \in Kinds, NEW n \in Entities, p[i] = Registers(k, n)
          PROVE  Among(Authors(k, n), p, i - 1)
        BY <1>4, <1>r, <2>4 DEF Among
    <2>5. ASSUME NEW k \in Kinds, NEW n \in Entities, p[i] = Routes(k, n)
          PROVE  Among(Registers(k, n), p, i - 1) /\ Among(Opens("controller"), p, i - 1)
        <3>1. p[i].do = "marker"
            BY <2>5, WritesDiffer
        <3>2. i = 4
            BY <1>1, <1>2, <1>3, <2>1, <2>5, <3>1, WritesDiffer
        <3>3. k = "controller" /\ n = name
            BY <1>1, <1>2, <2>5, <3>2, WritesDiffer
        <3> QED  BY <1>4, <3>2, <3>3 DEF Among
    <2> QED  BY <2>2, <2>3, <2>4, <2>5
<1>6. Reaches(p, "controller", name)
    BY <1>1, <1>2, <1>4 DEF Reaches, Among
<1> QED  BY <1>2, <1>5, <1>6, <1>r DEF Fits, Goals, Kinds, p

(* The plan of generate admin keeps the order and reaches its goals.                 *)
LEMMA AdminFits ==
    ASSUME NEW name \in Entities, u1[Generating!Source("entity", name)] \in Wholes
    PROVE  Fits(Generating!generate_admin(name), "admin", name)
<1> DEFINE p == Generating!generate_admin(name)
<1>1. /\ "admin" \in Kinds /\ Generating!FolderOf("admin") = "controller"
      /\ "controller" \in Generating!Folders /\ "admin" \in Routed
      /\ "repository" \in Generating!Folders /\ Routed \subseteq Kinds
    BY DEF Kinds, Routed, Generating!FolderOf, Generating!Folders
<1>2. /\ p \in Seq(Writes) /\ Len(p) = 6
      /\ p[1] = Generating!WriteFile(Generating!Source("admin", name),
                                     u1[Generating!Source("entity", name)])
      /\ p[2] = Registers("admin", name) /\ p[3] = Opens("controller") /\ p[4] = Opens("entity")
      /\ p[5] = Routes("admin", name) /\ p[6] = Explains("admin", name)
    BY AdminPlan
<1> HIDE DEF p
<1>3. /\ p[1].do = "file" /\ p[1].path = Generating!Source("admin", name)
      /\ p[2].do = "append_mod" /\ p[3].do = "main" /\ p[4].do = "main"
      /\ p[5].do = "marker" /\ p[6].do = "marker"
    BY <1>1, <1>2, WritesDiffer DEF Generating!Folders
<1>4. /\ Alike(p[1], Authors("admin", name)) /\ Alike(p[2], Registers("admin", name))
      /\ Alike(p[3], Opens("controller")) /\ Alike(p[5], Routes("admin", name))
    BY <1>2, AlikeWrites
<1>r. \A i \in 1 .. Len(p), k \in Kinds, n \in Entities :
          p[i] = Registers(k, n) => i = 2 /\ k = "admin" /\ n = name
    <2> SUFFICES ASSUME NEW i \in 1 .. Len(p), NEW k \in Kinds, NEW n \in Entities,
                        p[i] = Registers(k, n)
                 PROVE  i = 2 /\ k = "admin" /\ n = name
        OBVIOUS
    <2>1. p[i].do = "append_mod"
        BY WritesDiffer
    <2>2. i = 2
        BY <1>2, <1>3, <2>1
    <2> QED  BY <1>1, <1>2, <2>2, WritesDiffer
<1>5. InOrderOf(p)
    <2> SUFFICES ASSUME NEW i \in 1 .. Len(p)
                 PROVE  /\ \A k \in Kinds, n \in Entities :
                               /\ p[i] = Registers(k, n) => Among(Authors(k, n), p, i - 1)
                               /\ p[i] = Routes(k, n) => /\ Among(Registers(k, n), p, i - 1)
                                                         /\ Among(Opens("controller"), p, i - 1)
                        /\ \A n \in Entities : p[i] # Exports(n)
                        /\ p[i] # Founds
        BY <1>r DEF InOrderOf, Kinds
    <2>1. i = 1 \/ i = 2 \/ i = 3 \/ i = 4 \/ i = 5 \/ i = 6
        BY <1>2
    <2>2. \A n \in Entities : p[i] # Exports(n)
        BY <1>3, <2>1, WritesDiffer
    <2>3. p[i] # Founds
        BY <1>1, <1>3, <2>1, WritesDiffer, PathsDiffer
    <2>4. ASSUME NEW k \in Kinds, NEW n \in Entities, p[i] = Registers(k, n)
          PROVE  Among(Authors(k, n), p, i - 1)
        BY <1>4, <1>r, <2>4 DEF Among
    <2>5. ASSUME NEW k \in Kinds, NEW n \in Entities, p[i] = Routes(k, n)
          PROVE  Among(Registers(k, n), p, i - 1) /\ Among(Opens("controller"), p, i - 1)
        <3>1. p[i].do = "marker"
            BY <2>5, WritesDiffer
        <3>2. i = 5
            BY <1>1, <1>2, <1>3, <2>1, <2>5, <3>1, WritesDiffer
        <3>3. k = "admin" /\ n = name
            BY <1>1, <1>2, <2>5, <3>2, WritesDiffer
        <3> QED  BY <1>4, <3>2, <3>3 DEF Among
    <2> QED  BY <2>2, <2>3, <2>4, <2>5
<1>6. Reaches(p, "admin", name)
    BY <1>1, <1>2, <1>4 DEF Reaches, Among
<1> QED  BY <1>2, <1>5, <1>6, <1>r DEF Fits, Goals, Kinds, p

(* The plan of generate crud keeps the order and reaches its goals.                  *)
LEMMA CrudFits ==
    ASSUME NEW name \in Entities, NEW fields \in Wholes
    PROVE  Fits(Generating!generate_crud(name, fields), "crud", name)
<1> DEFINE p == Generating!generate_crud(name, fields)
           d == IF Generating!Exists(Generating!Mod("repository")) THEN 0 ELSE 1
<1>1. /\ Goals("crud") = {"entity", "repository", "controller"}
      /\ Goals("crud") \subseteq Kinds /\ Routed \subseteq Kinds
      /\ \A k \in Goals("crud") : Generating!FolderOf(k) = k
      /\ "controller" \in Routed /\ "entity" \notin Routed /\ "repository" \notin Routed
      /\ "controller" \in Generating!Folders /\ "entity" \in Generating!Folders
      /\ "repository" \in Generating!Folders
    BY DEF Goals, Kinds, Routed, Generating!FolderOf, Generating!Folders
<1>2. /\ p \in Seq(Writes) /\ Len(p) = 12 + d
      /\ p[1] = Generating!WriteFile(Generating!Source("entity", name), fields)
      /\ p[2] = Registers("entity", name) /\ p[3] = Opens("entity")
      /\ p[4] = Generating!WriteFile(Generating!Source("repository", name), fields)
      /\ d = 1 => p[5] = Founds
      /\ p[5 + d] = Registers("repository", name) /\ p[6 + d] = Opens("repository")
      /\ p[7 + d] = Exports(name)
      /\ p[8 + d] = Generating!WriteFile(Generating!Source("controller", name), Generating!Generic)
      /\ p[9 + d] = Registers("controller", name) /\ p[10 + d] = Opens("controller")
      /\ p[11 + d] = Routes("controller", name) /\ p[12 + d] = Explains("controller", name)
    BY CrudPlan
<1>3. d \in {0, 1} /\ (d = 1 => ~Generating!Exists(Generating!Mod("repository")))
    OBVIOUS
<1> HIDE DEF p, d
<1>4. /\ "entity" \in Kinds /\ "repository" \in Kinds /\ "controller" \in Kinds
    BY <1>1
<1>5. /\ p[1].do = "file" /\ p[1].path = Generating!Source("entity", name)
      /\ p[2].do = "append_mod" /\ p[2].path = Generating!Mod("entity") /\ p[3].do = "main"
      /\ p[3].path = Generating!Main
      /\ p[4].do = "file" /\ p[4].path = Generating!Source("repository", name)
      /\ p[5 + d].do = "append_mod" /\ p[6 + d].do = "main" /\ p[7 + d].do = "use"
    BY <1>1, <1>2, <1>4, WritesDiffer
<1>6. /\ p[8 + d].do = "file" /\ p[8 + d].path = Generating!Source("controller", name)
      /\ p[9 + d].do = "append_mod" /\ p[10 + d].do = "main"
      /\ p[11 + d].do = "marker" /\ p[12 + d].do = "marker"
    BY <1>1, <1>2, <1>4, WritesDiffer
<1>7. d = 1 => p[5].do = "file" /\ p[5].path = Generating!Mod("repository")
    BY <1>2, WritesDiffer
<1>8. /\ Alike(p[1], Authors("entity", name)) /\ Alike(p[2], Registers("entity", name))
      /\ Alike(p[3], Opens("entity"))
      /\ Alike(p[4], Authors("repository", name)) /\ Alike(p[5 + d], Registers("repository", name))
      /\ Alike(p[6 + d], Opens("repository"))
    BY <1>2, AlikeWrites
<1>9. /\ Alike(p[8 + d], Authors("controller", name)) /\ Alike(p[9 + d], Registers("controller", name))
      /\ Alike(p[10 + d], Opens("controller")) /\ Alike(p[11 + d], Routes("controller", name))
    BY <1>2, AlikeWrites
<1>r. \A i \in 1 .. Len(p), k \in Kinds, n \in Entities :
          p[i] = Registers(k, n) => /\ n = name
                                    /\ \/ i = 2 /\ k = "entity"
                                       \/ i = 5 + d /\ k = "repository"
                                       \/ i = 9 + d /\ k = "controller"
    <2> SUFFICES ASSUME NEW i \in 1 .. Len(p), NEW k \in Kinds, NEW n \in Entities,
                        p[i] = Registers(k, n)
                 PROVE  /\ n = name
                        /\ \/ i = 2 /\ k = "entity"
                           \/ i = 5 + d /\ k = "repository"
                           \/ i = 9 + d /\ k = "controller"
        OBVIOUS
    <2>1. p[i].do = "append_mod"
        BY WritesDiffer
    <2>2. i = 2 \/ i = 5 + d \/ i = 9 + d
        <3>1. i \in 1 .. 12 + d
            BY <1>2
        <3>2. CASE d = 0
            BY <1>5, <1>6, <2>1, <3>1, <3>2
        <3>3. CASE d = 1
            BY <1>5, <1>6, <1>7, <2>1, <3>1, <3>3
        <3> QED  BY <1>3, <3>2, <3>3
    <2> QED  BY <1>2, <1>4, <2>2, WritesDiffer
<1>10. InOrderOf(p)
    <2> SUFFICES ASSUME NEW i \in 1 .. Len(p)
                 PROVE  /\ \A k \in Kinds, n \in Entities :
                               /\ p[i] = Registers(k, n) => Among(Authors(k, n), p, i - 1)
                               /\ p[i] = Routes(k, n) => /\ Among(Registers(k, n), p, i - 1)
                                                         /\ Among(Opens("controller"), p, i - 1)
                        /\ \A n \in Entities :
                               /\ p[i] = Exports(n) => Among(Authors("entity", n), p, i - 1)
                               /\ p[i] = Registers("repository", n) =>
                                      /\ Among(Registers("entity", n), p, i - 1)
                                      /\ Among(Opens("entity"), p, i - 1)
                        /\ p[i] = Founds => /\ ~Generating!Exists(Generating!Mod("repository"))
                                            /\ \A j \in 1 .. i - 1 :
                                                   p[j].path # Generating!Mod("repository")
        BY DEF InOrderOf
    <2>1. \/ i = 1 \/ i = 2 \/ i = 3 \/ i = 4 \/ (d = 1 /\ i = 5)
          \/ i = 5 + d \/ i = 6 + d \/ i = 7 + d \/ i = 8 + d \/ i = 9 + d \/ i = 10 + d
          \/ i = 11 + d \/ i = 12 + d
        <3>1. i \in 1 .. 12 + d
            BY <1>2
        <3>2. CASE d = 0
            BY <3>1, <3>2
        <3>3. CASE d = 1
            BY <3>1, <3>3
        <3> QED  BY <1>3, <3>2, <3>3
    <2>2. ASSUME NEW k \in Kinds, NEW n \in Entities, p[i] = Registers(k, n)
          PROVE  Among(Authors(k, n), p, i - 1)
        <3>1. CASE i = 2 /\ k = "entity" /\ n = name
            BY <1>8, <3>1 DEF Among
        <3>2. CASE i = 5 + d /\ k = "repository" /\ n = name
            <4>1. 4 \in 1 .. i - 1
                BY <1>3, <3>2
            <4> QED  BY <1>8, <3>2, <4>1 DEF Among
        <3>3. CASE i = 9 + d /\ k = "controller" /\ n = name
            <4>1. 8 + d \in 1 .. i - 1
                BY <1>3, <3>3
            <4> QED  BY <1>9, <3>3, <4>1 DEF Among
        <3> QED  BY <1>r, <2>2, <3>1, <3>2, <3>3
    <2>6. ASSUME NEW n \in Entities, p[i] = Registers("repository", n)
          PROVE  Among(Registers("entity", n), p, i - 1) /\ Among(Opens("entity"), p, i - 1)
        <3>1. i = 5 + d /\ n = name
            BY <1>4, <1>r, <2>6
        <3>2. 2 \in 1 .. i - 1 /\ 3 \in 1 .. i - 1
            BY <1>3, <3>1
        <3> QED  BY <1>8, <3>1, <3>2 DEF Among
    <2>3. ASSUME NEW k \in Kinds, NEW n \in Entities, p[i] = Routes(k, n)
          PROVE  Among(Registers(k, n), p, i - 1) /\ Among(Opens("controller"), p, i - 1)
        <3>1. p[i].do = "marker"
            BY <2>3, WritesDiffer
        <3>2. i = 11 + d \/ i = 12 + d
            BY <1>5, <1>6, <1>7, <2>1, <3>1
        <3>3. i = 11 + d
            BY <1>2, <1>4, <2>3, <3>2, WritesDiffer
        <3>4. k = "controller" /\ n = name
            BY <1>2, <1>4, <2>3, <3>3, WritesDiffer
        <3>5. 9 + d \in 1 .. i - 1 /\ 10 + d \in 1 .. i - 1
            BY <1>3, <3>3
        <3> QED  BY <1>9, <3>4, <3>5 DEF Among
    <2>4. ASSUME NEW n \in Entities, p[i] = Exports(n)
          PROVE  Among(Authors("entity", n), p, i - 1)
        <3>1. p[i].do = "use"
            BY <2>4, WritesDiffer
        <3>2. i = 7 + d
            BY <1>5, <1>6, <1>7, <2>1, <3>1
        <3>3. n = name
            BY <1>2, <2>4, <3>2, WritesDiffer
        <3>4. 1 \in 1 .. i - 1
            BY <1>3, <3>2
        <3> QED  BY <1>8, <3>3, <3>4 DEF Among
    <2>5. ASSUME p[i] = Founds
          PROVE  /\ ~Generating!Exists(Generating!Mod("repository"))
                 /\ \A j \in 1 .. i - 1 : p[j].path # Generating!Mod("repository")
        <3>1. p[i].do = "file" /\ p[i].path \notin Generating!Sources
            BY <1>1, <2>5, WritesDiffer, PathsDiffer
        <3>2. /\ p[1].path \in Generating!Sources /\ p[4].path \in Generating!Sources
              /\ p[8 + d].path \in Generating!Sources
            BY <1>4, <1>5, <1>6, PathsDiffer
        <3>3. d = 1 /\ i = 5
            BY <1>5, <1>6, <2>1, <3>1, <3>2
        <3>4. /\ p[1].path # Generating!Mod("repository") /\ p[4].path # Generating!Mod("repository")
              /\ p[3].path # Generating!Mod("repository")
            BY <1>1, <1>5, <3>2, PathsDiffer
        <3>5. p[2].path # Generating!Mod("repository")
            BY <1>1, <1>5, PathsDiffer
        <3>6. \A j \in 1 .. i - 1 : j = 1 \/ j = 2 \/ j = 3 \/ j = 4
            BY <3>3
        <3> QED  BY <1>3, <3>3, <3>4, <3>5, <3>6
    <2> QED  BY <2>2, <2>3, <2>4, <2>5, <2>6
<1>11. Reaches(p, "entity", name) /\ Reaches(p, "repository", name)
    <2>1. 5 + d \in 1 .. Len(p) /\ 6 + d \in 1 .. Len(p) /\ 1 \in 1 .. Len(p) /\ 2 \in 1 .. Len(p)
          /\ 3 \in 1 .. Len(p) /\ 4 \in 1 .. Len(p)
        BY <1>2, <1>3
    <2>2. Generating!FolderOf("entity") = "entity" /\ Generating!FolderOf("repository") = "repository"
        BY <1>1
    <2> QED  BY <1>1, <1>8, <2>1, <2>2 DEF Reaches, Among
<1>12. Reaches(p, "controller", name)
    <2>1. /\ 8 + d \in 1 .. Len(p) /\ 9 + d \in 1 .. Len(p)
          /\ 10 + d \in 1 .. Len(p) /\ 11 + d \in 1 .. Len(p)
        BY <1>2, <1>3
    <2>2. Generating!FolderOf("controller") = "controller"
        BY <1>1
    <2> QED  BY <1>9, <2>1, <2>2 DEF Reaches, Among
<1>13. Among(Exports(name), p, Len(p))
    <2>1. 7 + d \in 1 .. Len(p) /\ Alike(p[7 + d], Exports(name))
        BY <1>2, <1>3, AlikeWrites
    <2> QED  BY <2>1 DEF Among
<1>14. \A i \in 1 .. Len(p), n \in Entities : p[i] # Registers("admin", n)
    BY <1>r DEF Kinds
<1> QED  BY <1>1, <1>2, <1>10, <1>11, <1>12, <1>13, <1>14 DEF Fits, p

(* A command that runs, and what it has left to do. *)
Commands == [at : {"looks", "writes"}, todo : Seq(Named),
             kind : {"entity", "controller", "crud", "admin"}, name : Entities,
             dry : BOOLEAN, force : BOOLEAN]

(* A command that runs has writes to do, the one under way among them.               *)
LEMMA AtWork ==
    ASSUME Shaped, u3.at # "idle"
    PROVE  /\ u3 \in Commands
           /\ u3.at = "writes" => /\ u3.todo # <<>> /\ Generating!Doing \in Named
                                  /\ Generating!Doing.lines \in Wholes
<1>1. u3 \in Commands
    BY DEF Shaped, Commands, Named, Generating!Idle
<1>2. u3.at = "writes" => u3.todo # <<>>
    BY DEF Shaped
<1>3. u3.todo \in Seq(Named)
    BY <1>1 DEF Commands
<1>4. u3.todo # <<>> => Generating!Doing \in Named
    <2> HIDE DEF Named
    <2> QED  BY <1>3 DEF Generating!Doing
<1> QED  BY <1>1, <1>2, <1>4 DEF Named

(* What a file holds, or is to hold, has no line twice.                              *)
LEMMA HeldIsWhole ==
    ASSUME Shaped, NEW path
    PROVE  Held(path) \in Wholes
<1>1. CASE Generating!Writing(path)
    BY <1>1, AtWork DEF Held, Generating!Writing
<1>2. CASE ~Generating!Writing(path)
    BY <1>2, LinesAreWhole DEF Held, Generating!Lines, Generating!Exists, Shaped
<1> QED  BY <1>1, <1>2

(* No file goes, main.rs does not come, and no mod.rs and no main.rs loses a line. *)
Grows == /\ \A path : Generating!Exists(path) => Generating!Exists(path)'
         /\ Generating!Exists(Generating!Main)' => Generating!Exists(Generating!Main)
         /\ \A f \in Generating!Folders : \A line :
                Has(Generating!Mod(f), line) => Has(Generating!Mod(f), line)'
         /\ \A line : Has(Generating!Main, line) => Has(Generating!Main, line)'
         /\ u2' = u2

BuiltUpon(write) == \/ \E k \in Kinds, n \in Entities : write = Authors(k, n)
                    \/ \E k \in Kinds, n \in Entities : write = Registers(k, n)
                    \/ \E f \in Generating!Folders : write = Opens(f)
                    \/ \E k \in Kinds, n \in Entities : write = Routes(k, n)
                    \/ \E n \in Entities : write = Exports(n)

(* What was done stays done while no file and no line goes.                          *)
LEMMA SettledStays ==
    ASSUME Grows, NEW w, BuiltUpon(w), Settled(w)
    PROVE  Settled(w)'
<1>1. CASE \E k \in Kinds, n \in Entities : w = Authors(k, n)
    <2>1. w.do = "file"
        BY <1>1, WritesDiffer DEF Authors
    <2> QED  BY <2>1 DEF Settled, Grows
<1>2. CASE \E k \in Kinds, n \in Entities : w = Registers(k, n)
    <2>1. PICK k \in Kinds, n \in Entities : w = Registers(k, n)
        BY <1>2
    <2>2. w.do = "append_mod" /\ \E f \in Generating!Folders : w.path = Generating!Mod(f)
        BY <2>1, WritesDiffer, PathsDiffer
    <2> QED  BY <2>2 DEF Settled, Grows
<1>3. CASE \E f \in Generating!Folders : w = Opens(f)
    <2>1. w.do = "main" /\ w.path = Generating!Main
        BY <1>3, WritesDiffer
    <2> QED  BY <2>1 DEF Settled, Grows
<1>4. CASE \E k \in Kinds, n \in Entities : w = Routes(k, n)
    <2>1. w.do = "marker" /\ w.path = Generating!Main
        BY <1>4, WritesDiffer
    <2> QED  BY <2>1 DEF Settled, Grows
<1>5. CASE \E n \in Entities : w = Exports(n)
    <2>1. w.do = "use" /\ w.path = Generating!Mod("entity") /\ "entity" \in Generating!Folders
        BY <1>5, WritesDiffer DEF Generating!Folders
    <2> QED  BY <2>1 DEF Settled, Grows
<1> QED  BY <1>1, <1>2, <1>3, <1>4, <1>5 DEF BuiltUpon

(* The first write that is left is dealt with. *)
Proceeds == /\ Rest # <<>> /\ Rest' = Tail(Rest)
            /\ \E w \in Writes : /\ w = Rest[1]
                                 /\ (w.do = "use" /\ u4'.unseen # "none") \/ Settled(w)'

(* What a command has left to do are writes of its plan.                             *)
LEMMA RestIsPlanned ==
    ASSUME Shaped, Planned, u3.at # "idle"
    PROVE  Rest \in Seq(Writes) /\ Len(Rest) \in Nat /\ \A i \in 1 .. Len(Rest) : Rest[i] \in Writes
<1>1. Rest \in Seq(Named)
    <2> HIDE DEF Named
    <2>1. u3.todo \in Seq(Named) /\ (u3.at = "writes" => u3.todo # <<>>)
        BY AtWork DEF Commands
    <2> QED  BY <2>1 DEF Rest
<1>2. \A i \in 1 .. Len(Rest) : Rest[i] \in Writes
    BY DEF Planned
<1> HIDE DEF Rest
<1> QED  BY <1>1, <1>2

(* What is left of a list without its first.                                         *)
LEMMA TailIsAll ==
    ASSUME NEW S, NEW s \in Seq(S), s # <<>>
    PROVE  /\ Tail(s) \in Seq(S) /\ Len(Tail(s)) = Len(s) - 1 /\ Len(s) \in Nat \ {0}
           /\ \A i \in 1 .. Len(s) - 1 : Tail(s)[i] = s[i + 1]
           /\ Head(s) = s[1]
OBVIOUS

(* What was among the first of what is left still is, or is done.                    *)
LEMMA BeforeProceeds ==
    ASSUME Rest \in Seq(Writes), Grows, Proceeds,
           NEW w, BuiltUpon(w), w.do = "use" => u4'.unseen = "none",
           NEW i \in 1 .. Len(Rest) + 1, Before(w, i)
    PROVE  Before(w, i - 1)'
<1>1. CASE Settled(w)
    BY <1>1, SettledStays DEF Before
<1>2. CASE ~Settled(w)
    <2>1. PICK j \in 1 .. i - 1 : Alike(Rest[j], w)
        BY <1>2 DEF Before
    <2>2. CASE j = 1
        <3>2. PICK v \in Writes : /\ v = Rest[1]
                                  /\ (v.do = "use" /\ u4'.unseen # "none") \/ Settled(v)'
            BY DEF Proceeds
        <3>3. Alike(v, w)
            BY <2>1, <2>2, <3>2
        <3>4. Settled(v)'
            BY <3>2, <3>3 DEF Alike
        <3>5. Settled(w)'
            BY <3>3, <3>4 DEF Settled, Alike
        <3> QED  BY <3>5 DEF Before
    <2>3. CASE j # 1
        <3>1. j - 1 \in 1 .. (i - 1) - 1
            BY <2>1, <2>3
        <3>2. j - 1 \in 1 .. Len(Rest) - 1 /\ (j - 1) + 1 = j
            BY <2>1, <2>3
        <3>3. Rest'[j - 1] = Rest[j]
            BY <3>2, TailIsAll DEF Proceeds
        <3>4. Alike(Rest'[j - 1], w)
            BY <2>1, <3>3
        <3> QED  BY <3>1, <3>4 DEF Before
    <2> QED  BY <2>2, <2>3
<1> QED  BY <1>1, <1>2

(* What has to come before a write still does, and what a plan is for is still met.    *)
LEMMA PlanProceeds ==
    ASSUME Shaped, Planned, Ordered, Founded, Aimed, Wet, Grows, Proceeds,
           u3'.kind = u3.kind /\ u3'.name = u3.name,
           u4'.cut = u4.cut /\ u4'.early = u4.early,
           u4'.unseen = u4.unseen \/ (u4.unseen = "none" /\ u4'.unseen = "export"),
           \E w \in Writes : /\ w = Rest[1]
                             /\ \A path : Generating!Exists(path)' =>
                                              Generating!Exists(path) \/ path = w.path
    PROVE  Planned' /\ Ordered' /\ Founded' /\ Aimed'
<1>1. Rest \in Seq(Writes) /\ Rest # <<>> /\ Rest' = Tail(Rest)
    BY RestIsPlanned DEF Wet, Proceeds
<1> DEFINE n == Len(Rest)
<1>2. /\ n \in Nat /\ Len(Rest') = n - 1 /\ \A i \in 1 .. n : Rest[i] \in Writes
      /\ \A i \in 1 .. n - 1 : Rest'[i] = Rest[i + 1] /\ i + 1 \in 1 .. n
    BY <1>1, TailIsAll, RestIsPlanned DEF Wet
<1>3. Planned'
    BY <1>2 DEF Planned
<1>4. ASSUME NEW w, BuiltUpon(w), w.do # "use", NEW i \in 1 .. Len(Rest'), Before(w, i + 1)
      PROVE  Before(w, i)'
    <2>1. i + 1 \in 1 .. Len(Rest) + 1 /\ (i + 1) - 1 = i
        BY <1>2, <1>4
    <2>2. Before(w, (i + 1) - 1)'
        BY <1>1, <1>4, <2>1, BeforeProceeds
    <2> QED  BY <2>1, <2>2
<1>5. /\ \A k \in Kinds, m \in Entities : /\ BuiltUpon(Authors(k, m)) /\ BuiltUpon(Registers(k, m))
                                          /\ BuiltUpon(Routes(k, m))
                                          /\ Authors(k, m).do # "use" /\ Registers(k, m).do # "use"
                                          /\ Routes(k, m).do # "use"
      /\ \A f \in Generating!Folders : BuiltUpon(Opens(f)) /\ Opens(f).do # "use"
      /\ \A m \in Entities : BuiltUpon(Exports(m)) /\ Exports(m).do = "use"
    BY WritesDiffer DEF BuiltUpon, Authors
<1>6. /\ "controller" \in Generating!Folders /\ "entity" \in Kinds
      /\ "entity" \in Generating!Folders /\ "repository" \in Generating!Folders
      /\ "repository" \in Kinds /\ Generating!FolderOf("repository") = "repository"
    BY DEF Generating!Folders, Kinds, Generating!FolderOf
<1>7. Ordered'
    <2> SUFFICES ASSUME NEW i \in 1 .. Len(Rest')
                 PROVE  /\ \A k \in Kinds, m \in Entities :
                               /\ Rest'[i] = Registers(k, m) => Before(Authors(k, m), i)'
                               /\ Rest'[i] = Routes(k, m) => /\ Before(Registers(k, m), i)'
                                                             /\ Before(Opens("controller"), i)'
                        /\ \A m \in Entities : Rest'[i] = Exports(m) => Before(Authors("entity", m), i)'
                        /\ Rest'[i] = Founds =>
                               /\ ~Generating!Exists(Generating!Mod("repository"))'
                               /\ \A j \in 1 .. i - 1 : Rest'[j].path # Generating!Mod("repository")
        BY DEF Ordered
    <2>1. Rest'[i] = Rest[i + 1] /\ i + 1 \in 1 .. Len(Rest)
        BY <1>2
    <2>2. ASSUME NEW k \in Kinds, NEW m \in Entities, Rest'[i] = Registers(k, m)
          PROVE  Before(Authors(k, m), i)'
        <3>1. Before(Authors(k, m), i + 1)
            BY <2>1, <2>2 DEF Ordered
        <3> QED  BY <1>4, <1>5, <3>1
    <2>3. ASSUME NEW k \in Kinds, NEW m \in Entities, Rest'[i] = Routes(k, m)
          PROVE  Before(Registers(k, m), i)' /\ Before(Opens("controller"), i)'
        <3>1. Before(Registers(k, m), i + 1) /\ Before(Opens("controller"), i + 1)
            BY <2>1, <2>3 DEF Ordered
        <3> QED  BY <1>4, <1>5, <1>6, <3>1
    <2>4. ASSUME NEW m \in Entities, Rest'[i] = Exports(m)
          PROVE  Before(Authors("entity", m), i)'
        <3>1. Before(Authors("entity", m), i + 1)
            BY <2>1, <2>4 DEF Ordered
        <3> QED  BY <1>4, <1>5, <1>6, <3>1
    <2>5. ASSUME Rest'[i] = Founds
          PROVE  /\ ~Generating!Exists(Generating!Mod("repository"))'
                 /\ \A j \in 1 .. i - 1 : Rest'[j].path # Generating!Mod("repository")
        <3>1. /\ ~Generating!Exists(Generating!Mod("repository"))
              /\ \A j \in 1 .. (i + 1) - 1 : Rest[j].path # Generating!Mod("repository")
            BY <2>1, <2>5 DEF Ordered
        <3>2. Rest[1].path # Generating!Mod("repository")
            BY <3>1
        <3>3. ~Generating!Exists(Generating!Mod("repository"))'
            BY <3>1, <3>2
        <3>4. \A j \in 1 .. i - 1 : Rest'[j] = Rest[j + 1] /\ j + 1 \in 1 .. (i + 1) - 1
            BY <1>2
        <3> QED  BY <3>1, <3>3, <3>4
    <2> QED  BY <2>2, <2>3, <2>4, <2>5
<1>8. Aimed'
    <2>1. PICK m \in Nat : m = Len(Rest)
        BY <1>2
    <2>2. ASSUME NEW w, BuiltUpon(w), w.do = "use" => u4'.unseen = "none", Before(w, Len(Rest) + 1)
          PROVE  Before(w, Len(Rest) + 1)'
        <3>1. m + 1 \in 1 .. Len(Rest) + 1 /\ (m + 1) - 1 = m /\ Before(w, m + 1)
            BY <2>1, <2>2
        <3>2. Before(w, (m + 1) - 1)'
            BY <1>1, <2>2, <3>1, BeforeProceeds
        <3>3. Before(w, m)'
            BY <3>1, <3>2
        <3>4. Len(Rest') + 1 = m
            BY <1>2, <2>1
        <3> QED  BY <3>3, <3>4
    <2>3. u3 \in Commands
        BY AtWork DEF Wet
    <2>4. PICK name \in Entities : name = u3.name /\ name = u3'.name
        BY <2>3 DEF Commands
    <2>5. Goals(u3'.kind) = Goals(u3.kind) /\ Goals(u3.kind) \subseteq Kinds
        BY <2>3 DEF Goals, Kinds, Commands
    <2>6. ASSUME NEW k \in Goals(u3.kind)
          PROVE  /\ Before(Authors(k, name), Len(Rest) + 1)'
                 /\ (k = "entity" /\ u4'.unseen = "file") \/ Before(Registers(k, name), Len(Rest) + 1)'
                 /\ Before(Opens(Generating!FolderOf(k)), Len(Rest) + 1)'
                 /\ k \in Routed => Before(Routes(k, name), Len(Rest) + 1)'
        <3>1. /\ Before(Authors(k, name), Len(Rest) + 1)
              /\ (k = "entity" /\ u4.unseen = "file") \/ Before(Registers(k, name), Len(Rest) + 1)
              /\ Before(Opens(Generating!FolderOf(k)), Len(Rest) + 1)
              /\ k \in Routed => Before(Routes(k, name), Len(Rest) + 1)
            BY <2>4 DEF Aimed
        <3>2. k \in Kinds /\ Generating!FolderOf(k) \in Generating!Folders
            BY <2>5, PathsDiffer
        <3> QED  BY <1>5, <2>2, <3>1, <3>2
    <2>7. ASSUME u3.kind = "crud", u4'.unseen = "none" PROVE Before(Exports(name), Len(Rest) + 1)'
        <3>1. Before(Exports(name), Len(Rest) + 1)
            BY <2>4, <2>7 DEF Aimed
        <3> QED  BY <1>5, <2>2, <2>7, <3>1
    <2> QED  BY <2>4, <2>5, <2>6, <2>7 DEF Aimed
<1>9. Founded'
    <2> SUFFICES ASSUME ~u4.cut, NEW i \in 1 .. Len(Rest'), NEW m \in Entities
                 PROVE  /\ Rest'[i] = Registers("repository", m) =>
                               Before(Registers("entity", m), i)' /\ Before(Opens("entity"), i)'
                        /\ Rest'[i] = Registers("admin", m) =>
                               m \in u4.early \/ Compiled("repository", m)'
        BY DEF Founded
    <2>1. Rest'[i] = Rest[i + 1] /\ i + 1 \in 1 .. Len(Rest)
        BY <1>2
    <2>2. ASSUME Rest'[i] = Registers("repository", m)
          PROVE  Before(Registers("entity", m), i)' /\ Before(Opens("entity"), i)'
        <3>1. Before(Registers("entity", m), i + 1) /\ Before(Opens("entity"), i + 1)
            BY <2>1, <2>2 DEF Founded
        <3> QED  BY <1>4, <1>5, <1>6, <3>1
    <2>3. Compiled("repository", m) => Compiled("repository", m)'
        BY <1>5, <1>6, SettledStays DEF Compiled
    <2>4. Rest'[i] = Registers("admin", m) => m \in u4.early \/ Compiled("repository", m)
        BY <2>1 DEF Founded
    <2> QED  BY <2>2, <2>3, <2>4
<1> QED  BY <1>3, <1>7, <1>8, <1>9

(* The command goes on to its next write; no file changes. *)
LEMMA PassesOn ==
    ASSUME Shaped, Generating!Looks, Generating!Passes
    PROVE  /\ u3' \in Commands /\ u3'.at = "looks" /\ u3'.kind = u3.kind /\ u3'.name = u3.name
           /\ u3'.dry = u3.dry /\ u3'.force = u3.force
           /\ Rest = u3.todo /\ Rest # <<>> /\ Rest' = Tail(Rest) /\ u3.at = "looks"
           /\ \A path : Held(path)' = Held(path) /\ Held(path) = Generating!Lines(path)
           /\ \A path : ~Generating!Writing(path) /\ ~Generating!Writing(path)'
           /\ UNCHANGED <<u1, u2, u4>>
           /\ Grows
           /\ Shaped'
<1> USE DEF Generating!Looks, Generating!Passes
<1>1. u3 \in Commands /\ u3.at = "looks" /\ u3.todo # <<>>
    BY AtWork
<1>2. Tail(u3.todo) \in Seq(Named)
    <2> HIDE DEF Named
    <2>1. u3.todo \in Seq(Named)
        BY <1>1 DEF Commands
    <2> QED  BY <1>1, <2>1
<1>3. /\ u3' \in Commands /\ u3'.at = "looks" /\ u3'.kind = u3.kind /\ u3'.name = u3.name
      /\ u3'.dry = u3.dry /\ u3'.force = u3.force /\ u3'.todo = Tail(u3.todo)
    BY <1>1, <1>2 DEF Commands, Generating!Next1
<1>4. Rest = u3.todo /\ Rest # <<>> /\ Rest' = Tail(Rest)
    BY <1>1, <1>3 DEF Rest
<1>5. UNCHANGED <<u1, u2, u4>>
    OBVIOUS
<1>6. \A path : ~Generating!Writing(path) /\ ~Generating!Writing(path)'
    BY <1>1, <1>3 DEF Generating!Writing
<1>7. \A path : Held(path)' = Held(path) /\ Held(path) = Generating!Lines(path)
    BY <1>5, <1>6 DEF Held, Generating!Lines, Generating!Exists
<1>8. Grows
    BY <1>5, <1>7 DEF Grows, Generating!Exists, Has
<1>9. Shaped'
    <2>1. u3' \in [at : {"looks", "writes"},
                  todo : Seq([do : {"file", "append_mod", "main", "marker", "use"},
                              path : Paths, lines : Wholes]),
                  kind : {"entity", "controller", "crud", "admin"}, name : Entities,
                  dry : BOOLEAN, force : BOOLEAN]
        BY <1>3 DEF Commands, Named
    <2> QED  BY <1>3, <1>5, <2>1 DEF Shaped
<1> QED  BY <1>1, <1>3, <1>4, <1>5, <1>6, <1>7, <1>8, <1>9

(* What is left without its first is planned as well.                                *)
LEMMA PlannedProceeds ==
    ASSUME Shaped, Planned, u3.at # "idle", Rest # <<>>, Rest' = Tail(Rest)
    PROVE  Planned'
<1>1. Rest \in Seq(Writes) /\ \A i \in 1 .. Len(Rest) : Rest[i] \in Writes
    BY RestIsPlanned
<1>2. /\ Len(Rest') = Len(Rest) - 1 /\ Len(Rest) \in Nat
      /\ \A i \in 1 .. Len(Rest) - 1 : Rest'[i] = Rest[i + 1]
    BY <1>1, TailIsAll
<1> QED  BY <1>1, <1>2 DEF Planned

(* No file changes but in that it is filled as it was to be. *)
LEMMA SoundStays ==
    ASSUME Sound, Backed, \A path : Held(path)' = Held(path), DOMAIN u1' = DOMAIN u1, u2' = u2,
           u4'.cut = u4.cut, u4.early \subseteq u4'.early
    PROVE  Sound' /\ Backed'
<1>1. /\ \A path, line : Has(path, line)' <=> Has(path, line)
      /\ \A path : Generating!Exists(path)' <=> Generating!Exists(path)
    BY DEF Has, Generating!Exists
<1>2. Sound'
    BY <1>1 DEF Sound
<1>3. \A k, n : Compiled(k, n) => Compiled(k, n)'
    BY <1>1 DEF Compiled, Settled
<1>4. Backed'
    BY <1>1, <1>3 DEF Backed
<1> QED  BY <1>2, <1>4

(* A write that there is no need of is passed over.                                    *)
LEMMA PassesKeeps ==
    ASSUME GenerateInv, Generating!Looks, Generating!Passes, ~Generating!Needed
    PROVE  GenerateInv'
<1> USE DEF GenerateInv
<1>1. /\ u3' \in Commands /\ u3'.at = "looks" /\ u3'.kind = u3.kind /\ u3'.name = u3.name
      /\ u3'.dry = u3.dry /\ u3'.force = u3.force
      /\ Rest = u3.todo /\ Rest # <<>> /\ Rest' = Tail(Rest) /\ u3.at = "looks"
      /\ \A path : Held(path)' = Held(path) /\ Held(path) = Generating!Lines(path)
      /\ \A path : ~Generating!Writing(path) /\ ~Generating!Writing(path)'
      /\ UNCHANGED <<u1, u2, u4>>
      /\ Grows
      /\ Shaped'
    BY PassesOn
<1>2. Planned' /\ Ordered' /\ Founded' /\ Aimed'
    <2>1. CASE u3.dry
        <3>1. Planned'
            BY <1>1, PlannedProceeds
        <3> QED  BY <1>1, <2>1, <3>1 DEF Ordered, Founded, Aimed, Wet
    <2>2. CASE ~u3.dry
        <3>1. Rest \in Seq(Writes) /\ Rest[1] \in Writes /\ Generating!Doing = Rest[1]
            BY <1>1, RestIsPlanned, TailIsAll DEF Generating!Doing
        <3>2. PICK w \in Writes : w = Rest[1] /\ w = Generating!Doing
            BY <3>1
        <3>3. Settled(w)
            <4>2. CASE w.do = "file"
                BY <2>2, <3>2, <4>2 DEF Generating!Needed, Settled
            <4>3. CASE w.do # "file"
                <5>1. ~Generating!Possible \/ Generating!Present(w.path, w.lines[1])
                    BY <2>2, <3>2, <4>3 DEF Generating!Needed
                <5>2. Generating!Present(w.path, w.lines[1]) => Has(w.path, w.lines[1])
                    BY <1>1 DEF Generating!Present, Has
                <5> QED  BY <3>2, <4>3, <5>1, <5>2, <1>1 DEF Generating!Possible, Settled, Shaped
            <4> QED  BY <4>2, <4>3
        <3>4. Settled(w)'
            BY <1>1, <3>3 DEF Settled, Has, Generating!Exists
        <3>5. Proceeds
            BY <1>1, <3>2, <3>4 DEF Proceeds
        <3>6. \A path : Generating!Exists(path)' => Generating!Exists(path) \/ path = w.path
            BY <1>1 DEF Generating!Exists
        <3> QED  BY <1>1, <2>2, <3>2, <3>5, <3>6, PlanProceeds DEF Wet
    <2> QED  BY <2>1, <2>2
<1>3. Sound' /\ Backed'
    BY <1>1, SoundStays
<1>4. Kept'
    BY <1>1 DEF Kept, Extends, Generating!Exists
<1>5. Generating!DoneIsWired'
    BY <1>1 DEF Kept, Generating!DoneIsWired
<1> QED  BY <1>1, <1>2, <1>3, <1>4, <1>5

(* A line that a file has not got is added to its end. *)
LEMMA LineIsAdded ==
    ASSUME NEW s \in Wholes, NEW line \in AnyLine, line \notin Generating!ToSet(s)
    PROVE  LET t == s \o <<line>> IN
           /\ t \in Wholes /\ Extends(s, t)
           /\ \A l : l \in Generating!ToSet(t) <=> l \in Generating!ToSet(s) \/ l = line
<1> DEFINE t == s \o <<line>>
<1>1. s \in Seq(AnyLine) /\ Generating!IsInjective(s) /\ Len(s) \in Nat
    BY DEF Wholes
<1>2. /\ t \in Seq(AnyLine) /\ Len(t) = Len(s) + 1 /\ t[Len(s) + 1] = line
      /\ \A i \in 1 .. Len(s) : t[i] = s[i]
    <2> HIDE DEF AnyLine
    <2> QED  BY <1>1
<1>3. DOMAIN s = 1 .. Len(s) /\ DOMAIN t = 1 .. Len(s) + 1
    <2> HIDE DEF t
    <2> QED  BY <1>1, <1>2
<1> HIDE DEF t
<1>4. \A i \in 1 .. Len(s) : s[i] # line
    BY <1>3 DEF Generating!ToSet
<1>5. \A i \in DOMAIN t : i \in 1 .. Len(s) \/ i = Len(s) + 1
    BY <1>1, <1>3
<1>6. Generating!IsInjective(t)
    BY <1>1, <1>2, <1>3, <1>4, <1>5 DEF Generating!IsInjective
<1>7. ASSUME NEW l PROVE l \in Generating!ToSet(t) <=> l \in Generating!ToSet(s) \/ l = line
    <2>1. ASSUME l \in Generating!ToSet(t) PROVE l \in Generating!ToSet(s) \/ l = line
        <3>1. PICK i \in DOMAIN t : l = t[i]
            BY <2>1 DEF Generating!ToSet
        <3> QED  BY <1>2, <1>3, <1>5, <3>1 DEF Generating!ToSet
    <2>2. ASSUME l \in Generating!ToSet(s) PROVE l \in Generating!ToSet(t)
        <3>1. PICK i \in 1 .. Len(s) : l = s[i]
            BY <1>3, <2>2 DEF Generating!ToSet
        <3>2. i \in DOMAIN t /\ t[i] = l
            BY <1>1, <1>2, <1>3, <3>1
        <3> QED  BY <3>2 DEF Generating!ToSet
    <2>3. line \in Generating!ToSet(t)
        <3>1. Len(s) + 1 \in DOMAIN t
            BY <1>1, <1>3
        <3> QED  BY <1>2, <3>1 DEF Generating!ToSet
    <2> QED  BY <2>1, <2>2, <2>3
<1>8. Extends(s, t)
    BY <1>1, <1>2 DEF Extends
<1>9. t \in Wholes
    BY <1>2, <1>6 DEF Wholes
<1> QED  BY <1>7, <1>8, <1>9 DEF t

(* The write at hand gets the lines that the file is to have. *)
LEMMA FirstIsReplaced ==
    ASSUME NEW s \in Seq(Named), s # <<>>, NEW lines \in Wholes
    PROVE  LET t == [s EXCEPT ![1].lines = lines] IN
           /\ t \in Seq(Named) /\ t # <<>> /\ Tail(t) = Tail(s)
           /\ Head(t) = [s[1] EXCEPT !.lines = lines]
           /\ Head(t).path = s[1].path /\ Head(t).do = s[1].do /\ Head(t).lines = lines
<1> DEFINE t == [s EXCEPT ![1].lines = lines]
           n == Len(s)
           new == [s[1] EXCEPT !.lines = lines]
<1>1. n \in Nat /\ n >= 1 /\ s \in [1 .. n -> Named]
    <2> HIDE DEF Named
    <2> QED  OBVIOUS
<1>2. new \in Named /\ new.path = s[1].path /\ new.do = s[1].do /\ new.lines = lines
    BY <1>1 DEF Named
<1> HIDE DEF new
<1>3. t = [i \in 1 .. n |-> IF i = 1 THEN new ELSE s[i]]
    BY <1>1 DEF new
<1>4. t \in Seq(Named) /\ Len(t) = n /\ t # <<>> /\ t[1] = new /\ \A i \in 2 .. n : t[i] = s[i]
    <2> HIDE DEF t, n, Named
    <2>1. t \in [1 .. n -> Named]
        BY <1>1, <1>2, <1>3
    <2>2. t \in Seq(Named) /\ Len(t) = n
        BY <1>1, <2>1
    <2>3. t[1] = new /\ \A i \in 2 .. n : t[i] = s[i]
        BY <1>1, <1>3
    <2>4. t # <<>>
        BY <1>1, <2>2
    <2> QED  BY <2>2, <2>3, <2>4
<1> HIDE DEF t
<1>5. Head(t) = new
    <2> HIDE DEF Named
    <2> QED  BY <1>4
<1>6. Tail(t) = Tail(s)
    <2> HIDE DEF Named
    <2>1. /\ Tail(t) \in Seq(Named) /\ Len(Tail(t)) = n - 1
          /\ \A i \in 1 .. n - 1 : Tail(t)[i] = t[i + 1]
        BY <1>4, TailIsAll
    <2>2. /\ Tail(s) \in Seq(Named) /\ Len(Tail(s)) = n - 1
          /\ \A i \in 1 .. n - 1 : Tail(s)[i] = s[i + 1]
        BY <1>1, TailIsAll
    <2>3. \A i \in 1 .. n - 1 : Tail(t)[i] = Tail(s)[i]
        <3>1. \A i \in 1 .. n - 1 : i + 1 \in 2 .. n
            BY <1>1
        <3> QED  BY <1>4, <2>1, <2>2, <3>1
    <2>4. ASSUME NEW a \in Seq(Named), NEW b \in Seq(Named), Len(a) = Len(b),
                 \A i \in 1 .. Len(a) : a[i] = b[i]
          PROVE  a = b
        BY <2>4
    <2> QED  BY <2>1, <2>2, <2>3, <2>4
<1> QED  BY <1>2, <1>4, <1>5, <1>6 DEF new, t

(* Lines that say different things differ. *)
LEMMA LinesDiffer ==
    /\ \A k, k2 \in Kinds, n, n2 \in Entities :
           /\ Generating!Declares(k, n) = Generating!Declares(k2, n2) => k = k2 /\ n = n2
           /\ Generating!Mounts(k, n) = Generating!Mounts(k2, n2) => k = k2 /\ n = n2
           /\ Generating!Declares(k, n) # Generating!Exports(n2)
           /\ Generating!Mounts(k, n) # Generating!Documents(k2, n2)
    /\ \A k \in Kinds, n \in Entities, f \in Generating!Folders :
           Generating!Mounts(k, n) # Generating!DeclaresFolder(f)
    /\ \A n, n2 \in Entities : Generating!Exports(n) = Generating!Exports(n2) => n = n2
BY DEF Generating!Declares, Generating!Mounts, Generating!Exports, Generating!Documents,
       Generating!DeclaresFolder

(* What is not a file of its own is one more line of a file. *)
LEMMA OneLine ==
    ASSUME NEW w \in Writes, w.do # "file"
    PROVE  \E line \in AnyLine : w.lines = <<line>>
<1>1. \/ \E k \in Kinds, n \in Entities : w = Registers(k, n)
      \/ \E f \in Generating!Folders : w = Opens(f)
      \/ \E k \in Routed, n \in Entities : w = Routes(k, n)
      \/ \E k \in Routed, n \in Entities : w = Explains(k, n)
      \/ \E n \in Entities : w = Exports(n)
    <2>1. Founds.do = "file"
        BY WritesDiffer
    <2> QED  BY <2>1, WritesAreKnown
<1>2. Routed \subseteq Kinds
    BY DEF Routed, Kinds
<1>3. CASE \E k \in Kinds, n \in Entities : w = Registers(k, n)
    <2>1. PICK k \in Kinds, n \in Entities : w = Registers(k, n)
        BY <1>3
    <2>2. w.lines = <<Generating!Declares(k, n)>>
        BY <2>1, WritesDiffer
    <2> QED  BY <2>2, LinesAreWhole
<1>4. CASE \E f \in Generating!Folders : w = Opens(f)
    BY <1>4, WritesDiffer, LinesAreWhole
<1>5. CASE \E k \in Routed, n \in Entities : w = Routes(k, n) \/ w = Explains(k, n)
    <2>1. PICK k \in Kinds, n \in Entities : w = Routes(k, n) \/ w = Explains(k, n)
        BY <1>2, <1>5
    <2>2. w.lines = <<Generating!Mounts(k, n)>> \/ w.lines = <<Generating!Documents(k, n)>>
        BY <2>1, WritesDiffer
    <2> QED  BY <2>2, LinesAreWhole
<1>6. CASE \E n \in Entities : w = Exports(n)
    <2>1. PICK n \in Entities : w = Exports(n)
        BY <1>6
    <2>2. w.lines = <<Generating!Exports(n)>> /\ "entity" \in Kinds
        BY <2>1, WritesDiffer DEF Kinds
    <2> QED  BY <2>2, LinesAreWhole
<1> QED  BY <1>1, <1>3, <1>4, <1>5, <1>6

(* A write begins: its file is empty for now, and will have the lines it is to have.   *)
NewLines(w) == IF w.do = "file" THEN w.lines ELSE Generating!Lines(w.path) \o w.lines

(* The write at hand begins: what changes, and what does not.                        *)
LEMMA WriteBegins ==
    ASSUME Shaped, Planned, Generating!Write, NEW w, w = Generating!Doing
    PROVE  /\ w \in Writes /\ w = Rest[1] /\ Rest # <<>> /\ Rest' = Tail(Rest)
           /\ u3 \in Commands /\ u3' \in Commands
           /\ u3.at = "looks" /\ u3'.at = "writes" /\ ~u3.dry
           /\ u3'.kind = u3.kind /\ u3'.name = u3.name /\ u3'.dry = u3.dry /\ u3'.force = u3.force
           /\ IF w.do = "file" THEN ~Generating!Exists(w.path) \/ u3.force
              ELSE /\ w.do \in {"main", "marker"} => Generating!Exists(Generating!Main)
                   /\ w.lines[1] \notin Generating!ToSet(Generating!Lines(w.path))
           /\ u1' = [p \in DOMAIN u1 \union {w.path} |-> IF p = w.path THEN <<>> ELSE u1[p]]
           /\ UNCHANGED <<u2, u4>>
           /\ u3'.todo # <<>>
           /\ \A path : Generating!Writing(path)' <=> path = w.path
           /\ NewLines(w) \in Wholes
           /\ \A path : Held(path)' = IF path = w.path THEN NewLines(w) ELSE Generating!Lines(path)
<1> DEFINE lines == NewLines(w)
<1>1. u3 \in Commands /\ u3.at = "looks" /\ u3.todo # <<>>
    BY AtWork DEF Generating!Write, Generating!Looks
<1>2. Generating!Needed /\ Generating!Begins(w.path, lines)
    BY DEF Generating!Write, NewLines
<1>3. Rest = u3.todo /\ w = u3.todo[1]
    <2> HIDE DEF Named
    <2>1. u3.todo \in Seq(Named)
        BY <1>1 DEF Commands
    <2>2. Generating!Doing = u3.todo[1]
        BY <1>1, <2>1 DEF Generating!Doing
    <2> QED  BY <1>1, <2>2 DEF Rest
<1>4. w \in Writes /\ w = Rest[1]
    <2>1. Rest \in Seq(Writes) /\ Rest # <<>>
        BY <1>1, <1>3, RestIsPlanned
    <2>2. Rest[1] \in Writes
        BY <2>1
    <2> QED  BY <1>3, <2>2
<1>5. w.path \in Paths /\ w.lines \in Wholes
    BY <1>4, WritesAreNamed DEF Named
<1>6. /\ u1' = [p \in DOMAIN u1 \union {w.path} |-> IF p = w.path THEN <<>> ELSE u1[p]]
      /\ u3' = [u3 EXCEPT !.at = "writes", !.todo[1].lines = lines]
      /\ UNCHANGED <<u2, u4>>
    BY <1>2 DEF Generating!Begins
<1> HIDE DEF lines
<1>7. /\ u3'.at = "writes" /\ u3'.todo = [u3.todo EXCEPT ![1].lines = lines]
      /\ u3'.kind = u3.kind /\ u3'.name = u3.name /\ u3'.dry = u3.dry /\ u3'.force = u3.force
    BY <1>1, <1>6 DEF Commands
<1>8. ~u3.dry /\ IF w.do = "file" THEN ~Generating!Exists(w.path) \/ u3.force
                 ELSE /\ w.do \in {"main", "marker"} => Generating!Exists(Generating!Main)
                      /\ w.lines[1] \notin Generating!ToSet(Generating!Lines(w.path))
    BY <1>2 DEF Generating!Needed, Generating!Possible, Generating!Present
<1>9. lines \in Wholes
    <2>1. CASE w.do = "file"
        BY <1>5, <2>1 DEF lines, NewLines
    <2>2. CASE w.do # "file"
        <3>2. PICK line \in AnyLine : w.lines = <<line>>
            BY <1>4, <2>2, OneLine
        <3>3. Generating!Lines(w.path) \in Wholes
            BY LinesAreWhole DEF Generating!Lines, Generating!Exists, Shaped
        <3>4. line \notin Generating!ToSet(Generating!Lines(w.path))
            BY <1>8, <2>2, <3>2
        <3> QED  BY <2>2, <3>2, <3>3, <3>4, LineIsAdded DEF lines, NewLines
    <2> QED  BY <2>1, <2>2
<1>10. /\ u3'.todo \in Seq(Named) /\ u3'.todo # <<>> /\ Tail(u3'.todo) = Tail(u3.todo)
       /\ Head(u3'.todo).path = w.path /\ Head(u3'.todo).lines = lines /\ Head(u3'.todo).do = w.do
    <2>1. u3.todo \in Seq(Named) /\ u3.todo # <<>>
        BY <1>1 DEF Commands
    <2> QED  BY <1>3, <1>7, <1>9, <2>1, FirstIsReplaced
<1>11. u3' \in Commands
    <2>1. u3' \in [at : {"looks", "writes"}, todo : {u3'.todo},
                   kind : {"entity", "controller", "crud", "admin"}, name : Entities,
                   dry : BOOLEAN, force : BOOLEAN]
        BY <1>1, <1>6, <1>7 DEF Commands
    <2> QED  BY <1>10, <2>1 DEF Commands
<1>12. Rest # <<>> /\ Rest' = Tail(Rest)
    BY <1>1, <1>3, <1>7, <1>10 DEF Rest
<1>13. \A path : Generating!Writing(path)' <=> path = w.path
    BY <1>7, <1>10 DEF Generating!Writing, Generating!Doing
<1>14. \A path : Held(path)' = IF path = w.path THEN lines ELSE Generating!Lines(path)
    <2>1. \A path : path # w.path => Generating!Lines(path)' = Generating!Lines(path)
        BY <1>6 DEF Generating!Lines, Generating!Exists
    <2>2. Generating!Doing' = Head(u3'.todo)
        BY DEF Generating!Doing
    <2> QED  BY <1>10, <1>13, <2>1, <2>2 DEF Held
<1> QED  BY <1>1, <1>4, <1>6, <1>7, <1>8, <1>10, <1>11, <1>12, <1>13, <1>14, <1>9 DEF lines

(* A write that begins stays the one at hand. *)
LEMMA WriteGoesOn ==
    ASSUME Shaped, Planned, Generating!Write
    PROVE  Generating!Doing'.do = Generating!Doing.do
<1>1. PICK w, lines : w = Generating!Doing /\ lines = NewLines(w)
    OBVIOUS
<1>2. lines \in Wholes /\ u3 \in Commands
    BY <1>1, WriteBegins
<1>3. u3' = [u3 EXCEPT !.at = "writes", !.todo[1].lines = lines] /\ u3.todo # <<>>
    BY <1>1 DEF Generating!Write, Generating!Begins, Generating!Looks, NewLines
<1>4. u3.todo \in Seq(Named) /\ u3'.todo = [u3.todo EXCEPT ![1].lines = lines]
    BY <1>2, <1>3 DEF Commands
<1>5. Head(u3'.todo).do = u3.todo[1].do
    BY <1>2, <1>3, <1>4, FirstIsReplaced
<1>6. Head(u3.todo) = u3.todo[1]
    <2> HIDE DEF Named
    <2> QED  BY <1>3, <1>4, TailIsAll
<1> QED  BY <1>5, <1>6 DEF Generating!Doing

(* Where a write goes, and what it is, is told by what it adds. *)
LEMMA WhatIsAdded ==
    ASSUME NEW w \in Writes
    PROVE  /\ w.do = "file" => w.path \in Generating!Sources \/ w = Founds
           /\ w.do # "file" => w.path \notin Generating!Sources
           /\ w.do \in {"main", "marker"} <=> w.path = Generating!Main
           /\ \A k \in Kinds, n \in Entities :
                  /\ /\ w.do # "file" /\ w.path # Generating!Main
                     /\ w.lines[1] = Generating!Declares(k, n)
                     => w = Registers(k, n)
                  /\ w.do # "file" /\ w.lines[1] = Generating!Mounts(k, n) =>
                         k \in Routed /\ w = Routes(k, n)
           /\ \A n \in Entities :
                  w.do # "file" /\ w.lines[1] = Generating!Exports(n) /\ w.path # Generating!Main =>
                      w = Exports(n)
<1>1. /\ Routed \subseteq Kinds /\ "entity" \in Kinds /\ "entity" \in Generating!Folders
      /\ "repository" \in Generating!Folders
    BY DEF Routed, Kinds, Generating!Folders
<1>2. CASE \E k \in Kinds, n \in Entities : w.do = "file" /\ w.path = Generating!Source(k, n)
    <2>1. w.path \in Generating!Sources
        BY <1>2, PathsDiffer
    <2> QED  BY <1>2, <2>1, PathsDiffer
<1>3. CASE w = Founds
    <2>1. w.do = "file" /\ w.path = Generating!Mod("repository")
        BY <1>3, WritesDiffer
    <2> QED  BY <1>1, <1>3, <2>1, PathsDiffer
<1>4. CASE \E k \in Kinds, n \in Entities : w = Registers(k, n)
    <2>1. PICK k \in Kinds, n \in Entities : w = Registers(k, n)
        BY <1>4
    <2>2. /\ w.do = "append_mod" /\ w.path = Generating!Mod(Generating!FolderOf(k))
          /\ w.lines[1] = Generating!Declares(k, n) /\ Generating!FolderOf(k) \in Generating!Folders
        BY <2>1, WritesDiffer, PathsDiffer
    <2>3. w.path \notin Generating!Sources /\ w.path # Generating!Main
        BY <2>2, PathsDiffer
    <2>4. \A k2 \in Kinds, n2 \in Entities :
              /\ w.lines[1] = Generating!Declares(k2, n2) => w = Registers(k2, n2)
              /\ w.lines[1] # Generating!Mounts(k2, n2) /\ w.lines[1] # Generating!Exports(n2)
        BY <2>1, <2>2, LinesDiffer DEF Generating!Declares, Generating!Mounts
    <2> QED  BY <2>2, <2>3, <2>4, <1>1
<1>5. CASE \E f \in Generating!Folders : w = Opens(f)
    <2>1. PICK f \in Generating!Folders : w = Opens(f)
        BY <1>5
    <2>2. w.do = "main" /\ w.path = Generating!Main /\ w.lines[1] = Generating!DeclaresFolder(f)
        BY <2>1, WritesDiffer
    <2>3. \A k2 \in Kinds, n2 \in Entities : w.lines[1] # Generating!Mounts(k2, n2)
        BY <2>2, LinesDiffer
    <2> QED  BY <2>2, <2>3, PathsDiffer
<1>6. CASE \E k \in Routed, n \in Entities : w = Routes(k, n) \/ w = Explains(k, n)
    <2>1. PICK k \in Routed, n \in Entities : w = Routes(k, n) \/ w = Explains(k, n)
        BY <1>6
    <2>2. w.do = "marker" /\ w.path = Generating!Main
        BY <1>1, <2>1, WritesDiffer
    <2>3. \A k2 \in Kinds, n2 \in Entities :
              w.lines[1] = Generating!Mounts(k2, n2) => k2 \in Routed /\ w = Routes(k2, n2)
        <3>1. CASE w = Routes(k, n)
            <4>1. w.lines[1] = Generating!Mounts(k, n)
                BY <1>1, <3>1, WritesDiffer
            <4>2. k \in Kinds
                BY <1>1
            <4>3. \A k2 \in Kinds, n2 \in Entities :
                      Generating!Mounts(k, n) = Generating!Mounts(k2, n2) => k = k2 /\ n = n2
                BY <4>2, LinesDiffer
            <4> QED  BY <3>1, <4>1, <4>3
        <3>2. CASE w = Explains(k, n)
            <4>1. w.lines[1] = Generating!Documents(k, n)
                BY <1>1, <3>2, WritesDiffer
            <4> QED  BY <1>1, <4>1, LinesDiffer
        <3> QED  BY <2>1, <3>1, <3>2
    <2> QED  BY <2>2, <2>3, PathsDiffer
<1>7. CASE \E n \in Entities : w = Exports(n)
    <2>1. PICK n \in Entities : w = Exports(n)
        BY <1>7
    <2>2. w.do = "use" /\ w.path = Generating!Mod("entity") /\ w.lines[1] = Generating!Exports(n)
        BY <2>1, WritesDiffer
    <2>3. w.path \notin Generating!Sources /\ w.path # Generating!Main
        BY <1>1, <2>2, PathsDiffer
    <2>4. \A k2 \in Kinds, n2 \in Entities :
              /\ w.lines[1] # Generating!Declares(k2, n2) /\ w.lines[1] # Generating!Mounts(k2, n2)
              /\ w.lines[1] = Generating!Exports(n2) => w = Exports(n2)
        BY <2>1, <2>2, LinesDiffer DEF Generating!Exports, Generating!Mounts
    <2> QED  BY <2>2, <2>3, <2>4, <1>1
<1> QED  BY <1>2, <1>3, <1>4, <1>5, <1>6, <1>7, WritesAreKnown

(* What a mod.rs and main.rs will have more, once a write is through. *)
LEMMA WriteAdds ==
    ASSUME Shaped, Planned, Ordered, Generating!Write, NEW w, w = Generating!Doing
    PROVE  /\ \A path : Generating!Exists(path)' <=> Generating!Exists(path) \/ path = w.path
           /\ \A path, line : path \notin Generating!Sources =>
                  (Has(path, line)' <=>
                       Has(path, line) \/ (path = w.path /\ w.do # "file" /\ line = w.lines[1]))
           /\ \A path : path \notin Generating!Sources /\ Generating!Exists(path) =>
                  \A s : Extends(s, Held(path)) /\ Len(s) \in Nat => Extends(s, Held(path)')
           /\ Grows
<1>1. /\ w \in Writes /\ w = Rest[1] /\ Rest # <<>> /\ u3.at = "looks" /\ ~u3.dry
      /\ IF w.do = "file" THEN ~Generating!Exists(w.path) \/ u3.force
         ELSE /\ w.do \in {"main", "marker"} => Generating!Exists(Generating!Main)
              /\ w.lines[1] \notin Generating!ToSet(Generating!Lines(w.path))
      /\ u1' = [p \in DOMAIN u1 \union {w.path} |-> IF p = w.path THEN <<>> ELSE u1[p]]
      /\ UNCHANGED <<u2, u4>>
      /\ \A path : Held(path)' = IF path = w.path THEN NewLines(w) ELSE Generating!Lines(path)
    BY WriteBegins
<1>2. \A path : Held(path) = Generating!Lines(path)
    BY <1>1 DEF Held, Generating!Writing
<1>3. \A path : Generating!Exists(path)' <=> Generating!Exists(path) \/ path = w.path
    BY <1>1 DEF Generating!Exists
<1>4. w = Founds => /\ Generating!Lines(w.path) = <<>> /\ NewLines(w) = <<>>
                    /\ ~Generating!Exists(w.path)
    <2> SUFFICES ASSUME w = Founds
                 PROVE  /\ Generating!Lines(w.path) = <<>> /\ NewLines(w) = <<>>
                        /\ ~Generating!Exists(w.path)
        OBVIOUS
    <2>1. Rest \in Seq(Writes) /\ Len(Rest) >= 1
        <3>1. Rest \in Seq(Writes)
            BY <1>1, RestIsPlanned
        <3> QED  BY <1>1, <3>1
    <2>2. 1 \in 1 .. Len(Rest)
        BY <2>1
    <2>3. ~Generating!Exists(Generating!Mod("repository"))
        BY <1>1, <2>2 DEF Ordered, Wet
    <2>4. w.do = "file" /\ w.path = Generating!Mod("repository") /\ w.lines = <<>>
        BY WritesDiffer
    <2> QED  BY <2>3, <2>4 DEF Generating!Lines, NewLines
<1>5. ASSUME w.do # "file"
      PROVE  /\ Extends(Generating!Lines(w.path), NewLines(w))
             /\ Generating!Lines(w.path) \in Wholes
             /\ \A line : line \in Generating!ToSet(NewLines(w)) <=>
                              line \in Generating!ToSet(Generating!Lines(w.path)) \/ line = w.lines[1]
    <2>1. PICK line \in AnyLine : w.lines = <<line>>
        BY <1>1, <1>5, OneLine
    <2>2. Generating!Lines(w.path) \in Wholes
        BY LinesAreWhole DEF Generating!Lines, Generating!Exists, Shaped
    <2>3. line = w.lines[1] /\ line \notin Generating!ToSet(Generating!Lines(w.path))
        BY <1>1, <1>5, <2>1
    <2>4. NewLines(w) = Generating!Lines(w.path) \o <<line>>
        BY <1>5, <2>1 DEF NewLines
    <2> QED  BY <2>2, <2>3, <2>4, LineIsAdded
<1>6. w.do = "file" /\ w.path \notin Generating!Sources => w = Founds
    BY <1>1, WhatIsAdded
<1>7. ASSUME NEW path, path \notin Generating!Sources, NEW line
      PROVE  Has(path, line)' <=>
                 Has(path, line) \/ (path = w.path /\ w.do # "file" /\ line = w.lines[1])
    <2>1. Has(path, line) <=> line \in Generating!ToSet(Generating!Lines(path))
        BY <1>2 DEF Has
    <2>2. CASE path # w.path
        BY <1>1, <2>1, <2>2 DEF Has
    <2>3. CASE path = w.path /\ w.do = "file"
        BY <1>1, <1>4, <1>6, <1>7, <2>1, <2>3 DEF Has
    <2>4. CASE path = w.path /\ w.do # "file"
        BY <1>1, <1>5, <2>1, <2>4 DEF Has
    <2> QED  BY <2>2, <2>3, <2>4
<1>8. ASSUME NEW path, path \notin Generating!Sources, Generating!Exists(path),
             NEW s, Extends(s, Held(path)), Len(s) \in Nat
      PROVE  Extends(s, Held(path)')
    <2>1. CASE path # w.path
        BY <1>1, <1>2, <1>8, <2>1
    <2>2. CASE path = w.path
        <3>1. w.do # "file"
            BY <1>4, <1>6, <1>8, <2>2
        <3>2. Len(Generating!Lines(path)) \in Nat
            BY <1>5, <2>2, <3>1 DEF Wholes
        <3>3. Held(path)' = NewLines(w) /\ Held(path) = Generating!Lines(path)
            BY <1>1, <1>2, <2>2
        <3>4. Extends(Held(path), NewLines(w))
            BY <1>5, <2>2, <3>1, <3>3
        <3> HIDE DEF Held
        <3>5. Extends(s, NewLines(w))
            BY <1>8, <3>2, <3>3, <3>4 DEF Extends
        <3> QED  BY <3>3, <3>5
    <2> QED  BY <2>1, <2>2
<1>9. Grows
    <2>1. w.path = Generating!Main => Generating!Exists(Generating!Main)
        BY <1>1, WhatIsAdded, PathsDiffer DEF Founds
    <2>2. \A f \in Generating!Folders : Generating!Mod(f) \notin Generating!Sources
        BY PathsDiffer
    <2>3. Generating!Main \notin Generating!Sources
        BY PathsDiffer
    <2> QED  BY <1>1, <1>3, <1>7, <2>1, <2>2, <2>3 DEF Grows
<1> QED  BY <1>3, <1>7, <1>8, <1>9

(* A write begins: what it builds on is there, and no one else's file is touched.    *)
LEMMA BeginsKeeps ==
    ASSUME GenerateInv, Generating!Write
    PROVE  GenerateInv'
<1> USE DEF GenerateInv
<1>0. PICK w : w = Generating!Doing
    OBVIOUS
<1>1. /\ w \in Writes /\ w = Rest[1] /\ Rest # <<>> /\ Rest' = Tail(Rest)
      /\ u3 \in Commands /\ u3' \in Commands
      /\ u3.at = "looks" /\ u3'.at = "writes" /\ ~u3.dry
      /\ u3'.kind = u3.kind /\ u3'.name = u3.name /\ u3'.dry = u3.dry /\ u3'.force = u3.force
      /\ IF w.do = "file" THEN ~Generating!Exists(w.path) \/ u3.force
         ELSE /\ w.do \in {"main", "marker"} => Generating!Exists(Generating!Main)
              /\ w.lines[1] \notin Generating!ToSet(Generating!Lines(w.path))
      /\ u1' = [p \in DOMAIN u1 \union {w.path} |-> IF p = w.path THEN <<>> ELSE u1[p]]
      /\ UNCHANGED <<u2, u4>>
      /\ u3'.todo # <<>>
      /\ \A path : Generating!Writing(path)' <=> path = w.path
      /\ NewLines(w) \in Wholes
      /\ \A path : Held(path)' = IF path = w.path THEN NewLines(w) ELSE Generating!Lines(path)
    BY <1>0, WriteBegins
<1>15. Generating!Doing'.do = w.do
    BY <1>0, WriteGoesOn
<1>2. /\ \A path : Generating!Exists(path)' <=> Generating!Exists(path) \/ path = w.path
      /\ \A path, line : path \notin Generating!Sources =>
             (Has(path, line)' <=>
                  Has(path, line) \/ (path = w.path /\ w.do # "file" /\ line = w.lines[1]))
      /\ \A path : path \notin Generating!Sources /\ Generating!Exists(path) =>
             \A s : Extends(s, Held(path)) /\ Len(s) \in Nat => Extends(s, Held(path)')
      /\ Grows
    BY <1>0, WriteAdds
<1>3. w.path \in Paths /\ <<>> \in Wholes
    BY <1>1, WritesAreNamed, LinesAreWhole DEF Named
<1>4. Shaped'
    <2>1. DOMAIN u1' \subseteq Paths /\ u1' \in [DOMAIN u1' -> Wholes]
        BY <1>1, <1>3 DEF Shaped
    <2>2. Generating!Exists(Generating!Doing.path)'
        BY <1>1, <1>2 DEF Generating!Writing
    <2>3. u3' \in [at : {"looks", "writes"},
                  todo : Seq([do : {"file", "append_mod", "main", "marker", "use"},
                              path : Paths, lines : Wholes]),
                  kind : {"entity", "controller", "crud", "admin"}, name : Entities,
                  dry : BOOLEAN, force : BOOLEAN]
        BY <1>1 DEF Commands, Named
    <2>4. Generating!Doing'.do = "use" => Generating!Doing'.path = Generating!Mod("entity")
        <3>1. w.do = "use" => w.path = Generating!Mod("entity")
            <4> SUFFICES ASSUME w.do = "use" PROVE w.path = Generating!Mod("entity")
                OBVIOUS
            <4>1. Routed \subseteq Kinds
                BY DEF Routed, Kinds
            <4>2. \E n \in Entities : w = Exports(n)
                BY <1>1, <4>1, WritesAreKnown, WritesDiffer
            <4> QED  BY <4>2, WritesDiffer
        <3>2. Generating!Doing'.path = w.path
            BY <1>1 DEF Generating!Writing
        <3> QED  BY <1>15, <3>1, <3>2
    <2> QED  BY <1>1, <2>1, <2>2, <2>3, <2>4 DEF Shaped
<1>5. Planned' /\ Ordered' /\ Founded' /\ Aimed'
    <2>1. Settled(w)'
        <3>1. CASE w.do = "file"
            BY <1>2, <3>1 DEF Settled
        <3>2. CASE w.do # "file"
            <4>1. w.path \notin Generating!Sources
                BY <1>1, <3>2, WhatIsAdded
            <4>2. Has(w.path, w.lines[1])'
                BY <1>2, <3>2, <4>1
            <4> QED  BY <3>2, <4>2 DEF Settled
        <3> QED  BY <3>1, <3>2
    <2>2. Proceeds
        BY <1>1, <2>1 DEF Proceeds
    <2> QED  BY <1>1, <1>2, <2>2, PlanProceeds DEF Wet
<1>6. 1 \in 1 .. Len(Rest) /\ Wet
    <2>1. Rest \in Seq(Writes)
        BY <1>1, RestIsPlanned
    <2> QED  BY <1>1, <2>1 DEF Wet
<1>7. \A v : Before(v, 1) => Settled(v)
    BY DEF Before
<1>8. Sound'
    <2> SUFFICES ASSUME ~u4.cut
                 PROVE  /\ \A k \in Kinds, n \in Entities :
                               /\ \A f \in Generating!Folders :
                                      Has(Generating!Mod(f), Generating!Declares(k, n))' =>
                                          Generating!Exists(<<k, n>>)'
                               /\ Has(Generating!Main, Generating!Mounts(k, n))' =>
                                      /\ Has(Generating!Mod("controller"), Generating!Declares(k, n))'
                                      /\ Has(Generating!Main, Generating!DeclaresFolder("controller"))'
                        /\ \A n \in Entities :
                               Has(Generating!Mod("entity"), Generating!Exports(n))' =>
                                   Generating!Exists(<<"entity", n>>)'
        BY <1>1 DEF Sound
    <2>0. /\ "entity" \in Kinds /\ "entity" \in Generating!Folders /\ "controller" \in Generating!Folders
          /\ \A k \in Routed : Generating!FolderOf(k) = "controller"
        BY DEF Kinds, Generating!Folders, Routed, Generating!FolderOf
    <2>1. ASSUME NEW k \in Kinds, NEW n \in Entities, NEW f \in Generating!Folders,
                 Has(Generating!Mod(f), Generating!Declares(k, n))'
          PROVE  Generating!Exists(<<k, n>>)'
        <3>1. CASE Has(Generating!Mod(f), Generating!Declares(k, n))
            BY <1>2, <3>1 DEF Sound
        <3>2. CASE ~Has(Generating!Mod(f), Generating!Declares(k, n))
            <4>1. Generating!Mod(f) \notin Generating!Sources /\ Generating!Mod(f) # Generating!Main
                BY PathsDiffer
            <4>2. w.path # Generating!Main /\ w.do # "file" /\ w.lines[1] = Generating!Declares(k, n)
                BY <1>2, <2>1, <3>2, <4>1
            <4>3. w = Registers(k, n)
                BY <1>1, <4>2, WhatIsAdded
            <4>4. Settled(Authors(k, n))
                BY <1>1, <1>6, <1>7, <4>3 DEF Ordered
            <4>5. Generating!Exists(<<k, n>>)
                BY <4>4, WritesDiffer, PathsDiffer DEF Settled, Authors
            <4> QED  BY <1>2, <4>5
        <3> QED  BY <3>1, <3>2
    <2>2. ASSUME NEW k \in Kinds, NEW n \in Entities, Has(Generating!Main, Generating!Mounts(k, n))'
          PROVE  /\ Has(Generating!Mod("controller"), Generating!Declares(k, n))
                 /\ Has(Generating!Main, Generating!DeclaresFolder("controller"))
        <3>1. CASE Has(Generating!Main, Generating!Mounts(k, n))
            BY <3>1 DEF Sound
        <3>2. CASE ~Has(Generating!Main, Generating!Mounts(k, n))
            <4>1. Generating!Main \notin Generating!Sources
                BY PathsDiffer
            <4>2. w.path = Generating!Main /\ w.do # "file" /\ w.lines[1] = Generating!Mounts(k, n)
                BY <1>2, <2>2, <3>2, <4>1
            <4>3. w = Routes(k, n) /\ k \in Routed
                BY <1>1, <4>2, WhatIsAdded
            <4>4. Settled(Registers(k, n)) /\ Settled(Opens("controller"))
                BY <1>1, <1>6, <1>7, <4>3 DEF Ordered
            <4>5. Has(Generating!Mod("controller"), Generating!Declares(k, n))
                <5>1. /\ Registers(k, n).do = "append_mod"
                      /\ Registers(k, n).path = Generating!Mod("controller")
                      /\ Registers(k, n).lines[1] = Generating!Declares(k, n)
                    BY <2>0, <4>3, WritesDiffer
                <5> QED  BY <4>4, <5>1 DEF Settled
            <4>6. Has(Generating!Main, Generating!DeclaresFolder("controller"))
                <5>1. /\ Opens("controller").do = "main" /\ Opens("controller").path = Generating!Main
                      /\ Opens("controller").lines[1] = Generating!DeclaresFolder("controller")
                    BY <2>0, WritesDiffer
                <5>2. Generating!Exists(Generating!Main)
                    BY <1>1, <4>2, WhatIsAdded
                <5> QED  BY <4>4, <5>1, <5>2 DEF Settled
            <4> QED  BY <4>5, <4>6
        <3> QED  BY <3>1, <3>2
    <2>3. ASSUME NEW n \in Entities, Has(Generating!Mod("entity"), Generating!Exports(n))'
          PROVE  Generating!Exists(<<"entity", n>>)'
        <3>1. CASE Has(Generating!Mod("entity"), Generating!Exports(n))
            BY <1>2, <3>1 DEF Sound
        <3>2. CASE ~Has(Generating!Mod("entity"), Generating!Exports(n))
            <4>1. /\ Generating!Mod("entity") \notin Generating!Sources
                  /\ Generating!Mod("entity") # Generating!Main
                BY <2>0, PathsDiffer
            <4>2. w.path # Generating!Main /\ w.do # "file" /\ w.lines[1] = Generating!Exports(n)
                BY <1>2, <2>3, <3>2, <4>1
            <4>3. w = Exports(n)
                BY <1>1, <4>2, WhatIsAdded
            <4>4. Settled(Authors("entity", n))
                BY <1>1, <1>6, <1>7, <4>3 DEF Ordered
            <4>5. Generating!Exists(<<"entity", n>>)
                BY <2>0, <4>4, WritesDiffer, PathsDiffer DEF Settled, Authors
            <4> QED  BY <1>2, <4>5
        <3> QED  BY <3>1, <3>2
    <2>4. \A k \in Kinds, n \in Entities : Has(Generating!Main, Generating!Mounts(k, n))' =>
              /\ Has(Generating!Mod("controller"), Generating!Declares(k, n))'
              /\ Has(Generating!Main, Generating!DeclaresFolder("controller"))'
        BY <1>2, <2>0, <2>2 DEF Grows
    <2> QED  BY <2>1, <2>3, <2>4
<1>11. Backed'
    <2> SUFFICES ASSUME ~u4.cut, NEW n \in Entities
                 PROVE  /\ Has(Generating!Mod("repository"), Generating!Declares("repository", n))' =>
                               Compiled("entity", n)'
                        /\ Has(Generating!Mod("controller"), Generating!Declares("admin", n))' =>
                               n \in u4.early \/ Compiled("repository", n)'
        BY <1>1 DEF Backed
    <2>0. /\ "entity" \in Kinds /\ "repository" \in Kinds /\ "admin" \in Kinds
          /\ Generating!FolderOf("entity") = "entity" /\ Generating!FolderOf("repository") = "repository"
          /\ "entity" \in Generating!Folders /\ "repository" \in Generating!Folders
          /\ "controller" \in Generating!Folders
        BY DEF Kinds, Generating!Folders, Generating!FolderOf
    <2>1. ASSUME NEW k \in Kinds, Compiled(k, n) PROVE Compiled(k, n)'
        <3>1. /\ BuiltUpon(Registers(k, n)) /\ BuiltUpon(Opens(Generating!FolderOf(k)))
            BY PathsDiffer DEF BuiltUpon
        <3> QED  BY <1>2, <2>1, <3>1, SettledStays DEF Compiled
    <2>2. ASSUME NEW k \in Kinds, NEW f \in Generating!Folders,
                 Has(Generating!Mod(f), Generating!Declares(k, n))',
                 ~Has(Generating!Mod(f), Generating!Declares(k, n))
          PROVE  w = Registers(k, n)
        <3>1. Generating!Mod(f) \notin Generating!Sources /\ Generating!Mod(f) # Generating!Main
            BY PathsDiffer
        <3>2. w.path # Generating!Main /\ w.do # "file" /\ w.lines[1] = Generating!Declares(k, n)
            BY <1>2, <2>2, <3>1
        <3> QED  BY <1>1, <3>2, WhatIsAdded
    <2>3. ASSUME Has(Generating!Mod("repository"), Generating!Declares("repository", n))'
          PROVE  Compiled("entity", n)
        <3>1. CASE Has(Generating!Mod("repository"), Generating!Declares("repository", n))
            BY <3>1 DEF Backed
        <3>2. CASE ~Has(Generating!Mod("repository"), Generating!Declares("repository", n))
            <4>1. w = Registers("repository", n)
                BY <2>0, <2>2, <2>3, <3>2
            <4>2. Before(Registers("entity", n), 1) /\ Before(Opens("entity"), 1)
                BY <1>1, <1>6, <4>1 DEF Founded
            <4> QED  BY <1>7, <2>0, <4>2 DEF Compiled
        <3> QED  BY <3>1, <3>2
    <2>4. ASSUME Has(Generating!Mod("controller"), Generating!Declares("admin", n))'
          PROVE  n \in u4.early \/ Compiled("repository", n)
        <3>1. CASE Has(Generating!Mod("controller"), Generating!Declares("admin", n))
            BY <3>1 DEF Backed
        <3>2. CASE ~Has(Generating!Mod("controller"), Generating!Declares("admin", n))
            <4>1. w = Registers("admin", n)
                BY <2>0, <2>2, <2>4, <3>2
            <4> QED  BY <1>1, <1>6, <4>1 DEF Founded
        <3> QED  BY <3>1, <3>2
    <2> QED  BY <2>0, <2>1, <2>3, <2>4
<1>9. Kept'
    <2>1. \A path \in DOMAIN u4.before : Generating!Exists(path) /\ Len(u4.before[path]) \in Nat
        BY <1>1 DEF Kept, Shaped, Wholes
    <2>2. ASSUME NEW path \in DOMAIN u4.before, path \in Generating!Sources, ~u3.force
          PROVE  path # w.path /\ u1'[path] = u4.before[path]
        <3>1. path # w.path
            BY <1>1, <2>1, <2>2, WhatIsAdded
        <3>2. u1[path] = u4.before[path]
            BY <1>1, <2>2 DEF Kept
        <3> QED  BY <1>1, <2>1, <3>1, <3>2 DEF Generating!Exists
    <2>3. ASSUME NEW path \in DOMAIN u4.before, path \notin Generating!Sources,
                 path # Generating!Mod("entity") \/ u4.unseen # "file"
          PROVE  Extends(u4.before[path], Held(path)')
        BY <1>1, <1>2, <2>1, <2>3 DEF Kept
    <2> QED  BY <1>1, <1>2, <2>1, <2>2, <2>3 DEF Kept
<1>10. Generating!DoneIsWired'
    BY <1>1 DEF Kept, Generating!DoneIsWired
<1> QED  BY <1>4, <1>5, <1>8, <1>9, <1>10, <1>11

(* A file is filled: it holds what it was to hold. *)
LEMMA FillsKeeps ==
    ASSUME GenerateInv, Generating!Fills
    PROVE  GenerateInv'
<1> USE DEF GenerateInv
<1>1. /\ u3 \in Commands /\ u3.at = "writes" /\ u3.todo # <<>> /\ Generating!Doing.lines \in Wholes
      /\ ~u3.dry /\ Generating!Exists(Generating!Doing.path)
    BY AtWork DEF Generating!Fills, Shaped
<1>2. PICK path, lines : path = Generating!Doing.path /\ lines = Generating!Doing.lines
    OBVIOUS
<1>3. u1' = [u1 EXCEPT ![path] = lines] /\ UNCHANGED <<u2, u4>> /\ u3' = Generating!Next1
    BY <1>2 DEF Generating!Fills
<1>4. Tail(u3.todo) \in Seq(Named)
    <2> HIDE DEF Named
    <2>1. u3.todo \in Seq(Named)
        BY <1>1 DEF Commands
    <2> QED  BY <1>1, <2>1
<1>5. /\ u3' \in Commands /\ u3'.at = "looks" /\ u3'.kind = u3.kind /\ u3'.name = u3.name
      /\ u3'.dry = u3.dry /\ u3'.force = u3.force /\ u3'.todo = Tail(u3.todo)
    BY <1>1, <1>3, <1>4 DEF Commands, Generating!Next1
<1>6. Rest' = Rest
    BY <1>1, <1>5 DEF Rest
<1>7. path \in DOMAIN u1 /\ DOMAIN u1' = DOMAIN u1
    BY <1>1, <1>2, <1>3 DEF Generating!Exists
<1>8. \A p : /\ Generating!Writing(p) <=> p = path
             /\ ~Generating!Writing(p)'
    BY <1>1, <1>2, <1>5 DEF Generating!Writing
<1>9. \A p : Held(p)' = Held(p)
    <2> SUFFICES ASSUME NEW p PROVE Held(p)' = Held(p)
        OBVIOUS
    <2>1. CASE p = path
        <3>1. Held(p) = lines
            BY <1>2, <1>8, <2>1 DEF Held
        <3>2. Held(p)' = u1'[p]
            BY <1>7, <1>8, <2>1 DEF Held, Generating!Lines, Generating!Exists
        <3> QED  BY <1>3, <1>7, <2>1, <3>1, <3>2
    <2>2. CASE p # path
        <3>1. Generating!Lines(p)' = Generating!Lines(p)
            BY <1>3, <1>7, <2>2 DEF Generating!Lines, Generating!Exists
        <3> QED  BY <1>8, <2>2, <3>1 DEF Held
    <2> QED  BY <2>1, <2>2
<1>10. /\ \A p, line : Has(p, line)' <=> Has(p, line)
       /\ \A p : Generating!Exists(p)' <=> Generating!Exists(p)
    BY <1>7, <1>9 DEF Has, Generating!Exists
<1>11. \A w, i : Before(w, i)' <=> Before(w, i)
    BY <1>3, <1>6, <1>10 DEF Before, Settled
<1>12. Shaped'
    <2>1. u3' \in [at : {"looks", "writes"},
                  todo : Seq([do : {"file", "append_mod", "main", "marker", "use"},
                              path : Paths, lines : Wholes]),
                  kind : {"entity", "controller", "crud", "admin"}, name : Entities,
                  dry : BOOLEAN, force : BOOLEAN]
        BY <1>5 DEF Commands, Named
    <2>2. u1' \in [DOMAIN u1' -> Wholes] /\ DOMAIN u1' \subseteq Paths
        BY <1>1, <1>2, <1>3, <1>7 DEF Shaped
    <2> QED  BY <1>3, <1>5, <2>1, <2>2 DEF Shaped
<1>13. Planned'
    BY <1>1, <1>6 DEF Planned
<1>14. Ordered' /\ Founded'
    <2>1. Ordered'
        BY <1>1, <1>6, <1>10, <1>11 DEF Ordered, Wet
    <2>2. \A k, m : Compiled(k, m) => Compiled(k, m)'
        BY <1>3, <1>10 DEF Compiled, Settled
    <2>3. Founded'
        BY <1>1, <1>3, <1>6, <1>11, <2>2 DEF Founded, Wet
    <2> QED  BY <2>1, <2>3
<1>15. Aimed'
    <2>1. PICK name, n, kind : name = u3.name /\ n = Len(Rest) /\ kind = u3.kind
        OBVIOUS
    <2>2. /\ \A k \in Goals(kind) :
                 /\ Before(Authors(k, name), n + 1)
                 /\ (k = "entity" /\ u4.unseen = "file") \/ Before(Registers(k, name), n + 1)
                 /\ Before(Opens(Generating!FolderOf(k)), n + 1)
                 /\ k \in Routed => Before(Routes(k, name), n + 1)
          /\ kind = "crud" /\ u4.unseen = "none" => Before(Exports(name), n + 1)
        BY <1>1, <2>1 DEF Aimed, Wet
    <2>3. /\ \A k \in Goals(kind) :
                 /\ Before(Authors(k, name), n + 1)'
                 /\ (k = "entity" /\ u4'.unseen = "file") \/ Before(Registers(k, name), n + 1)'
                 /\ Before(Opens(Generating!FolderOf(k)), n + 1)'
                 /\ k \in Routed => Before(Routes(k, name), n + 1)'
          /\ kind = "crud" /\ u4'.unseen = "none" => Before(Exports(name), n + 1)'
        BY <1>3, <1>11, <2>2
    <2>4. name = u3'.name /\ n = Len(Rest') /\ kind = u3'.kind
        BY <1>5, <1>6, <2>1
    <2> QED  BY <2>3, <2>4 DEF Aimed
<1>16. Sound' /\ Backed'
    BY <1>3, <1>7, <1>9, SoundStays
<1>17. Kept'
    <2>1. \A p \in DOMAIN u4.before : p \in Generating!Sources /\ ~u3.force => u1'[p] = u4.before[p]
        <3> SUFFICES ASSUME NEW p \in DOMAIN u4.before, p \in Generating!Sources, ~u3.force
                     PROVE  u1'[p] = u4.before[p]
            OBVIOUS
        <3>1. p # path /\ u1[p] = u4.before[p] /\ p \in DOMAIN u1
            BY <1>1, <1>8 DEF Kept, Generating!Exists
        <3> QED  BY <1>3, <3>1
    <2>2. \A p \in DOMAIN u4.before : p \notin Generating!Sources =>
              \/ (p = Generating!Mod("entity") /\ u4.unseen = "file")
              \/ Extends(u4.before[p], Held(p)')
        BY <1>1, <1>9 DEF Kept
    <2> QED  BY <1>1, <1>3, <1>5, <1>8, <1>10, <2>1, <2>2 DEF Kept
<1>18. Generating!DoneIsWired'
    BY <1>1, <1>3 DEF Kept, Generating!DoneIsWired
<1> QED  BY <1>12, <1>13, <1>14, <1>15, <1>16, <1>17, <1>18

(* A command ends, well or not: there is nothing left to do. *)
LEMMA EndsKeeps ==
    ASSUME GenerateInv, u3.at # "idle", u3' = Generating!Idle, u1' = u1, u2' \in BOOLEAN,
           u3.at # "writes" => u2' = u2,
           NEW wired \in SUBSET Generating!Sources, Generating!Ends(wired),
           Generating!DoneIsWired'
    PROVE  GenerateInv'
<1> USE DEF GenerateInv
<1>1. u4' = [commands |-> u4.commands, before |-> u1, ended |-> wired,
             cut |-> u4.cut \/ u3.at = "writes", unseen |-> u4.unseen, early |-> u4.early]
    BY DEF Generating!Ends, Shaped
<1>2. u3'.at = "idle"
    BY DEF Generating!Idle
<1>3. \A path : ~Generating!Writing(path)'
    BY <1>2 DEF Generating!Writing
<1>4. Shaped'
    BY <1>1, <1>2 DEF Shaped
<1>5. Planned' /\ Ordered' /\ Founded' /\ Aimed' /\ Kept'
    BY <1>2 DEF Planned, Ordered, Founded, Aimed, Kept, Wet
<1>6. Sound' /\ Backed'
    <2>1. CASE u3.at = "writes"
        BY <1>1, <2>1 DEF Sound, Backed
    <2>2. CASE u3.at # "writes"
        <3>1. \A path : Held(path)' = Held(path)
            BY <1>3, <2>2 DEF Held, Generating!Writing, Generating!Lines, Generating!Exists
        <3>2. u4'.cut = u4.cut /\ u4'.early = u4.early /\ u2' = u2
            BY <1>1, <2>2 DEF Shaped
        <3> QED  BY <3>1, <3>2, SoundStays
    <2> QED  BY <2>1, <2>2
<1> QED  BY <1>4, <1>5, <1>6

(* A command that has no more to do has done what it was for.                        *)
LEMMA FinishesWell ==
    ASSUME GenerateInv, Generating!Finishes
    PROVE  GenerateInv'
<1> USE DEF GenerateInv
<1>1. /\ u3.at = "looks" /\ u3.todo = <<>> /\ u3' = Generating!Idle /\ UNCHANGED <<u1, u2>>
      /\ u3 \in Commands
    BY AtWork DEF Generating!Finishes
<1> DEFINE wired == IF u3.dry THEN {}
                    ELSE IF u3.kind = "crud" THEN {"entity", "repository", "controller"} \X {u3.name}
                    ELSE {Generating!Source(u3.kind, u3.name)}
<1>2. Generating!Ends(wired)
    BY DEF Generating!Finishes
<1>3. /\ u3.name \in Entities /\ u3.kind \in {"entity", "controller", "crud", "admin"}
      /\ Goals(u3.kind) \subseteq Kinds
    BY <1>1 DEF Commands, Goals, Kinds
<1>4. \A file \in wired : ~u3.dry /\ \E k \in Goals(u3.kind) : file = <<k, u3.name>>
    <2>1. CASE u3.dry
        BY <2>1
    <2>2. CASE ~u3.dry /\ u3.kind = "crud"
        <3>1. wired = {"entity", "repository", "controller"} \X {u3.name}
            BY <2>2
        <3>2. Goals(u3.kind) = {"entity", "repository", "controller"}
            BY <2>2 DEF Goals
        <3> HIDE DEF wired
        <3> QED  BY <2>2, <3>1, <3>2
    <2>3. CASE ~u3.dry /\ u3.kind # "crud"
        <3>1. wired = {<<u3.kind, u3.name>>}
            BY <2>3 DEF Generating!Source
        <3>2. Goals(u3.kind) = {u3.kind}
            BY <2>3 DEF Goals
        <3> HIDE DEF wired
        <3> QED  BY <2>3, <3>1, <3>2
    <2> QED  BY <2>1, <2>2, <2>3
<1>5. wired \subseteq Generating!Sources
    BY <1>3, <1>4 DEF Generating!Sources, Kinds
<1>6. u4'.ended = wired /\ u4'.unseen = u4.unseen
    BY <1>2 DEF Generating!Ends, Shaped
<1> HIDE DEF wired
<1>7. Generating!DoneIsWired'
    <2> SUFFICES ASSUME NEW file \in wired
                 PROVE  LET folder == Generating!FolderOf(file[1]) IN
                        /\ Generating!Exists(file)
                        /\ folder # "entity" \/ u4.unseen # "file" =>
                               <<"mod", file>>
                                   \in Generating!ToSet(Generating!Lines(Generating!Mod(folder)))
                        /\ file[1] = "repository" /\ u4.unseen = "none" =>
                               Generating!Exports(file[2])
                                   \in Generating!ToSet(Generating!Lines(Generating!Mod("entity")))
                        /\ Generating!Exists(Generating!Main) =>
                               /\ Generating!DeclaresFolder(folder)
                                      \in Generating!ToSet(Generating!Lines(Generating!Main))
                               /\ u2 /\ file[1] \in {"controller", "admin"} =>
                                      <<"nest", file>>
                                          \in Generating!ToSet(Generating!Lines(Generating!Main))
        BY <1>1, <1>6 DEF Generating!DoneIsWired, Generating!Lines, Generating!Exists
    <2>1. PICK k \in Goals(u3.kind) : file = <<k, u3.name>> /\ ~u3.dry
        BY <1>4
    <2>2. k \in Kinds /\ u3.name \in Entities /\ Generating!FolderOf(k) \in Generating!Folders
          /\ file[1] = k
        BY <1>3, <2>1, PathsDiffer
    <2>3. Len(Rest) = 0
        BY <1>1 DEF Rest
    <2>4. \A w : Before(w, Len(Rest) + 1) => Settled(w)
        BY <2>3 DEF Before
    <2>5. \A p, line : Has(p, line) <=> line \in Generating!ToSet(Generating!Lines(p))
        BY <1>1 DEF Has, Held, Generating!Writing
    <2>6. /\ Settled(Authors(k, u3.name))
          /\ (k = "entity" /\ u4.unseen = "file") \/ Settled(Registers(k, u3.name))
          /\ Settled(Opens(Generating!FolderOf(k)))
          /\ k \in Routed => Settled(Routes(k, u3.name))
          /\ u3.kind = "crud" /\ u4.unseen = "none" => Settled(Exports(u3.name))
        BY <1>1, <2>1, <2>4 DEF Aimed, Wet
    <2>7. Generating!Exists(file)
        BY <2>1, <2>2, <2>6, WritesDiffer, PathsDiffer DEF Settled, Authors
    <2>8. ASSUME Generating!FolderOf(k) # "entity" \/ u4.unseen # "file"
          PROVE  <<"mod", file>>
                     \in Generating!ToSet(Generating!Lines(Generating!Mod(Generating!FolderOf(k))))
        <3>3. k # "entity" \/ u4.unseen # "file"
            BY <2>8 DEF Generating!FolderOf
        <3>1. /\ Registers(k, u3.name).do = "append_mod"
              /\ Registers(k, u3.name).path = Generating!Mod(Generating!FolderOf(k))
              /\ Registers(k, u3.name).lines[1] = Generating!Declares(k, u3.name)
            BY <2>2, WritesDiffer
        <3>2. Has(Generating!Mod(Generating!FolderOf(k)), Generating!Declares(k, u3.name))
            BY <2>6, <3>1, <3>3 DEF Settled
        <3> QED  BY <2>1, <2>5, <3>2 DEF Generating!Declares
    <2>11. ASSUME k = "repository", u4.unseen = "none"
           PROVE  Generating!Exports(file[2])
                      \in Generating!ToSet(Generating!Lines(Generating!Mod("entity")))
        <3>1. u3.kind = "crud"
            BY <1>3, <2>1, <2>11 DEF Goals
        <3>2. /\ Exports(u3.name).do = "use" /\ Exports(u3.name).path = Generating!Mod("entity")
              /\ Exports(u3.name).lines[1] = Generating!Exports(u3.name)
            BY <2>2, WritesDiffer
        <3>3. Has(Generating!Mod("entity"), Generating!Exports(u3.name))
            BY <2>6, <2>11, <3>1, <3>2 DEF Settled
        <3> QED  BY <2>1, <2>5, <3>3
    <2>9. ASSUME Generating!Exists(Generating!Main)
          PROVE  Generating!DeclaresFolder(Generating!FolderOf(k))
                     \in Generating!ToSet(Generating!Lines(Generating!Main))
        <3>1. /\ Opens(Generating!FolderOf(k)).do = "main"
              /\ Opens(Generating!FolderOf(k)).path = Generating!Main
              /\ Opens(Generating!FolderOf(k)).lines[1] = Generating!DeclaresFolder(Generating!FolderOf(k))
            BY <2>2, WritesDiffer
        <3> QED  BY <2>5, <2>6, <2>9, <3>1 DEF Settled
    <2>10. ASSUME Generating!Exists(Generating!Main), u2, k \in {"controller", "admin"}
           PROVE  <<"nest", file>> \in Generating!ToSet(Generating!Lines(Generating!Main))
        <3>1. k \in Routed /\ u2 = TRUE
            BY <2>10 DEF Routed, Shaped
        <3>2. /\ Routes(k, u3.name).do = "marker" /\ Routes(k, u3.name).path = Generating!Main
              /\ Routes(k, u3.name).lines[1] = Generating!Mounts(k, u3.name)
            BY <2>2, WritesDiffer
        <3>3. Has(Generating!Main, Generating!Mounts(k, u3.name))
            BY <2>6, <2>10, <3>1, <3>2 DEF Settled
        <3> QED  BY <2>1, <2>5, <3>3 DEF Generating!Mounts
    <2> QED  BY <2>2, <2>7, <2>8, <2>9, <2>10, <2>11
<1> QED  BY <1>1, <1>2, <1>5, <1>7, EndsKeeps DEF Shaped

(* The export fails and nobody looks: the command goes on, without the export or, when   *)
(* the write broke off, without anything that entity/mod.rs said.                        *)
LEMMA SwallowKeeps ==
    ASSUME GenerateInv, Generating!Fails, Generating!Doing.do = "use"
    PROVE  GenerateInv'
<1> USE DEF GenerateInv
<1>1. /\ u3' = Generating!Next1 /\ UNCHANGED <<u1, u2>>
      /\ u4' = [u4 EXCEPT !.unseen = IF u3.at = "writes" THEN "file"
                                     ELSE IF @ = "none" THEN "export" ELSE @,
                          !.cut = @ \/ u3.at = "writes"]
      /\ (u3.at = "looks" /\ u3.todo # <<>> /\ Generating!Needed) \/ u3.at = "writes"
    BY DEF Generating!Fails, Generating!Swallows, Generating!Looks
<1>2. u3 \in Commands /\ (u3.at = "writes" => u3.todo # <<>> /\ ~u3.dry)
    <2>1. u3.at # "idle"
        BY <1>1
    <2> QED  BY <2>1, AtWork DEF Shaped
<1>3. u3.todo # <<>> /\ ~u3.dry /\ Wet
    BY <1>1, <1>2 DEF Generating!Needed, Wet
<1>4. Tail(u3.todo) \in Seq(Named)
    <2> HIDE DEF Named
    <2>1. u3.todo \in Seq(Named)
        BY <1>2 DEF Commands
    <2> QED  BY <1>3, <2>1
<1>5. /\ u3' \in Commands /\ u3'.at = "looks" /\ u3'.kind = u3.kind /\ u3'.name = u3.name
      /\ u3'.dry = u3.dry /\ u3'.force = u3.force /\ u3'.todo = Tail(u3.todo)
    BY <1>1, <1>2, <1>4 DEF Commands, Generating!Next1
<1>6. /\ u4' = [commands |-> u4.commands, before |-> u4.before, ended |-> u4.ended,
                cut |-> u4.cut \/ u3.at = "writes",
                unseen |-> IF u3.at = "writes" THEN "file"
                           ELSE IF u4.unseen = "none" THEN "export" ELSE u4.unseen,
                early |-> u4.early]
    BY <1>1 DEF Shaped
<1>7. Shaped'
    <2>1. u3' \in [at : {"looks", "writes"},
                  todo : Seq([do : {"file", "append_mod", "main", "marker", "use"},
                              path : Paths, lines : Wholes]),
                  kind : {"entity", "controller", "crud", "admin"}, name : Entities,
                  dry : BOOLEAN, force : BOOLEAN]
        BY <1>5 DEF Commands, Named
    <2> QED  BY <1>1, <1>5, <1>6, <2>1 DEF Shaped
<1>8. \A path : ~Generating!Writing(path)'
    BY <1>5 DEF Generating!Writing
<1>9. \A path : ~Generating!Writing(path) => Held(path)' = Held(path)
    BY <1>1, <1>8 DEF Held, Generating!Lines, Generating!Exists
<1>10. Generating!DoneIsWired'
    BY <1>3, <1>6 DEF Kept, Generating!DoneIsWired, Wet
<1>11. CASE u3.at = "looks"
    <2>1. \A path : ~Generating!Writing(path) /\ Held(path)' = Held(path)
        BY <1>9, <1>11 DEF Generating!Writing
    <2>2. /\ u4'.cut = u4.cut /\ u4'.early = u4.early /\ u4'.unseen # "none"
          /\ u4'.unseen = u4.unseen \/ (u4.unseen = "none" /\ u4'.unseen = "export")
          /\ u4'.before = u4.before /\ u4'.ended = u4.ended
        BY <1>6, <1>11 DEF Shaped
    <2>3. Rest = u3.todo /\ Rest # <<>> /\ Rest' = Tail(Rest)
        BY <1>3, <1>5, <1>11 DEF Rest
    <2>4. Rest \in Seq(Writes) /\ Rest[1] \in Writes /\ Generating!Doing = Rest[1]
        <3>1. Rest \in Seq(Writes) /\ Len(Rest) \in Nat /\ \A i \in 1 .. Len(Rest) : Rest[i] \in Writes
            BY <1>3, RestIsPlanned DEF Wet
        <3>2. Len(Rest) \in Nat \ {0} /\ Head(Rest) = Rest[1]
            BY <2>3, <3>1, TailIsAll
        <3>3. 1 \in 1 .. Len(Rest)
            BY <3>2
        <3> QED  BY <2>3, <3>1, <3>2, <3>3 DEF Generating!Doing
    <2>5. Grows
        BY <1>1, <2>1 DEF Grows, Generating!Exists, Has
    <2>6. Proceeds
        BY <2>2, <2>3, <2>4 DEF Proceeds
    <2>7. \E w \in Writes : /\ w = Rest[1]
                            /\ \A path : Generating!Exists(path)' =>
                                             Generating!Exists(path) \/ path = w.path
        BY <1>1, <2>4 DEF Generating!Exists
    <2>8. Planned' /\ Ordered' /\ Founded' /\ Aimed'
        BY <1>3, <1>5, <2>2, <2>5, <2>6, <2>7, PlanProceeds
    <2>9. Sound' /\ Backed'
        BY <1>1, <2>1, <2>2, SoundStays
    <2>10. Kept'
        BY <1>1, <1>3, <1>5, <1>8, <2>1, <2>2 DEF Kept, Wet, Generating!Exists, Shaped
    <2> QED  BY <1>7, <1>10, <2>8, <2>9, <2>10
<1>12. CASE u3.at = "writes"
    <2>1. /\ Generating!Doing.path = Generating!Mod("entity")
          /\ \A path : Generating!Writing(path) <=> path = Generating!Mod("entity")
        BY <1>12 DEF Shaped, Generating!Writing
    <2>2. u4'.cut = TRUE /\ u4'.unseen = "file" /\ u4'.before = u4.before /\ u4'.ended = u4.ended
        BY <1>6, <1>12
    <2>3. Rest' = Rest
        BY <1>5, <1>12 DEF Rest
    <2>4. /\ "entity" \in Generating!Folders /\ "controller" \in Generating!Folders
          /\ Routed \subseteq Kinds
          /\ \A k \in Kinds : Generating!FolderOf(k) = "entity" => k = "entity"
          /\ \A k \in Routed : Generating!FolderOf(k) = "controller"
        BY DEF Generating!Folders, Routed, Kinds, Generating!FolderOf
    <2>5. /\ \A p : p # Generating!Mod("entity") => Held(p)' = Held(p)
          /\ \A p : Generating!Exists(p)' <=> Generating!Exists(p)
        BY <1>1, <1>9, <2>1 DEF Generating!Exists
    <2>6. ASSUME NEW w, NEW i, w.do = "file" \/ w.path # Generating!Mod("entity"), Before(w, i)
          PROVE  Before(w, i)'
        <3>1. Settled(w) => Settled(w)'
            BY <1>1, <2>5, <2>6 DEF Settled, Has
        <3> QED  BY <2>3, <2>6, <3>1 DEF Before
    <2>7. \A i : /\ \A k \in Kinds, m \in Entities :
                        /\ Before(Authors(k, m), i) => Before(Authors(k, m), i)'
                        /\ k # "entity" /\ Before(Registers(k, m), i) => Before(Registers(k, m), i)'
                        /\ Before(Routes(k, m), i) => Before(Routes(k, m), i)'
                 /\ \A f \in Generating!Folders : Before(Opens(f), i) => Before(Opens(f), i)'
        <3>1. /\ \A k \in Kinds, m \in Entities : Authors(k, m).do = "file"
              /\ \A k \in Kinds, m \in Entities :
                     k # "entity" => Registers(k, m).path # Generating!Mod("entity")
              /\ \A f \in Generating!Folders : Opens(f).path # Generating!Mod("entity")
              /\ \A k \in Kinds, m \in Entities : Routes(k, m).path # Generating!Mod("entity")
            BY <2>4, WritesDiffer, PathsDiffer DEF Authors
        <3> QED  BY <2>6, <3>1
    <2>8. Planned' /\ Founded'
        BY <1>3, <2>2, <2>3 DEF Planned, Founded, Wet
    <2>9. Ordered'
        <3>1. \A i \in 1 .. Len(Rest), k \in Kinds, m \in Entities :
                  Rest[i] = Routes(k, m) => k \in Routed
            <4> SUFFICES ASSUME NEW i \in 1 .. Len(Rest), NEW k \in Kinds, NEW m \in Entities,
                                Rest[i] = Routes(k, m)
                         PROVE  k \in Routed
                OBVIOUS
            <4>1. Rest[i] \in Writes /\ Rest[i].do = "marker"
                BY <1>3, WritesDiffer DEF Planned, Wet
            <4>2. \/ \E k2 \in Routed, n \in Entities : Rest[i] = Routes(k2, n)
                  \/ \E k2 \in Routed, n \in Entities : Rest[i] = Explains(k2, n)
                BY <4>1, WritesAreKnown, WritesDiffer
            <4> QED  BY <2>4, <4>2, WritesDiffer
        <3>2. \A k \in Routed : k # "entity"
            BY DEF Routed
        <3> QED  BY <1>3, <2>3, <2>4, <2>5, <2>7, <3>1, <3>2 DEF Ordered, Kinds
    <2>10. Aimed'
        <3>1. PICK name, n, kind : name = u3.name /\ n = Len(Rest) /\ kind = u3.kind
            OBVIOUS
        <3>2. name \in Entities /\ Goals(kind) \subseteq Kinds
            BY <1>2, <3>1 DEF Goals, Kinds, Commands
        <3>3. \A k \in Goals(kind) :
                  /\ Before(Authors(k, name), n + 1)
                  /\ k = "entity" \/ Before(Registers(k, name), n + 1)
                  /\ Before(Opens(Generating!FolderOf(k)), n + 1)
                  /\ k \in Routed => Before(Routes(k, name), n + 1)
            BY <1>3, <3>1 DEF Aimed
        <3>4. \A k \in Goals(kind) :
                  /\ Before(Authors(k, name), n + 1)'
                  /\ k = "entity" \/ Before(Registers(k, name), n + 1)'
                  /\ Before(Opens(Generating!FolderOf(k)), n + 1)'
                  /\ k \in Routed => Before(Routes(k, name), n + 1)'
            BY <2>7, <3>2, <3>3, PathsDiffer
        <3>5. name = u3'.name /\ n = Len(Rest') /\ kind = u3'.kind
            BY <1>5, <2>3, <3>1
        <3> QED  BY <2>2, <3>4, <3>5 DEF Aimed
    <2>11. Sound' /\ Backed'
        BY <2>2 DEF Sound, Backed
    <2>12. Kept'
        <3>1. Generating!Mod("entity") \notin Generating!Sources
            BY <2>4, PathsDiffer
        <3> QED  BY <1>1, <1>3, <1>5, <1>8, <2>1, <2>2, <2>5, <3>1 DEF Kept, Wet
    <2> QED  BY <1>7, <1>10, <2>8, <2>9, <2>10, <2>11, <2>12
<1> QED  BY <1>1, <1>11, <1>12

(* Whatever is asked for, its plan keeps the order and reaches its goals. *)
LEMMA PlanFits ==
    ASSUME Shaped, NEW kind \in {"entity", "controller", "crud", "admin"}, NEW name \in Entities,
           NEW specs \in Generating!Specs,
           Generating!Readable(kind, specs), Generating!Ready(kind, name)
    PROVE  Fits(Generating!Plan(kind, name, Generating!ParsedFields(specs)), kind, name)
<1> DEFINE fields == Generating!ParsedFields(specs)
<1>1. kind \in {"entity", "crud"} => fields \in Wholes
    <2>1. kind \in {"entity", "crud"} => specs \in Generating!Specs \ {<<"no type">>}
        BY DEF Generating!Readable
    <2> QED  BY <2>1, LinesAreWhole
<1> HIDE DEF fields
<1>2. CASE kind = "entity"
    BY <1>1, <1>2, EntityFits DEF Generating!Plan, fields
<1>3. CASE kind = "controller"
    BY <1>3, ControllerFits DEF Generating!Plan
<1>4. CASE kind = "crud"
    BY <1>1, <1>4, CrudFits DEF Generating!Plan, fields
<1>5. CASE kind = "admin"
    <2>1. Generating!Source("entity", name) \in DOMAIN u1
        BY <1>5 DEF Generating!Ready, Generating!Lines, Generating!Exists
    <2>2. u1[Generating!Source("entity", name)] \in Wholes
        BY <2>1 DEF Shaped
    <2> QED  BY <1>5, <2>2, AdminFits DEF Generating!Plan
<1> QED  BY <1>2, <1>3, <1>4, <1>5

(* A command begins with its plan, on the files that are there.                      *)
LEMMA RunKeeps ==
    ASSUME GenerateInv,
           NEW kind \in {"entity", "controller", "crud", "admin"}, NEW name \in Entities,
           NEW specs \in Generating!Specs, NEW dry \in BOOLEAN, NEW force \in BOOLEAN,
           Generating!Run(kind, name, specs, dry, force)
    PROVE  GenerateInv'
<1> USE DEF GenerateInv
<1>1. PICK p : p = Generating!Plan(kind, name, Generating!ParsedFields(specs))
    OBVIOUS
<1>2. /\ u3 = Generating!Idle /\ UNCHANGED <<u1, u2>>
      /\ u3' = [at |-> "looks", todo |-> p, kind |-> kind, name |-> name, dry |-> dry, force |-> force]
      /\ u4' = [u4 EXCEPT !.before = u1, !.commands = @ + 1, !.ended = {}, !.unseen = "none",
                          !.early = IF kind = "admin" /\ ~dry /\ ~Generating!InCrate("repository", name)
                                    THEN @ \union {name} ELSE @]
    BY <1>1 DEF Generating!Run
<1>3. Fits(p, kind, name)
    BY <1>1, PlanFits DEF Generating!Run
<1>4. p \in Seq(Writes) /\ \A i \in 1 .. Len(p) : p[i] \in Writes
    BY <1>3 DEF Fits
<1>5. p \in Seq(Named)
    <2>1. Writes \subseteq Named
        BY WritesAreNamed
    <2> HIDE DEF Named
    <2> QED  BY <1>4, <2>1
<1>6. /\ u4'.before = u1 /\ u4'.ended = {} /\ u4'.cut = u4.cut /\ u4'.unseen = "none"
      /\ u4' = [commands |-> u4'.commands, before |-> u1, ended |-> {}, cut |-> u4.cut,
                unseen |-> "none", early |-> u4'.early]
      /\ u4.early \subseteq u4'.early
      /\ kind = "admin" /\ ~dry /\ ~Generating!InCrate("repository", name) => name \in u4'.early
    BY <1>2 DEF Shaped
<1>7. /\ u3'.at = "looks" /\ u3'.kind = kind /\ u3'.name = name /\ u3'.todo = p /\ u3'.force = force
      /\ u3'.dry = dry /\ u3.at = "idle"
    BY <1>2 DEF Generating!Idle
<1>8. Rest' = p
    BY <1>7 DEF Rest
<1>9. \A path : ~Generating!Writing(path) /\ ~Generating!Writing(path)'
    BY <1>7 DEF Generating!Writing
<1>10. \A path : Held(path)' = Held(path) /\ Held(path) = Generating!Lines(path)
    BY <1>2, <1>9 DEF Held, Generating!Lines, Generating!Exists
<1>11. Shaped'
    <2>1. u3' \in [at : {"looks", "writes"},
                  todo : Seq([do : {"file", "append_mod", "main", "marker", "use"},
                              path : Paths, lines : Wholes]),
                  kind : {"entity", "controller", "crud", "admin"}, name : Entities,
                  dry : BOOLEAN, force : BOOLEAN]
        BY <1>2, <1>5 DEF Named
    <2> QED  BY <1>2, <1>6, <1>7, <2>1 DEF Shaped
<1>12. Planned'
    BY <1>4, <1>8 DEF Planned
<1>13. \A w, i : Among(w, p, i - 1) => Before(w, i)'
    BY <1>8 DEF Among, Before
<1>14. Ordered'
    <2>1. InOrderOf(p)
        BY <1>3 DEF Fits
    <2>2. \A i \in 1 .. Len(p) :
              /\ \A k \in Kinds, n \in Entities :
                     /\ p[i] = Registers(k, n) => Before(Authors(k, n), i)'
                     /\ p[i] = Routes(k, n) => /\ Before(Registers(k, n), i)'
                                               /\ Before(Opens("controller"), i)'
              /\ \A n \in Entities : p[i] = Exports(n) => Before(Authors("entity", n), i)'
        BY <1>13, <2>1 DEF InOrderOf
    <2>3. \A i \in 1 .. Len(p) :
              p[i] = Founds => /\ ~Generating!Exists(Generating!Mod("repository"))'
                               /\ \A j \in 1 .. i - 1 : p[j].path # Generating!Mod("repository")
        BY <1>2, <2>1 DEF InOrderOf, Generating!Exists
    <2> QED  BY <1>8, <2>2, <2>3 DEF Ordered
<1>19. Founded'
    <2>1. InOrderOf(p) /\ \A i \in 1 .. Len(p), n \in Entities :
                               p[i] = Registers("admin", n) => kind = "admin" /\ n = name
        BY <1>3 DEF Fits
    <2>2. \A i \in 1 .. Len(p), n \in Entities :
              p[i] = Registers("repository", n) => /\ Before(Registers("entity", n), i)'
                                                   /\ Before(Opens("entity"), i)'
        BY <1>13, <2>1 DEF InOrderOf
    <2>3. /\ "repository" \in Kinds /\ "repository" \in Generating!Folders
          /\ Generating!FolderOf("repository") = "repository"
        BY DEF Kinds, Generating!Folders, Generating!FolderOf
    <2>4. \A path, line : Has(path, line)' <=> line \in Generating!ToSet(Generating!Lines(path))
        BY <1>10 DEF Has
    <2>5. Generating!InCrate("repository", name) => Compiled("repository", name)'
        <3>1. /\ Registers("repository", name).do = "append_mod"
              /\ Registers("repository", name).path = Generating!Mod("repository")
              /\ Registers("repository", name).lines[1] = Generating!Declares("repository", name)
              /\ Opens("repository").do = "main" /\ Opens("repository").path = Generating!Main
              /\ Opens("repository").lines[1] = Generating!DeclaresFolder("repository")
            BY <2>3, WritesDiffer
        <3> QED  BY <1>2, <2>3, <2>4, <3>1 DEF Generating!InCrate, Compiled, Settled, Generating!Exists
    <2>6. ASSUME ~dry, NEW i \in 1 .. Len(p), NEW n \in Entities, p[i] = Registers("admin", n)
          PROVE  n \in u4'.early \/ Compiled("repository", n)'
        BY <1>6, <2>1, <2>5, <2>6
    <2> QED  BY <1>7, <1>8, <2>2, <2>6 DEF Founded, Wet
<1>15. Aimed'
    <2>1. Len(p) \in Nat
        BY <1>4
    <2>2. \A w : Among(w, p, Len(p)) => Before(w, Len(p) + 1)'
        <3>1. (Len(p) + 1) - 1 = Len(p)
            BY <2>1
        <3> QED  BY <1>13, <3>1
    <2>3. \A k \in Goals(kind) :
              /\ Before(Authors(k, name), Len(p) + 1)'
              /\ Before(Registers(k, name), Len(p) + 1)'
              /\ Before(Opens(Generating!FolderOf(k)), Len(p) + 1)'
              /\ k \in Routed => Before(Routes(k, name), Len(p) + 1)'
        BY <1>3, <2>2 DEF Fits, Reaches
    <2>4. kind = "crud" => Before(Exports(name), Len(p) + 1)'
        BY <1>3, <2>2 DEF Fits
    <2> QED  BY <1>7, <1>8, <2>3, <2>4 DEF Aimed
<1>16. Sound' /\ Backed'
    BY <1>2, <1>6, <1>10, SoundStays
<1>17. Kept'
    <2>1. ASSUME NEW path \in DOMAIN u1
          PROVE  Generating!Exists(path)' /\ Extends(u1[path], Held(path)')
        <3>1. u1[path] \in Wholes /\ Len(u1[path]) \in Nat
            BY DEF Shaped, Wholes
        <3>2. Held(path)' = u1[path]
            BY <1>10 DEF Generating!Lines, Generating!Exists
        <3>3. Extends(u1[path], u1[path])
            BY <3>1 DEF Extends
        <3> QED  BY <1>2, <3>2, <3>3 DEF Generating!Exists
    <2> QED  BY <1>2, <1>6, <1>9, <2>1 DEF Kept
<1>18. Generating!DoneIsWired'
    BY <1>6 DEF Generating!DoneIsWired
<1> QED  BY <1>11, <1>12, <1>14, <1>15, <1>16, <1>17, <1>18, <1>19

(* A new project has no command and nothing but main.rs.                             *)
LEMMA GenerateStarts ==
    ASSUME Generating!Init
    PROVE  GenerateInv
<1>1. /\ u2 \in BOOLEAN /\ u3 = Generating!Idle /\ u3.at = "idle"
      /\ u4 = [commands |-> 0, before |-> u1, ended |-> {}, cut |-> FALSE,
               unseen |-> "none", early |-> {}]
    BY DEF Generating!Init, Generating!Idle
<1>2. /\ "controller" \in Generating!Folders /\ "controller" \in Kinds
      /\ Generating!Main # Generating!Mod("controller")
    <2>1. "controller" \in Generating!Folders /\ "controller" \in Kinds
        BY DEF Generating!Folders, Kinds
    <2> QED  BY <2>1, PathsDiffer
<1> DEFINE opened == <<Generating!DeclaresFolder("controller")>>
<1>3. \/ u1 = [p \in {Generating!Main, Generating!Mod("controller")} |->
                   IF p = Generating!Main THEN opened ELSE <<>>]
      \/ u1 = [p \in {} |-> <<>>]
    BY DEF Generating!Init
<1>4. opened \in Wholes /\ <<>> \in Wholes
    BY <1>2, LinesAreWhole
<1>5. Generating!ToSet(opened) = {Generating!DeclaresFolder("controller")} /\ Generating!ToSet(<<>>) = {}
    BY DEF Generating!ToSet
<1> HIDE DEF opened
<1>6. DOMAIN u1 \subseteq Paths /\ u1 \in [DOMAIN u1 -> Wholes]
    <2>1. Generating!Main \in Paths /\ Generating!Mod("controller") \in Paths
        BY <1>2 DEF Paths
    <2> QED  BY <1>3, <1>4, <2>1
<1>7. Shaped
    BY <1>1, <1>6 DEF Shaped
<1>8. Planned /\ Ordered /\ Founded /\ Aimed /\ Kept
    BY <1>1 DEF Planned, Ordered, Founded, Aimed, Kept, Wet
<1>9. \A path : Held(path) = Generating!Lines(path)
    BY <1>1 DEF Held, Generating!Writing
<1>10. \A path : /\ path # Generating!Main => Generating!Lines(path) = <<>>
                 /\ Generating!Lines(path) \in {opened, <<>>}
    BY <1>2, <1>3 DEF Generating!Lines, Generating!Exists
<1>11. Sound /\ Backed
    <2>1. \A f \in Generating!Folders : \A line : ~Has(Generating!Mod(f), line)
        BY <1>5, <1>9, <1>10, PathsDiffer DEF Has
    <2>2. \A line : Has(Generating!Main, line) => line = Generating!DeclaresFolder("controller")
        BY <1>5, <1>9, <1>10 DEF Has
    <2>3. "entity" \in Generating!Folders /\ "repository" \in Generating!Folders
        BY DEF Generating!Folders
    <2>4. Backed
        BY <1>2, <2>1, <2>3 DEF Backed
    <2> QED  BY <1>2, <2>1, <2>2, <2>3, <2>4, LinesDiffer DEF Sound
<1>12. Generating!DoneIsWired
    BY <1>1 DEF Generating!DoneIsWired
<1> QED  BY <1>7, <1>8, <1>11, <1>12 DEF GenerateInv

(* Of two sequences, the one begins with the other. *)
LEMMA ExtendsIsPrefix ==
    ASSUME NEW s \in Wholes, NEW t \in Wholes, Extends(s, t)
    PROVE  Generating!IsPrefix(s, t)
<1>1. s \in Seq(AnyLine) /\ t \in Seq(AnyLine)
    BY DEF Wholes
<1>2. Len(s) \in Nat /\ Len(t) \in Nat /\ Len(s) <= Len(t) /\ \A i \in 1 .. Len(s) : t[i] = s[i]
    <2> HIDE DEF AnyLine
    <2> QED  BY <1>1 DEF Extends
<1>3. SubSeq(s, 1, Len(s)) = SubSeq(t, 1, Len(s))
    <2>1. /\ SubSeq(s, 1, Len(s)) = [i \in 1 .. Len(s) |-> s[i]]
          /\ SubSeq(t, 1, Len(s)) = [i \in 1 .. Len(s) |-> t[i]]
        <3> HIDE DEF AnyLine
        <3> QED  BY <1>1, <1>2
    <2>2. [i \in 1 .. Len(s) |-> s[i]] = [i \in 1 .. Len(s) |-> t[i]]
        BY <1>2
    <2> QED  BY <2>1, <2>2
<1> QED  BY <1>2, <1>3 DEF Generating!IsPrefix

(* Whatever is generated, in whatever order, and wherever a command fails or is         *)
(* stopped: the project builds, nothing is wired twice, and nothing is lost.            *)
THEOREM ProjectStaysWhole == MCSpec => []ProjectIsWhole
<1> DEFINE Inv == part = "generate" => GenerateInv
<1>1. MCInit => Inv
    BY GenerateStarts DEF MCInit
<1>2. Inv /\ [MCNext]_<<part, vars, publishVars, devVars, writerVars>> => Inv'
    <2>1. ASSUME GenerateInv, UNCHANGED writerVars PROVE GenerateInv'
        <3>1. UNCHANGED <<u1, u2, u3, u4>>
            BY <2>1 DEF writerVars
        <3>2. Shaped' /\ Planned'
            BY <2>1, <3>1 DEF GenerateInv, Shaped, Planned, Rest, Generating!Exists, Generating!Doing
        <3>3. Ordered' /\ Founded' /\ Aimed'
            BY <2>1, <3>1 DEF GenerateInv, Ordered, Founded, Compiled, Aimed, Wet, Before, Settled, Rest,
                              Has, Held, Generating!Exists, Generating!Doing, Generating!Writing,
                              Generating!Lines
        <3>4. Sound' /\ Backed' /\ Kept'
            BY <2>1, <3>1 DEF GenerateInv, Sound, Backed, Compiled, Settled, Kept, Has, Held,
                              Generating!Exists, Generating!Doing, Generating!Writing, Generating!Lines
        <3>5. Generating!DoneIsWired'
            BY <2>1, <3>1 DEF GenerateInv, Generating!DoneIsWired, Generating!Exists, Generating!Lines
        <3> QED  BY <3>2, <3>3, <3>4, <3>5 DEF GenerateInv
    <2>3. ASSUME GenerateInv, Generating!Stopped PROVE GenerateInv'
        <3>1. u3.at # "idle"
            BY <2>3 DEF Generating!Stopped, Generating!Idle, GenerateInv, Shaped
        <3>2. /\ u3' = Generating!Idle /\ Generating!Ends({}) /\ u1' = u1 /\ u2' \in BOOLEAN
              /\ u3.at # "writes" => u2' = u2
            BY <2>3 DEF Generating!Stopped, GenerateInv, Shaped
        <3>3. Generating!DoneIsWired'
            BY <2>3, <3>2 DEF Generating!Ends, Generating!DoneIsWired, GenerateInv, Shaped
        <3> QED  BY <2>3, <3>1, <3>2, <3>3, EndsKeeps
    <2>2. ASSUME GenerateInv, Generating!Next PROVE GenerateInv'
        <3>1. CASE Generating!Skip
            BY <2>2, <3>1, PassesKeeps DEF Generating!Skip
        <3>2. CASE Generating!Fails
            <4>1. CASE Generating!Doing.do = "use"
                BY <2>2, <3>2, <4>1, SwallowKeeps
            <4>2. CASE Generating!Doing.do # "use"
                BY <2>2, <2>3, <3>2, <4>2 DEF Generating!Fails
            <4> QED  BY <4>1, <4>2
        <3>3. CASE Generating!Stopped
            BY <2>2, <2>3, <3>3
        <3> QED  BY <2>2, <3>1, <3>2, <3>3, BeginsKeeps, FillsKeeps, FinishesWell, RunKeeps
                 DEF Generating!Next
    <2> QED  BY <2>1, <2>2 DEF MCNext
<1>3. Inv => ProjectIsWhole
    <2> SUFFICES ASSUME GenerateInv
                 PROVE  /\ Generating!TypeOK /\ Generating!NothingDangles
                        /\ Generating!WiredOnce /\ Generating!DoneIsWired
                        /\ Generating!WhatIsThereStays
        BY DEF ProjectIsWhole
    <2> USE DEF GenerateInv
    <2>1. Generating!TypeOK
        BY DEF Generating!TypeOK, Shaped, Paths, Generating!Idle
    <2>2. Generating!WiredOnce
        BY DEF Generating!WiredOnce, Shaped, Wholes
    <2>3. ASSUME ~u4.cut, u3.at # "writes" PROVE Generating!NothingDangles
        <3>1. \A path, line : Has(path, line) <=> line \in Generating!ToSet(Generating!Lines(path))
            BY <2>3 DEF Has, Held, Generating!Writing
        <3>2. ASSUME NEW file \in Generating!Sources
              PROVE  \E k \in Kinds, n \in Entities : file = <<k, n>>
            BY PathsDiffer
        <3>3. ASSUME NEW f \in Generating!Folders, NEW file \in Generating!Sources,
                     <<"mod", file>> \in Generating!ToSet(Generating!Lines(Generating!Mod(f)))
              PROVE  Generating!Exists(file)
            <4>1. PICK k \in Kinds, n \in Entities : file = <<k, n>>
                BY <3>2
            <4> QED  BY <2>3, <3>1, <3>3, <4>1 DEF Sound, Generating!Declares
        <3>4. ASSUME NEW file \in Generating!Sources,
                     <<"nest", file>> \in Generating!ToSet(Generating!Lines(Generating!Main))
              PROVE  /\ <<"mod", file>>
                            \in Generating!ToSet(Generating!Lines(Generating!Mod("controller")))
                     /\ Generating!DeclaresFolder("controller")
                            \in Generating!ToSet(Generating!Lines(Generating!Main))
            <4>1. PICK k \in Kinds, n \in Entities : file = <<k, n>>
                BY <3>2
            <4>2. Has(Generating!Main, Generating!Mounts(k, n))
                BY <3>1, <3>4, <4>1 DEF Generating!Mounts
            <4>3. /\ Has(Generating!Mod("controller"), Generating!Declares(k, n))
                  /\ Has(Generating!Main, Generating!DeclaresFolder("controller"))
                BY <2>3, <4>2 DEF Sound
            <4> QED  BY <3>1, <4>1, <4>3 DEF Generating!Declares
        <3>5. \A n \in Entities :
                  Generating!Exports(n) \in Generating!ToSet(Generating!Lines(Generating!Mod("entity"))) =>
                      Generating!Exists(Generating!Source("entity", n))
            BY <2>3, <3>1 DEF Sound, Generating!Source
        <3>6. ASSUME NEW k \in {"entity", "repository"}, NEW n \in Entities, Compiled(k, n)
              PROVE  Generating!InCrate(k, n)
            <4>1. k \in Kinds /\ k \in Generating!Folders /\ Generating!FolderOf(k) = k
                BY DEF Kinds, Generating!Folders, Generating!FolderOf
            <4>2. /\ Registers(k, n).do = "append_mod" /\ Registers(k, n).path = Generating!Mod(k)
                  /\ Registers(k, n).lines[1] = Generating!Declares(k, n)
                  /\ Opens(k).do = "main" /\ Opens(k).path = Generating!Main
                  /\ Opens(k).lines[1] = Generating!DeclaresFolder(k)
                BY <4>1, WritesDiffer
            <4> QED  BY <3>1, <3>6, <4>1, <4>2 DEF Generating!InCrate, Compiled, Settled
        <3>7. \A n \in Entities :
                  /\ Generating!Declares("repository", n)
                         \in Generating!ToSet(Generating!Lines(Generating!Mod("repository"))) =>
                             Generating!InCrate("entity", n)
                  /\ Generating!Declares("admin", n)
                         \in Generating!ToSet(Generating!Lines(Generating!Mod("controller"))) =>
                             n \in u4.early \/ Generating!InCrate("repository", n)
            BY <2>3, <3>1, <3>6 DEF Backed
        <3> QED  BY <3>3, <3>4, <3>5, <3>7 DEF Generating!NothingDangles
    <2>4. ASSUME u3 # Generating!Idle
          PROVE  Generating!WhatIsThereStays
        <3>1. u3.at # "idle"
            BY <2>4 DEF Shaped, Generating!Idle
        <3>2. ASSUME NEW path \in DOMAIN u4.before, path \notin Generating!Sources,
                     ~Generating!Writing(path), path # Generating!Mod("entity") \/ u4.unseen # "file"
              PROVE  Generating!IsPrefix(u4.before[path], u1[path])
            <4>1. Generating!Exists(path) /\ Extends(u4.before[path], Held(path))
                BY <3>1, <3>2 DEF Kept
            <4>2. Held(path) = u1[path]
                BY <3>2, <4>1 DEF Held, Generating!Lines
            <4>3. u4.before[path] \in Wholes /\ Held(path) \in Wholes
                BY HeldIsWhole DEF Shaped
            <4> QED  BY <4>1, <4>2, <4>3, ExtendsIsPrefix
        <3>3. u3.dry => u1 = u4.before
            BY <3>1 DEF Kept
        <3>4. \A path \in DOMAIN u4.before :
                  path \in Generating!Sources => u3.force \/ u1[path] = u4.before[path]
            BY <3>1 DEF Kept
        <3> QED  BY <3>2, <3>3, <3>4 DEF Generating!WhatIsThereStays
    <2> QED  BY <2>1, <2>2, <2>3, <2>4 DEF Generating!NothingDangles, Generating!WhatIsThereStays
<1> QED  BY <1>1, <1>2, <1>3, PTL DEF MCSpec
==================================================================================
