----------------------------- MODULE SchemaMigrations -----------------------------
(* karbon migrate up and rollback: run_async, migrate_up, migrate_rollback and the    *)
(* tracking table of karbon-cli/src/commands/migrate.rs. Each invocation is a process *)
(* of its own against the shared database; nothing locks it against another one.      *)
(* Statements commit one by one (MySQL, SQLite; PostgreSQL, which runs a script as    *)
(* one transaction, has fewer behaviours).                                            *)
EXTENDS Naturals, FiniteSets

CONSTANTS Sessions,  \* invocations that can run at the same time
          Up,        \* per version, a number in file order: statements of its up section
          Down,      \* per version: statements of its down section, or NoSection
          NoSection,
          Strict,    \* versions whose statements fail when repeated (no IF NOT EXISTS)
          Unsafe,    \* versions whose file name validate_version refuses
          Late       \* bound: the files that are added or removed while it runs

Versions == DOMAIN Up

(* A down section undoes its up section, last statement first. *)
ASSUME MigrationAssumption ==
    /\ Versions \subseteq Nat
    /\ IsFiniteSet(Versions)
    /\ Up \in [Versions -> Nat]
    /\ \A v \in Versions : Down[v] \in {NoSection, Up[v]}
    /\ Strict \subseteq Versions
    /\ Unsafe \subseteq Versions
    /\ Late \subseteq Versions

VARIABLES dir,       \* the files of the migration directory
          schema,    \* the statements <<version, number>> in effect in the database
          recorded,  \* rows of _karbon_migrations
          session,   \* per invocation: where it is
          trouble,   \* history: what happened so far beside undisturbed single runs
          half       \* history: versions whose rollback stopped in the middle

vars == <<dir, schema, recorded, session, trouble, half>>

Idle == [pc |-> "idle"]

Init == /\ dir \in {d \in SUBSET Versions : Versions \ Late \subseteq d}
        /\ schema = {}
        /\ recorded = {}
        /\ session = [s \in Sessions |-> Idle]
        /\ trouble = {}
        /\ half = {}

Running(s) == session[s].pc # "idle"

Cmd(s) == session[s].cmd

Least(S) == CHOOSE v \in S : \A u \in S : v <= u

Greatest(S) == CHOOSE v \in S : \A u \in S : u <= v

(* The version at hand: the files are taken in the order of their names. *)
At(s) == Least(session[s].todo)

Goto(s, pc) == session' = [session EXCEPT ![s].pc = pc]

Stop(s) == session' = [session EXCEPT ![s] = Idle]

-----------------------------------------------------------------------------------
(* One invocation. *)

(* Connect, create the tracking table if needed, list the files. *)
Begin(s, cmd) ==
    LET others == {t \in Sessions \ {s} : Running(t)}
    IN  /\ ~Running(s)
        /\ session' = [session EXCEPT ![s] = [pc |-> "select", cmd |-> cmd,
                                              files |-> dir, todo |-> {}, k |-> 1]]
        /\ trouble' = trouble
               \union (IF others = {} THEN {} ELSE {"overlap"})
               \union (IF "rollback" \in {cmd} \union {Cmd(t) : t \in others} /\ others # {}
                       THEN {"mixed"} ELSE {})
        /\ UNCHANGED <<dir, schema, recorded, half>>

Pending_All(s) ==
    LET applied == session[s].files \intersect recorded
    IN  IF Cmd(s) = "up" THEN session[s].files
        ELSE IF applied = {} THEN {} ELSE {Greatest(applied)}

(* up: the listed files that are not recorded. rollback: the last one that is. *)
Pending(s) ==
    LET applied == session[s].files \intersect recorded
    IN  IF Cmd(s) = "up" THEN session[s].files \ recorded
        ELSE IF applied = {} THEN {} ELSE {Greatest(applied)}

(* SELECT version FROM _karbon_migrations, once per invocation. *)
Select(s) ==
    /\ session[s].pc = "select"
    /\ IF Pending(s) = {} THEN Stop(s)
       ELSE session' = [session EXCEPT ![s].pc = "read", ![s].todo = Pending(s)]
    /\ UNCHANGED <<dir, schema, recorded, trouble, half>>

(* On to the next file, or done. *)
NextFile(s) ==
    LET rest == session[s].todo \ {At(s)}
    IN  IF rest = {} THEN Stop(s)
        ELSE session' = [session EXCEPT ![s].pc = "read", ![s].todo = rest, ![s].k = 1]

Script(s) == IF Cmd(s) = "up" THEN Up[At(s)] ELSE Down[At(s)]

(* The file is gone since it was listed, or has no down section: an error. *)
CannotRead(s) ==
    /\ session[s].pc = "read"
    /\ At(s) \notin dir \/ Script(s) = NoSection
    /\ Stop(s)
    /\ UNCHANGED <<dir, schema, recorded, trouble, half>>

(* An empty up section is skipped and not recorded; an empty down section forgets. *)
Read(s) ==
    /\ session[s].pc = "read"
    /\ At(s) \in dir
    /\ Script(s) # NoSection
    /\ IF Script(s) > 0 THEN Goto(s, "execute")
       ELSE IF Cmd(s) = "up" THEN NextFile(s) ELSE Goto(s, "forget")
    /\ UNCHANGED <<dir, schema, recorded, trouble, half>>

(* What the statement at hand creates (up) or drops (down). *)
Object(s) == LET k == session[s].k
             IN  <<At(s), IF Cmd(s) = "up" THEN k ELSE Up[At(s)] + 1 - k>>

Refused(s) == At(s) \in Strict /\ (Cmd(s) = "up" <=> Object(s) \in schema)

Tracking(s) == IF Cmd(s) = "up" THEN "record" ELSE "forget"

Execute(s) ==
    /\ session[s].pc = "execute"
    /\ ~Refused(s)
    /\ schema' = IF Cmd(s) = "up" THEN schema \union {Object(s)} ELSE schema \ {Object(s)}
    /\ session' = [session EXCEPT
                      ![s].k = @ + 1,
                      ![s].pc = IF session[s].k = Script(s) THEN Tracking(s) ELSE @]
    /\ UNCHANGED <<dir, recorded, trouble, half>>

(* A rollback that stops with the version still recorded and part of it undone. *)
Halves(s) == half' = IF Running(s) /\ Cmd(s) = "rollback" /\ session[s].k > 1
                     THEN half \union {At(s)} ELSE half

ExecuteFails_GoesOn(s) ==
    /\ session[s].pc = "execute"
    /\ Refused(s)
    /\ NextFile(s)
    /\ Halves(s)
    /\ UNCHANGED <<dir, schema, recorded, trouble>>

ExecuteFails_Swallowed(s) ==
    /\ session[s].pc = "execute"
    /\ Refused(s)
    /\ Goto(s, Tracking(s))
    /\ UNCHANGED <<dir, schema, recorded, trouble, half>>

(* The first error ends the invocation. *)
ExecuteFails(s) ==
    /\ session[s].pc = "execute"
    /\ Refused(s)
    /\ Stop(s)
    /\ Halves(s)
    /\ UNCHANGED <<dir, schema, recorded, trouble>>

(* INSERT into the tracking table: refused for an unsafe name, which is only checked   *)
(* here, after the script ran, and for a version another invocation recorded meanwhile.*)
Record(s) ==
    /\ session[s].pc = "record"
    /\ IF At(s) \in Unsafe \union recorded
       THEN Stop(s) /\ UNCHANGED recorded
       ELSE recorded' = recorded \union {At(s)} /\ NextFile(s)
    /\ UNCHANGED <<dir, schema, trouble, half>>

Forget(s) ==
    /\ session[s].pc = "forget"
    /\ recorded' = recorded \ {At(s)}
    /\ half' = half \ {At(s)}
    /\ Stop(s)
    /\ UNCHANGED <<dir, schema, trouble>>

(* A query fails, or the process is killed: between any two statements. *)
Breaks(s) ==
    /\ Running(s)
    /\ trouble' = trouble \union {"fault"}
    /\ Halves(s)
    /\ Stop(s)
    /\ UNCHANGED <<dir, schema, recorded>>

Migrate(s) == \/ \E cmd \in {"up", "rollback"} : Begin(s, cmd)
              \/ Select(s) \/ CannotRead(s) \/ Read(s) \/ Execute(s)
              \/ ExecuteFails(s) \/ Record(s) \/ Forget(s) \/ Breaks(s)

(* A file is added to the directory or removed from it. *)
ChangeDir(v) ==
    /\ dir' = IF v \in dir THEN dir \ {v} ELSE dir \union {v}
    /\ UNCHANGED <<schema, recorded, session, trouble, half>>

Next == \/ \E s \in Sessions : Migrate(s)
        \/ \E v \in Late : ChangeDir(v)

Spec == Init /\ [][Next]_vars

-----------------------------------------------------------------------------------
(* Properties. *)

Session == {Idle} \union
           [pc : {"select", "read", "execute", "record", "forget"},
            cmd : {"up", "rollback"}, files : SUBSET Versions,
            todo : SUBSET Versions, k : Nat]

Objects == {o \in Versions \X Nat : o[2] \in 1 .. Up[o[1]]}

TypeOK == /\ dir \subseteq Versions
          /\ schema \subseteq Objects
          /\ recorded \subseteq Versions
          /\ session \in [Sessions -> Session]
          /\ \A s \in Sessions : session[s].pc \in {"read", "execute", "record", "forget"}
                                     => session[s].todo # {}
          /\ trouble \subseteq {"overlap", "mixed", "fault"}
          /\ half \subseteq Versions

Applied(v) == \A k \in 1 .. Up[v] : <<v, k>> \in schema

(* The version an invocation is rolling back: part of it may be undone already. *)
Undoing(s) == IF session[s].pc \in {"execute", "forget"} /\ Cmd(s) = "rollback"
              THEN {At(s)} ELSE {}

(* The tracking table never claims more than was executed: whatever overlaps or       *)
(* breaks, a recorded version has all its statements in effect - unless a rollback    *)
(* ran at the same time as another invocation, is under way, or stopped half-way.     *)
RecordedIsApplied ==
    "mixed" \notin trouble =>
        \A v \in recorded \ (half \union UNION {Undoing(s) : s \in Sessions}) : Applied(v)

(* Files run in the order of their names: a statement of a file only runs when all    *)
(* earlier files of the listing that hold any are recorded, also when several         *)
(* invocations work through the same list.                                            *)
InOrder ==
    "mixed" \notin trouble =>
        \A s \in Sessions :
            session[s].pc = "execute" /\ Cmd(s) = "up" =>
                \A u \in session[s].files : u < At(s) /\ Up[u] > 0 => u \in recorded

(* "each file runs exactly once": no statement runs a second time without a rollback  *)
(* between - as long as no invocation overlapped another or broke off, and for names  *)
(* that can be recorded.                                                              *)
RunsOnce ==
    trouble = {} =>
        \A s \in Sessions :
            session[s].pc = "execute" /\ Cmd(s) = "up" /\ At(s) \notin Unsafe
                => Object(s) \notin schema
==================================================================================
