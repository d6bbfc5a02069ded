------------------------------ MODULE DevSupervisor -------------------------------
(* karbon dev: run, supervise and reload_backend of karbon-cli/src/commands/dev.rs.    *)
(* One loop watches the modification times of the sources and the two child processes; *)
(* meanwhile files are saved, children die and Ctrl+C is pressed. Starting a binary    *)
(* that was just built is taken to succeed.                                            *)
EXTENDS Naturals

CONSTANTS MaxSaves,  \* bound on the saves; save n gives the sources mtime n
          BadSaves   \* the saves after which the sources do not compile

DevAssumption == MaxSaves \in Nat /\ BadSaves \subseteq 1 .. MaxSaves

VARIABLES source,    \* latest mtime of the watched sources
          last,      \* the mtime the loop has seen
          pc,        \* where the supervisor is
          binary,    \* the save that was built last
          backend,   \* the backend process: none, or running from some save
          frontend,  \* the frontend process
          running,   \* the flag Ctrl+C clears
          first      \* history: the sources' mtime when the watch began

vars == <<source, last, pc, binary, backend, frontend, running, first>>

None == [state |-> "none"]

Process(state, n) == [state |-> state, from |-> n]

Init == /\ source = 0
        /\ last = 0
        /\ pc = "first build"
        /\ binary = 0
        /\ backend = None
        /\ frontend = "none"
        /\ running = TRUE
        /\ first = 0

Compiles == source \notin BadSaves

(* Without a first build there is no session. *)
FirstBuild == /\ pc = "first build"
              /\ IF Compiles THEN pc' = "launch" /\ binary' = source
                 ELSE pc' = "ended" /\ UNCHANGED binary
              /\ UNCHANGED <<source, last, backend, frontend, running, first>>

(* Backend, then the frontend, if the project has one. *)
Launch == /\ pc = "launch"
          /\ backend' = Process("up", binary)
          /\ frontend' \in {"up", "none"}
          /\ pc' = "watch"
          /\ UNCHANGED <<source, last, binary, running, first>>

(* supervise starts: what is on disk now counts as seen. *)
Watch == /\ pc = "watch"
         /\ last' = source
         /\ first' = source
         /\ pc' = "loop"
         /\ UNCHANGED <<source, binary, backend, frontend, running>>

(* One turn of the loop, up to the decision to reload: a dead backend is forgotten and *)
(* waits for a fix.                                                                    *)
Turn == /\ pc = "loop"
        /\ running
        /\ frontend # "dead"
        /\ backend' = IF backend.state = "dead" THEN None ELSE backend
        /\ pc' = IF source > last THEN "debounce" ELSE "loop"
        /\ UNCHANGED <<source, last, binary, frontend, running, first>>

(* After the pause, the sources count as seen before the build reads them, and the     *)
(* backend is killed.                                                                  *)
Debounce == /\ pc = "debounce"
            /\ last' = source
            /\ backend' = None
            /\ pc' = "build"
            /\ UNCHANGED <<source, binary, frontend, running, first>>

Build == /\ pc = "build"
         /\ IF Compiles THEN pc' = "start" /\ binary' = source
            ELSE pc' = "loop" /\ UNCHANGED binary
         /\ UNCHANGED <<source, last, backend, frontend, running, first>>

Start_SeesNow == /\ pc = "start"
                 /\ backend' = Process("up", binary)
                 /\ last' = source
                 /\ pc' = "loop"
                 /\ UNCHANGED <<source, binary, frontend, running, first>>

Start == /\ pc = "start"
         /\ backend' = Process("up", binary)
         /\ pc' = "loop"
         /\ UNCHANGED <<source, last, binary, frontend, running, first>>

(* Ctrl+C was pressed or the frontend exited: both children are killed. *)
End == /\ pc = "loop"
       /\ ~running \/ frontend = "dead"
       /\ backend' = None
       /\ frontend' = "none"
       /\ pc' = "ended"
       /\ UNCHANGED <<source, last, binary, running, first>>

Supervise == FirstBuild \/ Launch \/ Watch \/ Turn \/ Debounce \/ Build \/ Start \/ End

Save == /\ source < MaxSaves
        /\ source' = source + 1
        /\ UNCHANGED <<last, pc, binary, backend, frontend, running, first>>

BackendDies == /\ backend.state = "up"
               /\ backend' = Process("dead", backend.from)
               /\ UNCHANGED <<source, last, pc, binary, frontend, running, first>>

FrontendDies == /\ frontend = "up"
                /\ frontend' = "dead"
                /\ UNCHANGED <<source, last, pc, binary, backend, running, first>>

(* The handler is installed when supervise starts; before that, Ctrl+C ends karbon. *)
CtrlC == /\ pc \in {"loop", "debounce", "build", "start"}
         /\ running
         /\ running' = FALSE
         /\ UNCHANGED <<source, last, pc, binary, backend, frontend, first>>

Next == Supervise \/ Save \/ BackendDies \/ FrontendDies \/ CtrlC

Spec == Init /\ [][Next]_vars

(* The supervisor's thread runs, and cargo returns. *)
FairSpec == Spec /\ WF_vars(Supervise)

-----------------------------------------------------------------------------------
(* Properties. *)

TypeOK == /\ {source, last, binary, first} \subseteq 0 .. MaxSaves
          /\ last <= source
          /\ pc \in {"first build", "launch", "watch", "loop", "debounce", "build", "start",
                     "ended"}
          /\ backend \in {None} \union [state : {"up", "dead"}, from : 0 .. MaxSaves]
          /\ frontend \in {"none", "up", "dead"}
          /\ running \in BOOLEAN

(* "backend recompiles on save": when saves stop at one that compiles, that one is     *)
(* built, also when it was made while an earlier one was being built or while no       *)
(* backend ran - unless the session ends, or the save fell between the first build and *)
(* the start of the watch, where nobody looks.                                         *)
SavesAreBuilt ==
    \A n \in (1 .. MaxSaves) \ BadSaves :
        source = n /\ n > first /\ pc = "loop"
            ~> source > n \/ binary = n \/ pc = "ended"
==================================================================================
