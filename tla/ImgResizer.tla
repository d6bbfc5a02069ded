-------------------------------- MODULE ImgResizer --------------------------------
(* On-the-fly resizing of one source image: handle_resize of karbon-framework/src/    *)
(* storage/img_resizer.rs with ImageProcessor::process and save of storage/           *)
(* thumbnail.rs. Requests look the variant up in the cache directory, wait for one of *)
(* max_concurrent slots, and process the image on a blocking thread, which the        *)
(* departure of the client does not stop. Variants are written in place.              *)
EXTENDS Naturals, Sequences, FiniteSets, TokioSemaphore

CONSTANTS Requests,       \* requests of valid canonical specs for the image
          Specs,          \* the variants they ask for
          MaxConcurrent,  \* max_concurrent, at least 1
          MaxVariants,    \* max_variants_per_file, at least 1
          MaxUpdates      \* bound on the replacements of the source image

ResizerAssumption == /\ MaxConcurrent \in Nat \ {0}
                     /\ MaxVariants \in Nat \ {0}
                     /\ MaxUpdates \in Nat

VARIABLES source,   \* the version of the source image; its mtime grows with it
          file,     \* per spec: the variant in the cache directory
          failed,   \* per spec: the .failed marker
          sem,      \* permits
          req,      \* per request: where its handler is, its spec and its answer
          thread,   \* per request: its blocking task
          gone      \* history: the specs whose client left while the task ran

vars == <<source, file, failed, sem, req, thread, gone>>

NoFile == [state |-> "absent"]

(* A file is whole once the task that created it last (by) wrote it to its end; mtime  *)
(* is the version of the source at the last write.                                     *)
File == {NoFile} \union [state : {"partial", "whole"}, by : Requests, mtime : 0 .. MaxUpdates]

Init == /\ source = 0
        /\ file = [s \in Specs |-> NoFile]
        /\ failed = [s \in Specs |-> [state |-> "absent"]]
        /\ sem = NewSemaphore(MaxConcurrent)
        /\ req = [r \in Requests |-> [pc |-> "new"]]
        /\ thread = [r \in Requests |-> "none"]
        /\ gone = {}

At(r, pc) == req[r].pc = pc

Go(r, pc) == req' = [req EXCEPT ![r] = [pc |-> pc, spec |-> req[r].spec]]

Answer(r, what) == req' = [req EXCEPT ![r] = [pc |-> "answered", answer |-> what]]

Exists(f) == f.state # "absent"

(* newer_or_same(a, source_path) *)
Fresh(f) == Exists(f) /\ f.mtime >= source

(* The directory count of the cap: every entry that is not a .failed marker. *)
Variants == {s \in Specs : Exists(file[s])}

(* Cached, known to fail, or - when the variant is new - one too many; a request that  *)
(* is none of these asks for a slot.                                                   *)
Check(r, s) ==
    /\ At(r, "new")
    /\ \/ /\ Fresh(file[s])
          /\ req' = [req EXCEPT ![r] = [pc |-> "serve", spec |-> s]]
          /\ UNCHANGED sem
       \/ /\ ~Fresh(file[s]) /\ Fresh(failed[s])
          /\ req' = [req EXCEPT ![r] = [pc |-> "original", spec |-> s]]
          /\ UNCHANGED sem
       \/ /\ ~Fresh(file[s]) /\ ~Fresh(failed[s])
          /\ ~Exists(file[s]) /\ Cardinality(Variants) >= MaxVariants
          /\ Answer(r, "too many variants")
          /\ UNCHANGED sem
       \/ /\ ~Fresh(file[s]) /\ ~Fresh(failed[s])
          /\ Exists(file[s]) \/ Cardinality(Variants) < MaxVariants
          /\ req' = [req EXCEPT ![r] = [pc |-> "wait", spec |-> s]]
          /\ sem' = Acquire(sem, r)
    /\ UNCHANGED <<source, file, failed, thread, gone>>

(* The slot is there: the blocking task is spawned. The cache is not looked at again.  *)
Process(r) == /\ At(r, "wait") /\ r \in sem.held
              /\ Go(r, "process")
              /\ thread' = [thread EXCEPT ![r] = "decode"]
              /\ UNCHANGED <<source, file, failed, sem, gone>>

(* 15 s without a slot: 503. *)
Busy(r) == /\ At(r, "wait") /\ r \notin sem.held
           /\ Answer(r, "busy")
           /\ sem' = LeaveLine(sem, r)
           /\ UNCHANGED <<source, file, failed, thread, gone>>

-----------------------------------------------------------------------------------
(* The blocking task. *)

(* The spec a task works on: its handler may have been dropped since. *)
Thread(r, state) == thread' = [thread EXCEPT ![r] = state]

(* File::create truncates what is there. *)
Create(r, s) == /\ thread[r] = "decode"
                /\ At(r, "process") \/ At(r, "left")
                /\ req[r].spec = s
                /\ file' = [file EXCEPT ![s] = [state |-> "partial", by |-> r,
                                                mtime |-> source]]
                /\ Thread(r, "write")
                /\ UNCHANGED <<source, failed, sem, req, gone>>

Mine(r, s) == Exists(file[s]) /\ file[s].by = r

(* The last byte is written; a file that was removed or truncated since is another's.  *)
Written(r) == LET s == req[r].spec
              IN  /\ thread[r] = "write"
                  /\ file' = IF Mine(r, s)
                             THEN [file EXCEPT ![s] = [state |-> "whole", by |-> r,
                                                       mtime |-> source]]
                             ELSE file
                  /\ Thread(r, "ok")
                  /\ UNCHANGED <<source, failed, sem, req, gone>>

(* Decoding, encoding or writing fails, or panics. *)
Breaks(r, how) == /\ thread[r] \in {"decode", "write"}
                  /\ Thread(r, how)
                  /\ UNCHANGED <<source, file, failed, sem, req, gone>>

-----------------------------------------------------------------------------------
(* The handler again: the task's result, then the answer, with the slot until then.    *)

Collected(r) == At(r, "process") /\ thread' = [thread EXCEPT ![r] = "none"]

GiveBack(r) == IF r \in sem.held THEN Release(sem, r) ELSE LeaveLine(sem, r)

Succeeded(r) == /\ thread[r] = "ok" /\ Collected(r)
                /\ Go(r, "serve")
                /\ UNCHANGED <<source, file, failed, sem, gone>>

RemoveFile(s) == file' = [file EXCEPT ![s] = NoFile]

MarkFailed(s) == failed' = [failed EXCEPT ![s] = [state |-> "whole", mtime |-> source]]

Failed_LeavesFile(r) == /\ thread[r] = "err" /\ Collected(r)
                        /\ MarkFailed(req[r].spec)
                        /\ Go(r, "original")
                        /\ UNCHANGED <<source, file, sem, gone>>

(* An error removes the variant, leaves the marker and serves the original. *)
Failed(r) == /\ thread[r] = "err" /\ Collected(r)
             /\ RemoveFile(req[r].spec)
             /\ MarkFailed(req[r].spec)
             /\ Go(r, "original")
             /\ UNCHANGED <<source, sem, gone>>

Panicked(r) == /\ thread[r] = "panic" /\ Collected(r)
               /\ RemoveFile(req[r].spec)
               /\ Go(r, "original")
               /\ UNCHANGED <<source, failed, sem, gone>>

(* serve_file reads what is there by then. *)
Found(f) == CASE f.state = "absent" -> "not found"
              [] f.state = "partial" -> "torn"
              [] f.state = "whole" -> "variant"

Serve_KeepsSlot(r) ==
    /\ \/ At(r, "serve") /\ Answer(r, Found(file[req[r].spec]))
       \/ At(r, "original") /\ Answer(r, "original")
    /\ UNCHANGED <<source, file, failed, sem, thread, gone>>

Serve(r) == /\ \/ At(r, "serve") /\ Answer(r, Found(file[req[r].spec]))
               \/ At(r, "original") /\ Answer(r, "original")
            /\ sem' = GiveBack(r)
            /\ UNCHANGED <<source, file, failed, thread, gone>>

(* The client closes the connection: its handler is dropped at its await. A waiting    *)
(* one leaves the line or gives its slot back; a blocking task goes on without it.     *)
ClientLeaves(r) ==
    \/ /\ At(r, "wait") \/ At(r, "serve") \/ At(r, "original")
       /\ sem' = GiveBack(r)
       /\ Answer(r, "nobody")
       /\ UNCHANGED <<source, file, failed, thread, gone>>
    \/ /\ At(r, "process")
       /\ sem' = GiveBack(r)
       /\ Go(r, "left")
       /\ gone' = gone \union {req[r].spec}
       /\ UNCHANGED <<source, file, failed, thread>>

(* The result of a task without a handler is dropped. *)
Orphaned(r) == /\ At(r, "left") /\ thread[r] \in {"ok", "err", "panic"}
               /\ Answer(r, "nobody")
               /\ Thread(r, "none")
               /\ UNCHANGED <<source, file, failed, sem, gone>>

UpdateSource == /\ source < MaxUpdates
                /\ source' = source + 1
                /\ UNCHANGED <<file, failed, sem, req, thread, gone>>

Next == \/ \E r \in Requests :
              \/ \E s \in Specs : Check(r, s) \/ Create(r, s)
              \/ \E how \in {"err", "panic"} : Breaks(r, how)
              \/ Process(r) \/ Busy(r) \/ Written(r) \/ Succeeded(r) \/ Failed(r)
              \/ Panicked(r) \/ Serve(r) \/ ClientLeaves(r) \/ Orphaned(r)
        \/ UpdateSource

Spec == Init /\ [][Next]_vars

-----------------------------------------------------------------------------------
(* Properties. *)

TypeOK == /\ source \in 0 .. MaxUpdates
          /\ file \in [Specs -> File]
          /\ failed \in [Specs -> {[state |-> "absent"]}
                                  \union [state : {"whole"}, mtime : 0 .. MaxUpdates]]
          /\ sem \in [free : Nat, held : SUBSET Requests, line : Seq(Requests)]
          /\ req \in [Requests -> {[pc |-> "new"]}
                         \union [pc : {"serve", "original", "wait", "process", "left"}, spec : Specs]
                         \union [pc : {"answered"},
                                 answer : {"variant", "original", "too many variants", "busy",
                                           "torn", "not found", "nobody"}]]
          /\ thread \in [Requests -> {"none", "decode", "write", "ok", "err", "panic"}]
          /\ gone \subseteq Specs

(* A slot is free or held by a handler that goes on, waits for its task or answers:      *)
(* timeouts that race with a slot, failures, panics and lost clients leak none.         *)
SlotsConserved ==
    /\ sem.free + Cardinality(sem.held) = MaxConcurrent
    /\ \A r \in sem.held : req[r].pc \in {"wait", "process", "serve", "original"}
    /\ \A r \in Requests : At(r, "process") => r \in sem.held

Working(r) == thread[r] # "none"

(* A half-written variant does not stay in the cache: when no task works on the spec    *)
(* any more, its file is whole or removed - unless the client of a task had left, whose *)
(* failure nobody cleans up.                                                            *)
NoDebris ==
    \A s \in Specs \ gone :
        file[s].state = "partial" => \E r \in Requests : Working(r) /\ req[r].spec = s
==================================================================================
