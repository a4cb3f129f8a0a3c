---------------------------- MODULE LocalIndexer ----------------------------
(******************************************************************************)
(* The command that indexes a directory (internal/crawler/local.go and its    *)
(* caller in cmd/lightlimbs/main.go): a walk that fills a queue, workers that *)
(* read, compare and index files, and the removal of documents whose file     *)
(* was not seen.  Each pass is a process of its own, which may die; files     *)
(* change at any time.                                                        *)
(*                                                                            *)
(* A version stands for a file's bytes, its text and its hash.  The engine is *)
(* the version it holds of each file.  The files are those that the walk may  *)
(* take: a file that is empty, over the size limit (local.go:197) or outside  *)
(* the patterns is to it as one that is not there.  Left out: links, counts.  *)
(******************************************************************************)
EXTENDS Integers, FiniteSets, Sequences

CONSTANTS
    File, Worker,
    Versions,        \* of a file's bytes
    Readable,        \* those the extractor can read
    QueueCap,
    MaxEdits, MaxPasses      \* bounds

LocalIndexerAssumption ==
    /\ Versions \subseteq Nat \ {0} /\ Readable \subseteq Versions
    /\ QueueCap \in Nat \ {0} /\ MaxEdits \in Nat /\ MaxPasses \in Nat

VARIABLES
    disk,                 \* 0 where there is no file
    stored, indexed,      \* what the store and the engine hold of each file
    pass, mode,           \* where the pass is, and whether it may write
    walk, queue, worker,  \* files to visit, files handed out, files at the workers
    active,               \* the files some worker has dealt with
    leftovers,            \* the documents listed, that are still to be compared
    calm, torn,           \* history: no error or change in this pass; text and hash of different versions
    edits, passes

engineVars == <<stored, indexed>>
walkVars == <<walk, queue, worker, active, leftovers>>
vars == <<disk, engineVars, pass, mode, walkVars, calm, torn, edits, passes>>

NoDoc == [body |-> 0, hash |-> 0]
Free == [step |-> "free", file |-> CHOOSE f \in File : TRUE, data |-> 0]
Version == Versions \cup {0}
At(w, step) == worker[w].step = step
File1(w) == worker[w].file

\* Somebody writes or removes a file.
Edit(f) ==
    /\ edits < MaxEdits
    /\ \E v \in Version : v # disk[f] /\ disk' = [disk EXCEPT ![f] = v]
    /\ edits' = edits + 1 /\ calm' = FALSE
    /\ UNCHANGED <<engineVars, pass, mode, walkVars, torn, passes>>

\* A new process indexes what its store holds, then starts the workers and the walk.
Begin ==
    /\ pass = "idle" /\ passes < MaxPasses
    /\ passes' = passes + 1 /\ pass' = "walk"
    /\ mode' \in {"write", "dryRun", "noIndex"}
    /\ indexed' = [f \in File |-> stored[f].body]
    /\ walk' = File /\ queue' = << >> /\ active' = {} /\ leftovers' = {}
    /\ worker' = [w \in Worker |-> Free] /\ calm' = TRUE
    /\ UNCHANGED <<disk, stored, torn, edits>>

\* filepath.Walk: a file that is not there, or may not be entered, is passed over.
Walk(f) ==
    /\ pass = "walk" /\ f \in walk
    /\ walk' = walk \ {f}
    /\ \/ disk[f] # 0 /\ Len(queue) < QueueCap /\ queue' = Append(queue, f) /\ UNCHANGED calm
       \/ disk[f] = 0 /\ UNCHANGED <<queue, calm>>
       \/ disk[f] # 0 /\ UNCHANGED queue /\ calm' = FALSE
    /\ UNCHANGED <<disk, engineVars, pass, mode, worker, active, leftovers, torn, edits, passes>>

\* Any other error ends the walk, and with it the pass.
WalkFails ==
    /\ pass = "walk" /\ walk # {}
    /\ walk' = {} /\ calm' = FALSE /\ pass' = "failing"
    /\ UNCHANGED <<disk, engineVars, mode, queue, worker, active, leftovers, torn, edits, passes>>

Take(w) ==
    /\ pass \in {"walk", "failing"} /\ At(w, "free") /\ queue # << >>
    /\ worker' = [worker EXCEPT ![w] = [step |-> "read", file |-> Head(queue), data |-> 0]]
    /\ queue' = Tail(queue)
    /\ UNCHANGED <<disk, engineVars, pass, mode, walk, active, leftovers, calm, torn, edits, passes>>

\* Mutant: only what was indexed counts as seen.
SeenIfIndexed(w, indexedNow) == active' = IF indexedNow THEN active \cup {File1(w)} ELSE active

\* Every file that could be read counts as seen, an unchanged or unsupported one too.
Seen(w, indexedNow) == active' = active \cup {File1(w)}

\* Nobody else writes the document of a file, so reading it, comparing its hash with
\* that in the store and extracting its text are one step.
Read(w) ==
    /\ At(w, "read")
    /\ \/ /\ disk[File1(w)] # 0
          /\ LET v == disk[File1(w)] IN
             IF (mode # "dryRun" /\ stored[File1(w)].hash = v) \/ v \notin Readable \/ mode # "write"
             THEN Seen(w, FALSE) /\ worker' = [worker EXCEPT ![w] = Free]
             ELSE worker' = [worker EXCEPT ![w].step = "index", ![w].data = v] /\ UNCHANGED active
          /\ UNCHANGED calm
       \/ worker' = [worker EXCEPT ![w] = Free] /\ calm' = FALSE /\ UNCHANGED active
    /\ UNCHANGED <<disk, engineVars, pass, mode, walk, queue, leftovers, torn, edits, passes>>

\* IndexDocumentWithSource ends by saving the text, which leaves the hash of what it
\* replaces; errors of the store are dropped here and below.
Index(w) ==
    /\ At(w, "index")
    /\ indexed' = [indexed EXCEPT ![File1(w)] = worker[w].data]
    /\ \/ /\ stored' = [stored EXCEPT ![File1(w)].body = worker[w].data]
          /\ torn' = IF stored[File1(w)].hash # 0 THEN torn \cup {File1(w)} ELSE torn
          /\ UNCHANGED calm
       \/ UNCHANGED <<stored, torn>> /\ calm' = FALSE
    /\ worker' = [worker EXCEPT ![w].step = "upsert"]
    /\ UNCHANGED <<disk, pass, mode, walk, queue, active, leftovers, edits, passes>>

Upsert(w) ==
    /\ At(w, "upsert")
    /\ \/ /\ stored' = [stored EXCEPT ![File1(w)] = [body |-> worker[w].data, hash |-> worker[w].data]]
          /\ torn' = torn \ {File1(w)} /\ UNCHANGED calm
       \/ UNCHANGED <<stored, torn>> /\ calm' = FALSE
    /\ Seen(w, TRUE)
    /\ worker' = [worker EXCEPT ![w] = Free]
    /\ UNCHANGED <<disk, indexed, pass, mode, walk, queue, leftovers, edits, passes>>

AllDone == queue = << >> /\ \A w \in Worker : At(w, "free")

\* The documents of the directory, read once.  A store that cannot list them, and a
\* pass that may not write, remove nothing.
List ==
    /\ pass = "walk" /\ walk = {} /\ AllDone
    /\ \/ /\ mode = "write"
          /\ leftovers' = {f \in File : stored[f] # NoDoc} /\ pass' = "reconcile" /\ UNCHANGED calm
       \/ UNCHANGED leftovers /\ pass' = "end" /\ calm' = FALSE
    /\ UNCHANGED <<disk, engineVars, mode, walk, queue, worker, active, torn, edits, passes>>

\* What no worker has seen leaves the index, and is given an expiry that has passed.
Reconcile(f) ==
    /\ pass = "reconcile" /\ f \in leftovers
    /\ leftovers' = leftovers \ {f}
    /\ IF f \in active THEN UNCHANGED <<engineVars, calm, torn>>
       ELSE /\ indexed' = [indexed EXCEPT ![f] = 0]
            /\ \/ stored' = [stored EXCEPT ![f] = NoDoc] /\ torn' = torn \ {f} /\ UNCHANGED calm
               \/ UNCHANGED <<stored, torn>> /\ calm' = FALSE
    /\ UNCHANGED <<disk, pass, mode, walk, queue, worker, active, edits, passes>>

Reconciled ==
    /\ pass = "reconcile" /\ leftovers = {}
    /\ pass' = "end"
    /\ UNCHANGED <<disk, engineVars, mode, walkVars, calm, torn, edits, passes>>

WalkFailed ==
    /\ pass = "failing" /\ AllDone
    /\ pass' = "end"
    /\ UNCHANGED <<disk, engineVars, mode, walkVars, calm, torn, edits, passes>>

\* The process ends after a pass, or dies in it.
Exit ==
    /\ pass # "idle"
    /\ pass' = "idle" /\ calm' = FALSE
    /\ mode' = "write" /\ walk' = {} /\ queue' = << >> /\ active' = {} /\ leftovers' = {}
    /\ worker' = [w \in Worker |-> Free]
    /\ indexed' = [f \in File |-> 0]
    /\ UNCHANGED <<disk, stored, torn, edits, passes>>

Init ==
    /\ disk \in [File -> Versions \cup {0}]
    /\ stored = [f \in File |-> NoDoc] /\ indexed = [f \in File |-> 0]
    /\ pass = "idle" /\ mode = "write" /\ walk = {} /\ queue = << >> /\ active = {} /\ leftovers = {}
    /\ worker = [w \in Worker |-> Free] /\ calm = FALSE /\ torn = {} /\ edits = 0 /\ passes = 0

Next ==
    \/ \E f \in File : Edit(f) \/ Walk(f) \/ Reconcile(f)
    \/ \E w \in Worker : Take(w) \/ Read(w) \/ Index(w) \/ Upsert(w)
    \/ Begin \/ WalkFails \/ List \/ Reconciled \/ WalkFailed \/ Exit

Spec == Init /\ [][Next]_vars

-----------------------------------------------------------------------------
\* After a pass without errors or changes in between, store and engine hold of each
\* file what is on the disk, and nothing of files that are gone, but for a file the
\* extractor cannot read and one that an interrupted pass has left with the hash of
\* another version (IndexDirectory).
PassMirrors ==
    pass = "end" /\ calm =>
        \A f \in File : disk[f] \in Readable \cup {0} /\ f \notin torn =>
            stored[f] = [body |-> disk[f], hash |-> disk[f]] /\ indexed[f] = disk[f]
=============================================================================
