----------------------------- MODULE DocStore -----------------------------
(****************************************************************************)
(* What the interface DocumentStore (store.go) promises of any driver: each *)
(* place where documents are kept holds at most one document of a URL, and  *)
(* a call or a restart changes it in one step or not at all.  Stores shows  *)
(* that the four drivers keep this promise, and where they do not.          *)
(****************************************************************************)
EXTENDS Integers

CONSTANTS
    Url, Doc,    \* a document is a record with a url, a source and an expiry
    Backend,     \* the places documents are kept in
    Volatile,    \* those that a restart empties
    Torn,        \* those that are rewritten as a whole
    Initially    \* the documents of each place at first

VARIABLES
    docs,        \* the set of documents of each place
    now,
    faulty       \* the places whose medium has just failed

Init == docs = Initially /\ now = 0 /\ faulty = {}

\* The documents of one place change.
Becomes(b, set) == docs' = [docs EXCEPT ![b] = set]

\* Save and UpsertDocument: one document takes the place of its old version.
Put(b) ==
    \E d \in docs'[b] \ docs[b] : Becomes(b, {e \in docs[b] : e.url # d.url} \cup {d})

\* DeleteExpired: all that had expired when the call looked, and nothing else.
Expire(b) ==
    \E time \in 0..now : Becomes(b, {d \in docs[b] : d.expires > time})

\* DeleteCrawledDocument: the documents of that URL or source.
Delete(b) ==
    \E url \in Url : Becomes(b, {d \in docs[b] : url \notin {d.url, d.source}})

\* Close empties a store that lives in memory.
Close(b) == b \in Volatile /\ Becomes(b, {})

\* The exception: the medium fails a call, and until that call or the process
\* ends the store may lose anything.
Fail(b)    == b \in Torn /\ faulty' = faulty \cup {b}
Recover(b) == faulty' = faulty \ {b}
Rewrite(b) ==
    /\ b \in faulty
    /\ Becomes(b, docs'[b])
    /\ faulty' \in {faulty, faulty \ {b}}

Restart ==
    /\ docs' = [b \in Backend |-> IF b \in Volatile THEN {} ELSE docs[b]]
    /\ faulty' = {}

Tick == now' = now + 1

Next ==
    \/ /\ \E b \in Backend : Put(b) \/ Expire(b) \/ Delete(b) \/ Close(b)
       /\ UNCHANGED <<now, faulty>>
    \/ (\E b \in Backend : Fail(b) \/ Recover(b)) /\ UNCHANGED <<docs, now>>
    \/ (\E b \in Backend : Rewrite(b)) /\ UNCHANGED now
    \/ Restart /\ UNCHANGED now
    \/ Tick /\ UNCHANGED <<docs, faulty>>

Spec == Init /\ [][Next]_<<docs, now, faulty>>
=============================================================================
