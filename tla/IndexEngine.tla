---------------------------- MODULE IndexEngine ----------------------------
(****************************************************************************)
(* The index engine of internal/index: metadata shards, inverted index,     *)
(* vectors, trie and the chunks of each document, each behind a mutex of    *)
(* its own; requests that index and delete documents; the janitor that      *)
(* rebuilds everything from the document store; snapshots on disk and the   *)
(* start of cmd/lightlimbs from them.                                       *)
(*                                                                          *)
(* A request is a sequence of steps, one per mutex it takes: its todo list. *)
(* A document's text is a version number; version v has the terms 0 (in all *)
(* documents) and v, and one chunk if it is Long.  The store is the one of  *)
(* module Stores, reduced to the version it holds of each URL; 0 is none.   *)
(****************************************************************************)
EXTENDS Integers, FiniteSets, Sequences, SequencesExt

CONSTANTS
    Url, Request,
    MaxVersion, Long,             \* versions of a document; those with a chunk
    Scripts,                      \* bounds: the requests that are made, in order,
    Together,                     \* the pairs of them that may run at once,
    MaxWork, MaxStarts            \* how many there are with the starts, starts of the process

IndexEngineAssumption ==
    /\ IsFiniteSet(Url)
    /\ MaxVersion \in Nat \ {0} /\ Long \subseteq 1..MaxVersion
    /\ MaxWork \in Nat /\ MaxStarts \in Nat \ {0}

VARIABLES
    inv, vec, trie, shards, parentChunks,   \* the engine
    store,        \* the document store
    request,      \* what each request still has to do
    janitor,      \* the janitor: its step, the documents it has read
    snapshot,     \* the two files on disk
    phase,        \* of the process: "down", "hydrating", "up", "stopping"
    ops, starts,
    astray        \* history: URLs whose index and store may disagree, see Agrees

engineVars == <<inv, vec, trie, shards, parentChunks>>
vars == <<engineVars, store, request, janitor, snapshot, phase, ops, starts, astray>>

Version == 0..MaxVersion
Id == Url \X {0, 1}
Doc(u) == <<u, 0>>
Chunks(u, v) == IF v \in Long THEN {<<u, 1>>} ELSE {}
Ids(u, v) == {Doc(u)} \cup Chunks(u, v)
Terms(v) == {0, v}
None == [id \in Id |-> 0]

-----------------------------------------------------------------------------
(* The inverted index: the version behind each posting, the lengths it knows *)
(* (again by version), their count, and the terms whose docIndex is nil.     *)

NewInvertedIndex ==
    [post |-> [t \in Version |-> None], len |-> None, docs |-> 0, blind |-> {}]

\* Mutant: a document that is there is counted again.
AddAgain(i, id, v) ==
    [i EXCEPT !.post = [t \in Version |-> IF t \in Terms(v) THEN [@[t] EXCEPT ![id] = v] ELSE @[t]],
              !.len[id] = v, !.docs = @ + 1, !.blind = @ \ Terms(v)]

AddDocument(i, id, v) ==
    [post  |-> [t \in Version |-> IF t \in Terms(v) THEN [i.post[t] EXCEPT ![id] = v] ELSE i.post[t]],
     len   |-> [i.len EXCEPT ![id] = v],
     docs  |-> IF i.len[id] = 0 THEN i.docs + 1 ELSE i.docs,
     blind |-> i.blind \ Terms(v)]

\* A posting is found by docIndex, which LoadSnapshot leaves nil.
DeleteDocument(i, id) ==
    IF i.len[id] = 0 THEN i
    ELSE [i EXCEPT !.post = [t \in Version |-> IF t \in i.blind THEN @[t] ELSE [@[t] EXCEPT ![id] = 0]],
                   !.len[id] = 0, !.docs = @ - 1]

LoadSnapshot(i) == [i EXCEPT !.blind = Version]

\* The index a rebuild makes of the documents it has read.
Holds(docs, id) == id \in Ids(id[1], docs[id[1]]) /\ docs[id[1]] # 0
VersionOf(docs) == [id \in Id |-> IF Holds(docs, id) THEN docs[id[1]] ELSE 0]
Built(docs) ==
    [post  |-> [t \in Version |-> [id \in Id |-> IF t \in Terms(VersionOf(docs)[id]) THEN VersionOf(docs)[id] ELSE 0]],
     len   |-> VersionOf(docs),
     docs  |-> Cardinality({id \in Id : Holds(docs, id)}),
     blind |-> {}]
BuiltTrie(docs) == UNION {Terms(docs[u]) : u \in {x \in Url : docs[x] # 0}}
BuiltParents(docs) == [u \in Url |-> IF docs[u] = 0 THEN {} ELSE Chunks(u, docs[u])]

-----------------------------------------------------------------------------
(* Requests *)

Step(do, id, v) == [do |-> do, id |-> id, v |-> v]
ForAll(do, ids, v) == [i \in 1..Cardinality(ids) |-> Step(do, CHOOSE id \in ids : TRUE, v)]
NoJanitor == [step |-> "idle", docs |-> [u \in Url |-> 0]]
Idle == [op |-> "none", todo |-> << >>, fresh |-> FALSE, url |-> CHOOSE u \in Url : TRUE]

\* Mutant: the chunks stay.
DeleteOnlyDocument(u, chunks) ==
    <<Step("unshard", Doc(u), 0), Step("capture", Doc(u), 0), Step("uninvert", Doc(u), 0),
      Step("unvector", Doc(u), 0)>>

\* Engine.DeleteDocument after it has taken the chunks of the document.
DeleteSteps(u, chunks) ==
    <<Step("unshard", Doc(u), 0), Step("capture", Doc(u), 0), Step("uninvert", Doc(u), 0)>>
    \o ForAll("uninvert", chunks, 0)
    \o <<Step("unvector", Doc(u), 0)>> \o ForAll("unvector", chunks, 0)
    \o ForAll("unshard", chunks, 0)

AddSteps(id, v) ==
    <<Step("shard", id, v), Step("invert", id, v), Step("embed", id, v), Step("vector", id, v)>>

\* IndexDocumentWithSource.
IndexSteps(u, v) ==
    <<Step("forget", Doc(u), 0)>> \o AddSteps(Doc(u), v) \o <<Step("parents", Doc(u), v)>>
    \o (IF v \in Long THEN AddSteps(<<u, 1>>, v) ELSE << >>)
    \o <<Step("save", Doc(u), v)>>

\* IndexDocumentDirectly and IndexDocumentIncrementalByURL: no deletion, no chunks.
DirectSteps(u, v) ==
    <<Step("shard", Doc(u), v), Step("capture", Doc(u), 0), Step("invertCaptured", Doc(u), v),
      Step("embed", Doc(u), v), Step("vector", Doc(u), v)>>

Touches(r, u) == request[r].todo # << >> /\ request[r].url = u
Quiet(u) == \A r \in Request : ~Touches(r, u)

\* Astray: what begins while something else may move the index or the store of u.
Races(u) == ~Quiet(u) \/ janitor.step # "idle"

Begin(r, op, u, todo, apart) ==
    /\ phase = "up" /\ request[r].todo = << >>
    /\ r = CHOOSE free \in Request : request[free].todo = << >>
    /\ Len(ops) + starts < MaxWork
    /\ \E script \in Scripts : IsPrefix(Append(ops, op), script)
    /\ \A other \in Request : request[other].todo # << >> => {op, request[other].op} \in Together
    /\ ops' = Append(ops, op)
    /\ request' = [request EXCEPT ![r] = [op |-> op, todo |-> todo, fresh |-> FALSE, url |-> u]]
    /\ astray' = IF Races(u) \/ apart THEN astray \cup {u} ELSE astray
    /\ UNCHANGED <<engineVars, store, janitor, snapshot, phase, starts>>

\* A scrape, a crawl, a search of the web, the Kafka consumer.
BeginIndex(r) == \E u \in Url, v \in 1..MaxVersion : Begin(r, "index", u, IndexSteps(u, v), FALSE)

\* A file that is gone or an entry of the cluster's log: the store keeps its document.
BeginDelete(r) == \E u \in Url : Begin(r, "delete", u, <<Step("forget", Doc(u), 0)>>, store[u] # 0)

\* An entry of the cluster's log: the store does not get the document.
BeginDirect(r) == \E u \in Url, v \in 1..MaxVersion : Begin(r, "direct", u, DirectSteps(u, v), TRUE)

\* An update that another process has saved and announced.
BeginIncremental(r) ==
    \E u \in Url : store[u] # 0 /\ Begin(r, "incremental", u, DirectSteps(u, store[u]), TRUE)

Now(r, do) == request[r].todo # << >> /\ Head(request[r].todo).do = do
It(r) == Head(request[r].todo)
After(q, todo) == IF todo = << >> THEN Idle ELSE [q EXCEPT !.todo = todo]
Did(r) == request' = [request EXCEPT ![r] = After(request[r], Tail(request[r].todo))]
Rest == <<store, janitor, snapshot, phase, ops, starts, astray>>

Forget(r) ==
    /\ Now(r, "forget")
    /\ LET u == It(r).id[1] IN
       /\ request' = [request EXCEPT ![r].todo = DeleteSteps(u, parentChunks[u]) \o Tail(@)]
       /\ parentChunks' = [parentChunks EXCEPT ![u] = {}]
    /\ UNCHANGED <<inv, vec, trie, shards, Rest>>

Shard(r) ==
    /\ Now(r, "shard") \/ Now(r, "unshard")
    /\ shards' = [shards EXCEPT ![It(r).id] = It(r).v]
    /\ Did(r)
    /\ UNCHANGED <<inv, vec, trie, parentChunks, Rest>>

\* The pointers to the index and the vectors, read under e.mu; a rebuild that
\* replaces them leaves whoever holds them with what nobody reads any more.
Capture(r) ==
    /\ Now(r, "capture")
    /\ request' = [request EXCEPT ![r].todo = Tail(@), ![r].fresh = TRUE]
    /\ UNCHANGED <<engineVars, Rest>>

Uninvert(r) ==
    /\ Now(r, "uninvert")
    /\ inv' = IF request[r].fresh THEN DeleteDocument(inv, It(r).id) ELSE inv
    /\ Did(r)
    /\ UNCHANGED <<vec, trie, shards, parentChunks, Rest>>

\* IndexDocumentWithSource holds e.mu for reading while it adds.
Invert(r) ==
    /\ Now(r, "invert")
    /\ inv' = AddDocument(inv, It(r).id, It(r).v)
    /\ trie' = trie \cup Terms(It(r).v)
    /\ Did(r)
    /\ UNCHANGED <<vec, shards, parentChunks, Rest>>

InvertCaptured(r) ==
    /\ Now(r, "invertCaptured")
    /\ IF request[r].fresh
       THEN inv' = AddDocument(inv, It(r).id, It(r).v) /\ trie' = trie \cup Terms(It(r).v)
       ELSE UNCHANGED <<inv, trie>>
    /\ Did(r)
    /\ UNCHANGED <<vec, shards, parentChunks, Rest>>

\* IndexDocumentVector: the embedder may fail.
Embed(r) ==
    /\ Now(r, "embed")
    /\ \/ request' = [request EXCEPT ![r].todo = Tail(@), ![r].fresh = TRUE]
       \/ request' = [request EXCEPT ![r] = After(request[r], Tail(Tail(request[r].todo)))]
    /\ UNCHANGED <<engineVars, Rest>>

Vector(r) ==
    /\ Now(r, "vector") \/ Now(r, "unvector")
    /\ vec' = IF request[r].fresh THEN [vec EXCEPT ![It(r).id] = It(r).v] ELSE vec
    /\ Did(r)
    /\ UNCHANGED <<inv, trie, shards, parentChunks, Rest>>

Parents(r) ==
    /\ Now(r, "parents")
    /\ parentChunks' = [parentChunks EXCEPT ![It(r).id[1]] = Chunks(It(r).id[1], It(r).v)]
    /\ Did(r)
    /\ UNCHANGED <<inv, vec, trie, shards, Rest>>

\* The error of the store is dropped.
Save(r) ==
    /\ Now(r, "save")
    /\ \/ store' = [store EXCEPT ![It(r).id[1]] = It(r).v] /\ UNCHANGED astray
       \/ astray' = astray \cup {It(r).id[1]} /\ UNCHANGED store
    /\ Did(r)
    /\ UNCHANGED <<engineVars, janitor, snapshot, phase, ops, starts>>

-----------------------------------------------------------------------------
(* The janitor *)

\* DeleteExpiredDocuments; any document may have expired.
Expire ==
    /\ phase = "up" /\ janitor.step = "idle"
    /\ \E gone \in SUBSET {u \in Url : store[u] # 0} :
          /\ store' = [u \in Url |-> IF u \in gone THEN 0 ELSE store[u]]
          /\ astray' = astray \cup gone \cup {u \in Url : ~Quiet(u)}
    /\ janitor' = [janitor EXCEPT !.step = "expired"]
    /\ UNCHANGED <<engineVars, request, snapshot, phase, ops, starts>>

\* LoadFromDB: everything is built apart from the engine.
ReadStore ==
    /\ janitor.step = "expired"
    /\ janitor' = [step |-> "read", docs |-> store]
    /\ UNCHANGED <<engineVars, store, request, snapshot, phase, ops, starts, astray>>

ReadStoreFails ==
    /\ janitor.step = "expired"
    /\ janitor' = NoJanitor
    /\ UNCHANGED <<engineVars, store, request, snapshot, phase, ops, starts, astray>>

\* Mutant: the chunks of the old index are still those of the documents.
SwapKeepsParents ==
    /\ janitor.step = "read"
    /\ inv' = Built(janitor.docs) /\ trie' = BuiltTrie(janitor.docs)
    /\ shards' = VersionOf(janitor.docs) /\ vec' = VersionOf(janitor.docs)
    /\ janitor' = NoJanitor
    /\ request' = [r \in Request |-> [request[r] EXCEPT !.fresh = FALSE]]
    /\ UNCHANGED <<parentChunks, store, snapshot, phase, ops, starts, astray>>

\* There are no vectors while the embedder is out of reach.
Swap ==
    /\ janitor.step = "read"
    /\ inv' = Built(janitor.docs)
    /\ vec' \in {None, VersionOf(janitor.docs)}
    /\ trie' = BuiltTrie(janitor.docs)
    /\ shards' = VersionOf(janitor.docs)
    /\ parentChunks' = BuiltParents(janitor.docs)
    /\ janitor' = NoJanitor
    /\ request' = [r \in Request |-> [request[r] EXCEPT !.fresh = FALSE]]
    /\ astray' = {u \in astray : ~Quiet(u) \/ store[u] # janitor.docs[u]}
    /\ UNCHANGED <<store, snapshot, phase, ops, starts>>

-----------------------------------------------------------------------------
(* The process *)

Hydrating == CHOOSE r \in Request : TRUE
NoFile == [made |-> FALSE, of |-> None]

\* initStorage: the snapshots that can be read, then IndexDocumentDirectly of each
\* stored document; the janitor starts after that.
Start ==
    /\ phase = "down" /\ starts < MaxStarts /\ Len(ops) + starts < MaxWork
    /\ starts' = starts + 1 /\ phase' = "hydrating"
    /\ \E readInv, readVec, readStore \in BOOLEAN :
          /\ inv' = IF readInv /\ snapshot.inv.made THEN LoadSnapshot(snapshot.inv.of) ELSE NewInvertedIndex
          /\ vec' = IF readVec /\ snapshot.vec.made THEN snapshot.vec.of ELSE None
          /\ LET docs == IF readStore THEN SetToSeq({u \in Url : store[u] # 0}) ELSE << >>
                 todo == FlattenSeq([i \in DOMAIN docs |-> DirectSteps(docs[i], store[docs[i]])])
             IN  request' = [request EXCEPT ![Hydrating] = [Idle EXCEPT !.op = "hydrate", !.todo = todo]]
    /\ trie' = {} /\ shards' = None /\ parentChunks' = [u \in Url |-> {}]
    /\ astray' = Url
    /\ UNCHANGED <<store, janitor, snapshot, ops>>

Serve ==
    /\ phase = "hydrating" /\ request[Hydrating].todo = << >>
    /\ phase' = "up"
    /\ UNCHANGED <<engineVars, store, request, janitor, snapshot, ops, starts, astray>>

\* saveStorage at an orderly end: each file is replaced by a rename, and a file that
\* cannot be written stays as it is.  Requests and the janitor still run.
SaveInverted ==
    /\ phase = "up"
    /\ phase' = "stopping"
    /\ \/ snapshot' = [snapshot EXCEPT !.inv = [made |-> TRUE, of |-> inv]]
       \/ UNCHANGED snapshot
    /\ UNCHANGED <<engineVars, store, request, janitor, ops, starts, astray>>

SaveVectors ==
    /\ phase = "stopping"
    /\ phase' = "saved"
    /\ \/ snapshot' = [snapshot EXCEPT !.vec = [made |-> TRUE, of |-> vec]]
       \/ UNCHANGED snapshot
    /\ UNCHANGED <<engineVars, store, request, janitor, ops, starts, astray>>

\* The process ends, orderly or not.
Exit ==
    /\ phase # "down"
    /\ phase' = "down"
    /\ inv' = NewInvertedIndex /\ vec' = None /\ trie' = {}
    /\ shards' = None /\ parentChunks' = [u \in Url |-> {}]
    /\ request' = [r \in Request |-> Idle] /\ janitor' = NoJanitor
    /\ UNCHANGED <<store, snapshot, ops, starts, astray>>

Init ==
    /\ inv = NewInvertedIndex /\ vec = None /\ trie = {}
    /\ shards = None /\ parentChunks = [u \in Url |-> {}]
    /\ store = [u \in Url |-> 0]
    /\ request = [r \in Request |-> Idle] /\ janitor = NoJanitor
    /\ snapshot = [inv |-> [made |-> FALSE, of |-> NewInvertedIndex], vec |-> NoFile]
    /\ phase = "down" /\ ops = << >> /\ starts = 0 /\ astray = {}

Work(r) ==
    Forget(r) \/ Shard(r) \/ Capture(r) \/ Uninvert(r) \/ Invert(r) \/ InvertCaptured(r)
    \/ Embed(r) \/ Vector(r) \/ Parents(r) \/ Save(r)

Next ==
    \/ \E r \in Request :
          BeginIndex(r) \/ BeginDelete(r) \/ BeginDirect(r) \/ BeginIncremental(r) \/ Work(r)
    \/ Expire \/ ReadStore \/ ReadStoreFails \/ Swap
    \/ Start \/ Serve \/ SaveInverted \/ SaveVectors \/ Exit

\* The scheduler runs the goroutines, the ticker ticks, and a store that is asked
\* for ever answers now and then.
Fairness ==
    /\ \A r \in Request : WF_vars(Work(r))
    /\ WF_vars(Serve) /\ WF_vars(Expire) /\ SF_vars(ReadStore) /\ WF_vars(Swap)

Spec == Init /\ [][Next]_vars /\ Fairness

-----------------------------------------------------------------------------
\* What the engine holds of a URL is what a rebuild from the store would make.
Same(u) ==
    LET built == Built(store)
    IN  /\ \A id \in {Doc(u), <<u, 1>>} :
              /\ \A t \in Version : inv.post[t][id] = built.post[t][id]
              /\ inv.len[id] = built.len[id] /\ shards[id] = built.len[id]
              /\ vec[id] \in {0, built.len[id]}
        /\ parentChunks[u] = BuiltParents(store)[u]

\* Index and store agree on every URL that no two writers, no writer and rebuild,
\* no failed save and no deletion or addition to one of them alone has touched
\* since the last rebuild: nothing of an old version stays behind
\* (IndexDocumentWithSource, DeleteDocument, LoadFromDB).
Agrees == \A u \in Url : phase = "up" /\ Quiet(u) /\ u \notin astray => Same(u)

\* The count BM25 divides by is that of the documents with a length, and only a
\* snapshot leaves postings of documents that were deleted (inverted.go).
CountIsRight ==
    /\ inv.docs = Cardinality({id \in Id : inv.len[id] # 0})
    /\ (\A u \in Url : u \notin astray) =>
          \A t \in Version, id \in Id : inv.post[t][id] # 0 => inv.len[id] # 0

\* However requests and rebuilds have raced, once they are over and the process
\* stays up the janitor makes the engine what the store says (StartTTLJanitor).
Mirrors == (\A u \in Url : Same(u)) /\ trie = BuiltTrie(store)
JanitorRepairs == <>[](phase = "up") => <>[]Mirrors
=============================================================================
