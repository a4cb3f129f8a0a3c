---------------------------- MODULE VectorIndex ----------------------------
(****************************************************************************)
(* The vector index of internal/index (vector.go, quantization.go) and the  *)
(* embedders that fill it (embedder.go): additions, deletions and changes   *)
(* of precision, each under the index's mutex, and restarts from a snapshot *)
(* that may come from an embedder of another length.                        *)
(*                                                                          *)
(* A vector is its length, and 0 stands for nil; a vector that holds NaN is *)
(* Bad.  Left out: the numbers, and with them a vector so long that its     *)
(* float32 form overflows, whose failed normalisation is ignored            *)
(* (vector.go:374-379).                                                     *)
(****************************************************************************)
EXTENDS Integers, FiniteSets, Sequences

CONSTANTS
    Id,
    Lengths,     \* of the vectors an embedder may answer
    MaxSteps     \* bound: operations and restarts

VectorIndexAssumption == Lengths \subseteq Nat \ {0} /\ MaxSteps \in Nat

VARIABLES
    provider,              \* the embedder: who answers, and the length it announces
    dimensions, precision, \* of the index
    vectors,               \* the maps of each precision; Nil where there is none
    file,                  \* the snapshot on disk
    held,                  \* history: the documents whose vector was taken and not deleted
    steps

vars == <<provider, dimensions, precision, vectors, file, held, steps>>

Precision == {"float64", "float32", "int8"}
Bad == 0 - 1
Nil == [made |-> FALSE, of |-> [id \in Id |-> 0]]
Map(of) == [made |-> TRUE, of |-> of]
EmptyMap == Map([id \in Id |-> 0])
Only(p, m) == [q \in Precision |-> IF q = p THEN m ELSE Nil]
Nonempty(m) == \E id \in Id : m.of[id] # 0

\* NewEmbedderFromEnv falls back to subwords of 128 when a key is missing.
Embedder == [name : {"subword", "cohere", "openai", "ollama"}, length : Lengths]

-----------------------------------------------------------------------------
(* EmbedBatch for one text, which is all Embed asks for.  An answer is a *)
(* status and the items of the body, each with the index it claims.      *)

Error == 0
Answer == [ok : BOOLEAN, items : {<< >>} \cup [1..1 -> [index : {0, 1}, vector : Lengths \cup {0}]]]

EmbedSubword(e, a) == e.length
EmbedCohere(e, a) == IF ~a.ok \/ Len(a.items) # 1 THEN Error ELSE a.items[1].vector
EmbedOpenAI(e, a) ==
    IF ~a.ok \/ Len(a.items) # 1 \/ a.items[1].index # 0 THEN Error ELSE a.items[1].vector
EmbedOllama(e, a) == IF ~a.ok \/ a.items = << >> THEN Error ELSE a.items[1].vector

\* What Embed may answer; nil and an error are the same to all callers.
Embeddings(e) ==
    CASE e.name = "subword" -> {EmbedSubword(e, a) : a \in Answer}
      [] e.name = "cohere"  -> {EmbedCohere(e, a) : a \in Answer}
      [] e.name = "openai"  -> {EmbedOpenAI(e, a) : a \in Answer}
      [] e.name = "ollama"  -> {EmbedOllama(e, a) : a \in Answer}

-----------------------------------------------------------------------------
Init ==
    /\ provider \in Embedder
    /\ dimensions = provider.length /\ precision = "float32"
    /\ vectors = Only("float32", EmptyMap)
    /\ file = [made |-> FALSE, dimensions |-> 0, vectors |-> Only("float32", EmptyMap)]
    /\ held = {} /\ steps = 0

Count == steps < MaxSteps /\ steps' = steps + 1

\* AddVector: the length must be that of the index; NormalizeL2 and QuantizeVector
\* refuse NaN.
AddVector(id, v) ==
    /\ Count
    /\ v # Error
    /\ IF v = dimensions
       THEN /\ vectors' = [vectors EXCEPT ![precision] = Map([@.of EXCEPT ![id] = v])]
            /\ held' = held \cup {id}
       ELSE UNCHANGED <<vectors, held>>
    /\ UNCHANGED <<provider, dimensions, precision, file>>

Embed(id) == \E v \in Embeddings(provider) \cup {Bad} : AddVector(id, v)

\* AddVectorBatch: all the vectors or none.
AddVectorBatch ==
    /\ Count
    /\ \E batch \in [Id -> Embeddings(provider) \cup {Bad}] :
          IF \A id \in Id : batch[id] = dimensions
          THEN vectors' = [vectors EXCEPT ![precision] = Map(batch)] /\ held' = Id
          ELSE UNCHANGED <<vectors, held>>
    /\ UNCHANGED <<provider, dimensions, precision, file>>

DeleteVector(id) ==
    /\ Count
    /\ vectors' = [p \in Precision |-> [vectors[p] EXCEPT !.of[id] = 0]]
    /\ held' = held \ {id}
    /\ UNCHANGED <<provider, dimensions, precision, file>>

\* The map a conversion reads, in the order of the code.
Source(p) ==
    LET order == CASE p = "float32" -> <<"float64", "int8">>
                   [] p = "int8"    -> <<"float64", "float32">>
                   [] p = "float64" -> <<"float32", "int8">>
    IN  IF vectors[order[1]].made THEN vectors[order[1]].of
        ELSE IF vectors[order[2]].made THEN vectors[order[2]].of ELSE [id \in Id |-> 0]

SetPrecision(p) ==
    /\ Count
    /\ p # precision
    /\ vectors' = Only(p, Map(Source(p)))
    /\ precision' = p
    /\ UNCHANGED <<provider, dimensions, file, held>>

\* A temporary file and a rename; an empty map is left out of the JSON.
SaveSnapshot ==
    /\ Count
    /\ file' = [made |-> TRUE, dimensions |-> dimensions, vectors |-> vectors]
    /\ UNCHANGED <<provider, dimensions, precision, vectors, held>>

\* Mutant: the precision of the process stays what it was.
LoadKeepsPrecision(snap, p) ==
    LET kept == CHOOSE q \in Precision : Nonempty(snap.vectors[q]) \/ \A r \in Precision : ~Nonempty(snap.vectors[r])
    IN  /\ precision' = p
        /\ vectors' = Only(kept, snap.vectors[kept])

\* The first nonempty map of the file, whose precision becomes the index's; a file of
\* float64 vectors is of an old version and is converted instead.
LoadSnapshot(snap, p) ==
    CASE Nonempty(snap.vectors["int8"]) ->
            precision' = "int8" /\ vectors' = Only("int8", snap.vectors["int8"])
      [] Nonempty(snap.vectors["float32"]) /\ ~Nonempty(snap.vectors["int8"]) ->
            precision' = "float32" /\ vectors' = Only("float32", snap.vectors["float32"])
      [] OTHER ->
            precision' = p /\ vectors' = Only(p, Map(snap.vectors["float64"].of))

\* The process ends and starts, with another embedder perhaps, and reads the file if it can.
\* The dimensions become those of the file, even when the embedder's are others.
Restart ==
    /\ Count
    /\ provider' \in Embedder
    /\ \/ /\ file.made
          /\ dimensions' = file.dimensions
          /\ LoadSnapshot(file, "float32")
          /\ held' = {id \in Id : \E q \in Precision : file.vectors[q].of[id] # 0}
       \/ /\ dimensions' = provider'.length
          /\ precision' = "float32" /\ vectors' = Only("float32", EmptyMap)
          /\ held' = {}
    /\ UNCHANGED file

\* LoadFromDB: a new index of the old one's dimensions and of float32, filled with the
\* documents that could be embedded at that length.
Rebuild ==
    /\ Count
    /\ precision' = "float32"
    /\ \E found \in [Id -> Embeddings(provider)] :
          /\ vectors' = Only("float32", Map([id \in Id |-> IF found[id] = dimensions THEN found[id] ELSE 0]))
          /\ held' = {id \in Id : found[id] = dimensions}
    /\ UNCHANGED <<provider, dimensions, file>>

Next ==
    \/ \E id \in Id : Embed(id) \/ DeleteVector(id)
    \/ \E p \in Precision : SetPrecision(p)
    \/ AddVectorBatch \/ SaveSnapshot \/ Restart \/ Rebuild

Spec == Init /\ [][Next]_vars

-----------------------------------------------------------------------------
\* SearchNearest, SearchSubset and GetSimilarity: the map of the current precision, for
\* a query of the length of the index; a stored vector of another length scores 0.
SearchSubset(query, ids) ==
    IF query # dimensions THEN {} ELSE {id \in ids : vectors[precision].of[id] = query}
SearchNearest(query) == SearchSubset(query, Id)

\* Whatever additions, deletions, changes of precision, rebuilds and restarts came before,
\* a search sees the vector of every document that was taken and not deleted, and of no
\* other (VectorIndex; a vector in another map or of another length is silently passed over).
SearchSeesWhatIsHeld == SearchNearest(dimensions) = held
=============================================================================
