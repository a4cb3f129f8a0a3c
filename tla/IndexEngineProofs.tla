-------------------------- MODULE IndexEngineProofs --------------------------
(***************************************************************************)
(* Theorems about the index engine, for any documents, versions, requests  *)
(* and bounds: its count of documents is right, and what it holds of a URL *)
(* that nothing has raced for is what a rebuild from the store would make. *)
(***************************************************************************)
EXTENDS IndexEngine, NaturalTheorems, SequenceTheorems

-----------------------------------------------------------------------------
(* The inverted index *)

Indexes == [post : [Version -> [Id -> Version]], len : [Id -> Version],
            docs : Nat, blind : SUBSET Version]
Counted(i) == {id \in Id : i.len[id] # 0}
IndexOK(i) == i \in Indexes /\ i.docs = Cardinality(Counted(i))

LEMMA FiniteIds ==
    ASSUME IndexEngineAssumption, NEW S \in SUBSET Id
    PROVE  IsFiniteSet(S) /\ Cardinality(S) \in Nat
<1>1. IsFiniteSet(Url) /\ IsFiniteSet({0, 1})
  <2>1. IsFiniteSet({0} \cup {1})
    BY FS_Singleton, FS_AddElement
  <2>2. {0, 1} = {0} \cup {1}
    OBVIOUS
  <2> QED
    BY <2>1, <2>2 DEF IndexEngineAssumption
<1>2. IsFiniteSet(Id)
  BY <1>1, FS_Product DEF Id
<1> QED
  BY <1>2, FS_Subset, FS_CardinalityType

LEMMA VersionFacts ==
    ASSUME IndexEngineAssumption
    PROVE  /\ 0 \in Version /\ Version \subseteq Nat
           /\ \A v \in Version : Terms(v) \subseteq Version
           /\ \A v \in Version \ {0} : v \in 1..MaxVersion
           /\ \A v \in 1..MaxVersion : v \in Version /\ v # 0
  BY DEF IndexEngineAssumption, Version, Terms

LEMMA NewIndexCounts ==
    ASSUME IndexEngineAssumption
    PROVE  IndexOK(NewInvertedIndex) /\ NewInvertedIndex.blind = {}
           /\ \A t \in Version, id \in Id : NewInvertedIndex.post[t][id] = 0
<1>1. None \in [Id -> Version] /\ \A id \in Id : None[id] = 0
  BY VersionFacts DEF None
<1>2. NewInvertedIndex \in Indexes
  BY <1>1 DEF NewInvertedIndex, Indexes
<1>3. Counted(NewInvertedIndex) = {}
  BY <1>1 DEF Counted, NewInvertedIndex
<1> QED
  BY <1>1, <1>2, <1>3, FS_EmptySet DEF IndexOK, NewInvertedIndex

\* What AddDocument does to an index.
LEMMA AddProperties ==
    ASSUME IndexEngineAssumption, NEW i, IndexOK(i), NEW id \in Id, NEW v \in Version \ {0}
    PROVE  LET a == AddDocument(i, id, v)
           IN  /\ IndexOK(a)
               /\ a.len = [i.len EXCEPT ![id] = v]
               /\ \A t \in Version, d \in Id :
                     a.post[t][d] = IF d = id /\ t \in Terms(v) THEN v ELSE i.post[t][d]
               /\ a.blind \subseteq i.blind
<1> PICK a : a = AddDocument(i, id, v)
  OBVIOUS
<1>1. /\ a.len = [i.len EXCEPT ![id] = v]
      /\ a.post = [t \in Version |-> IF t \in Terms(v) THEN [i.post[t] EXCEPT ![id] = v] ELSE i.post[t]]
      /\ a.docs = IF i.len[id] = 0 THEN i.docs + 1 ELSE i.docs
      /\ a.blind = i.blind \ Terms(v)
      /\ a = [post |-> a.post, len |-> a.len, docs |-> a.docs, blind |-> a.blind]
  BY DEF AddDocument
<1>2. /\ i.len \in [Id -> Version] /\ i.post \in [Version -> [Id -> Version]]
      /\ i.docs \in Nat /\ i.blind \in SUBSET Version
  BY DEF IndexOK, Indexes
<1>3. a.len \in [Id -> Version] /\ a.docs \in Nat /\ a.blind \in SUBSET Version
  BY <1>1, <1>2
<1>4. ASSUME NEW t \in Version
      PROVE  /\ a.post[t] \in [Id -> Version]
             /\ \A d \in Id : a.post[t][d] = IF d = id /\ t \in Terms(v) THEN v ELSE i.post[t][d]
  <2>1. i.post[t] \in [Id -> Version]
    BY <1>2
  <2> QED
    BY <1>1, <2>1
<1>5. a.post \in [Version -> [Id -> Version]]
  BY <1>1, <1>4
<1>6. a \in Indexes
  BY <1>1, <1>3, <1>5 DEF Indexes
<1>7. Counted(a) = Counted(i) \cup {id}
  BY <1>1, <1>2 DEF Counted
<1>8. a.docs = Cardinality(Counted(a))
  <2>1. IsFiniteSet(Counted(i)) /\ (id \in Counted(i) <=> i.len[id] # 0)
    BY FiniteIds DEF Counted
  <2>2. i.docs = Cardinality(Counted(i))
    BY DEF IndexOK
  <2>3. Cardinality(Counted(i) \cup {id})
          = IF id \in Counted(i) THEN Cardinality(Counted(i)) ELSE Cardinality(Counted(i)) + 1
    BY <2>1, FS_AddElement
  <2> QED
    BY <1>1, <1>7, <2>1, <2>2, <2>3
<1> QED
  BY <1>1, <1>4, <1>6, <1>8 DEF IndexOK

\* What DeleteDocument does to an index whose postings it can all find.
LEMMA DeleteProperties ==
    ASSUME IndexEngineAssumption, NEW i, IndexOK(i), NEW id \in Id
    PROVE  LET a == DeleteDocument(i, id)
           IN  /\ IndexOK(a)
               /\ a.len = [i.len EXCEPT ![id] = 0]
               /\ a.blind = i.blind
               /\ i.blind = {} /\ i.len[id] # 0 =>
                     \A t \in Version, d \in Id : a.post[t][d] = IF d = id THEN 0 ELSE i.post[t][d]
               /\ i.len[id] = 0 => a = i
<1> PICK a : a = DeleteDocument(i, id)
  OBVIOUS
<1>2. /\ i.len \in [Id -> Version] /\ i.post \in [Version -> [Id -> Version]]
      /\ i.docs \in Nat /\ i.blind \in SUBSET Version
      /\ i = [post |-> i.post, len |-> i.len, docs |-> i.docs, blind |-> i.blind]
      /\ i.docs = Cardinality(Counted(i))
  BY DEF IndexOK, Indexes
<1>3. CASE i.len[id] = 0
  <2>1. a = i
    BY <1>3 DEF DeleteDocument
  <2>2. i.len = [i.len EXCEPT ![id] = 0]
    BY <1>2, <1>3
  <2> QED
    BY <1>3, <2>1, <2>2
<1>4. CASE i.len[id] # 0
  <2>1. /\ a.len = [i.len EXCEPT ![id] = 0]
        /\ a.post = [t \in Version |-> IF t \in i.blind THEN i.post[t] ELSE [i.post[t] EXCEPT ![id] = 0]]
        /\ a.docs = i.docs - 1
        /\ a.blind = i.blind
        /\ a = [post |-> a.post, len |-> a.len, docs |-> a.docs, blind |-> a.blind]
    BY <1>2, <1>4 DEF DeleteDocument
  <2>2. Counted(a) = Counted(i) \ {id} /\ id \in Counted(i)
    BY <1>2, <1>4, <2>1 DEF Counted
  <2>3. a.docs = Cardinality(Counted(a)) /\ a.docs \in Nat
    <3>1. IsFiniteSet(Counted(i)) /\ Counted(a) \in SUBSET Id
      BY FiniteIds DEF Counted
    <3>2. Cardinality(Counted(a)) = Cardinality(Counted(i)) - 1
      BY <2>2, <3>1, FS_RemoveElement
    <3> QED
      BY <1>2, <2>1, <3>1, <3>2, FiniteIds
  <2>4. ASSUME NEW t \in Version
        PROVE  /\ a.post[t] \in [Id -> Version]
               /\ t \notin i.blind => \A d \in Id : a.post[t][d] = IF d = id THEN 0 ELSE i.post[t][d]
    <3>1. i.post[t] \in [Id -> Version] /\ 0 \in Version
      BY <1>2, VersionFacts
    <3> QED
      BY <2>1, <3>1
  <2>5. a.post \in [Version -> [Id -> Version]]
    BY <2>1, <2>4
  <2>6. a.len \in [Id -> Version]
    BY <1>2, <2>1, VersionFacts
  <2>7. IndexOK(a)
    BY <1>2, <2>1, <2>3, <2>5, <2>6 DEF IndexOK, Indexes
  <2> QED
    BY <1>4, <2>1, <2>4, <2>7
<1> QED
  BY <1>3, <1>4

\* What a rebuild makes.
LEMMA BuiltProperties ==
    ASSUME IndexEngineAssumption, NEW docs \in [Url -> Version]
    PROVE  /\ IndexOK(Built(docs)) /\ Built(docs).blind = {}
           /\ VersionOf(docs) \in [Id -> Version]
           /\ Built(docs).len = VersionOf(docs)
           /\ \A t \in Version, id \in Id :
                 Built(docs).post[t][id]
                   = IF t \in Terms(VersionOf(docs)[id]) THEN VersionOf(docs)[id] ELSE 0
<1> PICK built : built = Built(docs)
  OBVIOUS
<1> PICK f : f = VersionOf(docs)
  OBVIOUS
<1>1. \A id \in Id : docs[id[1]] \in Version
  BY DEF Id
<1>2. f \in [Id -> Version] /\ \A id \in Id : f[id] # 0 <=> Holds(docs, id)
  <2>1. \A id \in Id : f[id] = IF Holds(docs, id) THEN docs[id[1]] ELSE 0
    BY DEF VersionOf
  <2>2. f = [id \in Id |-> f[id]]
    BY DEF VersionOf
  <2> QED
    BY <1>1, <2>1, <2>2, VersionFacts DEF Holds
<1>3. /\ built.len = f /\ built.blind = {}
      /\ built.post = [t \in Version |-> [id \in Id |-> IF t \in Terms(f[id]) THEN f[id] ELSE 0]]
      /\ built.docs = Cardinality({id \in Id : Holds(docs, id)})
      /\ built = [post |-> built.post, len |-> built.len, docs |-> built.docs, blind |-> built.blind]
  BY DEF Built
<1>4. Counted(built) = {id \in Id : Holds(docs, id)}
  BY <1>2, <1>3 DEF Counted
<1>5. built.docs \in Nat
  BY <1>3, FiniteIds
<1>6. built.post \in [Version -> [Id -> Version]]
  BY <1>2, <1>3, VersionFacts
<1>7. built \in Indexes
  BY <1>2, <1>3, <1>5, <1>6 DEF Indexes
<1> QED
  BY <1>2, <1>3, <1>4, <1>7 DEF IndexOK
-----------------------------------------------------------------------------
(* Types *)

Deletes == {"unshard", "capture", "uninvert", "unvector"}
Adds == {"shard", "invert", "embed", "vector", "parents", "save"}
Dos == Deletes \cup Adds \cup {"forget", "invertCaptured"}
Task == {s \in [do : Dos, id : Id, v : Version] : s.do \in {"invert", "invertCaptured"} => s.v # 0}
\* An embedding is followed by the vector it is for.
TaskList ==
    {s \in Seq(Task) : \A k \in DOMAIN s :
        s[k].do = "embed" => k + 1 \in DOMAIN s /\ s[k + 1].do = "vector"}
Parts(u, v) == IF v = 0 THEN {} ELSE Chunks(u, v)

TypeInv ==
    /\ store \in [Url -> Version] /\ astray \subseteq Url
    /\ IndexOK(inv) /\ vec \in [Id -> Version] /\ shards \in [Id -> Version]
    /\ DOMAIN parentChunks = Url
    /\ \A u \in Url : parentChunks[u] \in {{}, {<<u, 1>>}}
    /\ request = [r \in Request |-> request[r]]
    /\ \A r \in Request : /\ DOMAIN request[r] = {"op", "todo", "fresh", "url"}
                          /\ request[r].todo \in TaskList /\ request[r].fresh \in BOOLEAN
    /\ DOMAIN janitor = {"step", "docs"}
    /\ janitor.step \in {"idle", "expired", "read"} /\ janitor.docs \in [Url -> Version]
    /\ DOMAIN snapshot = {"inv", "vec"}
    /\ IndexOK(snapshot.inv.of) /\ snapshot.vec.of \in [Id -> Version]
    /\ phase \in {"down", "hydrating", "up", "stopping", "saved"}

\* Only a snapshot leaves postings of documents that are gone, or that no deletion
\* finds, and a start of the process puts all of the index in doubt.
Ghosts == \E t \in Version, id \in Id : inv.post[t][id] # 0 /\ inv.len[id] = 0
GhostInv == inv.blind # {} \/ Ghosts => astray = Url

-----------------------------------------------------------------------------
(* The invariant about the agreement of index and store *)

IdsOf(u) == {Doc(u), <<u, 1>>}
Want(id, v) == IF v # 0 /\ id \in Ids(id[1], v) THEN v ELSE 0

\* The postings of id are those of the version its length is of.
Clean(id) ==
    \A t \in Version : inv.post[t][id] = IF t \in Terms(inv.len[id]) THEN inv.len[id] ELSE 0

\* The engine holds version v of u, and nothing else.
Has(u, v) ==
    /\ \A id \in IdsOf(u) : /\ Clean(id) /\ inv.len[id] = Want(id, v)
                            /\ shards[id] = Want(id, v) /\ vec[id] \in {0, Want(id, v)}
    /\ parentChunks[u] = Parts(u, v)

\* What is left to do, after the old version was forgotten, to make u version v.
StepsOK(todo, u, v) ==
    \A k \in DOMAIN todo :
        /\ todo[k].id \in IdsOf(u) /\ todo[k].do \in Deletes \cup Adds
        /\ todo[k].do \in Adds => todo[k].v = v /\ v # 0 /\ todo[k].id \in Ids(u, v)
        /\ todo[k].do \in Deletes => todo[k].v = 0
        /\ todo[k].do = "embed" => k + 1 \in DOMAIN todo /\ todo[k + 1].do = "vector"
        /\ todo[k].do \in {"parents", "save"} => todo[k].id = Doc(u)
InOrder(todo) ==
    \A j, k \in DOMAIN todo :
        /\ j < k /\ todo[k].do \in Deletes => todo[j].do \in Deletes
        /\ j < k /\ todo[k].do = "capture" => todo[j].do = "unshard"
        /\ todo[j].do = todo[k].do /\ todo[j].id = todo[k].id => j = k
SavesLast(todo, op) == \A k \in DOMAIN todo : todo[k].do = "save" <=> op = "index" /\ k = Len(todo)
Plan(todo, op, u, v) == StepsOK(todo, u, v) /\ InOrder(todo) /\ SavesLast(todo, op)

Pending(todo, do, id) == \E k \in DOMAIN todo : todo[k].do = do /\ todo[k].id = id
Captures(todo) == \E k \in DOMAIN todo : todo[k].do = "capture"

\* How far the request with this list has come for one of the ids.
Progress(todo, fresh, id, v) ==
    /\ Clean(id)
    /\ Pending(todo, "unshard", id) => Want(id, v) = 0 \/ Pending(todo, "shard", id)
    /\ ~Pending(todo, "unshard", id) /\ ~Pending(todo, "shard", id) => shards[id] = Want(id, v)
    /\ Pending(todo, "uninvert", id) => Want(id, v) = 0 \/ Pending(todo, "invert", id)
    /\ ~Pending(todo, "uninvert", id) =>
          inv.len[id] = IF Pending(todo, "invert", id) THEN 0 ELSE Want(id, v)
    /\ ~Pending(todo, "unvector", id) => vec[id] \in {0, Want(id, v)}
    /\ Pending(todo, "uninvert", id) \/ Pending(todo, "unvector", id) =>
          fresh \/ Captures(todo)

Beginning(q, u) ==
    /\ Has(u, store[u])
    /\ \/ q.op = "index" /\ \E v \in 1..MaxVersion : q.todo = IndexSteps(u, v)
       \/ q.op = "delete" /\ store[u] = 0 /\ q.todo = <<Step("forget", Doc(u), 0)>>
Course(todo, op, fresh, u, v) ==
    /\ Plan(todo, op, u, v)
    /\ \A id \in IdsOf(u) : Progress(todo, fresh, id, v)
    /\ ~Pending(todo, "parents", Doc(u)) => parentChunks[u] = Parts(u, v)
    /\ \/ op = "index"
       \/ op = "delete" /\ v = 0 /\ store[u] = 0
InProgress(q, u, v) == Course(q.todo, q.op, q.fresh, u, v)
Underway(q, u) == Beginning(q, u) \/ \E v \in Version : InProgress(q, u, v)

\* The process has begun to serve, and has not ended.
Live == phase \in {"up", "stopping", "saved"}
Own(todo, u) == \A k \in DOMAIN todo : todo[k].id[1] = u
ProcessInv ==
    /\ ~Live => janitor.step = "idle"
    /\ phase = "hydrating" => astray = Url
    /\ phase \in {"down", "hydrating"} =>
          \A r \in Request : request[r].todo = << >> \/ (phase = "hydrating" /\ r = Hydrating)
    /\ Live => \A r \in Request : Own(request[r].todo, request[r].url)

Agreement(u) ==
    /\ \A r, s \in Request : Touches(r, u) /\ Touches(s, u) => r = s
    /\ janitor.step # "idle" => Quiet(u)
    /\ janitor.step = "read" => janitor.docs[u] = store[u]
    /\ Quiet(u) => Has(u, store[u])
    /\ \A r \in Request : Touches(r, u) => Underway(request[r], u)
AgreeInv == Live => \A u \in Url \ astray : Agreement(u)


-----------------------------------------------------------------------------
(* Lists of steps *)

LEMMA FlattenType ==
    ASSUME NEW X, NEW L \in SUBSET Seq(X), << >> \in L,
           \A a, b \in L : a \o b \in L,
           NEW seqs \in Seq(L)
    PROVE  FlattenSeq(seqs) \in L
<1> DEFINE n == Len(seqs)
           Is(f) == f = [i \in 1..n |-> IF i = 1 THEN seqs[i] ELSE f[i - 1] \o seqs[i]]
           step == [i \in 1..n |-> [s \in L |-> s \o seqs[i]]]
<1>1. n \in Nat /\ \A i \in 1..n : seqs[i] \in L
  BY LenProperties, ElementOfSeq
<1>2. CASE n = 0
  <2>1. FlattenSeq(seqs) = seqs /\ seqs = << >>
    BY <1>2, EmptySeq DEF FlattenSeq
  <2> QED
    BY <2>1
<1>3. CASE n # 0
  <2>1. step \in [1..n -> [L -> L]]
    BY <1>1
  <2>2. PICK f : IsRecursion(f, n, L, << >>, step)
    <3> HIDE DEF step, n
    <3> QED
      BY <1>1, <2>1, RecursionExists
  <2>3. ASSUME NEW i \in 1..n
        PROVE  f[i] = IF i = 1 THEN seqs[i] ELSE f[i - 1] \o seqs[i]
    <3>1. f[i] = step[i][f[i - 1]] /\ f[0] = << >>
      BY <2>2 DEF IsRecursion
    <3>2. i - 1 \in 0..n
      <4> HIDE DEF n, step
      <4> QED
        BY <1>1
    <3>3. f[i - 1] \in L
      BY <2>2, <3>2 DEF IsRecursion
    <3>4. f[i] = f[i - 1] \o seqs[i]
      BY <3>1, <3>3
    <3>5. << >> \o seqs[i] = seqs[i]
      BY <1>1, ConcatEmptySeq
    <3>6. i = 1 => f[i - 1] = << >>
      BY <3>1
    <3> QED
      BY <3>4, <3>5, <3>6
  <2> DEFINE h == [i \in 1..n |-> f[i]]
  <2>4. Is(h)
    <3>1. \A i \in 1..n : i # 1 => i - 1 \in 1..n
      <4> HIDE DEF n, step
      <4> QED
        BY <1>1
    <3>2. \A i \in 1..n : h[i] = IF i = 1 THEN seqs[i] ELSE h[i - 1] \o seqs[i]
      BY <2>3, <3>1
    <3> HIDE DEF step
    <3> QED
      BY <3>2
  <2> DEFINE g == CHOOSE k : Is(k)
  <2>5. Is(g)
    BY <2>4
  <2>6. FlattenSeq(seqs) = g[n]
    BY <1>3 DEF FlattenSeq
  <2> HIDE DEF g
  <2>7. \A i \in 1..n : g[i] = IF i = 1 THEN seqs[i] ELSE g[i - 1] \o seqs[i]
    BY <2>5
  <2> DEFINE S == {i \in 0..n : i # 0 => g[i] \in L}
  <2> HIDE DEF h, step, Is, n
  <2>8. 0 \in S
    BY <1>1
  <2>9. ASSUME NEW i \in 0..n, i \in S, i # n
        PROVE  i + 1 \in S
    <3>1. i \in Nat /\ i + 1 \in 1..n /\ (i + 1) - 1 = i
      BY <1>1, <2>9
    <3>2. g[i + 1] = IF i = 0 THEN seqs[i + 1] ELSE g[i] \o seqs[i + 1]
      BY <2>7, <3>1
    <3>3. g[i + 1] \in L
      BY <1>1, <2>9, <3>1, <3>2
    <3> QED
      BY <3>1, <3>3
  <2> HIDE DEF S
  <2>10. 0..n \subseteq S
    BY <1>1, <2>8, <2>9, IntervalInduction
  <2>11. n \in S
    BY <1>1, <2>10
  <2> QED
    BY <1>3, <2>6, <2>11 DEF S
<1> QED
  BY <1>2, <1>3

LEMMA SetToSeqType ==
    ASSUME NEW S, IsFiniteSet(S)
    PROVE  SetToSeq(S) \in Seq(S)
<1>1. Cardinality(S) \in Nat /\ ExistsBijection(1..Cardinality(S), S)
  BY FS_CardinalityType
<1>2. \E f \in [1..Cardinality(S) -> S] : IsInjective(f)
  BY <1>1 DEF ExistsBijection, Bijection, Injection, IsInjective
<1>3. SetToSeq(S) \in [1..Cardinality(S) -> S]
  BY <1>2 DEF SetToSeq
<1> QED
  BY <1>1, <1>3

\* The steps of the lists, one by one.
LEMMA StepFields ==
    ASSUME NEW do, NEW id, NEW v
    PROVE  Step(do, id, v).do = do /\ Step(do, id, v).id = id /\ Step(do, id, v).v = v
  BY DEF Step

LEMMA StepType ==
    ASSUME NEW do \in Dos, NEW id \in Id, NEW v \in Version,
           do \in {"invert", "invertCaptured"} => v # 0
    PROVE  Step(do, id, v) \in Task
<1>1. Step(do, id, v) \in [do : Dos, id : Id, v : Version]
  BY DEF Step
<1>2. Step(do, id, v).do = do /\ Step(do, id, v).v = v
  BY StepFields
<1> QED
  BY <1>1, <1>2 DEF Task

LEMMA ForAllSteps ==
    ASSUME NEW do, NEW v, NEW id
    PROVE  ForAll(do, {}, v) = << >> /\ ForAll(do, {id}, v) = <<Step(do, id, v)>>
<1>1. Cardinality({}) = 0 /\ Cardinality({id}) = 1
  BY FS_EmptySet, FS_Singleton
<1>2. ForAll(do, {}, v) = [i \in 1..0 |-> Step(do, CHOOSE x \in {} : TRUE, v)]
  BY <1>1 DEF ForAll
<1>3. ForAll(do, {id}, v) = [i \in 1..1 |-> Step(do, id, v)]
  <2>1. (CHOOSE x \in {id} : TRUE) = id
    OBVIOUS
  <2> QED
    BY <1>1, <2>1 DEF ForAll
<1>4. \A s : [i \in 1..0 |-> s] = << >>
  OBVIOUS
<1>5. \A s : [i \in 1..1 |-> s] = <<s>>
  OBVIOUS
<1> QED
  BY <1>2, <1>3, <1>4, <1>5

DeleteAll(u, c) ==
    <<Step("unshard", Doc(u), 0), Step("capture", Doc(u), 0), Step("uninvert", Doc(u), 0),
      Step("uninvert", c, 0), Step("unvector", Doc(u), 0), Step("unvector", c, 0),
      Step("unshard", c, 0)>>

LEMMA ConcatIs ==
    ASSUME NEW X, NEW a \in Seq(X), NEW b \in Seq(X), NEW c \in Seq(X),
           Len(c) = Len(a) + Len(b),
           \A i \in 1..Len(a) : c[i] = a[i],
           \A i \in 1..Len(b) : c[Len(a) + i] = b[i]
    PROVE  a \o b = c
<1>1. Len(a) \in Nat /\ Len(b) \in Nat /\ Len(c) \in Nat
  BY LenProperties
<1>2. a \o b \in Seq(X) /\ Len(a \o b) = Len(c)
  BY ConcatProperties
<1>3. ASSUME NEW i \in 1..Len(c) PROVE (a \o b)[i] = c[i]
  <2>1. (a \o b)[i] = IF i <= Len(a) THEN a[i] ELSE b[i - Len(a)]
    BY ConcatProperties
  <2>2. i <= Len(a) => i \in 1..Len(a)
    BY <1>1
  <2>3. ~(i <= Len(a)) => i - Len(a) \in 1..Len(b) /\ Len(a) + (i - Len(a)) = i
    BY <1>1
  <2> QED
    BY <2>1, <2>2, <2>3
<1> QED
  BY <1>2, <1>3, SeqEqual

LEMMA DeleteStepsAre ==
    ASSUME NEW u, NEW c
    PROVE  /\ DeleteSteps(u, {}) = DeleteOnlyDocument(u, {})
           /\ DeleteSteps(u, {c}) = DeleteAll(u, c)
<1> DEFINE d(do) == Step(do, Doc(u), 0)
           e(do) == Step(do, c, 0)
<1>1. DeleteSteps(u, {}) = <<d("unshard"), d("capture"), d("uninvert")>> \o << >>
                              \o <<d("unvector")>> \o << >> \o << >>
  BY ForAllSteps DEF DeleteSteps
<1>2. DeleteSteps(u, {c}) = <<d("unshard"), d("capture"), d("uninvert")>> \o <<e("uninvert")>>
                              \o <<d("unvector")>> \o <<e("unvector")>> \o <<e("unshard")>>
  BY ForAllSteps DEF DeleteSteps
<1> HIDE DEF d, e
<1>3. ASSUME NEW w, NEW x, NEW y, NEW z
      PROVE  <<w, x, y>> \o <<z>> = <<w, x, y, z>>
  <2> DEFINE X == {w, x, y, z}
             a == <<w, x, y>>
             b == <<z>>
             s == <<w, x, y, z>>
  <2>1. a \in Seq(X) /\ b \in Seq(X) /\ s \in Seq(X) /\ Len(s) = Len(a) + Len(b)
    OBVIOUS
  <2>2. (\A i \in 1..Len(a) : s[i] = a[i]) /\ (\A i \in 1..Len(b) : s[Len(a) + i] = b[i])
    OBVIOUS
  <2> HIDE DEF X, a, b, s
  <2>3. a \o b = s
    BY <2>1, <2>2, ConcatIs
  <2> QED
    BY <2>3 DEF a, b, s
<1>4. ASSUME NEW w, NEW x, NEW y, NEW z, NEW o
      PROVE  <<w, x, y, z>> \o <<o>> = <<w, x, y, z, o>>
  <2> DEFINE X == {w, x, y, z, o}
             a == <<w, x, y, z>>
             b == <<o>>
             s == <<w, x, y, z, o>>
  <2>1. a \in Seq(X) /\ b \in Seq(X) /\ s \in Seq(X) /\ Len(s) = Len(a) + Len(b)
    OBVIOUS
  <2>2. (\A i \in 1..Len(a) : s[i] = a[i]) /\ (\A i \in 1..Len(b) : s[Len(a) + i] = b[i])
    OBVIOUS
  <2> HIDE DEF X, a, b, s
  <2>3. a \o b = s
    BY <2>1, <2>2, ConcatIs
  <2> QED
    BY <2>3 DEF a, b, s
<1>5. ASSUME NEW w, NEW x, NEW y, NEW z, NEW o, NEW p
      PROVE  <<w, x, y, z, o>> \o <<p>> = <<w, x, y, z, o, p>>
  <2> DEFINE X == {w, x, y, z, o, p}
             a == <<w, x, y, z, o>>
             b == <<p>>
             s == <<w, x, y, z, o, p>>
  <2>1. a \in Seq(X) /\ b \in Seq(X) /\ s \in Seq(X) /\ Len(s) = Len(a) + Len(b)
    OBVIOUS
  <2>2. (\A i \in 1..Len(a) : s[i] = a[i]) /\ (\A i \in 1..Len(b) : s[Len(a) + i] = b[i])
    OBVIOUS
  <2> HIDE DEF X, a, b, s
  <2>3. a \o b = s
    BY <2>1, <2>2, ConcatIs
  <2> QED
    BY <2>3 DEF a, b, s
<1>6. ASSUME NEW w, NEW x, NEW y, NEW z, NEW o, NEW p, NEW q
      PROVE  <<w, x, y, z, o, p>> \o <<q>> = <<w, x, y, z, o, p, q>>
  <2> DEFINE X == {w, x, y, z, o, p, q}
             a == <<w, x, y, z, o, p>>
             b == <<q>>
             s == <<w, x, y, z, o, p, q>>
  <2>1. a \in Seq(X) /\ b \in Seq(X) /\ s \in Seq(X) /\ Len(s) = Len(a) + Len(b)
    OBVIOUS
  <2>2. (\A i \in 1..Len(a) : s[i] = a[i]) /\ (\A i \in 1..Len(b) : s[Len(a) + i] = b[i])
    OBVIOUS
  <2> HIDE DEF X, a, b, s
  <2>3. a \o b = s
    BY <2>1, <2>2, ConcatIs
  <2> QED
    BY <2>3 DEF a, b, s
<1>7. \A w, x, y : <<w, x, y>> \o << >> = <<w, x, y>>
  OBVIOUS
<1>8. \A w, x, y, z : <<w, x, y, z>> \o << >> = <<w, x, y, z>>
  OBVIOUS
<1>9. DeleteSteps(u, {}) = <<d("unshard"), d("capture"), d("uninvert"), d("unvector")>>
  BY <1>1, <1>3, <1>7, <1>8
<1>10. DeleteSteps(u, {c}) = <<d("unshard"), d("capture"), d("uninvert"), e("uninvert"),
                               d("unvector"), e("unvector"), e("unshard")>>
  BY <1>2, <1>3, <1>4, <1>5, <1>6
<1> QED
  BY <1>9, <1>10 DEF DeleteOnlyDocument, DeleteAll, d, e

\* Where the elements of a concatenation and of a tail come from.
LEMMA ConcatElements ==
    ASSUME NEW X, NEW a \in Seq(X), NEW b \in Seq(X)
    PROVE  /\ a \o b \in Seq(X) /\ Len(a) \in Nat /\ Len(b) \in Nat
           /\ DOMAIN a = 1..Len(a) /\ DOMAIN b = 1..Len(b) /\ DOMAIN (a \o b) = 1..(Len(a) + Len(b))
           /\ Len(a \o b) = Len(a) + Len(b)
           /\ \A k \in DOMAIN a : k \in DOMAIN (a \o b) /\ (a \o b)[k] = a[k]
           /\ \A k \in DOMAIN b : Len(a) + k \in DOMAIN (a \o b) /\ (a \o b)[Len(a) + k] = b[k]
           /\ \A k \in DOMAIN (a \o b) : \/ k \in DOMAIN a
                                        \/ (k - Len(a) \in DOMAIN b /\ (a \o b)[k] = b[k - Len(a)])
<1>1. /\ a \o b \in Seq(X) /\ Len(a) \in Nat /\ Len(b) \in Nat /\ Len(a \o b) = Len(a) + Len(b)
      /\ DOMAIN a = 1..Len(a) /\ DOMAIN b = 1..Len(b) /\ DOMAIN (a \o b) = 1..(Len(a) + Len(b))
  BY LenProperties, ConcatProperties
<1>2. \A i \in 1..Len(a) + Len(b) : (a \o b)[i] = IF i <= Len(a) THEN a[i] ELSE b[i - Len(a)]
  BY ConcatProperties
<1> QED
  BY <1>1, <1>2

LEMMA TailElements ==
    ASSUME NEW X, NEW a \in Seq(X), a # << >>
    PROVE  /\ Tail(a) \in Seq(X) /\ Len(a) \in Nat \ {0} /\ Len(Tail(a)) = Len(a) - 1
           /\ DOMAIN a = 1..Len(a) /\ DOMAIN Tail(a) = 1..(Len(a) - 1)
           /\ Head(a) = a[1] /\ 1 \in DOMAIN a
           /\ \A k \in DOMAIN Tail(a) : k + 1 \in DOMAIN a /\ Tail(a)[k] = a[k + 1]
           /\ \A k \in DOMAIN a : k # 1 => k - 1 \in DOMAIN Tail(a) /\ Tail(a)[k - 1] = a[k]
<1>1. /\ Tail(a) \in Seq(X) /\ Len(a) \in Nat \ {0} /\ Len(Tail(a)) = Len(a) - 1
      /\ DOMAIN a = 1..Len(a) /\ DOMAIN Tail(a) = 1..(Len(a) - 1) /\ Head(a) = a[1]
  BY EmptySeq, LenProperties, HeadTailProperties
<1>2. \A i \in 1..(Len(a) - 1) : Tail(a)[i] = a[i + 1]
  BY <1>1, HeadTailProperties
<1> QED
  BY <1>1, <1>2

LEMMA OneTask ==
    ASSUME NEW x \in Task, x.do # "embed"
    PROVE  <<x>> \in TaskList
<1>1. <<x>> \in Seq(Task) /\ DOMAIN <<x>> = {1} /\ <<x>>[1] = x
  OBVIOUS
<1> QED
  BY <1>1 DEF TaskList

LEMMA NoTask == << >> \in TaskList
<1>1. << >> \in Seq(Task) /\ DOMAIN << >> = {}
  OBVIOUS
<1> QED
  BY <1>1 DEF TaskList

LEMMA ListConcat ==
    ASSUME NEW a \in TaskList, NEW b \in TaskList
    PROVE  a \o b \in TaskList
<1> PICK s : s = a \o b
  OBVIOUS
<1>1. a \in Seq(Task) /\ b \in Seq(Task)
  BY DEF TaskList
<1>2. /\ s \in Seq(Task)
      /\ \A k \in DOMAIN a : k \in DOMAIN s /\ s[k] = a[k]
      /\ \A k \in DOMAIN b : Len(a) + k \in DOMAIN s /\ s[Len(a) + k] = b[k]
      /\ \A k \in DOMAIN s : k \in DOMAIN a \/ (k - Len(a) \in DOMAIN b /\ s[k] = b[k - Len(a)])
      /\ DOMAIN s \subseteq Int /\ Len(a) \in Int
  BY <1>1, ConcatElements
<1>3. ASSUME NEW k \in DOMAIN s, s[k].do = "embed"
      PROVE  k + 1 \in DOMAIN s /\ s[k + 1].do = "vector"
  <2>1. CASE k \in DOMAIN a
    <3>1. k + 1 \in DOMAIN a /\ a[k + 1].do = "vector"
      BY <1>2, <1>3, <2>1 DEF TaskList
    <3> QED
      BY <1>2, <3>1
  <2>2. CASE k - Len(a) \in DOMAIN b /\ s[k] = b[k - Len(a)]
    <3>1. (k - Len(a)) + 1 \in DOMAIN b /\ b[(k - Len(a)) + 1].do = "vector"
      BY <1>3, <2>2 DEF TaskList
    <3>2. Len(a) + ((k - Len(a)) + 1) = k + 1
      BY <1>2
    <3> QED
      BY <1>2, <3>1, <3>2
  <2> QED
    BY <1>2, <2>1, <2>2
<1> QED
  BY <1>2, <1>3 DEF TaskList

LEMMA ListTail ==
    ASSUME NEW a \in TaskList, a # << >>
    PROVE  /\ Tail(a) \in TaskList /\ Head(a) \in Task
           /\ Head(a).do = "embed" => Tail(a) # << >> /\ Head(Tail(a)).do = "vector"
                                      /\ Len(a) # 1 /\ Tail(Tail(a)) \in TaskList
<1>1. ASSUME NEW b \in TaskList, b # << >>
      PROVE  Tail(b) \in TaskList /\ Head(b) \in Task
  <2>1. b \in Seq(Task)
    BY DEF TaskList
  <2>2. /\ Tail(b) \in Seq(Task) /\ Head(b) = b[1] /\ 1 \in DOMAIN b /\ DOMAIN Tail(b) \subseteq Int
        /\ \A k \in DOMAIN Tail(b) : k + 1 \in DOMAIN b /\ Tail(b)[k] = b[k + 1]
        /\ \A k \in DOMAIN b : k # 1 => k - 1 \in DOMAIN Tail(b) /\ Tail(b)[k - 1] = b[k]
        /\ DOMAIN Tail(b) \subseteq Nat \ {0}
    BY <1>1, <2>1, TailElements
  <2>3. ASSUME NEW k \in DOMAIN Tail(b), Tail(b)[k].do = "embed"
        PROVE  k + 1 \in DOMAIN Tail(b) /\ Tail(b)[k + 1].do = "vector"
    <3>1. (k + 1) + 1 \in DOMAIN b /\ b[(k + 1) + 1].do = "vector"
      BY <2>2, <2>3 DEF TaskList
    <3>2. (k + 1) + 1 # 1 /\ ((k + 1) + 1) - 1 = k + 1
      BY <2>2
    <3> QED
      BY <2>2, <3>1, <3>2
  <2>4. Head(b) \in Task
    BY <2>1, <2>2, ElementOfSeq, LenProperties
  <2> QED
    BY <2>2, <2>3, <2>4 DEF TaskList
<1>2. ASSUME Head(a).do = "embed"
      PROVE  Tail(a) # << >> /\ Head(Tail(a)).do = "vector" /\ Len(a) # 1
  <2>1. a \in Seq(Task)
    BY DEF TaskList
  <2>2. /\ Tail(a) \in Seq(Task) /\ Head(a) = a[1] /\ 1 \in DOMAIN a /\ DOMAIN a = 1..Len(a)
        /\ \A k \in DOMAIN a : k # 1 => k - 1 \in DOMAIN Tail(a) /\ Tail(a)[k - 1] = a[k]
        /\ DOMAIN Tail(a) = 1..Len(Tail(a)) /\ Len(a) \in Nat /\ Len(Tail(a)) = Len(a) - 1
    BY <2>1, TailElements
  <2>3. 1 + 1 \in DOMAIN a /\ a[1 + 1].do = "vector"
    BY <1>2, <2>2 DEF TaskList
  <2>4. 1 \in DOMAIN Tail(a) /\ Tail(a)[1] = a[1 + 1] /\ Len(a) # 1
    BY <2>2, <2>3
  <2>5. Tail(a) # << >>
    BY <2>4
  <2>6. Head(Tail(a)) = Tail(a)[1]
    BY <2>2, <2>5, TailElements
  <2> QED
    BY <2>3, <2>4, <2>5, <2>6
<1> QED
  BY <1>1, <1>2

LEMMA IdFacts ==
    ASSUME NEW u \in Url
    PROVE  /\ Doc(u) \in Id /\ <<u, 1>> \in Id /\ Doc(u) # <<u, 1>>
           /\ Doc(u)[1] = u /\ <<u, 1>>[1] = u
           /\ IdsOf(u) \subseteq Id /\ \A id \in IdsOf(u) : id[1] = u
           /\ \A id \in Id : id[1] = u => id \in IdsOf(u)
           /\ \A id \in Id : id[1] \in Url
  BY DEF Id, Doc, IdsOf

LEMMA AddStepsType ==
    ASSUME IndexEngineAssumption, NEW id \in Id, NEW v \in 1..MaxVersion
    PROVE  AddSteps(id, v) \in TaskList
<1> DEFINE a == Step("shard", id, v)
           b == Step("invert", id, v)
           c == Step("embed", id, v)
           d == Step("vector", id, v)
<1>1. v \in Version /\ v # 0
  BY VersionFacts
<1>2. /\ a \in Task /\ b \in Task /\ c \in Task /\ d \in Task
      /\ a.do = "shard" /\ b.do = "invert" /\ c.do = "embed" /\ d.do = "vector"
  BY <1>1, StepType, StepFields DEF Deletes, Dos, Adds
<1>3. AddSteps(id, v) = <<a, b, c, d>>
  BY DEF AddSteps
<1> HIDE DEF a, b, c, d
<1> DEFINE s == <<a, b, c, d>>
<1>4. s \in Seq(Task) /\ DOMAIN s = 1..4 /\ s[1] = a /\ s[2] = b /\ s[3] = c /\ s[4] = d
  BY <1>2
<1> HIDE DEF s
<1>5. \A k \in DOMAIN s : s[k].do = "embed" => k = 3
  BY <1>2, <1>4
<1>6. 3 + 1 \in DOMAIN s /\ s[3 + 1].do = "vector"
  BY <1>2, <1>4
<1>7. s \in TaskList
  BY <1>4, <1>5, <1>6 DEF TaskList
<1> QED
  BY <1>3, <1>7 DEF s

LEMMA DirectStepsType ==
    ASSUME IndexEngineAssumption, NEW u \in Url, NEW v \in 1..MaxVersion
    PROVE  DirectSteps(u, v) \in TaskList
<1> DEFINE a == Step("shard", Doc(u), v)
           b == Step("capture", Doc(u), 0)
           c == Step("invertCaptured", Doc(u), v)
           d == Step("embed", Doc(u), v)
           e == Step("vector", Doc(u), v)
<1>1. v \in Version /\ v # 0 /\ 0 \in Version /\ Doc(u) \in Id
  BY VersionFacts, IdFacts
<1>2. /\ a \in Task /\ b \in Task /\ c \in Task /\ d \in Task /\ e \in Task
      /\ a.do = "shard" /\ b.do = "capture" /\ c.do = "invertCaptured"
      /\ d.do = "embed" /\ e.do = "vector"
  BY <1>1, StepType, StepFields DEF Deletes, Dos, Adds
<1>3. DirectSteps(u, v) = <<a, b, c, d, e>>
  BY DEF DirectSteps
<1> HIDE DEF a, b, c, d, e
<1> DEFINE s == <<a, b, c, d, e>>
<1>4. s \in Seq(Task) /\ DOMAIN s = 1..5 /\ s[1] = a /\ s[2] = b /\ s[3] = c /\ s[4] = d /\ s[5] = e
  BY <1>2
<1> HIDE DEF s
<1>5. \A k \in DOMAIN s : s[k].do = "embed" => k = 4
  BY <1>2, <1>4
<1>6. 4 + 1 \in DOMAIN s /\ s[4 + 1].do = "vector"
  BY <1>2, <1>4
<1>7. s \in TaskList
  BY <1>4, <1>5, <1>6 DEF TaskList
<1> QED
  BY <1>3, <1>7 DEF s

LEMMA ForgetStepType ==
    ASSUME IndexEngineAssumption, NEW u \in Url
    PROVE  <<Step("forget", Doc(u), 0)>> \in TaskList
<1>1. "forget" \in Dos /\ 0 \in Version /\ Doc(u) \in Id
  BY VersionFacts, IdFacts DEF Dos
<1>2. Step("forget", Doc(u), 0) \in Task /\ Step("forget", Doc(u), 0).do = "forget"
  BY <1>1, StepType, StepFields
<1> QED
  BY <1>2, OneTask

LEMMA IndexStepsType ==
    ASSUME IndexEngineAssumption, NEW u \in Url, NEW v \in 1..MaxVersion
    PROVE  IndexSteps(u, v) \in TaskList
<1> DEFINE a == <<Step("forget", Doc(u), 0)>>
           b == AddSteps(Doc(u), v)
           c == <<Step("parents", Doc(u), v)>>
           d == IF v \in Long THEN AddSteps(<<u, 1>>, v) ELSE << >>
           e == <<Step("save", Doc(u), v)>>
<1>1. a \in TaskList /\ b \in TaskList /\ d \in TaskList
  BY ForgetStepType, AddStepsType, IdFacts, NoTask
<1>2. c \in TaskList /\ e \in TaskList
  <2>1. ASSUME NEW do \in {"parents", "save"}
        PROVE  Step(do, Doc(u), v) \in Task /\ Step(do, Doc(u), v).do # "embed"
    BY VersionFacts, IdFacts, StepType, StepFields DEF Deletes, Dos, Adds
  <2> QED
    BY <2>1, OneTask
<1>3. IndexSteps(u, v) = a \o b \o c \o d \o e
  BY DEF IndexSteps
<1> HIDE DEF a, b, c, d, e
<1>4. a \o b \in TaskList
  BY <1>1, ListConcat
<1>5. (a \o b) \o c \in TaskList
  BY <1>2, <1>4, ListConcat
<1>6. ((a \o b) \o c) \o d \in TaskList
  BY <1>1, <1>5, ListConcat
<1>7. (((a \o b) \o c) \o d) \o e \in TaskList
  BY <1>2, <1>6, ListConcat
<1> QED
  BY <1>3, <1>7

LEMMA DeleteStepsType ==
    ASSUME IndexEngineAssumption, NEW u \in Url, NEW chunks \in {{}, {<<u, 1>>}}
    PROVE  /\ DeleteSteps(u, chunks) \in TaskList
           /\ \A k \in DOMAIN DeleteSteps(u, chunks) : DeleteSteps(u, chunks)[k].id \in IdsOf(u)
<1>1. ASSUME NEW do \in Deletes, NEW id \in IdsOf(u)
      PROVE  Step(do, id, 0) \in Task /\ Step(do, id, 0).do # "embed" /\ Step(do, id, 0).id \in IdsOf(u)
  <2>1. do \in Dos /\ do # "embed" /\ do \notin {"invert", "invertCaptured"}
    BY DEF Dos, Deletes
  <2>2. 0 \in Version /\ id \in Id
    BY VersionFacts, IdFacts
  <2> QED
    BY <2>1, <2>2, StepType, StepFields
<1>2. Doc(u) \in IdsOf(u) /\ <<u, 1>> \in IdsOf(u)
  BY DEF IdsOf
<1> DEFINE good == {x \in Task : x.do # "embed" /\ x.id \in IdsOf(u)}
<1>3. ASSUME NEW s \in Seq(good)
      PROVE  s \in TaskList /\ \A k \in DOMAIN s : s[k].id \in IdsOf(u)
  BY DEF TaskList
<1>4. \A do \in Deletes, id \in IdsOf(u) : Step(do, id, 0) \in good
  BY <1>1
<1> HIDE DEF good
<1>5. DeleteOnlyDocument(u, {}) \in Seq(good)
  BY <1>2, <1>4 DEF DeleteOnlyDocument, Deletes
<1>6. DeleteAll(u, <<u, 1>>) \in Seq(good)
  BY <1>2, <1>4 DEF DeleteAll, Deletes
<1> QED
  BY <1>3, <1>5, <1>6, DeleteStepsAre

-----------------------------------------------------------------------------
(* What the actions do to the request they are of *)

Fields == {"op", "todo", "fresh", "url"}
Moved(r, rest, fresh) ==
    /\ request' = [s \in Request |-> request'[s]]
    /\ \A s \in Request : s # r => request'[s] = request[s]
    /\ DOMAIN request'[r] = Fields
    /\ request'[r].todo = rest /\ request'[r].fresh \in BOOLEAN
    /\ rest # << >> => /\ request'[r].op = request[r].op /\ request'[r].url = request[r].url
                       /\ request'[r].fresh = fresh

LEMMA IdleFields == DOMAIN Idle = Fields /\ Idle.todo = << >> /\ Idle.fresh = FALSE
  BY DEF Idle, Fields

LEMMA AfterFields ==
    ASSUME NEW q, DOMAIN q = Fields, q.fresh \in BOOLEAN, NEW todo
    PROVE  /\ DOMAIN After(q, todo) = Fields /\ After(q, todo).todo = todo
           /\ After(q, todo).fresh \in BOOLEAN
           /\ todo # << >> => /\ After(q, todo).op = q.op /\ After(q, todo).url = q.url
                              /\ After(q, todo).fresh = q.fresh
<1>1. CASE todo = << >>
  BY <1>1, IdleFields DEF After
<1>2. CASE todo # << >>
  <2>1. After(q, todo) = [q EXCEPT !.todo = todo]
    BY <1>2 DEF After
  <2> QED
    BY <1>2, <2>1 DEF Fields
<1> QED
  BY <1>1, <1>2

LEMMA AfterMoves ==
    ASSUME TypeInv, NEW r \in Request, NEW todo,
           request' = [request EXCEPT ![r] = After(request[r], todo)]
    PROVE  Moved(r, todo, request[r].fresh)
<1>1. DOMAIN request[r] = Fields /\ request[r].fresh \in BOOLEAN /\ request = [s \in Request |-> request[s]]
  BY DEF TypeInv, Fields
<1>2. /\ request' = [s \in Request |-> request'[s]]
      /\ \A s \in Request : s # r => request'[s] = request[s]
      /\ request'[r] = After(request[r], todo)
  BY <1>1
<1> QED
  BY <1>1, <1>2, AfterFields DEF Moved

LEMMA DidMoves ==
    ASSUME TypeInv, NEW r \in Request, Did(r)
    PROVE  Moved(r, Tail(request[r].todo), request[r].fresh)
BY AfterMoves DEF Did

LEMMA CaptureMoves ==
    ASSUME TypeInv, NEW r \in Request, Capture(r)
    PROVE  Moved(r, Tail(request[r].todo), TRUE)
<1>1. /\ DOMAIN request[r] = Fields /\ request = [s \in Request |-> request[s]]
  BY DEF TypeInv, Fields
<1> PICK x : x = Tail(request[r].todo)
  OBVIOUS
<1>2. request' = [request EXCEPT ![r] = [request[r] EXCEPT !.todo = x, !.fresh = TRUE]]
  BY <1>1 DEF Capture
<1>3. /\ request' = [s \in Request |-> request'[s]]
      /\ \A s \in Request : s # r => request'[s] = request[s]
      /\ request'[r] = [request[r] EXCEPT !.todo = x, !.fresh = TRUE]
  BY <1>1, <1>2
<1>4. /\ DOMAIN request'[r] = Fields /\ request'[r].todo = x /\ request'[r].fresh = TRUE
      /\ request'[r].op = request[r].op /\ request'[r].url = request[r].url
  BY <1>1, <1>3 DEF Fields
<1> QED
  BY <1>3, <1>4 DEF Moved

LEMMA EmbedMoves ==
    ASSUME TypeInv, NEW r \in Request, Embed(r)
    PROVE  \/ Moved(r, Tail(request[r].todo), TRUE)
           \/ Moved(r, Tail(Tail(request[r].todo)), request[r].fresh)
<1>1. /\ DOMAIN request[r] = Fields /\ request[r].todo \in TaskList /\ request[r].fresh \in BOOLEAN
      /\ request = [s \in Request |-> request[s]]
  BY DEF TypeInv, Fields
<1>2. request[r].todo # << >> /\ Head(request[r].todo).do = "embed"
  BY DEF Embed, Now
<1>3. CASE request' = [request EXCEPT ![r].todo = Tail(@), ![r].fresh = TRUE]
  <2> PICK x : x = Tail(request[r].todo)
    OBVIOUS
  <2>1. /\ request' = [s \in Request |-> request'[s]]
        /\ \A s \in Request : s # r => request'[s] = request[s]
        /\ request'[r] = [request[r] EXCEPT !.todo = x, !.fresh = TRUE]
    BY <1>1, <1>3
  <2>2. /\ DOMAIN request'[r] = Fields /\ request'[r].todo = x /\ request'[r].fresh = TRUE
        /\ request'[r].op = request[r].op /\ request'[r].url = request[r].url
    BY <1>1, <2>1 DEF Fields
  <2> QED
    BY <2>1, <2>2 DEF Moved
<1>4. CASE request' = [request EXCEPT ![r] = After(request[r], Tail(Tail(request[r].todo)))]
  BY <1>4, AfterMoves
<1> QED
  BY <1>3, <1>4 DEF Embed

LEMMA ForgetMoves ==
    ASSUME TypeInv, NEW r \in Request, Forget(r)
    PROVE  LET u == It(r).id[1]
           IN  Moved(r, DeleteSteps(u, parentChunks[u]) \o Tail(request[r].todo), request[r].fresh)
<1>1. /\ DOMAIN request[r] = Fields /\ request = [s \in Request |-> request[s]]
      /\ request[r].fresh \in BOOLEAN
  BY DEF TypeInv, Fields
<1> PICK x : x = DeleteSteps(It(r).id[1], parentChunks[It(r).id[1]]) \o Tail(request[r].todo)
  OBVIOUS
<1>2. request' = [request EXCEPT ![r].todo = x]
  BY DEF Forget
<1>3. /\ request' = [s \in Request |-> request'[s]]
      /\ \A s \in Request : s # r => request'[s] = request[s]
      /\ request'[r] = [request[r] EXCEPT !.todo = x]
  BY <1>1, <1>2
<1>4. /\ DOMAIN request'[r] = Fields /\ request'[r].todo = x /\ request'[r].fresh = request[r].fresh
      /\ request'[r].op = request[r].op /\ request'[r].url = request[r].url
  BY <1>1, <1>3 DEF Fields
<1> QED
  BY <1>1, <1>3, <1>4 DEF Moved

\* The task a request is at, and its list after the task is done.
LEMMA CurrentTask ==
    ASSUME TypeInv, NEW r \in Request, request[r].todo # << >>
    PROVE  /\ It(r) \in Task /\ It(r).id \in Id /\ It(r).v \in Version
           /\ It(r).do \in {"invert", "invertCaptured"} => It(r).v # 0
           /\ Tail(request[r].todo) \in TaskList
<1>1. request[r].todo \in TaskList
  BY DEF TypeInv
<1>2. It(r) \in Task /\ Tail(request[r].todo) \in TaskList
  BY <1>1, ListTail DEF It
<1> QED
  BY <1>2 DEF Task

\* Of the requests, TypeInv says this.
RequestsOK ==
    /\ request = [r \in Request |-> request[r]]
    /\ \A r \in Request : /\ DOMAIN request[r] = {"op", "todo", "fresh", "url"}
                          /\ request[r].todo \in TaskList /\ request[r].fresh \in BOOLEAN

LEMMA MovedType ==
    ASSUME TypeInv, NEW r \in Request, NEW rest \in TaskList, NEW fresh, Moved(r, rest, fresh)
    PROVE  RequestsOK'
  BY DEF TypeInv, RequestsOK, Moved, Fields

LEMMA WorkType ==
    ASSUME IndexEngineAssumption, TypeInv, NEW r \in Request, Work(r)
    PROVE  RequestsOK'
<1>1. request[r].todo # << >> /\ request[r].todo \in TaskList
  BY DEF TypeInv, Work, Forget, Shard, Capture, Uninvert, Invert, InvertCaptured, Embed, Vector, Parents, Save, Now
<1>2. Tail(request[r].todo) \in TaskList /\ It(r).id \in Id
  BY <1>1, CurrentTask
<1>3. ASSUME Did(r) PROVE RequestsOK'
  BY <1>1, <1>2, <1>3, DidMoves, MovedType
<1>4. CASE Forget(r)
  <2>1. It(r).id[1] \in Url
    BY <1>2 DEF Id
  <2>2. parentChunks[It(r).id[1]] \in {{}, {<<It(r).id[1], 1>>}}
    BY <2>1 DEF TypeInv
  <2>3. DeleteSteps(It(r).id[1], parentChunks[It(r).id[1]]) \o Tail(request[r].todo) \in TaskList
    BY <1>2, <2>1, <2>2, DeleteStepsType, ListConcat
  <2> QED
    BY <1>4, <2>3, ForgetMoves, MovedType
<1>5. CASE Capture(r)
  BY <1>2, <1>5, CaptureMoves, MovedType
<1>6. CASE Embed(r)
  <2>1. Head(request[r].todo).do = "embed"
    BY <1>6 DEF Embed, Now
  <2>2. Tail(Tail(request[r].todo)) \in TaskList
    BY <1>1, <2>1, ListTail
  <2> QED
    BY <1>2, <1>6, <2>2, EmbedMoves, MovedType
<1> QED
  BY <1>3, <1>4, <1>5, <1>6 DEF Work, Shard, Uninvert, Invert, InvertCaptured, Vector, Parents, Save

-----------------------------------------------------------------------------
(* The type invariant *)

LEMMA InitType ==
    ASSUME IndexEngineAssumption, Init
    PROVE  TypeInv
<1>1. None \in [Id -> Version] /\ 0 \in Version
  BY VersionFacts DEF None
<1>2. DOMAIN Idle = {"op", "todo", "fresh", "url"} /\ Idle.todo \in TaskList /\ Idle.fresh \in BOOLEAN
  BY IdleFields, NoTask DEF Fields
<1>3. \A r \in Request : request[r] = Idle
  BY DEF Init
<1>4. DOMAIN janitor = {"step", "docs"} /\ janitor.step = "idle" /\ janitor.docs \in [Url -> Version]
  BY <1>1 DEF Init, NoJanitor
<1>5. DOMAIN snapshot = {"inv", "vec"} /\ snapshot.inv.of = NewInvertedIndex /\ snapshot.vec.of = None
  BY DEF Init, NoFile
<1> QED
  BY <1>1, <1>2, <1>3, <1>4, <1>5, NewIndexCounts DEF Init, TypeInv

LEMMA BeginType ==
    ASSUME TypeInv, NEW r \in Request, NEW op, NEW u, NEW todo \in TaskList, NEW apart,
           u \in Url, Begin(r, op, u, todo, apart)
    PROVE  TypeInv'
<1>1. /\ request' = [request EXCEPT ![r] = [op |-> op, todo |-> todo, fresh |-> FALSE, url |-> u]]
      /\ astray' \subseteq Url
      /\ UNCHANGED <<inv, vec, trie, shards, parentChunks, store, janitor, snapshot, phase>>
  BY DEF TypeInv, Begin, engineVars
<1>2. RequestsOK'
  BY <1>1 DEF TypeInv, RequestsOK
<1> QED
  BY <1>1, <1>2 DEF TypeInv, RequestsOK

LEMMA WorkIsTyped ==
    ASSUME IndexEngineAssumption, TypeInv, NEW r \in Request, Work(r)
    PROVE  TypeInv'
<1>1. RequestsOK'
  BY WorkType
<1>2. request[r].todo # << >>
  BY DEF TypeInv, Work, Forget, Shard, Capture, Uninvert, Invert, InvertCaptured, Embed, Vector, Parents, Save, Now
<1>3. /\ It(r).id \in Id /\ It(r).v \in Version /\ It(r).id[1] \in Url
      /\ It(r).do \in {"invert", "invertCaptured"} => It(r).v # 0
  BY <1>2, CurrentTask DEF Id
<1>4. It(r) = Head(request[r].todo)
  BY DEF It
<1>5. CASE Forget(r)
  BY <1>1, <1>3, <1>5 DEF TypeInv, RequestsOK, Forget, Rest
<1>6. CASE Shard(r)
  BY <1>1, <1>3, <1>6 DEF TypeInv, RequestsOK, Shard, Rest
<1>7. CASE Capture(r)
  BY <1>1, <1>7 DEF TypeInv, RequestsOK, Capture, engineVars, Rest
<1>8. CASE Uninvert(r)
  <2>1. IndexOK(inv')
    BY <1>3, <1>8, DeleteProperties DEF TypeInv, Uninvert
  <2> QED
    BY <1>1, <1>8, <2>1 DEF TypeInv, RequestsOK, Uninvert, Rest
<1>9. CASE Invert(r) \/ InvertCaptured(r)
  <2>1. It(r).v \in Version \ {0}
    BY <1>3, <1>4, <1>9 DEF Invert, InvertCaptured, Now
  <2>2. IndexOK(AddDocument(inv, It(r).id, It(r).v))
    BY <1>3, <2>1, AddProperties DEF TypeInv
  <2>3. IndexOK(inv')
    BY <1>9, <2>2 DEF TypeInv, Invert, InvertCaptured
  <2> QED
    BY <1>1, <1>9, <2>3 DEF TypeInv, RequestsOK, Invert, InvertCaptured, Rest
<1>10. CASE Embed(r)
  BY <1>1, <1>10 DEF TypeInv, RequestsOK, Embed, engineVars, Rest
<1>11. CASE Vector(r)
  <2>1. vec' \in [Id -> Version]
    BY <1>3, <1>11 DEF TypeInv, Vector
  <2> QED
    BY <1>1, <1>11, <2>1 DEF TypeInv, RequestsOK, Vector, Rest
<1>12. CASE Parents(r)
  <2>1. DOMAIN parentChunks' = Url /\ \A u \in Url : parentChunks'[u] \in {{}, {<<u, 1>>}}
    BY <1>3, <1>12 DEF TypeInv, Parents, Chunks
  <2> QED
    BY <1>1, <1>12, <2>1 DEF TypeInv, RequestsOK, Parents, Rest
<1>13. CASE Save(r)
  <2>1. store' \in [Url -> Version] /\ astray' \subseteq Url
    BY <1>3, <1>13 DEF TypeInv, Save
  <2> QED
    BY <1>1, <1>13, <2>1 DEF TypeInv, RequestsOK, Save, engineVars
<1> QED
  BY <1>5, <1>6, <1>7, <1>8, <1>9, <1>10, <1>11, <1>12, <1>13 DEF Work

LEMMA JanitorIsTyped ==
    ASSUME IndexEngineAssumption, TypeInv, Expire \/ ReadStore \/ ReadStoreFails \/ Swap
    PROVE  TypeInv'
<1>1. NoJanitor.step = "idle" /\ NoJanitor.docs \in [Url -> Version] /\ DOMAIN NoJanitor = {"step", "docs"}
  BY VersionFacts DEF NoJanitor
<1>2. CASE Expire
  <2>1. store' \in [Url -> Version] /\ astray' \subseteq Url
    BY <1>2, VersionFacts DEF TypeInv, Expire
  <2>2. DOMAIN janitor' = {"step", "docs"} /\ janitor'.step = "expired" /\ janitor'.docs = janitor.docs
    BY <1>2 DEF TypeInv, Expire
  <2> QED
    BY <1>2, <2>1, <2>2 DEF TypeInv, Expire, engineVars
<1>3. CASE ReadStore
  BY <1>3 DEF TypeInv, ReadStore, engineVars
<1>4. CASE ReadStoreFails
  BY <1>1, <1>4 DEF TypeInv, ReadStoreFails, engineVars
<1>5. CASE Swap
  <2>1. janitor.docs \in [Url -> Version]
    BY DEF TypeInv
  <2>2. IndexOK(inv') /\ shards' \in [Id -> Version] /\ vec' \in [Id -> Version]
    <3>1. None \in [Id -> Version]
      BY VersionFacts DEF None
    <3> QED
      BY <1>5, <2>1, <3>1, BuiltProperties DEF Swap
  <2>3. DOMAIN parentChunks' = Url /\ \A u \in Url : parentChunks'[u] \in {{}, {<<u, 1>>}}
    BY <1>5 DEF Swap, BuiltParents, Chunks
  <2>4. request' = [r \in Request |-> request'[r]]
    BY <1>5 DEF Swap
  <2>5. ASSUME NEW r \in Request
        PROVE  /\ DOMAIN request'[r] = {"op", "todo", "fresh", "url"}
               /\ request'[r].todo \in TaskList /\ request'[r].fresh \in BOOLEAN
    <3>1. request'[r] = [request[r] EXCEPT !.fresh = FALSE]
      BY <1>5 DEF Swap
    <3>2. DOMAIN request[r] = {"op", "todo", "fresh", "url"} /\ request[r].todo \in TaskList
      BY DEF TypeInv
    <3> QED
      BY <3>1, <3>2
  <2>6. astray' \subseteq Url /\ janitor' = NoJanitor /\ UNCHANGED <<store, snapshot, phase>>
    BY <1>5 DEF TypeInv, Swap
  <2>7. DOMAIN janitor' = {"step", "docs"} /\ janitor'.step = "idle" /\ janitor'.docs \in [Url -> Version]
    BY <1>1, <2>6
  <2> QED
    BY <2>2, <2>3, <2>4, <2>5, <2>6, <2>7 DEF TypeInv
<1> QED
  BY <1>2, <1>3, <1>4, <1>5

LEMMA HydrateList ==
    ASSUME IndexEngineAssumption, TypeInv, NEW docs,
           docs \in {SetToSeq({u \in Url : store[u] # 0}), << >>}
    PROVE  FlattenSeq([i \in DOMAIN docs |-> DirectSteps(docs[i], store[docs[i]])]) \in TaskList
<1> DEFINE S == {u \in Url : store[u] # 0}
           seqs == [i \in DOMAIN docs |-> DirectSteps(docs[i], store[docs[i]])]
<1>1. IsFiniteSet(S)
  BY FS_Subset DEF IndexEngineAssumption
<1>2. docs \in Seq(S)
  BY <1>1, SetToSeqType, EmptySeq
<1>3. \A u \in S : store[u] \in 1..MaxVersion
  BY VersionFacts DEF TypeInv
<1>4. ASSUME NEW i \in DOMAIN docs
      PROVE  DirectSteps(docs[i], store[docs[i]]) \in TaskList
  <2>1. docs[i] \in S
    BY <1>2, ElementOfSeq, LenProperties
  <2>2. docs[i] \in Url /\ store[docs[i]] \in 1..MaxVersion
    BY <1>3, <2>1
  <2> QED
    BY <2>2, DirectStepsType
<1>5. DOMAIN docs = 1..Len(docs) /\ Len(docs) \in Nat
  BY <1>2, LenProperties
<1>6. seqs \in Seq(TaskList)
  BY <1>4, <1>5
<1>7. TaskList \in SUBSET Seq(Task)
  BY DEF TaskList
<1> HIDE DEF seqs
<1>8. FlattenSeq(seqs) \in TaskList
  BY <1>6, <1>7, FlattenType, ListConcat, NoTask
<1> QED
  BY <1>8 DEF seqs

LEMMA StartRequests ==
    ASSUME IndexEngineAssumption, TypeInv, Start
    PROVE  /\ RequestsOK'
           /\ \A r \in Request : r # Hydrating => request'[r] = request[r]
<1>1. PICK readStore \in BOOLEAN :
          LET docs == IF readStore THEN SetToSeq({u \in Url : store[u] # 0}) ELSE << >>
              todo == FlattenSeq([i \in DOMAIN docs |-> DirectSteps(docs[i], store[docs[i]])])
          IN  request' = [request EXCEPT ![Hydrating] = [Idle EXCEPT !.op = "hydrate", !.todo = todo]]
  BY DEF Start
<1> DEFINE docs == IF readStore THEN SetToSeq({u \in Url : store[u] # 0}) ELSE << >>
           todo == FlattenSeq([i \in DOMAIN docs |-> DirectSteps(docs[i], store[docs[i]])])
           q == [Idle EXCEPT !.op = "hydrate", !.todo = todo]
<1>2. docs \in {SetToSeq({u \in Url : store[u] # 0}), << >>}
  OBVIOUS
<1>3. request' = [request EXCEPT ![Hydrating] = q]
  BY <1>1
<1> HIDE DEF docs
<1>4. todo \in TaskList
  BY <1>2, HydrateList
<1> HIDE DEF todo
<1>5. DOMAIN q = {"op", "todo", "fresh", "url"} /\ q.todo \in TaskList /\ q.fresh \in BOOLEAN
  BY <1>4, IdleFields DEF Fields
<1> HIDE DEF q
<1>6. request = [r \in Request |-> request[r]]
  BY DEF TypeInv
<1>7. request' = [r \in Request |-> IF r = Hydrating THEN q ELSE request[r]]
  BY <1>3, <1>6
<1> QED
  BY <1>5, <1>7 DEF RequestsOK, TypeInv

LEMMA ProcessIsTyped ==
    ASSUME IndexEngineAssumption, TypeInv,
           Start \/ Serve \/ SaveInverted \/ SaveVectors \/ Exit
    PROVE  TypeInv'
<1>1. None \in [Id -> Version]
  BY VersionFacts DEF None
<1>2. CASE Start
  <2>1. IndexOK(inv')
    <3>1. IndexOK(LoadSnapshot(snapshot.inv.of))
      <4>1. IndexOK(snapshot.inv.of)
        BY DEF TypeInv
      <4> PICK i : i = snapshot.inv.of
        OBVIOUS
      <4> PICK a : a = LoadSnapshot(i)
        OBVIOUS
      <4>2. /\ i.len \in [Id -> Version] /\ i.post \in [Version -> [Id -> Version]]
            /\ i.docs \in Nat /\ i = [post |-> i.post, len |-> i.len, docs |-> i.docs, blind |-> i.blind]
        BY <4>1 DEF IndexOK, Indexes
      <4>3. a = [post |-> i.post, len |-> i.len, docs |-> i.docs, blind |-> Version]
        BY <4>2 DEF LoadSnapshot
      <4>4. a \in Indexes /\ a.len = i.len /\ a.docs = i.docs
        BY <4>2, <4>3 DEF Indexes
      <4>5. IndexOK(a)
        BY <4>1, <4>4 DEF IndexOK, Counted
      <4> QED
        BY <4>5
    <3>2. inv' \in {LoadSnapshot(snapshot.inv.of), NewInvertedIndex}
      BY <1>2 DEF Start
    <3> QED
      BY <3>1, <3>2, NewIndexCounts
  <2>2. vec' \in [Id -> Version] /\ shards' \in [Id -> Version]
    <3>1. vec' \in {snapshot.vec.of, None} /\ shards' = None
      BY <1>2 DEF Start
    <3> QED
      BY <1>1, <3>1 DEF TypeInv
  <2>3. /\ DOMAIN parentChunks' = Url /\ \A u \in Url : parentChunks'[u] = {}
        /\ astray' = Url /\ UNCHANGED <<store, janitor, snapshot>> /\ phase' = "hydrating"
    BY <1>2 DEF Start
  <2>4. RequestsOK'
    BY <1>2, StartRequests
  <2> QED
    BY <2>1, <2>2, <2>3, <2>4 DEF TypeInv, RequestsOK
<1>3. CASE Serve
  BY <1>3 DEF TypeInv, Serve, engineVars
<1>4. CASE SaveInverted
  <2>1. DOMAIN snapshot' = {"inv", "vec"} /\ IndexOK(snapshot'.inv.of) /\ snapshot'.vec.of \in [Id -> Version]
    BY <1>4 DEF TypeInv, SaveInverted, engineVars
  <2> QED
    BY <1>4, <2>1 DEF TypeInv, SaveInverted, engineVars
<1>5. CASE SaveVectors
  <2>1. DOMAIN snapshot' = {"inv", "vec"} /\ IndexOK(snapshot'.inv.of) /\ snapshot'.vec.of \in [Id -> Version]
    BY <1>5 DEF TypeInv, SaveVectors, engineVars
  <2> QED
    BY <1>5, <2>1 DEF TypeInv, SaveVectors, engineVars
<1>6. CASE Exit
  <2>1. /\ inv' = NewInvertedIndex /\ vec' = None /\ shards' = None
        /\ DOMAIN parentChunks' = Url /\ \A u \in Url : parentChunks'[u] = {}
        /\ janitor' = NoJanitor /\ UNCHANGED <<store, snapshot, astray>> /\ phase' = "down"
        /\ request' = [r \in Request |-> request'[r]] /\ \A r \in Request : request'[r] = Idle
    BY <1>6 DEF Exit
  <2>2. DOMAIN Idle = {"op", "todo", "fresh", "url"} /\ Idle.todo \in TaskList /\ Idle.fresh \in BOOLEAN
    BY IdleFields, NoTask DEF Fields
  <2>3. DOMAIN janitor' = {"step", "docs"} /\ janitor'.step = "idle" /\ janitor'.docs \in [Url -> Version]
    BY <2>1, VersionFacts DEF NoJanitor
  <2> QED
    BY <1>1, <2>1, <2>2, <2>3, NewIndexCounts DEF TypeInv
<1> QED
  BY <1>2, <1>3, <1>4, <1>5, <1>6

LEMMA TypeStep ==
    ASSUME IndexEngineAssumption, TypeInv, [Next]_vars
    PROVE  TypeInv'
<1>1. CASE Next
  <2>1. ASSUME NEW r \in Request, BeginIndex(r)
        PROVE  TypeInv'
    BY <2>1, BeginType, IndexStepsType DEF BeginIndex
  <2>2. ASSUME NEW r \in Request, BeginDelete(r)
        PROVE  TypeInv'
    BY <2>2, BeginType, ForgetStepType DEF BeginDelete
  <2>3. ASSUME NEW r \in Request, BeginDirect(r)
        PROVE  TypeInv'
    BY <2>3, BeginType, DirectStepsType DEF BeginDirect
  <2>4. ASSUME NEW r \in Request, BeginIncremental(r)
        PROVE  TypeInv'
    <3>1. PICK u \in Url : store[u] # 0 /\ Begin(r, "incremental", u, DirectSteps(u, store[u]), TRUE)
      BY <2>4 DEF BeginIncremental
    <3>2. store[u] \in 1..MaxVersion
      BY <3>1, VersionFacts DEF TypeInv
    <3> QED
      BY <3>1, <3>2, BeginType, DirectStepsType
  <2> QED
    BY <1>1, <2>1, <2>2, <2>3, <2>4, WorkIsTyped, JanitorIsTyped, ProcessIsTyped DEF Next
<1>2. CASE UNCHANGED vars
  BY <1>2 DEF vars, engineVars, TypeInv
<1> QED
  BY <1>1, <1>2

-----------------------------------------------------------------------------
(* Ghosts, and the count of documents *)

GhostsOf(i) == \E t \in Version, id \in Id : i.post[t][id] # 0 /\ i.len[id] = 0

LEMMA GhostStep ==
    ASSUME IndexEngineAssumption, TypeInv, GhostInv, [Next]_vars
    PROVE  GhostInv'
<1>1. SUFFICES /\ astray = Url => astray' = Url \/ (inv'.blind = {} /\ ~GhostsOf(inv'))
               /\ inv'.blind # {} => inv.blind # {} \/ astray' = Url
               /\ inv.blind = {} /\ GhostsOf(inv') => GhostsOf(inv) \/ astray' = Url
  BY DEF GhostInv, Ghosts, GhostsOf
<1>2. CASE UNCHANGED inv /\ astray \subseteq astray' /\ astray' \subseteq Url
  BY <1>2
<1>3. CASE \E r \in Request : BeginIndex(r) \/ BeginDelete(r) \/ BeginDirect(r) \/ BeginIncremental(r)
  <2>1. UNCHANGED inv
    BY <1>3 DEF BeginIndex, BeginDelete, BeginDirect, BeginIncremental, Begin, engineVars
  <2>2. astray \subseteq astray' /\ astray' \subseteq Url
    BY <1>3 DEF TypeInv, BeginIndex, BeginDelete, BeginDirect, BeginIncremental, Begin
  <2> QED
    BY <1>2, <2>1, <2>2
<1>4. ASSUME NEW r \in Request, Work(r)
      PROVE  /\ astray = Url => astray' = Url
             /\ inv'.blind # {} => inv.blind # {}
             /\ inv.blind = {} /\ GhostsOf(inv') => GhostsOf(inv)
  <2>1. request[r].todo # << >> /\ It(r) = Head(request[r].todo)
    BY <1>4 DEF Work, Forget, Shard, Capture, Uninvert, Invert, InvertCaptured, Embed, Vector,
                Parents, Save, Now, It
  <2>2. /\ It(r).id \in Id /\ It(r).v \in Version /\ It(r).id[1] \in Url
        /\ It(r).do \in {"invert", "invertCaptured"} => It(r).v # 0
    BY <2>1, CurrentTask DEF Id
  <2>3. IndexOK(inv) /\ astray \subseteq Url
    BY DEF TypeInv
  <2>4. CASE Uninvert(r)
    <3>1. UNCHANGED astray
      BY <2>4 DEF Uninvert, Rest
    <3>2. CASE inv' = inv
      BY <3>1, <3>2
    <3>3. CASE inv' # inv
      <4>1. inv' = DeleteDocument(inv, It(r).id) /\ inv.len[It(r).id] # 0
        BY <2>2, <2>3, <2>4, <3>3, DeleteProperties DEF Uninvert
      <4>2. /\ inv'.blind = inv.blind /\ inv'.len = [inv.len EXCEPT ![It(r).id] = 0]
            /\ inv.blind = {} => \A t \in Version, d \in Id :
                   inv'.post[t][d] = IF d = It(r).id THEN 0 ELSE inv.post[t][d]
        BY <2>2, <2>3, <4>1, DeleteProperties
      <4>3. \A d \in Id : d # It(r).id => inv'.len[d] = inv.len[d]
        BY <2>3, <4>2 DEF IndexOK, Indexes
      <4> QED
        BY <3>1, <4>2, <4>3 DEF GhostsOf
    <3> QED
      BY <3>2, <3>3
  <2>5. CASE Invert(r) \/ InvertCaptured(r)
    <3>1. UNCHANGED astray /\ It(r).v \in Version \ {0}
      BY <2>1, <2>2, <2>5 DEF Invert, InvertCaptured, Rest, Now
    <3>2. CASE inv' = inv
      BY <3>1, <3>2
    <3>3. CASE inv' = AddDocument(inv, It(r).id, It(r).v)
      <4>1. /\ inv'.blind \subseteq inv.blind /\ inv'.len = [inv.len EXCEPT ![It(r).id] = It(r).v]
            /\ \A t \in Version, d \in Id :
                   inv'.post[t][d] = IF d = It(r).id /\ t \in Terms(It(r).v) THEN It(r).v
                                     ELSE inv.post[t][d]
        BY <2>2, <2>3, <3>1, <3>3, AddProperties
      <4>2. /\ inv'.len[It(r).id] # 0
            /\ \A d \in Id : d # It(r).id => inv'.len[d] = inv.len[d]
        BY <2>2, <2>3, <3>1, <4>1 DEF IndexOK, Indexes
      <4> QED
        BY <3>1, <4>1, <4>2 DEF GhostsOf
    <3> QED
      BY <2>5, <3>2, <3>3 DEF Invert, InvertCaptured
  <2>6. CASE Forget(r) \/ Shard(r) \/ Capture(r) \/ Embed(r) \/ Vector(r) \/ Parents(r) \/ Save(r)
    <3>1. UNCHANGED inv
      BY <2>6 DEF Forget, Shard, Capture, Embed, Vector, Parents, Save, engineVars
    <3>2. astray \subseteq astray' /\ astray' \subseteq Url
      BY <2>2, <2>3, <2>6 DEF Forget, Shard, Capture, Embed, Vector, Parents, Save, Rest
    <3> QED
      BY <3>1, <3>2
  <2> QED
    BY <1>4, <2>4, <2>5, <2>6 DEF Work
<1>5. CASE Expire \/ ReadStore \/ ReadStoreFails
  BY <1>2, <1>5 DEF TypeInv, Expire, ReadStore, ReadStoreFails, engineVars
<1>6. CASE Swap
  <2>1. inv' = Built(janitor.docs) /\ janitor.docs \in [Url -> Version]
    BY <1>6 DEF Swap, TypeInv
  <2>2. /\ inv'.blind = {} /\ inv'.len = VersionOf(janitor.docs)
        /\ \A t \in Version, id \in Id :
              inv'.post[t][id] = IF t \in Terms(VersionOf(janitor.docs)[id])
                                 THEN VersionOf(janitor.docs)[id] ELSE 0
    BY <2>1, BuiltProperties
  <2>3. ~GhostsOf(inv')
    BY <2>2 DEF GhostsOf
  <2> QED
    BY <2>2, <2>3
<1>7. CASE Start
  BY <1>7 DEF Start
<1>8. CASE Serve \/ SaveInverted \/ SaveVectors
  BY <1>2, <1>8 DEF TypeInv, Serve, SaveInverted, SaveVectors, engineVars
<1>9. CASE Exit
  <2>1. inv' = NewInvertedIndex
    BY <1>9 DEF Exit
  <2> QED
    BY <2>1, NewIndexCounts DEF GhostsOf
<1>10. CASE UNCHANGED vars
  BY <1>2, <1>10 DEF TypeInv, vars, engineVars
<1> QED
  BY <1>3, <1>4, <1>5, <1>6, <1>7, <1>8, <1>9, <1>10 DEF Next

LEMMA CountFollows ==
    ASSUME TypeInv, GhostInv
    PROVE  CountIsRight
<1>1. inv.docs = Cardinality({id \in Id : inv.len[id] # 0})
  BY DEF TypeInv, IndexOK, Counted
<1>2. ASSUME \A u \in Url : u \notin astray, NEW t \in Version, NEW id \in Id, inv.post[t][id] # 0
      PROVE  inv.len[id] # 0
  <2>1. id[1] \in Url
    BY DEF Id
  <2> QED
    BY <1>2, <2>1 DEF GhostInv, Ghosts
<1> QED
  BY <1>1, <1>2 DEF CountIsRight

\* Whatever requests, rebuilds and starts do, every index and every snapshot has the
\* types the code gives them, and the count of documents is that of the lengths
\* (inverted.go: AddDocument, DeleteDocument, LoadSnapshot).
THEOREM EngineTypeOK ==
    ASSUME IndexEngineAssumption
    PROVE  Spec => []TypeInv
<1>1. Init => TypeInv
  BY InitType
<1>2. TypeInv /\ [Next]_vars => TypeInv'
  BY TypeStep
<1> QED
  BY <1>1, <1>2, PTL DEF Spec

\* BM25 divides by the number of documents that have a length, and without a start
\* from a snapshot no posting is left of a document without one (inverted.go).
THEOREM CountOfDocuments ==
    ASSUME IndexEngineAssumption
    PROVE  Spec => []CountIsRight
<1>1. Init => GhostInv
  BY NewIndexCounts DEF Init, GhostInv, Ghosts
<1>2. TypeInv /\ GhostInv /\ [Next]_vars => GhostInv'
  BY GhostStep
<1>3. TypeInv /\ GhostInv => CountIsRight
  BY CountFollows
<1>4. Spec => []TypeInv
  BY EngineTypeOK
<1> QED
  BY <1>1, <1>2, <1>3, <1>4, PTL DEF Spec

-----------------------------------------------------------------------------
(* The lists of IndexSteps and DeleteSteps, element by element *)

LEMMA AddStepsAre ==
    ASSUME NEW id, NEW v
    PROVE  LET s == AddSteps(id, v)
           IN  /\ Len(s) = 4 /\ DOMAIN s = 1..4
               /\ s[1] = Step("shard", id, v) /\ s[2] = Step("invert", id, v)
               /\ s[3] = Step("embed", id, v) /\ s[4] = Step("vector", id, v)
  BY DEF AddSteps

LEMMA Joined ==
    ASSUME NEW a \in TaskList, NEW b \in TaskList
    PROVE  /\ a \o b \in TaskList /\ Len(a \o b) = Len(a) + Len(b)
           /\ Len(a) \in Nat /\ Len(b) \in Nat
           /\ \A k \in 1..Len(a) : (a \o b)[k] = a[k]
           /\ \A k \in 1..Len(b) : (a \o b)[Len(a) + k] = b[k]
<1>1. a \in Seq(Task) /\ b \in Seq(Task)
  BY DEF TaskList
<1>2. /\ Len(a \o b) = Len(a) + Len(b) /\ Len(a) \in Nat /\ Len(b) \in Nat
      /\ DOMAIN a = 1..Len(a) /\ DOMAIN b = 1..Len(b)
      /\ \A k \in DOMAIN a : (a \o b)[k] = a[k]
      /\ \A k \in DOMAIN b : (a \o b)[Len(a) + k] = b[k]
  BY <1>1, ConcatElements
<1>3. a \o b \in TaskList
  BY ListConcat
<1> QED
  BY <1>2, <1>3

\* What is left of IndexSteps after the old version was forgotten.
RestSteps(u, v) ==
    AddSteps(Doc(u), v) \o <<Step("parents", Doc(u), v)>>
    \o (IF v \in Long THEN AddSteps(<<u, 1>>, v) ELSE << >>)
    \o <<Step("save", Doc(u), v)>>
RestLength(v) == IF v \in Long THEN 10 ELSE 6

LEMMA RestStepsAre ==
    ASSUME IndexEngineAssumption, NEW u \in Url, NEW v \in 1..MaxVersion
    PROVE  LET s == RestSteps(u, v)
           IN  /\ s \in TaskList
               /\ IndexSteps(u, v) # << >> /\ Head(IndexSteps(u, v)) = Step("forget", Doc(u), 0)
               /\ Tail(IndexSteps(u, v)) = s
               /\ Len(s) = RestLength(v) /\ DOMAIN s = 1..RestLength(v)
               /\ s[1] = Step("shard", Doc(u), v) /\ s[2] = Step("invert", Doc(u), v)
               /\ s[3] = Step("embed", Doc(u), v) /\ s[4] = Step("vector", Doc(u), v)
               /\ s[5] = Step("parents", Doc(u), v)
               /\ v \in Long => /\ s[6] = Step("shard", <<u, 1>>, v) /\ s[7] = Step("invert", <<u, 1>>, v)
                                /\ s[8] = Step("embed", <<u, 1>>, v) /\ s[9] = Step("vector", <<u, 1>>, v)
               /\ s[RestLength(v)] = Step("save", Doc(u), v)
<1> DEFINE f == <<Step("forget", Doc(u), 0)>>
           a == AddSteps(Doc(u), v)
           p == <<Step("parents", Doc(u), v)>>
           b == IF v \in Long THEN AddSteps(<<u, 1>>, v) ELSE << >>
           e == <<Step("save", Doc(u), v)>>
           m == IF v \in Long THEN 4 ELSE 0
<1>1. f \in TaskList /\ a \in TaskList /\ b \in TaskList
  BY ForgetStepType, AddStepsType, IdFacts, NoTask
<1>2. p \in TaskList /\ e \in TaskList
  <2>1. ASSUME NEW do \in {"parents", "save"}
        PROVE  Step(do, Doc(u), v) \in Task /\ Step(do, Doc(u), v).do # "embed"
    BY VersionFacts, IdFacts, StepType, StepFields DEF Deletes, Dos, Adds
  <2> QED
    BY <2>1, OneTask
<1>3. /\ Len(f) = 1 /\ f[1] = Step("forget", Doc(u), 0) /\ DOMAIN f = 1..1
      /\ Len(p) = 1 /\ p[1] = Step("parents", Doc(u), v) /\ DOMAIN p = 1..1
      /\ Len(e) = 1 /\ e[1] = Step("save", Doc(u), v) /\ DOMAIN e = 1..1
  OBVIOUS
<1>4. /\ Len(a) = 4 /\ DOMAIN a = 1..4
      /\ a[1] = Step("shard", Doc(u), v) /\ a[2] = Step("invert", Doc(u), v)
      /\ a[3] = Step("embed", Doc(u), v) /\ a[4] = Step("vector", Doc(u), v)
  BY AddStepsAre
<1>5. /\ Len(b) = m /\ DOMAIN b = 1..m
      /\ v \in Long => /\ b[1] = Step("shard", <<u, 1>>, v) /\ b[2] = Step("invert", <<u, 1>>, v)
                       /\ b[3] = Step("embed", <<u, 1>>, v) /\ b[4] = Step("vector", <<u, 1>>, v)
  <2>1. CASE v \in Long
    <3>1. b = AddSteps(<<u, 1>>, v)
      BY <2>1
    <3> HIDE DEF b
    <3> QED
      BY <2>1, <3>1, AddStepsAre
  <2>2. CASE v \notin Long
    <3>1. b = << >>
      BY <2>2
    <3> HIDE DEF b
    <3> QED
      BY <2>2, <3>1
  <2> QED
    BY <2>1, <2>2
<1>6. IndexSteps(u, v) = (((f \o a) \o p) \o b) \o e /\ RestSteps(u, v) = ((a \o p) \o b) \o e
  BY DEF IndexSteps, RestSteps
<1>7. TaskList \subseteq Seq(Task)
  BY DEF TaskList
<1> HIDE DEF f, a, p, b, e
<1> DEFINE ap == a \o p
           apb == ap \o b
           s == apb \o e
<1>8. /\ ap \in TaskList /\ Len(ap) = 4 + 1
      /\ (\A k \in 1..4 : ap[k] = a[k]) /\ \A k \in 1..1 : ap[4 + k] = p[k]
  <2>1. /\ a \o p \in TaskList /\ Len(a \o p) = Len(a) + Len(p)
        /\ Len(a) \in Nat /\ Len(p) \in Nat
        /\ \A k \in 1..Len(a) : (a \o p)[k] = a[k]
        /\ \A k \in 1..Len(p) : (a \o p)[Len(a) + k] = p[k]
    BY <1>1, <1>2, Joined
  <2> QED
    BY <1>3, <1>4, <2>1
<1> HIDE DEF ap
<1>9. Len(ap) = 5 /\ ap[5] = p[1] /\ m \in Nat
  BY <1>8
<1>10. /\ apb \in TaskList /\ Len(apb) = 5 + m
       /\ (\A k \in 1..5 : apb[k] = ap[k]) /\ \A k \in 1..m : apb[5 + k] = b[k]
  <2>1. /\ ap \o b \in TaskList /\ Len(ap \o b) = Len(ap) + Len(b)
        /\ Len(ap) \in Nat /\ Len(b) \in Nat
        /\ \A k \in 1..Len(ap) : (ap \o b)[k] = ap[k]
        /\ \A k \in 1..Len(b) : (ap \o b)[Len(ap) + k] = b[k]
    BY <1>1, <1>8, Joined
  <2> QED
    BY <1>5, <1>9, <2>1
<1> HIDE DEF apb
<1>12. /\ s \in TaskList /\ Len(s) = (5 + m) + 1
       /\ (\A k \in 1..(5 + m) : s[k] = apb[k]) /\ \A k \in 1..1 : s[(5 + m) + k] = e[k]
  <2>1. /\ apb \o e \in TaskList /\ Len(apb \o e) = Len(apb) + Len(e)
        /\ Len(apb) \in Nat /\ Len(e) \in Nat
        /\ \A k \in 1..Len(apb) : (apb \o e)[k] = apb[k]
        /\ \A k \in 1..Len(e) : (apb \o e)[Len(apb) + k] = e[k]
    BY <1>2, <1>10, Joined
  <2> QED
    BY <1>3, <1>10, <2>1
<1>13. s[6 + m] = e[1] /\ Len(s) = 6 + m
  <2>1. s[(5 + m) + 1] = e[1] /\ (5 + m) + 1 = 6 + m
    BY <1>9, <1>12
  <2> QED
    BY <1>12, <2>1
<1>14. IndexSteps(u, v) = f \o s /\ s = RestSteps(u, v)
  <2>1. \A x, y, z \in TaskList : (x \o y) \o z = x \o (y \o z)
    BY <1>7, ConcatAssociative
  <2>2. f \o a \in TaskList /\ (f \o a) \o p \in TaskList
    BY <1>1, <1>2, ListConcat
  <2>3. (f \o a) \o p = f \o ap
    BY <1>1, <1>2, <2>1 DEF ap
  <2>4. (f \o ap) \o b = f \o apb
    BY <1>1, <1>8, <2>1 DEF apb
  <2>5. (f \o apb) \o e = f \o s
    BY <1>1, <1>2, <1>10, <2>1
  <2> QED
    BY <1>6, <2>3, <2>4, <2>5 DEF ap, apb
<1> HIDE DEF s
<1>15. f \o s # << >> /\ Head(f \o s) = f[1] /\ Tail(f \o s) = s
  <2>1. f \in Seq(Task) /\ s \in Seq(Task) /\ f = <<f[1]>>
    BY <1>1, <1>7, <1>12 DEF f
  <2>2. f[1] \in Task
    BY <1>3, <2>1
  <2>3. /\ f \o s \in TaskList /\ Len(f \o s) = 1 + Len(s) /\ Len(s) \in Nat
        /\ (\A k \in 1..1 : (f \o s)[k] = f[k]) /\ \A k \in 1..Len(s) : (f \o s)[1 + k] = s[k]
    <3>1. /\ f \o s \in TaskList /\ Len(f \o s) = Len(f) + Len(s)
          /\ Len(f) \in Nat /\ Len(s) \in Nat
          /\ \A k \in 1..Len(f) : (f \o s)[k] = f[k]
          /\ \A k \in 1..Len(s) : (f \o s)[Len(f) + k] = s[k]
      BY <1>1, <1>12, Joined
    <3> QED
      BY <1>3, <3>1
  <2> DEFINE t == f \o s
  <2> HIDE DEF t
  <2>4. t # << >> /\ t \in Seq(Task) /\ t = f \o s
    <3>1. t # << >>
      BY <2>3, EmptySeq DEF t
    <3> QED
      BY <1>7, <2>3, <3>1 DEF t
  <2>5. /\ Tail(t) \in Seq(Task) /\ Len(Tail(t)) = Len(s) /\ Head(t) = t[1]
        /\ \A k \in 1..Len(s) : Tail(t)[k] = t[k + 1]
    <3>1. Len(t) - 1 = Len(s)
      BY <2>3 DEF t
    <3> QED
      BY <2>4, <3>1, TailElements
  <2>7. \A k \in 1..Len(s) : Tail(t)[k] = s[k]
    <3>1. \A k \in 1..Len(s) : t[1 + k] = s[k] /\ 1 + k = k + 1
      BY <2>3, <2>4
    <3> QED
      BY <2>5, <3>1
  <2>8. Tail(t) = s
    BY <2>1, <2>5, <2>7, SeqEqual
  <2>9. t[1] = f[1]
    BY <2>3, <2>4
  <2> QED
    BY <2>4, <2>5, <2>8, <2>9
<1>16. /\ s[1] = a[1] /\ s[2] = a[2] /\ s[3] = a[3] /\ s[4] = a[4] /\ s[5] = p[1]
       /\ v \in Long => s[6] = b[1] /\ s[7] = b[2] /\ s[8] = b[3] /\ s[9] = b[4]
  <2>1. 1..5 \subseteq 1..(5 + m) /\ 1..4 \subseteq 1..5
    OBVIOUS
  <2>2. s[1] = a[1] /\ s[2] = a[2] /\ s[3] = a[3] /\ s[4] = a[4] /\ s[5] = p[1]
    BY <1>8, <1>9, <1>10, <1>12, <2>1
  <2>3. ASSUME v \in Long PROVE s[6] = b[1] /\ s[7] = b[2] /\ s[8] = b[3] /\ s[9] = b[4]
    <3>1. \A k \in 1..4 : apb[5 + k] = b[k]
      BY <1>10, <2>3
    <3>2. \A k \in 1..9 : s[k] = apb[k]
      BY <1>12, <2>3
    <3>3. s[5 + 1] = b[1] /\ s[5 + 2] = b[2] /\ s[5 + 3] = b[3] /\ s[5 + 4] = b[4]
      BY <3>1, <3>2
    <3> QED
      BY <3>3
  <2> QED
    BY <2>2, <2>3
<1>17. RestLength(v) = 6 + m
  BY DEF RestLength
<1>18. DOMAIN s = 1..RestLength(v) /\ Len(s) = RestLength(v)
  <2>1. DOMAIN s = 1..Len(s)
    BY <1>7, <1>12, LenProperties
  <2> QED
    BY <1>12, <1>17, <2>1
<1> QED
  BY <1>3, <1>4, <1>5, <1>12, <1>13, <1>14, <1>15, <1>16, <1>17, <1>18

LEMMA RestFacts ==
    ASSUME IndexEngineAssumption, NEW u \in Url, NEW v \in 1..MaxVersion
    PROVE  LET s == RestSteps(u, v)
           IN  /\ s # << >> /\ StepsOK(s, u, v) /\ InOrder(s) /\ SavesLast(s, "index")
               /\ \A k \in DOMAIN s : s[k].do \in Adds
               /\ \A id \in IdsOf(u) : /\ Pending(s, "shard", id) <=> id \in Ids(u, v)
                                       /\ Pending(s, "invert", id) <=> id \in Ids(u, v)
               /\ Pending(s, "parents", Doc(u))
<1> PICK s : s = RestSteps(u, v)
  OBVIOUS
<1> PICK n : n = RestLength(v)
  OBVIOUS
<1> PICK d : d = Doc(u)
  OBVIOUS
<1> PICK c : c = <<u, 1>>
  OBVIOUS
<1>1. v # 0 /\ d # c /\ IdsOf(u) = {d, c} /\ d \in Ids(u, v) /\ (c \in Ids(u, v) <=> v \in Long)
  BY VersionFacts, IdFacts DEF Ids, Chunks, IdsOf
<1>2. n = IF v \in Long THEN 10 ELSE 6
  BY DEF RestLength
<1>3. /\ Len(s) = n /\ DOMAIN s = 1..n
      /\ s[1] = Step("shard", d, v) /\ s[2] = Step("invert", d, v)
      /\ s[3] = Step("embed", d, v) /\ s[4] = Step("vector", d, v)
      /\ s[5] = Step("parents", d, v)
      /\ v \in Long => /\ s[6] = Step("shard", c, v) /\ s[7] = Step("invert", c, v)
                       /\ s[8] = Step("embed", c, v) /\ s[9] = Step("vector", c, v)
      /\ s[n] = Step("save", d, v)
  BY RestStepsAre
<1>4. /\ \A k \in {1, 2, 3, 4, 5, n} : s[k].id = d /\ s[k].v = v
      /\ s[1].do = "shard" /\ s[2].do = "invert" /\ s[3].do = "embed" /\ s[4].do = "vector"
      /\ s[5].do = "parents" /\ s[n].do = "save"
  BY <1>3, StepFields
<1>5. v \in Long => /\ \A k \in {6, 7, 8, 9} : s[k].id = c /\ s[k].v = v
                    /\ s[6].do = "shard" /\ s[7].do = "invert" /\ s[8].do = "embed" /\ s[9].do = "vector"
  BY <1>3, StepFields
<1>6. \A k \in DOMAIN s : k \in {1, 2, 3, 4, 5, n} \/ (v \in Long /\ k \in {6, 7, 8, 9})
  BY <1>2, <1>3
<1> DEFINE Place(do, id) ==
              IF do = "save" THEN n ELSE
                 (IF do = "shard" THEN 1 ELSE IF do = "invert" THEN 2 ELSE IF do = "embed" THEN 3
                  ELSE IF do = "vector" THEN 4 ELSE 5) + (IF id = c THEN 5 ELSE 0)
<1>7. \A k \in DOMAIN s : k = Place(s[k].do, s[k].id)
  BY <1>1, <1>4, <1>5, <1>6
<1>8. \A k \in DOMAIN s : s[k].do \in Adds /\ s[k].do \notin Deletes
  BY <1>4, <1>5, <1>6 DEF Adds, Deletes
<1>9. \A j, k \in DOMAIN s : s[j].do = s[k].do /\ s[j].id = s[k].id => j = k
  <2> HIDE DEF Place
  <2> QED
    BY <1>7
<1> HIDE DEF Place
<1>10. InOrder(s)
  <2>1. \A k \in DOMAIN s : s[k].do # "capture"
    BY <1>8 DEF Deletes
  <2> QED
    BY <1>8, <1>9, <2>1 DEF InOrder
<1>11. ASSUME NEW k \in DOMAIN s
       PROVE  /\ s[k].id \in IdsOf(u) /\ s[k].v = v /\ s[k].id \in Ids(u, v)
              /\ s[k].do \in {"parents", "save"} => s[k].id = d
  BY <1>1, <1>4, <1>5, <1>6
<1>12. ASSUME NEW k \in DOMAIN s, s[k].do = "embed"
       PROVE  k + 1 \in DOMAIN s /\ s[k + 1].do = "vector"
  BY <1>2, <1>3, <1>4, <1>5, <1>6, <1>12
<1>13. StepsOK(s, u, v)
  BY <1>1, <1>8, <1>11, <1>12 DEF StepsOK
<1>14. SavesLast(s, "index")
  <2>1. \A k \in DOMAIN s : s[k].do = "save" <=> k = n
    BY <1>2, <1>4, <1>5, <1>6
  <2> QED
    BY <1>3, <2>1 DEF SavesLast
<1>15. s # << >> /\ Pending(s, "parents", d)
  <2>1. 5 \in DOMAIN s
    BY <1>2, <1>3
  <2> QED
    BY <1>4, <2>1 DEF Pending
<1>16. ASSUME NEW id \in IdsOf(u)
       PROVE  /\ Pending(s, "shard", id) <=> id \in Ids(u, v)
              /\ Pending(s, "invert", id) <=> id \in Ids(u, v)
  <2>1. 1 \in DOMAIN s /\ 2 \in DOMAIN s /\ (v \in Long => 6 \in DOMAIN s /\ 7 \in DOMAIN s)
    BY <1>2, <1>3
  <2>2. Pending(s, "shard", d) /\ Pending(s, "invert", d)
    BY <1>4, <2>1 DEF Pending
  <2>3. v \in Long => Pending(s, "shard", c) /\ Pending(s, "invert", c)
    BY <1>5, <2>1 DEF Pending
  <2>4. v \notin Long => ~Pending(s, "shard", c) /\ ~Pending(s, "invert", c)
    BY <1>1, <1>4, <1>6 DEF Pending
  <2> QED
    BY <1>1, <2>2, <2>3, <2>4
<1> QED
  BY <1>8, <1>10, <1>13, <1>14, <1>15, <1>16

LEMMA DeleteFacts ==
    ASSUME IndexEngineAssumption, NEW u \in Url, NEW chunks \in {{}, {<<u, 1>>}}, NEW v
    PROVE  LET s == DeleteSteps(u, chunks)
               gone == {Doc(u)} \cup chunks
           IN  /\ s \in TaskList /\ StepsOK(s, u, v) /\ InOrder(s)
               /\ \A k \in DOMAIN s : s[k].do \in Deletes
               /\ Captures(s)
               /\ \A id \in IdsOf(u) : /\ Pending(s, "unshard", id) <=> id \in gone
                                       /\ Pending(s, "uninvert", id) <=> id \in gone
                                       /\ Pending(s, "unvector", id) <=> id \in gone
<1> PICK s : s = DeleteSteps(u, chunks)
  OBVIOUS
<1> PICK d : d = Doc(u)
  OBVIOUS
<1> PICK c : c = <<u, 1>>
  OBVIOUS
<1>1. d # c /\ IdsOf(u) = {d, c}
  BY IdFacts DEF IdsOf
<1>2. s \in TaskList
  BY DeleteStepsType
<1>3. CASE chunks = {}
  <2>1. s = <<Step("unshard", d, 0), Step("capture", d, 0), Step("uninvert", d, 0), Step("unvector", d, 0)>>
    BY <1>3, DeleteStepsAre DEF DeleteOnlyDocument
  <2>2. /\ DOMAIN s = 1..4 /\ s[1] = Step("unshard", d, 0) /\ s[2] = Step("capture", d, 0)
        /\ s[3] = Step("uninvert", d, 0) /\ s[4] = Step("unvector", d, 0)
    BY <2>1
  <2>3. /\ s[1].do = "unshard" /\ s[2].do = "capture" /\ s[3].do = "uninvert" /\ s[4].do = "unvector"
        /\ \A k \in {1, 2, 3, 4} : s[k].id = d /\ s[k].v = 0
    BY <2>2, StepFields
  <2>4. DOMAIN s = {1, 2, 3, 4}
    BY <2>2
  <2>5. \A k \in DOMAIN s : s[k].do \in Deletes /\ s[k].do \notin Adds /\ s[k].v = 0 /\ s[k].id = d
    BY <2>3, <2>4 DEF Deletes, Adds
  <2>6. StepsOK(s, u, v)
    BY <1>1, <2>5 DEF StepsOK, Deletes, Adds
  <2>7. InOrder(s)
    BY <2>3, <2>4, <2>5 DEF InOrder
  <2>8. Captures(s)
    BY <2>3, <2>4 DEF Captures
  <2>9. /\ Pending(s, "unshard", d) /\ Pending(s, "uninvert", d) /\ Pending(s, "unvector", d)
        /\ ~Pending(s, "unshard", c) /\ ~Pending(s, "uninvert", c) /\ ~Pending(s, "unvector", c)
    BY <1>1, <2>3, <2>4, <2>5 DEF Pending
  <2> QED
    BY <1>1, <1>2, <1>3, <2>5, <2>6, <2>7, <2>8, <2>9
<1>4. CASE chunks = {c}
  <2>1. s = <<Step("unshard", d, 0), Step("capture", d, 0), Step("uninvert", d, 0), Step("uninvert", c, 0),
              Step("unvector", d, 0), Step("unvector", c, 0), Step("unshard", c, 0)>>
    BY <1>4, DeleteStepsAre DEF DeleteAll
  <2>2. /\ DOMAIN s = 1..7 /\ s[1] = Step("unshard", d, 0) /\ s[2] = Step("capture", d, 0)
        /\ s[3] = Step("uninvert", d, 0) /\ s[4] = Step("uninvert", c, 0)
        /\ s[5] = Step("unvector", d, 0) /\ s[6] = Step("unvector", c, 0) /\ s[7] = Step("unshard", c, 0)
    BY <2>1
  <2>3. /\ s[1].do = "unshard" /\ s[2].do = "capture" /\ s[3].do = "uninvert" /\ s[4].do = "uninvert"
        /\ s[5].do = "unvector" /\ s[6].do = "unvector" /\ s[7].do = "unshard"
        /\ \A k \in {1, 2, 3, 5} : s[k].id = d /\ s[k].v = 0
        /\ \A k \in {4, 6, 7} : s[k].id = c /\ s[k].v = 0
    BY <2>2, StepFields
  <2>4. DOMAIN s = {1, 2, 3, 4, 5, 6, 7}
    BY <2>2
  <2>5. \A k \in DOMAIN s : s[k].do \in Deletes /\ s[k].do \notin Adds /\ s[k].v = 0 /\ s[k].id \in {d, c}
    BY <2>3, <2>4 DEF Deletes, Adds
  <2>6. StepsOK(s, u, v)
    BY <1>1, <2>5 DEF StepsOK, Deletes, Adds
  <2> DEFINE Place(do, id) ==
                IF do = "capture" THEN 2
                ELSE IF do = "unshard" THEN (IF id = c THEN 7 ELSE 1)
                ELSE (IF do = "uninvert" THEN 3 ELSE 5) + (IF id = c THEN 1 ELSE 0)
  <2>7. \A k \in DOMAIN s : k = Place(s[k].do, s[k].id)
    BY <1>1, <2>3, <2>4
  <2> HIDE DEF Place
  <2>8. \A j, k \in DOMAIN s : s[j].do = s[k].do /\ s[j].id = s[k].id => j = k
    BY <2>7
  <2>9. \A j, k \in DOMAIN s : j < k /\ s[k].do = "capture" => s[j].do = "unshard"
    <3>1. \A k \in DOMAIN s : s[k].do = "capture" => k = 2
      BY <2>3, <2>4
    <3>2. \A j \in DOMAIN s : j < 2 => j = 1
      BY <2>4
    <3> QED
      BY <2>3, <3>1, <3>2
  <2>10. InOrder(s)
    BY <2>5, <2>8, <2>9 DEF InOrder
  <2>11. Captures(s)
    BY <2>3, <2>4 DEF Captures
  <2>12. /\ Pending(s, "unshard", d) /\ Pending(s, "uninvert", d) /\ Pending(s, "unvector", d)
         /\ Pending(s, "unshard", c) /\ Pending(s, "uninvert", c) /\ Pending(s, "unvector", c)
    BY <2>3, <2>4 DEF Pending
  <2> QED
    BY <1>1, <1>2, <1>4, <2>5, <2>6, <2>10, <2>11, <2>12
<1> QED
  BY <1>3, <1>4

-----------------------------------------------------------------------------
(* Plans, joined and shortened *)

LEMMA PendingJoined ==
    ASSUME NEW a \in TaskList, NEW b \in TaskList
    PROVE  \A do, id : Pending(a \o b, do, id) <=> Pending(a, do, id) \/ Pending(b, do, id)
<1> PICK s : s = a \o b
  OBVIOUS
<1> PICK m : m = Len(a)
  OBVIOUS
<1>1. a \in Seq(Task) /\ b \in Seq(Task)
  BY DEF TaskList
<1>2. /\ m \in Nat /\ DOMAIN a = 1..m /\ DOMAIN b = 1..Len(b) /\ DOMAIN s = 1..(m + Len(b))
      /\ \A k \in DOMAIN a : k \in DOMAIN s /\ s[k] = a[k]
      /\ \A k \in DOMAIN b : m + k \in DOMAIN s /\ s[m + k] = b[k]
      /\ \A k \in DOMAIN s : k \in DOMAIN a \/ (k - m \in DOMAIN b /\ s[k] = b[k - m])
  BY <1>1, ConcatElements
<1>3. ASSUME NEW do, NEW id
      PROVE  Pending(s, do, id) <=> Pending(a, do, id) \/ Pending(b, do, id)
  <2>1. ASSUME Pending(s, do, id) PROVE Pending(a, do, id) \/ Pending(b, do, id)
    <3>1. PICK k \in DOMAIN s : s[k].do = do /\ s[k].id = id
      BY <2>1 DEF Pending
    <3> QED
      BY <1>2, <3>1 DEF Pending
  <2>2. ASSUME Pending(a, do, id) PROVE Pending(s, do, id)
    BY <1>2, <2>2 DEF Pending
  <2>3. ASSUME Pending(b, do, id) PROVE Pending(s, do, id)
    <3>1. PICK k \in DOMAIN b : b[k].do = do /\ b[k].id = id
      BY <2>3 DEF Pending
    <3>2. m + k \in DOMAIN s /\ s[m + k] = b[k]
      BY <1>2
    <3> QED
      BY <3>1, <3>2 DEF Pending
  <2> QED
    BY <2>1, <2>2, <2>3
<1> QED
  BY <1>3

LEMMA PlanJoined ==
    ASSUME NEW a \in TaskList, NEW b \in TaskList, NEW u, NEW v, NEW op,
           StepsOK(a, u, v), StepsOK(b, u, v), InOrder(a), InOrder(b),
           \A k \in DOMAIN a : a[k].do \in Deletes, \A k \in DOMAIN b : b[k].do \in Adds,
           SavesLast(b, op), op = "index" => b # << >>
    PROVE  /\ Plan(a \o b, op, u, v)
           /\ Captures(a) => Captures(a \o b)
<1> PICK s : s = a \o b
  OBVIOUS
<1> PICK m : m = Len(a)
  OBVIOUS
<1> PICK n : n = Len(b)
  OBVIOUS
<1>1. a \in Seq(Task) /\ b \in Seq(Task)
  BY DEF TaskList
<1>2. /\ Len(s) = m + n /\ m \in Nat /\ n \in Nat /\ DOMAIN a = 1..m /\ DOMAIN b = 1..n
      /\ DOMAIN s = 1..(m + n)
      /\ \A k \in DOMAIN a : k \in DOMAIN s /\ s[k] = a[k]
      /\ \A k \in DOMAIN b : m + k \in DOMAIN s /\ s[m + k] = b[k]
      /\ \A k \in DOMAIN s : k \in DOMAIN a \/ (k - m \in DOMAIN b /\ s[k] = b[k - m])
  BY <1>1, ConcatElements
<1>3. ASSUME NEW k \in DOMAIN s
      PROVE  \/ k \in DOMAIN a /\ s[k] = a[k] /\ s[k].do \in Deletes /\ k <= m
             \/ k - m \in DOMAIN b /\ s[k] = b[k - m] /\ s[k].do \in Adds /\ k > m /\ k \notin DOMAIN a
  BY <1>2
<1>4. \A do \in Deletes : do \notin Adds
  BY DEF Deletes, Adds
<1>5. StepsOK(s, u, v)
  <2>1. ASSUME NEW k \in DOMAIN s
        PROVE  /\ s[k].id \in IdsOf(u) /\ s[k].do \in Deletes \cup Adds
               /\ s[k].do \in Adds => s[k].v = v /\ v # 0 /\ s[k].id \in Ids(u, v)
               /\ s[k].do \in Deletes => s[k].v = 0
               /\ s[k].do \in {"parents", "save"} => s[k].id = Doc(u)
    BY <1>3 DEF StepsOK
  <2>2. ASSUME NEW k \in DOMAIN s, s[k].do = "embed"
        PROVE  k + 1 \in DOMAIN s /\ s[k + 1].do = "vector"
    <3>1. k - m \in DOMAIN b /\ s[k] = b[k - m]
      <4>1. "embed" \notin Deletes
        BY DEF Deletes
      <4> QED
        BY <1>3, <2>2, <4>1
    <3>2. (k - m) + 1 \in DOMAIN b /\ b[(k - m) + 1].do = "vector"
      BY <2>2, <3>1 DEF StepsOK
    <3>3. m + ((k - m) + 1) = k + 1
      BY <1>2
    <3> QED
      BY <1>2, <3>2, <3>3
  <2> QED
    BY <2>1, <2>2 DEF StepsOK
<1>6. InOrder(s)
  <2>1. ASSUME NEW j \in DOMAIN s, NEW k \in DOMAIN s
        PROVE  /\ j < k /\ s[k].do \in Deletes => s[j].do \in Deletes
               /\ j < k /\ s[k].do = "capture" => s[j].do = "unshard"
               /\ s[j].do = s[k].do /\ s[j].id = s[k].id => j = k
    <3>1. CASE j \in DOMAIN a /\ k \in DOMAIN a
      <4>1. s[j] = a[j] /\ s[k] = a[k]
        BY <1>2, <3>1
      <4> QED
        BY <3>1, <4>1 DEF InOrder
    <3>2. CASE j \notin DOMAIN a /\ k \notin DOMAIN a
      <4>1. /\ j - m \in DOMAIN b /\ k - m \in DOMAIN b /\ s[j] = b[j - m] /\ s[k] = b[k - m]
            /\ s[k].do \in Adds
        BY <1>3, <3>2
      <4>2. /\ s[k].do \notin Deletes /\ s[k].do # "capture"
        BY <4>1 DEF Adds, Deletes
      <4>3. s[j].do = s[k].do /\ s[j].id = s[k].id => j - m = k - m
        <5>1. \A x, y \in DOMAIN b : b[x].do = b[y].do /\ b[x].id = b[y].id => x = y
          BY DEF InOrder
        <5> QED
          BY <4>1, <5>1
      <4>4. j - m = k - m => j = k
        BY <1>2
      <4> QED
        BY <4>2, <4>3, <4>4
    <3>3. CASE j \in DOMAIN a /\ k \notin DOMAIN a
      <4>1. s[j].do \in Deletes /\ s[k].do \in Adds
        BY <1>3, <3>3
      <4> QED
        BY <1>4, <4>1 DEF Adds
    <3>4. CASE j \notin DOMAIN a /\ k \in DOMAIN a
      <4>1. s[j].do \in Adds /\ s[k].do \in Deletes /\ j > m /\ k <= m
        BY <1>3, <3>4
      <4>2. ~(j < k)
        BY <1>2, <4>1
      <4> QED
        BY <1>4, <4>1, <4>2
    <3> QED
      BY <3>1, <3>2, <3>3, <3>4
  <2> QED
    BY <2>1 DEF InOrder
<1>7. SavesLast(s, op)
  <2>1. ASSUME NEW k \in DOMAIN s
        PROVE  s[k].do = "save" <=> op = "index" /\ k = Len(s)
    <3>1. CASE k \in DOMAIN a
      <4>1. s[k].do # "save" /\ k <= m
        BY <1>3, <3>1 DEF Deletes
      <4>2. op = "index" => n # 0
        BY <1>1, EmptySeq
      <4> QED
        BY <1>2, <4>1, <4>2
    <3>2. CASE k \notin DOMAIN a
      <4>1. k - m \in DOMAIN b /\ s[k] = b[k - m]
        BY <1>3, <3>2
      <4>2. s[k].do = "save" <=> op = "index" /\ k - m = n
        BY <4>1 DEF SavesLast
      <4>3. k - m = n <=> k = m + n
        BY <1>2
      <4> QED
        BY <1>2, <4>2, <4>3
    <3> QED
      BY <3>1, <3>2
  <2> QED
    BY <2>1 DEF SavesLast
<1>9. Captures(a) => Captures(s)
  BY <1>2 DEF Captures
<1> QED
  BY <1>5, <1>6, <1>7, <1>9 DEF Plan

LEMMA PlanShortened ==
    ASSUME NEW a \in TaskList, a # << >>, NEW u, NEW v, NEW op, Plan(a, op, u, v)
    PROVE  /\ Plan(Tail(a), op, u, v)
           /\ Head(a).id \in IdsOf(u) /\ Head(a).do \in Deletes \cup Adds
           /\ \A do, id : Pending(Tail(a), do, id)
                            <=> Pending(a, do, id) /\ ~(Head(a).do = do /\ Head(a).id = id)
           /\ Pending(a, Head(a).do, Head(a).id)
           /\ Head(a).do \in Adds => /\ Head(a).v = v /\ v # 0 /\ Head(a).id \in Ids(u, v)
                                     /\ \A do \in Deletes : \A id : ~Pending(a, do, id)
           /\ Head(a).do \in Deletes => Head(a).v = 0
           /\ Head(a).do \notin {"unshard", "capture"} => ~Captures(a)
           /\ Head(a).do # "capture" /\ Captures(a) => Captures(Tail(a))
           /\ Head(a).do = "save" => op = "index" /\ Tail(a) = << >>
           /\ Head(a).do \in {"parents", "save"} => Head(a).id = Doc(u)
           /\ Tail(a) = << >> /\ op = "index" => Head(a).do = "save"
<1> PICK s : s = Tail(a)
  OBVIOUS
<1> PICK n : n = Len(a)
  OBVIOUS
<1> PICK h : h = Head(a)
  OBVIOUS
<1>1. a \in Seq(Task)
  BY DEF TaskList
<1>2. /\ s \in Seq(Task) /\ n \in Nat \ {0} /\ Len(s) = n - 1 /\ DOMAIN a = 1..n /\ DOMAIN s = 1..(n - 1)
      /\ h = a[1] /\ 1 \in DOMAIN a
      /\ \A k \in DOMAIN s : k + 1 \in DOMAIN a /\ s[k] = a[k + 1]
      /\ \A k \in DOMAIN a : k # 1 => k - 1 \in DOMAIN s /\ s[k - 1] = a[k]
  BY <1>1, TailElements
<1>3. StepsOK(a, u, v) /\ InOrder(a) /\ SavesLast(a, op)
  BY DEF Plan
<1>4. StepsOK(s, u, v)
  <2>1. ASSUME NEW k \in DOMAIN s
        PROVE  /\ s[k].id \in IdsOf(u) /\ s[k].do \in Deletes \cup Adds
               /\ s[k].do \in Adds => s[k].v = v /\ v # 0 /\ s[k].id \in Ids(u, v)
               /\ s[k].do \in Deletes => s[k].v = 0
               /\ s[k].do \in {"parents", "save"} => s[k].id = Doc(u)
    BY <1>2, <1>3 DEF StepsOK
  <2>2. ASSUME NEW k \in DOMAIN s, s[k].do = "embed"
        PROVE  k + 1 \in DOMAIN s /\ s[k + 1].do = "vector"
    <3>1. (k + 1) + 1 \in DOMAIN a /\ a[(k + 1) + 1].do = "vector"
      BY <1>2, <1>3, <2>2 DEF StepsOK
    <3>2. (k + 1) + 1 # 1 /\ ((k + 1) + 1) - 1 = k + 1
      BY <1>2
    <3> QED
      BY <1>2, <3>1, <3>2
  <2> QED
    BY <2>1, <2>2 DEF StepsOK
<1>5. InOrder(s)
  <2>1. ASSUME NEW j \in DOMAIN s, NEW k \in DOMAIN s
        PROVE  /\ j < k /\ s[k].do \in Deletes => s[j].do \in Deletes
               /\ j < k /\ s[k].do = "capture" => s[j].do = "unshard"
               /\ s[j].do = s[k].do /\ s[j].id = s[k].id => j = k
    <3>1. j + 1 \in DOMAIN a /\ k + 1 \in DOMAIN a /\ s[j] = a[j + 1] /\ s[k] = a[k + 1]
      BY <1>2
    <3>2. (j < k <=> j + 1 < k + 1) /\ (j + 1 = k + 1 => j = k)
      BY <1>2
    <3> QED
      BY <1>3, <3>1, <3>2 DEF InOrder
  <2> QED
    BY <2>1 DEF InOrder
<1>6. SavesLast(s, op)
  <2>1. ASSUME NEW k \in DOMAIN s
        PROVE  s[k].do = "save" <=> op = "index" /\ k = Len(s)
    <3>1. k + 1 \in DOMAIN a /\ s[k] = a[k + 1] /\ (k = n - 1 <=> k + 1 = n)
      BY <1>2
    <3> QED
      BY <1>2, <1>3, <3>1 DEF SavesLast
  <2> QED
    BY <2>1 DEF SavesLast
<1>7. ASSUME NEW do, NEW id
      PROVE  Pending(s, do, id) <=> Pending(a, do, id) /\ ~(h.do = do /\ h.id = id)
  <2>1. ASSUME Pending(s, do, id)
        PROVE  Pending(a, do, id) /\ ~(h.do = do /\ h.id = id)
    <3>1. PICK k \in DOMAIN s : s[k].do = do /\ s[k].id = id
      BY <2>1 DEF Pending
    <3>2. k + 1 \in DOMAIN a /\ a[k + 1] = s[k] /\ k + 1 # 1
      BY <1>2
    <3> QED
      BY <1>2, <1>3, <3>1, <3>2 DEF Pending, InOrder
  <2>2. ASSUME Pending(a, do, id), ~(h.do = do /\ h.id = id)
        PROVE  Pending(s, do, id)
    BY <1>2, <2>2 DEF Pending
  <2> QED
    BY <2>1, <2>2
<1>8. h.id \in IdsOf(u) /\ h.do \in Deletes \cup Adds /\ Pending(a, h.do, h.id)
  BY <1>2, <1>3 DEF StepsOK, Pending
<1>9. ASSUME h.do \in Adds
      PROVE  h.v = v /\ v # 0 /\ h.id \in Ids(u, v) /\ \A do \in Deletes : \A id : ~Pending(a, do, id)
  <2>1. h.do \notin Deletes
    BY <1>9 DEF Adds, Deletes
  <2>2. \A k \in DOMAIN a : a[k].do \notin Deletes
    <3>1. \A k \in DOMAIN a : k = 1 \/ 1 < k
      BY <1>2
    <3> QED
      BY <1>2, <1>3, <2>1, <3>1 DEF InOrder
  <2> QED
    BY <1>2, <1>3, <1>9, <2>2 DEF StepsOK, Pending
<1>10. h.do \in Deletes => h.v = 0
  BY <1>2, <1>3 DEF StepsOK
<1>11. ASSUME h.do \notin {"unshard", "capture"}
       PROVE  ~Captures(a)
  <2>1. \A k \in DOMAIN a : k = 1 \/ 1 < k
    BY <1>2
  <2> QED
    BY <1>2, <1>3, <1>11, <2>1 DEF InOrder, Captures
<1>12. ASSUME h.do # "capture", NEW k \in DOMAIN a, a[k].do = "capture"
       PROVE  \E j \in DOMAIN s : s[j].do = "capture"
  BY <1>2, <1>12
<1>16. h.do # "capture" /\ Captures(a) => Captures(s)
  BY <1>12 DEF Captures
<1>13. h.do = "save" => op = "index" /\ s = << >>
  <2>1. h.do = "save" => op = "index" /\ n = 1
    BY <1>2, <1>3 DEF SavesLast
  <2>2. n = 1 => s = << >>
    BY <1>2, EmptySeq
  <2> QED
    BY <2>1, <2>2
<1>14. h.do \in {"parents", "save"} => h.id = Doc(u)
  BY <1>2, <1>3 DEF StepsOK
<1>15. s = << >> /\ op = "index" => h.do = "save"
  <2>1. s = << >> => n = 1
    BY <1>2, EmptySeq
  <2> QED
    BY <1>2, <1>3, <2>1 DEF SavesLast
<1> QED
  BY <1>4, <1>5, <1>6, <1>7, <1>8, <1>9, <1>10, <1>11, <1>12, <1>13, <1>14, <1>15, <1>16 DEF Plan

-----------------------------------------------------------------------------
(* One step of a request on its course *)

SameOf(id) ==
    /\ \A t \in Version : inv'.post[t][id] = inv.post[t][id]
    /\ inv'.len[id] = inv.len[id] /\ shards'[id] = shards[id] /\ vec'[id] = vec[id]

LEMMA ProgressKept ==
    ASSUME NEW todo, NEW rest, NEW fresh \in BOOLEAN, NEW f \in BOOLEAN, NEW id, NEW v,
           Progress(todo, fresh, id, v), SameOf(id),
           \A do \in {"unshard", "shard", "uninvert", "invert", "unvector"} :
              Pending(rest, do, id) <=> Pending(todo, do, id),
           fresh \/ Captures(todo) => f \/ Captures(rest)
    PROVE  Progress(rest, f, id, v)'
<1>1. Clean(id)'
  BY DEF Progress, Clean, SameOf
<1> QED
  BY <1>1 DEF Progress, SameOf

\* What PlanShortened says of the next task of a course, and what is wanted of its id.
Ahead(todo, op, u, v) ==
    /\ Plan(Tail(todo), op, u, v)
    /\ Head(todo).id \in IdsOf(u) /\ Head(todo).do \in Deletes \cup Adds
    /\ \A do, id : Pending(Tail(todo), do, id)
                     <=> Pending(todo, do, id) /\ ~(Head(todo).do = do /\ Head(todo).id = id)
    /\ Pending(todo, Head(todo).do, Head(todo).id)
    /\ Head(todo).do \in Adds => /\ Head(todo).v = v /\ v # 0 /\ Want(Head(todo).id, v) = v
                                 /\ \A do \in Deletes : \A id : ~Pending(todo, do, id)
    /\ Head(todo).do \in Deletes => Head(todo).v = 0
    /\ Head(todo).do \notin {"unshard", "capture"} => ~Captures(todo)
    /\ Head(todo).do # "capture" /\ Captures(todo) => Captures(Tail(todo))
    /\ Head(todo).do = "save" => op = "index" /\ Tail(todo) = << >>
    /\ Head(todo).do \in {"parents", "save"} => Head(todo).id = Doc(u)
    /\ Tail(todo) = << >> /\ op = "index" => Head(todo).do = "save"

LEMMA AheadOfPlan ==
    ASSUME NEW todo \in TaskList, todo # << >>, NEW u \in Url, NEW v, NEW op, Plan(todo, op, u, v)
    PROVE  Ahead(todo, op, u, v)
<1>1. Head(todo).do \in Adds => Want(Head(todo).id, v) = v
  <2>1. Head(todo).do \in Adds => v # 0 /\ Head(todo).id \in Ids(u, v) /\ Head(todo).id[1] = u
    BY PlanShortened, IdFacts
  <2> QED
    BY <2>1 DEF Want
<1> QED
  BY <1>1, PlanShortened DEF Ahead

\* What holds before each of the steps below.
OnCourse(r, u, v) ==
    /\ r \in Request /\ request[r].todo # << >> /\ u \in Url \ astray /\ v \in Version
    /\ InProgress(request[r], u, v)
\* And what after it, if the list is then rest.
Onward(r, u, v, rest, f) ==
    /\ Moved(r, rest, f)
    /\ \E op \in {request[r].op} : Course(rest, op, f, u, v)'
    /\ rest = << >> => u \in astray' \/ store'[u] = v

LEMMA CourseFacts ==
    ASSUME TypeInv, NEW r, NEW u, NEW v, OnCourse(r, u, v)
    PROVE  /\ request[r].todo \in TaskList /\ request[r].fresh \in BOOLEAN
           /\ Ahead(request[r].todo, request[r].op, u, v) /\ It(r) = Head(request[r].todo)
           /\ \A id \in IdsOf(u) : Progress(request[r].todo, request[r].fresh, id, v)
           /\ IdsOf(u) \subseteq Id /\ It(r).id \in Id
           /\ ~Pending(request[r].todo, "parents", Doc(u)) => parentChunks[u] = Parts(u, v)
           /\ request[r].op = "index" \/ (request[r].op = "delete" /\ v = 0 /\ store[u] = 0)
<1>1. r \in Request /\ u \in Url /\ request[r].todo # << >>
  BY DEF OnCourse
<1>2. request[r].todo \in TaskList /\ request[r].fresh \in BOOLEAN
  BY <1>1 DEF TypeInv
<1>3. Course(request[r].todo, request[r].op, request[r].fresh, u, v)
  BY DEF OnCourse, InProgress
<1>4. Ahead(request[r].todo, request[r].op, u, v)
  BY <1>1, <1>2, <1>3, AheadOfPlan DEF Course
<1>5. IdsOf(u) \subseteq Id
  BY <1>1, IdFacts
<1> QED
  BY <1>2, <1>3, <1>4, <1>5 DEF Course, Ahead, It

LEMMA CourseOn ==
    ASSUME TypeInv, NEW r, NEW u, NEW v, OnCourse(r, u, v), NEW rest, rest = Tail(request[r].todo),
           NEW f, Moved(r, rest, f),
           \A id \in IdsOf(u) : Progress(rest, f, id, v)',
           ~Pending(rest, "parents", Doc(u)) => parentChunks'[u] = Parts(u, v),
           store'[u] = store[u], It(r).do # "save"
    PROVE  Onward(r, u, v, rest, f)
<1> PICK op : op = request[r].op
  OBVIOUS
<1>1. Ahead(request[r].todo, op, u, v) /\ It(r) = Head(request[r].todo)
  BY CourseFacts
<1>2. op = "index" \/ (op = "delete" /\ v = 0 /\ store[u] = 0)
  BY CourseFacts
<1>3. Plan(rest, op, u, v)
  BY <1>1 DEF Ahead
<1>4. Course(rest, op, f, u, v)'
  BY <1>2, <1>3 DEF Course
<1>5. rest = << >> => store'[u] = v
  BY <1>1, <1>2 DEF Ahead
<1> QED
  BY <1>4, <1>5 DEF Onward

LEMMA ShardOnCourse ==
    ASSUME TypeInv, NEW r, NEW u, NEW v, OnCourse(r, u, v), Shard(r)
    PROVE  \E rest, f : Onward(r, u, v, rest, f)
<1> PICK todo : todo = request[r].todo
  OBVIOUS
<1> PICK fresh : fresh = request[r].fresh
  OBVIOUS
<1> PICK rest : rest = Tail(todo)
  OBVIOUS
<1> PICK op : op = request[r].op
  OBVIOUS
<1> PICK h : h = It(r)
  OBVIOUS
<1>1. /\ fresh \in BOOLEAN /\ Ahead(todo, op, u, v) /\ h = Head(todo)
      /\ \A id \in IdsOf(u) : Progress(todo, fresh, id, v)
      /\ IdsOf(u) \subseteq Id /\ h.id \in Id
      /\ ~Pending(todo, "parents", Doc(u)) => parentChunks[u] = Parts(u, v)
  BY CourseFacts
<1>2. /\ h.do \in {"shard", "unshard"} /\ shards' = [shards EXCEPT ![h.id] = h.v]
      /\ UNCHANGED <<inv, vec, parentChunks, store>>
  BY <1>1 DEF Shard, Now, Rest
<1>3. Moved(r, rest, fresh)
  BY DidMoves DEF Shard, OnCourse
<1>4. /\ \A do, id : Pending(rest, do, id) <=> Pending(todo, do, id) /\ ~(h.do = do /\ h.id = id)
      /\ fresh \/ Captures(todo) => fresh \/ Captures(rest)
      /\ h.do = "shard" => /\ h.v = v /\ Want(h.id, v) = v
                           /\ \A do \in Deletes : \A id : ~Pending(todo, do, id)
      /\ h.do = "unshard" => h.v = 0
  BY <1>1, <1>2 DEF Ahead, Adds, Deletes
<1>5. ASSUME NEW id \in IdsOf(u)
      PROVE  Progress(rest, fresh, id, v)'
  <2>1. Progress(todo, fresh, id, v) /\ id \in Id
    BY <1>1
  <2>2. CASE id # h.id
    <3>1. SameOf(id)
      BY <1>1, <1>2, <2>1, <2>2 DEF TypeInv, SameOf
    <3>2. \A do \in {"unshard", "shard", "uninvert", "invert", "unvector"} :
             Pending(rest, do, id) <=> Pending(todo, do, id)
      BY <1>4, <2>2
    <3>3. fresh \/ Captures(todo) => fresh \/ Captures(rest)
      BY <1>4
    <3> QED
      BY <1>1, <2>1, <3>1, <3>2, <3>3, ProgressKept
  <2>3. CASE id = h.id
    <3>1. shards'[id] = h.v
      BY <1>1, <1>2, <2>3 DEF TypeInv
    <3>2. Clean(id)'
      BY <1>2, <2>1 DEF Progress, Clean
    <3>3. /\ Pending(rest, "uninvert", id) <=> Pending(todo, "uninvert", id)
          /\ Pending(rest, "invert", id) <=> Pending(todo, "invert", id)
          /\ Pending(rest, "unvector", id) <=> Pending(todo, "unvector", id)
          /\ fresh \/ Captures(todo) => fresh \/ Captures(rest)
          /\ inv'.len[id] = inv.len[id] /\ vec'[id] = vec[id]
      BY <1>2, <1>4
    <3>4. CASE h.do = "shard"
      <4>1. ~Pending(rest, "unshard", id) /\ ~Pending(rest, "shard", id)
        BY <1>4, <2>3, <3>4 DEF Deletes
      <4>2. h.v = Want(id, v)
        BY <1>4, <2>3, <3>4
      <4> QED
        BY <2>1, <3>1, <3>2, <3>3, <4>1, <4>2 DEF Progress
    <3>5. CASE h.do = "unshard"
      <4>1. ~Pending(rest, "unshard", id) /\ (Pending(rest, "shard", id) <=> Pending(todo, "shard", id))
        BY <1>4, <2>3, <3>5
      <4>2. Pending(todo, "unshard", id)
        BY <1>1, <2>3, <3>5 DEF Ahead
      <4>3. h.v = 0
        BY <1>4, <3>5
      <4> QED
        BY <2>1, <3>1, <3>2, <3>3, <4>1, <4>2, <4>3 DEF Progress
    <3> QED
      BY <1>2, <3>4, <3>5
  <2> QED
    BY <2>2, <2>3
<1>6. ~Pending(rest, "parents", Doc(u)) => parentChunks'[u] = Parts(u, v)
  BY <1>1, <1>2, <1>4
<1> QED
  BY <1>2, <1>3, <1>5, <1>6, CourseOn

LEMMA CaptureOnCourse ==
    ASSUME TypeInv, NEW r, NEW u, NEW v, OnCourse(r, u, v), Capture(r)
    PROVE  \E rest, f : Onward(r, u, v, rest, f)
<1> PICK todo : todo = request[r].todo
  OBVIOUS
<1> PICK fresh : fresh = request[r].fresh
  OBVIOUS
<1> PICK rest : rest = Tail(todo)
  OBVIOUS
<1> PICK op : op = request[r].op
  OBVIOUS
<1> PICK h : h = It(r)
  OBVIOUS
<1>1. /\ fresh \in BOOLEAN /\ Ahead(todo, op, u, v) /\ h = Head(todo)
      /\ \A id \in IdsOf(u) : Progress(todo, fresh, id, v)
      /\ IdsOf(u) \subseteq Id /\ h.id \in Id
      /\ ~Pending(todo, "parents", Doc(u)) => parentChunks[u] = Parts(u, v)
  BY CourseFacts
<1>2. h.do = "capture" /\ UNCHANGED <<inv, vec, shards, parentChunks, store>>
  BY <1>1 DEF Capture, Now, engineVars, Rest
<1>3. Moved(r, rest, TRUE)
  BY CaptureMoves DEF OnCourse
<1>4. \A do, id : Pending(rest, do, id) <=> Pending(todo, do, id) /\ ~(h.do = do /\ h.id = id)
  BY <1>1 DEF Ahead
<1>5. ASSUME NEW id \in IdsOf(u)
      PROVE  Progress(rest, TRUE, id, v)'
  <2>1. Progress(todo, fresh, id, v) /\ SameOf(id)
    BY <1>1, <1>2 DEF SameOf
  <2>2. \A do \in {"unshard", "shard", "uninvert", "invert", "unvector"} :
           Pending(rest, do, id) <=> Pending(todo, do, id)
    BY <1>2, <1>4
  <2> QED
    BY <1>1, <2>1, <2>2, ProgressKept
<1>6. ~Pending(rest, "parents", Doc(u)) => parentChunks'[u] = Parts(u, v)
  BY <1>1, <1>2, <1>4
<1> QED
  BY <1>2, <1>3, <1>5, <1>6, CourseOn

LEMMA UninvertOnCourse ==
    ASSUME IndexEngineAssumption, GhostInv, TypeInv, NEW r, NEW u, NEW v, OnCourse(r, u, v), Uninvert(r)
    PROVE  \E rest, f : Onward(r, u, v, rest, f)
<1> PICK todo : todo = request[r].todo
  OBVIOUS
<1> PICK fresh : fresh = request[r].fresh
  OBVIOUS
<1> PICK rest : rest = Tail(todo)
  OBVIOUS
<1> PICK op : op = request[r].op
  OBVIOUS
<1> PICK h : h = It(r)
  OBVIOUS
<1>1. /\ fresh \in BOOLEAN /\ Ahead(todo, op, u, v) /\ h = Head(todo)
      /\ \A id \in IdsOf(u) : Progress(todo, fresh, id, v)
      /\ IdsOf(u) \subseteq Id /\ h.id \in Id
      /\ ~Pending(todo, "parents", Doc(u)) => parentChunks[u] = Parts(u, v)
      /\ op = "index" \/ (op = "delete" /\ v = 0 /\ store[u] = 0)
  BY CourseFacts
<1>2. /\ h.do = "uninvert" /\ UNCHANGED <<vec, shards, parentChunks, store>>
      /\ inv' = IF fresh THEN DeleteDocument(inv, h.id) ELSE inv
  BY <1>1 DEF Uninvert, Now, Rest
<1>3. Moved(r, rest, fresh)
  BY DidMoves DEF Uninvert, OnCourse
<1>4. /\ \A do, id : Pending(rest, do, id) <=> Pending(todo, do, id) /\ ~(h.do = do /\ h.id = id)
      /\ ~Captures(todo) /\ Pending(todo, "uninvert", h.id) /\ h.id \in IdsOf(u)
  BY <1>1, <1>2 DEF Ahead
<1>5. fresh /\ inv' = DeleteDocument(inv, h.id)
  BY <1>1, <1>2, <1>4 DEF Progress
<1>6. IndexOK(inv) /\ inv.blind = {}
  BY DEF TypeInv, GhostInv, OnCourse
<1>7. /\ inv'.len = [inv.len EXCEPT ![h.id] = 0]
      /\ inv.len[h.id] # 0 => \A t \in Version, d \in Id :
                                 inv'.post[t][d] = IF d = h.id THEN 0 ELSE inv.post[t][d]
      /\ inv.len[h.id] = 0 => inv' = inv
  <2>1. h.id \in Id /\ inv' = DeleteDocument(inv, h.id)
    BY <1>1, <1>5
  <2>2. /\ DeleteDocument(inv, h.id).len = [inv.len EXCEPT ![h.id] = 0]
        /\ inv.blind = {} /\ inv.len[h.id] # 0 => \A t \in Version, d \in Id :
              DeleteDocument(inv, h.id).post[t][d] = IF d = h.id THEN 0 ELSE inv.post[t][d]
        /\ inv.len[h.id] = 0 => DeleteDocument(inv, h.id) = inv
    BY <1>6, <2>1, DeleteProperties
  <2> QED
    BY <1>6, <2>1, <2>2
<1>8. inv.len \in [Id -> Version]
  BY <1>6 DEF IndexOK, Indexes
<1>9. ASSUME NEW id \in IdsOf(u)
      PROVE  Progress(rest, fresh, id, v)'
  <2>1. Progress(todo, fresh, id, v) /\ id \in Id
    BY <1>1
  <2>2. CASE id # h.id
    <3>1. SameOf(id)
      BY <1>1, <1>2, <1>7, <1>8, <2>1, <2>2 DEF SameOf
    <3>2. \A do \in {"unshard", "shard", "uninvert", "invert", "unvector"} :
             Pending(rest, do, id) <=> Pending(todo, do, id)
      BY <1>4, <2>2
    <3> QED
      BY <1>1, <1>5, <2>1, <3>1, <3>2, ProgressKept
  <2>3. CASE id = h.id
    <3>1. inv'.len[id] = 0
      BY <1>7, <1>8, <2>1, <2>3
    <3>2. Clean(id)'
      <4>1. \A t \in Version : inv'.post[t][id] = 0
        <5>1. CASE inv.len[id] # 0
          BY <1>7, <2>1, <2>3, <5>1
        <5>2. CASE inv.len[id] = 0
          BY <1>7, <2>1, <2>3, <5>2 DEF Progress, Clean
        <5> QED
          BY <5>1, <5>2
      <4> QED
        BY <3>1, <4>1 DEF Clean
    <3>3. /\ ~Pending(rest, "uninvert", id) /\ Pending(todo, "uninvert", id)
          /\ Pending(rest, "invert", id) <=> Pending(todo, "invert", id)
          /\ Pending(rest, "unshard", id) <=> Pending(todo, "unshard", id)
          /\ Pending(rest, "shard", id) <=> Pending(todo, "shard", id)
          /\ Pending(rest, "unvector", id) <=> Pending(todo, "unvector", id)
          /\ shards'[id] = shards[id] /\ vec'[id] = vec[id]
      BY <1>2, <1>4, <2>3
    <3> QED
      BY <1>5, <2>1, <3>1, <3>2, <3>3 DEF Progress
  <2> QED
    BY <2>2, <2>3
<1>10. ~Pending(rest, "parents", Doc(u)) => parentChunks'[u] = Parts(u, v)
  BY <1>1, <1>2, <1>4
<1> QED
  BY <1>2, <1>3, <1>9, <1>10, CourseOn

LEMMA InvertOnCourse ==
    ASSUME IndexEngineAssumption, TypeInv, NEW r, NEW u, NEW v, OnCourse(r, u, v), Invert(r)
    PROVE  \E rest, f : Onward(r, u, v, rest, f)
<1> PICK todo : todo = request[r].todo
  OBVIOUS
<1> PICK fresh : fresh = request[r].fresh
  OBVIOUS
<1> PICK rest : rest = Tail(todo)
  OBVIOUS
<1> PICK op : op = request[r].op
  OBVIOUS
<1> PICK h : h = It(r)
  OBVIOUS
<1>1. /\ fresh \in BOOLEAN /\ Ahead(todo, op, u, v) /\ h = Head(todo)
      /\ \A id \in IdsOf(u) : Progress(todo, fresh, id, v)
      /\ IdsOf(u) \subseteq Id /\ h.id \in Id
      /\ ~Pending(todo, "parents", Doc(u)) => parentChunks[u] = Parts(u, v)
      /\ op = "index" \/ (op = "delete" /\ v = 0 /\ store[u] = 0)
  BY CourseFacts
<1>2. /\ h.do = "invert" /\ UNCHANGED <<vec, shards, parentChunks, store>>
      /\ inv' = AddDocument(inv, h.id, h.v)
  BY <1>1 DEF Invert, Now, Rest
<1>3. Moved(r, rest, fresh)
  BY DidMoves DEF Invert, OnCourse
<1>4. /\ \A do, id : Pending(rest, do, id) <=> Pending(todo, do, id) /\ ~(h.do = do /\ h.id = id)
      /\ \A do \in Deletes : \A id : ~Pending(todo, do, id)
      /\ Pending(todo, "invert", h.id) /\ h.id \in IdsOf(u) /\ h.v = v /\ v # 0 /\ Want(h.id, v) = v
      /\ fresh \/ Captures(todo) => fresh \/ Captures(rest)
  BY <1>1, <1>2 DEF Ahead, Adds
<1>5. v \in Version \ {0}
  BY <1>4 DEF OnCourse
<1>6. IndexOK(inv)
  BY DEF TypeInv
<1>7. /\ inv'.len = [inv.len EXCEPT ![h.id] = v]
      /\ \A t \in Version, d \in Id :
            inv'.post[t][d] = IF d = h.id /\ t \in Terms(v) THEN v ELSE inv.post[t][d]
  <2>1. h.id \in Id /\ inv' = AddDocument(inv, h.id, v)
    BY <1>1, <1>2, <1>4
  <2>2. /\ AddDocument(inv, h.id, v).len = [inv.len EXCEPT ![h.id] = v]
        /\ \A t \in Version, d \in Id :
              AddDocument(inv, h.id, v).post[t][d] = IF d = h.id /\ t \in Terms(v) THEN v ELSE inv.post[t][d]
    <3>1. ASSUME NEW id \in Id, NEW w \in Version \ {0}
          PROVE  /\ AddDocument(inv, id, w).len = [inv.len EXCEPT ![id] = w]
                 /\ \A t \in Version, d \in Id :
                       AddDocument(inv, id, w).post[t][d] = IF d = id /\ t \in Terms(w) THEN w ELSE inv.post[t][d]
      BY <1>6, AddProperties
    <3> QED
      BY <1>5, <2>1, <3>1
  <2> QED
    BY <2>1, <2>2
<1>8. inv.len \in [Id -> Version]
  BY <1>6 DEF IndexOK, Indexes
<1>9. ASSUME NEW id \in IdsOf(u)
      PROVE  Progress(rest, fresh, id, v)'
  <2>1. Progress(todo, fresh, id, v) /\ id \in Id
    BY <1>1
  <2>2. CASE id # h.id
    <3>1. SameOf(id)
      BY <1>1, <1>2, <1>7, <1>8, <2>1, <2>2 DEF SameOf
    <3>2. \A do \in {"unshard", "shard", "uninvert", "invert", "unvector"} :
             Pending(rest, do, id) <=> Pending(todo, do, id)
      BY <1>4, <2>2
    <3>3. fresh \/ Captures(todo) => fresh \/ Captures(rest)
      BY <1>4
    <3> QED
      BY <1>1, <2>1, <3>1, <3>2, <3>3, ProgressKept
  <2>3. CASE id = h.id
    <3>1. inv'.len[id] = v /\ v = Want(id, v)
      BY <1>4, <1>7, <1>8, <2>1, <2>3
    <3>2. ~Pending(todo, "unshard", id) /\ ~Pending(todo, "uninvert", id) /\ ~Pending(todo, "unvector", id)
      BY <1>4 DEF Deletes
    <3>3. Clean(id)'
      <4>1. inv.len[id] = 0
        BY <1>4, <2>1, <2>3, <3>2 DEF Progress
      <4>2. \A t \in Version : inv.post[t][id] = 0
        BY <2>1, <4>1 DEF Progress, Clean
      <4> QED
        BY <1>7, <2>1, <2>3, <3>1, <4>2 DEF Clean
    <3>4. /\ ~Pending(rest, "invert", id)
          /\ ~Pending(rest, "unshard", id) /\ ~Pending(rest, "uninvert", id) /\ ~Pending(rest, "unvector", id)
          /\ Pending(rest, "shard", id) <=> Pending(todo, "shard", id)
          /\ shards'[id] = shards[id] /\ vec'[id] = vec[id]
      BY <1>2, <1>4, <2>3, <3>2
    <3> QED
      BY <2>1, <3>1, <3>2, <3>3, <3>4 DEF Progress
  <2> QED
    BY <2>2, <2>3
<1>10. ~Pending(rest, "parents", Doc(u)) => parentChunks'[u] = Parts(u, v)
  BY <1>1, <1>2, <1>4
<1> QED
  BY <1>2, <1>3, <1>9, <1>10, CourseOn

LEMMA VectorOnCourse ==
    ASSUME TypeInv, NEW r, NEW u, NEW v, OnCourse(r, u, v), Vector(r)
    PROVE  \E rest, f : Onward(r, u, v, rest, f)
<1> PICK todo : todo = request[r].todo
  OBVIOUS
<1> PICK fresh : fresh = request[r].fresh
  OBVIOUS
<1> PICK rest : rest = Tail(todo)
  OBVIOUS
<1> PICK op : op = request[r].op
  OBVIOUS
<1> PICK h : h = It(r)
  OBVIOUS
<1>1. /\ fresh \in BOOLEAN /\ Ahead(todo, op, u, v) /\ h = Head(todo)
      /\ \A id \in IdsOf(u) : Progress(todo, fresh, id, v)
      /\ IdsOf(u) \subseteq Id /\ h.id \in Id
      /\ ~Pending(todo, "parents", Doc(u)) => parentChunks[u] = Parts(u, v)
      /\ op = "index" \/ (op = "delete" /\ v = 0 /\ store[u] = 0)
  BY CourseFacts
<1>2. /\ h.do \in {"vector", "unvector"} /\ UNCHANGED <<inv, shards, parentChunks, store>>
      /\ vec' = IF fresh THEN [vec EXCEPT ![h.id] = h.v] ELSE vec
  BY <1>1 DEF Vector, Now, Rest
<1>3. Moved(r, rest, fresh)
  BY DidMoves DEF Vector, OnCourse
<1>4. /\ \A do, id : Pending(rest, do, id) <=> Pending(todo, do, id) /\ ~(h.do = do /\ h.id = id)
      /\ ~Captures(todo) /\ Pending(todo, h.do, h.id) /\ h.id \in IdsOf(u)
      /\ h.do = "vector" => /\ h.v = v /\ Want(h.id, v) = v
                            /\ \A do \in Deletes : \A id : ~Pending(todo, do, id)
      /\ h.do = "unvector" => h.v = 0
  BY <1>1, <1>2 DEF Ahead, Adds, Deletes
<1>5. h.do = "unvector" => fresh
  BY <1>1, <1>4 DEF Progress
<1>6. vec \in [Id -> Version]
  BY DEF TypeInv
<1>9. ASSUME NEW id \in IdsOf(u)
      PROVE  Progress(rest, fresh, id, v)'
  <2>1. Progress(todo, fresh, id, v) /\ id \in Id
    BY <1>1
  <2>2. CASE id # h.id
    <3>1. SameOf(id)
      BY <1>1, <1>2, <1>6, <2>1, <2>2 DEF SameOf
    <3>2. \A do \in {"unshard", "shard", "uninvert", "invert", "unvector"} :
             Pending(rest, do, id) <=> Pending(todo, do, id)
      BY <1>4, <2>2
    <3>3. fresh \/ Captures(todo) => fresh \/ Captures(rest)
      BY <1>4
    <3> QED
      BY <1>1, <2>1, <3>1, <3>2, <3>3, ProgressKept
  <2>3. CASE id = h.id
    <3>1. vec'[id] \in {vec[id], h.v} /\ (fresh => vec'[id] = h.v)
      BY <1>1, <1>2, <1>6, <2>1, <2>3
    <3>2. Clean(id)'
      BY <1>2, <2>1 DEF Progress, Clean
    <3>3. /\ ~Pending(rest, "unvector", id)
          /\ Pending(rest, "uninvert", id) <=> Pending(todo, "uninvert", id)
          /\ Pending(rest, "invert", id) <=> Pending(todo, "invert", id)
          /\ Pending(rest, "unshard", id) <=> Pending(todo, "unshard", id)
          /\ Pending(rest, "shard", id) <=> Pending(todo, "shard", id)
          /\ inv'.len[id] = inv.len[id] /\ shards'[id] = shards[id] /\ ~Captures(todo)
      <4>1. h.do = "vector" => ~Pending(todo, "unvector", id)
        BY <1>4 DEF Deletes
      <4> QED
        BY <1>2, <1>4, <2>3, <4>1
    <3>4. vec'[id] \in {0, Want(id, v)}
      <4>1. CASE h.do = "unvector"
        BY <1>4, <1>5, <3>1, <4>1
      <4>2. CASE h.do = "vector"
        <5>1. ~Pending(todo, "unvector", id)
          BY <1>4, <4>2 DEF Deletes
        <5>2. vec[id] \in {0, Want(id, v)} /\ h.v = Want(id, v)
          BY <1>4, <2>1, <2>3, <4>2, <5>1 DEF Progress
        <5> QED
          BY <3>1, <5>2
      <4> QED
        BY <1>2, <4>1, <4>2
    <3> QED
      BY <2>1, <3>2, <3>3, <3>4 DEF Progress
  <2> QED
    BY <2>2, <2>3
<1>10. ~Pending(rest, "parents", Doc(u)) => parentChunks'[u] = Parts(u, v)
  BY <1>1, <1>2, <1>4
<1> QED
  BY <1>2, <1>3, <1>9, <1>10, CourseOn

LEMMA ParentsOnCourse ==
    ASSUME TypeInv, NEW r, NEW u, NEW v, OnCourse(r, u, v), Parents(r)
    PROVE  \E rest, f : Onward(r, u, v, rest, f)
<1> PICK todo : todo = request[r].todo
  OBVIOUS
<1> PICK fresh : fresh = request[r].fresh
  OBVIOUS
<1> PICK rest : rest = Tail(todo)
  OBVIOUS
<1> PICK op : op = request[r].op
  OBVIOUS
<1> PICK h : h = It(r)
  OBVIOUS
<1>1. /\ fresh \in BOOLEAN /\ Ahead(todo, op, u, v) /\ h = Head(todo)
      /\ \A id \in IdsOf(u) : Progress(todo, fresh, id, v)
      /\ IdsOf(u) \subseteq Id /\ h.id \in Id
      /\ ~Pending(todo, "parents", Doc(u)) => parentChunks[u] = Parts(u, v)
      /\ op = "index" \/ (op = "delete" /\ v = 0 /\ store[u] = 0)
  BY CourseFacts
<1>2. /\ h.do = "parents" /\ UNCHANGED <<inv, vec, shards, store>>
      /\ parentChunks' = [parentChunks EXCEPT ![h.id[1]] = Chunks(h.id[1], h.v)]
  BY <1>1 DEF Parents, Now, Rest
<1>3. Moved(r, rest, fresh)
  BY DidMoves DEF Parents, OnCourse
<1>4. /\ \A do, id : Pending(rest, do, id) <=> Pending(todo, do, id) /\ ~(h.do = do /\ h.id = id)
      /\ fresh \/ Captures(todo) => fresh \/ Captures(rest)
      /\ h.v = v /\ v # 0 /\ h.id = Doc(u)
  BY <1>1, <1>2 DEF Ahead, Adds
<1>5. ASSUME NEW id \in IdsOf(u)
      PROVE  Progress(rest, fresh, id, v)'
  <2>1. Progress(todo, fresh, id, v) /\ SameOf(id)
    BY <1>1, <1>2 DEF SameOf
  <2>2. \A do \in {"unshard", "shard", "uninvert", "invert", "unvector"} :
           Pending(rest, do, id) <=> Pending(todo, do, id)
    BY <1>2, <1>4
  <2>3. fresh \/ Captures(todo) => fresh \/ Captures(rest)
    BY <1>4
  <2> QED
    BY <1>1, <2>1, <2>2, <2>3, ProgressKept
<1>6. parentChunks'[u] = Parts(u, v)
  <2>1. u \in Url /\ h.id[1] = u
    BY <1>4, IdFacts DEF OnCourse
  <2>2. parentChunks'[u] = Chunks(u, v)
    BY <1>2, <1>4, <2>1 DEF TypeInv
  <2> QED
    BY <1>4, <2>2 DEF Parts
<1> QED
  BY <1>2, <1>3, <1>5, <1>6, CourseOn

LEMMA SaveOnCourse ==
    ASSUME TypeInv, NEW r, NEW u, NEW v, OnCourse(r, u, v), Save(r)
    PROVE  \E rest, f : Onward(r, u, v, rest, f)
<1> PICK todo : todo = request[r].todo
  OBVIOUS
<1> PICK fresh : fresh = request[r].fresh
  OBVIOUS
<1> PICK rest : rest = Tail(todo)
  OBVIOUS
<1> PICK op : op = request[r].op
  OBVIOUS
<1> PICK h : h = It(r)
  OBVIOUS
<1>1. /\ fresh \in BOOLEAN /\ Ahead(todo, op, u, v) /\ h = Head(todo)
      /\ \A id \in IdsOf(u) : Progress(todo, fresh, id, v)
      /\ IdsOf(u) \subseteq Id /\ h.id \in Id
      /\ ~Pending(todo, "parents", Doc(u)) => parentChunks[u] = Parts(u, v)
      /\ op = "index" \/ (op = "delete" /\ v = 0 /\ store[u] = 0)
  BY CourseFacts
<1>2. /\ h.do = "save" /\ UNCHANGED <<inv, vec, shards, parentChunks>>
      /\ \/ store' = [store EXCEPT ![h.id[1]] = h.v]
         \/ astray' = astray \cup {h.id[1]}
  BY <1>1 DEF Save, Now, engineVars
<1>3. Moved(r, rest, fresh)
  BY DidMoves DEF Save, OnCourse
<1>4. /\ \A do, id : Pending(rest, do, id) <=> Pending(todo, do, id) /\ ~(h.do = do /\ h.id = id)
      /\ fresh \/ Captures(todo) => fresh \/ Captures(rest)
      /\ h.v = v /\ h.id = Doc(u) /\ op = "index" /\ Plan(rest, op, u, v)
  BY <1>1, <1>2 DEF Ahead, Adds
<1>5. ASSUME NEW id \in IdsOf(u)
      PROVE  Progress(rest, fresh, id, v)'
  <2>1. Progress(todo, fresh, id, v) /\ SameOf(id)
    BY <1>1, <1>2 DEF SameOf
  <2>2. \A do \in {"unshard", "shard", "uninvert", "invert", "unvector"} :
           Pending(rest, do, id) <=> Pending(todo, do, id)
    BY <1>2, <1>4
  <2>3. fresh \/ Captures(todo) => fresh \/ Captures(rest)
    BY <1>4
  <2> QED
    BY <1>1, <2>1, <2>2, <2>3, ProgressKept
<1>6. ~Pending(rest, "parents", Doc(u)) => parentChunks'[u] = Parts(u, v)
  BY <1>1, <1>2, <1>4
<1>7. Course(rest, op, fresh, u, v)'
  BY <1>4, <1>5, <1>6 DEF Course
<1>8. u \in astray' \/ store'[u] = v
  <2>1. u \in Url /\ h.id[1] = u
    BY <1>4, IdFacts DEF OnCourse
  <2> QED
    BY <1>2, <1>4, <2>1 DEF TypeInv
<1> QED
  BY <1>3, <1>7, <1>8 DEF Onward

LEMMA EmbedOnCourse ==
    ASSUME TypeInv, NEW r, NEW u, NEW v, OnCourse(r, u, v), Embed(r)
    PROVE  \E rest, f : Onward(r, u, v, rest, f)
<1> PICK todo : todo = request[r].todo
  OBVIOUS
<1> PICK fresh : fresh = request[r].fresh
  OBVIOUS
<1> PICK rest : rest = Tail(todo)
  OBVIOUS
<1> PICK op : op = request[r].op
  OBVIOUS
<1> PICK h : h = It(r)
  OBVIOUS
<1>1. /\ fresh \in BOOLEAN /\ Ahead(todo, op, u, v) /\ h = Head(todo)
      /\ \A id \in IdsOf(u) : Progress(todo, fresh, id, v)
      /\ IdsOf(u) \subseteq Id /\ h.id \in Id
      /\ ~Pending(todo, "parents", Doc(u)) => parentChunks[u] = Parts(u, v)
      /\ op = "index" \/ (op = "delete" /\ v = 0 /\ store[u] = 0)
  BY CourseFacts
<1>2. h.do = "embed" /\ UNCHANGED <<inv, vec, shards, parentChunks, store>>
  BY <1>1 DEF Embed, Now, engineVars, Rest
<1>3. /\ \A do, id : Pending(rest, do, id) <=> Pending(todo, do, id) /\ ~(h.do = do /\ h.id = id)
      /\ ~Captures(todo) /\ Plan(rest, op, u, v)
  BY <1>1, <1>2 DEF Ahead, Adds
<1>4. CASE Moved(r, rest, TRUE)
  <2>1. ASSUME NEW id \in IdsOf(u)
        PROVE  Progress(rest, TRUE, id, v)'
    <3>1. Progress(todo, fresh, id, v) /\ SameOf(id)
      BY <1>1, <1>2 DEF SameOf
    <3>2. \A do \in {"unshard", "shard", "uninvert", "invert", "unvector"} :
             Pending(rest, do, id) <=> Pending(todo, do, id)
      BY <1>2, <1>3
    <3> QED
      BY <1>1, <3>1, <3>2, ProgressKept
  <2>2. ~Pending(rest, "parents", Doc(u)) => parentChunks'[u] = Parts(u, v)
    BY <1>1, <1>2, <1>3
  <2> QED
    BY <1>2, <1>4, <2>1, <2>2, CourseOn
<1>5. CASE Moved(r, Tail(rest), fresh)
  <2> PICK last : last = Tail(rest)
    OBVIOUS
  <2>1. todo \in TaskList /\ todo # << >>
    BY CourseFacts DEF OnCourse
  <2>2. rest \in TaskList /\ rest # << >> /\ Head(rest).do = "vector"
    BY <1>1, <1>2, <2>1, ListTail
  <2>3. Ahead(rest, op, u, v)
    BY <1>3, <2>2, AheadOfPlan DEF OnCourse
  <2>4. /\ \A do, id : Pending(last, do, id) <=> Pending(rest, do, id) /\ ~("vector" = do /\ Head(rest).id = id)
        /\ Plan(last, op, u, v) /\ ~(last = << >> /\ op = "index")
    BY <2>2, <2>3 DEF Ahead
  <2>5. ASSUME NEW id \in IdsOf(u)
        PROVE  Progress(last, fresh, id, v)'
    <3>1. Progress(todo, fresh, id, v) /\ SameOf(id)
      BY <1>1, <1>2 DEF SameOf
    <3>2. \A do \in {"unshard", "shard", "uninvert", "invert", "unvector"} :
             Pending(rest, do, id) <=> Pending(todo, do, id)
      BY <1>2, <1>3
    <3>3. \A do \in {"unshard", "shard", "uninvert", "invert", "unvector"} :
             Pending(last, do, id) <=> Pending(rest, do, id)
      BY <2>4
    <3>4. \A do \in {"unshard", "shard", "uninvert", "invert", "unvector"} :
             Pending(last, do, id) <=> Pending(todo, do, id)
      BY <3>2, <3>3
    <3> QED
      BY <1>1, <1>3, <3>1, <3>4, ProgressKept
  <2>6. ~Pending(last, "parents", Doc(u)) => parentChunks'[u] = Parts(u, v)
    BY <1>1, <1>2, <1>3, <2>4
  <2>7. Course(last, op, fresh, u, v)'
    BY <1>1, <1>2, <2>4, <2>5, <2>6 DEF Course
  <2>8. last = << >> => store'[u] = v
    BY <1>1, <1>2, <2>4
  <2> QED
    BY <1>5, <2>7, <2>8 DEF Onward
<1> QED
  BY <1>4, <1>5, EmbedMoves DEF OnCourse

LEMMA Forgotten ==
    ASSUME IndexEngineAssumption, TypeInv, NEW r \in Request, NEW u \in Url \ astray, Forget(r),
           It(r).id[1] = u, NEW w \in Version, Has(u, w), NEW v \in Version,
           NEW T \in TaskList, T = Tail(request[r].todo), NEW op, op = request[r].op,
           StepsOK(T, u, v), InOrder(T), SavesLast(T, op), op = "index" => T # << >>,
           \A k \in DOMAIN T : T[k].do \in Adds,
           \A id \in IdsOf(u) : /\ Pending(T, "shard", id) <=> Want(id, v) # 0
                                /\ Pending(T, "invert", id) <=> Want(id, v) # 0,
           Pending(T, "parents", Doc(u)) \/ v = 0,
           op = "index" \/ (op = "delete" /\ v = 0 /\ store[u] = 0)
    PROVE  \E rest, f : Onward(r, u, v, rest, f)
<1> PICK P : P = parentChunks[u]
  OBVIOUS
<1> PICK D : D = DeleteSteps(u, P)
  OBVIOUS
<1> PICK f : f = request[r].fresh
  OBVIOUS
<1> PICK rest : rest = D \o T
  OBVIOUS
<1>1. P \in {{}, {<<u, 1>>}} /\ P = Parts(u, w) /\ f \in BOOLEAN
  BY DEF TypeInv, Has
<1>2. /\ D \in TaskList /\ StepsOK(D, u, v) /\ InOrder(D) /\ Captures(D)
      /\ \A k \in DOMAIN D : D[k].do \in Deletes
      /\ \A id \in IdsOf(u) : /\ Pending(D, "unshard", id) <=> id \in {Doc(u)} \cup P
                              /\ Pending(D, "uninvert", id) <=> id \in {Doc(u)} \cup P
                              /\ Pending(D, "unvector", id) <=> id \in {Doc(u)} \cup P
  BY <1>1, DeleteFacts
<1>3. /\ Plan(rest, op, u, v) /\ Captures(rest)
      /\ \A do, id : Pending(rest, do, id) <=> Pending(D, do, id) \/ Pending(T, do, id)
  <2>1. /\ D \in TaskList /\ StepsOK(D, u, v) /\ InOrder(D) /\ Captures(D)
        /\ \A k \in DOMAIN D : D[k].do \in Deletes
    BY <1>2
  <2>2. /\ Plan(D \o T, op, u, v) /\ Captures(D \o T)
        /\ \A do, id : Pending(D \o T, do, id) <=> Pending(D, do, id) \/ Pending(T, do, id)
    <3>1. /\ T \in TaskList /\ StepsOK(T, u, v) /\ InOrder(T) /\ SavesLast(T, op)
          /\ op = "index" => T # << >>
          /\ \A k \in DOMAIN T : T[k].do \in Adds
      OBVIOUS
    <3>2. Plan(D \o T, op, u, v)
      BY <2>1, <3>1, PlanJoined
    <3>3. Captures(D \o T)
      BY <2>1, <3>1, PlanJoined
    <3>4. \A do, id : Pending(D \o T, do, id) <=> Pending(D, do, id) \/ Pending(T, do, id)
      BY <2>1, <3>1, PendingJoined
    <3> QED
      BY <3>2, <3>3, <3>4
  <2> QED
    BY <2>2
<1>4. Moved(r, rest, f)
  BY ForgetMoves
<1>5. UNCHANGED <<inv, vec, shards, store>> /\ parentChunks'[u] = {}
  BY DEF Forget, Rest, TypeInv
<1>6. \A do \in Deletes : \A id : ~Pending(T, do, id)
  BY DEF Pending, Adds, Deletes
<1>7. \A do \in Adds : \A id : ~Pending(D, do, id)
  BY <1>2 DEF Pending, Adds, Deletes
<1>8. ASSUME NEW id \in IdsOf(u)
      PROVE  Progress(rest, f, id, v)'
  <2>1. Clean(id) /\ inv.len[id] = Want(id, w) /\ shards[id] = Want(id, w) /\ vec[id] \in {0, Want(id, w)}
    BY DEF Has
  <2>2. /\ Pending(rest, "unshard", id) <=> id \in {Doc(u)} \cup P
        /\ Pending(rest, "uninvert", id) <=> id \in {Doc(u)} \cup P
        /\ Pending(rest, "unvector", id) <=> id \in {Doc(u)} \cup P
    BY <1>2, <1>3, <1>6 DEF Deletes
  <2>3. /\ Pending(rest, "shard", id) <=> Want(id, v) # 0
        /\ Pending(rest, "invert", id) <=> Want(id, v) # 0
    BY <1>3, <1>7 DEF Adds
  <2>4. id \notin {Doc(u)} \cup P => Want(id, w) = 0
    <3>1. id \notin {Doc(u)} \cup P => w = 0 \/ id \notin Ids(u, w)
      BY <1>1 DEF IdsOf, Parts, Ids
    <3>2. id[1] = u
      <4>1. u \in Url
        OBVIOUS
      <4> QED
        BY <4>1, IdFacts
    <3> QED
      BY <3>1, <3>2 DEF Want
  <2>5. Clean(id)'
    BY <1>5, <2>1 DEF Clean
  <2>6. inv'.len[id] = inv.len[id] /\ shards'[id] = shards[id] /\ vec'[id] = vec[id]
    BY <1>5
  <2> QED
    BY <1>3, <2>1, <2>2, <2>3, <2>4, <2>5, <2>6 DEF Progress
<1>9. ~Pending(rest, "parents", Doc(u)) => parentChunks'[u] = Parts(u, v)
  BY <1>3, <1>5 DEF Parts
<1>10. Course(rest, op, f, u, v)'
  BY <1>3, <1>5, <1>8, <1>9 DEF Course
<1>11. rest # << >>
  <2>1. \E k : k \in DOMAIN rest
    BY <1>3 DEF Captures
  <2>2. DOMAIN << >> = {}
    OBVIOUS
  <2> QED
    BY <2>1, <2>2
<1> QED
  BY <1>4, <1>10, <1>11 DEF Onward

LEMMA BeginningMoves ==
    ASSUME IndexEngineAssumption, TypeInv, NEW r \in Request, NEW u \in Url \ astray, Work(r),
           request[r].todo # << >>, Beginning(request[r], u)
    PROVE  \E v \in Version : \E rest, f : Onward(r, u, v, rest, f)
<1> PICK op : op = request[r].op
  OBVIOUS
<1> PICK T : T = Tail(request[r].todo)
  OBVIOUS
<1> PICK w : w = store[u]
  OBVIOUS
<1>1. w \in Version /\ Has(u, w)
  BY DEF TypeInv, Beginning
<1>2. ASSUME NEW v \in Version, v # 0 => v \in 1..MaxVersion
      PROVE  \A id \in IdsOf(u) : Want(id, v) # 0 <=> v # 0 /\ id \in Ids(u, v)
  BY IdFacts DEF Want
<1>3. ASSUME It(r) = Step("forget", Doc(u), 0)
      PROVE  Forget(r) /\ It(r).id[1] = u
  <2>1. It(r).do = "forget" /\ It(r).id = Doc(u)
    BY <1>3, StepFields
  <2>2. It(r).id[1] = u
    BY <2>1, IdFacts
  <2>3. Head(request[r].todo).do = "forget"
    BY <2>1 DEF It
  <2> QED
    BY <2>2, <2>3 DEF Work, Shard, Capture, Uninvert, Invert, InvertCaptured, Embed, Vector, Parents, Save, Now
<1>4. CASE op = "index" /\ \E v \in 1..MaxVersion : request[r].todo = IndexSteps(u, v)
  <2>1. PICK v \in 1..MaxVersion : request[r].todo = IndexSteps(u, v)
    BY <1>4
  <2>2. v \in Version /\ v # 0
    BY VersionFacts
  <2>3. T = RestSteps(u, v) /\ T \in TaskList /\ It(r) = Step("forget", Doc(u), 0)
    <3>1. /\ Head(IndexSteps(u, v)) = Step("forget", Doc(u), 0)
          /\ Tail(IndexSteps(u, v)) = RestSteps(u, v) /\ RestSteps(u, v) \in TaskList
      BY RestStepsAre
    <3> QED
      BY <2>1, <3>1 DEF It
  <2>4. /\ T # << >> /\ StepsOK(T, u, v) /\ InOrder(T) /\ SavesLast(T, "index")
        /\ \A k \in DOMAIN T : T[k].do \in Adds
        /\ \A id \in IdsOf(u) : /\ Pending(T, "shard", id) <=> id \in Ids(u, v)
                                /\ Pending(T, "invert", id) <=> id \in Ids(u, v)
        /\ Pending(T, "parents", Doc(u))
    BY <2>3, RestFacts
  <2>5. \A id \in IdsOf(u) : /\ Pending(T, "shard", id) <=> Want(id, v) # 0
                             /\ Pending(T, "invert", id) <=> Want(id, v) # 0
    BY <1>2, <2>2, <2>4
  <2>6. \E rest, f : Onward(r, u, v, rest, f)
    BY <1>1, <1>3, <1>4, <2>2, <2>3, <2>4, <2>5, Forgotten
  <2> QED
    BY <2>2, <2>6
<1>5. CASE op = "delete" /\ store[u] = 0 /\ request[r].todo = <<Step("forget", Doc(u), 0)>>
  <2>1. T = << >> /\ It(r) = Step("forget", Doc(u), 0)
    BY <1>5 DEF It
  <2>2. T \in TaskList /\ DOMAIN T = {}
    <3>1. DOMAIN << >> = {}
      OBVIOUS
    <3> QED
      BY <2>1, <3>1, NoTask
  <2>3. 0 \in Version
    BY VersionFacts
  <2>4. /\ StepsOK(T, u, 0) /\ InOrder(T) /\ SavesLast(T, op) /\ \A k \in DOMAIN T : T[k].do \in Adds
    BY <2>2 DEF StepsOK, InOrder, SavesLast
  <2>5. \A id \in IdsOf(u) : /\ Pending(T, "shard", id) <=> Want(id, 0) # 0
                             /\ Pending(T, "invert", id) <=> Want(id, 0) # 0
    BY <2>2 DEF Want, Pending
  <2>6. \E rest, f : Onward(r, u, 0, rest, f)
    BY <1>1, <1>3, <1>5, <2>1, <2>2, <2>3, <2>4, <2>5, Forgotten
  <2> QED
    BY <2>3, <2>6
<1> QED
  BY <1>4, <1>5 DEF Beginning

\* A request that is alone with its URL goes on.
LEMMA UnderwayMoves ==
    ASSUME IndexEngineAssumption, TypeInv, GhostInv, NEW r \in Request, NEW u \in Url \ astray, Work(r),
           request[r].todo # << >>, Underway(request[r], u)
    PROVE  \E v \in Version : \E rest, f : Onward(r, u, v, rest, f)
<1>1. CASE Beginning(request[r], u)
  BY <1>1, BeginningMoves
<1>2. ASSUME NEW v \in Version, InProgress(request[r], u, v)
      PROVE  \E rest, f : Onward(r, u, v, rest, f)
  <2>1. OnCourse(r, u, v)
    BY <1>2 DEF OnCourse
  <2>2. Head(request[r].todo).do \in Deletes \cup Adds
    BY <2>1, CourseFacts DEF Ahead
  <2>3. ~Forget(r) /\ ~InvertCaptured(r)
    BY <2>2 DEF Forget, InvertCaptured, Now, Deletes, Adds
  <2> QED
    BY <2>1, <2>3, ShardOnCourse, CaptureOnCourse, UninvertOnCourse, InvertOnCourse, EmbedOnCourse,
       VectorOnCourse, ParentsOnCourse, SaveOnCourse DEF Work
<1> QED
  BY <1>1, <1>2 DEF Underway

-----------------------------------------------------------------------------
(* The process *)

LEMMA OwnTail ==
    ASSUME NEW todo \in TaskList, todo # << >>, NEW u, Own(todo, u)
    PROVE  Own(Tail(todo), u) /\ Head(todo).id[1] = u
<1>1. todo \in Seq(Task)
  BY DEF TaskList
<1>2. /\ Head(todo) = todo[1] /\ 1 \in DOMAIN todo
      /\ \A k \in DOMAIN Tail(todo) : k + 1 \in DOMAIN todo /\ Tail(todo)[k] = todo[k + 1]
  BY <1>1, TailElements
<1> QED
  BY <1>2 DEF Own

LEMMA OwnJoined ==
    ASSUME NEW a \in TaskList, NEW b \in TaskList, NEW u, Own(a, u), Own(b, u)
    PROVE  Own(a \o b, u)
<1> PICK s : s = a \o b
  OBVIOUS
<1>1. a \in Seq(Task) /\ b \in Seq(Task)
  BY DEF TaskList
<1>2. /\ \A k \in DOMAIN a : k \in DOMAIN s /\ s[k] = a[k]
      /\ \A k \in DOMAIN s : k \in DOMAIN a \/ (k - Len(a) \in DOMAIN b /\ s[k] = b[k - Len(a)])
  BY <1>1, ConcatElements
<1>3. ASSUME NEW k \in DOMAIN s
      PROVE  s[k].id[1] = u
  BY <1>2 DEF Own
<1> QED
  BY <1>3 DEF Own

LEMMA OwnSteps ==
    ASSUME IndexEngineAssumption, NEW u \in Url, NEW v \in 1..MaxVersion
    PROVE  Own(IndexSteps(u, v), u) /\ Own(DirectSteps(u, v), u)
<1>1. Own(IndexSteps(u, v), u)
  <2> PICK s : s = IndexSteps(u, v)
    OBVIOUS
  <2>1. s \in Seq(Task)
    BY IndexStepsType DEF TaskList
  <2>2. s # << >> /\ Head(s) = Step("forget", Doc(u), 0) /\ Tail(s) = RestSteps(u, v)
    BY RestStepsAre
  <2>3. /\ Head(s) = s[1]
        /\ \A k \in DOMAIN s : k # 1 => k - 1 \in DOMAIN Tail(s) /\ Tail(s)[k - 1] = s[k]
    BY <2>1, <2>2, TailElements
  <2>4. StepsOK(Tail(s), u, v)
    BY <2>2, RestFacts
  <2>5. s[1].id[1] = u
    <3>1. s[1].id = Doc(u)
      BY <2>2, <2>3, StepFields
    <3>2. Doc(u)[1] = u
      BY IdFacts
    <3> QED
      BY <3>1, <3>2
  <2>6. \A k \in DOMAIN s : k # 1 => s[k].id \in IdsOf(u)
    BY <2>3, <2>4 DEF StepsOK
  <2>7. \A k \in DOMAIN s : s[k].id[1] = u
    BY <2>5, <2>6, IdFacts
  <2> QED
    BY <2>7 DEF Own
<1>2. Own(DirectSteps(u, v), u)
  <2> DEFINE d(do) == Step(do, Doc(u), v)
             e == Step("capture", Doc(u), 0)
             good == {x \in Task : x.id[1] = u}
  <2>1. Doc(u)[1] = u /\ Doc(u) \in Id /\ v \in Version /\ v # 0 /\ 0 \in Version
    BY IdFacts, VersionFacts
  <2>2. /\ d("shard") \in good /\ d("invertCaptured") \in good /\ d("embed") \in good
        /\ d("vector") \in good /\ e \in good
    BY <2>1, StepType, StepFields DEF Dos, Deletes, Adds
  <2>3. DirectSteps(u, v) = <<d("shard"), e, d("invertCaptured"), d("embed"), d("vector")>>
    BY DEF DirectSteps
  <2>4. \A x \in good : x.id[1] = u
    OBVIOUS
  <2> HIDE DEF d, e, good
  <2>5. DirectSteps(u, v) \in Seq(good)
    BY <2>2, <2>3
  <2> QED
    BY <2>4, <2>5 DEF Own
<1> QED
  BY <1>1, <1>2

LEMMA OwnForget ==
    ASSUME IndexEngineAssumption, NEW u \in Url
    PROVE  Own(<<Step("forget", Doc(u), 0)>>, u)
<1> PICK x : x = Step("forget", Doc(u), 0)
  OBVIOUS
<1>1. x.id[1] = u
  <2>1. x.id = Doc(u)
    BY StepFields
  <2>2. Doc(u)[1] = u
    BY IdFacts
  <2> QED
    BY <2>1, <2>2
<1>2. DOMAIN <<x>> = {1} /\ <<x>>[1] = x
  OBVIOUS
<1> QED
  BY <1>1, <1>2 DEF Own

\* What a step of a request does to its list and to the process.
LEMMA WorkMoves ==
    ASSUME IndexEngineAssumption, TypeInv, NEW r \in Request, Work(r)
    PROVE  /\ request[r].todo # << >>
           /\ \E rest \in TaskList : \E f :
                 /\ Moved(r, rest, f)
                 /\ \A u \in Url : Own(request[r].todo, u) => Own(rest, u)
           /\ UNCHANGED <<phase, janitor, snapshot, ops, starts>>
           /\ astray \subseteq astray'
<1>1. /\ request[r].todo # << >> /\ request[r].todo \in TaskList
  BY DEF TypeInv, Work, Forget, Shard, Capture, Uninvert, Invert, InvertCaptured, Embed, Vector, Parents, Save, Now
<1> PICK T : T = Tail(request[r].todo)
  OBVIOUS
<1>2. T \in TaskList /\ \A u : Own(request[r].todo, u) => Own(T, u) /\ It(r).id[1] = u
  BY <1>1, ListTail, OwnTail DEF It
<1>3. UNCHANGED <<phase, janitor, snapshot, ops, starts>> /\ astray \subseteq astray'
  BY DEF Work, Forget, Shard, Capture, Uninvert, Invert, InvertCaptured, Embed, Vector, Parents, Save, Rest
<1>4. ASSUME NEW f, Moved(r, T, f)
      PROVE  \E rest \in TaskList : \E g :
                /\ Moved(r, rest, g) /\ \A u \in Url : Own(request[r].todo, u) => Own(rest, u)
  BY <1>2, <1>4
<1>5. CASE Forget(r)
  <2> PICK u : u = It(r).id[1]
    OBVIOUS
  <2> PICK D : D = DeleteSteps(u, parentChunks[u])
    OBVIOUS
  <2>1. u \in Url
    BY <1>1, CurrentTask DEF Id
  <2>2. parentChunks[u] \in {{}, {<<u, 1>>}}
    BY <2>1 DEF TypeInv
  <2>3. D \in TaskList /\ Own(D, u)
    <3>1. D \in TaskList /\ \A k \in DOMAIN D : D[k].id \in IdsOf(u)
      BY <2>1, <2>2, DeleteStepsType
    <3>2. \A id \in IdsOf(u) : id[1] = u
      BY <2>1, IdFacts
    <3> QED
      BY <3>1, <3>2 DEF Own
  <2>4. D \o T \in TaskList
    BY <1>2, <2>3, ListConcat
  <2>5. ASSUME NEW w \in Url, Own(request[r].todo, w) PROVE Own(D \o T, w)
    <3>1. w = u /\ Own(T, w)
      BY <1>2, <2>5
    <3> QED
      BY <1>2, <2>3, <3>1, OwnJoined
  <2>6. Moved(r, D \o T, request[r].fresh)
    BY <1>5, ForgetMoves
  <2> QED
    BY <1>1, <1>3, <2>4, <2>5, <2>6
<1>6. CASE Capture(r)
  BY <1>1, <1>3, <1>4, <1>6, CaptureMoves
<1>7. CASE Embed(r)
  <2>1. CASE Moved(r, T, TRUE)
    BY <1>1, <1>3, <1>4, <2>1
  <2>2. CASE Moved(r, Tail(T), request[r].fresh)
    <3>1. T # << >> /\ Tail(T) \in TaskList
      <4>1. Head(request[r].todo).do = "embed"
        BY <1>7 DEF Embed, Now
      <4> QED
        BY <1>1, <4>1, ListTail
    <3>2. \A u : Own(request[r].todo, u) => Own(Tail(T), u)
      BY <1>2, <3>1, OwnTail
    <3> QED
      BY <1>1, <1>3, <2>2, <3>1, <3>2
  <2> QED
    BY <1>7, <2>1, <2>2, EmbedMoves
<1>8. CASE Did(r)
  BY <1>1, <1>3, <1>4, <1>8, DidMoves
<1> QED
  BY <1>5, <1>6, <1>7, <1>8 DEF Work, Shard, Uninvert, Invert, InvertCaptured, Vector, Parents, Save

\* What a request that begins does.
Begun(r, op, u, todo) ==
    /\ phase = "up" /\ r \in Request /\ request[r].todo = << >> /\ u \in Url
    /\ todo \in TaskList /\ Own(todo, u)
    /\ request' = [s \in Request |-> request'[s]]
    /\ \A s \in Request : s # r => request'[s] = request[s]
    /\ request'[r].op = op /\ request'[r].todo = todo /\ request'[r].url = u
    /\ UNCHANGED <<inv, vec, trie, shards, parentChunks, store, janitor, snapshot, phase>>
    /\ astray \subseteq astray' /\ (Races(u) => u \in astray')

LEMMA BeginsSo ==
    ASSUME IndexEngineAssumption, TypeInv, NEW r \in Request,
           BeginIndex(r) \/ BeginDelete(r) \/ BeginDirect(r) \/ BeginIncremental(r)
    PROVE  \E op, todo : \E u \in Url :
              /\ Begun(r, op, u, todo)
              /\ \/ op = "index" /\ \E v \in 1..MaxVersion : todo = IndexSteps(u, v)
                 \/ op = "delete" /\ todo = <<Step("forget", Doc(u), 0)>> /\ (store[u] # 0 => u \in astray')
                 \/ u \in astray'
<1>1. ASSUME NEW op, NEW u \in Url, NEW todo \in TaskList, NEW apart \in BOOLEAN, Own(todo, u),
             Begin(r, op, u, todo, apart)
      PROVE  Begun(r, op, u, todo) /\ (apart => u \in astray')
  <2>1. /\ phase = "up" /\ request[r].todo = << >>
        /\ request' = [request EXCEPT ![r] = [op |-> op, todo |-> todo, fresh |-> FALSE, url |-> u]]
        /\ astray' = IF Races(u) \/ apart THEN astray \cup {u} ELSE astray
        /\ UNCHANGED <<inv, vec, trie, shards, parentChunks, store, janitor, snapshot, phase>>
    BY <1>1 DEF Begin, engineVars
  <2>2. /\ request' = [s \in Request |-> request'[s]]
        /\ \A s \in Request : s # r => request'[s] = request[s]
        /\ request'[r].op = op /\ request'[r].todo = todo /\ request'[r].url = u
    BY <2>1 DEF TypeInv
  <2> QED
    BY <1>1, <2>1, <2>2 DEF Begun
<1>2. CASE BeginIndex(r)
  <2>1. PICK u \in Url, v \in 1..MaxVersion : Begin(r, "index", u, IndexSteps(u, v), FALSE)
    BY <1>2 DEF BeginIndex
  <2>2. IndexSteps(u, v) \in TaskList /\ Own(IndexSteps(u, v), u)
    BY IndexStepsType, OwnSteps
  <2> QED
    BY <1>1, <2>1, <2>2
<1>3. CASE BeginDelete(r)
  <2>1. PICK u \in Url : Begin(r, "delete", u, <<Step("forget", Doc(u), 0)>>, store[u] # 0)
    BY <1>3 DEF BeginDelete
  <2>2. <<Step("forget", Doc(u), 0)>> \in TaskList /\ Own(<<Step("forget", Doc(u), 0)>>, u)
    BY ForgetStepType, OwnForget
  <2>3. PICK apart \in BOOLEAN : apart = (store[u] # 0)
    OBVIOUS
  <2>4. Begin(r, "delete", u, <<Step("forget", Doc(u), 0)>>, apart)
    BY <2>1, <2>3
  <2>5. Begun(r, "delete", u, <<Step("forget", Doc(u), 0)>>) /\ (apart => u \in astray')
    BY <1>1, <2>2, <2>4
  <2> QED
    BY <2>3, <2>5
<1>4. CASE BeginDirect(r)
  <2>1. PICK u \in Url, v \in 1..MaxVersion : Begin(r, "direct", u, DirectSteps(u, v), TRUE)
    BY <1>4 DEF BeginDirect
  <2>2. DirectSteps(u, v) \in TaskList /\ Own(DirectSteps(u, v), u)
    BY DirectStepsType, OwnSteps
  <2> QED
    BY <1>1, <2>1, <2>2
<1>5. CASE BeginIncremental(r)
  <2>1. PICK u \in Url : store[u] # 0 /\ Begin(r, "incremental", u, DirectSteps(u, store[u]), TRUE)
    BY <1>5 DEF BeginIncremental
  <2>2. store[u] \in 1..MaxVersion
    BY <2>1, VersionFacts DEF TypeInv
  <2>3. DirectSteps(u, store[u]) \in TaskList /\ Own(DirectSteps(u, store[u]), u)
    BY <2>2, DirectStepsType, OwnSteps
  <2> QED
    BY <1>1, <2>1, <2>3
<1> QED
  BY <1>2, <1>3, <1>4, <1>5

LEMMA OwnNothing ==
    ASSUME NEW u
    PROVE  Own(<< >>, u)
<1>1. DOMAIN << >> = {}
  OBVIOUS
<1> QED
  BY <1>1 DEF Own

\* The document a request is at is the one it was made for.
LEMMA OwnerOfTask ==
    ASSUME TypeInv, ProcessInv, Live, NEW r \in Request, request[r].todo # << >>
    PROVE  /\ Own(request[r].todo, request[r].url) /\ request[r].url \in Url
           /\ It(r).id \in Id /\ It(r).id[1] = request[r].url
<1>1. request[r].todo \in TaskList /\ Own(request[r].todo, request[r].url)
  BY DEF TypeInv, ProcessInv
<1>2. It(r).id[1] = request[r].url
  BY <1>1, OwnTail DEF It
<1>3. It(r).id \in Id
  BY CurrentTask
<1>4. It(r).id[1] \in Url
  BY <1>3 DEF Id
<1> QED
  BY <1>1, <1>2, <1>3, <1>4

LEMMA ProcessStep ==
    ASSUME IndexEngineAssumption, TypeInv, TypeInv', ProcessInv, [Next]_vars
    PROVE  ProcessInv'
<1>1. ASSUME NEW r \in Request,
             BeginIndex(r) \/ BeginDelete(r) \/ BeginDirect(r) \/ BeginIncremental(r)
      PROVE  ProcessInv'
  <2>1. PICK op, todo : \E u \in Url : Begun(r, op, u, todo)
    BY <1>1, BeginsSo
  <2>2. PICK u \in Url : Begun(r, op, u, todo)
    BY <2>1
  <2>3. /\ phase = "up" /\ phase' = "up"
        /\ \A s \in Request : s # r => request'[s] = request[s]
        /\ Own(request'[r].todo, request'[r].url)
    BY <2>2 DEF Begun
  <2> QED
    BY <2>3 DEF ProcessInv, Live
<1>2. ASSUME NEW r \in Request, Work(r)
      PROVE  ProcessInv'
  <2>1. /\ request[r].todo # << >> /\ UNCHANGED <<phase, janitor>> /\ astray \subseteq astray'
    BY <1>2, WorkMoves
  <2>2. PICK rest \in TaskList : \E f : /\ Moved(r, rest, f)
                                        /\ \A u \in Url : Own(request[r].todo, u) => Own(rest, u)
    BY <1>2, WorkMoves
  <2>3. /\ \A s \in Request : s # r => request'[s] = request[s]
        /\ request'[r].todo = rest
        /\ rest # << >> => request'[r].url = request[r].url
    BY <2>2 DEF Moved
  <2>4. Live => Own(request'[r].todo, request'[r].url)
    <3>1. CASE rest = << >>
      BY <2>3, <3>1, OwnNothing
    <3>2. CASE rest # << >> /\ Live
      <4>1. Own(request[r].todo, request[r].url) /\ request[r].url \in Url
        BY <2>1, <3>2, OwnerOfTask
      <4> QED
        BY <2>2, <2>3, <3>2, <4>1
    <3> QED
      BY <3>1, <3>2
  <2>5. phase \in {"down", "hydrating"} => phase = "hydrating" /\ r = Hydrating
    BY <2>1 DEF ProcessInv
  <2>6. phase' = "hydrating" => astray' = Url
    BY <2>1 DEF ProcessInv, TypeInv
  <2>7. Live => \A s \in Request : Own(request'[s].todo, request'[s].url)
    BY <2>3, <2>4 DEF ProcessInv
  <2>8. phase' \in {"down", "hydrating"} =>
           \A s \in Request : request'[s].todo = << >> \/ (phase' = "hydrating" /\ s = Hydrating)
    BY <2>1, <2>3, <2>5 DEF ProcessInv
  <2> QED
    BY <2>1, <2>6, <2>7, <2>8 DEF ProcessInv, Live
<1>3. CASE Expire \/ ReadStore \/ ReadStoreFails \/ SaveInverted \/ SaveVectors
  <2>1. Live /\ Live' /\ request' = request
    BY <1>3 DEF Expire, ReadStore, ReadStoreFails, SaveInverted, SaveVectors, Live, ProcessInv
  <2> QED
    BY <2>1 DEF ProcessInv, Live
<1>4. CASE Swap
  <2>1. Live /\ Live'
    BY <1>4 DEF Swap, Live, ProcessInv
  <2>2. ASSUME NEW s \in Request
        PROVE  request'[s].todo = request[s].todo /\ request'[s].url = request[s].url
    <3>1. request'[s] = [request[s] EXCEPT !.fresh = FALSE] /\ DOMAIN request[s] = Fields
      BY <1>4 DEF Swap, TypeInv, Fields
    <3> QED
      BY <3>1 DEF Fields
  <2> QED
    BY <2>1, <2>2 DEF ProcessInv, Live
<1>5. CASE Start
  <2>1. phase = "down" /\ phase' = "hydrating" /\ janitor' = janitor /\ astray' = Url
    BY <1>5 DEF Start
  <2>2. \A r \in Request : r # Hydrating => request'[r] = request[r]
    BY <1>5, StartRequests
  <2> QED
    BY <2>1, <2>2 DEF ProcessInv, Live
<1>6. CASE Serve
  <2>1. phase = "hydrating" /\ phase' = "up" /\ request' = request /\ janitor' = janitor
        /\ request[Hydrating].todo = << >>
    BY <1>6 DEF Serve
  <2>2. \A r \in Request : request[r].todo = << >>
    BY <2>1 DEF ProcessInv
  <2>3. \A r \in Request : Own(request'[r].todo, request'[r].url)
    BY <2>1, <2>2, OwnNothing
  <2> QED
    BY <2>1, <2>3 DEF ProcessInv, Live
<1>7. CASE Exit
  <2>1. phase' = "down" /\ janitor' = NoJanitor /\ \A r \in Request : request'[r] = Idle
    BY <1>7 DEF Exit
  <2> QED
    BY <2>1, IdleFields DEF ProcessInv, Live, NoJanitor
<1>8. CASE UNCHANGED vars
  <2>1. UNCHANGED <<phase, janitor, astray, request>>
    BY <1>8 DEF vars
  <2> QED
    BY <2>1 DEF ProcessInv, Live
<1> QED
  BY <1>1, <1>2, <1>3, <1>4, <1>5, <1>6, <1>7, <1>8 DEF Next

-----------------------------------------------------------------------------
(* Agreement *)

\* Nothing of u has changed.
SameData(u) ==
    /\ \A id \in IdsOf(u) : SameOf(id)
    /\ parentChunks'[u] = parentChunks[u] /\ store'[u] = store[u]

LEMMA HasKept ==
    ASSUME NEW u, NEW v, SameData(u), Has(u, v)
    PROVE  Has(u, v)'
<1>1. ASSUME NEW id \in IdsOf(u)
      PROVE  /\ Clean(id)' /\ inv'.len[id] = Want(id, v)
             /\ shards'[id] = Want(id, v) /\ vec'[id] \in {0, Want(id, v)}
  <2>1. SameOf(id) /\ Clean(id) /\ inv.len[id] = Want(id, v)
        /\ shards[id] = Want(id, v) /\ vec[id] \in {0, Want(id, v)}
    BY DEF SameData, Has
  <2> QED
    BY <2>1 DEF SameOf, Clean
<1> QED
  BY <1>1 DEF Has, SameData

LEMMA UnderwayKept ==
    ASSUME NEW u, NEW q, SameData(u), Underway(q, u)
    PROVE  Underway(q, u)'
<1>1. CASE Beginning(q, u)
  <2> PICK v : v = store[u]
    OBVIOUS
  <2>1. Has(u, v)' /\ store'[u] = v
    BY <1>1, HasKept DEF Beginning, SameData
  <2>2. Has(u, store[u])'
    BY <2>1
  <2>3. Beginning(q, u)'
    BY <1>1, <2>1, <2>2 DEF Beginning
  <2> QED
    BY <2>3 DEF Underway
<1>2. ASSUME NEW v \in Version, InProgress(q, u, v)
      PROVE  Underway(q, u)'
  <2>1. Course(q.todo, q.op, q.fresh, u, v)
    BY <1>2 DEF InProgress
  <2>2. ASSUME NEW id \in IdsOf(u)
        PROVE  Progress(q.todo, q.fresh, id, v)'
    <3>1. Progress(q.todo, q.fresh, id, v) /\ SameOf(id)
      BY <2>1 DEF Course, SameData
    <3>2. Clean(id)'
      BY <3>1 DEF Progress, Clean, SameOf
    <3> QED
      BY <3>1, <3>2 DEF Progress, SameOf
  <2>3. Course(q.todo, q.op, q.fresh, u, v)'
    BY <2>1, <2>2 DEF Course, SameData
  <2> QED
    BY <1>2, <2>3 DEF InProgress, Underway
<1> QED
  BY <1>1, <1>2 DEF Underway

LEMMA AgreementKept ==
    ASSUME NEW u, Agreement(u), SameData(u),
           \A r \in Request : /\ Touches(r, u)' <=> Touches(r, u)
                              /\ Touches(r, u) => request'[r] = request[r],
           janitor'.step # "idle" => Quiet(u),
           janitor'.step = "read" => janitor'.docs[u] = store[u]
    PROVE  Agreement(u)'
<1>1. Quiet(u)' <=> Quiet(u)
  BY DEF Quiet
<1>2. Quiet(u)' => Has(u, store[u])'
  <2> PICK v : v = store[u]
    OBVIOUS
  <2>1. Quiet(u) => Has(u, v)' /\ store'[u] = v
    BY HasKept DEF Agreement, SameData
  <2> QED
    BY <1>1, <2>1
<1>3. ASSUME NEW r \in Request, Touches(r, u)'
      PROVE  Underway(request[r], u)'
  <2> PICK q : q = request[r]
    OBVIOUS
  <2>1. Underway(q, u) /\ request'[r] = q
    BY <1>3 DEF Agreement
  <2>2. Underway(q, u)'
    BY <2>1, UnderwayKept
  <2> QED
    BY <2>1, <2>2
<1>4. \A r, s \in Request : Touches(r, u)' /\ Touches(s, u)' => r = s
  BY DEF Agreement
<1>5. janitor'.step = "read" => janitor'.docs[u] = store'[u]
  BY DEF SameData
<1> QED
  BY <1>1, <1>2, <1>3, <1>4, <1>5 DEF Agreement

\* A request that has nothing left to do has made u what it was to be.
LEMMA Finished ==
    ASSUME NEW u, NEW v, NEW op, NEW f, Course(<< >>, op, f, u, v)'
    PROVE  Has(u, v)'
<1>1. \A do, id : ~Pending(<< >>, do, id)
  <2>1. DOMAIN << >> = {}
    OBVIOUS
  <2> QED
    BY <2>1 DEF Pending
<1>2. ASSUME NEW id \in IdsOf(u)
      PROVE  /\ Clean(id)' /\ inv'.len[id] = Want(id, v)
             /\ shards'[id] = Want(id, v) /\ vec'[id] \in {0, Want(id, v)}
  <2>1. Progress(<< >>, f, id, v)'
    BY DEF Course
  <2> QED
    BY <1>1, <2>1 DEF Progress
<1>3. parentChunks'[u] = Parts(u, v)
  BY <1>1 DEF Course
<1> QED
  BY <1>2, <1>3 DEF Has

\* A rebuild leaves of u what the documents it has read say.
LEMMA BuiltHas ==
    ASSUME IndexEngineAssumption, NEW docs \in [Url -> Version], NEW u \in Url,
           inv' = Built(docs), shards' = VersionOf(docs), vec' \in {None, VersionOf(docs)},
           parentChunks' = BuiltParents(docs)
    PROVE  Has(u, docs[u])'
<1> PICK v : v = docs[u]
  OBVIOUS
<1>1. ASSUME NEW id \in IdsOf(u)
      PROVE  id \in Id /\ VersionOf(docs)[id] = Want(id, v) /\ None[id] = 0
  <2>1. id \in Id /\ id[1] = u
    BY IdFacts
  <2>2. VersionOf(docs)[id] = IF Holds(docs, id) THEN docs[id[1]] ELSE 0
    BY <2>1 DEF VersionOf
  <2> QED
    BY <2>1, <2>2 DEF Holds, Want, None
<1>2. ASSUME NEW id \in IdsOf(u)
      PROVE  /\ Clean(id)' /\ inv'.len[id] = Want(id, v)
             /\ shards'[id] = Want(id, v) /\ vec'[id] \in {0, Want(id, v)}
  <2>1. /\ Built(docs).len = VersionOf(docs)
        /\ \A t \in Version : Built(docs).post[t][id]
                                = IF t \in Terms(VersionOf(docs)[id]) THEN VersionOf(docs)[id] ELSE 0
    BY <1>1, BuiltProperties
  <2>2. inv'.len[id] = VersionOf(docs)[id]
    BY <2>1
  <2>3. Clean(id)'
    BY <2>1, <2>2 DEF Clean
  <2> QED
    BY <1>1, <2>2, <2>3
<1>3. parentChunks'[u] = Parts(u, v)
  BY DEF BuiltParents, Parts
<1>4. Has(u, v)'
  BY <1>2, <1>3 DEF Has
<1> PICK w : w = docs[u]
  OBVIOUS
<1> QED
  BY <1>4

\* What a request does is done to the document it was made for.
LEMMA OthersAlone ==
    ASSUME IndexEngineAssumption, TypeInv, GhostInv, NEW r \in Request, Work(r), It(r).id \in Id,
           NEW u \in Url \ astray, It(r).id[1] # u
    PROVE  SameData(u)
<1>1. /\ IdsOf(u) \subseteq Id /\ It(r).id \notin IdsOf(u)
  <2>1. u \in Url
    OBVIOUS
  <2> QED
    BY <2>1, IdFacts
<1>2. request[r].todo # << >>
  BY WorkMoves
<1>3. It(r).v \in Version /\ (It(r).do \in {"invert", "invertCaptured"} => It(r).v # 0)
  BY <1>2, CurrentTask
<1>4. IndexOK(inv) /\ vec \in [Id -> Version] /\ shards \in [Id -> Version]
      /\ DOMAIN parentChunks = Url /\ store \in [Url -> Version]
  BY DEF TypeInv
<1> PICK d : d = It(r).id
  OBVIOUS
<1> PICK w : w = It(r).v
  OBVIOUS
<1>5. ASSUME NEW id \in IdsOf(u)
      PROVE  /\ \A t \in Version : inv'.post[t][id] = inv.post[t][id]
             /\ inv'.len[id] = inv.len[id]
  <2>1. id # d /\ id \in Id /\ d \in Id
    BY <1>1
  <2>2. CASE inv' = inv
    BY <2>2
  <2>3. CASE inv' = DeleteDocument(inv, d)
    <3> PICK i : i = inv
      OBVIOUS
    <3> PICK a : a = DeleteDocument(i, d)
      OBVIOUS
    <3>1. IndexOK(i) /\ i.len \in [Id -> Version] /\ i.blind = {}
      BY <1>4 DEF IndexOK, Indexes, GhostInv
    <3>2. /\ a.len = [i.len EXCEPT ![d] = 0]
          /\ i.len[d] # 0 => \A t \in Version, x \in Id : a.post[t][x] = IF x = d THEN 0 ELSE i.post[t][x]
          /\ i.len[d] = 0 => a = i
      BY <2>1, <3>1, DeleteProperties
    <3>3. a.len[id] = i.len[id] /\ \A t \in Version : a.post[t][id] = i.post[t][id]
      BY <2>1, <3>1, <3>2
    <3> QED
      BY <2>3, <3>3
  <2>4. CASE inv' = AddDocument(inv, d, w) /\ w \in Version \ {0}
    <3> PICK i : i = inv
      OBVIOUS
    <3> PICK a : a = AddDocument(i, d, w)
      OBVIOUS
    <3>1. IndexOK(i) /\ i.len \in [Id -> Version]
      BY <1>4 DEF IndexOK, Indexes
    <3>2. /\ a.len = [i.len EXCEPT ![d] = w]
          /\ \A t \in Version, x \in Id :
                a.post[t][x] = IF x = d /\ t \in Terms(w) THEN w ELSE i.post[t][x]
      <4>1. IndexEngineAssumption /\ IndexOK(i) /\ d \in Id /\ w \in Version \ {0}
        BY <2>1, <2>4, <3>1
      <4> QED
        BY <4>1, AddProperties
    <3>3. a.len[id] = i.len[id] /\ \A t \in Version : a.post[t][id] = i.post[t][id]
      BY <2>1, <3>1, <3>2
    <3> QED
      BY <2>4, <3>3
  <2>5. \/ inv' = inv \/ inv' = DeleteDocument(inv, d)
        \/ inv' = AddDocument(inv, d, w) /\ w \in Version \ {0}
    BY <1>3 DEF Work, Forget, Shard, Capture, Uninvert, Invert, InvertCaptured, Embed, Vector,
                Parents, Save, Now, It, engineVars
  <2> QED
    BY <2>2, <2>3, <2>4, <2>5
<1>6. shards' = shards \/ shards' = [shards EXCEPT ![d] = w]
  BY DEF Work, Forget, Shard, Capture, Uninvert, Invert, InvertCaptured, Embed, Vector, Parents, Save,
         engineVars
<1>7. vec' = vec \/ vec' = [vec EXCEPT ![d] = w]
  BY DEF Work, Forget, Shard, Capture, Uninvert, Invert, InvertCaptured, Embed, Vector, Parents, Save,
         engineVars
<1>8. parentChunks'[u] = parentChunks[u]
  BY <1>4 DEF Work, Forget, Shard, Capture, Uninvert, Invert, InvertCaptured, Embed, Vector, Parents,
         Save, engineVars
<1>9. store'[u] = store[u]
  BY <1>4 DEF Work, Forget, Shard, Capture, Uninvert, Invert, InvertCaptured, Embed, Vector, Parents,
         Save, Rest
<1> QED
  BY <1>1, <1>4, <1>5, <1>6, <1>7, <1>8, <1>9 DEF SameData, SameOf

LEMMA BeginAgrees ==
    ASSUME TypeInv, NEW r \in Request, NEW op, NEW todo, NEW w \in Url, Begun(r, op, w, todo),
           \/ op = "index" /\ \E v \in 1..MaxVersion : todo = IndexSteps(w, v)
           \/ op = "delete" /\ todo = <<Step("forget", Doc(w), 0)>> /\ (store[w] # 0 => w \in astray')
           \/ w \in astray',
           NEW u \in Url, u \notin astray', Agreement(u)
    PROVE  Agreement(u)'
<1>1. /\ request[r].todo = << >> /\ UNCHANGED <<inv, vec, shards, parentChunks, store, janitor>>
      /\ \A s \in Request : s # r => request'[s] = request[s]
      /\ request'[r].op = op /\ request'[r].todo = todo /\ request'[r].url = w
  BY DEF Begun
<1>2. SameData(u)
  BY <1>1 DEF SameData, SameOf
<1>3. CASE u # w
  <2>1. \A s \in Request : /\ Touches(s, u)' <=> Touches(s, u)
                           /\ Touches(s, u) => request'[s] = request[s]
    BY <1>1, <1>3 DEF Touches
  <2> QED
    BY <1>1, <1>2, <2>1, AgreementKept DEF Agreement
<1>4. CASE u = w
  <2>1. Quiet(u) /\ janitor.step = "idle"
    BY <1>4 DEF Begun, Races
  <2>2. \A s \in Request : Touches(s, u)' => s = r
    BY <1>1, <2>1 DEF Quiet, Touches
  <2> PICK v : v = store[u]
    OBVIOUS
  <2>3. Has(u, v)' /\ store'[u] = v
    BY <1>1, <1>2, <2>1, HasKept DEF Agreement
  <2> PICK q : q = request'[r]
    OBVIOUS
  <2>4. Beginning(q, u)'
    <3>1. Has(u, store[u])'
      BY <2>3
    <3>2. \/ q.op = "index" /\ \E x \in 1..MaxVersion : q.todo = IndexSteps(u, x)
          \/ q.op = "delete" /\ store'[u] = 0 /\ q.todo = <<Step("forget", Doc(u), 0)>>
      BY <1>1, <1>4
    <3> QED
      BY <3>1, <3>2 DEF Beginning
  <2>5. Underway(q, u)'
    BY <2>4 DEF Underway
  <2>6. \A s \in Request : Touches(s, u)' => Underway(request[s], u)'
    BY <2>2, <2>5
  <2>7. Has(u, store[u])'
    BY <2>3
  <2> QED
    BY <1>1, <2>1, <2>2, <2>6, <2>7 DEF Agreement
<1> QED
  BY <1>3, <1>4

LEMMA WorkAgrees ==
    ASSUME IndexEngineAssumption, TypeInv, GhostInv, ProcessInv, Live, NEW r \in Request, Work(r),
           NEW u \in Url \ astray, u \notin astray', Agreement(u)
    PROVE  Agreement(u)'
<1>1. request[r].todo # << >> /\ UNCHANGED <<janitor, phase>>
  BY WorkMoves
<1> PICK w : w = request[r].url
  OBVIOUS
<1>2. w \in Url /\ It(r).id \in Id /\ It(r).id[1] = w
  BY <1>1, OwnerOfTask
<1>3. CASE u # w
  <2>1. SameData(u)
    BY <1>2, <1>3, OthersAlone
  <2>2. PICK rest \in TaskList : \E f : Moved(r, rest, f)
    BY WorkMoves
  <2>3. \A s \in Request : /\ Touches(s, u)' <=> Touches(s, u)
                           /\ Touches(s, u) => request'[s] = request[s]
    BY <1>3, <2>2 DEF Touches, Moved
  <2> QED
    BY <1>1, <2>1, <2>3, AgreementKept DEF Agreement
<1>4. CASE u = w
  <2>1. Touches(r, u)
    BY <1>1, <1>4 DEF Touches
  <2>2. Underway(request[r], u) /\ janitor.step = "idle"
    BY <2>1 DEF Agreement, Quiet
  <2>3. PICK v \in Version : \E rest, f : Onward(r, u, v, rest, f)
    BY <1>1, <2>2, UnderwayMoves
  <2>4. PICK rest, f : Onward(r, u, v, rest, f)
    BY <2>3
  <2>5. /\ \A s \in Request : s # r => request'[s] = request[s]
        /\ request'[r].todo = rest
        /\ rest # << >> => /\ request'[r].op = request[r].op /\ request'[r].url = request[r].url
                           /\ request'[r].fresh = f
    BY <2>4 DEF Onward, Moved
  <2>6. \A s \in Request : Touches(s, u)' => s = r
    BY <2>1, <2>5 DEF Touches, Agreement
  <2>7. PICK op : op = request[r].op /\ Course(rest, op, f, u, v)'
    BY <2>4 DEF Onward
  <2>8. rest = << >> => Has(u, store[u])'
    <3>1. rest = << >> => store'[u] = v /\ Has(u, v)'
      BY <2>4, <2>7, Finished DEF Onward
    <3> QED
      BY <3>1
  <2>9. rest # << >> => Underway(request[r], u)'
    <3> PICK q : q = request'[r]
      OBVIOUS
    <3>1. rest # << >> => Course(q.todo, q.op, q.fresh, u, v)'
      BY <2>5, <2>7
    <3>2. rest # << >> => Underway(q, u)'
      BY <3>1 DEF InProgress, Underway
    <3> QED
      BY <3>2
  <2>10. rest # << >> <=> ~Quiet(u)'
    BY <1>4, <2>5, <2>6 DEF Quiet, Touches
  <2>11. \A s \in Request : Touches(s, u)' => Underway(request[s], u)'
    BY <2>6, <2>9, <2>10 DEF Quiet
  <2> QED
    BY <1>1, <2>2, <2>6, <2>8, <2>10, <2>11 DEF Agreement
<1> QED
  BY <1>3, <1>4

\* No step of anyone else comes between a document and the request that is alone
\* with it, and a rebuild replaces what it may.
LEMMA AgreeStep ==
    ASSUME IndexEngineAssumption, TypeInv, GhostInv, ProcessInv, AgreeInv, [Next]_vars
    PROVE  AgreeInv'
<1> SUFFICES ASSUME Live', NEW u \in Url, u \notin astray'
             PROVE  Agreement(u)'
  BY DEF AgreeInv
<1>1. ASSUME Live, u \notin astray
      PROVE  Agreement(u)
  BY <1>1 DEF AgreeInv
<1>2. ASSUME NEW r \in Request,
             BeginIndex(r) \/ BeginDelete(r) \/ BeginDirect(r) \/ BeginIncremental(r)
      PROVE  Agreement(u)'
  <2>1. PICK op, todo : \E w \in Url :
              /\ Begun(r, op, w, todo)
              /\ \/ op = "index" /\ \E v \in 1..MaxVersion : todo = IndexSteps(w, v)
                 \/ op = "delete" /\ todo = <<Step("forget", Doc(w), 0)>> /\ (store[w] # 0 => w \in astray')
                 \/ w \in astray'
    BY <1>2, BeginsSo
  <2>2. PICK w \in Url :
              /\ Begun(r, op, w, todo)
              /\ \/ op = "index" /\ \E v \in 1..MaxVersion : todo = IndexSteps(w, v)
                 \/ op = "delete" /\ todo = <<Step("forget", Doc(w), 0)>> /\ (store[w] # 0 => w \in astray')
                 \/ w \in astray'
    BY <2>1
  <2>3. Live /\ u \notin astray
    BY <2>2 DEF Begun, Live
  <2> QED
    BY <1>1, <2>2, <2>3, BeginAgrees
<1>3. ASSUME NEW r \in Request, Work(r)
      PROVE  Agreement(u)'
  <2>1. Live /\ u \notin astray
    BY <1>3, WorkMoves DEF Live
  <2> QED
    BY <1>1, <1>3, <2>1, WorkAgrees
<1>4. CASE Expire
  <2>1. phase = "up" /\ janitor'.step = "expired"
    BY <1>4 DEF TypeInv, Expire
  <2>2. UNCHANGED <<inv, vec, shards, parentChunks, request>>
    BY <1>4 DEF Expire, engineVars
  <2>3. u \notin astray /\ Quiet(u) /\ store'[u] = store[u]
    BY <1>4 DEF Expire
  <2>4. Agreement(u)
    BY <1>1, <2>1, <2>3 DEF Live
  <2>5. SameData(u)
    BY <2>2, <2>3 DEF SameData, SameOf
  <2>6. \A r \in Request : (Touches(r, u)' <=> Touches(r, u)) /\ request'[r] = request[r]
    BY <2>2 DEF Touches
  <2> QED
    BY <2>1, <2>3, <2>4, <2>5, <2>6, AgreementKept
<1>5. CASE ReadStore \/ ReadStoreFails
  <2>1. /\ janitor.step = "expired" /\ astray' = astray
        /\ UNCHANGED <<inv, vec, shards, parentChunks, store, request>>
        /\ janitor'.step # "idle" => janitor'.docs = store
    BY <1>5 DEF ReadStore, ReadStoreFails, engineVars, NoJanitor
  <2>2. Agreement(u)
    BY <1>1, <2>1 DEF ProcessInv
  <2>3. SameData(u)
    BY <2>1 DEF SameData, SameOf
  <2>4. \A r \in Request : (Touches(r, u)' <=> Touches(r, u)) /\ request'[r] = request[r]
    BY <2>1 DEF Touches
  <2>5. Quiet(u)
    BY <2>1, <2>2 DEF Agreement
  <2> QED
    BY <2>1, <2>2, <2>3, <2>4, <2>5, AgreementKept
<1>6. CASE Swap
  <2> PICK docs : docs = janitor.docs
    OBVIOUS
  <2>1. /\ janitor.step = "read" /\ docs \in [Url -> Version]
        /\ inv' = Built(docs) /\ shards' = VersionOf(docs) /\ vec' \in {None, VersionOf(docs)}
        /\ parentChunks' = BuiltParents(docs) /\ store' = store
        /\ janitor'.step = "idle"
    BY <1>6 DEF Swap, TypeInv, NoJanitor
  <2>2. Live
    BY <2>1 DEF ProcessInv
  <2>3. Quiet(u) /\ docs[u] = store[u]
    <3>1. CASE u \notin astray
      BY <1>1, <2>1, <2>2, <3>1 DEF Agreement
    <3>2. CASE u \in astray
      BY <1>6, <3>2 DEF Swap
    <3> QED
      BY <3>1, <3>2
  <2>4. ASSUME NEW r \in Request
        PROVE  request'[r].todo = request[r].todo /\ request'[r].url = request[r].url
    <3>1. request'[r] = [request[r] EXCEPT !.fresh = FALSE] /\ DOMAIN request[r] = Fields
      BY <1>6 DEF Swap, TypeInv, Fields
    <3> QED
      BY <3>1 DEF Fields
  <2>5. \A r \in Request : ~Touches(r, u)'
    BY <2>3, <2>4 DEF Quiet, Touches
  <2>6. Has(u, store[u])'
    <3> PICK v : v = docs[u]
      OBVIOUS
    <3>1. Has(u, v)'
      BY <2>1, BuiltHas
    <3> QED
      BY <2>1, <2>3, <3>1
  <2> QED
    BY <2>1, <2>5, <2>6 DEF Agreement
<1>7. CASE Start \/ Exit
  BY <1>7 DEF Start, Exit, Live
<1>8. CASE Serve
  BY <1>8 DEF Serve, ProcessInv
<1>9. CASE SaveInverted \/ SaveVectors \/ UNCHANGED vars
  <2>1. UNCHANGED <<inv, vec, shards, parentChunks, store, request, janitor, astray>> /\ Live
    BY <1>9 DEF SaveInverted, SaveVectors, vars, engineVars, Live
  <2>2. Agreement(u)
    BY <1>1, <2>1
  <2>3. SameData(u)
    BY <2>1 DEF SameData, SameOf
  <2>4. \A r \in Request : (Touches(r, u)' <=> Touches(r, u)) /\ request'[r] = request[r]
    BY <2>1 DEF Touches
  <2> QED
    BY <2>1, <2>2, <2>3, <2>4, AgreementKept DEF Agreement
<1> QED
  BY <1>2, <1>3, <1>4, <1>5, <1>6, <1>7, <1>8, <1>9 DEF Next

\* What is held of a document is what Agrees compares it with.
LEMMA HasIsSame ==
    ASSUME IndexEngineAssumption, TypeInv, NEW u \in Url, Has(u, store[u])
    PROVE  Same(u)
<1> PICK docs : docs = store
  OBVIOUS
<1> PICK built : built = Built(docs)
  OBVIOUS
<1>1. docs \in [Url -> Version] /\ Has(u, docs[u])
  BY DEF TypeInv
<1>2. /\ built.len = VersionOf(docs)
      /\ \A t \in Version, id \in Id :
            built.post[t][id] = IF t \in Terms(VersionOf(docs)[id]) THEN VersionOf(docs)[id] ELSE 0
  BY <1>1, BuiltProperties
<1>3. ASSUME NEW id \in IdsOf(u)
      PROVE  /\ \A t \in Version : inv.post[t][id] = built.post[t][id]
             /\ inv.len[id] = built.len[id] /\ shards[id] = built.len[id]
             /\ vec[id] \in {0, built.len[id]}
  <2>1. id \in Id /\ id[1] = u
    BY IdFacts
  <2>2. VersionOf(docs)[id] = IF Holds(docs, id) THEN docs[id[1]] ELSE 0
    BY <2>1 DEF VersionOf
  <2>3. VersionOf(docs)[id] = Want(id, docs[u])
    BY <2>1, <2>2 DEF Holds, Want
  <2>4. /\ Clean(id) /\ inv.len[id] = Want(id, docs[u])
        /\ shards[id] = Want(id, docs[u]) /\ vec[id] \in {0, Want(id, docs[u])}
    BY <1>1 DEF Has
  <2> QED
    BY <1>2, <2>1, <2>3, <2>4 DEF Clean
<1>4. parentChunks[u] = BuiltParents(docs)[u]
  BY <1>1 DEF Has, Parts, BuiltParents
<1> QED
  BY <1>3, <1>4 DEF Same, IdsOf

\* Index and store agree on every document that nothing has raced for since the last
\* rebuild: of an old version nothing stays behind, and of the new one nothing is
\* missing (IndexDocumentWithSource, DeleteDocument, LoadFromDB).
THEOREM IndexAgrees ==
    ASSUME IndexEngineAssumption
    PROVE  Spec => []Agrees
<1>1. Init => GhostInv /\ ProcessInv /\ AgreeInv
  <2> SUFFICES ASSUME Init PROVE GhostInv /\ ProcessInv /\ AgreeInv
    OBVIOUS
  <2>1. GhostInv
    BY NewIndexCounts DEF Init, GhostInv, Ghosts
  <2>2. phase = "down" /\ janitor.step = "idle" /\ \A r \in Request : request[r].todo = << >>
    BY IdleFields DEF Init, NoJanitor
  <2> QED
    BY <2>1, <2>2 DEF ProcessInv, AgreeInv, Live
<1>2. TypeInv /\ TypeInv' /\ GhostInv /\ ProcessInv /\ AgreeInv /\ [Next]_vars
        => GhostInv' /\ ProcessInv' /\ AgreeInv'
  BY GhostStep, ProcessStep, AgreeStep
<1>3. TypeInv /\ AgreeInv => Agrees
  <2> SUFFICES ASSUME TypeInv, AgreeInv, NEW u \in Url, phase = "up", Quiet(u), u \notin astray
               PROVE  Same(u)
    BY DEF Agrees
  <2>1. Has(u, store[u])
    BY DEF AgreeInv, Live, Agreement
  <2> QED
    BY <2>1, HasIsSame
<1>4. Spec => []TypeInv
  BY EngineTypeOK
<1> QED
  BY <1>1, <1>2, <1>3, <1>4, PTL DEF Spec
=============================================================================
