--------------------------- MODULE ScatterGather ---------------------------
(*****************************************************************************)
(* A search of the cluster (internal/cluster: coordinator.go, ring.go): the  *)
(* consistent hash ring that names the nodes, and the coordinator that asks  *)
(* them all and merges what they answer.                                     *)
(*                                                                           *)
(* Hashes are constants, so that collisions and the wrap-around occur; a URL *)
(* is a number, for its place in the order of names.  A node holds whole     *)
(* documents, as IndexDocumentDirectly leaves them, each with a score.       *)
(*****************************************************************************)
EXTENDS Integers, FiniteSets, Sequences, Functions

CONSTANTS
    Node, Self,
    Order,           \* Order[n]: the place of a node's name
    TokenHash,       \* TokenHash[n]: the hashes of the virtual nodes of n
    Key, KeyHash,
    Url, Score,      \* Score[n][u]: what n gives u for the query; 0 if it has no such hit
    TopK, Default,
    MaxSteps         \* bound: changes of the ring and searches

ScatterGatherAssumption ==
    /\ Self \in Node /\ IsFiniteSet(Node) /\ Url \subseteq Nat /\ IsFiniteSet(Url)
    /\ Score \in [Node -> [Url -> Nat]]
    /\ Order \in [Node -> Nat] /\ \A m, n \in Node : Order[m] = Order[n] => m = n
    /\ \A n \in Node : TokenHash[n] \subseteq Nat /\ TokenHash[n] # {} /\ IsFiniteSet(TokenHash[n])
    /\ KeyHash \in [Key -> Nat]
    /\ TopK \subseteq Nat /\ Default \in Nat \ {0} /\ MaxSteps \in Nat

VARIABLES
    nodes, tokens,   \* the ring
    asked,           \* the nodes a search waits for
    answers,         \* what each has answered; Failed after an error or the timeout of 500 ms
    topK, result,
    steps

ringVars == <<nodes, tokens>>
searchVars == <<asked, answers, topK, result>>
vars == <<ringVars, searchVars, steps>>

Failed == [ok |-> FALSE, hits |-> << >>]
NoResult == [hits |-> << >>, degraded |-> FALSE, from |-> {}]

\* sort.Slice: the place of an element is the number of those before it.
InOrder(S, Before(_, _)) ==
    [p \in 1..Cardinality(S) |-> CHOOSE x \in S : Cardinality({y \in S : Before(y, x)}) = p - 1]

-----------------------------------------------------------------------------
(* The ring *)

TokenBefore(s, t) == s.hash < t.hash \/ (s.hash = t.hash /\ Order[s.node] < Order[t.node])
TokensOf(n) == {[hash |-> h, node |-> n] : h \in TokenHash[n]}

\* Mutant: new tokens stay at the end.
AddUnsorted(s, n) == s \o InOrder(TokensOf(n), TokenBefore)
AddTokens(s, n) == InOrder(Range(s) \cup TokensOf(n), TokenBefore)
Without(s, n) ==
    LET kept == InOrder({i \in DOMAIN s : s[i].node # n}, <) IN [p \in DOMAIN kept |-> s[kept[p]]]

AddNode(n) ==
    /\ steps < MaxSteps
    /\ IF n \in nodes THEN UNCHANGED ringVars
       ELSE nodes' = nodes \cup {n} /\ tokens' = AddTokens(tokens, n)
    /\ steps' = steps + 1
    /\ UNCHANGED searchVars

RemoveNode(n) ==
    /\ steps < MaxSteps
    /\ IF n \notin nodes THEN UNCHANGED ringVars
       ELSE nodes' = nodes \ {n} /\ tokens' = Without(tokens, n)
    /\ steps' = steps + 1
    /\ UNCHANGED searchVars

\* sort.Search: by halves, the first token at or after the key; the first of all if none is.
Place(s, k) ==
    LET Search[r \in (0..Len(s)) \X (0..Len(s))] ==
            LET h == (r[1] + r[2]) \div 2 IN
            IF r[1] >= r[2] THEN r[1]
            ELSE IF s[h + 1].hash >= KeyHash[k] THEN Search[<<r[1], h>>] ELSE Search[<<h + 1, r[2]>>]
    IN  (Search[<<0, Len(s)>>] % Len(s)) + 1

GetNode(s, k) == s[Place(s, k)].node

\* The first `count` different nodes from there on.
GetNodes(s, k, count) ==
    LET around == [i \in DOMAIN s |-> s[((Place(s, k) + i - 2) % Len(s)) + 1].node]
        Take(found, n) == IF Len(found) < count /\ n \notin Range(found) THEN Append(found, n) ELSE found
        Found[i \in 0..Len(s)] == IF i = 0 THEN << >> ELSE Take(Found[i - 1], around[i])
    IN  Found[Len(s)]

-----------------------------------------------------------------------------
(* The search *)

HitBefore(g, h) == g.score > h.score \/ (g.score = h.score /\ g.url < h.url)
Cut(s, k) == IF Len(s) > k THEN SubSeq(s, 1, k) ELSE s
HitsOf(n) == {[url |-> u, score |-> Score[n][u]] : u \in {u \in Url : Score[n][u] > 0}}

\* The hybrid search of one node.
ExecuteLocalShardSearch(n, k) == Cut(InOrder(HitsOf(n), HitBefore), IF k <= 0 THEN Default ELSE k)

\* Of each URL the best hit of all who answered.
Merge(hits) ==
    {h \in hits : \A g \in hits : g.url = h.url => g.score <= h.score}

\* Mutant: the lists are cut again before equal URLs are merged.
GatherShort(answered, k) ==
    Cut(InOrder(Merge(UNION {Range(Cut(answers[n].hits, k - 1)) : n \in answered}), HitBefore), k)
Gather(answered, k) == Cut(InOrder(Merge(UNION {Range(answers[n].hits) : n \in answered}), HitBefore), k)

\* A ring of one node or none is searched at home.
ScatterGatherSearch(k) ==
    /\ steps < MaxSteps /\ asked = {}
    /\ steps' = steps + 1
    /\ topK' = IF k <= 0 THEN Default ELSE k
    /\ IF Cardinality(nodes) <= 1
       THEN /\ result' = [hits |-> ExecuteLocalShardSearch(Self, topK'), degraded |-> FALSE, from |-> {Self}]
            /\ UNCHANGED <<asked, answers>>
       ELSE asked' = nodes /\ answers' = << >> /\ result' = NoResult
    /\ UNCHANGED ringVars

ShardAnswers(n) ==
    /\ n \in asked \ DOMAIN answers
    /\ \E a \in {[ok |-> TRUE, hits |-> ExecuteLocalShardSearch(n, topK)]} \cup (IF n = Self THEN {} ELSE {Failed}) :
          answers' = [m \in DOMAIN answers \cup {n} |-> IF m = n THEN a ELSE answers[m]]
    /\ UNCHANGED <<ringVars, asked, topK, result, steps>>

Reduce ==
    /\ asked # {} /\ DOMAIN answers = asked
    /\ LET answered == {n \in asked : answers[n].ok} IN
       result' = [hits |-> Gather(answered, topK), degraded |-> answered # asked, from |-> answered]
    /\ asked' = {} /\ answers' = << >>
    /\ UNCHANGED <<ringVars, topK, steps>>

Init ==
    /\ nodes = {} /\ tokens = << >> /\ asked = {} /\ answers = << >>
    /\ topK = Default /\ result = NoResult /\ steps = 0

Next ==
    \/ \E n \in Node : AddNode(n) \/ RemoveNode(n) \/ ShardAnswers(n)
    \/ \E k \in TopK : ScatterGatherSearch(k)
    \/ Reduce

Spec == Init /\ [][Next]_vars

-----------------------------------------------------------------------------
\* A key changes its node only to one that has just joined or from one that has just
\* left, and its replicas are all the nodes, each once, the first of them that of
\* GetNode (AddNode, RemoveNode, GetNodes).
KeysStay ==
    [][\A k \in Key : tokens # << >> /\ tokens' # << >> =>
         /\ GetNode(tokens, k) # GetNode(tokens', k) =>
               GetNode(tokens', k) \in nodes' \ nodes \/ GetNode(tokens, k) \in nodes \ nodes'
         /\ LET all == GetNodes(tokens', k, Cardinality(nodes')) IN
            Range(all) = nodes' /\ Len(all) = Cardinality(nodes') /\ all[1] = GetNode(tokens', k)]_vars

\* A node that fails costs its own hits only: the answer is what a search of all the
\* documents of the others together would give, although each node has cut its list
\* (ScatterGatherSearch).
GatherIsExact ==
    LET best == Merge(UNION {HitsOf(n) : n \in result.from})
    IN  result # NoResult => result.hits = Cut(InOrder(best, HitBefore), topK)
=============================================================================
