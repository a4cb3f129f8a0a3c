----------------------------- MODULE Metasearch -----------------------------
(********************************************************************************)
(* A search of the web (internal/search: metasearch.go, search_providers.go,    *)
(* rrf.go; internal/index/bm25.go): callers with the same query share one       *)
(* execution, which asks a provider, fetches and indexes what it found, and     *)
(* ranks everything that is indexed.                                            *)
(*                                                                              *)
(* Fetching is a choice between a page and none; the index is the set of its    *)
(* pages, each with a chunk <<u, 1>> beside the document <<u, 0>>.  What a text *)
(* scores for the query is a constant.  Left out: titles, snippets, request     *)
(* formats.                                                                     *)
(********************************************************************************)
EXTENDS Integers, FiniteSets, Sequences, SequencesExt, FiniteSetsExt

CONSTANTS
    Caller, Url, Media,
    Query, Folded,           \* Folded[q]: the query in lower case, without blanks; "" is empty
    TopK, Default,           \* what callers ask for; Default stands in for 0
    Score, Similarity,       \* of documents and chunks; a score of 0 is no match
    ConcurrencyLimit, DefaultLimit,
    RRFConstant,
    MaxCalls                 \* bound

MetasearchAssumption ==
    /\ Media \subseteq Url /\ TopK \subseteq Nat /\ Default \in Nat \ {0}
    /\ ConcurrencyLimit \in Nat /\ DefaultLimit \in Nat \ {0} /\ RRFConstant \in Nat /\ MaxCalls \in Nat

VARIABLES
    provider,    \* whom the configuration names
    indexed,     \* pages in the engine
    flight,      \* the executions, by key; Grounded where there is none
    waiting,     \* the key whose execution a caller waits for, or NoKey
    calls

vars == <<provider, indexed, flight, waiting, calls>>

FlightKey == ({Folded[q] : q \in Query} \ {""}) \X ((TopK \ {0}) \cup {Default})
NoKey == <<"", 0>>
Grounded == [stage |-> "none", todo |-> << >>, fetching |-> << >>,
             lexical |-> << >>, hits |-> << >>, vector |-> << >>]
Stage(f, stage) == flight[f].stage = stage

-----------------------------------------------------------------------------
(* What providers answer: Brave and SearXNG leave out media, DuckDuckGo's page *)
(* also what it has named before.                                              *)

NewSearchProviderFromEnv == {"duckduckgo", "brave", "searxng"}
Cut(s, k) == IF k > 0 /\ Len(s) > k THEN SubSeq(s, 1, k) ELSE s
Answer == SeqOf(Url, 2)
Listed(s) == SelectSeq(s, LAMBDA u : u \notin Media)
ParseDDGHTML(s) ==
    FoldLeft(LAMBDA found, u : IF u \in Range(found) THEN found ELSE Append(found, u), << >>, Listed(s))

SearchDuckDuckGo(s, k) == Cut(ParseDDGHTML(s), k)
SearchBrave(s, k) == Cut(Listed(s), k)
SearchSearXNG(s, k) == Cut(Listed(s), k)
Found(s, k) ==
    CASE provider = "duckduckgo" -> SearchDuckDuckGo(s, k)
      [] provider = "brave"      -> SearchBrave(s, k)
      [] provider = "searxng"    -> SearchSearXNG(s, k)

-----------------------------------------------------------------------------
(* Rankings *)

Orders(S, Value(_)) ==
    {s \in SetToSeqs(S) : \A i, j \in DOMAIN s : i < j => Value(s[i]) >= Value(s[j])}

\* RankDocuments keeps the best of a page and its chunks; it leaves ties open.
PageScore(u) == Max({Score[<<u, 0>>], Score[<<u, 1>>]})
RankDocuments(k) == {Cut(s, k) : s \in Orders({u \in indexed : PageScore(u) > 0}, PageScore)}

\* The vectors of documents and chunks, or none while the embedder is out of reach.
VectorValue(id) == Similarity[id]
SearchVector(k) == {<< >>} \cup {Cut(s, k) : s \in Orders(indexed \X {0, 1}, VectorValue)}

Rank(list, x) == IF x \in Range(list) THEN CHOOSE i \in DOMAIN list : list[i] = x ELSE 0

\* 1/(c + a) + 1/(c + b) as a fraction, without the terms of ranks 0.
Fraction(a, b) ==
    CASE a > 0 /\ b > 0 -> <<2 * RRFConstant + a + b, (RRFConstant + a) * (RRFConstant + b)>>
      [] a > 0 /\ b = 0 -> <<1, RRFConstant + a>>
      [] OTHER          -> <<1, RRFConstant + b>>
Above(x, y) == x[1] * y[2] > y[1] * x[2]

\* Mutant: a list that does not have the document counts as its rank 0.
ZeroRanks(lexical, vector, id) ==
    LET a == Rank(lexical, id) b == Rank(vector, id)
    IN  <<2 * RRFConstant + a + b, (RRFConstant + a) * (RRFConstant + b)>>

RRFScore(lexical, vector, id) == Fraction(Rank(lexical, id), Rank(vector, id))

\* BM25 names pages, the vectors documents and chunks: a chunk is a hit of its own.
ReciprocalRankFusion(pages, vector, k) ==
    LET lexical == [i \in DOMAIN pages |-> <<pages[i], 0>>]
        S(id) == RRFScore(lexical, vector, id)
        ids == Range(lexical) \cup Range(vector)
    IN  {Cut(s, k) : s \in {t \in SetToSeqs(ids) : \A i, j \in DOMAIN t : i < j => ~Above(S(t[j]), S(t[i]))}}

-----------------------------------------------------------------------------
(* Callers *)

Search(c) ==
    /\ waiting[c] = NoKey /\ calls < MaxCalls
    /\ calls' = calls + 1
    /\ \E q \in Query, k \in TopK :
          IF Folded[q] = "" THEN UNCHANGED <<flight, waiting>>
          ELSE LET f == <<Folded[q], IF k <= 0 THEN Default ELSE k>> IN
               /\ waiting' = [waiting EXCEPT ![c] = f]
               /\ flight' = IF Stage(f, "none") THEN [flight EXCEPT ![f].stage = "search"] ELSE flight
    /\ UNCHANGED <<provider, indexed>>

\* The caller's own context ends; the execution goes on.
Leave(c) ==
    /\ waiting[c] # NoKey
    /\ waiting' = [waiting EXCEPT ![c] = NoKey]
    /\ UNCHANGED <<provider, indexed, flight, calls>>

\* Everybody who waits gets the hits, or an error never.
Return(f) ==
    /\ Stage(f, "done")
    /\ waiting' = [c \in Caller |-> IF waiting[c] = f THEN NoKey ELSE waiting[c]]
    /\ flight' = [flight EXCEPT ![f] = Grounded]
    /\ UNCHANGED <<provider, indexed, calls>>

-----------------------------------------------------------------------------
(* The execution, with a deadline of its own: once it has passed the provider *)
(* and the fetches fail, and the ranking goes on with what is there.          *)

ProviderAnswers(f) ==
    /\ Stage(f, "search")
    /\ \E s \in Answer :      \* an error is dropped: no results
          flight' = [flight EXCEPT ![f].stage = "fetch", ![f].todo = Found(s, 2 * f[2])]
    /\ UNCHANGED <<provider, indexed, waiting, calls>>

\* Mutant: a limit of 0 is taken as it is.
LimitAsGiven == ConcurrencyLimit
Limit == IF ConcurrencyLimit <= 0 THEN DefaultLimit ELSE ConcurrencyLimit

StartFetch(f) ==
    /\ Stage(f, "fetch") /\ flight[f].todo # << >> /\ Len(flight[f].fetching) < Limit
    /\ flight' = [flight EXCEPT ![f].todo = Tail(@), ![f].fetching = Append(@, Head(flight[f].todo))]
    /\ UNCHANGED <<provider, indexed, waiting, calls>>

PageFetched(f) ==
    /\ Stage(f, "fetch")
    /\ \E i \in DOMAIN flight[f].fetching :
          /\ indexed' \in {indexed, indexed \cup {flight[f].fetching[i]}}
          /\ flight' = [flight EXCEPT ![f].fetching = RemoveAt(@, i)]
    /\ UNCHANGED <<provider, waiting, calls>>

\* SearchBM25 and SearchVector, when the last fetch has ended.
RankPages(f) ==
    /\ Stage(f, "fetch") /\ flight[f].todo = << >> /\ flight[f].fetching = << >>
    /\ \E pages \in RankDocuments(2 * f[2]) :
          flight' = [flight EXCEPT ![f].stage = "ranked", ![f].lexical = pages]
    /\ UNCHANGED <<provider, indexed, waiting, calls>>

Fuse(f) ==
    /\ Stage(f, "ranked")
    /\ \E vector \in SearchVector(2 * f[2]) :
          \E hits \in ReciprocalRankFusion(flight[f].lexical, vector, f[2]) :
             flight' = [flight EXCEPT ![f].stage = "done", ![f].vector = vector, ![f].hits = hits]
    /\ UNCHANGED <<provider, indexed, waiting, calls>>

\* Crawls and deletions go on beside it.
Elsewhere(u) ==
    /\ u \notin Media
    /\ indexed' \in {indexed \cup {u}, indexed \ {u}} /\ indexed' # indexed
    /\ UNCHANGED <<provider, flight, waiting, calls>>

Init ==
    /\ provider \in NewSearchProviderFromEnv
    /\ indexed = {} /\ flight = [f \in FlightKey |-> Grounded]
    /\ waiting = [c \in Caller |-> NoKey] /\ calls = 0

Fly(f) == ProviderAnswers(f) \/ StartFetch(f) \/ PageFetched(f) \/ RankPages(f) \/ Fuse(f) \/ Return(f)

Next ==
    \/ \E c \in Caller : Search(c) \/ Leave(c)
    \/ \E f \in FlightKey : Fly(f)
    \/ \E u \in Url : Elsewhere(u)

\* Fetches end: they have a timeout, and the execution a deadline.
Fairness == \A f \in FlightKey : WF_vars(Fly(f))
Spec == Init /\ [][Next]_vars /\ Fairness

-----------------------------------------------------------------------------
\* x stands above y in a list, where absence is the worst place.
Beats(list, x, y) == Rank(list, x) # 0 /\ (Rank(list, y) = 0 \/ Rank(list, x) < Rank(list, y))

\* A document above another in both rankings comes before it in the answer, and is
\* not cut off while the other stays (ReciprocalRankFusion).
BetterInBothComesFirst ==
    \A f \in FlightKey : Stage(f, "done") =>
        LET lexical == [i \in DOMAIN flight[f].lexical |-> <<flight[f].lexical[i], 0>>]
            vector == flight[f].vector
        IN  \A x, y \in Range(lexical) \cup Range(vector) :
               Beats(lexical, x, y) /\ Beats(vector, x, y) /\ Rank(flight[f].hits, y) # 0
               => Beats(flight[f].hits, x, y)

\* Whoever waits for a shared execution gets its hits or has left, whatever the
\* provider and the pages do: there comes a moment at which nobody waits for it
\* (MetasearchAdapter.Search).
CallersReturn ==
    \A f \in FlightKey : (\E c \in Caller : waiting[c] = f) ~> (\A c \in Caller : waiting[c] # f)
=============================================================================
