------------------------------ MODULE MCParts ------------------------------
(***************************************************************************)
(* The small instance of each part on which TLC checks them.               *)
(***************************************************************************)
EXTENDS Parts, TLC

ASSUME PartsAssumption

\* Fetching.
RobotsTxt ==
    "s1" :> <<Line("agent", "*"), Line("disallow", << >>), Line("agent", "bot"),
              Line("agent", "other"), Line("disallow", <<"p">>)>>
    @@ "s2" :> <<Line("disallow", << >>), Line("agent", "*")>>
Paths       == {<<"p", "q">>, <<"m">>}
MediaPaths  == {<<"m">>}
AgentLength == "bot" :> 3
TwoProxies  == <<"d1", "d2">>
NoProxy     == << >>

\* ScatterGather: tokens that collide, and a hash past the last of them.
MCOrder     == "n1" :> 1 @@ "n2" :> 2 @@ "n3" :> 3
MCTokenHash == "n1" :> {1, 4} @@ "n2" :> {4, 6} @@ "n3" :> {2, 5}
MCKeyHash   == [k \in 1..7 |-> k]
MCRelevance == "n1" :> <<3, 2, 1>> @@ "n2" :> <<1, 2, 0>> @@ "n3" :> <<0, 1, 3>>

\* Metasearch.
Both     == {"u1", "u2", "m"} \X {0, 1}
MCFolded == "go" :> "go" @@ "Go" :> "go" @@ " " :> ""
MCScore  ==
    [id \in Both |-> CASE id = <<"u1", 0>> -> 2 [] id[1] = "u2" -> 1 + 2 * id[2] [] OTHER -> 0]
MCSimilarity ==
    [id \in Both |-> CASE id = <<"u1", 0>> -> 4 [] id[1] = "u2" -> 3 - id[2] [] OTHER -> 1]

\* AdaptiveCrawl: a hub, a barren subtree behind it, and a page that is junk.
MCLinks ==
    "r" :> <<"h">> @@ "h" :> <<"a1", "a2", "j">> @@ "a1" :> <<"a3">> @@ "a2" :> <<"a3">>
    @@ "a3" :> << >> @@ "j" :> << >>
Sites      == DOMAIN MCLinks
MCStored   == "h" :> <<"a1", "a3">>
MCFinal    == [u \in Sites |-> IF u = "a3" THEN "h" ELSE u]
MCSubtree  == [u \in Sites |-> IF u \in {"a1", "a2", "a3"} THEN "a" ELSE "/"]
MCSegments ==
    [u \in Sites |-> [segments |-> CASE u = "r" -> 0 [] u = "a1" -> 7 [] OTHER -> 2,
                      technical |-> u \in {"a2", "a3"}, document |-> u = "a3"]]
MCAnchorScore == [u \in Sites |-> 50]
Lists(urls, sitemaps) == [pages |-> urls, children |-> sitemaps]
MCSitemaps ==
    "s1" :> Lists(<< >>, <<"s3", "s2">>) @@ "s2" :> Lists(<<"h", "a1", "h">>, << >>)
    @@ "s3" :> Lists(<< >>, <<"s2">>)
MCCandidates == <<"s2", "s1">>

\* Chunking.
OfKind(kind, level, length) == [kind |-> kind, level |-> level, length |-> length]
MCLineKind ==
    {OfKind("text", 0, n) : n \in {0, 4, 8, 12}}
    \cup {OfKind("heading", 1, 4), OfKind("heading", 2, 5), OfKind("rule", 0, 3), OfKind("fence", 0, 3)}

\* Quotas.
MCPlansOf == "t1" :> {"free"} @@ "t2" :> {"free", "pro"}
MCQuotaOf == "free" :> 1 @@ "pro" :> 2
============================================================================
