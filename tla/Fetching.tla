------------------------------ MODULE Fetching ------------------------------
(*****************************************************************************)
(* Fetching pages (internal/crawler: client.go, render.go, proxy.go): the    *)
(* cache of robots.txt rules that all callers share, Fetch with its retries, *)
(* FetchWithStepping and FetchSmart with the rendering engine.               *)
(*                                                                           *)
(* Sites are hosts.  A path is a sequence, so that a rule disallows what it  *)
(* is a prefix of.  A robots.txt is a sequence of lines.  Time counts the    *)
(* lives (24 h) of cache entries.  Left out: headers, bodies, addresses.     *)
(*****************************************************************************)
EXTENDS Integers, FiniteSets, Sequences, SequencesExt, FiniteSetsExt, Functions

CONSTANTS
    Call, Site,
    Served,        \* Served[s]: the robots.txt of s
    Path, Media,   \* Media: the paths IsMediaResourceURL knows by their extension
    MatchLength,   \* MatchLength[a]: of the agent names the crawler's contains
    Datacenter, Residential,    \* the proxies of each tier
    MaxEntries,    \* of the cache
    MaxTime, MaxCalls           \* bounds

FetchingAssumption ==
    /\ Site # {} /\ Media \subseteq Path /\ MaxEntries \in Nat \ {0}
    /\ MaxTime \in Nat /\ MaxCalls \in Nat

VARIABLES
    cache,        \* the sites with an entry: its rules and when it expires
    flight,       \* the calls that wait for the robots.txt of each site
    call,         \* where each call of Fetch, FetchWithStepping or FetchSmart stands
    turn,         \* the next proxy of each tier
    now, calls,
    known         \* history: what a site has served, until its entry makes room for another

vars == <<cache, flight, call, turn, now, calls, known>>

Life == 1
Retries == 3

-----------------------------------------------------------------------------
(* Rules *)

NoGroup == [agents |-> {}, disallowed |-> {}]
Line(key, val) == [key |-> key, val |-> val]

\* Agent lines before the first rule share a group; one after a rule opens another.
ReadLine(state, line) ==
    CASE line.key = "agent" /\ state.now.disallowed # {} ->
            [done |-> Append(state.done, state.now), now |-> [NoGroup EXCEPT !.agents = {line.val}]]
      [] line.key = "agent" /\ state.now.disallowed = {} ->
            [state EXCEPT !.now.agents = @ \cup {line.val}]
      [] line.key = "disallow" /\ state.now.agents # {} ->
            [state EXCEPT !.now.disallowed = @ \cup {line.val}]
      [] OTHER -> state

ParseRobotsTxt(lines) ==
    LET end == FoldLeft(ReadLine, [done |-> << >>, now |-> NoGroup], lines)
    IN  IF end.now.agents = {} THEN end.done ELSE Append(end.done, end.now)

\* The first group that names the crawler by its longest name, or the first for all.
Length(g) ==
    LET lengths == {MatchLength[a] : a \in g.agents \cap DOMAIN MatchLength}
    IN  IF lengths # {} THEN Max(lengths) ELSE IF "*" \in g.agents THEN 0 ELSE 0 - 1

IsAllowed(rules, path) ==
    LET best == Max({Length(rules[i]) : i \in DOMAIN rules} \cup {0 - 1})
        group == rules[Min({i \in DOMAIN rules : Length(rules[i]) = best})]
    IN  best >= 0 => \A rule \in group.disallowed : ~IsPrefix(rule, path)

Fresh(s) == s \in DOMAIN cache /\ now < cache[s].expires
IsDomainAllowed(s, path) == Fresh(s) => IsAllowed(cache[s].rules, path)

With(c, s, entry) == [t \in DOMAIN c \cup {s} |-> IF t = s THEN entry ELSE c[t]]
Without(c, gone) == [s \in DOMAIN c \ gone |-> c[s]]
Expired(c) == {s \in DOMAIN c : c[s].expires < now}
CleanupExpired(c) == Without(c, Expired(c))
Oldest(c) == {s \in DOMAIN c : \A t \in DOMAIN c : c[s].expires <= c[t].expires}

\* The sites whose entries FetchAndCache may drop to make room.
Evictions ==
    IF Cardinality(DOMAIN cache) < MaxEntries THEN {{}}
    ELSE LET left == CleanupExpired(cache) IN
         IF Cardinality(DOMAIN left) < MaxEntries THEN {Expired(cache)}
         ELSE {Expired(cache) \cup {s} : s \in Oldest(left)}

-----------------------------------------------------------------------------
(* Calls.  Fetch runs on its own, in FetchWithStepping, or in FetchSmart, which *)
(* may go on to render the page and then to FetchWithStepping.                  *)

Idle == [mode |-> "none", site |-> CHOOSE s \in Site : TRUE, path |-> << >>, step |-> "idle", tries |-> 0]

Done(c) == call' = [call EXCEPT ![c] = Idle]
At(c, step) == call[c].step = step
Goto(c, step) == call' = [call EXCEPT ![c].step = step]

Begin(c) ==
    /\ At(c, "idle") /\ calls < MaxCalls
    /\ calls' = calls + 1
    /\ \E mode \in {"fetch", "stepping", "smart", "render"}, s \in Site, p \in Path :
          call' = [call EXCEPT ![c] = [mode |-> IF mode = "render" THEN "smart" ELSE mode, site |-> s, path |-> p,
                                       step |-> IF mode = "render" THEN "render" ELSE "fetch", tries |-> 0]]
    /\ UNCHANGED <<cache, flight, turn, now, known>>

\* What follows a Fetch: a page, a shell without content, a 401 or 403 ("denied"),
\* an error that names a 429 ("limited"), or another error.
AfterFetch(c, result) ==
    IF call[c].mode = "smart" /\ result \notin {"page", "denied"} THEN Goto(c, "render")
    ELSE IF call[c].mode = "stepping" /\ result \in {"denied", "limited"} THEN Goto(c, "stepUp")
    ELSE Done(c)

\* Mutant: an entry that is there is asked for again.
EnsureEveryTime(c) ==
    /\ At(c, "fetch")
    /\ IF call[c].path \in Media THEN AfterFetch(c, "error") /\ UNCHANGED flight
       ELSE Goto(c, "wait") /\ flight' = [flight EXCEPT ![call[c].site] = @ \cup {c}]
    /\ UNCHANGED <<cache, turn, now, calls, known>>

\* Fetch refuses media, and asks for the rules before every attempt: one call per
\* site asks, and those that come meanwhile wait with it.
EnsureRobotsCached(c) ==
    /\ At(c, "fetch")
    /\ IF call[c].path \in Media THEN AfterFetch(c, "error") /\ UNCHANGED flight
       ELSE IF flight[call[c].site] = {} /\ Fresh(call[c].site) THEN Goto(c, "check") /\ UNCHANGED flight
       ELSE Goto(c, "wait") /\ flight' = [flight EXCEPT ![call[c].site] = @ \cup {c}]
    /\ UNCHANGED <<cache, turn, now, calls, known>>

\* The flight ends for all who wait.  Any error is cached as "no rules".
RobotsAnswered(s) ==
    /\ flight[s] # {}
    /\ \E text \in {Served[s], << >>}, gone \in Evictions :
          LET entry == [rules |-> ParseRobotsTxt(text), expires |-> now + Life] IN
          /\ cache' = With(Without(cache, gone), s, entry)
          /\ known' = IF text = Served[s] THEN With(Without(known, gone), s, entry) ELSE Without(known, gone \ {s})
    /\ call' = [c \in Call |-> IF c \in flight[s] THEN [call[c] EXCEPT !.step = "check"] ELSE call[c]]
    /\ flight' = [flight EXCEPT ![s] = {}]
    /\ UNCHANGED <<turn, now, calls>>

\* The cache is read again: an entry that was dropped meanwhile permits everything.
Check(c) ==
    /\ At(c, "check")
    /\ IF IsDomainAllowed(call[c].site, call[c].path) THEN Goto(c, "request") ELSE AfterFetch(c, "error")
    /\ UNCHANGED <<cache, flight, turn, now, calls, known>>

\* A failed attempt is followed by a pause, in which the caller's context may end.
Request(c) ==
    /\ At(c, "request")
    /\ \/ \E result \in {"page", "shell", "denied"} : AfterFetch(c, result)
       \/ \E failure \in {"limited", "error"} :
             IF call[c].tries + 1 < Retries
             THEN call' = [call EXCEPT ![c].step = "fetch", ![c].tries = @ + 1]
             ELSE AfterFetch(c, failure)
       \/ AfterFetch(c, "error")
    /\ UNCHANGED <<cache, flight, turn, now, calls, known>>

\* RenderSPA asks nobody for the rules; if it fails, all begins again with stepping.
Render(c) ==
    /\ At(c, "render")
    /\ \/ call[c].path \notin Media /\ Done(c)
       \/ call' = [call EXCEPT ![c].mode = "stepping", ![c].step = "fetch", ![c].tries = 0]
    /\ UNCHANGED <<cache, flight, turn, now, calls, known>>

\* Which proxy a request takes: none for a first attempt, then the tiers in turn.
GetProxy(attempts) ==
    LET tiers == IF attempts = 1 THEN <<"datacenter", "residential">> ELSE <<"residential", "datacenter">>
        Proxies == [datacenter |-> Datacenter, residential |-> Residential]
    IN  IF attempts = 0 THEN "none"
        ELSE IF Proxies[tiers[1]] # << >> THEN tiers[1]
        ELSE IF Proxies[tiers[2]] # << >> THEN tiers[2] ELSE "none"

RoundTrip(tier) ==
    turn' = [t \in DOMAIN turn |->
                IF t = tier THEN (turn[t] % Len(IF t = "datacenter" THEN Datacenter ELSE Residential)) + 1
                ELSE turn[t]]

\* One more request, by way of a proxy, unless the context ends before.
StepUp(c) ==
    /\ At(c, "stepUp")
    /\ RoundTrip(GetProxy(1)) \/ UNCHANGED turn
    /\ Done(c)
    /\ UNCHANGED <<cache, flight, now, calls, known>>

Tick == now < MaxTime /\ now' = now + 1 /\ UNCHANGED <<cache, flight, call, turn, calls, known>>

Init ==
    /\ cache = << >> /\ known = << >>
    /\ flight = [s \in Site |-> {}] /\ call = [c \in Call |-> Idle]
    /\ turn = [datacenter |-> 1, residential |-> 1] /\ now = 0 /\ calls = 0

Next ==
    \/ \E c \in Call : Begin(c) \/ EnsureRobotsCached(c) \/ Check(c) \/ Request(c) \/ Render(c) \/ StepUp(c)
    \/ \E s \in Site : RobotsAnswered(s)
    \/ Tick

Spec == Init /\ [][Next]_vars

-----------------------------------------------------------------------------
\* A page is asked for by Fetch.
Asks(c) == At(c, "check") /\ call'[c].step = "request"

\* What a site has forbidden stays forbidden to Fetch until the rules expire or make
\* room for those of others, whatever failed since (EnsureRobotsCached, IsAllowed).
RulesKept ==
    [][\A c \in Call :
         LET s == call[c].site IN
         Asks(c) /\ s \in DOMAIN known /\ now < known[s].expires => IsAllowed(known[s].rules, call[c].path)]_vars
=============================================================================
