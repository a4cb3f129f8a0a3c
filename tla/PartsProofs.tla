---------------------------- MODULE PartsProofs ----------------------------
(***************************************************************************)
(* Theorems about the components of module Parts, for any values of their  *)
(* constants.  Each component moves alone, so a property of a component is *)
(* one of PartsSpec as soon as its own steps keep its own invariant.       *)
(***************************************************************************)
EXTENDS Parts, NaturalTheorems, SequenceTheorems

\* What every step of PartsSpec is for the part that was chosen.
LEMMA PartSteps ==
    ASSUME [PartsNext]_partVars
    PROVE  /\ part' = part
           /\ part = "vectors" => [VX!Next]_vxVars
           /\ part = "local" => [LO!Next]_loVars
           /\ part = "adaptive" => [AC!Next]_acVars
           /\ part = "chunking" => [CK!Next]_ckVars
           /\ [QU!Next]_quVars
           /\ [ME!Next]_meVars
           /\ [SG!Next]_sgVars
<1>1. CASE PartsNext
  <2>1. part' = part /\ (part = "vectors" => VX!Next)
    BY Zenon, <1>1 DEF PartsNext, Of, VX!Next
  <2>2. part = "local" => LO!Next
    BY Zenon, <1>1 DEF PartsNext, Of, LO!Next
  <2>3. part = "adaptive" => AC!Next
    BY Zenon, <1>1 DEF PartsNext, Of, AC!Next, AC!WorkerStep
  <2>4. part = "chunking" => CK!Next
    BY Zenon, <1>1 DEF PartsNext, Of, CK!Next
  <2>5. part = "quotas" => QU!Next
    BY Zenon, <1>1 DEF PartsNext, Of, QU!Next
  <2>6. part # "quotas" => UNCHANGED quVars
    BY Zenon, <1>1 DEF PartsNext, Of, Keeps
  <2>7. part = "metasearch" => ME!Next
    BY Zenon, <1>1 DEF PartsNext, Of, ME!Next, ME!Fly
  <2>8. part # "metasearch" => UNCHANGED meVars
    BY Zenon, <1>1 DEF PartsNext, Of, Keeps
  <2>9. part = "gather" => SG!Next
    BY Zenon, <1>1 DEF PartsNext, Of, SG!Next
  <2>10. part # "gather" => UNCHANGED sgVars
    BY Zenon, <1>1 DEF PartsNext, Of, Keeps
  <2> QED
    BY <2>1, <2>2, <2>3, <2>4, <2>5, <2>6, <2>7, <2>8, <2>9, <2>10
<1>2. CASE UNCHANGED partVars
  BY <1>2 DEF partVars
<1> QED
  BY <1>1, <1>2

-----------------------------------------------------------------------------
(* Fetching: what makes Fetch keep to the rules a site has served is that     *)
(* nobody asks again while rules that are still good are in the cache: an     *)
(* answer that fails, and is stored as permission, can only replace old ones. *)

\* The rules a site has served are still good.
Good(s) == s \in DOMAIN known /\ now < known[s].expires

Paths == Path \cup {<< >>}
Modes == {"none", "fetch", "stepping", "smart"}
Steps == {"idle", "fetch", "wait", "check", "request", "render", "stepUp"}
CallState == [mode : Modes, site : Site, path : Paths, step : Steps, tries : Int]

KnownInv ==
    /\ now \in Int
    /\ flight \in [Site -> SUBSET Call]
    /\ call \in [Call -> CallState]
    /\ \A s \in Site : s \in DOMAIN known => known[s].expires \in Int
    /\ \A s \in Site : Good(s) =>
          /\ s \in DOMAIN cache /\ cache[s] = known[s]
          /\ flight[s] = {}

\* The state of a call keeps its type.
LEMMA IdleIsACall == FetchingAssumption => Idle \in CallState
<1> SUFFICES ASSUME FetchingAssumption PROVE Idle \in CallState
    OBVIOUS
<1>1. << >> \in Paths
  BY DEF Paths
<1>2. (CHOOSE s \in Site : TRUE) \in Site
  BY DEF FetchingAssumption
<1> QED
  BY <1>1, <1>2 DEF Idle, CallState, Modes, Steps

LEMMA GotoIsACall ==
    ASSUME KnownInv, NEW c \in Call, NEW step \in Steps, Goto(c, step)
    PROVE  call' \in [Call -> CallState]
<1>1. [call[c] EXCEPT !.step = step] \in CallState
  BY DEF KnownInv, CallState
<1> QED
  BY <1>1 DEF KnownInv, Goto

LEMMA KnownInit == FetchingAssumption /\ Init => KnownInv
<1> SUFFICES ASSUME FetchingAssumption, Init PROVE KnownInv
    OBVIOUS
<1>1. DOMAIN known = {}
  BY DEF Init
<1>2. call \in [Call -> CallState]
  BY IdleIsACall DEF Init
<1>3. now \in Int /\ flight \in [Site -> SUBSET Call]
  BY DEF Init
<1> QED
  BY <1>1, <1>2, <1>3 DEF KnownInv, Good

\* Wherever a call goes, it stays with its site, or is over.
LEMMA GoesOn ==
    ASSUME FetchingAssumption, KnownInv, NEW c \in Call, NEW outcome,
           AfterFetch(c, outcome)
    PROVE  call' \in [Call -> CallState]
<1>1. CASE Done(c)
  BY <1>1, IdleIsACall DEF KnownInv, Done
<1>2. ASSUME NEW step \in Steps, Goto(c, step)
      PROVE  call' \in [Call -> CallState]
  BY <1>2, GotoIsACall
<1> QED
  BY <1>1, <1>2 DEF AfterFetch, Steps

\* A step that leaves the rules alone keeps the invariant.
LEMMA QuietStep ==
    ASSUME KnownInv, UNCHANGED <<cache, flight, known, now>>,
           call' \in [Call -> CallState]
    PROVE  KnownInv'
BY DEF KnownInv, Good

LEMMA BeginKeeps ==
    ASSUME FetchingAssumption, KnownInv, NEW c \in Call, Begin(c)
    PROVE  KnownInv'
<1>1. call' \in [Call -> CallState]
  <2>1. PICK how \in {"fetch", "stepping", "smart", "render"}, s \in Site, p \in Path :
            call' = [call EXCEPT ![c] = [mode |-> IF how = "render" THEN "smart" ELSE how,
                                         site |-> s, path |-> p,
                                         step |-> IF how = "render" THEN "render" ELSE "fetch",
                                         tries |-> 0]]
    BY DEF Begin
  <2>2. p \in Paths
    BY DEF Paths
  <2>3. [mode |-> IF how = "render" THEN "smart" ELSE how, site |-> s, path |-> p,
         step |-> IF how = "render" THEN "render" ELSE "fetch", tries |-> 0] \in CallState
    BY <2>2 DEF CallState, Modes, Steps
  <2> QED
    BY <2>1, <2>3 DEF KnownInv
<1> QED
  BY <1>1, QuietStep DEF Begin

\* Only those wait whose site has no good rules.
LEMMA EnsureKeeps ==
    ASSUME FetchingAssumption, KnownInv, NEW c \in Call, EnsureRobotsCached(c)
    PROVE  KnownInv'
<1> DEFINE s == call[c].site
<1>1. UNCHANGED <<cache, known, now>> /\ s \in Site
  BY DEF EnsureRobotsCached, KnownInv, CallState
<1>2. CASE call[c].path \in Media
  BY <1>1, <1>2, GoesOn, QuietStep DEF EnsureRobotsCached
<1>3. CASE call[c].path \notin Media /\ flight[s] = {} /\ Fresh(s)
  <2>1. Goto(c, "check") /\ UNCHANGED flight
    BY <1>3 DEF EnsureRobotsCached
  <2>2. call' \in [Call -> CallState]
    BY <2>1, GotoIsACall DEF Steps
  <2> QED
    BY <1>1, <2>1, <2>2, QuietStep
<1>4. CASE call[c].path \notin Media /\ ~(flight[s] = {} /\ Fresh(s))
  <2>1. Goto(c, "wait") /\ flight' = [flight EXCEPT ![s] = @ \cup {c}]
    BY <1>4 DEF EnsureRobotsCached
  <2>2. call' \in [Call -> CallState] /\ flight' \in [Site -> SUBSET Call]
    <3>1. "wait" \in Steps
      BY DEF Steps
    <3> QED
      BY <1>1, <2>1, <3>1, GotoIsACall DEF KnownInv
  <2>3. ~Good(s)
    BY <1>1, <1>4 DEF KnownInv, Good, Fresh
  <2>4. \A t \in Site : Good(t)' => Good(t) /\ t # s /\ flight'[t] = flight[t]
    BY <1>1, <2>1, <2>3 DEF Good, KnownInv
  <2> QED
    BY <1>1, <2>2, <2>4 DEF KnownInv
<1> QED
  BY <1>2, <1>3, <1>4

\* An answer, or an error, takes the place of rules that are no longer good, and
\* room is made in the cache and in what is known alike.
LEMMA AnswerKeeps ==
    ASSUME FetchingAssumption, KnownInv, NEW s \in Site, RobotsAnswered(s)
    PROVE  KnownInv'
<1>1. PICK text \in {Served[s], << >>}, gone \in Evictions :
          LET entry == [rules |-> ParseRobotsTxt(text), expires |-> now + Life]
          IN  /\ cache' = With(Without(cache, gone), s, entry)
              /\ known' = IF text = Served[s] THEN With(Without(known, gone), s, entry)
                          ELSE Without(known, gone \ {s})
  BY DEF RobotsAnswered
<1> DEFINE entry == [rules |-> ParseRobotsTxt(text), expires |-> now + Life]
<1>2. flight[s] # {} /\ flight' = [flight EXCEPT ![s] = {}] /\ now' = now
  BY DEF RobotsAnswered
<1>3. ~Good(s)
  BY <1>2 DEF KnownInv
<1>4. /\ s \in DOMAIN cache' /\ cache'[s] = entry
      /\ \A t \in DOMAIN cache \ gone : t # s => t \in DOMAIN cache' /\ cache'[t] = cache[t]
  <2>1. cache' = With(Without(cache, gone), s, entry)
    BY <1>1
  <2> HIDE DEF entry
  <2> QED
    BY <2>1 DEF With, Without
<1>5. \A t \in Site : t # s /\ t \in DOMAIN known' =>
          t \in DOMAIN known \ gone /\ known'[t] = known[t]
  <2>1. CASE text = Served[s]
    <3>1. known' = With(Without(known, gone), s, entry)
      BY <1>1, <2>1
    <3> HIDE DEF entry
    <3> QED
      BY <3>1 DEF With, Without
  <2>2. CASE text # Served[s]
    <3>1. known' = Without(known, gone \ {s})
      BY <1>1, <2>2
    <3> QED
      BY <3>1 DEF Without
  <2> QED
    BY <2>1, <2>2
<1>6. Good(s)' => known'[s] = entry
  <2>1. CASE text = Served[s]
    <3>1. known' = With(Without(known, gone), s, entry)
      BY <1>1, <2>1
    <3> HIDE DEF entry
    <3> QED
      BY <3>1 DEF With, Without
  <2>2. CASE text # Served[s]
    <3>1. known' = Without(known, gone \ {s})
      BY <1>1, <2>2
    <3>2. s \in DOMAIN known' => s \in DOMAIN known /\ known'[s] = known[s]
      BY <3>1 DEF Without
    <3> QED
      BY <1>2, <1>3, <3>2 DEF Good
  <2> QED
    BY <2>1, <2>2
<1>7. ASSUME NEW t \in Site, Good(t)'
      PROVE  t \in DOMAIN cache' /\ cache'[t] = known'[t] /\ flight'[t] = {}
  <2>1. CASE t = s
    BY <1>2, <1>4, <1>6, <1>7, <2>1 DEF KnownInv
  <2>2. CASE t # s
    <3>1. t \in DOMAIN known \ gone /\ known'[t] = known[t]
      BY <1>5, <1>7, <2>2 DEF Good
    <3>2. Good(t)
      BY <1>2, <1>7, <3>1 DEF Good
    <3>3. t \in DOMAIN cache /\ cache[t] = known[t] /\ flight[t] = {}
      BY <3>2 DEF KnownInv
    <3>4. flight'[t] = {}
      BY <1>2, <2>2, <3>3 DEF KnownInv
    <3> QED
      BY <1>4, <2>2, <3>1, <3>3, <3>4
  <2> QED
    BY <2>1, <2>2
<1>8. ASSUME NEW t \in Site, t \in DOMAIN known' PROVE known'[t].expires \in Int
  <2>1. CASE t # s
    BY <1>5, <1>8, <2>1 DEF KnownInv
  <2>2. CASE t = s /\ text = Served[s]
    <3>1. known' = With(Without(known, gone), s, entry)
      BY <1>1, <2>2
    <3>2. known'[s] = entry
      <4> HIDE DEF entry
      <4> QED
        BY <3>1 DEF With
    <3>3. entry.expires \in Int
      BY DEF KnownInv, Life
    <3> QED
      BY <2>2, <3>2, <3>3
  <2>3. CASE t = s /\ text # Served[s]
    <3>1. known' = Without(known, gone \ {s})
      BY <1>1, <2>3
    <3> QED
      BY <1>8, <2>3, <3>1 DEF Without, KnownInv
  <2> QED
    BY <2>1, <2>2, <2>3
<1>9. call' \in [Call -> CallState]
  <2>1. call' = [c \in Call |-> IF c \in flight[s] THEN [call[c] EXCEPT !.step = "check"] ELSE call[c]]
    BY DEF RobotsAnswered
  <2>2. \A c \in Call : [call[c] EXCEPT !.step = "check"] \in CallState
    BY DEF KnownInv, CallState, Steps
  <2> QED
    BY <2>1, <2>2 DEF KnownInv
<1>10. now' \in Int /\ flight' \in [Site -> SUBSET Call]
  BY <1>2 DEF KnownInv
<1> QED
  BY <1>7, <1>9, <1>10, <1>8 DEF KnownInv

LEMMA TickKeeps ==
    ASSUME KnownInv, Tick
    PROVE  KnownInv'
<1>1. UNCHANGED <<cache, flight, call, known>> /\ now' = now + 1
  BY DEF Tick
<1>2. now' \in Int
  BY <1>1 DEF KnownInv
<1>3. \A s \in Site : Good(s)' => Good(s)
  BY <1>1 DEF KnownInv, Good
<1> QED
  BY <1>1, <1>2, <1>3 DEF KnownInv

LEMMA CheckKeeps ==
    ASSUME FetchingAssumption, KnownInv, NEW c \in Call, Check(c)
    PROVE  KnownInv'
<1>1. CASE Goto(c, "request")
  <2>1. call' \in [Call -> CallState]
    BY <1>1, GotoIsACall DEF Steps
  <2> QED
    BY <2>1, QuietStep DEF Check
<1>2. CASE AfterFetch(c, "error")
  BY <1>2, GoesOn, QuietStep DEF Check
<1> QED
  BY <1>1, <1>2 DEF Check

LEMMA RequestKeeps ==
    ASSUME FetchingAssumption, KnownInv, NEW c \in Call, Request(c)
    PROVE  KnownInv'
<1>1. ASSUME NEW outcome, AfterFetch(c, outcome)
      PROVE  KnownInv'
  BY <1>1, GoesOn, QuietStep DEF Request
<1>2. CASE call' = [call EXCEPT ![c].step = "fetch", ![c].tries = @ + 1]
  <2> DEFINE first == [call[c] EXCEPT !.step = "fetch"]
  <2>1. first \in CallState
    BY DEF KnownInv, CallState, Steps
  <2>2. [first EXCEPT !.tries = @ + 1] \in CallState
    <3> HIDE DEF first
    <3> QED
      BY <2>1 DEF CallState
  <2>3. call' \in [Call -> CallState]
    BY <1>2, <2>2 DEF KnownInv
  <2> QED
    BY <2>3, QuietStep DEF Request
<1> QED
  BY <1>1, <1>2 DEF Request

LEMMA RenderKeeps ==
    ASSUME FetchingAssumption, KnownInv, NEW c \in Call, Render(c)
    PROVE  KnownInv'
<1>1. CASE Done(c)
  <2>1. call' \in [Call -> CallState]
    BY <1>1, IdleIsACall DEF KnownInv, Done
  <2> QED
    BY <2>1, QuietStep DEF Render
<1>2. CASE call' = [call EXCEPT ![c].mode = "stepping", ![c].step = "fetch", ![c].tries = 0]
  <2> DEFINE first == [call[c] EXCEPT !.mode = "stepping"]
             second == [first EXCEPT !.step = "fetch"]
  <2>1. first \in CallState
    BY DEF KnownInv, CallState, Modes
  <2>2. second \in CallState
    <3> HIDE DEF first
    <3> QED
      BY <2>1 DEF CallState, Steps
  <2>3. [second EXCEPT !.tries = 0] \in CallState
    <3> HIDE DEF second
    <3> QED
      BY <2>2 DEF CallState
  <2>4. call' \in [Call -> CallState]
    BY <1>2, <2>3 DEF KnownInv
  <2> QED
    BY <2>4, QuietStep DEF Render
<1> QED
  BY <1>1, <1>2 DEF Render

LEMMA StepUpKeeps ==
    ASSUME FetchingAssumption, KnownInv, NEW c \in Call, StepUp(c)
    PROVE  KnownInv'
<1>1. call' \in [Call -> CallState]
  BY IdleIsACall DEF KnownInv, StepUp, Done
<1> QED
  BY <1>1, QuietStep DEF StepUp

LEMMA KnownStep == FetchingAssumption /\ KnownInv /\ [Next]_vars => KnownInv'
<1> SUFFICES ASSUME FetchingAssumption, KnownInv, [Next]_vars PROVE KnownInv'
    OBVIOUS
<1>1. ASSUME NEW c \in Call,
             Begin(c) \/ EnsureRobotsCached(c) \/ Check(c) \/ Request(c) \/ Render(c) \/ StepUp(c)
      PROVE  KnownInv'
  BY <1>1, BeginKeeps, EnsureKeeps, CheckKeeps, RequestKeeps, RenderKeeps, StepUpKeeps
<1>2. ASSUME NEW s \in Site, RobotsAnswered(s) PROVE KnownInv'
  BY <1>2, AnswerKeeps
<1>3. CASE Tick
  BY <1>3, TickKeeps
<1>4. CASE UNCHANGED vars
  BY <1>4, QuietStep DEF vars, KnownInv
<1> QED
  BY <1>1, <1>2, <1>3, <1>4 DEF Next

-----------------------------------------------------------------------------
\* What follows a fetch is never a request of the same call.
LEMMA NoRequestAfter ==
    ASSUME KnownInv, NEW d \in Call, NEW outcome, AfterFetch(d, outcome), NEW c \in Call,
           call'[c].step = "request"
    PROVE  c # d /\ call'[c] = call[c]
<1>1. PICK next : call' = [call EXCEPT ![d] = next] /\ next.step \in {"idle", "render", "stepUp"}
  <2>1. CASE Done(d)
    <3>1. Idle.step = "idle"
      BY DEF Idle
    <3> QED
      BY <2>1, <3>1 DEF Done
  <2>2. ASSUME NEW step \in {"render", "stepUp"}, Goto(d, step)
        PROVE  \E next : call' = [call EXCEPT ![d] = next] /\ next.step \in {"idle", "render", "stepUp"}
    <3> DEFINE next == [call[d] EXCEPT !.step = step]
    <3>1. next.step = step
      BY DEF KnownInv, CallState
    <3>2. call' = [call EXCEPT ![d] = next]
      BY <2>2 DEF Goto
    <3> HIDE DEF next
    <3> QED
      BY <3>1, <3>2
  <2> QED
    BY <2>1, <2>2 DEF AfterFetch
<1> QED
  BY <1>1 DEF KnownInv

\* A page is asked for by Check, which has read the cache.
LEMMA OnlyCheckAsks ==
    ASSUME KnownInv, Next, NEW c \in Call, Asks(c)
    PROVE  Check(c) /\ IsDomainAllowed(call[c].site, call[c].path)
<1>1. call[c].step = "check" /\ call'[c].step = "request" /\ call'[c] # call[c]
  BY DEF Asks, At
<1>2. ASSUME NEW d \in Call, Begin(d) PROVE FALSE
  BY <1>1, <1>2 DEF Begin, At, KnownInv
<1>3. ASSUME NEW d \in Call, EnsureRobotsCached(d) PROVE FALSE
  <2>1. call[d].step = "fetch" /\ d # c
    BY <1>1, <1>3 DEF EnsureRobotsCached, At
  <2>2. CASE AfterFetch(d, "error")
    BY <1>1, <2>2, NoRequestAfter
  <2>3. ASSUME NEW step, Goto(d, step) PROVE FALSE
    BY <1>1, <2>1, <2>3 DEF Goto, KnownInv
  <2> QED
    BY <1>3, <2>2, <2>3 DEF EnsureRobotsCached
<1>4. ASSUME NEW d \in Call, Check(d)
      PROVE  d = c /\ IsDomainAllowed(call[c].site, call[c].path)
  <2>1. CASE AfterFetch(d, "error")
    BY <1>1, <2>1, NoRequestAfter
  <2>2. CASE Goto(d, "request") /\ IsDomainAllowed(call[d].site, call[d].path)
    BY <1>1, <2>2 DEF Goto, KnownInv
  <2> QED
    BY <1>4, <2>1, <2>2 DEF Check
<1>5. ASSUME NEW d \in Call, Request(d) PROVE FALSE
  <2>1. call[d].step = "request" /\ d # c
    BY <1>1, <1>5 DEF Request, At
  <2>2. ASSUME NEW outcome, AfterFetch(d, outcome) PROVE FALSE
    BY <1>1, <2>2, NoRequestAfter
  <2>3. CASE call' = [call EXCEPT ![d].step = "fetch", ![d].tries = @ + 1]
    BY <1>1, <2>1, <2>3 DEF KnownInv
  <2> QED
    BY <1>5, <2>2, <2>3 DEF Request
<1>6. ASSUME NEW d \in Call, Render(d) PROVE FALSE
  <2>1. call[d].step = "render" /\ d # c
    BY <1>1, <1>6 DEF Render, At
  <2> QED
    BY <1>1, <1>6, <2>1 DEF Render, Done, KnownInv
<1>7. ASSUME NEW d \in Call, StepUp(d) PROVE FALSE
  <2>1. call[d].step = "stepUp" /\ d # c
    BY <1>1, <1>7 DEF StepUp, At
  <2> QED
    BY <1>1, <1>7, <2>1 DEF StepUp, Done, KnownInv
<1>8. ASSUME NEW s \in Site, RobotsAnswered(s) PROVE FALSE
  <2>1. call'[c] = IF c \in flight[s] THEN [call[c] EXCEPT !.step = "check"] ELSE call[c]
    BY <1>8 DEF RobotsAnswered
  <2>2. [call[c] EXCEPT !.step = "check"].step = "check"
    BY DEF KnownInv, CallState
  <2> QED
    BY <1>1, <2>1, <2>2
<1>9. CASE Tick
  BY <1>1, <1>9 DEF Tick
<1> QED
  BY <1>2, <1>3, <1>4, <1>5, <1>6, <1>7, <1>8, <1>9 DEF Next

\* A page whose site has forbidden it is not asked for by Fetch while the rules last,
\* though answers about robots.txt fail, expire and make room for one another
\* (EnsureRobotsCached, FetchAndCache, IsAllowed), for any sites and any calls.
THEOREM RulesAreKept ==
    ASSUME FetchingAssumption
    PROVE  Spec => RulesKept
<1>1. Init => KnownInv
  BY KnownInit
<1>2. KnownInv /\ [Next]_vars => KnownInv'
  BY KnownStep
<1> DEFINE Kept(c) ==
        LET s == call[c].site IN
        Asks(c) /\ s \in DOMAIN known /\ now < known[s].expires => IsAllowed(known[s].rules, call[c].path)
<1>3. KnownInv /\ [Next]_vars => [\A c \in Call : Kept(c)]_vars
  <2> SUFFICES ASSUME KnownInv, Next, NEW c \in Call, Asks(c), Good(call[c].site)
               PROVE  IsAllowed(known[call[c].site].rules, call[c].path)
      BY DEF Good
  <2>1. IsDomainAllowed(call[c].site, call[c].path)
    BY OnlyCheckAsks
  <2>2. call[c].site \in Site
    BY DEF KnownInv, CallState
  <2>3. /\ call[c].site \in DOMAIN cache
        /\ cache[call[c].site] = known[call[c].site]
        /\ now < known[call[c].site].expires
    BY <2>2 DEF KnownInv, Good
  <2> QED
    BY <2>1, <2>3 DEF IsDomainAllowed, Fresh
<1> QED
  BY <1>1, <1>2, <1>3, PTL DEF Spec, RulesKept

-----------------------------------------------------------------------------
(* VectorIndex: of the three maps only the one of the current precision exists, *)
(* and each vector in it has the length of the index; the snapshot on disk is   *)
(* such a set of maps too, of a precision and a length of its own.              *)

Maps == [VX!Precision -> [made : BOOLEAN, of : [Id -> Nat]]]

\* Three maps of which only that of p exists, with vectors of length n.
OneMap(maps, p, n) ==
    /\ maps \in Maps
    /\ maps[p].made
    /\ \A q \in VX!Precision \ {p} : maps[q] = VX!Nil
    /\ \A id \in Id : maps[p].of[id] \in {0, n}

VectorsInv ==
    /\ dimensions \in Lengths /\ precision \in VX!Precision
    /\ OneMap(vectors, precision, dimensions)
    /\ held = {id \in Id : vectors[precision].of[id] # 0}

FileInv ==
    file.made =>
        /\ file.dimensions \in Lengths
        /\ \E p \in VX!Precision : OneMap(file.vectors, p, file.dimensions)

VectorIndexInv == VectorsInv /\ FileInv

-----------------------------------------------------------------------------
\* A map of documents to lengths makes three maps of which one exists.
LEMMA OnlyIsOneMap ==
    ASSUME NEW p \in VX!Precision, NEW n \in Nat, NEW of \in [Id -> Nat],
           \A id \in Id : of[id] \in {0, n}
    PROVE  /\ OneMap(VX!Only(p, VX!Map(of)), p, n)
           /\ VX!Only(p, VX!Map(of))[p].of = of
BY DEF OneMap, VX!Only, VX!Map, VX!Nil, Maps, VX!Precision

\* Only the map that exists has vectors.
LEMMA OtherMapsAreEmpty ==
    ASSUME NEW maps, NEW p \in VX!Precision, NEW n \in Nat, OneMap(maps, p, n),
           NEW q \in VX!Precision, q # p, NEW id \in Id
    PROVE  maps[q].of[id] = 0 /\ ~maps[q].made /\ ~VX!Nonempty(maps[q])
BY DEF OneMap, VX!Nil, VX!Nonempty

\* What a map that exists is: the one its contents make.
LEMMA ExistingMap ==
    ASSUME NEW maps, NEW p \in VX!Precision, NEW n \in Nat, OneMap(maps, p, n)
    PROVE  maps[p].of \in [Id -> Nat] /\ maps[p] = VX!Map(maps[p].of)
BY DEF OneMap, Maps, VX!Map

LEMMA VectorsInit == VX!VectorIndexAssumption /\ VX!Init => VectorIndexInv
<1> SUFFICES ASSUME VX!VectorIndexAssumption, VX!Init PROVE VectorIndexInv
    OBVIOUS
<1> DEFINE none == [id \in Id |-> 0]
<1>1. dimensions \in Lengths /\ precision \in VX!Precision /\ dimensions \in Nat
  BY DEF VX!Init, VX!Embedder, VX!VectorIndexAssumption, VX!Precision
<1>2. OneMap(vectors, precision, dimensions) /\ vectors[precision].of = none
  <2>1. none \in [Id -> Nat] /\ \A id \in Id : none[id] \in {0, dimensions}
    OBVIOUS
  <2>2. vectors = VX!Only(precision, VX!Map(none))
    BY DEF VX!Init, VX!EmptyMap
  <2> QED
    BY <1>1, <2>1, <2>2, OnlyIsOneMap
<1>3. held = {id \in Id : vectors[precision].of[id] # 0}
  BY <1>2 DEF VX!Init
<1> QED
  BY <1>1, <1>2, <1>3 DEF VectorIndexInv, VectorsInv, FileInv, VX!Init

-----------------------------------------------------------------------------
\* What a step that gives the index the map of p, of vectors of length n, must show.
LEMMA NewMap ==
    ASSUME VX!VectorIndexAssumption, NEW p \in VX!Precision, NEW n \in Lengths, NEW of \in [Id -> Nat],
           \A id \in Id : of[id] \in {0, n},
           dimensions' = n, precision' = p, vectors' = VX!Only(p, VX!Map(of)),
           held' = {id \in Id : of[id] # 0}
    PROVE  VectorsInv'
<1>1. n \in Nat
  BY DEF VX!VectorIndexAssumption
<1>2. OneMap(VX!Only(p, VX!Map(of)), p, n) /\ VX!Only(p, VX!Map(of))[p].of = of
  BY <1>1, OnlyIsOneMap
<1> QED
  BY <1>2 DEF VectorsInv

LEMMA AddKeeps ==
    ASSUME VX!VectorIndexAssumption, VectorIndexInv, NEW id \in Id, NEW v, VX!AddVector(id, v)
    PROVE  VectorIndexInv'
<1>1. CASE v = dimensions
  <2> DEFINE of == [vectors[precision].of EXCEPT ![id] = v]
  <2>1. vectors[precision].of \in [Id -> Nat] /\ dimensions \in Nat /\ dimensions # 0
    BY DEF VectorIndexInv, VectorsInv, OneMap, Maps, VX!VectorIndexAssumption
  <2>2. /\ of \in [Id -> Nat]
        /\ \A x \in Id : of[x] \in {0, dimensions}
    BY <1>1, <2>1 DEF VectorIndexInv, VectorsInv, OneMap
  <2>3. vectors' = [vectors EXCEPT ![precision] = VX!Map(of)]
    BY <1>1 DEF VX!AddVector
  <2>4. OneMap(vectors', precision, dimensions) /\ vectors'[precision].of = of
    BY <2>2, <2>3 DEF VectorIndexInv, VectorsInv, OneMap, Maps, VX!Map
  <2>5. held' = {x \in Id : of[x] # 0}
    <3>1. held' = held \cup {id}
      BY <1>1 DEF VX!AddVector
    <3> QED
      BY <1>1, <2>1, <3>1 DEF VectorIndexInv, VectorsInv
  <2> QED
    BY <2>4, <2>5 DEF VectorIndexInv, VectorsInv, FileInv, VX!AddVector
<1>2. CASE v # dimensions
  BY <1>2 DEF VectorIndexInv, VectorsInv, FileInv, VX!AddVector
<1> QED
  BY <1>1, <1>2

LEMMA BatchKeeps ==
    ASSUME VX!VectorIndexAssumption, VectorIndexInv, VX!AddVectorBatch
    PROVE  VectorIndexInv'
<1>1. PICK batch \in [Id -> VX!Embeddings(embedder) \cup {VX!Bad}] :
          IF \A id \in Id : batch[id] = dimensions
          THEN vectors' = [vectors EXCEPT ![precision] = VX!Map(batch)] /\ held' = Id
          ELSE UNCHANGED <<vectors, held>>
  BY DEF VX!AddVectorBatch
<1>2. CASE \A id \in Id : batch[id] = dimensions
  <2>1. dimensions \in Nat /\ dimensions # 0
    BY DEF VectorIndexInv, VectorsInv, VX!VectorIndexAssumption
  <2>2. batch \in [Id -> Nat]
    BY <1>2, <2>1
  <2>3. vectors' = [vectors EXCEPT ![precision] = VX!Map(batch)] /\ held' = Id
    BY <1>1, <1>2
  <2>4. OneMap(vectors', precision, dimensions) /\ vectors'[precision].of = batch
    BY <1>2, <2>2, <2>3 DEF VectorIndexInv, VectorsInv, OneMap, Maps, VX!Map
  <2>5. held' = {id \in Id : batch[id] # 0}
    BY <1>2, <2>1, <2>3
  <2> QED
    BY <2>4, <2>5 DEF VectorIndexInv, VectorsInv, FileInv, VX!AddVectorBatch
<1>3. CASE ~ \A id \in Id : batch[id] = dimensions
  BY <1>1, <1>3 DEF VectorIndexInv, VectorsInv, FileInv, VX!AddVectorBatch
<1> QED
  BY <1>2, <1>3

LEMMA DeleteKeeps ==
    ASSUME VectorIndexInv, NEW id \in Id, VX!DeleteVector(id)
    PROVE  VectorIndexInv'
<1>1. vectors' = [p \in VX!Precision |-> [vectors[p] EXCEPT !.of[id] = 0]]
  BY DEF VX!DeleteVector
<1>2. vectors \in Maps
  BY DEF VectorIndexInv, VectorsInv, OneMap
<1>3. \A p \in VX!Precision : /\ vectors'[p].made = vectors[p].made
                           /\ vectors'[p].of = [vectors[p].of EXCEPT ![id] = 0]
                           /\ vectors'[p] \in [made : BOOLEAN, of : [Id -> Nat]]
  BY <1>1, <1>2 DEF Maps
<1>4. vectors' \in Maps
  BY <1>1, <1>3 DEF Maps
<1>5. ASSUME NEW q \in VX!Precision, vectors[q] = VX!Nil PROVE vectors'[q] = VX!Nil
  <2> DEFINE none == [x \in Id |-> 0]
  <2>1. vectors[q].made = FALSE /\ vectors[q].of = none
    BY <1>5 DEF VX!Nil
  <2>2. [none EXCEPT ![id] = 0] = none
    OBVIOUS
  <2>3. vectors'[q].made = FALSE /\ vectors'[q].of = none
    BY <1>3, <2>1, <2>2
  <2>4. vectors'[q] = [made |-> FALSE, of |-> none]
    BY <1>3, <2>3
  <2> QED
    BY <2>4 DEF VX!Nil
<1>6. OneMap(vectors', precision, dimensions)
  BY <1>3, <1>4, <1>5, <1>2 DEF VectorIndexInv, VectorsInv, OneMap, Maps
<1>7. held' = {x \in Id : vectors'[precision].of[x] # 0}
  <2>1. held' = held \ {id}
    BY DEF VX!DeleteVector
  <2>2. vectors'[precision].of = [vectors[precision].of EXCEPT ![id] = 0]
    BY <1>3 DEF VectorIndexInv, VectorsInv
  <2>3. vectors[precision].of \in [Id -> Nat]
    BY <1>2 DEF VectorIndexInv, VectorsInv, Maps
  <2> QED
    BY <2>1, <2>2, <2>3 DEF VectorIndexInv, VectorsInv
<1> QED
  BY <1>6, <1>7 DEF VectorIndexInv, VectorsInv, FileInv, VX!DeleteVector

\* A conversion finds the one map there is.
LEMMA SourceIsTheMap ==
    ASSUME NEW n \in Nat, OneMap(vectors, precision, n), precision \in VX!Precision,
           NEW p \in VX!Precision, p # precision
    PROVE  VX!Source(p) = vectors[precision].of
<1>1. \A q \in VX!Precision \ {precision} : ~vectors[q].made
  BY DEF OneMap, VX!Nil
<1> QED
  BY <1>1 DEF VX!Source, OneMap, VX!Precision

LEMMA SetKeeps ==
    ASSUME VX!VectorIndexAssumption, VectorIndexInv, NEW p \in VX!Precision, VX!SetPrecision(p)
    PROVE  VectorIndexInv'
<1>1. dimensions \in Nat /\ OneMap(vectors, precision, dimensions) /\ p # precision
      /\ precision \in VX!Precision
  BY DEF VectorIndexInv, VectorsInv, VX!VectorIndexAssumption, VX!SetPrecision
<1>2. VX!Source(p) = vectors[precision].of
  BY <1>1, SourceIsTheMap
<1>3. /\ VX!Source(p) \in [Id -> Nat]
      /\ \A id \in Id : VX!Source(p)[id] \in {0, dimensions}
      /\ held' = {id \in Id : VX!Source(p)[id] # 0}
  BY <1>1, <1>2 DEF OneMap, Maps, VX!SetPrecision, VectorIndexInv, VectorsInv
<1>4. dimensions' = dimensions /\ precision' = p /\ vectors' = VX!Only(p, VX!Map(VX!Source(p)))
      /\ file' = file /\ dimensions \in Lengths
  BY DEF VX!SetPrecision, VectorIndexInv, VectorsInv
<1>5. VectorsInv'
  BY <1>3, <1>4, NewMap
<1> QED
  BY <1>4, <1>5 DEF VectorIndexInv, FileInv

LEMMA SaveKeeps ==
    ASSUME VectorIndexInv, VX!SaveSnapshot
    PROVE  VectorIndexInv'
BY DEF VectorIndexInv, VectorsInv, FileInv, VX!SaveSnapshot

\* A snapshot gives the index the vectors it holds, whatever its precision.
LEMMA LoadGivesTheMap ==
    ASSUME VX!VectorIndexAssumption, NEW snap, NEW n \in Nat, NEW p \in VX!Precision,
           OneMap(snap.vectors, p, n), VX!LoadSnapshot(snap, "float32")
    PROVE  /\ precision' \in VX!Precision
           /\ vectors' = VX!Only(precision', VX!Map(snap.vectors[p].of))
<1>1. ASSUME NEW q \in VX!Precision \ {p}
      PROVE  ~VX!Nonempty(snap.vectors[q]) /\ snap.vectors[q].of = [id \in Id |-> 0]
  <2>1. snap.vectors[q] = VX!Nil
    BY DEF OneMap
  <2> QED
    BY <2>1 DEF VX!Nil, VX!Nonempty
<1>2. snap.vectors[p].of \in [Id -> Nat] /\ snap.vectors[p] = VX!Map(snap.vectors[p].of)
  BY ExistingMap
<1>3. CASE VX!Nonempty(snap.vectors["int8"])
  BY <1>1, <1>2, <1>3 DEF VX!LoadSnapshot, VX!Precision
<1>4. CASE VX!Nonempty(snap.vectors["float32"]) /\ ~VX!Nonempty(snap.vectors["int8"])
  BY <1>1, <1>2, <1>4 DEF VX!LoadSnapshot, VX!Precision
<1>5. CASE ~VX!Nonempty(snap.vectors["float32"]) /\ ~VX!Nonempty(snap.vectors["int8"])
  <2>1. precision' = "float32" /\ vectors' = VX!Only("float32", VX!Map(snap.vectors["float64"].of))
    BY <1>5 DEF VX!LoadSnapshot
  <2>2. snap.vectors["float64"].of = snap.vectors[p].of
    <3>1. CASE p = "float64"
      BY <3>1
    <3>2. CASE p # "float64"
      <4>1. snap.vectors[p].of = [id \in Id |-> 0]
        BY <1>2, <1>5, <3>2 DEF VX!Nonempty, VX!Precision
      <4> QED
        BY <1>1, <3>2, <4>1 DEF VX!Precision
    <3> QED
      BY <3>1, <3>2
  <2> QED
    BY <2>1, <2>2 DEF VX!Precision
<1> QED
  BY <1>3, <1>4, <1>5

LEMMA RestartKeeps ==
    ASSUME VX!VectorIndexAssumption, VectorIndexInv, VX!Restart
    PROVE  VectorIndexInv'
<1> DEFINE fromFile ==
        /\ file.made
        /\ dimensions' = file.dimensions
        /\ VX!LoadSnapshot(file, "float32")
        /\ held' = {id \in Id : \E q \in VX!Precision : file.vectors[q].of[id] # 0}
<1>1. FileInv'
  BY DEF VectorIndexInv, FileInv, VX!Restart
<1>2. CASE fromFile
  <2>1. PICK p \in VX!Precision : OneMap(file.vectors, p, file.dimensions)
    BY <1>2 DEF VectorIndexInv, FileInv
  <2>2. file.dimensions \in Lengths /\ file.dimensions \in Nat
    BY <1>2 DEF VectorIndexInv, FileInv, VX!VectorIndexAssumption
  <2>3. precision' \in VX!Precision /\ vectors' = VX!Only(precision', VX!Map(file.vectors[p].of))
    BY <1>2, <2>1, <2>2, LoadGivesTheMap
  <2>4. file.vectors[p].of \in [Id -> Nat] /\ \A id \in Id : file.vectors[p].of[id] \in {0, file.dimensions}
    BY <2>1 DEF OneMap, Maps
  <2>5. held' = {id \in Id : file.vectors[p].of[id] # 0}
    <3>1. \A q \in VX!Precision \ {p}, id \in Id : file.vectors[q].of[id] = 0
      BY <2>1, <2>2, OtherMapsAreEmpty
    <3> QED
      BY <1>2, <2>1, <3>1
  <2>6. VectorsInv'
    BY <1>2, <2>2, <2>3, <2>4, <2>5, NewMap
  <2> QED
    BY <1>1, <2>6 DEF VectorIndexInv
<1>3. CASE ~fromFile
  <2> DEFINE none == [id \in Id |-> 0]
  <2>1. /\ dimensions' \in Lengths /\ precision' = "float32"
        /\ vectors' = VX!Only("float32", VX!Map(none)) /\ held' = {}
    BY <1>3 DEF VX!Restart, VX!Embedder, VX!EmptyMap
  <2>2. none \in [Id -> Nat] /\ "float32" \in VX!Precision
        /\ (\A id \in Id : none[id] \in {0, dimensions'})
        /\ held' = {id \in Id : none[id] # 0}
    BY <2>1 DEF VX!Precision
  <2>3. VectorsInv'
    BY <2>1, <2>2, NewMap
  <2> QED
    BY <1>1, <2>3 DEF VectorIndexInv
<1> QED
  BY <1>2, <1>3

LEMMA RebuildKeeps ==
    ASSUME VX!VectorIndexAssumption, VectorIndexInv, VX!Rebuild
    PROVE  VectorIndexInv'
<1>1. PICK found \in [Id -> VX!Embeddings(embedder)] :
          /\ vectors' = VX!Only("float32", VX!Map([id \in Id |-> IF found[id] = dimensions THEN found[id] ELSE 0]))
          /\ held' = {id \in Id : found[id] = dimensions}
  BY DEF VX!Rebuild
<1> DEFINE of == [id \in Id |-> IF found[id] = dimensions THEN found[id] ELSE 0]
<1>2. dimensions \in Lengths /\ dimensions \in Nat /\ dimensions # 0 /\ "float32" \in VX!Precision
  BY DEF VectorIndexInv, VectorsInv, VX!VectorIndexAssumption, VX!Precision
<1>3. of \in [Id -> Nat] /\ (\A id \in Id : of[id] \in {0, dimensions})
      /\ held' = {id \in Id : of[id] # 0}
  BY <1>1, <1>2
<1>4. dimensions' = dimensions /\ precision' = "float32" /\ file' = file
  BY DEF VX!Rebuild
<1>5. VectorsInv'
  BY <1>1, <1>2, <1>3, <1>4, NewMap
<1> QED
  BY <1>4, <1>5 DEF VectorIndexInv, FileInv

LEMMA VectorsStep == VX!VectorIndexAssumption /\ VectorIndexInv /\ [VX!Next]_vxVars => VectorIndexInv'
<1> SUFFICES ASSUME VX!VectorIndexAssumption, VectorIndexInv, [VX!Next]_vxVars PROVE VectorIndexInv'
    OBVIOUS
<1>1. ASSUME NEW id \in Id, VX!Embed(id) PROVE VectorIndexInv'
  BY <1>1, AddKeeps DEF VX!Embed
<1>2. ASSUME NEW id \in Id, VX!DeleteVector(id) PROVE VectorIndexInv'
  BY <1>2, DeleteKeeps
<1>3. ASSUME NEW p \in VX!Precision, VX!SetPrecision(p) PROVE VectorIndexInv'
  BY <1>3, SetKeeps
<1>4. CASE UNCHANGED vxVars
  BY <1>4 DEF vxVars, VectorIndexInv, VectorsInv, FileInv
<1> QED
  BY <1>1, <1>2, <1>3, <1>4, BatchKeeps, SaveKeeps, RestartKeeps, RebuildKeeps DEF VX!Next

\* Additions, batches, changes of precision, rebuilds and restarts from a snapshot of
\* another embedder never hide the vector of a document, nor bring back that of a
\* document that was deleted (vector.go), for any documents and any lengths.
THEOREM SearchIsExact ==
    ASSUME VX!VectorIndexAssumption
    PROVE  PartsSpec => []SearchSeesWhatIsHeld
<1> DEFINE Exact == part = "vectors" => VectorIndexInv
<1>1. PartsInit => Exact
  BY VectorsInit DEF PartsInit
<1>2. Exact /\ [PartsNext]_partVars => Exact'
  BY VectorsStep, PartSteps
<1>3. VectorIndexInv => VX!SearchSeesWhatIsHeld
  BY DEF VX!VectorIndexAssumption, VectorIndexInv, VectorsInv, OneMap, VX!SearchSeesWhatIsHeld, VX!SearchNearest,
         VX!SearchSubset
<1>4. Exact => SearchSeesWhatIsHeld
  BY <1>3 DEF SearchSeesWhatIsHeld
<1> QED
  BY <1>1, <1>2, <1>4, PTL DEF PartsSpec

-----------------------------------------------------------------------------
(* LocalIndexer: in a pass without errors or changes every file is on its way    *)
(* through walk, queue and workers or has been dealt with, the engine holds what *)
(* the store holds, and text and hash of a document differ only where torn says. *)

AtWork == [step : {"free", "read", "index", "upsert"}, file : File \cup {CHOOSE f \in File : TRUE},
           data : LO!Version]

LocalTypes ==
    /\ disk \in [File -> LO!Version] /\ indexed \in [File -> LO!Version]
    /\ stored \in [File -> [body : LO!Version, hash : LO!Version]]
    /\ queue \in Seq(File) /\ dealt \subseteq File /\ worker \in [Worker -> AtWork]
    /\ \A w \in Worker : worker[w].step # "free" => worker[w].file \in File

CleanInv == \A f \in File \ torn : stored[f].hash \in {0, stored[f].body}

InQueue(f) == \E n \in 1..Len(queue) : queue[n] = f
HeldBy(w, f) == worker[w].step # "free" /\ worker[w].file = f
OnItsWay(f) == f \in walk \/ InQueue(f) \/ f \in dealt \/ \E w \in Worker : HeldBy(w, f)
Untouched(f) == ~InQueue(f) /\ f \notin dealt /\ \A w \in Worker : ~HeldBy(w, f)
Mirrored(f) == stored[f].body = disk[f] /\ stored[f].hash = disk[f]

\* What a worker carries is what it has read, and what is on the disk.
CarriedInv ==
    \A w \in Worker :
        /\ worker[w].step \in {"index", "upsert"} =>
              worker[w].data \in Readable /\ worker[w].data = disk[worker[w].file]
        /\ worker[w].step = "upsert" => indexed[worker[w].file] = worker[w].data

FilesInv ==
    /\ \A f \in File : indexed[f] = stored[f].body
    /\ \A f \in File : disk[f] # 0 => OnItsWay(f)
    /\ \A f \in File : disk[f] = 0 => Untouched(f)
    /\ mode = "write" => \A f \in dealt \ torn : disk[f] \in Readable => Mirrored(f)

\* Once the documents are listed nobody is at work, and all that has no file is listed.
ListedInv ==
    pass \in {"reconcile", "end"} =>
        /\ mode = "write" /\ walk = {} /\ LO!AllDone
        /\ \A f \in File : disk[f] = 0 /\ stored[f] # LO!NoDoc => f \in leftovers
        /\ pass = "end" => leftovers = {}

CalmInv == calm /\ pass # "idle" => pass # "failing" /\ CarriedInv /\ FilesInv /\ ListedInv
LocalInv == LocalTypes /\ CleanInv /\ CalmInv

LEMMA LocalTypesStep ==
    ASSUME LO!LocalIndexerAssumption, LocalTypes, [LO!Next]_loVars
    PROVE  LocalTypes'
<1>1. LO!NoDoc \in [body : LO!Version, hash : LO!Version] /\ 0 \in LO!Version
  BY DEF LO!NoDoc, LO!Version
<1>2. LO!Free \in AtWork /\ LO!Free.step = "free"
  BY <1>1 DEF LO!Free, AtWork
<1>3. ASSUME NEW f \in File, LO!Edit(f) \/ LO!Walk(f) \/ LO!Reconcile(f) PROVE LocalTypes'
  <2>1. CASE LO!Edit(f)
    BY <2>1 DEF LocalTypes, LO!Edit, LO!engineVars, LO!walkVars
  <2>2. CASE LO!Walk(f)
    <3>1. UNCHANGED <<disk, stored, indexed, dealt, worker>>
      BY <2>2 DEF LO!Walk, LO!engineVars
    <3>2. queue' = queue \/ queue' = Append(queue, f)
      BY <2>2 DEF LO!Walk
    <3>3. queue' \in Seq(File)
      BY <1>3, <3>2 DEF LocalTypes
    <3> QED
      BY <3>1, <3>3 DEF LocalTypes
  <2>3. CASE LO!Reconcile(f)
    BY <1>1, <2>3 DEF LocalTypes, LO!Reconcile, LO!engineVars
  <2> QED
    BY <1>3, <2>1, <2>2, <2>3
<1>4. ASSUME NEW w \in Worker, LO!Take(w) \/ LO!Read(w) \/ LO!Index(w) \/ LO!Upsert(w)
      PROVE  LocalTypes'
  <2>1. CASE LO!Take(w)
    <3>1. queue # << >> /\ Head(queue) \in File /\ Tail(queue) \in Seq(File)
      BY <2>1 DEF LO!Take, LocalTypes
    <3>2. [step |-> "read", file |-> Head(queue), data |-> 0] \in AtWork
      BY <1>1, <3>1 DEF AtWork
    <3> QED
      BY <2>1, <3>1, <3>2 DEF LocalTypes, LO!Take, LO!engineVars
  <2>2. CASE LO!Read(w)
    <3>1. worker[w] \in AtWork /\ worker[w].file \in File /\ worker[w].step = "read"
      BY <2>2 DEF LO!Read, LO!At, LocalTypes
    <3>2. disk[worker[w].file] \in LO!Version
      BY <3>1 DEF LocalTypes
    <3>3. \A v \in LO!Version : /\ [worker[w] EXCEPT !.step = "index", !.data = v] \in AtWork
                                 /\ [worker[w] EXCEPT !.step = "index", !.data = v].file \in File
      BY <3>1 DEF AtWork
    <3>4. \/ worker' = [worker EXCEPT ![w] = LO!Free]
          \/ worker' = [worker EXCEPT ![w] = [worker[w] EXCEPT !.step = "index", !.data = disk[worker[w].file]]]
      BY <2>2, <3>1 DEF LO!Read, LO!File1, LocalTypes
    <3>5. PICK carried \in AtWork : /\ worker' = [worker EXCEPT ![w] = carried]
                                    /\ carried.step # "free" => carried.file \in File
      BY <1>2, <3>2, <3>3, <3>4
    <3>6. worker' \in [Worker -> AtWork] /\ \A x \in Worker : worker'[x].step # "free" => worker'[x].file \in File
      BY <3>5 DEF LocalTypes
    <3>7. dealt' \subseteq File
      BY <2>2, <3>1 DEF LocalTypes, LO!Read, LO!Seen, LO!File1
    <3>8. UNCHANGED <<disk, stored, indexed, queue>>
      BY <2>2 DEF LO!Read, LO!engineVars
    <3> QED
      BY <3>6, <3>7, <3>8 DEF LocalTypes
  <2>3. CASE LO!Index(w)
    <3>1. worker[w] \in AtWork /\ worker[w].file \in File /\ worker[w].step = "index"
      BY <2>3 DEF LO!Index, LO!At, LocalTypes
    <3>2. worker[w].data \in LO!Version /\ [worker[w] EXCEPT !.step = "upsert"] \in AtWork
      BY <3>1 DEF AtWork
    <3>3. worker' = [worker EXCEPT ![w] = [worker[w] EXCEPT !.step = "upsert"]]
      BY <2>3 DEF LO!Index, LocalTypes
    <3>4. worker' \in [Worker -> AtWork] /\ \A x \in Worker : worker'[x].step # "free" => worker'[x].file \in File
      BY <3>1, <3>2, <3>3 DEF LocalTypes
    <3>5. /\ stored' \in [File -> [body : LO!Version, hash : LO!Version]]
          /\ indexed' \in [File -> LO!Version]
      BY <2>3, <3>1, <3>2 DEF LocalTypes, LO!Index, LO!File1
    <3> QED
      BY <2>3, <3>4, <3>5 DEF LocalTypes, LO!Index
  <2>4. CASE LO!Upsert(w)
    <3>1. worker[w] \in AtWork /\ worker[w].file \in File /\ worker[w].data \in LO!Version
      BY <2>4 DEF LO!Upsert, LO!At, LocalTypes, AtWork
    <3>2. stored' \in [File -> [body : LO!Version, hash : LO!Version]]
      BY <2>4, <3>1 DEF LocalTypes, LO!Upsert, LO!File1
    <3> QED
      BY <1>2, <2>4, <3>1, <3>2 DEF LocalTypes, LO!Upsert, LO!Seen, LO!File1
  <2> QED
    BY <1>4, <2>1, <2>2, <2>3, <2>4
<1>5. CASE LO!Begin
  BY <1>2, <1>5 DEF LocalTypes, LO!Begin
<1>6. CASE LO!Exit
  BY <1>1, <1>2, <1>6 DEF LocalTypes, LO!Exit
<1>7. CASE LO!WalkFails \/ LO!List
  BY <1>7 DEF LocalTypes, LO!WalkFails, LO!List, LO!engineVars
<1>8. CASE LO!Reconciled \/ LO!WalkFailed
  BY <1>8 DEF LocalTypes, LO!Reconciled, LO!WalkFailed, LO!engineVars, LO!walkVars
<1>9. CASE UNCHANGED loVars
  BY <1>9 DEF LocalTypes, loVars
<1> QED
  BY <1>3, <1>4, <1>5, <1>6, <1>7, <1>8, <1>9 DEF LO!Next

\* Text and hash come apart only in a step that says so.
LEMMA CleanStep ==
    ASSUME LO!LocalIndexerAssumption, LocalTypes, CleanInv, [LO!Next]_loVars
    PROVE  CleanInv'
<1>1. ASSUME NEW f \in File, LO!Edit(f) \/ LO!Walk(f) PROVE CleanInv'
  BY <1>1 DEF CleanInv, LO!Edit, LO!Walk, LO!engineVars, LO!walkVars
<1>2. ASSUME NEW f \in File, LO!Reconcile(f) PROVE CleanInv'
  BY <1>2 DEF CleanInv, LocalTypes, LO!Reconcile, LO!engineVars, LO!NoDoc
<1>3. ASSUME NEW w \in Worker, LO!Take(w) \/ LO!Read(w) PROVE CleanInv'
  BY <1>3 DEF CleanInv, LO!Take, LO!Read, LO!engineVars
<1>4. ASSUME NEW w \in Worker, LO!Index(w) PROVE CleanInv'
  <2>1. PICK f \in File : f = worker[w].file
    BY <1>4 DEF LO!Index, LO!At, LocalTypes
  <2>2. CASE UNCHANGED <<stored, torn>>
    BY <2>2 DEF CleanInv
  <2>3. CASE /\ stored' = [stored EXCEPT ![f].body = worker[w].data]
             /\ torn' = IF stored[f].hash # 0 THEN torn \cup {f} ELSE torn
    <3>1. \A g \in File : stored'[g].hash = stored[g].hash /\ (g # f => stored'[g] = stored[g])
      BY <2>1, <2>3 DEF LocalTypes
    <3>2. torn \subseteq torn' /\ (f \notin torn' => stored[f].hash = 0)
      BY <2>3
    <3> QED
      BY <3>1, <3>2 DEF CleanInv
  <2> QED
    BY <1>4, <2>1, <2>2, <2>3 DEF LO!Index, LO!File1
<1>5. ASSUME NEW w \in Worker, LO!Upsert(w) PROVE CleanInv'
  <2>1. PICK f \in File : f = worker[w].file
    BY <1>5 DEF LO!Upsert, LO!At, LocalTypes
  <2>2. CASE UNCHANGED <<stored, torn>>
    BY <2>2 DEF CleanInv
  <2>3. CASE /\ stored' = [stored EXCEPT ![f] = [body |-> worker[w].data, hash |-> worker[w].data]]
             /\ torn' = torn \ {f}
    <3>1. /\ stored'[f].hash = stored'[f].body
          /\ \A g \in File : g # f => stored'[g] = stored[g]
      BY <2>1, <2>3 DEF LocalTypes
    <3> QED
      BY <2>3, <3>1 DEF CleanInv
  <2> QED
    BY <1>5, <2>1, <2>2, <2>3 DEF LO!Upsert, LO!File1
<1>6. CASE LO!Begin \/ LO!Exit \/ LO!WalkFails \/ LO!List \/ LO!Reconciled \/ LO!WalkFailed
  BY <1>6 DEF CleanInv, LO!Begin, LO!Exit, LO!WalkFails, LO!List, LO!Reconciled, LO!WalkFailed, LO!engineVars
<1>7. CASE UNCHANGED loVars
  BY <1>7 DEF CleanInv, loVars
<1> QED
  BY <1>1, <1>2, <1>3, <1>4, <1>5, <1>6, <1>7 DEF LO!Next

-----------------------------------------------------------------------------
\* A file changes, and the pass is no longer calm; the walk hands a file to the queue.
LEMMA EditKeeps ==
    ASSUME NEW f, LO!Edit(f) PROVE CalmInv'
BY DEF CalmInv, LO!Edit

LEMMA WalkKeeps ==
    ASSUME LO!LocalIndexerAssumption, LocalTypes, CalmInv, NEW f \in File, LO!Walk(f)
    PROVE  CalmInv'
<1> SUFFICES ASSUME calm' PROVE pass' # "failing" /\ CarriedInv' /\ FilesInv' /\ ListedInv'
  BY DEF CalmInv
<1>1. /\ calm /\ pass = "walk" /\ CarriedInv /\ FilesInv
      /\ UNCHANGED <<disk, stored, indexed, pass, mode, worker, dealt, torn>>
  BY DEF CalmInv, LO!Walk, LO!engineVars
<1>2. walk' = walk \ {f}
  BY DEF LO!Walk
<1>3. \/ disk[f] # 0 /\ queue' = Append(queue, f)
      \/ disk[f] = 0 /\ queue' = queue
  BY DEF LO!Walk
<1>4. CarriedInv' /\ ListedInv' /\ pass' # "failing"
  BY <1>1 DEF CarriedInv, ListedInv
<1>5. CASE disk[f] # 0 /\ queue' = Append(queue, f)
  <2>1. /\ Len(queue) \in Nat /\ Len(queue') = Len(queue) + 1 /\ queue'[Len(queue) + 1] = f
        /\ \A n \in 1..Len(queue) : queue'[n] = queue[n]
    BY <1>5 DEF LocalTypes
  <2>2. \A g \in File : InQueue(g)' <=> (InQueue(g) \/ g = f)
    BY <2>1 DEF InQueue
  <2> QED
    BY <1>1, <1>2, <1>4, <1>5, <2>2 DEF FilesInv, OnItsWay, Untouched, HeldBy, Mirrored
<1>6. CASE disk[f] = 0 /\ queue' = queue
  <2>1. \A g \in File : InQueue(g)' <=> InQueue(g)
    BY <1>6 DEF InQueue
  <2> QED
    BY <1>1, <1>2, <1>4, <1>6, <2>1 DEF FilesInv, OnItsWay, Untouched, HeldBy, Mirrored
<1> QED
  BY <1>3, <1>5, <1>6

LEMMA TakeKeeps ==
    ASSUME LO!LocalIndexerAssumption, LocalTypes, CalmInv, NEW w \in Worker, LO!Take(w)
    PROVE  CalmInv'
<1> SUFFICES ASSUME calm' PROVE pass' # "failing" /\ CarriedInv' /\ FilesInv' /\ ListedInv'
  BY DEF CalmInv
<1>1. /\ calm /\ pass = "walk" /\ CarriedInv /\ FilesInv /\ queue # << >> /\ worker[w].step = "free"
      /\ UNCHANGED <<disk, stored, indexed, pass, mode, walk, dealt, torn>>
  BY DEF CalmInv, LO!Take, LO!engineVars, LO!At
<1> DEFINE f == Head(queue)
<1>2. /\ worker' = [worker EXCEPT ![w] = [step |-> "read", file |-> f, data |-> 0]]
      /\ queue' = Tail(queue)
  BY DEF LO!Take
<1>3. /\ Len(queue) \in Nat \ {0} /\ queue[1] = f /\ Len(queue') = Len(queue) - 1
      /\ \A n \in 1..Len(queue') : queue'[n] = queue[n + 1]
  BY <1>1, <1>2 DEF LocalTypes
<1>4. \A g \in File : InQueue(g) <=> (InQueue(g)' \/ g = f)
  <2> SUFFICES ASSUME NEW g \in File PROVE InQueue(g) <=> (InQueue(g)' \/ g = f)
    OBVIOUS
  <2>1. ASSUME NEW n \in 1..Len(queue), queue[n] = g, n # 1 PROVE InQueue(g)'
    <3>1. n - 1 \in 1..Len(queue') /\ queue'[n - 1] = g
      BY <1>3, <2>1
    <3> QED
      BY <3>1 DEF InQueue
  <2>2. ASSUME NEW n \in 1..Len(queue'), queue'[n] = g PROVE InQueue(g)
    <3>1. n + 1 \in 1..Len(queue) /\ queue[n + 1] = g
      BY <1>3, <2>2
    <3> QED
      BY <3>1 DEF InQueue
  <2>3. 1 \in 1..Len(queue)
    BY <1>3
  <2> QED
    BY <1>3, <2>1, <2>2, <2>3 DEF InQueue
<1>5. \A g \in File, x \in Worker : HeldBy(x, g)' <=> (HeldBy(x, g) \/ (x = w /\ g = f))
  BY <1>1, <1>2 DEF HeldBy, LocalTypes
<1>6. FilesInv'
  BY <1>1, <1>4, <1>5 DEF FilesInv, OnItsWay, Untouched, Mirrored
<1>7. CarriedInv' /\ ListedInv' /\ pass' # "failing"
  BY <1>1, <1>2 DEF CarriedInv, ListedInv, LocalTypes
<1> QED
  BY <1>6, <1>7

\* A worker that is done with a file leaves it dealt with, or hands it to its next step.
LEMMA ReadKeeps ==
    ASSUME LO!LocalIndexerAssumption, LocalTypes, CleanInv, CalmInv, NEW w \in Worker, LO!Read(w)
    PROVE  CalmInv'
<1> SUFFICES ASSUME calm', pass # "idle" PROVE pass' # "failing" /\ CarriedInv' /\ FilesInv' /\ ListedInv'
  BY DEF CalmInv, LO!Read
<1> DEFINE f == worker[w].file
           v == disk[f]
<1>1. /\ worker[w] \in AtWork /\ worker[w].step = "read" /\ f \in File /\ v # 0
      /\ UNCHANGED <<disk, stored, indexed, pass, mode, walk, queue, leftovers, torn, calm>>
      /\ \/ /\ ((mode # "dryRun" /\ stored[f].hash = v) \/ v \notin Readable \/ mode # "write")
            /\ dealt' = dealt \cup {f} /\ worker' = [worker EXCEPT ![w] = LO!Free]
         \/ /\ v \in Readable /\ dealt' = dealt
            /\ worker' = [worker EXCEPT ![w] = [worker[w] EXCEPT !.step = "index", !.data = v]]
  BY DEF LO!Read, LO!engineVars, LO!At, LO!File1, LO!Seen, LocalTypes
<1>2. calm /\ pass # "failing" /\ CarriedInv /\ FilesInv /\ ListedInv
  BY <1>1 DEF CalmInv
<1>3. pass \notin {"reconcile", "end"}
  BY <1>1, <1>2 DEF ListedInv, LO!AllDone, LO!At
<1>4. ListedInv' /\ pass' # "failing"
  BY <1>1, <1>2, <1>3 DEF ListedInv
<1>5. \A g \in File : InQueue(g)' <=> InQueue(g)
  BY <1>1 DEF InQueue
<1>6. HeldBy(w, f) /\ \A g \in File : HeldBy(w, g) => g = f
  BY <1>1 DEF HeldBy
<1>7. CASE /\ ((mode # "dryRun" /\ stored[f].hash = v) \/ v \notin Readable \/ mode # "write")
           /\ dealt' = dealt \cup {f} /\ worker' = [worker EXCEPT ![w] = LO!Free]
  <2>1. \A g \in File, x \in Worker : HeldBy(x, g)' <=> (HeldBy(x, g) /\ x # w)
    BY <1>1, <1>7 DEF HeldBy, LocalTypes, LO!Free
  <2>2. CarriedInv'
    BY <1>1, <1>2, <1>7 DEF CarriedInv, LocalTypes, LO!Free
  <2>3. \A g \in File : disk[g] # 0 => OnItsWay(g)'
    BY <1>1, <1>2, <1>5, <1>6, <1>7, <2>1 DEF FilesInv, OnItsWay
  <2>4. \A g \in File : disk[g] = 0 => Untouched(g)'
    BY <1>1, <1>2, <1>5, <1>7, <2>1 DEF FilesInv, Untouched
  <2>5. ASSUME mode = "write", f \notin torn, disk[f] \in Readable PROVE Mirrored(f)
    BY <1>1, <1>7, <2>5 DEF CleanInv, Mirrored
  <2>6. mode = "write" => \A g \in dealt' \ torn : disk[g] \in Readable => Mirrored(g)
    BY <1>2, <1>7, <2>5 DEF FilesInv
  <2> QED
    BY <1>1, <1>2, <1>4, <2>2, <2>3, <2>4, <2>6 DEF FilesInv, Mirrored
<1>8. CASE /\ v \in Readable /\ dealt' = dealt
           /\ worker' = [worker EXCEPT ![w] = [worker[w] EXCEPT !.step = "index", !.data = v]]
  <2>1. /\ worker'[w].step = "index" /\ worker'[w].file = f /\ worker'[w].data = v
        /\ \A x \in Worker \ {w} : worker'[x] = worker[x]
    BY <1>1, <1>8 DEF LocalTypes, AtWork
  <2>2. \A g \in File, x \in Worker : HeldBy(x, g)' <=> HeldBy(x, g)
    BY <1>1, <2>1 DEF HeldBy
  <2>3. CarriedInv'
    BY <1>1, <1>2, <1>8, <2>1 DEF CarriedInv
  <2>4. FilesInv'
    BY <1>1, <1>2, <1>5, <1>8, <2>2 DEF FilesInv, OnItsWay, Untouched, Mirrored
  <2> QED
    BY <1>4, <2>3, <2>4
<1> QED
  BY <1>1, <1>7, <1>8

\* A saved text is that of the disk; the hash it leaves behind is remembered as torn.
LEMMA IndexKeeps ==
    ASSUME LO!LocalIndexerAssumption, LocalTypes, CalmInv, NEW w \in Worker, LO!Index(w)
    PROVE  CalmInv'
<1> SUFFICES ASSUME calm', pass # "idle" PROVE pass' # "failing" /\ CarriedInv' /\ FilesInv' /\ ListedInv'
  BY DEF CalmInv, LO!Index
<1>0. PICK f, v : f = worker[w].file /\ v = worker[w].data
  OBVIOUS
<1>1. /\ worker[w] \in AtWork /\ worker[w].step = "index" /\ f \in File
      /\ UNCHANGED <<disk, pass, mode, walk, queue, dealt, leftovers, calm>>
      /\ indexed' = [indexed EXCEPT ![f] = v]
      /\ stored' = [stored EXCEPT ![f].body = v]
      /\ torn' = IF stored[f].hash # 0 THEN torn \cup {f} ELSE torn
      /\ worker' = [worker EXCEPT ![w] = [worker[w] EXCEPT !.step = "upsert"]]
  BY <1>0 DEF LO!Index, LO!engineVars, LO!At, LO!File1, LocalTypes
<1>2. calm /\ pass # "failing" /\ CarriedInv /\ FilesInv /\ ListedInv
  BY <1>1 DEF CalmInv
<1>3. v \in Readable /\ v = disk[f]
  BY <1>0, <1>1, <1>2 DEF CarriedInv
<1>4. ListedInv' /\ pass' # "failing"
  <2>1. pass \notin {"reconcile", "end"}
    BY <1>1, <1>2 DEF ListedInv, LO!AllDone, LO!At
  <2> QED
    BY <1>1, <1>2, <2>1 DEF ListedInv
<1>5. /\ worker'[w].step = "upsert" /\ worker'[w].file = f /\ worker'[w].data = v
      /\ \A x \in Worker \ {w} : worker'[x] = worker[x]
  BY <1>0, <1>1 DEF LocalTypes, AtWork
<1>6. \A g \in File : InQueue(g)' <=> InQueue(g)
  BY <1>1 DEF InQueue
<1>7. \A g \in File, x \in Worker : HeldBy(x, g)' <=> HeldBy(x, g)
  BY <1>0, <1>1, <1>5 DEF HeldBy
<1>8. /\ indexed'[f] = v /\ \A g \in File \ {f} : indexed'[g] = indexed[g]
      /\ stored'[f].body = v /\ stored'[f].hash = stored[f].hash
      /\ \A g \in File \ {f} : stored'[g] = stored[g]
  BY <1>1 DEF LocalTypes
<1>9. CarriedInv'
  BY <1>1, <1>2, <1>3, <1>5, <1>8 DEF CarriedInv, LocalTypes
<1>10. ASSUME mode = "write", f \in dealt \ torn' PROVE Mirrored(f)'
  <2>1. stored[f].hash = 0 /\ f \notin torn
    BY <1>1, <1>10
  <2>2. stored[f].hash = disk[f]
    BY <1>2, <1>3, <1>10, <2>1 DEF FilesInv, Mirrored
  <2> QED
    BY <1>1, <1>3, <2>1, <2>2 DEF LO!LocalIndexerAssumption
<1>11. FilesInv'
  <2>1. \A g \in File : indexed'[g] = stored'[g].body
    BY <1>2, <1>8 DEF FilesInv
  <2>2. \A g \in File : (disk[g] # 0 => OnItsWay(g)') /\ (disk[g] = 0 => Untouched(g)')
    BY <1>1, <1>2, <1>6, <1>7 DEF FilesInv, OnItsWay, Untouched
  <2>3. ASSUME mode = "write", NEW g \in dealt \ torn', disk[g] \in Readable PROVE Mirrored(g)'
    <3>1. CASE g = f
      BY <1>10, <2>3, <3>1
    <3>2. CASE g # f
      <4>1. g \in File
        BY <1>1, <2>3 DEF LocalTypes
      <4> QED
        BY <1>1, <1>2, <1>8, <2>3, <3>2, <4>1 DEF FilesInv, Mirrored
    <3> QED
      BY <3>1, <3>2
  <2> QED
    BY <1>1, <2>1, <2>2, <2>3 DEF FilesInv
<1> QED
  BY <1>4, <1>9, <1>11

LEMMA UpsertKeeps ==
    ASSUME LO!LocalIndexerAssumption, LocalTypes, CalmInv, NEW w \in Worker, LO!Upsert(w)
    PROVE  CalmInv'
<1> SUFFICES ASSUME calm', pass # "idle" PROVE pass' # "failing" /\ CarriedInv' /\ FilesInv' /\ ListedInv'
  BY DEF CalmInv, LO!Upsert
<1> DEFINE f == worker[w].file
           v == worker[w].data
<1>1. /\ worker[w] \in AtWork /\ worker[w].step = "upsert" /\ f \in File
      /\ UNCHANGED <<disk, indexed, pass, mode, walk, queue, leftovers, calm>>
      /\ stored' = [stored EXCEPT ![f] = [body |-> v, hash |-> v]]
      /\ torn' = torn \ {f} /\ dealt' = dealt \cup {f}
      /\ worker' = [worker EXCEPT ![w] = LO!Free]
  BY DEF LO!Upsert, LO!Seen, LO!At, LO!File1, LocalTypes
<1>2. calm /\ pass # "failing" /\ CarriedInv /\ FilesInv /\ ListedInv
  BY <1>1 DEF CalmInv
<1>3. v \in Readable /\ v = disk[f] /\ indexed[f] = v
  BY <1>1, <1>2 DEF CarriedInv
<1>4. ListedInv' /\ pass' # "failing"
  <2>1. pass \notin {"reconcile", "end"}
    BY <1>1, <1>2 DEF ListedInv, LO!AllDone, LO!At
  <2> QED
    BY <1>1, <1>2, <2>1 DEF ListedInv
<1>5. \A g \in File : InQueue(g)' <=> InQueue(g)
  BY <1>1 DEF InQueue
<1>6. \A g \in File, x \in Worker : HeldBy(x, g)' <=> (HeldBy(x, g) /\ x # w)
  BY <1>1 DEF HeldBy, LocalTypes, LO!Free
<1>7. \A g \in File : HeldBy(w, g) <=> g = f
  BY <1>1 DEF HeldBy
<1>8. /\ stored'[f].body = v /\ stored'[f].hash = v
      /\ \A g \in File \ {f} : stored'[g] = stored[g]
  BY <1>1 DEF LocalTypes
<1>9. CarriedInv'
  BY <1>1, <1>2 DEF CarriedInv, LocalTypes, LO!Free
<1>10. \A g \in File : indexed'[g] = stored'[g].body
  BY <1>1, <1>2, <1>3, <1>8 DEF FilesInv
<1>11. \A g \in File : disk[g] # 0 => OnItsWay(g)'
  BY <1>1, <1>2, <1>5, <1>6, <1>7 DEF FilesInv, OnItsWay
<1>12. \A g \in File : disk[g] = 0 => Untouched(g)'
  BY <1>1, <1>2, <1>5, <1>6, <1>7 DEF FilesInv, Untouched
<1>13. ASSUME mode = "write", NEW g \in dealt' \ torn', disk[g] \in Readable PROVE Mirrored(g)'
  <2>1. CASE g = f
    BY <1>1, <1>3, <1>8, <2>1 DEF Mirrored
  <2>2. CASE g # f
    BY <1>1, <1>2, <1>8, <1>13, <2>2 DEF FilesInv, Mirrored, LocalTypes
  <2> QED
    BY <2>1, <2>2
<1> QED
  BY <1>1, <1>4, <1>9, <1>10, <1>11, <1>12, <1>13 DEF FilesInv

LEMMA BeginsMirrored ==
    ASSUME LO!LocalIndexerAssumption, LocalTypes, LO!Begin
    PROVE  CalmInv'
<1>1. /\ pass' = "walk" /\ walk' = File /\ queue' = << >> /\ dealt' = {}
      /\ indexed' = [f \in File |-> stored[f].body] /\ UNCHANGED <<disk, stored>>
      /\ worker' = [w \in Worker |-> LO!Free]
  BY DEF LO!Begin
<1>2. CarriedInv'
  BY <1>1 DEF CarriedInv, LO!Free
<1>3. FilesInv'
  BY <1>1 DEF FilesInv, OnItsWay, Untouched, InQueue, HeldBy, LO!Free
<1> QED
  BY <1>1, <1>2, <1>3 DEF CalmInv, ListedInv

\* Nobody is at work any more when the documents are listed.
LEMMA ListKeeps ==
    ASSUME LO!LocalIndexerAssumption, LocalTypes, CalmInv, LO!List
    PROVE  CalmInv'
<1> SUFFICES ASSUME calm' PROVE pass' # "failing" /\ CarriedInv' /\ FilesInv' /\ ListedInv'
  BY DEF CalmInv
<1>1. /\ calm /\ pass = "walk" /\ mode = "write" /\ walk = {} /\ LO!AllDone
      /\ leftovers' = {f \in File : stored[f] # LO!NoDoc} /\ pass' = "reconcile"
      /\ UNCHANGED <<disk, stored, indexed, mode, walk, queue, worker, dealt, torn>>
  BY DEF LO!List, LO!engineVars
<1>2. CarriedInv /\ FilesInv
  BY <1>1 DEF CalmInv
<1>3. CarriedInv'
  BY <1>1, <1>2 DEF CarriedInv
<1>4. FilesInv'
  BY <1>1, <1>2 DEF FilesInv, OnItsWay, Untouched, InQueue, HeldBy, Mirrored
<1>5. ListedInv'
  BY <1>1 DEF ListedInv, LO!AllDone, LO!At, LO!NoDoc
<1> QED
  BY <1>1, <1>3, <1>4, <1>5

\* Every file of the directory has been dealt with, so that only what is gone is removed.
LEMMA ReconcileKeeps ==
    ASSUME LO!LocalIndexerAssumption, LocalTypes, CalmInv, NEW f \in File, LO!Reconcile(f)
    PROVE  CalmInv'
<1> SUFFICES ASSUME calm' PROVE pass' # "failing" /\ CarriedInv' /\ FilesInv' /\ ListedInv'
  BY DEF CalmInv
<1>1. /\ calm /\ pass = "reconcile" /\ leftovers' = leftovers \ {f}
      /\ UNCHANGED <<disk, pass, mode, walk, queue, worker, dealt>>
  BY DEF LO!Reconcile
<1>2. CarriedInv /\ FilesInv /\ ListedInv
  BY <1>1 DEF CalmInv
<1>3. mode = "write" /\ walk = {} /\ queue = << >> /\ \A w \in Worker : worker[w].step = "free"
  BY <1>1, <1>2 DEF ListedInv, LO!AllDone, LO!At
<1>4. CarriedInv'
  BY <1>1, <1>3 DEF CarriedInv
<1>5. \A g \in File : (OnItsWay(g)' <=> OnItsWay(g)) /\ (Untouched(g)' <=> Untouched(g))
  BY <1>1 DEF OnItsWay, Untouched, InQueue, HeldBy
<1>6. \A g \in File : disk[g] # 0 => g \in dealt
  BY <1>2, <1>3 DEF FilesInv, OnItsWay, InQueue, HeldBy
<1>7. CASE f \in dealt
  <2>1. UNCHANGED <<stored, indexed, torn>>
    BY <1>7 DEF LO!Reconcile, LO!engineVars
  <2>2. disk[f] # 0
    BY <1>2, <1>7 DEF FilesInv, Untouched
  <2> QED
    BY <1>1, <1>2, <1>4, <1>5, <2>1, <2>2 DEF FilesInv, Mirrored, ListedInv, LO!AllDone, LO!At
<1>8. CASE f \notin dealt
  <2>1. /\ indexed' = [indexed EXCEPT ![f] = 0] /\ stored' = [stored EXCEPT ![f] = LO!NoDoc]
        /\ torn' = torn \ {f}
    BY <1>8 DEF LO!Reconcile
  <2>2. /\ indexed'[f] = 0 /\ stored'[f] = LO!NoDoc /\ LO!NoDoc.body = 0
        /\ \A g \in File \ {f} : indexed'[g] = indexed[g] /\ stored'[g] = stored[g]
    BY <2>1 DEF LocalTypes, LO!NoDoc
  <2>3. \A g \in File : indexed'[g] = stored'[g].body
    BY <1>2, <2>2 DEF FilesInv
  <2>4. \A g \in dealt' \ torn' : disk'[g] \in Readable => Mirrored(g)'
    BY <1>1, <1>2, <1>3, <1>8, <2>1, <2>2 DEF FilesInv, Mirrored, LocalTypes
  <2>5. FilesInv'
    BY <1>1, <1>2, <1>5, <2>3, <2>4 DEF FilesInv
  <2>6. ListedInv'
    BY <1>1, <1>2, <2>2 DEF ListedInv, LO!AllDone, LO!At
  <2> QED
    BY <1>1, <1>4, <2>5, <2>6
<1> QED
  BY <1>7, <1>8

LEMMA ReconciledKeeps ==
    ASSUME CalmInv, LO!Reconciled
    PROVE  CalmInv'
<1>1. /\ pass = "reconcile" /\ pass' = "end" /\ leftovers = {}
      /\ UNCHANGED <<disk, stored, indexed, mode, walk, queue, worker, dealt, leftovers, calm, torn>>
  BY DEF LO!Reconciled, LO!engineVars, LO!walkVars
<1> QED
  BY <1>1 DEF CalmInv, CarriedInv, FilesInv, ListedInv, OnItsWay, Untouched, InQueue, HeldBy, Mirrored,
              LO!AllDone, LO!At

LEMMA LocalStep ==
    ASSUME LO!LocalIndexerAssumption, LocalInv, [LO!Next]_loVars
    PROVE  LocalInv'
<1>1. LocalTypes' /\ CleanInv'
  BY LocalTypesStep, CleanStep DEF LocalInv
<1> SUFFICES CalmInv'
  BY <1>1 DEF LocalInv
<1>2. LocalTypes /\ CleanInv /\ CalmInv
  BY DEF LocalInv
<1>3. ASSUME NEW f \in File, LO!Edit(f) \/ LO!Walk(f) \/ LO!Reconcile(f) PROVE CalmInv'
  BY <1>2, <1>3, EditKeeps, WalkKeeps, ReconcileKeeps
<1>4. ASSUME NEW w \in Worker, LO!Take(w) \/ LO!Read(w) \/ LO!Index(w) \/ LO!Upsert(w)
      PROVE  CalmInv'
  BY <1>2, <1>4, TakeKeeps, ReadKeeps, IndexKeeps, UpsertKeeps
<1>5. CASE LO!WalkFails \/ LO!WalkFailed \/ LO!Exit
  BY <1>2, <1>5 DEF CalmInv, LO!WalkFails, LO!WalkFailed, LO!Exit, LO!engineVars, LO!walkVars
<1>6. CASE LO!Begin \/ LO!List \/ LO!Reconciled
  BY <1>2, <1>6, BeginsMirrored, ListKeeps, ReconciledKeeps
<1>7. CASE UNCHANGED loVars
  BY <1>2, <1>7 DEF loVars, CalmInv, CarriedInv, FilesInv, ListedInv, OnItsWay, Untouched, InQueue, HeldBy,
                    Mirrored, LO!AllDone, LO!At
<1> QED
  BY <1>3, <1>4, <1>5, <1>6, <1>7 DEF LO!Next

\* A pass in which nothing fails and nobody writes leaves store and engine with what is on
\* the disk, and with nothing of files that are gone (IndexDirectory in local.go), for any
\* files, workers and passes before it that died at any place.
THEOREM CalmPassMirrors ==
    ASSUME LO!LocalIndexerAssumption
    PROVE  PartsSpec => []PassMirrors
<1> DEFINE Inv == part = "local" => LocalInv
<1>1. PartsInit => Inv
  <2> SUFFICES ASSUME LO!Init PROVE LocalInv
    BY DEF PartsInit
  <2>1. 0 \in LO!Version /\ LO!NoDoc \in [body : LO!Version, hash : LO!Version]
    BY DEF LO!Version, LO!NoDoc
  <2>2. LO!Free \in AtWork /\ LO!Free.step = "free"
    BY <2>1 DEF LO!Free, AtWork
  <2>3. LocalTypes
    BY <2>1, <2>2 DEF LO!Init, LocalTypes, LO!Version
  <2> QED
    BY <2>3 DEF LO!Init, LocalInv, CleanInv, CalmInv, LO!NoDoc
<1>2. Inv /\ [PartsNext]_partVars => Inv'
  BY LocalStep, PartSteps
<1>3. LocalInv => LO!PassMirrors
  <2> SUFFICES ASSUME LocalInv, pass = "end", calm, NEW f \in File, disk[f] \in Readable \cup {0}, f \notin torn
               PROVE  stored[f] = [body |-> disk[f], hash |-> disk[f]] /\ indexed[f] = disk[f]
    BY DEF LO!PassMirrors
  <2>1. FilesInv /\ ListedInv /\ stored[f] \in [body : LO!Version, hash : LO!Version]
    BY DEF LocalInv, CalmInv, LocalTypes
  <2>2. mode = "write" /\ walk = {} /\ queue = << >> /\ leftovers = {} /\ \A w \in Worker : worker[w].step = "free"
    BY <2>1 DEF ListedInv, LO!AllDone, LO!At
  <2>3. indexed[f] = stored[f].body
    BY <2>1 DEF FilesInv
  <2>4. CASE disk[f] = 0
    <3>1. stored[f] = LO!NoDoc
      BY <2>1, <2>2, <2>4 DEF ListedInv
    <3> QED
      BY <2>3, <2>4, <3>1 DEF LO!NoDoc
  <2>5. CASE disk[f] # 0
    <3>1. f \in dealt
      BY <2>1, <2>2, <2>5 DEF FilesInv, OnItsWay, InQueue, HeldBy
    <3>2. Mirrored(f)
      BY <2>1, <2>2, <2>5, <3>1 DEF FilesInv
    <3> QED
      BY <2>1, <2>3, <3>2 DEF Mirrored
  <2> QED
    BY <2>4, <2>5
<1>4. Inv => PassMirrors
  BY <1>3 DEF PassMirrors
<1> QED
  BY <1>1, <1>2, <1>4, PTL DEF PartsSpec

-----------------------------------------------------------------------------
\* The operators that a component takes from the library are the library's.
LEMMA SameCount == \A S : AC!Cardinality(S) = Cardinality(S)
BY Zenon DEF AC!Cardinality, Cardinality

(* AdaptiveCrawl: a URL that was accepted is in the heap, at a worker, taken up, *)
(* refused by a full heap, or in a subtree that has been given up; and a subtree *)
(* is given up after as many barren pages, each counted once, as there is        *)
(* patience for.                                                                 *)

Subtrees == {Subtree[u] : u \in Url}
InHeap(u) == \E e \in heap : e.url = u
HeldUrl(w, u) == pc[w] = "held" /\ item[w].url = u
TakenUp(w) == pc[w] \in {"fetch", "links"}

\* Barren pages that are counted in the tracker, or whose worker has passed that by.
Pending == {item[w].url : w \in {x \in Worker : TakenUp(x)}}
Counted(subtree) == AC!BarrenFound(subtree) \ Pending
Enough(subtree) == Cardinality(AC!BarrenFound(subtree)) >= Patience

CrawlTypes ==
    /\ \A e \in heap : e.url \in Url
    /\ seen \subseteq Url /\ visited \subseteq seen /\ IsFiniteSet(visited)
    /\ DOMAIN pc = Worker /\ DOMAIN item = Worker /\ \A w \in Worker : item[w].url \in Url
    /\ low \in [Subtrees -> Nat] /\ DOMAIN pruned = Subtrees
    /\ pages \in Nat

OncesInv ==
    /\ \A e \in heap : e.url \in seen \ visited /\ \A d \in heap : d.url = e.url => d = e
    /\ \A w \in Worker : pc[w] = "held" => item[w].url \in seen \ visited /\ ~InHeap(item[w].url)
    /\ \A w \in Worker : TakenUp(w) => item[w].url \in visited
    /\ \A w, x \in Worker : w # x /\ item[w].url = item[x].url =>
          /\ ~(pc[w] = "held" /\ pc[x] = "held")
          /\ ~(TakenUp(w) /\ TakenUp(x))

PlacesInv ==
    \A u \in seen : \/ u \in visited \/ u \in lost \/ InHeap(u) \/ Enough(Subtree[u])
                    \/ \E w \in Worker : HeldUrl(w, u)

CountsInv ==
    \A s \in Subtrees : low[s] <= Cardinality(Counted(s)) /\ (pruned[s] > 0 => Enough(s))

\* The last worker that ends finds nothing in the heap.
EndsInv ==
    /\ crawl = "sitemap" => \A w \in Worker : pc[w] # "ended"
    /\ crawl = "completed" => ~cancelled /\ \A w \in Worker : pc[w] = "ended"
    /\ crawl \in {"working", "completed"} /\ (\A w \in Worker : pc[w] = "ended") /\ ~cancelled /\ pages < MaxPages
       => heap = {}

AdaptiveInv == CrawlTypes /\ OncesInv /\ PlacesInv /\ CountsInv /\ EndsInv

\* Barren pages once found stay found.
LEMMA FoundStays ==
    ASSUME visited \subseteq visited', IsFiniteSet(visited'), NEW s,
           AC!AdaptiveCrawlAssumption
    PROVE  /\ AC!BarrenFound(s) \subseteq AC!BarrenFound(s)'
           /\ IsFiniteSet(AC!BarrenFound(s)')
           /\ Enough(s) => Enough(s)'
<1>1. AC!BarrenFound(s) \subseteq AC!BarrenFound(s)' /\ AC!BarrenFound(s)' \subseteq visited'
  BY DEF AC!BarrenFound
<1>2. IsFiniteSet(AC!BarrenFound(s)')
  BY <1>1, FS_Subset
<1>3. /\ Cardinality(AC!BarrenFound(s)) \in Nat /\ Cardinality(AC!BarrenFound(s)') \in Nat
      /\ Cardinality(AC!BarrenFound(s)) <= Cardinality(AC!BarrenFound(s)')
  BY <1>1, <1>2, FS_Subset, FS_CardinalityType
<1> QED
  BY <1>1, <1>2, <1>3 DEF Enough, AC!AdaptiveCrawlAssumption

\* What is counted may grow while the tracker stands still.
LEMMA CountsStay ==
    ASSUME AC!AdaptiveCrawlAssumption, CrawlTypes, CountsInv,
           visited \subseteq visited', IsFiniteSet(visited'), UNCHANGED <<low, pruned>>,
           \A s \in Subtrees : Counted(s) \subseteq Counted(s)'
    PROVE  CountsInv'
<1> SUFFICES ASSUME NEW s \in Subtrees
             PROVE  low'[s] <= Cardinality(Counted(s)') /\ (pruned'[s] > 0 => Enough(s)')
  BY DEF CountsInv
<1>1. IsFiniteSet(AC!BarrenFound(s)') /\ (Enough(s) => Enough(s)')
  BY FoundStays
<1>2. Counted(s)' \subseteq AC!BarrenFound(s)'
  BY DEF Counted
<1>3. IsFiniteSet(Counted(s)') /\ Counted(s) \subseteq Counted(s)'
  BY <1>1, <1>2, FS_Subset
<1>4. Cardinality(Counted(s)) <= Cardinality(Counted(s)')
      /\ Cardinality(Counted(s)) \in Nat /\ Cardinality(Counted(s)') \in Nat
  BY <1>3, FS_Subset, FS_CardinalityType
<1>5. low'[s] = low[s] /\ pruned'[s] = pruned[s] /\ low[s] \in Nat /\ low[s] <= Cardinality(Counted(s))
  BY DEF CrawlTypes, CountsInv
<1> QED
  BY <1>1, <1>4, <1>5 DEF CountsInv

\* A worker moves on, and neither takes nor takes up a URL by it.
LEMMA MovesOn ==
    ASSUME AC!AdaptiveCrawlAssumption, CrawlTypes, OncesInv, PlacesInv, CountsInv,
           NEW w \in Worker, NEW to, pc' = [pc EXCEPT ![w] = to],
           pc[w] # "held", to # "held", to \in {"fetch", "links"} => TakenUp(w),
           UNCHANGED <<heap, seen, lost, low, pruned, item, visited>>, pages' \in Nat
    PROVE  CrawlTypes' /\ OncesInv' /\ PlacesInv' /\ CountsInv'
<1>1. /\ DOMAIN pc' = Worker /\ pc'[w] = to /\ \A x \in Worker \ {w} : pc'[x] = pc[x]
  BY DEF CrawlTypes
<1>2. CrawlTypes'
  BY <1>1 DEF CrawlTypes
<1>3. \A x \in Worker : /\ pc'[x] = "held" <=> pc[x] = "held"
                        /\ TakenUp(x)' => TakenUp(x)
  BY <1>1 DEF TakenUp
<1>4. OncesInv'
  BY <1>3 DEF OncesInv, InHeap
<1>5. PlacesInv'
  BY <1>3 DEF PlacesInv, InHeap, HeldUrl, Enough, AC!BarrenFound
<1>6. \A s \in Subtrees : Counted(s) \subseteq Counted(s)'
  BY <1>3 DEF Counted, Pending, AC!BarrenFound
<1>7. CountsInv'
  BY <1>2, <1>6, CountsStay DEF CrawlTypes
<1> QED
  BY <1>2, <1>4, <1>5, <1>7

\* A URL that Enqueue accepts has never been seen before; it is put in the heap or is lost.
LEMMA Accepted ==
    ASSUME AC!AdaptiveCrawlAssumption, NEW url, NEW anchor, NEW depth, AC!Enqueue(url, anchor, depth)
    PROVE  \/ UNCHANGED <<heap, seen, lost>>
           \/ /\ url \in Url \ seen /\ seen' = seen \cup {url}
              /\ \/ heap' = heap /\ lost' = lost \cup {url}
                 \/ lost' = lost /\ \E e : e.url = url /\ heap' = heap \cup {e}
<1>1. CASE AC!Refused(url, anchor, depth)
  BY <1>1 DEF AC!Enqueue
<1>2. CASE ~AC!Refused(url, anchor, depth)
  <2>1. url \in Url \ seen /\ seen' = seen \cup {url}
    BY <1>2 DEF AC!Enqueue, AC!Refused, AC!Unwanted, AC!AdaptiveCrawlAssumption
  <2>2. CASE AC!Cardinality(heap) >= Capacity
    BY <1>2, <2>1, <2>2 DEF AC!Enqueue
  <2>3. CASE ~(AC!Cardinality(heap) >= Capacity)
    <3> DEFINE e == [url |-> url, depth |-> depth, priority |-> AC!Priority(url, anchor, depth)]
    <3>1. heap' = heap \cup {e} /\ lost' = lost
      BY <1>2, <2>3, Zenon DEF AC!Enqueue
    <3>2. e.url = url
      OBVIOUS
    <3> QED
      BY <2>1, <3>1, <3>2
  <2> QED
    BY <2>2, <2>3
<1> QED
  BY <1>1, <1>2

LEMMA EnqueueKeeps ==
    ASSUME AC!AdaptiveCrawlAssumption, CrawlTypes, OncesInv, PlacesInv, CountsInv,
           NEW url, NEW anchor, NEW depth, AC!Enqueue(url, anchor, depth),
           UNCHANGED <<pc, item, visited, low, pruned, pages>>
    PROVE  CrawlTypes' /\ OncesInv' /\ PlacesInv' /\ CountsInv'
<1>1. \A u : \A x \in Worker : (HeldUrl(x, u)' <=> HeldUrl(x, u)) /\ (TakenUp(x)' <=> TakenUp(x))
  BY DEF HeldUrl, TakenUp
<1>2. \A s \in Subtrees : (Enough(s)' <=> Enough(s)) /\ Counted(s)' = Counted(s)
  BY DEF Enough, Counted, Pending, AC!BarrenFound, TakenUp
<1>3. CountsInv'
  BY <1>2 DEF CountsInv
<1>4. CASE UNCHANGED <<heap, seen, lost>>
  BY <1>1, <1>2, <1>3, <1>4 DEF CrawlTypes, OncesInv, PlacesInv, InHeap, Subtrees
<1>5. ASSUME url \in Url \ seen, seen' = seen \cup {url}, heap' = heap, lost' = lost \cup {url}
      PROVE  CrawlTypes' /\ OncesInv' /\ PlacesInv'
  BY <1>1, <1>2, <1>5 DEF CrawlTypes, OncesInv, PlacesInv, InHeap, Subtrees
<1>6. ASSUME url \in Url \ seen, seen' = seen \cup {url}, lost' = lost, NEW e, e.url = url, heap' = heap \cup {e}
      PROVE  CrawlTypes' /\ OncesInv' /\ PlacesInv'
  <2>1. \A u : InHeap(u)' <=> (InHeap(u) \/ u = url)
    BY <1>6 DEF InHeap
  <2>2. CrawlTypes'
    BY <1>6 DEF CrawlTypes
  <2>3. OncesInv'
    BY <1>1, <1>6, <2>1 DEF CrawlTypes, OncesInv
  <2>4. PlacesInv'
    BY <1>1, <1>2, <1>6, <2>1 DEF CrawlTypes, PlacesInv, Subtrees
  <2> QED
    BY <2>2, <2>3, <2>4
<1> QED
  BY <1>3, <1>4, <1>5, <1>6, Accepted

LEMMA TakeKeepsPlaces ==
    ASSUME AC!AdaptiveCrawlAssumption, CrawlTypes, OncesInv, PlacesInv, CountsInv,
           NEW w \in Worker, AC!Take(w)
    PROVE  CrawlTypes' /\ OncesInv' /\ PlacesInv' /\ CountsInv'
<1>1. PICK e \in heap : /\ heap' = heap \ {e} /\ item' = [item EXCEPT ![w] = e]
                        /\ pc[w] = "loop" /\ pc' = [pc EXCEPT ![w] = "held"]
                        /\ UNCHANGED <<seen, lost, low, pruned, pages, visited>>
  BY DEF AC!Take, AC!Move, AC!trackerVars
<1>2. /\ DOMAIN pc' = Worker /\ DOMAIN item' = Worker /\ pc'[w] = "held" /\ item'[w] = e
      /\ \A x \in Worker \ {w} : pc'[x] = pc[x] /\ item'[x] = item[x]
  BY <1>1 DEF CrawlTypes
<1>3. /\ \A x \in Worker : TakenUp(x)' <=> TakenUp(x)
      /\ \A x \in Worker : TakenUp(x)' => item'[x] = item[x]
      /\ \A u : \A x \in Worker : HeldUrl(x, u)' <=> (HeldUrl(x, u) \/ (x = w /\ u = e.url))
  BY <1>1, <1>2 DEF TakenUp, HeldUrl
<1>4. \A u : InHeap(u) <=> (InHeap(u)' \/ u = e.url)
  BY <1>1 DEF InHeap
<1>5. ~InHeap(e.url)'
  BY <1>1 DEF InHeap, OncesInv
<1>6. CrawlTypes'
  BY <1>1, <1>2 DEF CrawlTypes
<1>7. OncesInv'
  <2>1. \A d \in heap' : d.url \in seen' \ visited' /\ \A c \in heap' : c.url = d.url => c = d
    BY <1>1 DEF OncesInv
  <2>2. \A x \in Worker : pc'[x] = "held" => item'[x].url \in seen' \ visited' /\ ~InHeap(item[x].url)'
    BY <1>1, <1>2, <1>4, <1>5 DEF OncesInv
  <2>3. \A x \in Worker : TakenUp(x)' => item'[x].url \in visited'
    BY <1>1, <1>3 DEF OncesInv
  <2>4. \A x, y \in Worker : x # y /\ item'[x].url = item'[y].url =>
            ~(pc'[x] = "held" /\ pc'[y] = "held") /\ ~(TakenUp(x)' /\ TakenUp(y)')
    <3>1. \A x \in Worker : pc[x] = "held" => item[x].url # e.url
      BY <1>1 DEF OncesInv, InHeap
    <3> QED
      BY <1>1, <1>2, <1>3, <3>1 DEF OncesInv
  <2> QED
    BY <2>1, <2>2, <2>3, <2>4 DEF OncesInv
<1>8. \A s \in Subtrees : (Enough(s)' <=> Enough(s)) /\ Counted(s)' = Counted(s)
  <2>1. Pending' = Pending
    BY <1>3 DEF Pending
  <2> QED
    BY <1>1, <2>1 DEF Enough, Counted, AC!BarrenFound
<1>9. PlacesInv'
  BY <1>1, <1>3, <1>4, <1>8 DEF PlacesInv, CrawlTypes, Subtrees
<1>10. CountsInv'
  BY <1>1, <1>8 DEF CountsInv
<1> QED
  BY <1>6, <1>7, <1>9, <1>10

\* An entry is passed over when its subtree has been given up.
LEMMA SkipKeeps ==
    ASSUME AC!AdaptiveCrawlAssumption, CrawlTypes, OncesInv, PlacesInv, CountsInv,
           NEW w \in Worker, AC!Skip(w)
    PROVE  CrawlTypes' /\ OncesInv' /\ PlacesInv' /\ CountsInv'
<1>1. /\ pc[w] = "held" /\ pc' = [pc EXCEPT ![w] = "loop"] /\ pruned[Subtree[item[w].url]] > 0
      /\ UNCHANGED <<heap, seen, lost, low, pruned, item, pages, visited>>
  BY DEF AC!Skip, AC!Move, AC!IsPruned, AC!frontierVars, AC!trackerVars
<1>2. /\ DOMAIN pc' = Worker /\ pc'[w] = "loop" /\ \A x \in Worker \ {w} : pc'[x] = pc[x]
  BY <1>1 DEF CrawlTypes
<1>3. /\ \A x \in Worker : TakenUp(x)' <=> TakenUp(x)
      /\ \A u : \A x \in Worker : HeldUrl(x, u)' <=> (HeldUrl(x, u) /\ x # w)
  BY <1>1, <1>2 DEF TakenUp, HeldUrl
<1>4. Enough(Subtree[item[w].url])
  BY <1>1 DEF CountsInv, CrawlTypes, Subtrees
<1>5. CrawlTypes'
  BY <1>1, <1>2 DEF CrawlTypes
<1>6. OncesInv'
  BY <1>1, <1>2, <1>3 DEF OncesInv, InHeap
<1>7. \A s : (Enough(s)' <=> Enough(s)) /\ Counted(s)' = Counted(s)
  BY <1>1, <1>3 DEF Enough, Counted, Pending, AC!BarrenFound
<1>8. \A u : InHeap(u)' <=> InHeap(u)
  BY <1>1 DEF InHeap
<1>9. \A u : HeldUrl(w, u) => u = item[w].url
  BY DEF HeldUrl
<1>10. PlacesInv'
  BY <1>1, <1>3, <1>4, <1>7, <1>8, <1>9 DEF PlacesInv
<1>11. CountsInv'
  BY <1>1, <1>7 DEF CountsInv
<1> QED
  BY <1>5, <1>6, <1>10, <1>11

\* A URL that is taken up is pending, and so not yet counted.
LEMMA BeginKeepsPlaces ==
    ASSUME AC!AdaptiveCrawlAssumption, CrawlTypes, OncesInv, PlacesInv, CountsInv,
           NEW w \in Worker, AC!Begin(w)
    PROVE  CrawlTypes' /\ OncesInv' /\ PlacesInv' /\ CountsInv'
<1>0. PICK u : u = item[w].url
  OBVIOUS
<1>1. /\ pc[w] = "held" /\ pc' = [pc EXCEPT ![w] = "fetch"] /\ visited' = visited \cup {u}
      /\ UNCHANGED <<heap, seen, lost, low, pruned, item, pages>>
  BY <1>0 DEF AC!Begin, AC!Move, AC!frontierVars, AC!trackerVars
<1>2. /\ DOMAIN pc' = Worker /\ pc'[w] = "fetch" /\ \A x \in Worker \ {w} : pc'[x] = pc[x]
  BY <1>1 DEF CrawlTypes
<1>3. u \in seen \ visited /\ ~InHeap(u)
  BY <1>0, <1>1 DEF OncesInv
<1>4. /\ \A x \in Worker : TakenUp(x)' <=> (TakenUp(x) \/ x = w)
      /\ \A x \in Worker : (pc'[x] = "held") <=> (pc[x] = "held" /\ x # w)
  BY <1>1, <1>2 DEF TakenUp
<1>5. IsFiniteSet(visited')
  BY <1>1, FS_AddElement DEF CrawlTypes
<1>6. CrawlTypes'
  BY <1>1, <1>2, <1>3, <1>5 DEF CrawlTypes
<1>7. OncesInv'
  <2>1. \A d \in heap' : d.url \in seen' \ visited' /\ \A c \in heap' : c.url = d.url => c = d
    BY <1>1, <1>3 DEF OncesInv, InHeap
  <2>2. \A x \in Worker : pc'[x] = "held" => item'[x].url \in seen' \ visited' /\ ~InHeap(item[x].url)'
    BY <1>0, <1>1, <1>4 DEF OncesInv, InHeap
  <2>3. \A x \in Worker : TakenUp(x)' => item'[x].url \in visited'
    BY <1>0, <1>1, <1>4 DEF OncesInv
  <2>4. \A x, y \in Worker : x # y /\ item'[x].url = item'[y].url =>
            ~(pc'[x] = "held" /\ pc'[y] = "held") /\ ~(TakenUp(x)' /\ TakenUp(y)')
    BY <1>0, <1>1, <1>3, <1>4 DEF OncesInv
  <2> QED
    BY <2>1, <2>2, <2>3, <2>4 DEF OncesInv
<1>8. \A s \in Subtrees : (Enough(s) => Enough(s)') /\ Counted(s) \subseteq Counted(s)'
  <2> SUFFICES ASSUME NEW s \in Subtrees
               PROVE  (Enough(s) => Enough(s)') /\ Counted(s) \subseteq Counted(s)'
    OBVIOUS
  <2>1. Enough(s) => Enough(s)'
    BY <1>1, <1>5, FoundStays
  <2>2. Pending' = Pending \cup {u}
    BY <1>0, <1>1, <1>4 DEF Pending
  <2>3. AC!BarrenFound(s) \subseteq AC!BarrenFound(s)' /\ u \notin AC!BarrenFound(s)
    BY <1>1, <1>3 DEF AC!BarrenFound
  <2> QED
    BY <2>1, <2>2, <2>3 DEF Counted
<1>9. PlacesInv'
  <2>1. \A v : InHeap(v)' <=> InHeap(v)
    BY <1>1 DEF InHeap
  <2>2. \A v : \A x \in Worker : HeldUrl(x, v) => HeldUrl(x, v)' \/ v = u
    BY <1>0, <1>1, <1>4 DEF HeldUrl
  <2> QED
    BY <1>1, <1>8, <2>1, <2>2 DEF PlacesInv, CrawlTypes, Subtrees
<1>10. CountsInv'
  BY <1>1, <1>5, <1>8, CountsStay
<1> QED
  BY <1>6, <1>7, <1>9, <1>10

\* The tracker counts a barren page that nobody else has taken up.
LEMMA RecordKeeps ==
    ASSUME AC!AdaptiveCrawlAssumption, CrawlTypes, OncesInv, PlacesInv, CountsInv,
           NEW w \in Worker, AC!Record(w)
    PROVE  CrawlTypes' /\ OncesInv' /\ PlacesInv' /\ CountsInv'
<1>0. PICK u : u = item[w].url
  OBVIOUS
<1>1. /\ pc[w] = "links" /\ pc' = [pc EXCEPT ![w] = "count"]
      /\ UNCHANGED <<heap, seen, lost, item, pages, visited>>
      /\ AC!RecordYield(Final[u], Final[u] \in Barren, Final[u] \in Hub, item[w].depth)
  BY <1>0 DEF AC!Record, AC!Move, AC!frontierVars
<1>2. /\ DOMAIN pc' = Worker /\ pc'[w] = "count" /\ \A x \in Worker \ {w} : pc'[x] = pc[x]
  BY <1>1 DEF CrawlTypes
<1>3. u \in Url /\ u \in visited /\ Final[u] \in Url
  BY <1>0, <1>1 DEF CrawlTypes, OncesInv, TakenUp, AC!AdaptiveCrawlAssumption
<1>4. /\ \A x \in Worker : TakenUp(x)' <=> (TakenUp(x) /\ x # w)
      /\ \A x \in Worker : pc'[x] = "held" <=> pc[x] = "held"
      /\ TakenUp(w)
  BY <1>1, <1>2 DEF TakenUp
<1>5. Pending' = Pending \ {u} /\ u \in Pending
  <2>1. \A x \in Worker : x # w /\ TakenUp(x) => item[x].url # u
    BY <1>0, <1>4 DEF OncesInv
  <2> QED
    BY <1>0, <1>1, <1>4, <2>1 DEF Pending
<1>6. \A s : AC!BarrenFound(s)' = AC!BarrenFound(s) /\ (Enough(s)' <=> Enough(s))
  BY <1>1 DEF AC!BarrenFound, Enough
<1>7. \A s : IsFiniteSet(AC!BarrenFound(s)) /\ IsFiniteSet(Counted(s)) /\ Cardinality(Counted(s)) \in Nat
             /\ Cardinality(Counted(s)) <= Cardinality(AC!BarrenFound(s)) /\ Cardinality(AC!BarrenFound(s)) \in Nat
  <2> TAKE s
  <2>1. AC!BarrenFound(s) \subseteq visited /\ Counted(s) \subseteq AC!BarrenFound(s)
    BY DEF AC!BarrenFound, Counted
  <2>2. IsFiniteSet(AC!BarrenFound(s))
    BY <2>1, FS_Subset DEF CrawlTypes
  <2> QED
    BY <2>1, <2>2, FS_Subset, FS_CardinalityType
<1>8. \A s : Counted(s) \subseteq Counted(s)' /\ IsFiniteSet(Counted(s)')
             /\ Cardinality(Counted(s)) <= Cardinality(Counted(s)') /\ Cardinality(Counted(s)') \in Nat
  <2> TAKE s
  <2>1. Counted(s) \subseteq Counted(s)' /\ Counted(s)' \subseteq AC!BarrenFound(s)
    BY <1>5, <1>6 DEF Counted
  <2>2. IsFiniteSet(Counted(s)')
    BY <1>7, <2>1, FS_Subset
  <2> QED
    BY <2>1, <2>2, FS_Subset, FS_CardinalityType
<1> DEFINE place == Subtree[Final[u]]
           run == IF Final[u] \in Barren THEN low[place] + 1 ELSE 0
<1>9. place \in Subtrees /\ low[place] \in Nat
  BY <1>3 DEF Subtrees, CrawlTypes
<1>10. ASSUME Final[u] \in Barren, Final[u] \notin Hub
       PROVE  Cardinality(Counted(place)') >= Cardinality(Counted(place)) + 1
  <2>1. u \in AC!BarrenFound(place)
    BY <1>3, <1>10 DEF AC!BarrenFound
  <2>2. Counted(place)' = Counted(place) \cup {u} /\ u \notin Counted(place)
    BY <1>5, <1>6, <2>1 DEF Counted
  <2>3. Cardinality(Counted(place) \cup {u}) = Cardinality(Counted(place)) + 1
    <3>1. IsFiniteSet(Counted(place))
      BY <1>7
    <3> QED
      BY <2>2, <3>1, FS_AddElement
  <2> QED
    BY <1>7, <2>2, <2>3
<1>11. \/ UNCHANGED <<low, pruned>>
       \/ /\ Final[u] \notin Hub
          /\ low' = [low EXCEPT ![place] = run]
          /\ \/ pruned' = pruned
             \/ /\ Final[u] \in Barren /\ run >= Patience
                /\ pruned' = [pruned EXCEPT ![place] = item[w].depth]
  BY <1>1 DEF AC!RecordYield, AC!trackerVars
<1>12. low' \in [Subtrees -> Nat] /\ DOMAIN pruned' = Subtrees
  <2>1. run \in Nat
    BY <1>9
  <2> QED
    BY <1>11, <2>1 DEF CrawlTypes
<1>13. CrawlTypes'
  BY <1>1, <1>2, <1>12 DEF CrawlTypes
<1>14. OncesInv'
  BY <1>1, <1>4 DEF OncesInv, InHeap
<1>15. PlacesInv'
  <2>1. \A v : (InHeap(v)' <=> InHeap(v)) /\ \A x \in Worker : HeldUrl(x, v)' <=> HeldUrl(x, v)
    BY <1>1, <1>4 DEF InHeap, HeldUrl
  <2> QED
    BY <1>1, <1>6, <2>1 DEF PlacesInv
<1>16. CountsInv'
  <2>1. CASE UNCHANGED <<low, pruned>>
    BY <1>13, <1>1, <1>8, <2>1, CountsStay DEF CrawlTypes
  <2>2. ASSUME Final[u] \notin Hub, low' = [low EXCEPT ![place] = run],
               \/ pruned' = pruned
               \/ /\ Final[u] \in Barren /\ run >= Patience
                  /\ pruned' = [pruned EXCEPT ![place] = item[w].depth]
        PROVE  CountsInv'
    <3> SUFFICES ASSUME NEW s \in Subtrees
                 PROVE  low'[s] <= Cardinality(Counted(s)') /\ (pruned'[s] > 0 => Enough(s)')
      BY DEF CountsInv
    <3>1. /\ low[s] \in Nat /\ low[s] <= Cardinality(Counted(s)) /\ (pruned[s] > 0 => Enough(s))
          /\ Cardinality(Counted(s)) <= Cardinality(Counted(s)')
          /\ Cardinality(Counted(s)) \in Nat /\ Cardinality(Counted(s)') \in Nat
      BY <1>7, <1>8 DEF CountsInv, CrawlTypes
    <3>2. CASE s # place
      <4>1. low'[s] = low[s] /\ pruned'[s] = pruned[s]
        BY <2>2, <3>2 DEF CrawlTypes
      <4> QED
        BY <1>6, <3>1, <4>1
    <3>3. CASE s = place
      <4>1. low'[s] = run
        BY <2>2, <3>3 DEF CrawlTypes
      <4>2. run <= Cardinality(Counted(s)')
        BY <1>10, <2>2, <3>1, <3>3
      <4>3. CASE pruned' = pruned
        BY <1>6, <3>1, <4>1, <4>2, <4>3
      <4>4. CASE Final[u] \in Barren /\ run >= Patience
        <5>1. Cardinality(Counted(s)') <= Cardinality(AC!BarrenFound(s))
          <6>1. Counted(s)' \subseteq AC!BarrenFound(s)
            BY <1>6 DEF Counted
          <6> QED
            BY <1>7, <6>1, FS_Subset
        <5>2. Patience \in Nat /\ run \in Nat /\ Cardinality(AC!BarrenFound(s)) \in Nat
          BY <1>7, <1>9 DEF AC!AdaptiveCrawlAssumption
        <5>3. Enough(s)
          BY <3>1, <4>2, <4>4, <5>1, <5>2 DEF Enough
        <5> QED
          BY <1>6, <4>1, <4>2, <5>3
      <4> QED
        BY <2>2, <4>3, <4>4
    <3> QED
      BY <3>2, <3>3
  <2> QED
    BY <1>11, <2>1, <2>2
<1> QED
  BY <1>13, <1>14, <1>15, <1>16

LEMMA EndsStep ==
    ASSUME AC!AdaptiveCrawlAssumption, CrawlTypes, EndsInv, [AC!Next]_acVars
    PROVE  EndsInv'
<1>1. CASE AC!EnqueueListed
  BY <1>1 DEF EndsInv, AC!EnqueueListed, AC!workerVars
<1>2. CASE AC!StartWorkers
  <2>1. crawl = "sitemap" /\ crawl' = "working" /\ UNCHANGED pc
    BY <1>2 DEF AC!StartWorkers, AC!workerVars
  <2> QED
    BY <2>1 DEF EndsInv, AC!AdaptiveCrawlAssumption
<1>3. CASE AC!Cancel \/ AC!Watch
  BY <1>3 DEF EndsInv, AC!Cancel, AC!Watch, AC!frontierVars, AC!workerVars
<1>4. CASE AC!End
  <2>1. /\ crawl = "working" /\ crawl' = (IF cancelled THEN "cancelled" ELSE "completed")
        /\ \A w \in Worker : pc[w] = "ended"
        /\ UNCHANGED <<heap, pc, pages, cancelled>>
    BY <1>4 DEF AC!End, AC!workerVars
  <2> QED
    BY <2>1 DEF EndsInv
<1>5. ASSUME NEW w \in Worker, AC!WorkerStep(w) PROVE EndsInv'
  <2>1. UNCHANGED <<crawl, cancelled>> /\ crawl = "working" /\ pc[w] # "ended"
    BY <1>5 DEF AC!WorkerStep, AC!LimitReached, AC!Take, AC!FindNothing, AC!Quiesce, AC!Skip, AC!Begin, AC!Fail,
                AC!NotModified, AC!Fetch, AC!EnqueueLink, AC!Record, AC!Count, AC!Leave, AC!Move
  <2>2. \/ pc'[w] # "ended"
        \/ UNCHANGED <<heap, pages>> /\ (cancelled \/ pages >= MaxPages \/ heap = {})
    BY <1>5 DEF AC!WorkerStep, AC!LimitReached, AC!Take, AC!FindNothing, AC!Quiesce, AC!Skip, AC!Begin, AC!Fail,
                AC!NotModified, AC!Fetch, AC!EnqueueLink, AC!Record, AC!Count, AC!Leave, AC!Move,
                AC!frontierVars, CrawlTypes
  <2> QED
    BY <2>1, <2>2 DEF EndsInv, CrawlTypes, AC!AdaptiveCrawlAssumption
<1>6. CASE UNCHANGED acVars
  BY <1>6 DEF EndsInv, acVars
<1> QED
  BY <1>1, <1>2, <1>3, <1>4, <1>5, <1>6 DEF AC!Next

LEMMA AdaptiveStep ==
    ASSUME AC!AdaptiveCrawlAssumption, AdaptiveInv, [AC!Next]_acVars
    PROVE  AdaptiveInv'
<1>1. EndsInv' /\ CrawlTypes /\ OncesInv /\ PlacesInv /\ CountsInv
  BY EndsStep DEF AdaptiveInv
<1> SUFFICES CrawlTypes' /\ OncesInv' /\ PlacesInv' /\ CountsInv'
  BY <1>1 DEF AdaptiveInv
<1>2. ASSUME UNCHANGED <<heap, seen, lost, low, pruned, pc, item, visited, pages>>
      PROVE  CrawlTypes' /\ OncesInv' /\ PlacesInv' /\ CountsInv'
  <2>1. CrawlTypes'
    BY <1>1, <1>2 DEF CrawlTypes
  <2>2. OncesInv'
    BY <1>1, <1>2 DEF OncesInv, InHeap, TakenUp
  <2>3. PlacesInv'
    BY <1>1, <1>2 DEF PlacesInv, InHeap, HeldUrl, Enough, AC!BarrenFound
  <2>4. CountsInv'
    BY <1>1, <1>2 DEF CountsInv, TakenUp, Enough, Counted, Pending, AC!BarrenFound
  <2> QED
    BY <2>1, <2>2, <2>3, <2>4
<1>3. CASE AC!EnqueueListed
  <2>1. /\ AC!Enqueue(Head(listed), AC!SitemapAnchor, 1) /\ UNCHANGED <<pc, item, visited, low, pruned, pages>>
    BY <1>3 DEF AC!EnqueueListed, AC!workerVars, AC!trackerVars
  <2> QED
    BY <1>1, <2>1, EnqueueKeeps
<1>4. CASE AC!StartWorkers \/ AC!Cancel \/ AC!Watch \/ AC!End
  BY <1>2, <1>4 DEF AC!StartWorkers, AC!Cancel, AC!Watch, AC!End, AC!frontierVars, AC!workerVars, AC!trackerVars
<1>5. ASSUME NEW w \in Worker, AC!LimitReached(w) \/ AC!FindNothing(w) \/ AC!Quiesce(w) \/ AC!Fail(w)
                               \/ AC!NotModified(w) \/ AC!Fetch(w) \/ AC!Count(w) \/ AC!Leave(w)
      PROVE  CrawlTypes' /\ OncesInv' /\ PlacesInv' /\ CountsInv'
  <2>1. UNCHANGED <<heap, seen, lost, low, pruned, item, visited>> /\ pages' \in Nat
    <3>1. CASE AC!LimitReached(w) \/ AC!FindNothing(w) \/ AC!Quiesce(w) \/ AC!Fail(w)
      BY <1>1, <3>1 DEF AC!LimitReached, AC!FindNothing, AC!Quiesce, AC!Fail, AC!frontierVars, AC!trackerVars,
                        CrawlTypes
    <3>2. CASE AC!NotModified(w) \/ AC!Fetch(w)
      BY <1>1, <3>2 DEF AC!NotModified, AC!Fetch, AC!frontierVars, AC!trackerVars, CrawlTypes
    <3>3. CASE AC!Count(w) \/ AC!Leave(w)
      BY <1>1, <3>3 DEF AC!Count, AC!Leave, AC!frontierVars, AC!trackerVars, CrawlTypes
    <3> QED
      BY <1>5, <3>1, <3>2, <3>3
  <2>2. \E to : /\ pc' = [pc EXCEPT ![w] = to] /\ pc[w] # "held" /\ to # "held"
                /\ to \in {"fetch", "links"} => TakenUp(w)
    BY <1>5 DEF AC!LimitReached, AC!FindNothing, AC!Quiesce, AC!Fail, AC!NotModified, AC!Fetch, AC!Count,
                AC!Leave, AC!Move, TakenUp
  <2> QED
    BY <1>1, <2>1, <2>2, MovesOn
<1>6. ASSUME NEW w \in Worker, AC!EnqueueLink(w)
      PROVE  CrawlTypes' /\ OncesInv' /\ PlacesInv' /\ CountsInv'
  <2>1. /\ AC!Enqueue(Head(left[w]), IF pc[w] = "links" THEN AnchorScore[Head(left[w])] ELSE AC!NoAnchor,
                      item[w].depth + 1)
        /\ UNCHANGED <<pc, item, visited, low, pruned, pages>>
    BY <1>6 DEF AC!EnqueueLink, AC!trackerVars
  <2> QED
    BY <1>1, <2>1, EnqueueKeeps
<1>7. ASSUME NEW w \in Worker, AC!Take(w) \/ AC!Skip(w) \/ AC!Begin(w) \/ AC!Record(w)
      PROVE  CrawlTypes' /\ OncesInv' /\ PlacesInv' /\ CountsInv'
  BY <1>1, <1>7, TakeKeepsPlaces, SkipKeeps, BeginKeepsPlaces, RecordKeeps
<1>8. CASE UNCHANGED acVars
  BY <1>2, <1>8 DEF acVars
<1> QED
  BY <1>3, <1>4, <1>5, <1>6, <1>7, <1>8 DEF AC!Next, AC!WorkerStep

\* An adaptive crawl that ends below its budget leaves out no URL it accepted but those a
\* full heap refused and those of subtrees it had reason to give up (job_manager.go,
\* adaptive.go), for any site, sitemaps, workers and interleaving.
THEOREM OnlyBarrenIsSkipped ==
    ASSUME AC!AdaptiveCrawlAssumption
    PROVE  PartsSpec => []OnlyBarrenSkipped
<1> DEFINE Inv == part = "adaptive" => AdaptiveInv
<1>1. PartsInit => Inv
  <2> SUFFICES ASSUME AC!Init PROVE AdaptiveInv
    BY DEF PartsInit
  <2>1. /\ \A e \in heap : e.url \in seen
        /\ \A e, d \in heap : e = d
        /\ \A u \in seen : InHeap(u)
        /\ seen \subseteq {Seed} /\ visited = {} /\ Seed \in Url
        /\ \A w \in Worker : pc[w] = "loop" /\ item[w].url = Seed
        /\ DOMAIN pc = Worker /\ DOMAIN item = Worker /\ pages = 0 /\ crawl = "sitemap"
    <3>1. seen = {u \in {Seed} : ~AC!Unwanted(u, AC!SeedAnchor, 0)}
      BY DEF AC!Init
    <3>2. heap = {[url |-> u, depth |-> 0, priority |-> AC!Priority(u, AC!SeedAnchor, 0)] : u \in seen}
      BY DEF AC!Init
    <3>3. seen \subseteq {Seed} /\ \A e \in heap : e.url \in seen
      BY <3>1, <3>2
    <3>4. \A e, d \in heap : e = d
      BY <3>2, <3>3
    <3>5. ASSUME NEW u \in seen PROVE InHeap(u)
      <4> DEFINE e == [url |-> u, depth |-> 0, priority |-> AC!Priority(u, AC!SeedAnchor, 0)]
      <4>1. e \in heap
        BY <3>2, <3>5
      <4>2. e.url = u
        OBVIOUS
      <4> QED
        BY <4>1, <4>2 DEF InHeap
    <3>6. /\ visited = {} /\ Seed \in Url /\ \A w \in Worker : pc[w] = "loop" /\ item[w].url = Seed
          /\ DOMAIN pc = Worker /\ DOMAIN item = Worker /\ pages = 0 /\ crawl = "sitemap"
      BY DEF AC!Init, AC!Nothing, AC!AdaptiveCrawlAssumption
    <3> QED
      BY <3>3, <3>4, <3>5, <3>6
  <2>2. low = [s \in Subtrees |-> 0] /\ pruned = [s \in Subtrees |-> 0]
    BY DEF AC!Init, Subtrees
  <2>3. CrawlTypes
    BY <2>1, <2>2, FS_EmptySet DEF CrawlTypes
  <2>4. OncesInv
    BY <2>1 DEF OncesInv, TakenUp
  <2>5. PlacesInv
    BY <2>1 DEF PlacesInv
  <2>6. CountsInv
    <3> SUFFICES ASSUME NEW s \in Subtrees
                 PROVE  low[s] <= Cardinality(Counted(s)) /\ ~(pruned[s] > 0)
      BY DEF CountsInv
    <3>1. Counted(s) = {}
      BY <2>1 DEF Counted, AC!BarrenFound
    <3>2. Cardinality(Counted(s)) = 0
      BY <3>1, FS_EmptySet
    <3> QED
      BY <2>2, <3>2
  <2>7. EndsInv
    BY <2>1 DEF EndsInv
  <2> QED
    BY <2>3, <2>4, <2>5, <2>6, <2>7 DEF AdaptiveInv
<1>2. Inv /\ [PartsNext]_partVars => Inv'
  BY AdaptiveStep, PartSteps
<1>3. ASSUME AdaptiveInv PROVE AC!OnlyBarrenSkipped
  <2> SUFFICES ASSUME crawl = "completed", pages < MaxPages, NEW u \in seen \ (visited \cup lost)
               PROVE  AC!Cardinality(AC!BarrenFound(Subtree[u])) >= Patience
    BY DEF AC!OnlyBarrenSkipped
  <2>1. heap = {} /\ \A w \in Worker : pc[w] = "ended"
    BY <1>3 DEF AdaptiveInv, EndsInv
  <2>2. Enough(Subtree[u])
    BY <1>3, <2>1 DEF AdaptiveInv, PlacesInv, InHeap, HeldUrl
  <2> QED
    BY <2>2, SameCount DEF Enough
<1>4. Inv => OnlyBarrenSkipped
  BY <1>3 DEF OnlyBarrenSkipped
<1> QED
  BY <1>1, <1>2, <1>4, PTL DEF PartsSpec

-----------------------------------------------------------------------------
(* Quotas: what a bucket holds and what was drawn from it since some moment is   *)
(* within a full bucket and what has flowed in since; a tenant's window, and the *)
(* part of the window before that a minute can still reach, each hold at most    *)
(* one quota.                                                                    *)

Grant(party) == [who : party, at : Nat]
GrantsIn(grants, who, first, last) ==
    {n \in DOMAIN grants : grants[n].who = who /\ grants[n].at \in first..last}
Tally(grants, who, first, last) == Cardinality(GrantsIn(grants, who, first, last))

QuotaTypes ==
    /\ today \in Nat /\ lastReset \in Nat /\ lastReset <= today
    /\ requests \in [Tenant -> Nat]
    /\ DOMAIN bucket \subseteq Client
    /\ \A c \in DOMAIN bucket : bucket[c].level \in Nat /\ bucket[c].updated \in Nat /\ bucket[c].updated <= today
    /\ admitted \in Seq(Client)
    /\ passed \in Seq(Grant(Tenant)) /\ served \in Seq(Grant(Client))

\* The grants of a client, and the level of its bucket as of `updated`.
Within(grants, c, level, updated) ==
    /\ level <= Burst
    /\ \A n \in DOMAIN grants : grants[n].who = c => grants[n].at <= updated
    /\ \A first \in Nat : first <= updated =>
          Tally(grants, c, first, updated) + level <= Burst + Rate * (updated - first)

ServedInv ==
    \A c \in Client :
        /\ c \notin DOMAIN bucket => \A n \in DOMAIN served : served[n].who # c
        /\ c \in DOMAIN bucket => Within(served, c, bucket[c].level, bucket[c].updated)
        /\ \A first, last \in Nat : first <= last =>
              Tally(served, c, first, last) <= Burst + Rate * (last - first)

\* The grants of a tenant, in a window that begins at `start`.
Windowed(grants, t, start, counted) ==
    /\ counted <= QU!MaxReqs(t)
    /\ \A last \in Nat : Tally(grants, t, start, last) <= counted
    /\ \A first \in Nat : start <= first + Minute => Tally(grants, t, first, start - 1) <= QU!MaxReqs(t)
    /\ \A first, last \in Nat : first <= last /\ last - first <= Minute =>
          Tally(grants, t, first, last) <= 2 * QU!MaxReqs(t)

PassedInv ==
    /\ \A n \in DOMAIN passed : passed[n].at <= lastReset + Minute
    /\ \A t \in Tenant : Windowed(passed, t, lastReset, requests[t])

QuotaInv == QuotaTypes /\ ServedInv /\ PassedInv

LEMMA QuotaConstants ==
    ASSUME QU!QuotasAssumption
    PROVE  Minute \in Nat /\ Rate \in Nat /\ Burst \in Nat /\ \A t \in Tenant : QU!MaxReqs(t) \in Nat
BY DEF QU!QuotasAssumption, QU!MaxReqs

LEMMA LargestQuota ==
    ASSUME QU!QuotasAssumption, NEW t \in Tenant, NEW plan \in PlansOf[t]
    PROVE  QuotaOf[plan] \in Nat /\ QuotaOf[plan] <= QU!MaxReqs(t)
BY DEF QU!QuotasAssumption, QU!MaxReqs

LEMMA GrantAt ==
    ASSUME NEW party, NEW grants \in Seq(Grant(party)), NEW n \in DOMAIN grants
    PROVE  grants[n].at \in Nat
<1>1. grants[n] \in Grant(party)
  BY ElementOfSeq
<1> QED
  BY <1>1 DEF Grant

LEMMA TallyIsNat ==
    ASSUME NEW party, NEW grants \in Seq(Grant(party)), NEW p, NEW first, NEW last
    PROVE  IsFiniteSet(GrantsIn(grants, p, first, last)) /\ Tally(grants, p, first, last) \in Nat
<1>1. GrantsIn(grants, p, first, last) \subseteq 1..Len(grants)
  BY DEF GrantsIn
<1>2. IsFiniteSet(1..Len(grants))
  <2>1. Len(grants) \in Int /\ 1 \in Int
    OBVIOUS
  <2> QED
    BY <2>1, FS_Interval
<1> QED
  BY <1>1, <1>2, FS_Subset, FS_CardinalityType DEF Tally

\* A shorter stretch of time holds no more; and one cut in two no more than its parts.
LEMMA TallyGrows ==
    ASSUME NEW party, NEW grants \in Seq(Grant(party)), NEW p, NEW a \in Int, NEW b \in Int,
           NEW first \in Int, NEW last \in Int, a <= first,
           \A n \in DOMAIN grants : grants[n].who = p /\ grants[n].at \in first..last => grants[n].at <= b
    PROVE  Tally(grants, p, first, last) <= Tally(grants, p, a, b)
<1>1. GrantsIn(grants, p, first, last) \subseteq GrantsIn(grants, p, a, b)
  BY DEF GrantsIn
<1>2. IsFiniteSet(GrantsIn(grants, p, a, b))
  BY TallyIsNat
<1> QED
  BY <1>1, <1>2, FS_Subset DEF Tally

LEMMA TallyParts ==
    ASSUME NEW party, NEW grants \in Seq(Grant(party)), NEW p, NEW first \in Int, NEW cut \in Int, NEW last \in Int
    PROVE  Tally(grants, p, first, last) <= Tally(grants, p, first, cut - 1) + Tally(grants, p, cut, last)
<1> DEFINE A == GrantsIn(grants, p, first, cut - 1)
           B == GrantsIn(grants, p, cut, last)
<1>1. IsFiniteSet(A) /\ IsFiniteSet(B) /\ Cardinality(A) \in Nat /\ Cardinality(B) \in Nat
  BY TallyIsNat DEF Tally
<1>2. GrantsIn(grants, p, first, last) \subseteq A \cup B
  <2>1. \A n \in DOMAIN grants : grants[n].at \in Nat
    BY GrantAt
  <2> QED
    BY <2>1 DEF GrantsIn
<1>3. IsFiniteSet(A \cup B) /\ Cardinality(A \cup B) <= Cardinality(A) + Cardinality(B)
  <2>1. /\ IsFiniteSet(A \cup B)
        /\ Cardinality(A \cup B) = Cardinality(A) + Cardinality(B) - Cardinality(A \cap B)
    BY <1>1, FS_Union
  <2>2. Cardinality(A \cap B) \in Nat
    <3>1. IsFiniteSet(A \cap B)
      BY <1>1, FS_Intersection
    <3> QED
      BY <3>1, FS_CardinalityType
  <2> QED
    BY <1>1, <2>1, <2>2
<1>4. Cardinality(GrantsIn(grants, p, first, last)) <= Cardinality(A \cup B)
  BY <1>2, <1>3, FS_Subset
<1>5. Cardinality(GrantsIn(grants, p, first, last)) \in Nat /\ Cardinality(A \cup B) \in Nat
  BY <1>3, TallyIsNat, FS_CardinalityType DEF Tally
<1> QED
  BY <1>1, <1>3, <1>4, <1>5 DEF Tally

\* A new grant counts once, where it falls.
LEMMA TallyAppend ==
    ASSUME NEW party, NEW grants \in Seq(Grant(party)), NEW q \in party, NEW now1 \in Nat,
           NEW p, NEW first \in Int, NEW last \in Int
    PROVE  LET more == Append(grants, [who |-> q, at |-> now1])
           IN  /\ more \in Seq(Grant(party))
               /\ Tally(more, p, first, last) =
                     IF p = q /\ now1 \in first..last THEN Tally(grants, p, first, last) + 1
                     ELSE Tally(grants, p, first, last)
<1> DEFINE g == [who |-> q, at |-> now1]
           more == Append(grants, g)
           old == GrantsIn(grants, p, first, last)
           end == Len(grants) + 1
<1>1. /\ g \in Grant(party) /\ more \in Seq(Grant(party)) /\ Len(grants) \in Nat
      /\ DOMAIN more = DOMAIN grants \cup {end} /\ end \notin DOMAIN grants /\ more[end] = g
      /\ \A n \in DOMAIN grants : more[n] = grants[n]
  BY DEF Grant
<1>2. end \notin old
  BY <1>1 DEF GrantsIn
<1>3. IsFiniteSet(old) /\ Cardinality(old) \in Nat
  BY TallyIsNat DEF Tally
<1>4. CASE p = q /\ now1 \in first..last
  <2>1. GrantsIn(more, p, first, last) = old \cup {end}
    BY <1>1, <1>4 DEF GrantsIn
  <2>2. Cardinality(old \cup {end}) = Cardinality(old) + 1
    BY <1>2, <1>3, FS_AddElement
  <2> QED
    BY <1>1, <1>4, <2>1, <2>2 DEF Tally
<1>5. CASE ~(p = q /\ now1 \in first..last)
  <2>1. GrantsIn(more, p, first, last) = old
    BY <1>1, <1>5 DEF GrantsIn
  <2> QED
    BY <1>1, <1>5, <2>1 DEF Tally
<1> QED
  BY <1>4, <1>5

\* A stretch without grants tallies nothing.
LEMMA TallyNone ==
    ASSUME NEW grants, NEW p, NEW first, NEW last,
           \A n \in DOMAIN grants : ~(grants[n].who = p /\ grants[n].at \in first..last)
    PROVE  Tally(grants, p, first, last) = 0
<1>1. GrantsIn(grants, p, first, last) = {}
  BY DEF GrantsIn
<1> QED
  BY <1>1, FS_EmptySet DEF Tally

\* The bucket of a client as a request of it finds it: refilled, and not above Burst.
LEMMA Refilled ==
    ASSUME QU!QuotasAssumption, QuotaTypes, ServedInv, NEW c \in Client
    PROVE  /\ QU!Level(c) \in Nat /\ QU!Level(c) <= Burst
           /\ \A first \in Nat : first <= today =>
                 Tally(served, c, first, today) + QU!Level(c) <= Burst + Rate * (today - first)
           /\ \A first, last \in Nat : first <= today /\ today <= last =>
                 Tally(served, c, first, last) + QU!Level(c) <= Burst + Rate * (last - first)
<1>0. Rate \in Nat /\ Burst \in Nat /\ today \in Nat
  BY QuotaConstants DEF QuotaTypes
<1>1. \A first \in Nat, last \in Nat : Tally(served, c, first, last) \in Nat
  BY TallyIsNat DEF QuotaTypes
<1>2. CASE c \notin DOMAIN bucket
  <2>1. QU!Level(c) = Burst
    BY <1>2 DEF QU!Level
  <2>2. ASSUME NEW first \in Nat, NEW last \in Nat, first <= last
        PROVE  Tally(served, c, first, last) = 0 /\ Rate * (last - first) >= 0
    <3>1. Tally(served, c, first, last) = 0
      BY <1>2, TallyNone DEF ServedInv
    <3>2. last - first \in Nat
      BY <2>2
    <3> QED
      BY <1>0, <3>1, <3>2
  <2>3. \A first \in Nat, last \in Nat : first <= last =>
            Tally(served, c, first, last) = 0 /\ Rate * (last - first) >= 0 /\ Rate * (last - first) \in Int
    BY <1>0, <2>2
  <2> QED
    BY <1>0, <2>1, <2>3
<1>3. CASE c \in DOMAIN bucket
  <2>0. PICK level \in Nat, upd \in Nat : level = bucket[c].level /\ upd = bucket[c].updated /\ upd <= today
    BY <1>3 DEF QuotaTypes
  <2>1. Within(served, c, level, upd)
    BY <1>3, <2>0 DEF ServedInv
  <2> DEFINE flow == Rate * (today - upd)
  <2>2. flow \in Nat
    <3>1. today - upd \in Nat
      BY <1>0, <2>0
    <3> QED
      BY <1>0, <3>1
  <2>3. /\ QU!Level(c) \in Nat /\ QU!Level(c) <= Burst /\ QU!Level(c) <= level + flow
    <3>1. QU!Level(c) = IF level + flow > Burst THEN Burst ELSE level + flow
      BY <1>3, <2>0 DEF QU!Level
    <3> QED
      BY <1>0, <2>0, <2>2, <3>1
  <2>4. ASSUME NEW first \in Nat, NEW last \in Nat, first <= today, today <= last
        PROVE  Tally(served, c, first, last) + QU!Level(c) <= Burst + Rate * (last - first)
    <3>1. CASE first <= upd
      <4>1. Tally(served, c, first, last) <= Tally(served, c, first, upd)
        <5>1. served \in Seq(Grant(Client))
          BY DEF QuotaTypes
        <5>2. \A n \in DOMAIN served : served[n].who = c /\ served[n].at \in first..last => served[n].at <= upd
          BY <2>1 DEF Within
        <5> QED
          BY <2>0, <5>1, <5>2, TallyGrows
      <4>2. Tally(served, c, first, upd) + level <= Burst + Rate * (upd - first)
        BY <2>1, <3>1 DEF Within
      <4>3. Rate * (upd - first) + flow = Rate * (today - first) /\ Rate * (upd - first) \in Int
        BY <1>0, <2>0
      <4>4. Rate * (today - first) <= Rate * (last - first) /\ Rate * (today - first) \in Int
            /\ Rate * (last - first) \in Int
        <5>1. last - today \in Nat
          BY <1>0, <2>4
        <5>2. Rate * (last - today) >= 0
          BY <1>0, <5>1
        <5>3. Rate * (last - first) = Rate * (today - first) + Rate * (last - today)
          BY <1>0
        <5> QED
          BY <1>0, <5>2, <5>3
      <4>5. Tally(served, c, first, upd) \in Nat /\ Tally(served, c, first, last) \in Nat
        BY <1>1, <2>0
      <4>6. PICK more \in Nat, x \in Int, y \in Int, z \in Int :
                more = flow /\ x = Rate * (upd - first) /\ y = Rate * (today - first) /\ z = Rate * (last - first)
        BY <2>2, <4>3, <4>4
      <4>7. /\ Tally(served, c, first, upd) + level <= Burst + x /\ x + more = y /\ y <= z
            /\ QU!Level(c) <= level + more
        BY <2>3, <4>2, <4>3, <4>4, <4>6
      <4>8. Tally(served, c, first, last) + QU!Level(c) <= Burst + z
        <5>1. PICK small \in Nat, wide \in Nat, found \in Nat :
                  small = Tally(served, c, first, upd) /\ wide = Tally(served, c, first, last) /\ found = QU!Level(c)
          BY <2>3, <4>5
        <5>2. wide <= small /\ small + level <= Burst + x /\ x + more = y /\ y <= z /\ found <= level + more
          BY <4>1, <4>7, <5>1
        <5>3. wide + found <= Burst + z
          BY <1>0, <5>2
        <5> QED
          BY <5>1, <5>3
      <4> QED
        BY <4>6, <4>8
    <3>2. CASE first > upd
      <4>1. Tally(served, c, first, last) = 0
        <5>1. \A n \in DOMAIN served : served[n].who = c => served[n].at <= upd
          BY <2>1 DEF Within
        <5>2. \A n \in DOMAIN served : served[n].at \in Nat
          BY GrantAt DEF QuotaTypes
        <5>3. \A n \in DOMAIN served : ~(served[n].who = c /\ served[n].at \in first..last)
          BY <2>0, <3>2, <5>1, <5>2
        <5> QED
          BY <5>3, TallyNone
      <4>2. Rate * (last - first) >= 0 /\ Rate * (last - first) \in Int
        <5>1. last - first \in Nat
          BY <1>0, <2>4
        <5> QED
          BY <1>0, <5>1
      <4> QED
        BY <1>0, <2>3, <4>1, <4>2
    <3> QED
      BY <2>0, <3>1, <3>2
  <2> QED
    BY <1>0, <2>3, <2>4
<1> QED
  BY <1>2, <1>3

\* A request takes a token if there is one.
LEMMA AskBucketKeeps ==
    ASSUME QU!QuotasAssumption, QuotaTypes, ServedInv, NEW n \in 1..Len(admitted), QU!AskBucket(n)
    PROVE  QuotaTypes' /\ ServedInv'
<1>0. /\ Rate \in Nat /\ Burst \in Nat /\ today \in Nat /\ served \in Seq(Grant(Client))
      /\ admitted[n] \in Client
  BY QuotaConstants DEF QuotaTypes
<1>1. PICK client \in Client, level \in Nat, rest \in Nat :
          /\ client = admitted[n] /\ level = QU!Level(client) /\ level <= Burst
          /\ rest = (IF level >= 1 THEN level - 1 ELSE level)
  <2>1. QU!Level(admitted[n]) \in Nat /\ QU!Level(admitted[n]) <= Burst
    BY <1>0, Refilled
  <2>2. (IF QU!Level(admitted[n]) >= 1 THEN QU!Level(admitted[n]) - 1 ELSE QU!Level(admitted[n])) \in Nat
    BY <2>1
  <2> QED
    BY <1>0, <2>1, <2>2
<1>2. /\ bucket' = [c \in DOMAIN bucket \cup {client} |->
                       IF c = client THEN [level |-> rest, updated |-> today] ELSE bucket[c]]
      /\ served' = IF level >= 1 THEN Append(served, [who |-> client, at |-> today]) ELSE served
      /\ admitted' = SubSeq(admitted, 1, n - 1) \o SubSeq(admitted, n + 1, Len(admitted))
      /\ UNCHANGED <<today, requests, lastReset, passed, asked>>
  BY <1>1 DEF QU!AskBucket
<1>3. served' \in Seq(Grant(Client))
  <2>1. [who |-> client, at |-> today] \in Grant(Client)
    BY <1>0 DEF Grant
  <2> QED
    BY <1>0, <1>2, <2>1
<1>4. /\ DOMAIN bucket' = DOMAIN bucket \cup {client}
      /\ bucket'[client].level = rest /\ bucket'[client].updated = today
      /\ \A c \in DOMAIN bucket \ {client} : bucket'[c] = bucket[c]
  BY <1>2
<1>5. QuotaTypes'
  <2>1. admitted' \in Seq(Client)
    <3>1. admitted \in Seq(Client) /\ Len(admitted) \in Nat
      BY DEF QuotaTypes
    <3>2. SubSeq(admitted, 1, n - 1) \in Seq(Client) /\ SubSeq(admitted, n + 1, Len(admitted)) \in Seq(Client)
      BY <3>1
    <3> QED
      BY <1>2, <3>2
  <2>2. \A c \in DOMAIN bucket' : bucket'[c].level \in Nat /\ bucket'[c].updated \in Nat /\ bucket'[c].updated <= today
    BY <1>0, <1>1, <1>4 DEF QuotaTypes
  <2> QED
    BY <1>1, <1>2, <1>3, <1>4, <2>1, <2>2 DEF QuotaTypes
<1>6. \A c \in Client, first \in Nat, last \in Nat :
          Tally(served', c, first, last) =
             IF level >= 1 /\ c = client /\ today \in first..last THEN Tally(served, c, first, last) + 1
             ELSE Tally(served, c, first, last)
  BY <1>0, <1>2, TallyAppend
<1>7. \A c \in Client, first \in Nat, last \in Nat : Tally(served, c, first, last) \in Nat
  BY <1>0, TallyIsNat
<1>8. \A k \in DOMAIN served' : \/ k \in DOMAIN served /\ served'[k] = served[k]
                                \/ level >= 1 /\ served'[k] = [who |-> client, at |-> today]
  BY <1>0, <1>2
<1>9. ServedInv'
  <2> SUFFICES ASSUME NEW c \in Client
               PROVE  /\ c \notin DOMAIN bucket' => \A k \in DOMAIN served' : served'[k].who # c
                      /\ c \in DOMAIN bucket' => Within(served', c, bucket'[c].level, bucket'[c].updated)
                      /\ \A first, last \in Nat : first <= last =>
                            Tally(served', c, first, last) <= Burst + Rate * (last - first)
    BY DEF ServedInv, Within
  <2>1. CASE c # client
    <3>1. c \in DOMAIN bucket' <=> c \in DOMAIN bucket
      BY <1>4, <2>1
    <3>2. c \notin DOMAIN bucket' => \A k \in DOMAIN served' : served'[k].who # c
      BY <1>8, <2>1, <3>1 DEF ServedInv
    <3>3. \A first, last \in Nat : first <= last => Tally(served', c, first, last) <= Burst + Rate * (last - first)
      BY <1>6, <2>1 DEF ServedInv
    <3>4. ASSUME c \in DOMAIN bucket' PROVE Within(served', c, bucket'[c].level, bucket'[c].updated)
      <4>1. /\ Within(served, c, bucket[c].level, bucket[c].updated) /\ bucket'[c] = bucket[c]
            /\ bucket[c].updated \in Nat
        BY <1>4, <2>1, <3>1, <3>4 DEF ServedInv, QuotaTypes
      <4> QED
        BY <1>6, <1>8, <2>1, <4>1 DEF Within
    <3> QED
      BY <3>2, <3>3, <3>4
  <2>2. CASE c = client
    <3>1. c \in DOMAIN bucket' /\ bucket'[c].level = rest /\ bucket'[c].updated = today
      BY <1>4, <2>2
    <3>2. /\ \A first \in Nat : first <= today =>
                Tally(served, c, first, today) + level <= Burst + Rate * (today - first)
          /\ \A first, last \in Nat : first <= today /\ today <= last =>
                Tally(served, c, first, last) + level <= Burst + Rate * (last - first)
      BY <1>1, <2>2, Refilled
    <3>3. Within(served', c, rest, today)
      <4>1. rest <= Burst
        BY <1>0, <1>1
      <4>2. \A k \in DOMAIN served' : served'[k].who = c => served'[k].at <= today
        <5>1. ASSUME NEW k \in DOMAIN served, served[k].who = c PROVE served[k].at <= today
          <6>1. /\ c \in DOMAIN bucket /\ served[k].at <= bucket[c].updated
                /\ bucket[c].updated \in Nat /\ bucket[c].updated <= today
            BY <5>1 DEF ServedInv, Within, QuotaTypes
          <6>2. served[k].at \in Nat
            BY <1>0, GrantAt
          <6> QED
            BY <1>0, <6>1, <6>2
        <5> QED
          BY <1>0, <1>8, <5>1
      <4>3. ASSUME NEW first \in Nat, first <= today
            PROVE  Tally(served', c, first, today) + rest <= Burst + Rate * (today - first)
        <5>1. Tally(served, c, first, today) + level <= Burst + Rate * (today - first)
          BY <3>2, <4>3
        <5>2. today \in first..today
          BY <1>0, <4>3
        <5>3. Tally(served', c, first, today) = IF level >= 1 THEN Tally(served, c, first, today) + 1
                                                ELSE Tally(served, c, first, today)
          BY <1>0, <1>6, <2>2, <5>2
        <5>4. Tally(served, c, first, today) \in Nat /\ today - first \in Nat
          <6>1. Tally(served, c, first, today) \in Nat
            BY <1>0, <1>7
          <6>2. today - first \in Nat
            BY <1>0, <4>3
          <6> QED
            BY <6>1, <6>2
        <5>5. PICK x \in Int : x = Rate * (today - first)
          BY <1>0, <5>4
        <5> QED
          BY <1>0, <1>1, <5>1, <5>3, <5>4, <5>5
      <4> QED
        BY <4>1, <4>2, <4>3 DEF Within
    <3>4. ASSUME NEW first \in Nat, NEW last \in Nat, first <= last
          PROVE  Tally(served', c, first, last) <= Burst + Rate * (last - first)
      <4>1. CASE level >= 1 /\ today \in first..last
        <5>1. Tally(served, c, first, last) + level <= Burst + Rate * (last - first)
          BY <1>0, <3>2, <4>1
        <5>2. Tally(served', c, first, last) = Tally(served, c, first, last) + 1
          BY <1>6, <2>2, <4>1
        <5>3. Tally(served, c, first, last) \in Nat /\ last - first \in Nat
          <6>1. Tally(served, c, first, last) \in Nat
            BY <1>7
          <6>2. last - first \in Nat
            BY <3>4
          <6> QED
            BY <6>1, <6>2
        <5>4. PICK x \in Int, n1 \in Nat : x = Rate * (last - first) /\ n1 = Tally(served, c, first, last)
          BY <1>0, <5>3
        <5>5. n1 + level <= Burst + x
          BY <5>1, <5>4
        <5>6. n1 + 1 <= Burst + x
          BY <1>0, <4>1, <5>5
        <5> QED
          BY <5>2, <5>4, <5>6
      <4>2. CASE ~(level >= 1 /\ today \in first..last)
        <5>1. Tally(served', c, first, last) = Tally(served, c, first, last)
          BY <1>6, <4>2
        <5> QED
          BY <3>4, <5>1 DEF ServedInv
      <4> QED
        BY <4>1, <4>2
    <3> QED
      BY <3>1, <3>3, <3>4
  <2> QED
    BY <2>1, <2>2
<1> QED
  BY <1>5, <1>9

\* A window that begins where the last one has run out: a minute that reaches back
\* before it reaches back into that one only.
LEMMA WindowBegins ==
    ASSUME NEW grants \in Seq(Grant(Tenant)), NEW t \in Tenant, NEW start \in Nat, NEW counted \in Nat,
           NEW now1 \in Nat, QU!MaxReqs(t) \in Nat, Minute \in Nat, now1 > start + Minute,
           \A n \in DOMAIN grants : grants[n].at <= start + Minute,
           Windowed(grants, t, start, counted)
    PROVE  Windowed(grants, t, now1, 0)
<1>1. \A last \in Nat : Tally(grants, t, now1, last) <= 0
  <2> SUFFICES ASSUME NEW last \in Nat PROVE Tally(grants, t, now1, last) = 0
    OBVIOUS
  <2>1. \A n \in DOMAIN grants : grants[n].at \in Nat
    BY GrantAt
  <2>2. \A n \in DOMAIN grants : ~(grants[n].who = t /\ grants[n].at \in now1..last)
    BY <2>1
  <2> QED
    BY <2>2, TallyNone
<1>2. ASSUME NEW first \in Nat, now1 <= first + Minute
      PROVE  Tally(grants, t, first, now1 - 1) <= QU!MaxReqs(t)
  <2>1. start <= first /\ now1 - 1 \in Nat
    BY <1>2
  <2>2. Tally(grants, t, first, now1 - 1) <= Tally(grants, t, start, now1 - 1)
    BY <2>1, TallyGrows
  <2>3. Tally(grants, t, start, now1 - 1) <= counted /\ counted <= QU!MaxReqs(t)
    BY <2>1 DEF Windowed
  <2>4. Tally(grants, t, first, now1 - 1) \in Nat /\ Tally(grants, t, start, now1 - 1) \in Nat
    BY TallyIsNat
  <2> QED
    BY <2>2, <2>3, <2>4
<1> QED
  BY <1>1, <1>2 DEF Windowed

\* A grant within a window that is not full.
LEMMA WindowFills ==
    ASSUME NEW grants \in Seq(Grant(Tenant)), NEW t \in Tenant, NEW start \in Nat, NEW counted \in Nat,
           NEW now1 \in Nat, NEW q \in Tenant, NEW quota \in Nat, quota = QU!MaxReqs(t), Minute \in Nat,
           start <= now1, t = q => counted < quota,
           Windowed(grants, t, start, counted)
    PROVE  Windowed(Append(grants, [who |-> q, at |-> now1]), t, start, IF t = q THEN counted + 1 ELSE counted)
<1> DEFINE more == Append(grants, [who |-> q, at |-> now1])
<1>1. \A first, last \in Int :
          Tally(more, t, first, last) =
             IF t = q /\ now1 \in first..last THEN Tally(grants, t, first, last) + 1
             ELSE Tally(grants, t, first, last)
  BY TallyAppend
<1>2. \A first, last \in Int : Tally(grants, t, first, last) \in Nat
  BY TallyIsNat
<1>3. CASE t # q
  <2>1. \A first, last \in Int : Tally(more, t, first, last) = Tally(grants, t, first, last)
    BY <1>1, <1>3
  <2>2. start - 1 \in Int /\ Nat \subseteq Int
    OBVIOUS
  <2> HIDE DEF more
  <2>3. Windowed(more, t, start, counted)
    BY <2>1, <2>2 DEF Windowed
  <2> QED
    BY <1>3, <2>3 DEF more
<1>4. CASE t = q
  <2>1. \A last \in Nat : Tally(more, t, start, last) <= counted + 1
    <3> TAKE last \in Nat
    <3>1. Tally(grants, t, start, last) <= counted /\ Tally(grants, t, start, last) \in Nat
      <4>1. Tally(grants, t, start, last) <= counted
        BY DEF Windowed
      <4>2. Tally(grants, t, start, last) \in Nat
        BY TallyIsNat
      <4> QED
        BY <4>1, <4>2
    <3>2. Tally(more, t, start, last) \in {Tally(grants, t, start, last), Tally(grants, t, start, last) + 1}
      BY <1>1
    <3> QED
      BY <3>1, <3>2
  <2>2. ASSUME NEW first \in Nat, start <= first + Minute
        PROVE  Tally(more, t, first, start - 1) <= quota
    <3>1. now1 \notin first..(start - 1) /\ start - 1 \in Int
      OBVIOUS
    <3>2. Tally(more, t, first, start - 1) = Tally(grants, t, first, start - 1)
      BY <1>1, <3>1
    <3> QED
      BY <2>2, <3>2 DEF Windowed
  <2>3. ASSUME NEW first \in Nat, NEW last \in Nat, first <= last, last - first <= Minute
        PROVE  Tally(more, t, first, last) <= 2 * quota
    <3>1. CASE now1 \notin first..last
      <4>1. Tally(more, t, first, last) = Tally(grants, t, first, last)
        BY <1>1, <3>1
      <4> QED
        BY <2>3, <4>1 DEF Windowed
    <3>2. CASE now1 \in first..last
      <4>1. Tally(more, t, first, last) = Tally(grants, t, first, last) + 1
        BY <1>1, <1>4, <3>2
      <4>2. Tally(grants, t, start, last) <= counted
        BY DEF Windowed
      <4>3. PICK all \in Nat, late \in Nat, early \in Nat :
                /\ all = Tally(grants, t, first, last) /\ late = Tally(grants, t, start, last)
                /\ early = Tally(grants, t, first, start - 1)
        <5>1. start - 1 \in Int /\ first \in Int /\ last \in Int /\ start \in Int
          OBVIOUS
        <5> QED
          BY <1>2, <5>1
      <4>4. CASE start <= first
        <5>1. Tally(grants, t, first, last) <= Tally(grants, t, start, last)
          BY <4>4, TallyGrows
        <5>2. all <= late /\ late <= counted /\ counted < quota
          BY <1>4, <4>2, <4>3, <5>1
        <5>3. all + 1 <= 2 * quota
          BY <5>2
        <5> QED
          BY <4>1, <4>3, <5>3
      <4>5. CASE first < start
        <5>1. Tally(grants, t, first, last) <= Tally(grants, t, first, start - 1) + Tally(grants, t, start, last)
          BY TallyParts
        <5>2. start <= first + Minute
          BY <2>3, <3>2
        <5>3. Tally(grants, t, first, start - 1) <= quota
          BY <5>2 DEF Windowed
        <5>4. all <= early + late /\ early <= quota /\ late <= counted /\ counted < quota
          BY <1>4, <4>2, <4>3, <5>1, <5>3
        <5>5. all + 1 <= 2 * quota
          BY <5>4
        <5> QED
          BY <4>1, <4>3, <5>5
      <4> QED
        BY <4>4, <4>5
    <3> QED
      BY <3>1, <3>2
  <2>4. counted + 1 <= quota
    BY <1>4
  <2> HIDE DEF more
  <2>5. Windowed(more, t, start, counted + 1)
    BY <2>1, <2>2, <2>3, <2>4 DEF Windowed
  <2> QED
    BY <1>4, <2>5 DEF more
<1> QED
  BY <1>3, <1>4

\* A request of a tenant: refused, or counted in the window that is open now.
LEMMA AskTenantKeeps ==
    ASSUME QU!QuotasAssumption, QuotaTypes, PassedInv,
           NEW tenant \in Tenant, NEW plan, NEW client \in Client, QU!AskTenant(tenant, plan, client)
    PROVE  QuotaTypes' /\ PassedInv'
<1>0. /\ Minute \in Nat /\ today \in Nat /\ lastReset \in Nat /\ lastReset <= today
      /\ passed \in Seq(Grant(Tenant)) /\ requests \in [Tenant -> Nat] /\ admitted \in Seq(Client)
      /\ \A t \in Tenant : QU!MaxReqs(t) \in Nat
  BY QuotaConstants DEF QuotaTypes
<1>1. PICK counts \in [Tenant -> Nat], start \in Nat :
          /\ counts = QU!Counts /\ start = (IF QU!Expired THEN today ELSE lastReset)
          /\ start <= today /\ today <= start + Minute
          /\ \A n \in DOMAIN passed : passed[n].at <= start + Minute
          /\ \A t \in Tenant : Windowed(passed, t, start, counts[t])
  <2>1. CASE QU!Expired
    <3>1. today > lastReset + Minute
      BY <1>0, <2>1 DEF QU!Expired
    <3>2. QU!Counts = [t \in Tenant |-> 0]
      BY <2>1 DEF QU!Counts
    <3>3. \A n \in DOMAIN passed : passed[n].at <= today + Minute
      <4>1. \A n \in DOMAIN passed : passed[n].at \in Nat
        BY <1>0, GrantAt
      <4>2. \A n \in DOMAIN passed : passed[n].at <= lastReset + Minute
        BY DEF PassedInv
      <4> QED
        BY <1>0, <4>1, <4>2
    <3>4. ASSUME NEW t \in Tenant PROVE Windowed(passed, t, today, 0)
      <4>1. Windowed(passed, t, lastReset, requests[t]) /\ requests[t] \in Nat /\ QU!MaxReqs(t) \in Nat
        BY <1>0 DEF PassedInv
      <4>2. \A n \in DOMAIN passed : passed[n].at <= lastReset + Minute
        BY DEF PassedInv
      <4> QED
        BY <1>0, <3>1, <4>1, <4>2, WindowBegins
    <3>5. \A t \in Tenant : Windowed(passed, t, today, [x \in Tenant |-> 0][t])
      BY <3>4
    <3>6. [t \in Tenant |-> 0] \in [Tenant -> Nat] /\ today <= today + Minute
      BY <1>0
    <3>7. \A t \in Tenant : Windowed(passed, t, today, QU!Counts[t])
      BY <3>2, <3>5
    <3>8. QU!Counts \in [Tenant -> Nat]
      BY <3>2, <3>6
    <3> QED
      BY <1>0, <2>1, <3>3, <3>6, <3>7, <3>8
  <2>2. CASE ~QU!Expired
    <3>1. today <= lastReset + Minute
      BY <1>0, <2>2 DEF QU!Expired
    <3>2. QU!Counts = requests
      BY <2>2 DEF QU!Counts
    <3> QED
      BY <1>0, <2>2, <3>1, <3>2 DEF PassedInv
  <2> QED
    BY <2>1, <2>2
<1>2. lastReset' = start /\ UNCHANGED <<today, bucket, served>>
  BY <1>1 DEF QU!AskTenant
<1> PICK most \in Nat : most = QuotaOf[plan] /\ most <= QU!MaxReqs(tenant)
  <2>1. plan \in PlansOf[tenant]
    BY DEF QU!AskTenant
  <2> QED
    BY <2>1, LargestQuota
<1>3. CASE counts[tenant] >= most
  <2>1. requests' = counts /\ UNCHANGED <<admitted, passed>>
    BY <1>1, <1>3 DEF QU!AskTenant
  <2> QED
    BY <1>0, <1>1, <1>2, <2>1 DEF QuotaTypes, PassedInv, Windowed
<1>4. CASE ~(counts[tenant] >= most)
  <2>1. /\ requests' = [counts EXCEPT ![tenant] = @ + 1]
        /\ passed' = Append(passed, [who |-> tenant, at |-> today])
        /\ admitted' = Append(admitted, client)
    BY <1>1, <1>4 DEF QU!AskTenant
  <2>2. [who |-> tenant, at |-> today] \in Grant(Tenant)
    BY <1>0 DEF Grant
  <2>3. QuotaTypes'
    <3>1. requests' \in [Tenant -> Nat]
      BY <1>1, <2>1
    <3>2. passed' \in Seq(Grant(Tenant)) /\ admitted' \in Seq(Client)
      BY <1>0, <2>1, <2>2
    <3> QED
      BY <1>1, <1>2, <3>1, <3>2 DEF QuotaTypes
  <2>4. \A n \in DOMAIN passed' : passed'[n].at <= start + Minute
    <3>1. \A n \in DOMAIN passed' : \/ n \in DOMAIN passed /\ passed'[n] = passed[n]
                                    \/ passed'[n] = [who |-> tenant, at |-> today]
      BY <1>0, <2>1
    <3> QED
      BY <1>1, <3>1
  <2>5. ASSUME NEW t \in Tenant PROVE Windowed(passed', t, start, requests'[t])
    <3>1. counts[t] \in Nat /\ counts[tenant] \in Nat /\ QU!MaxReqs(t) \in Nat /\ QU!MaxReqs(tenant) \in Nat
      BY <1>0, <1>1
    <3>2. t = tenant => counts[t] < QU!MaxReqs(t)
      BY <1>4, <3>1
    <3>3. Windowed(passed, t, start, counts[t])
      BY <1>1
    <3>4. PICK quota \in Nat : quota = QU!MaxReqs(t)
      BY <3>1
    <3>5. t = tenant => counts[t] < quota
      BY <3>2, <3>4
    <3>6. Windowed(Append(passed, [who |-> tenant, at |-> today]), t, start,
                   IF t = tenant THEN counts[t] + 1 ELSE counts[t])
      BY <1>0, <1>1, <3>1, <3>3, <3>4, <3>5, WindowFills
    <3>7. requests'[t] = (IF t = tenant THEN counts[t] + 1 ELSE counts[t])
      BY <1>1, <2>1
    <3> QED
      BY <2>1, <3>6, <3>7
  <2>6. PassedInv'
    BY <1>2, <2>4, <2>5 DEF PassedInv, Windowed
  <2> QED
    BY <2>3, <2>6
<1> QED
  BY <1>3, <1>4

LEMMA QuotaStarts ==
    ASSUME QU!QuotasAssumption, QU!Init
    PROVE  QuotaInv
<1>0. Rate \in Nat /\ Burst \in Nat /\ Minute \in Nat /\ \A t \in Tenant : QU!MaxReqs(t) \in Nat
  BY QuotaConstants
<1>1. QuotaTypes
  BY DEF QU!Init, QuotaTypes
<1>2. DOMAIN passed = {} /\ DOMAIN served = {} /\ DOMAIN bucket = {} /\ lastReset = 0 /\ requests = [t \in Tenant |-> 0]
  BY DEF QU!Init
<1>3. \A p, first, last : Tally(passed, p, first, last) = 0 /\ Tally(served, p, first, last) = 0
  BY <1>2, TallyNone
<1>4. ServedInv
  <2>1. ASSUME NEW first \in Nat, NEW last \in Nat, first <= last
        PROVE  0 <= Burst + Rate * (last - first)
    <3>1. last - first \in Nat
      BY <2>1
    <3>2. Rate * (last - first) \in Nat
      BY <1>0, <3>1
    <3> QED
      BY <1>0, <3>2
  <2> QED
    BY <1>2, <1>3, <2>1 DEF ServedInv
<1>5. PassedInv
  <2> SUFFICES ASSUME NEW t \in Tenant PROVE Windowed(passed, t, 0, 0)
    BY <1>2 DEF PassedInv
  <2> QED
    BY <1>0, <1>3 DEF Windowed
<1> QED
  BY <1>1, <1>4, <1>5 DEF QuotaInv

LEMMA QuotaStep ==
    ASSUME QU!QuotasAssumption, QuotaInv, [QU!Next]_quVars
    PROVE  QuotaInv'
<1> USE DEF QuotaInv
<1>1. CASE QU!Tick
  <2>1. today \in Nat /\ today' = today + 1 /\ UNCHANGED <<requests, lastReset, bucket, admitted, passed, served>>
    BY <1>1 DEF QU!Tick, QuotaTypes
  <2>2. QuotaTypes'
    BY <2>1 DEF QuotaTypes
  <2> QED
    BY <2>1, <2>2 DEF ServedInv, PassedInv, Within, Windowed, Tally, GrantsIn
<1>2. ASSUME NEW tenant \in Tenant, NEW plan, NEW client \in Client, QU!AskTenant(tenant, plan, client)
      PROVE  QuotaInv'
  <2>1. QuotaTypes' /\ PassedInv'
    BY <1>2, AskTenantKeeps
  <2>2. UNCHANGED <<bucket, served>>
    BY <1>2 DEF QU!AskTenant
  <2> QED
    BY <2>1, <2>2 DEF ServedInv, Within, Tally, GrantsIn
<1>3. ASSUME NEW n \in 1..Len(admitted), QU!AskBucket(n)
      PROVE  QuotaInv'
  <2>1. QuotaTypes' /\ ServedInv'
    BY <1>3, AskBucketKeeps
  <2>2. UNCHANGED <<requests, lastReset, passed>>
    BY <1>3 DEF QU!AskBucket
  <2>3. PassedInv'
    BY <2>2 DEF PassedInv, Windowed
  <2> QED
    BY <2>1, <2>3
<1>4. CASE UNCHANGED quVars
  <2>1. UNCHANGED <<today, requests, lastReset, bucket, admitted, passed, served>>
    BY <1>4 DEF quVars
  <2>2. QuotaTypes'
    BY <2>1 DEF QuotaTypes
  <2>3. ServedInv'
    BY <2>1 DEF ServedInv, Within, Tally, GrantsIn
  <2>4. PassedInv'
    BY <2>1 DEF PassedInv, Windowed
  <2> QED
    BY <2>2, <2>3, <2>4
<1> QED
  BY <1>1, <1>2, <1>3, <1>4 DEF QU!Next

LEMMA QuotaBounds ==
    ASSUME QuotaInv
    PROVE  GrantsAreBounded
<1>1. \A grants, who, first, last : QU!Granted(grants, who, first, last) = Tally(grants, who, first, last)
  <2>1. \A S : QU!Cardinality(S) = Cardinality(S)
    BY Zenon DEF QU!Cardinality, Cardinality
  <2> QED
    BY <2>1 DEF QU!Granted, Tally, GrantsIn
<1> SUFFICES ASSUME NEW first \in 0..today, NEW last \in 0..today, first <= last
             PROVE  /\ \A c \in Client : QU!Granted(served, c, first, last) <= Burst + Rate * (last - first)
                    /\ last - first <= Minute =>
                          \A t \in Tenant : QU!Granted(passed, t, first, last) <= 2 * QU!MaxReqs(t)
  BY DEF GrantsAreBounded, QU!GrantsAreBounded
<1>2. first \in Nat /\ last \in Nat
  BY DEF QuotaInv, QuotaTypes
<1>3. \A c \in Client : Tally(served, c, first, last) <= Burst + Rate * (last - first)
  BY <1>2 DEF QuotaInv, ServedInv
<1>4. ASSUME last - first <= Minute, NEW t \in Tenant
      PROVE  Tally(passed, t, first, last) <= 2 * QU!MaxReqs(t)
  <2>1. Windowed(passed, t, lastReset, requests[t])
    BY DEF QuotaInv, PassedInv
  <2> QED
    BY <1>2, <1>4, <2>1 DEF Windowed
<1> QED
  BY <1>1, <1>3, <1>4

\* GrantsAreBounded of Quotas: whatever the order in which requests of several
\* connections reach the two limiters, a client is served no more in a stretch of
\* time than a full bucket and what flows in, and a tenant passes no more than twice
\* the largest quota its tokens claim in a minute (ratelimit.go:27-44, tenant.go:125-147).
THEOREM GrantsStayBounded ==
    ASSUME QU!QuotasAssumption
    PROVE  PartsSpec => []GrantsAreBounded
<1>1. PartsInit => QuotaInv
  BY QuotaStarts DEF PartsInit
<1>2. QuotaInv /\ [PartsNext]_partVars => QuotaInv'
  BY PartSteps, QuotaStep
<1>3. QuotaInv => GrantsAreBounded
  BY QuotaBounds
<1> QED
  BY <1>1, <1>2, <1>3, PTL DEF PartsSpec

-----------------------------------------------------------------------------
(* Chunking: the buffer is the lines from startLine up to the current one, behind *)
(* at most one blank line that flush could not clear; every line that was passed  *)
(* is in it or in a chunk, or is blank, or was swallowed behind a blank one.      *)

LEMMA SameMax == \A S : CK!Max(S) = Max(S)
BY Zenon DEF CK!Max, Max

\* Context, as an operator of the text.
ReadIn(text, context, n) ==
    LET line == text[n]
    IN  IF n = 1 /\ line.kind = "rule" THEN [context EXCEPT !.front = TRUE]
        ELSE IF context.front THEN [context EXCEPT !.front = line.kind # "rule"]
        ELSE IF line.kind = "fence" THEN [context EXCEPT !.code = ~@]
        ELSE IF line.kind = "heading" /\ ~context.code
        THEN [context EXCEPT !.stack = CK!Under(@, line.level, n)]
        ELSE context
NoContext == [stack |-> IF Titled THEN <<0>> ELSE << >>, front |-> FALSE, code |-> FALSE]
Reads(text, n, f) ==
    LET seq == [k \in 1..n |-> k]
    IN  f = [s \in SUBSET DOMAIN seq |->
               IF s = {} THEN NoContext ELSE ReadIn(text, f[s \ {CK!Max(s)}], seq[CK!Max(s)])]
ContextIn(text, n) == (CHOOSE f : Reads(text, n, f))[DOMAIN [k \in 1..n |-> k]].stack

LEMMA ContextIs ==
    ASSUME NEW n
    PROVE  CK!Context(n) = ContextIn(lines, n)
BY DEF CK!Context, CK!FoldLeft, CK!MapThenFoldSet, CK!ReadLine, ContextIn, Reads, ReadIn, NoContext

LEMMA ContextStays ==
    ASSUME NEW n, lines' = lines
    PROVE  CK!Context(n)' = CK!Context(n)
<1>1. CK!Context(n)' = ContextIn(lines', n)
  BY DEF CK!Context, CK!FoldLeft, CK!MapThenFoldSet, CK!ReadLine, ContextIn, Reads, ReadIn, NoContext
<1> QED
  BY <1>1, ContextIs

Chunk == [first : Nat, last : Nat, part : Nat, lines : Seq(Nat), breadcrumb : Seq(Int)]

\* Whether the chunks hold the line, and whether the text lets it be swallowed.
HeldIn(cs, n) == \E c \in 1..Len(cs) : \E k \in 1..Len(cs[c].lines) : cs[c].lines[k] = n
TooLong(text, n) == CK!Tokens(text[n].length) >= MaxTokens
SwallowedIn(text, n) ==
    TooLong(text, n) /\ \E b \in 1..(n - 1) : text[b].length = 0 /\ \A k \in (b + 1)..(n - 1) : TooLong(text, k)

\* A chunk has the breadcrumb of its first line; it holds the lines that follow that one,
\* and blank lines only before it.
BeginsRight(text, chunk) ==
    /\ chunk.first \in 1..Len(text) /\ chunk.breadcrumb = ContextIn(text, chunk.first)
    /\ \A k \in 1..Len(chunk.lines) : chunk.lines[k] \in 1..Len(text)
    /\ \E j \in 1..Len(chunk.lines) :
          /\ \A k \in j..Len(chunk.lines) : chunk.lines[k] = chunk.first + k - j
          /\ \A k \in 1..(j - 1) : text[chunk.lines[k]].length = 0

ChunkTypes ==
    /\ lines \in Seq(LineKind) /\ Len(lines) \in Nat \ {0}
    /\ lineNo \in Nat \ {0} /\ lineNo <= Len(lines) + 2
    /\ startLine \in Nat \ {0} /\ startLine <= lineNo
    /\ tokens \in Nat /\ buffer \in Seq(1..Len(lines)) /\ breadcrumb \in Seq(Int)
    /\ chunks \in Seq(Chunk)

\* The lines of the buffer, without or with a blank one ahead of them.
Plain ==
    /\ Len(buffer) = lineNo - startLine
    /\ \A k \in 1..Len(buffer) : buffer[k] = startLine + k - 1
Behind ==
    /\ Len(buffer) = lineNo - startLine + 1
    /\ \A k \in 2..Len(buffer) : buffer[k] = startLine + k - 2
    /\ buffer[1] < startLine /\ lines[buffer[1]].length = 0
    /\ \A k \in (buffer[1] + 1)..(startLine - 1) : TooLong(lines, k)
BlankOnly == Len(buffer) = 1 /\ lines[buffer[1]].length = 0

BufferInv ==
    lineNo <= Len(lines) + 1 =>
        /\ Plain \/ Behind
        /\ tokens = 0 <=> buffer = << >>
        /\ BlankOnly => tokens = 1
        /\ buffer # << >> /\ startLine <= Len(lines) => breadcrumb = ContextIn(lines, startLine)

InBuffer(n) == \E k \in 1..Len(buffer) : buffer[k] = n
CoveredInv ==
    \A n \in 1..Len(lines) : n < lineNo =>
        \/ lines[n].length = 0 \/ HeldIn(chunks, n) \/ SwallowedIn(lines, n)
        \/ lineNo <= Len(lines) + 1 /\ InBuffer(n)

ChunksInv ==
    \A c \in 1..Len(chunks) :
        /\ BeginsRight(lines, chunks[c])
        /\ c = 1 \/ chunks[c - 1].first < chunks[c].first \/ chunks[c - 1].part + 1 = chunks[c].part
        /\ lineNo <= Len(lines) + 1 => chunks[c].first < startLine

ChunkingInv == ChunkTypes /\ BufferInv /\ CoveredInv /\ ChunksInv

\* The folds stay in their sets.
LEMMA TokensAreNat ==
    ASSUME CK!ChunkingAssumption, lines \in Seq(LineKind), NEW n \in 1..Len(lines)
    PROVE  lines[n].length \in Nat /\ lines[n].level \in Nat /\ CK!Cost(n) \in Nat \ {0}
<1>1. lines[n] \in LineKind
  BY ElementOfSeq
<1>2. lines[n].length \in Nat /\ lines[n].level \in Nat
  BY <1>1 DEF CK!ChunkingAssumption
<1> QED
  BY <1>2 DEF CK!Cost, CK!Tokens

LEMMA CostSinceIsNat ==
    ASSUME CK!ChunkingAssumption, ChunkTypes, lineNo <= Len(lines), NEW n \in 1..lineNo
    PROVE  CK!CostSince(n) \in Nat
<1> DEFINE m == lineNo - n
           seq == [k \in 1..m |-> n + k - 1]
           Is(f) == f = [s \in SUBSET DOMAIN seq |->
                            IF s = {} THEN 0 ELSE f[s \ {CK!Max(s)}] + CK!Cost(seq[CK!Max(s)])]
           step == [k \in 1..m |-> [x \in Nat |-> x + CK!Cost(seq[k])]]
           iter == CHOOSE f : Is(f)
<1>1. CK!CostSince(n) = iter[DOMAIN seq]
  BY DEF CK!CostSince, CK!FoldLeft, CK!MapThenFoldSet
<1>2. m \in Nat /\ DOMAIN seq = 1..m
  BY DEF ChunkTypes
<1>3. \A k \in 1..m : CK!Cost(seq[k]) \in Nat
  <2> SUFFICES ASSUME NEW k \in 1..m PROVE CK!Cost(n + k - 1) \in Nat
    OBVIOUS
  <2>1. n + k - 1 \in 1..Len(lines) /\ lines \in Seq(LineKind)
    BY DEF ChunkTypes
  <2> QED
    BY <2>1, TokensAreNat
<1> HIDE DEF m, seq
<1>4. step \in [1..m -> [Nat -> Nat]]
  BY <1>3
<1>5. PICK f : IsFold(f, m, Nat, 0, step)
  <2> HIDE DEF step, iter, Is
  <2>1. 0 \in Nat /\ m \in Nat
    BY <1>2
  <2> QED
    BY <1>4, <2>1, FoldExists, Zenon
<1>6. \A s \in SUBSET (1..m) : s # {} => Max(s) \in 1..m /\ s \ {Max(s)} \in SUBSET (1..m)
  <2> SUFFICES ASSUME NEW s \in SUBSET (1..m), s # {} PROVE Max(s) \in s
    OBVIOUS
  <2>1. s \in SUBSET (0..m)
    BY <1>2
  <2> QED
    BY <1>2, <2>1, MaxOfInterval
<1>7. Is(f)
  <2>0. f \in [SUBSET (1..m) -> Nat]
    BY <1>5 DEF IsFold
  <2>1. \A s \in SUBSET (1..m) :
            f[s] = IF s = {} THEN 0 ELSE f[s \ {CK!Max(s)}] + CK!Cost(seq[CK!Max(s)])
    <3> SUFFICES ASSUME NEW s \in SUBSET (1..m), s # {}
                 PROVE  f[s] = f[s \ {Max(s)}] + CK!Cost(seq[Max(s)])
      BY <1>5, SameMax DEF IsFold
    <3>1. Max(s) \in 1..m /\ f[s \ {Max(s)}] \in Nat
      BY <1>5, <1>6 DEF IsFold
    <3>2. f[s] = step[Max(s)][f[s \ {Max(s)}]]
      BY <1>5 DEF IsFold
    <3> QED
      BY <3>1, <3>2
  <2> HIDE DEF step
  <2> QED
    BY <1>2, <2>0, <2>1
<1>8. Is(iter)
  <2> HIDE DEF Is
  <2> QED
    BY <1>7
<1>9. \A s \in SUBSET (1..m) :
          iter[s] = IF s = {} THEN 0 ELSE iter[s \ {Max(s)}] + CK!Cost(seq[Max(s)])
  <2> HIDE DEF iter, step
  <2> QED
    BY <1>2, <1>8, SameMax
<1> HIDE DEF iter, step, Is
<1>10. iter[{}] \in Nat
  <2>1. {} \in SUBSET (1..m)
    OBVIOUS
  <2>2. iter[{}] = 0
    BY <1>9, <2>1, Zenon
  <2> QED
    BY <2>2
<1>11. ASSUME NEW k \in 1..m, iter[1..(k - 1)] \in Nat PROVE iter[1..k] \in Nat
  <2>1. iter[1..k] = iter[1..(k - 1)] + CK!Cost(seq[k])
    BY <1>2, <1>9, FirstNumbers
  <2> QED
    BY <1>3, <1>11, <2>1
<1>12. iter[1..m] \in Nat
  BY <1>2, <1>10, <1>11, FoldStays
<1> QED
  BY <1>1, <1>2, <1>12

LEMMA UnderIsSeq ==
    ASSUME NEW stack \in Seq(Int), NEW level \in Nat, NEW heading \in Nat
    PROVE  CK!Under(stack, level, heading) \in Seq(Int)
<1> DEFINE depth == IF Titled THEN level + 1 ELSE level
           kept == IF depth <= Len(stack) THEN SubSeq(stack, 1, depth - 1) ELSE stack
           holes == [hole \in 1..(depth - 1 - Len(kept)) |-> -1]
<1>1. depth \in Nat
  OBVIOUS
<1> HIDE DEF depth
<1>2. kept \in Seq(Int)
  <2>1. CASE depth <= Len(stack)
    <3>1. \A k \in 1..(depth - 1) : stack[k] \in Int
      BY <1>1, <2>1
    <3>2. SubSeq(stack, 1, depth - 1) \in Seq(Int)
      BY <1>1, <3>1, SubSeqProperties
    <3> QED
      BY <2>1, <3>2
  <2>2. CASE ~(depth <= Len(stack))
    BY <2>2
  <2> QED
    BY <2>1, <2>2
<1> HIDE DEF kept
<1>3. holes \in Seq(Int)
  <2>1. Len(kept) \in Nat
    BY <1>2
  <2>2. CASE depth - 1 - Len(kept) <= 0
    <3>1. 1..(depth - 1 - Len(kept)) = 1..0
      BY <1>1, <2>1, <2>2
    <3>2. holes \in [1..0 -> Int]
      BY <3>1
    <3> HIDE DEF holes
    <3> QED
      BY <3>2
  <2>3. CASE depth - 1 - Len(kept) > 0
    <3>0. depth - 1 - Len(kept) \in Nat
      BY <1>1, <2>1, <2>3
    <3>1. PICK m \in Nat : m = depth - 1 - Len(kept)
      BY <3>0
    <3>2. holes \in [1..m -> Int]
      BY <3>1
    <3> HIDE DEF holes
    <3> QED
      BY <3>2
  <2> QED
    BY <1>1, <2>1, <2>2, <2>3
<1> HIDE DEF holes
<1>4. kept \o holes \in Seq(Int) /\ <<heading>> \in Seq(Int)
  BY <1>2, <1>3
<1>5. (kept \o holes) \o <<heading>> \in Seq(Int)
  BY <1>4
<1>6. CK!Under(stack, level, heading) = (kept \o holes) \o <<heading>>
  BY DEF CK!Under, depth, kept, holes
<1> QED
  BY <1>5, <1>6

ContextOf == [stack : Seq(Int), front : BOOLEAN, code : BOOLEAN]
ReadTo(text, n) == CHOOSE f : Reads(text, n, f)

LEMMA ReadStays ==
    ASSUME CK!ChunkingAssumption, NEW text \in Seq(LineKind), NEW k \in 1..Len(text), NEW context \in ContextOf
    PROVE  /\ ReadIn(text, context, k) \in ContextOf
           /\ text[k].kind # "heading" => ReadIn(text, context, k).stack = context.stack
<1>1. text[k] \in LineKind /\ k \in Nat
  BY ElementOfSeq
<1>2. text[k].level \in Nat
  BY <1>1 DEF CK!ChunkingAssumption
<1>3. CK!Under(context.stack, text[k].level, k) \in Seq(Int)
  BY <1>1, <1>2, UnderIsSeq DEF ContextOf
<1> QED
  BY <1>3 DEF ReadIn, ContextOf

\* The fold goes through the contexts line by line.
LEMMA ContextUnfolds ==
    ASSUME CK!ChunkingAssumption, NEW text \in Seq(LineKind), NEW n \in 0..Len(text)
    PROVE  /\ ReadTo(text, n)[{}] = NoContext
           /\ \A k \in 1..n : ReadTo(text, n)[1..k] = ReadIn(text, ReadTo(text, n)[1..(k - 1)], k)
           /\ \A k \in 0..n : ReadTo(text, n)[1..k] \in ContextOf
           /\ ContextIn(text, n) = ReadTo(text, n)[1..n].stack
<1> DEFINE seq == [k \in 1..n |-> k]
           step == [k \in 1..n |-> [context \in ContextOf |-> ReadIn(text, context, k)]]
           iter == ReadTo(text, n)
<1>0. n \in Nat /\ \A k \in 1..n : k \in Nat /\ k \in 1..Len(text)
  OBVIOUS
<1>1. NoContext \in ContextOf
  BY DEF NoContext, ContextOf
<1>3. step \in [1..n -> [ContextOf -> ContextOf]]
  BY <1>0, ReadStays
<1>4. PICK f : IsFold(f, n, ContextOf, NoContext, step)
  <2> HIDE DEF step
  <2> QED
    BY <1>0, <1>1, <1>3, FoldExists
<1>5. \A s \in SUBSET (1..n) : s # {} => Max(s) \in 1..n /\ s \ {Max(s)} \in SUBSET (1..n)
  <2> SUFFICES ASSUME NEW s \in SUBSET (1..n), s # {} PROVE Max(s) \in s
    OBVIOUS
  <2>1. s \in SUBSET (0..n)
    OBVIOUS
  <2> QED
    BY <1>0, <2>1, MaxOfInterval
<1>6. Reads(text, n, f)
  <2>0. f \in [SUBSET (1..n) -> ContextOf]
    BY <1>4 DEF IsFold
  <2>1. \A s \in SUBSET (1..n) :
            f[s] = IF s = {} THEN NoContext ELSE ReadIn(text, f[s \ {CK!Max(s)}], seq[CK!Max(s)])
    <3> SUFFICES ASSUME NEW s \in SUBSET (1..n), s # {}
                 PROVE  f[s] = ReadIn(text, f[s \ {Max(s)}], seq[Max(s)])
      BY <1>4, SameMax DEF IsFold
    <3>1. Max(s) \in 1..n /\ f[s \ {Max(s)}] \in ContextOf
      BY <1>4, <1>5 DEF IsFold
    <3>2. f[s] = step[Max(s)][f[s \ {Max(s)}]]
      BY <1>4 DEF IsFold
    <3> QED
      BY <3>1, <3>2
  <2> HIDE DEF step
  <2> QED
    BY <2>0, <2>1 DEF Reads
<1>7. Reads(text, n, iter)
  BY <1>6 DEF ReadTo
<1>8. \A s \in SUBSET (1..n) :
          iter[s] = IF s = {} THEN NoContext ELSE ReadIn(text, iter[s \ {Max(s)}], seq[Max(s)])
  <2> HIDE DEF iter, step
  <2> QED
    BY <1>7, SameMax DEF Reads
<1>12. ContextIn(text, n) = iter[1..n].stack
  BY DEF ContextIn, ReadTo
<1> HIDE DEF iter, step
<1>9. iter[{}] = NoContext
  <2>1. {} \in SUBSET (1..n)
    OBVIOUS
  <2> QED
    BY <1>8, <2>1, Zenon
<1>10. ASSUME NEW k \in 1..n PROVE iter[1..k] = ReadIn(text, iter[1..(k - 1)], k)
  BY <1>0, <1>8, FirstNumbers
<1>11. ASSUME NEW k \in 0..n PROVE iter[1..k] \in ContextOf
  <2>1. ASSUME NEW m \in 1..k, iter[1..(m - 1)] \in ContextOf PROVE iter[1..m] \in ContextOf
    <3>1. m \in 1..n /\ m \in 1..Len(text)
      OBVIOUS
    <3> QED
      BY <1>10, <2>1, <3>1, ReadStays
  <2>2. k \in Nat /\ iter[{}] \in ContextOf
    BY <1>1, <1>9
  <2> QED
    BY <2>1, <2>2, FoldStays
<1> QED
  BY <1>9, <1>10, <1>11, <1>12 DEF iter

LEMMA ContextIsSeq ==
    ASSUME CK!ChunkingAssumption, NEW text \in Seq(LineKind), NEW n \in 0..Len(text)
    PROVE  ContextIn(text, n) \in Seq(Int)
<1>1. n \in 0..n /\ ReadTo(text, n)[1..n] \in ContextOf
  BY ContextUnfolds
<1> QED
  BY <1>1, ContextUnfolds DEF ContextOf

\* Only a heading changes the breadcrumb.
LEMMA ContextPasses ==
    ASSUME CK!ChunkingAssumption, NEW text \in Seq(LineKind), NEW n \in Nat, n + 1 \in 1..Len(text),
           text[n + 1].kind # "heading"
    PROVE  ContextIn(text, n + 1) = ContextIn(text, n)
<1> DEFINE before == ReadTo(text, n)
           after == ReadTo(text, n + 1)
           Same == {k \in 0..n : after[1..k] = before[1..k]}
<1>1. n \in 0..Len(text) /\ n + 1 \in 0..Len(text)
  OBVIOUS
<1>2. /\ before[{}] = NoContext /\ \A k \in 1..n : before[1..k] = ReadIn(text, before[1..(k - 1)], k)
      /\ ContextIn(text, n) = before[1..n].stack
  BY <1>1, ContextUnfolds
<1>3. /\ after[{}] = NoContext
      /\ \A k \in 1..(n + 1) : after[1..k] = ReadIn(text, after[1..(k - 1)], k)
      /\ \A k \in 0..(n + 1) : after[1..k] \in ContextOf
      /\ ContextIn(text, n + 1) = after[1..(n + 1)].stack
  BY <1>1, ContextUnfolds
<1> HIDE DEF before, after
<1>4. 0 \in Same
  <2>1. 1..0 = {}
    OBVIOUS
  <2> QED
    BY <1>2, <1>3, <2>1
<1>5. ASSUME NEW k \in 0..n, k \in Same, k # n PROVE k + 1 \in Same
  <2>1. k + 1 \in 1..n /\ k + 1 \in 1..(n + 1) /\ (k + 1) - 1 = k /\ k + 1 \in 0..n
    BY <1>5
  <2>2. after[1..k] = before[1..k]
    BY <1>5
  <2>3. after[1..(k + 1)] = before[1..(k + 1)]
    BY <1>2, <1>3, <2>1, <2>2
  <2> QED
    BY <2>1, <2>3
<1>6. n \in Same
  <2> HIDE DEF Same
  <2>1. 0..n \subseteq Same /\ n \in 0..n
    BY <1>4, <1>5, IntervalInduction
  <2> QED
    BY <2>1
<1>7. after[1..(n + 1)] = ReadIn(text, after[1..n], n + 1) /\ after[1..n] \in ContextOf
  <2>1. n + 1 \in 1..(n + 1) /\ (n + 1) - 1 = n /\ n \in 0..(n + 1)
    OBVIOUS
  <2> QED
    BY <1>3, <2>1
<1>8. ReadIn(text, after[1..n], n + 1).stack = after[1..n].stack
  BY <1>7, ReadStays
<1> QED
  BY <1>2, <1>3, <1>6, <1>7, <1>8

LEMMA ContextSpans ==
    ASSUME CK!ChunkingAssumption, NEW text \in Seq(LineKind), NEW first \in 1..Len(text), NEW gap \in Nat,
           first + gap <= Len(text), \A n \in (first + 1)..(first + gap) : text[n].kind # "heading"
    PROVE  ContextIn(text, first + gap) = ContextIn(text, first)
<1> DEFINE Same == {k \in 0..gap : ContextIn(text, first + k) = ContextIn(text, first)}
<1>1. 0 \in Same
  <2>1. first + 0 = first
    OBVIOUS
  <2> QED
    BY <2>1
<1>2. ASSUME NEW k \in 0..gap, k \in Same, k # gap PROVE k + 1 \in Same
  <2>1. PICK n \in Nat : n = first + k /\ n + 1 \in 1..Len(text) /\ n + 1 = first + (k + 1) /\ k + 1 \in 0..gap
    BY <1>2
  <2>2. text[n + 1].kind # "heading"
    BY <2>1
  <2>3. ContextIn(text, n + 1) = ContextIn(text, n)
    BY <2>1, <2>2, ContextPasses
  <2> QED
    BY <1>2, <2>1, <2>3
<1> HIDE DEF Same
<1>3. 0..gap \subseteq Same
  BY <1>1, <1>2, IntervalInduction
<1> QED
  BY <1>3 DEF Same

\* What the operators of the step give.
LEMMA BackToIsThere ==
    ASSUME CK!ChunkingAssumption, ChunkTypes, lineNo <= Len(lines)
    PROVE  IF startLine < lineNo THEN CK!BackTo \in startLine..(lineNo - 1) ELSE CK!BackTo = lineNo
<1>0. /\ lineNo \in Nat /\ startLine \in Nat /\ startLine >= 1 /\ startLine <= lineNo
      /\ Overlap \in Nat
  BY DEF ChunkTypes, CK!ChunkingAssumption
<1>1. CASE startLine < lineNo
  <2> DEFINE S == {n \in startLine..(lineNo - 1) : n = lineNo - 1 \/ CK!CostSince(n) <= Overlap}
             Fits(n) == /\ n = lineNo - 1 \/ CK!CostSince(n) <= Overlap
                        /\ n = startLine \/ CK!CostSince(n - 1) > Overlap
  <2>1. PICK m \in S : \A n \in S : m <= n
    <3>1. S \in SUBSET Nat /\ lineNo - 1 \in S
      BY <1>0, <1>1
    <3> HIDE DEF S
    <3> QED
      BY <3>1, MinOfNaturals
  <2>2. m \in startLine..(lineNo - 1) /\ (m = lineNo - 1 \/ CK!CostSince(m) <= Overlap)
    BY <2>1
  <2>3. ASSUME m # startLine PROVE CK!CostSince(m - 1) > Overlap
    <3>1. m - 1 \in startLine..(lineNo - 1) /\ m - 1 \in 1..lineNo /\ m - 1 # lineNo - 1
      BY <1>0, <2>2, <2>3
    <3>2. m - 1 \notin S
      BY <1>0, <2>1, <2>2, <3>1
    <3>3. ~(CK!CostSince(m - 1) <= Overlap)
      BY <3>1, <3>2
    <3>4. CK!CostSince(m - 1) \in Nat
      BY <3>1, CostSinceIsNat
    <3> QED
      BY <1>0, <3>3, <3>4
  <2>4. Fits(m)
    BY <2>2, <2>3
  <2>5. CK!BackTo = CHOOSE n \in startLine..(lineNo - 1) : Fits(n)
    BY <1>0, <1>1 DEF CK!BackTo
  <2> HIDE DEF Fits
  <2>6. (CHOOSE n \in startLine..(lineNo - 1) : Fits(n)) \in startLine..(lineNo - 1)
    BY <2>2, <2>4
  <2> QED
    BY <1>1, <2>5, <2>6
<1>2. CASE ~(startLine < lineNo)
  BY <1>0, <1>2 DEF CK!BackTo
<1> QED
  BY <1>1, <1>2

LEMMA GoesForward ==
    ASSUME CK!ChunkingAssumption, ChunkTypes, lineNo <= Len(lines), CK!GoBack
    PROVE  /\ startLine' = lineNo' /\ lineNo' \in Nat
           /\ startLine < lineNo => startLine < startLine' /\ startLine' <= lineNo
           /\ startLine = lineNo => startLine' = lineNo + 1
<1>1. lineNo \in Nat /\ startLine \in Nat /\ startLine <= lineNo
  BY DEF ChunkTypes
<1>2. CASE startLine < lineNo
  <2>1. PICK n \in startLine..(lineNo - 1) : n = CK!BackTo
    BY <1>2, BackToIsThere
  <2> QED
    BY <1>1, <1>2, <2>1 DEF CK!GoBack
<1>3. CASE startLine = lineNo
  <2>1. CK!BackTo = lineNo
    BY <1>1, <1>3, BackToIsThere
  <2> QED
    BY <1>1, <1>3, <2>1 DEF CK!GoBack
<1> QED
  BY <1>1, <1>2, <1>3

LEMMA PiecesOfTheLine ==
    ASSUME CK!ChunkingAssumption, lines \in Seq(LineKind), NEW n \in 1..Len(lines)
    PROVE  /\ CK!Pieces(n) \in Seq(Chunk)
           /\ lines[n].length > 0 => Len(CK!Pieces(n)) >= 1
           /\ \A p \in 1..Len(CK!Pieces(n)) :
                 CK!Pieces(n)[p] = [first |-> n, last |-> n, part |-> p, lines |-> <<n>>,
                                    breadcrumb |-> ContextIn(lines, n)]
<1> DEFINE size == CK!PieceLength(CK!Context(n))
           length == lines[n].length
           count == (length + size - 1) \div size
           piece(p) == [first |-> n, last |-> n, part |-> p, lines |-> <<n>>,
                        breadcrumb |-> ContextIn(lines, n)]
<1>1. CK!Context(n) = ContextIn(lines, n) /\ ContextIn(lines, n) \in Seq(Int)
  <2>1. n \in 0..Len(lines)
    OBVIOUS
  <2> QED
    BY <2>1, ContextIs, ContextIsSeq
<1>2. size \in Nat /\ size >= 1
  <2>1. PICK k \in Nat : k = Len(CK!Context(n))
    BY <1>1
  <2>2. MaxTokens \in Nat
    BY DEF CK!ChunkingAssumption
  <2>3. PICK a \in Int : a = MaxTokens - (1 + Len(CK!Context(n))) - 1
    <3>1. MaxTokens - (1 + Len(CK!Context(n))) - 1 \in Int
      BY <2>1, <2>2
    <3> QED
      BY <3>1
  <2>4. size = 4 * (IF a <= 0 THEN 1 ELSE a)
    BY <2>3 DEF CK!PieceLength
  <2> QED
    BY <2>3, <2>4
<1>3. length \in Nat
  BY TokensAreNat
<1>4. count \in Nat /\ (length > 0 => count >= 1)
  <2>1. PICK s \in Nat : s = size
    BY <1>2
  <2>2. PICK l \in Nat : l = length
    BY <1>3
  <2>3. s >= 1 /\ count = (l + s - 1) \div s
    BY <1>2, <2>1, <2>2
  <2> HIDE DEF size, length, count
  <2>4. PICK q \in Int : q = (l + s - 1) \div s
    BY <2>3
  <2>5. s * q <= l + s - 1 /\ l + s - 1 < s * q + s
    BY <2>3, <2>4
  <2>6. q >= 0
    <3> SUFFICES ASSUME q <= -1 PROVE FALSE
      OBVIOUS
    <3>1. s * q <= -s
      BY <2>3
    <3> QED
      BY <2>3, <2>5, <3>1
  <2>7. ASSUME l > 0, q = 0 PROVE FALSE
    BY <2>3, <2>5, <2>7
  <2> QED
    BY <2>2, <2>3, <2>4, <2>6, <2>7
<1> HIDE DEF size, length
<1>5. CK!Pieces(n) = [p \in 1..count |-> piece(p)]
  BY <1>1 DEF CK!Pieces, size, length
<1> HIDE DEF count
<1>6. \A p \in 1..count : piece(p) \in Chunk
  BY <1>1, <1>4 DEF Chunk
<1>7. CK!Pieces(n) \in [1..count -> Chunk]
  BY <1>5, <1>6
<1>8. CK!Pieces(n) \in Seq(Chunk) /\ Len(CK!Pieces(n)) = count
  <2> HIDE DEF piece
  <2> QED
    BY <1>4, <1>5, <1>7
<1> QED
  BY <1>4, <1>5, <1>8 DEF length

LEMMA BufferFacts ==
    ASSUME ChunkTypes, BufferInv, lineNo <= Len(lines) + 1
    PROVE  /\ Len(buffer) \in Nat
           /\ \A k \in 1..Len(buffer) : buffer[k] \in 1..Len(lines)
           /\ tokens = 0 => buffer = << >> /\ Len(buffer) = 0 /\ startLine = lineNo
           /\ tokens > 0 => Len(buffer) >= 1
           /\ tokens > 0 /\ ~CK!Blank => startLine < lineNo
           /\ tokens > 0 /\ CK!Blank => BlankOnly /\ tokens = 1
<1>1. /\ lineNo \in Nat /\ startLine \in Nat /\ startLine <= lineNo /\ tokens \in Nat
      /\ buffer \in Seq(1..Len(lines))
  BY DEF ChunkTypes
<1>2. Len(buffer) \in Nat /\ \A k \in 1..Len(buffer) : buffer[k] \in 1..Len(lines)
  BY <1>1
<1>3. (Plain \/ Behind) /\ (tokens = 0 <=> buffer = << >>) /\ (BlankOnly => tokens = 1)
  BY DEF BufferInv
<1>4. buffer = << >> <=> Len(buffer) = 0
  BY <1>1
<1>5. tokens = 0 => startLine = lineNo
  BY <1>1, <1>3, <1>4 DEF Plain, Behind
<1>6. tokens > 0 /\ CK!Blank => BlankOnly
  BY <1>3 DEF CK!Blank, BlankOnly
<1>7. tokens > 0 => Len(buffer) >= 1
  BY <1>1, <1>2, <1>3, <1>4
<1>8. ASSUME tokens > 0, ~CK!Blank PROVE startLine < lineNo
  <2>1. Len(buffer) = 1 => lines[buffer[1]].length # 0
    BY <1>8 DEF CK!Blank
  <2>2. CASE Plain
    BY <1>1, <1>2, <1>7, <1>8, <2>2 DEF Plain
  <2>3. CASE Behind
    <3>1. lines[buffer[1]].length = 0 /\ Len(buffer) = lineNo - startLine + 1
      BY <2>3 DEF Behind
    <3> QED
      BY <1>1, <1>2, <1>7, <1>8, <2>1, <3>1
  <2> QED
    BY <1>3, <2>2, <2>3
<1> QED
  BY <1>1, <1>2, <1>3, <1>4, <1>5, <1>6, <1>7, <1>8

LEMMA FlushedBegins ==
    ASSUME ChunkTypes, BufferInv, lineNo <= Len(lines) + 1, tokens > 0, ~CK!Blank, NEW last \in Nat,
           NEW chunk, chunk = [first |-> startLine, last |-> last, part |-> 0, lines |-> buffer,
                               breadcrumb |-> breadcrumb]
    PROVE  chunk \in Chunk /\ BeginsRight(lines, chunk)
<1>1. /\ lineNo \in Nat /\ startLine \in Nat /\ startLine >= 1 /\ startLine <= lineNo
      /\ buffer \in Seq(1..Len(lines)) /\ breadcrumb \in Seq(Int) /\ Len(lines) \in Nat
  BY DEF ChunkTypes
<1>2. startLine < lineNo /\ Len(buffer) >= 1 /\ Len(buffer) \in Nat /\ buffer # << >>
  BY BufferFacts, <1>1
<1>3. buffer \in Seq(Nat)
  BY <1>1
<1>4. breadcrumb = ContextIn(lines, startLine) /\ (Plain \/ Behind)
  BY <1>1, <1>2 DEF BufferInv
<1>5. \E j \in 1..Len(buffer) : /\ \A k \in j..Len(buffer) : buffer[k] = startLine + k - j
                                /\ \A k \in 1..(j - 1) : lines[buffer[k]].length = 0
  <2>1. CASE Plain
    <3>1. /\ 1 \in 1..Len(buffer) /\ \A k \in 1..(1 - 1) : FALSE
          /\ \A k \in 1..Len(buffer) : buffer[k] = startLine + k - 1
      BY <1>1, <1>2, <2>1 DEF Plain
    <3> QED
      BY <1>1, <3>1
  <2>2. CASE Behind
    <3>1. 2 \in 1..Len(buffer) /\ 2 \in 2..Len(buffer)
      BY <1>1, <1>2, <2>2 DEF Behind
    <3>2. \A k \in 2..Len(buffer) : buffer[k] = startLine + k - 2
      BY <2>2 DEF Behind
    <3>3. \A k \in 1..(2 - 1) : k = 1
      OBVIOUS
    <3>4. lines[buffer[1]].length = 0
      BY <2>2 DEF Behind
    <3> QED
      BY <3>1, <3>2, <3>3, <3>4
  <2> QED
    BY <1>4, <2>1, <2>2
<1>6. chunk \in Chunk
  BY <1>1, <1>3 DEF Chunk
<1>7. startLine \in 1..Len(lines) /\ \A k \in 1..Len(buffer) : buffer[k] \in 1..Len(lines)
  BY <1>1, <1>2
<1> QED
  BY <1>4, <1>5, <1>6, <1>7 DEF BeginsRight

LEMMA ChunksAdded ==
    ASSUME ChunkTypes, ChunksInv, lineNo <= Len(lines) + 1, NEW more \in Seq(Chunk),
           \A p \in 1..Len(more) : /\ BeginsRight(lines, more[p]) /\ more[p].first = startLine
                                   /\ p = 1 \/ more[p - 1].part + 1 = more[p].part,
           NEW cs, cs = chunks \o more
    PROVE  /\ cs \in Seq(Chunk)
           /\ \A c \in 1..Len(cs) :
                 /\ BeginsRight(lines, cs[c]) /\ cs[c].first <= startLine
                 /\ c = 1 \/ cs[c - 1].first < cs[c].first \/ cs[c - 1].part + 1 = cs[c].part
           /\ \A n : HeldIn(chunks, n) => HeldIn(cs, n)
           /\ \A p \in 1..Len(more) : \A k \in 1..Len(more[p].lines) : HeldIn(cs, more[p].lines[k])
<1>1. chunks \in Seq(Chunk) /\ startLine \in Nat
  BY DEF ChunkTypes
<1>2. PICK before \in Nat : before = Len(chunks)
  BY <1>1
<1>3. PICK extra \in Nat : extra = Len(more)
  OBVIOUS
<1>4. cs \in Seq(Chunk) /\ Len(cs) = before + extra
  BY <1>1, <1>2, <1>3
<1>5. \A c \in 1..before : cs[c] = chunks[c]
  BY <1>1, <1>2
<1>6. \A p \in 1..extra : cs[before + p] = more[p] /\ before + p \in 1..Len(cs)
  BY <1>1, <1>2, <1>3, <1>4
<1>7. ASSUME NEW c \in 1..Len(cs)
      PROVE  /\ BeginsRight(lines, cs[c]) /\ cs[c].first <= startLine
             /\ c = 1 \/ cs[c - 1].first < cs[c].first \/ cs[c - 1].part + 1 = cs[c].part
  <2>1. CASE c \in 1..before
    <3>0. c \in Nat /\ (c # 1 => c - 1 \in 1..before)
      BY <1>2, <2>1
    <3>1. cs[c] = chunks[c] /\ (c # 1 => cs[c - 1] = chunks[c - 1])
      BY <1>5, <2>1, <3>0
    <3>2. chunks[c].first < startLine /\ chunks[c].first \in Nat
      <4>1. chunks[c] \in Chunk
        BY <1>1, <1>2, <2>1
      <4>2. chunks[c].first < startLine
        BY <1>2, <2>1 DEF ChunksInv
      <4> QED
        BY <4>1, <4>2 DEF Chunk
    <3>3. /\ BeginsRight(lines, chunks[c])
          /\ c = 1 \/ chunks[c - 1].first < chunks[c].first \/ chunks[c - 1].part + 1 = chunks[c].part
      BY <1>2, <2>1 DEF ChunksInv
    <3>4. cs[c].first <= startLine
      BY <1>1, <3>1, <3>2
    <3>5. c = 1 \/ cs[c - 1].first < cs[c].first \/ cs[c - 1].part + 1 = cs[c].part
      BY <3>1, <3>3
    <3>6. BeginsRight(lines, cs[c])
      BY <3>1, <3>3
    <3> QED
      BY <3>4, <3>5, <3>6
  <2>2. CASE c \notin 1..before
    <3>1. PICK p \in 1..extra : c = before + p
      <4>1. c - before \in 1..extra /\ c = before + (c - before)
        BY <1>4, <2>2
      <4> QED
        BY <4>1
    <3>2. cs[c] = more[p] /\ BeginsRight(lines, more[p]) /\ more[p].first = startLine
      BY <1>3, <1>6, <3>1
    <3>3. CASE p = 1
      <4>1. c # 1 => c - 1 \in 1..before /\ cs[c - 1] = chunks[c - 1]
        BY <1>5, <3>1, <3>3
      <4>2. c # 1 => chunks[c - 1].first < startLine
        BY <1>2, <4>1 DEF ChunksInv
      <4> QED
        BY <1>1, <3>2, <4>1, <4>2
    <3>4. CASE p # 1
      <4>1. p - 1 \in 1..extra /\ c - 1 = before + (p - 1)
        BY <3>1, <3>4
      <4>2. cs[c - 1] = more[p - 1] /\ more[p - 1].part + 1 = more[p].part
        BY <1>3, <1>6, <3>4, <4>1
      <4> QED
        BY <1>1, <3>2, <4>2
    <3> QED
      BY <3>3, <3>4
  <2> QED
    BY <2>1, <2>2
<1>8. ASSUME NEW n, HeldIn(chunks, n) PROVE HeldIn(cs, n)
  <2>1. PICK c \in 1..before : \E k \in 1..Len(chunks[c].lines) : chunks[c].lines[k] = n
    BY <1>2, <1>8 DEF HeldIn
  <2>2. c \in 1..Len(cs) /\ cs[c] = chunks[c]
    BY <1>4, <1>5
  <2> QED
    BY <2>1, <2>2 DEF HeldIn
<1>9. ASSUME NEW p \in 1..Len(more), NEW k \in 1..Len(more[p].lines) PROVE HeldIn(cs, more[p].lines[k])
  BY <1>3, <1>6 DEF HeldIn
<1> QED
  BY <1>4, <1>7, <1>8, <1>9

\* Each step keeps the invariant.
LEMMA ChunkingStarts ==
    ASSUME CK!ChunkingAssumption, CK!Init
    PROVE  ChunkingInv
<1>1. PICK n \in 1..MaxLines : lines \in [1..n -> LineKind]
  BY DEF CK!Init
<1>2. n \in Nat /\ n >= 1 /\ lines \in Seq(LineKind) /\ Len(lines) = n
  BY <1>1 DEF CK!ChunkingAssumption
<1>3. /\ lineNo = 1 /\ startLine = 1 /\ buffer = << >> /\ tokens = 0 /\ chunks = << >>
      /\ breadcrumb = CK!Context(1)
  BY DEF CK!Init
<1>4. breadcrumb \in Seq(Int)
  <2>1. 1 \in 0..Len(lines) /\ CK!Context(1) = ContextIn(lines, 1)
    BY <1>2, ContextIs
  <2> QED
    BY <1>2, <1>3, <2>1, ContextIsSeq
<1>5. ChunkTypes
  BY <1>2, <1>3, <1>4 DEF ChunkTypes
<1>6. Len(buffer) = 0 /\ Len(chunks) = 0
  BY <1>3
<1>7. BufferInv
  BY <1>3, <1>6 DEF BufferInv, Plain, BlankOnly
<1>8. CoveredInv
  BY <1>2, <1>3 DEF CoveredInv
<1>9. ChunksInv
  BY <1>6 DEF ChunksInv
<1> QED
  BY <1>5, <1>7, <1>8, <1>9 DEF ChunkingInv

LEMMA ChunkingWindowFull ==
    ASSUME CK!ChunkingAssumption, ChunkingInv, CK!WindowFull
    PROVE  ChunkingInv'
<1>1. /\ lineNo \in Nat /\ startLine \in Nat /\ startLine >= 1 /\ startLine <= lineNo /\ tokens \in Nat
      /\ lines \in Seq(LineKind) /\ Len(lines) \in Nat \ {0} /\ buffer \in Seq(1..Len(lines))
      /\ breadcrumb \in Seq(Int) /\ chunks \in Seq(Chunk) /\ MaxTokens \in Nat
  BY DEF ChunkingInv, ChunkTypes, CK!ChunkingAssumption
<1>2. /\ lineNo <= Len(lines) /\ tokens > 0 /\ tokens + CK!Cost(lineNo) > MaxTokens
      /\ CK!Flush(lineNo) /\ CK!GoBack /\ lines' = lines
      /\ breadcrumb' = IF Len(lines) >= startLine' THEN CK!Context(startLine') ELSE breadcrumb
  BY DEF CK!WindowFull, CK!Reading, CK!Full
<1>3. /\ startLine' = lineNo' /\ lineNo' \in Nat
      /\ startLine < lineNo => startLine < startLine' /\ startLine' <= lineNo
      /\ startLine = lineNo => startLine' = lineNo + 1
  BY <1>2, GoesForward DEF ChunkingInv
<1>4. PICK next \in Nat : next = startLine' /\ next = lineNo' /\ startLine < next /\ next <= lineNo + 1
  BY <1>1, <1>3
<1>5. /\ breadcrumb' \in Seq(Int)
      /\ next <= Len(lines) => breadcrumb' = ContextIn(lines, next)
  <2>1. CASE next <= Len(lines)
    <3>1. breadcrumb' = ContextIn(lines, next)
      BY <1>1, <1>2, <1>4, <2>1, ContextIs
    <3>2. next \in 0..Len(lines)
      BY <1>1, <2>1
    <3> QED
      BY <1>1, <1>2, <3>1, <3>2, ContextIsSeq
  <2>2. CASE ~(next <= Len(lines))
    BY <1>1, <1>2, <1>4, <2>2
  <2> QED
    BY <2>1, <2>2
<1>6. CASE ~CK!Blank
  <2>1. /\ chunks' = Append(chunks, [first |-> startLine, last |-> lineNo, part |-> 0, lines |-> buffer,
                                     breadcrumb |-> breadcrumb])
        /\ buffer' = << >> /\ tokens' = 0
    BY <1>2, <1>6 DEF CK!Flush
  <2>2. PICK chunk : chunk = [first |-> startLine, last |-> lineNo, part |-> 0, lines |-> buffer,
                              breadcrumb |-> breadcrumb]
    OBVIOUS
  <2>3. chunk \in Chunk /\ BeginsRight(lines, chunk) /\ startLine < lineNo
    BY <1>1, <1>2, <1>6, <2>2, FlushedBegins, BufferFacts DEF ChunkingInv
  <2>4. PICK cs : cs = chunks \o <<chunk>> /\ cs = chunks'
    <3>1. Append(chunks, chunk) = chunks \o <<chunk>>
      BY <1>1, <2>3, AppendIsConcat
    <3> QED
      BY <2>1, <2>2, <3>1
  <2>5. /\ <<chunk>> \in Seq(Chunk) /\ Len(<<chunk>>) = 1
        /\ \A p \in 1..1 : p = 1 /\ <<chunk>>[p] = chunk
    BY <2>3
  <2>6. /\ cs \in Seq(Chunk)
        /\ \A c \in 1..Len(cs) :
              /\ BeginsRight(lines, cs[c]) /\ cs[c].first <= startLine
              /\ c = 1 \/ cs[c - 1].first < cs[c].first \/ cs[c - 1].part + 1 = cs[c].part
        /\ \A n : HeldIn(chunks, n) => HeldIn(cs, n)
        /\ \A k \in 1..Len(buffer) : HeldIn(cs, buffer[k])
    <3>1. chunk.first = startLine /\ chunk.lines = buffer
      BY <2>2
    <3>2. lineNo <= Len(lines) + 1
      BY <1>1, <1>2
    <3>3. \A p \in 1..Len(<<chunk>>) :
              /\ BeginsRight(lines, <<chunk>>[p]) /\ <<chunk>>[p].first = startLine
              /\ p = 1 \/ <<chunk>>[p - 1].part + 1 = <<chunk>>[p].part
      BY <2>3, <2>5, <3>1
    <3>4. /\ cs \in Seq(Chunk)
          /\ \A c \in 1..Len(cs) :
                /\ BeginsRight(lines, cs[c]) /\ cs[c].first <= startLine
                /\ c = 1 \/ cs[c - 1].first < cs[c].first \/ cs[c - 1].part + 1 = cs[c].part
          /\ \A n : HeldIn(chunks, n) => HeldIn(cs, n)
          /\ \A p \in 1..Len(<<chunk>>) : \A k \in 1..Len(<<chunk>>[p].lines) : HeldIn(cs, <<chunk>>[p].lines[k])
      BY <2>4, <2>5, <3>2, <3>3, ChunksAdded DEF ChunkingInv
    <3>5. 1 \in 1..Len(<<chunk>>) /\ <<chunk>>[1].lines = buffer
      BY <2>5, <3>1
    <3> QED
      BY <3>4, <3>5
  <2>7. next <= lineNo
    BY <1>1, <1>3, <1>4, <2>3
  <2>8. ChunkTypes'
    BY <1>1, <1>2, <1>4, <1>5, <2>1, <2>4, <2>6, <2>7 DEF ChunkTypes
  <2>9. BufferInv'
    <3>0. next - next = 0
      OBVIOUS
    <3>1. Len(buffer') = 0 /\ lineNo' - startLine' = 0
      BY <1>4, <2>1, <3>0
    <3> QED
      BY <2>1, <3>1 DEF BufferInv, Plain, BlankOnly
  <2>10. CoveredInv'
    <3> SUFFICES ASSUME NEW n \in 1..Len(lines), n < lineNo'
                 PROVE  lines[n].length = 0 \/ HeldIn(chunks', n) \/ SwallowedIn(lines, n)
      BY <1>2 DEF CoveredInv
    <3>1. n < lineNo
      BY <1>1, <1>4, <2>7
    <3>2. lines[n].length = 0 \/ HeldIn(chunks, n) \/ SwallowedIn(lines, n) \/ InBuffer(n)
      BY <3>1 DEF ChunkingInv, CoveredInv
    <3> QED
      BY <2>4, <2>6, <3>2 DEF InBuffer
  <2>11. ChunksInv'
    <3>1. \A c \in 1..Len(cs) : cs[c].first < next
      <4> SUFFICES ASSUME NEW c \in 1..Len(cs) PROVE cs[c].first < next
        OBVIOUS
      <4>1. cs[c] \in Chunk
        BY <2>6, ElementOfSeq
      <4>2. cs[c].first \in Nat /\ cs[c].first <= startLine
        BY <2>6, <4>1 DEF Chunk
      <4> QED
        BY <1>1, <1>4, <4>2
    <3> QED
      BY <1>2, <1>4, <2>4, <2>6, <3>1 DEF ChunksInv
  <2> QED
    BY <2>8, <2>9, <2>10, <2>11 DEF ChunkingInv
<1>7. CASE CK!Blank
  <2>1. chunks' = chunks /\ buffer' = buffer /\ tokens' = tokens
    BY <1>2, <1>7 DEF CK!Flush
  <2>2. BlankOnly /\ tokens = 1 /\ (Plain \/ Behind) /\ buffer # << >>
    BY <1>1, <1>2, <1>7, BufferFacts DEF ChunkingInv, BufferInv
  <2>3. PICK b \in 1..Len(lines) : b = buffer[1] /\ lines[b].length = 0 /\ Len(buffer) = 1
    BY <1>1, <2>2 DEF BlankOnly
  <2>4. TooLong(lines, lineNo)
    <3>1. PICK cost \in Nat : cost = CK!Cost(lineNo)
      BY <1>1, <1>2, TokensAreNat
    <3>2. cost >= MaxTokens
      BY <1>1, <1>2, <2>2, <3>1
    <3> QED
      BY <3>1, <3>2 DEF TooLong, CK!Cost
  <2>5. /\ b < next /\ \A k \in (b + 1)..(next - 1) : TooLong(lines, k)
        /\ next = lineNo \/ (next = lineNo + 1 /\ b < lineNo /\ \A k \in (b + 1)..(lineNo - 1) : TooLong(lines, k))
    <3>1. CASE Plain
      <4>1. 1 \in 1..Len(buffer) /\ Len(buffer) = lineNo - startLine /\ buffer[1] = startLine + 1 - 1
        BY <2>3, <3>1 DEF Plain
      <4>2. b = startLine
        BY <1>1, <2>3, <4>1
      <4>3. lineNo - startLine = 1
        BY <2>3, <4>1
      <4>4. lineNo = startLine + 1
        BY <1>1, <4>3
      <4>5. next = lineNo
        BY <1>1, <1>3, <1>4, <4>4
      <4> QED
        BY <1>1, <4>2, <4>4, <4>5
    <3>2. CASE Behind
      <4>1. /\ lineNo = startLine /\ b < startLine /\ \A k \in (b + 1)..(startLine - 1) : TooLong(lines, k)
        <5>1. Len(buffer) = lineNo - startLine + 1
          BY <3>2 DEF Behind
        <5>2. b < startLine /\ \A k \in (b + 1)..(startLine - 1) : TooLong(lines, k)
          BY <2>3, <3>2 DEF Behind
        <5>3. lineNo - startLine + 1 = 1
          BY <2>3, <5>1
        <5> QED
          BY <1>1, <5>2, <5>3
      <4>2. next = lineNo + 1
        BY <1>1, <1>3, <1>4, <4>1
      <4>3. \A k \in (b + 1)..(next - 1) : k \in (b + 1)..(startLine - 1) \/ k = lineNo
        BY <1>1, <4>1, <4>2
      <4>4. \A k \in (b + 1)..(next - 1) : TooLong(lines, k)
        BY <2>4, <4>1, <4>3
      <4>5. b < next /\ b < lineNo
        BY <1>1, <4>1, <4>2
      <4>6. \A k \in (b + 1)..(lineNo - 1) : TooLong(lines, k)
        BY <4>1
      <4> QED
        BY <4>2, <4>4, <4>5, <4>6
    <3> QED
      BY <2>2, <3>1, <3>2
  <2>6. ChunkTypes'
    BY <1>1, <1>2, <1>4, <1>5, <2>1 DEF ChunkTypes
  <2>7. BufferInv'
    <3>1. Behind'
      BY <1>1, <1>2, <1>4, <2>1, <2>3, <2>5 DEF Behind
    <3>2. (BlankOnly => tokens = 1)'
      BY <2>1, <2>2
    <3>3. (tokens = 0 <=> buffer = << >>)'
      BY <2>1, <2>2
    <3>4. (startLine <= Len(lines) => breadcrumb = ContextIn(lines, startLine))'
      BY <1>2, <1>4, <1>5
    <3> QED
      BY <3>1, <3>2, <3>3, <3>4 DEF BufferInv
  <2>8. CoveredInv'
    <3> SUFFICES ASSUME NEW n \in 1..Len(lines), n < next
                 PROVE  \/ lines[n].length = 0 \/ HeldIn(chunks, n) \/ SwallowedIn(lines, n)
                        \/ InBuffer(n)
      <4>1. next <= Len(lines) + 1
        BY <1>1, <1>2, <1>4
      <4> QED
        BY <1>2, <1>4, <2>1, <4>1 DEF CoveredInv, InBuffer
    <3>1. CASE n < lineNo
      BY <3>1 DEF ChunkingInv, CoveredInv
    <3>2. CASE ~(n < lineNo)
      <4>1. n = lineNo /\ next = lineNo + 1
        BY <1>1, <1>4, <3>2
      <4>2. b \in 1..(n - 1) /\ \A k \in (b + 1)..(n - 1) : TooLong(lines, k)
        BY <1>1, <2>5, <4>1
      <4> QED
        BY <2>3, <2>4, <4>1, <4>2 DEF SwallowedIn
    <3> QED
      BY <3>1, <3>2
  <2>9. ChunksInv'
    <3>1. lineNo <= Len(lines) + 1
      BY <1>1, <1>2
    <3>2. \A c \in 1..Len(chunks) : chunks[c].first < next
      <4> SUFFICES ASSUME NEW c \in 1..Len(chunks) PROVE chunks[c].first < next
        OBVIOUS
      <4>1. chunks[c] \in Chunk
        BY <1>1, ElementOfSeq
      <4>2. chunks[c].first \in Nat
        BY <4>1 DEF Chunk
      <4>3. chunks[c].first < startLine
        BY <3>1 DEF ChunkingInv, ChunksInv
      <4> QED
        BY <1>1, <1>4, <4>2, <4>3
    <3> QED
      BY <1>2, <1>4, <2>1, <3>2 DEF ChunkingInv, ChunksInv
  <2> QED
    BY <2>6, <2>7, <2>8, <2>9 DEF ChunkingInv
<1> QED
  BY <1>6, <1>7

LEMMA ChunkingGiantLine ==
    ASSUME CK!ChunkingAssumption, ChunkingInv, CK!GiantLine
    PROVE  ChunkingInv'
<1>1. /\ lineNo \in Nat /\ lineNo >= 1 /\ startLine \in Nat /\ startLine >= 1 /\ tokens \in Nat
      /\ lines \in Seq(LineKind) /\ Len(lines) \in Nat /\ MaxTokens \in Nat /\ chunks \in Seq(Chunk)
  BY DEF ChunkingInv, ChunkTypes, CK!ChunkingAssumption
<1>2. /\ lineNo <= Len(lines) /\ ~(tokens + CK!Cost(lineNo) > MaxTokens /\ tokens > 0)
      /\ CK!Cost(lineNo) > MaxTokens
      /\ chunks' = chunks \o CK!Pieces(lineNo) /\ lineNo' = lineNo + 1 /\ startLine' = lineNo + 1
      /\ UNCHANGED <<lines, buffer, tokens, breadcrumb>>
  BY DEF CK!GiantLine, CK!Reading, CK!Full
<1>3. tokens = 0
  <2>1. PICK cost \in Nat : cost = CK!Cost(lineNo)
    BY <1>1, <1>2, TokensAreNat
  <2> QED
    BY <1>1, <1>2, <2>1
<1>4. buffer = << >> /\ Len(buffer) = 0 /\ startLine = lineNo
  BY <1>1, <1>2, <1>3, BufferFacts DEF ChunkingInv
<1>5. PICK here \in 1..Len(lines) : here = lineNo
  BY <1>1, <1>2
<1>6. PICK more : more = CK!Pieces(here)
  OBVIOUS
<1>7. /\ more \in Seq(Chunk) /\ (lines[here].length > 0 => Len(more) >= 1)
      /\ \A p \in 1..Len(more) :
            more[p] = [first |-> here, last |-> here, part |-> p, lines |-> <<here>>,
                       breadcrumb |-> ContextIn(lines, here)]
  BY <1>1, <1>6, PiecesOfTheLine
<1>8. ASSUME NEW p \in 1..Len(more)
      PROVE  /\ BeginsRight(lines, more[p]) /\ more[p].first = startLine /\ more[p].lines = <<here>>
             /\ p = 1 \/ more[p - 1].part + 1 = more[p].part
  <2>1. /\ more[p].first = here /\ more[p].lines = <<here>> /\ more[p].part = p
        /\ more[p].breadcrumb = ContextIn(lines, here)
    <3>1. more[p] = [first |-> here, last |-> here, part |-> p, lines |-> <<here>>,
                     breadcrumb |-> ContextIn(lines, here)]
      BY <1>7
    <3> QED
      BY <3>1
  <2>2. ASSUME p # 1 PROVE more[p - 1].part + 1 = more[p].part
    <3>1. p - 1 \in 1..Len(more) /\ p \in Nat
      BY <1>7, <2>2
    <3>2. more[p - 1] = [first |-> here, last |-> here, part |-> p - 1, lines |-> <<here>>,
                         breadcrumb |-> ContextIn(lines, here)]
      BY <1>7, <3>1
    <3> QED
      BY <2>1, <3>1, <3>2
  <2>3. BeginsRight(lines, more[p])
    <3>1. /\ 1 \in 1..Len(<<here>>) /\ \A k \in 1..(1 - 1) : FALSE
          /\ \A k \in 1..Len(<<here>>) : k = 1 /\ <<here>>[k] = here
      OBVIOUS
    <3>2. \A k \in 1..Len(<<here>>) : <<here>>[k] = here + k - 1
      BY <3>1
    <3> QED
      BY <2>1, <3>1, <3>2 DEF BeginsRight
  <2> QED
    BY <1>4, <1>5, <2>1, <2>2, <2>3
<1>9. PICK cs : cs = chunks \o more /\ cs = chunks'
  BY <1>2, <1>5, <1>6
<1>10. /\ cs \in Seq(Chunk)
       /\ \A c \in 1..Len(cs) :
             /\ BeginsRight(lines, cs[c]) /\ cs[c].first <= startLine
             /\ c = 1 \/ cs[c - 1].first < cs[c].first \/ cs[c - 1].part + 1 = cs[c].part
       /\ \A n : HeldIn(chunks, n) => HeldIn(cs, n)
       /\ \A p \in 1..Len(more) : \A k \in 1..Len(more[p].lines) : HeldIn(cs, more[p].lines[k])
  <2>1. lineNo <= Len(lines) + 1
    BY <1>1, <1>2
  <2> QED
    BY <1>7, <1>8, <1>9, <2>1, ChunksAdded DEF ChunkingInv
<1>11. PICK next \in Nat : next = here + 1 /\ next = lineNo' /\ next = startLine'
  BY <1>1, <1>2, <1>5
<1>12. ChunkTypes'
  BY <1>1, <1>2, <1>5, <1>9, <1>10, <1>11 DEF ChunkingInv, ChunkTypes
<1>13. BufferInv'
  <2>1. Len(buffer') = 0 /\ next - next = 0 /\ buffer' = << >> /\ tokens' = 0
    BY <1>2, <1>3, <1>4
  <2> QED
    BY <1>11, <2>1 DEF BufferInv, Plain, BlankOnly
<1>14. CoveredInv'
  <2> SUFFICES ASSUME NEW n \in 1..Len(lines), n < next
               PROVE  lines[n].length = 0 \/ HeldIn(cs, n) \/ SwallowedIn(lines, n)
    BY <1>2, <1>9, <1>11 DEF CoveredInv
  <2>1. CASE n # here
    <3>1. n < lineNo
      BY <1>1, <1>5, <1>11, <2>1
    <3>2. lines[n].length = 0 \/ HeldIn(chunks, n) \/ SwallowedIn(lines, n)
      BY <1>4, <3>1 DEF ChunkingInv, CoveredInv, InBuffer
    <3> QED
      BY <1>10, <3>2
  <2>2. CASE n = here /\ lines[n].length # 0
    <3>1. lines[here].length > 0
      BY <1>1, <2>2, TokensAreNat
    <3>2. 1 \in 1..Len(more)
      BY <1>7, <3>1
    <3>3. more[1].lines = <<here>> /\ 1 \in 1..Len(<<here>>) /\ <<here>>[1] = here
      BY <1>8, <3>2
    <3> QED
      BY <1>10, <2>2, <3>2, <3>3
  <2> QED
    BY <2>1, <2>2
<1>15. ChunksInv'
  <2>1. \A c \in 1..Len(cs) : cs[c].first < next
    <3> SUFFICES ASSUME NEW c \in 1..Len(cs) PROVE cs[c].first < next
      OBVIOUS
    <3>1. cs[c] \in Chunk
      BY <1>10, ElementOfSeq
    <3>2. cs[c].first \in Nat /\ cs[c].first <= startLine
      BY <1>10, <3>1 DEF Chunk
    <3> QED
      BY <1>1, <1>4, <1>5, <1>11, <3>2
  <2> QED
    BY <1>2, <1>9, <1>10, <1>11, <2>1 DEF ChunksInv
<1> QED
  BY <1>12, <1>13, <1>14, <1>15 DEF ChunkingInv

LEMMA ChunkingAddLine ==
    ASSUME CK!ChunkingAssumption, ChunkingInv, CK!AddLine
    PROVE  ChunkingInv'
<1>1. /\ lineNo \in Nat /\ lineNo >= 1 /\ startLine \in Nat /\ startLine >= 1 /\ startLine <= lineNo
      /\ tokens \in Nat /\ buffer \in Seq(1..Len(lines)) /\ breadcrumb \in Seq(Int)
      /\ lines \in Seq(LineKind) /\ Len(lines) \in Nat /\ chunks \in Seq(Chunk)
  BY DEF ChunkingInv, ChunkTypes
<1>2. /\ lineNo <= Len(lines) /\ buffer' = Append(buffer, lineNo)
      /\ tokens' = tokens + CK!Cost(lineNo) /\ lineNo' = lineNo + 1 /\ UNCHANGED <<lines, chunks>>
      /\ IF tokens = 0 THEN startLine' = lineNo /\ breadcrumb' = CK!Context(lineNo)
         ELSE UNCHANGED <<startLine, breadcrumb>>
  BY DEF CK!AddLine, CK!Reading
<1>3. PICK here \in 1..Len(lines) : here = lineNo
  BY <1>1, <1>2
<1>4. PICK cost \in Nat \ {0} : cost = CK!Cost(lineNo)
  BY <1>1, <1>3, TokensAreNat
<1>5. PICK size \in Nat : size = Len(buffer)
  BY <1>1
<1>6. /\ buffer' \in Seq(1..Len(lines)) /\ Len(buffer') = size + 1 /\ buffer'[size + 1] = here
      /\ \A k \in 1..size : buffer'[k] = buffer[k]
  BY <1>1, <1>2, <1>3, <1>5
<1>7. /\ tokens = 0 => size = 0 /\ startLine = lineNo
      /\ tokens # 0 => size >= 1 /\ (Plain \/ Behind)
      /\ startLine' = startLine
      /\ breadcrumb' \in Seq(Int)
      /\ startLine' <= Len(lines) => breadcrumb' = ContextIn(lines, startLine')
  <2>0. lineNo <= Len(lines) + 1
    BY <1>1, <1>2
  <2>1. CASE tokens = 0
    <3>1. size = 0 /\ startLine = lineNo
      BY <1>5, <2>0, <2>1, BufferFacts DEF ChunkingInv
    <3>2. breadcrumb' = ContextIn(lines, here)
      BY <1>2, <1>3, <2>1, ContextIs
    <3>3. here \in 0..Len(lines)
      BY <1>1
    <3> QED
      BY <1>1, <1>2, <1>3, <2>1, <3>1, <3>2, <3>3, ContextIsSeq
  <2>2. CASE tokens # 0
    <3>1. size >= 1
      BY <1>1, <1>5, <2>0, <2>2, BufferFacts DEF ChunkingInv
    <3>2. buffer # << >>
      BY <1>5, <3>1
    <3>3. /\ Plain \/ Behind
          /\ startLine <= Len(lines) => breadcrumb = ContextIn(lines, startLine)
      BY <2>0, <3>2 DEF ChunkingInv, BufferInv
    <3> QED
      BY <1>1, <1>2, <2>2, <3>1, <3>3
  <2> QED
    BY <2>1, <2>2
<1>8. PICK next \in Nat : next = here + 1 /\ next = lineNo'
  BY <1>2, <1>3
<1>9. ChunkTypes'
  <2>1. next # 0 /\ next <= Len(lines) + 2 /\ startLine <= next
    BY <1>1, <1>3, <1>8
  <2>2. tokens' \in Nat
    BY <1>1, <1>2, <1>4
  <2>3. Len(lines) # 0 /\ startLine # 0
    BY <1>1
  <2> QED
    BY <1>1, <1>2, <1>6, <1>7, <1>8, <2>1, <2>2, <2>3 DEF ChunkTypes
<1>10. BufferInv'
  <2>1. (Plain \/ Behind)'
    <3>1. CASE tokens = 0
      <4>1. size = 0 /\ startLine' = here
        BY <1>3, <1>7, <3>1
      <4>2. Len(buffer') = lineNo' - startLine'
        <5>1. size + 1 = next - here
          BY <1>1, <1>8, <4>1
        <5> QED
          BY <1>6, <1>8, <4>1, <5>1
      <4>3. \A k \in 1..Len(buffer') : buffer'[k] = startLine' + k - 1
        BY <1>6, <4>1
      <4> QED
        BY <4>2, <4>3 DEF Plain
    <3>2. CASE tokens # 0 /\ Plain
      <4>1. size = lineNo - startLine /\ \A k \in 1..size : buffer[k] = startLine + k - 1
        BY <1>5, <3>2 DEF Plain
      <4>2. Len(buffer') = lineNo' - startLine'
        <5>1. size + 1 = next - startLine
          BY <1>1, <1>3, <1>8, <4>1
        <5> QED
          BY <1>6, <1>7, <1>8, <3>2, <5>1
      <4>3. \A k \in 1..(size + 1) : buffer'[k] = startLine + k - 1
        <5> SUFFICES ASSUME NEW k \in 1..(size + 1) PROVE buffer'[k] = startLine + k - 1
          OBVIOUS
        <5>1. CASE k \in 1..size
          BY <1>6, <4>1, <5>1
        <5>2. CASE k = size + 1
          BY <1>1, <1>3, <1>6, <4>1, <5>2
        <5> QED
          BY <5>1, <5>2
      <4> QED
        BY <1>6, <1>7, <4>2, <4>3 DEF Plain
    <3>3. CASE tokens # 0 /\ Behind
      <4>1. /\ size = lineNo - startLine + 1 /\ \A k \in 2..size : buffer[k] = startLine + k - 2
            /\ buffer[1] < startLine /\ lines[buffer[1]].length = 0
            /\ \A k \in (buffer[1] + 1)..(startLine - 1) : TooLong(lines, k)
        BY <1>5, <3>3 DEF Behind
      <4>2. Len(buffer') = lineNo' - startLine' + 1
        <5>1. size + 1 = next - startLine + 1
          BY <1>1, <1>3, <1>8, <4>1
        <5> QED
          BY <1>6, <1>7, <1>8, <3>3, <5>1
      <4>3. \A k \in 2..(size + 1) : buffer'[k] = startLine + k - 2
        <5> SUFFICES ASSUME NEW k \in 2..(size + 1) PROVE buffer'[k] = startLine + k - 2
          OBVIOUS
        <5>1. CASE k \in 2..size
          <6>1. k \in 1..size
            BY <5>1
          <6> QED
            BY <1>6, <4>1, <5>1, <6>1
        <5>2. CASE k = size + 1
          BY <1>1, <1>3, <1>6, <4>1, <5>2
        <5> QED
          BY <5>1, <5>2
      <4>4. buffer'[1] = buffer[1]
        BY <1>6, <1>7, <3>3
      <4> QED
        BY <1>2, <1>6, <1>7, <4>1, <4>2, <4>3, <4>4 DEF Behind
    <3> QED
      BY <1>7, <3>1, <3>2, <3>3
  <2>2. tokens' \in Nat /\ tokens' # 0 /\ buffer' # << >>
    <3>1. Len(buffer') # 0
      BY <1>5, <1>6
    <3>2. buffer' # << >>
      BY <3>1
    <3>3. tokens + cost \in Nat /\ tokens + cost # 0
      BY <1>1
    <3> QED
      BY <1>2, <1>4, <3>2, <3>3
  <2>3. BlankOnly' => tokens' = 1
    <3> SUFFICES ASSUME size = 0, lines[here].length = 0 PROVE tokens' = 1
      BY <1>2, <1>6 DEF BlankOnly
    <3>1. tokens = 0
      BY <1>7
    <3>2. CK!Cost(lineNo) = 1
      BY <1>3 DEF CK!Cost, CK!Tokens
    <3> QED
      BY <1>2, <3>1, <3>2
  <2> QED
    BY <1>2, <1>7, <2>1, <2>2, <2>3 DEF BufferInv
<1>11. CoveredInv'
  <2> SUFFICES ASSUME NEW n \in 1..Len(lines), n < next
               PROVE  \/ lines[n].length = 0 \/ HeldIn(chunks, n) \/ SwallowedIn(lines, n)
                      \/ \E k \in 1..(size + 1) : buffer'[k] = n
    <3>1. next <= Len(lines) + 1
      BY <1>1, <1>8
    <3> QED
      BY <1>2, <1>6, <1>8, <3>1 DEF CoveredInv, InBuffer
  <2>1. CASE n = here
    <3>1. size + 1 \in 1..(size + 1)
      OBVIOUS
    <3> QED
      BY <1>6, <2>1, <3>1
  <2>2. CASE n # here
    <3>1. n < lineNo
      BY <1>3, <1>8, <2>2
    <3>2. \/ lines[n].length = 0 \/ HeldIn(chunks, n) \/ SwallowedIn(lines, n)
          \/ \E k \in 1..size : buffer[k] = n
      BY <1>5, <3>1 DEF ChunkingInv, CoveredInv, InBuffer
    <3>3. \A k \in 1..size : k \in 1..(size + 1) /\ buffer'[k] = buffer[k]
      BY <1>6
    <3> QED
      BY <3>2, <3>3
  <2> QED
    BY <2>1, <2>2
<1>12. ChunksInv'
  <2>1. lineNo <= Len(lines) + 1
    BY <1>1, <1>2
  <2> QED
    BY <1>2, <1>7, <2>1 DEF ChunkingInv, ChunksInv
<1> QED
  BY <1>9, <1>10, <1>11, <1>12 DEF ChunkingInv

LEMMA ChunkingReturn ==
    ASSUME CK!ChunkingAssumption, ChunkingInv, CK!Return
    PROVE  ChunkingInv'
<1>1. /\ lineNo \in Nat /\ startLine \in Nat /\ startLine >= 1 /\ startLine <= lineNo /\ tokens \in Nat
      /\ Len(lines) \in Nat /\ buffer \in Seq(1..Len(lines)) /\ chunks \in Seq(Chunk)
  BY DEF ChunkingInv, ChunkTypes
<1>2. /\ lineNo = Len(lines) + 1 /\ CK!Flush(Len(lines)) /\ lineNo' = lineNo + 1
      /\ UNCHANGED <<lines, startLine, breadcrumb>>
  BY DEF CK!Return
<1>3. PICK n \in Nat : n = Len(lines)
  BY <1>1
<1>4. lineNo' = n + 2 /\ ~(lineNo' <= Len(lines) + 1) /\ lineNo <= Len(lines) + 1
  BY <1>1, <1>2, <1>3
<1>5. ASSUME NEW cs \in Seq(Chunk), chunks' = cs, buffer' \in Seq(1..Len(lines)), tokens' \in Nat,
             \A c \in 1..Len(cs) :
                /\ BeginsRight(lines, cs[c])
                /\ c = 1 \/ cs[c - 1].first < cs[c].first \/ cs[c - 1].part + 1 = cs[c].part,
             \A m : HeldIn(chunks, m) => HeldIn(cs, m),
             \A k \in 1..Len(buffer) : HeldIn(cs, buffer[k]) \/ lines[buffer[k]].length = 0
      PROVE  ChunkingInv'
  <2>1. ChunkTypes'
    <3>1. lineNo' \in Nat \ {0} /\ lineNo' <= Len(lines) + 2 /\ startLine <= lineNo'
      BY <1>1, <1>2, <1>3, <1>4
    <3> QED
      BY <1>2, <1>5, <3>1 DEF ChunkingInv, ChunkTypes
  <2>2. BufferInv'
    BY <1>2, <1>4 DEF BufferInv
  <2>3. CoveredInv'
    <3> SUFFICES ASSUME NEW m \in 1..Len(lines)
                 PROVE  lines[m].length = 0 \/ HeldIn(cs, m) \/ SwallowedIn(lines, m)
      BY <1>2, <1>5 DEF CoveredInv
    <3>1. m < lineNo
      BY <1>1, <1>2
    <3>2. lines[m].length = 0 \/ HeldIn(chunks, m) \/ SwallowedIn(lines, m) \/ InBuffer(m)
      BY <3>1 DEF ChunkingInv, CoveredInv
    <3> QED
      BY <1>5, <3>2 DEF InBuffer
  <2>4. ChunksInv'
    BY <1>2, <1>4, <1>5 DEF ChunksInv
  <2> QED
    BY <2>1, <2>2, <2>3, <2>4 DEF ChunkingInv
<1>6. CASE ~CK!Blank
  <2>1. /\ chunks' = Append(chunks, [first |-> startLine, last |-> Len(lines), part |-> 0, lines |-> buffer,
                                     breadcrumb |-> breadcrumb])
        /\ buffer' = << >> /\ tokens' = 0
    BY <1>2, <1>6 DEF CK!Flush
  <2>2. PICK chunk : chunk = [first |-> startLine, last |-> Len(lines), part |-> 0, lines |-> buffer,
                              breadcrumb |-> breadcrumb]
    OBVIOUS
  <2>3. tokens > 0
    <3>1. buffer # << >> /\ (tokens = 0 <=> buffer = << >>)
      BY <1>4, <1>6 DEF CK!Blank, ChunkingInv, BufferInv
    <3> QED
      BY <1>1, <3>1
  <2>4. chunk \in Chunk /\ BeginsRight(lines, chunk)
    BY <1>1, <1>4, <1>6, <2>2, <2>3, FlushedBegins DEF ChunkingInv
  <2>5. PICK cs : cs = chunks \o <<chunk>> /\ cs = chunks'
    <3>1. Append(chunks, chunk) = chunks \o <<chunk>>
      BY <1>1, <2>4, AppendIsConcat
    <3> QED
      BY <2>1, <2>2, <3>1
  <2>6. /\ <<chunk>> \in Seq(Chunk) /\ Len(<<chunk>>) = 1
        /\ \A p \in 1..1 : p = 1 /\ <<chunk>>[p] = chunk
        /\ chunk.first = startLine /\ chunk.lines = buffer
    BY <2>2, <2>4
  <2>7. \A p \in 1..Len(<<chunk>>) :
            /\ BeginsRight(lines, <<chunk>>[p]) /\ <<chunk>>[p].first = startLine
            /\ p = 1 \/ <<chunk>>[p - 1].part + 1 = <<chunk>>[p].part
    BY <2>4, <2>6
  <2>8. /\ cs \in Seq(Chunk)
        /\ \A c \in 1..Len(cs) :
              /\ BeginsRight(lines, cs[c]) /\ cs[c].first <= startLine
              /\ c = 1 \/ cs[c - 1].first < cs[c].first \/ cs[c - 1].part + 1 = cs[c].part
        /\ \A m : HeldIn(chunks, m) => HeldIn(cs, m)
        /\ \A p \in 1..Len(<<chunk>>) : \A k \in 1..Len(<<chunk>>[p].lines) : HeldIn(cs, <<chunk>>[p].lines[k])
    BY <1>4, <2>5, <2>6, <2>7, ChunksAdded DEF ChunkingInv
  <2>9. 1 \in 1..Len(<<chunk>>) /\ <<chunk>>[1].lines = buffer
    BY <2>6
  <2>10. buffer' \in Seq(1..Len(lines)) /\ tokens' \in Nat
    BY <2>1
  <2> QED
    BY <1>5, <2>5, <2>8, <2>9, <2>10
<1>7. CASE CK!Blank
  <2>1. chunks' = chunks /\ buffer' = buffer /\ tokens' = tokens
    BY <1>2, <1>7 DEF CK!Flush
  <2>2. \A k \in 1..Len(buffer) : lines[buffer[k]].length = 0
    BY <1>7 DEF CK!Blank
  <2>3. \A c \in 1..Len(chunks) :
            /\ BeginsRight(lines, chunks[c])
            /\ c = 1 \/ chunks[c - 1].first < chunks[c].first \/ chunks[c - 1].part + 1 = chunks[c].part
    BY DEF ChunkingInv, ChunksInv
  <2> QED
    BY <1>1, <1>5, <2>1, <2>2, <2>3
<1> QED
  BY <1>6, <1>7

LEMMA ChunkingStutters ==
    ASSUME ChunkingInv, UNCHANGED ckVars
    PROVE  ChunkingInv'
BY DEF ckVars, ChunkingInv, ChunkTypes, BufferInv, CoveredInv, ChunksInv, Plain, Behind, BlankOnly, InBuffer

\* The invariant implies what the run checks.
LEMMA ChunkingInvKeepsText ==
    ASSUME CK!ChunkingAssumption, ChunkingInv
    PROVE  CK!TextIsKept
<1>1. lines \in Seq(LineKind) /\ Len(lines) \in Nat /\ lineNo \in Nat /\ chunks \in Seq(Chunk)
  BY DEF ChunkingInv, ChunkTypes
<1> SUFFICES ASSUME lineNo > Len(lines) + 1
             PROVE  /\ \A n \in 1..Len(lines) : lines[n].length = 0 \/ CK!Held(n) \/ CK!Swallowed(n)
                    /\ \A c \in 1..Len(chunks) :
                          /\ chunks[c].breadcrumb = CK!Context(chunks[c].first)
                          /\ CK!HasText(chunks[c]) =>
                                chunks[c].breadcrumb = CK!Context(CK!FirstText(chunks[c]))
                                \/ CK!Overlooked(chunks[c])
                          /\ c = 1 \/ chunks[c - 1].first < chunks[c].first
                                   \/ chunks[c - 1].part + 1 = chunks[c].part
  BY DEF CK!TextIsKept
<1>2. ASSUME NEW n \in 1..Len(lines) PROVE lines[n].length = 0 \/ CK!Held(n) \/ CK!Swallowed(n)
  <2>1. n < lineNo /\ ~(lineNo <= Len(lines) + 1)
    BY <1>1
  <2>2. lines[n].length = 0 \/ HeldIn(chunks, n) \/ SwallowedIn(lines, n)
    BY <2>1 DEF ChunkingInv, CoveredInv
  <2>3. ASSUME HeldIn(chunks, n) PROVE CK!Held(n)
    <3>1. PICK c \in 1..Len(chunks) : \E k \in 1..Len(chunks[c].lines) : chunks[c].lines[k] = n
      BY <2>3 DEF HeldIn
    <3>2. chunks[c] \in Chunk
      BY <1>1, ElementOfSeq
    <3>3. DOMAIN chunks[c].lines = 1..Len(chunks[c].lines)
      BY <3>2 DEF Chunk
    <3> QED
      BY <3>1, <3>3 DEF CK!Held, CK!ToSet
  <2>4. ASSUME SwallowedIn(lines, n) PROVE CK!Swallowed(n)
    BY <2>4 DEF SwallowedIn, TooLong, CK!Swallowed, CK!Cost
  <2> QED
    BY <2>2, <2>3, <2>4
<1>3. ASSUME NEW c \in 1..Len(chunks)
      PROVE  /\ chunks[c].breadcrumb = CK!Context(chunks[c].first)
             /\ CK!HasText(chunks[c]) =>
                   chunks[c].breadcrumb = CK!Context(CK!FirstText(chunks[c])) \/ CK!Overlooked(chunks[c])
             /\ c = 1 \/ chunks[c - 1].first < chunks[c].first
                      \/ chunks[c - 1].part + 1 = chunks[c].part
  <2>1. /\ BeginsRight(lines, chunks[c])
        /\ c = 1 \/ chunks[c - 1].first < chunks[c].first \/ chunks[c - 1].part + 1 = chunks[c].part
    BY DEF ChunkingInv, ChunksInv
  <2>2. PICK chunk \in Chunk : chunk = chunks[c]
    BY <1>1, ElementOfSeq
  <2>3. chunk.breadcrumb = ContextIn(lines, chunk.first)
    BY <2>1, <2>2 DEF BeginsRight
  <2>4. ContextIn(lines, chunk.first) = CK!Context(chunk.first)
    BY ContextIs
  <2>5. ASSUME CK!HasText(chunk)
        PROVE  chunk.breadcrumb = CK!Context(CK!FirstText(chunk)) \/ CK!Overlooked(chunk)
    <3> DEFINE T == {k \in DOMAIN chunk.lines : lines[chunk.lines[k]].length > 0}
    <3>1. PICK j \in 1..Len(chunk.lines) :
              /\ \A k \in j..Len(chunk.lines) : chunk.lines[k] = chunk.first + k - j
              /\ \A k \in 1..(j - 1) : lines[chunk.lines[k]].length = 0
      BY <2>1, <2>2 DEF BeginsRight
    <3>2. /\ DOMAIN chunk.lines = 1..Len(chunk.lines) /\ Len(chunk.lines) \in Nat
          /\ chunk.first \in 1..Len(lines) /\ \A k \in 1..Len(chunk.lines) : chunk.lines[k] \in 1..Len(lines)
      BY <2>1, <2>2 DEF Chunk, BeginsRight
    <3>3. T \in SUBSET Nat /\ T # {}
      BY <2>5, <3>2 DEF CK!HasText, CK!ToSet
    <3>4. CK!FirstText(chunk) = chunk.lines[CK!Min(T)] /\ CK!Min(T) = Min(T)
      <4>1. CK!FirstText(chunk) = chunk.lines[CK!Min(T)]
        BY DEF CK!FirstText, T
      <4>2. CK!Min(T) = Min(T)
        BY Zenon DEF CK!Min, Min
      <4> QED
        BY <4>1, <4>2
    <3>5. PICK m \in 1..Len(chunk.lines) : /\ m = Min(T) /\ lines[chunk.lines[m]].length > 0
                                           /\ \A k \in 1..(m - 1) : k \notin T
      <4> HIDE DEF T
      <4>1. Min(T) \in T /\ \A x \in T : Min(T) <= x
        BY <3>3, MinOfNaturals
      <4>2. Min(T) \in 1..Len(chunk.lines) /\ lines[chunk.lines[Min(T)]].length > 0
        BY <3>2, <4>1 DEF T
      <4>3. \A k \in 1..(Min(T) - 1) : k \notin T
        BY <4>1, <4>2
      <4> QED
        BY <4>2, <4>3
    <3>6. \A k \in 1..(m - 1) : k \in 1..Len(chunk.lines) /\ lines[chunk.lines[k]].length = 0
      <4> SUFFICES ASSUME NEW k \in 1..(m - 1)
                   PROVE  k \in 1..Len(chunk.lines) /\ lines[chunk.lines[k]].length = 0
        OBVIOUS
      <4>1. k \in 1..Len(chunk.lines) /\ ~(lines[chunk.lines[k]].length > 0)
        <5>1. k \in 1..Len(chunk.lines)
          BY <3>2
        <5>2. k \notin T
          <6> HIDE DEF T
          <6> QED
            BY <3>5
        <5> QED
          BY <3>2, <5>1, <5>2
      <4>2. lines[chunk.lines[k]].length \in Nat
        BY <1>1, <3>2, <4>1, TokensAreNat
      <4> QED
        BY <4>1, <4>2
    <3>7. j <= m
      <4> SUFFICES ASSUME m < j PROVE FALSE
        BY <3>2
      <4>1. m \in 1..(j - 1)
        BY <3>2
      <4>2. lines[chunk.lines[m]].length = 0
        BY <3>1, <4>1
      <4> QED
        BY <3>5, <4>2
    <3>8. PICK gap \in Nat, f \in Nat, size \in Nat : gap = m - j /\ f = chunk.first /\ size = Len(chunk.lines)
      <4> DEFINE g == m - j
                 len == Len(chunk.lines)
      <4>1. g \in Nat /\ chunk.first \in Nat /\ len \in Nat
        BY <3>2, <3>7
      <4> QED
        BY ONLY <4>1, Zenon DEF g, len
    <3>9. CK!FirstText(chunk) = f + gap /\ f + gap \in 1..Len(lines) /\ f \in 1..Len(lines)
      <4>1. m \in j..Len(chunk.lines)
        BY <3>7
      <4>2. chunk.lines[m] = chunk.first + m - j /\ chunk.lines[m] \in 1..Len(lines)
        BY <3>1, <3>2, <4>1
      <4>3. f + m - j = f + gap
        BY <3>8
      <4> QED
        BY <3>2, <3>4, <3>5, <3>8, <4>2, <4>3
    <3> HIDE DEF T
    <3>10. ASSUME NEW n \in Nat, f <= n, n < f + gap
           PROVE  lines[n].length = 0 /\ lines[n].kind = "text"
      <4>1. PICK k \in Nat : k = n - f + j
        <5>1. n \in Nat /\ f \in Nat /\ j \in Nat /\ f <= n
          BY <3>1, <3>2, <3>8, <3>10
        <5>2. n - f + j \in Nat
          BY ONLY <5>1, SMT
        <5> QED
          BY ONLY <5>2, Zenon
      <4>2. k >= 1 /\ k <= m - 1 /\ j <= k /\ k <= size /\ f + k - j = n
        <5>1. j \in Nat /\ j >= 1 /\ m \in Nat /\ size \in Nat /\ f \in Nat /\ gap \in Nat /\ n \in Nat
          BY <3>2, <3>8
        <5>2. f <= n /\ n < f + gap /\ gap = m - j /\ m <= size
          BY <3>2, <3>8, <3>10
        <5> QED
          BY ONLY <4>1, <5>1, <5>2, SMT
      <4>3. k \in 1..(m - 1) /\ k \in j..Len(chunk.lines) /\ k \in 1..Len(chunk.lines)
        BY <3>8, <4>2
      <4>4. chunk.lines[k] = n /\ lines[chunk.lines[k]].length = 0 /\ chunk.lines[k] \in 1..Len(lines)
        BY <3>1, <3>2, <3>6, <3>8, <4>2, <4>3
      <4>5. lines[n] \in LineKind
        BY <1>1, <4>4, ElementOfSeq
      <4> QED
        BY <4>4, <4>5 DEF CK!ChunkingAssumption
    <3>11. CASE gap = 0
      <4>1. CK!FirstText(chunk) = chunk.first
        BY <3>8, <3>9, <3>11
      <4> QED
        BY <2>3, <2>4, <4>1
    <3>12. CASE gap # 0 /\ lines[f + gap].kind = "heading"
      <4>1. lines[f].length = 0
        BY <3>10, <3>12
      <4> QED
        BY <3>8, <3>9, <3>12, <4>1 DEF CK!Overlooked
    <3>13. CASE lines[f + gap].kind # "heading"
      <4>1. ASSUME NEW n \in (f + 1)..(f + gap) PROVE lines[n].kind # "heading"
        <5>1. n = f + gap \/ (n \in Nat /\ f <= n /\ n < f + gap)
          OBVIOUS
        <5>2. CASE n \in Nat /\ f <= n /\ n < f + gap
          BY <3>10, <5>2
        <5> QED
          BY <3>13, <5>1, <5>2
      <4>2. f + gap <= Len(lines)
        BY <3>9
      <4>3. ContextIn(lines, f + gap) = ContextIn(lines, f)
        BY <1>1, <3>9, <4>1, <4>2, ContextSpans
      <4>4. CK!Context(CK!FirstText(chunk)) = ContextIn(lines, f + gap)
        BY <3>9, ContextIs
      <4> QED
        BY <2>3, <3>8, <4>3, <4>4
    <3> QED
      BY <3>11, <3>12, <3>13
  <2> QED
    BY <2>1, <2>2, <2>3, <2>4, <2>5
<1> QED
  BY <1>2, <1>3

\* TextIsKept of Chunking: in any document no line of text is lost on the way through
\* windows, overlaps and pieces of long lines, but those the code can swallow behind a
\* blank one; the chunks follow the text, each with the headings above its first line of
\* text, but for a heading that is that line itself, behind a blank one
\* (ChunkDocument in chunker.go, ExtractBreadcrumbs in breadcrumbs.go).
THEOREM TextStaysKept ==
    ASSUME CK!ChunkingAssumption
    PROVE  PartsSpec => []TextIsKept
<1> DEFINE Inv == part = "chunking" => ChunkingInv
<1>1. PartsInit => Inv
  BY ChunkingStarts DEF PartsInit
<1>2. Inv /\ [PartsNext]_partVars => Inv'
  <2> SUFFICES ASSUME Inv, [PartsNext]_partVars, part = "chunking" PROVE ChunkingInv'
    BY PartSteps
  <2>1. [CK!Next]_ckVars
    BY PartSteps
  <2> QED
    BY <2>1, ChunkingWindowFull, ChunkingGiantLine, ChunkingAddLine, ChunkingReturn, ChunkingStutters
       DEF CK!Next
<1>3. Inv => TextIsKept
  BY ChunkingInvKeepsText DEF TextIsKept
<1> QED
  BY <1>1, <1>2, <1>3, PTL DEF PartsSpec

-----------------------------------------------------------------------------
(* Metasearch: what a search has ranked and fused are listings of finite sets, *)
(* and its hits are a fusion of the two rankings it keeps.                     *)

\* The fields of an execution, whatever they hold.
IsFlight(r) ==
    r = [stage |-> r.stage, todo |-> r.todo, fetching |-> r.fetching,
         lexical |-> r.lexical, hits |-> r.hits, vector |-> r.vector]

Listing(s) == s \in Seq(Range(s)) /\ IsFiniteSet(Range(s))

FusionInv ==
    /\ IsFiniteSet(pagesIn)
    /\ DOMAIN flights = ME!FlightKey
    /\ \A f \in ME!FlightKey :
          /\ IsFlight(flights[f])
          /\ Listing(flights[f].lexical) /\ Listing(flights[f].vector)
          /\ flights[f].stage = "done" =>
                flights[f].hits \in ME!ReciprocalRankFusion(flights[f].lexical, flights[f].vector, f[2])

LEMMA ListingOf ==
    ASSUME NEW X, IsFiniteSet(X), NEW s \in Seq(X)
    PROVE  Listing(s)
<1>1. Range(s) \subseteq X /\ DOMAIN s = 1..Len(s) /\ Len(s) \in Nat
  BY ElementOfSeq DEF Range
<1>2. s \in Seq(Range(s))
  BY <1>1 DEF Range
<1> QED
  BY <1>1, <1>2, FS_Subset DEF Listing

LEMMA RankingIsSeq ==
    ASSUME NEW S, IsFiniteSet(S), NEW s \in ME!SetToSeqs(S)
    PROVE  /\ s \in Seq(S) /\ Len(s) = Cardinality(S) /\ Len(s) \in Nat
           /\ \A x \in S : \E i \in 1..Len(s) : s[i] = x
           /\ \A i, j \in 1..Len(s) : s[i] = s[j] => i = j
<1>1. Cardinality(S) \in Nat /\ s \in [1..Cardinality(S) -> S]
      /\ \A i, j \in 1..Cardinality(S) : i # j => s[i] # s[j]
  <2>1. ME!Cardinality(S) = Cardinality(S)
    BY Zenon DEF ME!Cardinality, Cardinality
  <2> QED
    BY <2>1, FS_CardinalityType DEF ME!SetToSeqs
<1>2. s \in Seq(S) /\ Len(s) = Cardinality(S)
  BY <1>1
<1>3. s \in Injection(1..Cardinality(S), S)
  BY <1>1 DEF Injection, IsInjective
<1>4. IsFiniteSet(1..Cardinality(S)) /\ Cardinality(1..Cardinality(S)) = Cardinality(S)
  BY <1>1, FS_Interval
<1>5. s \in Surjection(1..Cardinality(S), S)
  BY <1>3, <1>4, FS_Injection
<1> QED
  BY <1>1, <1>2, <1>5 DEF Surjection

LEMMA CutIs ==
    ASSUME NEW X, NEW s \in Seq(X), NEW k \in Nat
    PROVE  /\ ME!Cut(s, k) \in Seq(X)
           /\ Len(ME!Cut(s, k)) = IF k > 0 /\ Len(s) > k THEN k ELSE Len(s)
           /\ \A i \in 1..Len(ME!Cut(s, k)) : ME!Cut(s, k)[i] = s[i]
<1>1. Len(s) \in Nat
  OBVIOUS
<1>2. CASE k > 0 /\ Len(s) > k
  <2>1. ME!Cut(s, k) = SubSeq(s, 1, k)
    BY <1>2 DEF ME!Cut
  <2>2. /\ SubSeq(s, 1, k) \in Seq(X) /\ Len(SubSeq(s, 1, k)) = k
        /\ \A i \in 1..k : SubSeq(s, 1, k)[i] = s[i]
    BY <1>1, <1>2, SubSeqProperties
  <2> QED
    BY <1>2, <2>1, <2>2
<1>3. CASE ~(k > 0 /\ Len(s) > k)
  BY <1>3 DEF ME!Cut
<1> QED
  BY <1>2, <1>3

LEMMA RankedPages ==
    ASSUME IsFiniteSet(pagesIn), NEW k \in Nat, NEW list \in ME!RankDocuments(k)
    PROVE  Listing(list)
<1> DEFINE S == {u \in pagesIn : ME!PageScore(u) > 0}
<1>1. IsFiniteSet(S)
  BY FS_Subset
<1>2. PICK s \in ME!SetToSeqs(S) : list = ME!Cut(s, k)
  BY DEF ME!RankDocuments, ME!Orders
<1> HIDE DEF S
<1>3. s \in Seq(S)
  BY <1>1, RankingIsSeq
<1> QED
  BY <1>1, <1>2, <1>3, CutIs, ListingOf

LEMMA RankedVectors ==
    ASSUME IsFiniteSet(pagesIn), NEW k \in Nat, NEW list \in ME!SearchVector(k)
    PROVE  Listing(list)
<1>1. CASE list = << >>
  <2>1. << >> \in Seq({}) /\ IsFiniteSet({})
    BY FS_EmptySet
  <2> QED
    BY <1>1, <2>1, ListingOf
<1>2. CASE list # << >>
  <2> DEFINE S == pagesIn \X {0, 1}
  <2>1. IsFiniteSet(S)
    <3>1. IsFiniteSet({0}) /\ {0, 1} = {0} \cup {1}
      BY FS_Singleton
    <3>2. IsFiniteSet({0, 1})
      BY <3>1, FS_AddElement
    <3> QED
      BY <3>2, FS_Product
  <2>2. PICK s \in ME!SetToSeqs(S) : list = ME!Cut(s, k)
    BY <1>2 DEF ME!SearchVector, ME!Orders
  <2> HIDE DEF S
  <2>3. s \in Seq(S)
    BY <2>1, <2>2, RankingIsSeq
  <2> QED
    BY <2>1, <2>2, <2>3, CutIs, ListingOf
<1> QED
  BY <1>1, <1>2

LEMMA NothingFused ==
    ASSUME pagesIn = {}, flights = [f \in ME!FlightKey |-> ME!Grounded]
    PROVE  FusionInv
<1>1. << >> \in Seq({}) /\ IsFiniteSet({})
  BY FS_EmptySet
<1>2. Listing(<< >>)
  BY <1>1, ListingOf
<1>3. IsFlight(ME!Grounded) /\ ME!Grounded.stage # "done"
      /\ ME!Grounded.lexical = << >> /\ ME!Grounded.vector = << >>
  BY DEF ME!Grounded, IsFlight
<1> QED
  BY <1>1, <1>2, <1>3 DEF FusionInv

LEMMA FusionStarts == ME!Init => FusionInv
  BY NothingFused DEF ME!Init

LEMMA KeysOfFlights ==
    ASSUME ME!MetasearchAssumption, NEW f \in ME!FlightKey
    PROVE  f[2] \in Nat /\ f[2] > 0 /\ 2 * f[2] \in Nat
<1>1. f[2] \in (TopK \ {0}) \cup {Default}
  BY DEF ME!FlightKey
<1>2. \A k \in (TopK \ {0}) \cup {Default} : k \in Nat /\ k > 0 /\ 2 * k \in Nat
  BY DEF ME!MetasearchAssumption
<1> QED
  BY <1>1, <1>2

\* Fields that change.
LEMMA FlightField ==
    ASSUME NEW o, IsFlight(o), NEW a
    PROVE  /\ IsFlight([o EXCEPT !.stage = a]) /\ IsFlight([o EXCEPT !.todo = a])
           /\ IsFlight([o EXCEPT !.lexical = a]) /\ IsFlight([o EXCEPT !.hits = a])
           /\ IsFlight([o EXCEPT !.vector = a])
           /\ DOMAIN o = {"stage", "todo", "fetching", "lexical", "hits", "vector"}
  BY DEF IsFlight

LEMMA FlightFields ==
    ASSUME NEW o, IsFlight(o), NEW a, NEW b, NEW c
    PROVE  /\ IsFlight([o EXCEPT !.stage = a, !.todo = b])
           /\ IsFlight([o EXCEPT !.stage = a, !.lexical = b])
           /\ IsFlight([o EXCEPT !.stage = a, !.vector = b, !.hits = c])
<1> DEFINE p == [o EXCEPT !.stage = a]
           q == [p EXCEPT !.vector = b]
<1>1. /\ [o EXCEPT !.stage = a, !.todo = b] = [p EXCEPT !.todo = b]
      /\ [o EXCEPT !.stage = a, !.lexical = b] = [p EXCEPT !.lexical = b]
      /\ [o EXCEPT !.stage = a, !.vector = b, !.hits = c] = [q EXCEPT !.hits = c]
  OBVIOUS
<1>2. IsFlight(p)
  BY FlightField
<1> HIDE DEF p
<1>3. IsFlight(q)
  BY <1>2, FlightField
<1> HIDE DEF q
<1> QED
  BY <1>1, <1>2, <1>3, FlightField

\* An execution that has changed is listed again, and done only by Fuse.
LEMMA FlightChanges ==
    ASSUME FusionInv, NEW f \in ME!FlightKey, NEW r,
           flights' = [flights EXCEPT ![f] = r], IsFiniteSet(pagesIn'),
           IsFlight(r), Listing(r.lexical), Listing(r.vector),
           r.stage = "done" => r.hits \in ME!ReciprocalRankFusion(r.lexical, r.vector, f[2])
    PROVE  FusionInv'
<1>1. DOMAIN flights' = ME!FlightKey
  BY DEF FusionInv
<1>2. \A g \in ME!FlightKey : flights'[g] = IF g = f THEN r ELSE flights[g]
  BY DEF FusionInv
<1> QED
  BY <1>1, <1>2 DEF FusionInv

LEMMA FusionStep ==
    ASSUME ME!MetasearchAssumption, FusionInv, [ME!Next]_meVars
    PROVE  FusionInv'
<1>1. ASSUME NEW c \in Caller, ME!Search(c)
      PROVE  FusionInv'
  <2>1. UNCHANGED pagesIn
    BY <1>1 DEF ME!Search
  <2>2. CASE UNCHANGED flights
    BY <2>1, <2>2 DEF FusionInv
  <2>3. CASE ~UNCHANGED flights
    <3>1. PICK q \in Query, k \in TopK :
              /\ Folded[q] # ""
              /\ LET f == <<Folded[q], IF k <= 0 THEN Default ELSE k>>
                 IN  flights' = [flights EXCEPT ![f].stage = "search"]
      BY <1>1, <2>3 DEF ME!Search
    <3> DEFINE f == <<Folded[q], IF k <= 0 THEN Default ELSE k>>
               r == [flights[f] EXCEPT !.stage = "search"]
    <3>2. f \in ME!FlightKey
      <4>1. (IF k <= 0 THEN Default ELSE k) \in (TopK \ {0}) \cup {Default}
        BY DEF ME!MetasearchAssumption
      <4> QED
        BY <3>1, <4>1 DEF ME!FlightKey
    <3>3. flights' = [flights EXCEPT ![f] = r]
      BY <3>1
    <3> HIDE DEF f
    <3>4. IsFlight(r) /\ r.lexical = flights[f].lexical /\ r.vector = flights[f].vector /\ r.stage = "search"
      BY <3>2 DEF FusionInv, IsFlight
    <3> HIDE DEF r
    <3> QED
      BY <2>1, <3>2, <3>3, <3>4, FlightChanges DEF FusionInv
  <2> QED
    BY <2>2, <2>3
<1>2. ASSUME NEW c \in Caller, ME!Leave(c)
      PROVE  FusionInv'
  BY <1>2 DEF ME!Leave, FusionInv
<1>3. ASSUME NEW u \in Page, ME!Elsewhere(u)
      PROVE  FusionInv'
  <2>1. IsFiniteSet(pagesIn \cup {u}) /\ IsFiniteSet(pagesIn \ {u})
    BY FS_AddElement, FS_RemoveElement DEF FusionInv
  <2> QED
    BY <1>3, <2>1 DEF ME!Elsewhere, FusionInv
<1>4. ASSUME NEW f \in ME!FlightKey, ME!ProviderAnswers(f)
      PROVE  FusionInv'
  <2>1. PICK s \in ME!Answer :
            flights' = [flights EXCEPT ![f].stage = "fetch", ![f].todo = ME!Found(s, 2 * f[2])]
    BY <1>4 DEF ME!ProviderAnswers
  <2> DEFINE found == ME!Found(s, 2 * f[2])
             r == [flights[f] EXCEPT !.stage = "fetch", !.todo = found]
  <2>2. flights' = [flights EXCEPT ![f] = r]
    BY <2>1
  <2> HIDE DEF found
  <2>3. IsFlight(r) /\ r.lexical = flights[f].lexical /\ r.vector = flights[f].vector /\ r.stage = "fetch"
    <3>1. IsFlight(flights[f])
      BY DEF FusionInv
    <3> QED
      BY Zenon, <3>1, FlightField, FlightFields
  <2> HIDE DEF r
  <2> QED
    BY <1>4, <2>2, <2>3, FlightChanges DEF FusionInv, ME!ProviderAnswers
<1>5. ASSUME NEW f \in ME!FlightKey, ME!StartFetch(f)
      PROVE  FusionInv'
  <2> DEFINE todo == Tail(flights[f].todo)
             fetching == Append(flights[f].fetching, Head(flights[f].todo))
             r == [flights[f] EXCEPT !.todo = todo, !.fetching = fetching]
  <2>1. flights' = [flights EXCEPT ![f] = r]
    BY <1>5 DEF ME!StartFetch
  <2> HIDE DEF todo, fetching
  <2>2. IsFlight(r) /\ r.lexical = flights[f].lexical /\ r.vector = flights[f].vector /\ r.stage = "fetch"
    BY <1>5 DEF FusionInv, IsFlight, ME!StartFetch, ME!Stage
  <2> HIDE DEF r
  <2> QED
    BY <1>5, <2>1, <2>2, FlightChanges DEF FusionInv, ME!StartFetch
<1>6. ASSUME NEW f \in ME!FlightKey, ME!PageFetched(f)
      PROVE  FusionInv'
  <2>1. PICK n \in DOMAIN flights[f].fetching :
            /\ pagesIn' \in {pagesIn, pagesIn \cup {flights[f].fetching[n]}}
            /\ flights' = [flights EXCEPT ![f].fetching = ME!RemoveAt(@, n)]
    BY <1>6 DEF ME!PageFetched
  <2> DEFINE fetching == ME!RemoveAt(flights[f].fetching, n)
             r == [flights[f] EXCEPT !.fetching = fetching]
  <2>2. flights' = [flights EXCEPT ![f] = r]
    BY <2>1
  <2> HIDE DEF fetching
  <2>3. IsFlight(r) /\ r.lexical = flights[f].lexical /\ r.vector = flights[f].vector /\ r.stage = "fetch"
    BY <1>6 DEF FusionInv, IsFlight, ME!PageFetched, ME!Stage
  <2>4. IsFiniteSet(pagesIn')
    BY <2>1, FS_AddElement DEF FusionInv
  <2> HIDE DEF r
  <2> QED
    BY <2>2, <2>3, <2>4, FlightChanges DEF FusionInv
<1>7. ASSUME NEW f \in ME!FlightKey, ME!RankPages(f)
      PROVE  FusionInv'
  <2>1. PICK list \in ME!RankDocuments(2 * f[2]) :
            flights' = [flights EXCEPT ![f].stage = "ranked", ![f].lexical = list]
    BY <1>7 DEF ME!RankPages
  <2> DEFINE r == [flights[f] EXCEPT !.stage = "ranked", !.lexical = list]
  <2>2. flights' = [flights EXCEPT ![f] = r]
    BY <2>1
  <2>3. IsFlight(r) /\ r.lexical = list /\ r.vector = flights[f].vector /\ r.stage = "ranked"
    <3>1. IsFlight(flights[f])
      BY DEF FusionInv
    <3> QED
      BY Zenon, <3>1, FlightField, FlightFields
  <2>4. Listing(list)
    <3>1. IsFiniteSet(pagesIn) /\ 2 * f[2] \in Nat
      BY KeysOfFlights DEF FusionInv
    <3> QED
      BY <3>1, RankedPages
  <2>5. IsFiniteSet(pagesIn')
    BY <1>7 DEF ME!RankPages, FusionInv
  <2> HIDE DEF r
  <2> QED
    BY <2>2, <2>3, <2>4, <2>5, FlightChanges DEF FusionInv
<1>8. ASSUME NEW f \in ME!FlightKey, ME!Fuse(f)
      PROVE  FusionInv'
  <2>1. PICK list \in ME!SearchVector(2 * f[2]) :
            \E hits \in ME!ReciprocalRankFusion(flights[f].lexical, list, f[2]) :
               flights' = [flights EXCEPT ![f].stage = "done", ![f].vector = list, ![f].hits = hits]
    BY Zenon, <1>8 DEF ME!Fuse
  <2>2. PICK hits \in ME!ReciprocalRankFusion(flights[f].lexical, list, f[2]) :
            flights' = [flights EXCEPT ![f].stage = "done", ![f].vector = list, ![f].hits = hits]
    BY <2>1
  <2> DEFINE r == [flights[f] EXCEPT !.stage = "done", !.vector = list, !.hits = hits]
  <2>3. flights' = [flights EXCEPT ![f] = r]
    BY <2>2
  <2>4. IsFlight(r) /\ r.lexical = flights[f].lexical /\ r.vector = list /\ r.hits = hits
    <3>1. IsFlight(flights[f])
      BY DEF FusionInv
    <3> QED
      BY Zenon, <3>1, FlightField, FlightFields
  <2>5. Listing(list)
    <3>1. IsFiniteSet(pagesIn) /\ 2 * f[2] \in Nat
      BY KeysOfFlights DEF FusionInv
    <3> QED
      BY <3>1, RankedVectors
  <2>6. IsFiniteSet(pagesIn')
    BY <1>8 DEF ME!Fuse, FusionInv
  <2> HIDE DEF r
  <2> QED
    BY <2>2, <2>3, <2>4, <2>5, <2>6, FlightChanges DEF FusionInv
<1>9. ASSUME NEW f \in ME!FlightKey, ME!Return(f)
      PROVE  FusionInv'
  <2> DEFINE r == ME!Grounded
  <2>1. flights' = [flights EXCEPT ![f] = r] /\ UNCHANGED pagesIn
    BY <1>9 DEF ME!Return
  <2>2. << >> \in Seq({}) /\ IsFiniteSet({})
    BY FS_EmptySet
  <2>3. IsFlight(r) /\ r.lexical = << >> /\ r.vector = << >> /\ r.stage # "done" /\ Listing(<< >>)
    BY <2>2, ListingOf DEF IsFlight, ME!Grounded
  <2> HIDE DEF r
  <2> QED
    BY <2>1, <2>3, FlightChanges DEF FusionInv
<1>10. CASE UNCHANGED meVars
  BY <1>10 DEF meVars, FusionInv
<1> QED
  BY <1>1, <1>2, <1>3, <1>4, <1>5, <1>6, <1>7, <1>8, <1>9, <1>10 DEF ME!Next, ME!Fly

LEMMA RankIs ==
    ASSUME NEW s, NEW x
    PROVE  /\ x \notin Range(s) => ME!Rank(s, x) = 0
           /\ x \in Range(s) => ME!Rank(s, x) \in DOMAIN s /\ s[ME!Rank(s, x)] = x
<1>1. ME!Range(s) = Range(s)
  BY Zenon DEF ME!Range, Range
<1>2. x \in Range(s) => \E i \in DOMAIN s : s[i] = x
  BY DEF Range
<1> QED
  BY <1>1, <1>2 DEF ME!Rank

\* A document that is above another in both rankings has the larger sum.
LEMMA BetterInBothIsAbove ==
    ASSUME RRFConstant \in Nat, NEW p, NEW q, p \in Seq(Range(p)), q \in Seq(Range(q)),
           NEW x, NEW y, y \in Range(p) \cup Range(q), ME!Beats(p, x, y), ME!Beats(q, x, y)
    PROVE  ME!Above(ME!RRFScore(p, q, x), ME!RRFScore(p, q, y))
<1> DEFINE a == ME!Rank(p, x)
           b == ME!Rank(q, x)
           c == ME!Rank(p, y)
           d == ME!Rank(q, y)
<1>1. \A z : ME!Rank(p, z) \in Nat /\ (z \in Range(p) => ME!Rank(p, z) > 0)
  BY RankIs
<1>2. \A z : ME!Rank(q, z) \in Nat /\ (z \in Range(q) => ME!Rank(q, z) > 0)
  BY RankIs
<1>3. /\ a \in Nat /\ b \in Nat /\ c \in Nat /\ d \in Nat /\ a > 0 /\ b > 0 /\ (c > 0 \/ d > 0)
      /\ (c = 0 \/ a < c) /\ (d = 0 \/ b < d)
  BY <1>1, <1>2 DEF ME!Beats
<1>4. /\ ME!RRFScore(p, q, x) = ME!Fraction(a, b)
      /\ ME!RRFScore(p, q, y) = ME!Fraction(c, d)
  BY DEF ME!RRFScore
<1> HIDE DEF a, b, c, d
<1>5. ME!Fraction(a, b) = <<2 * RRFConstant + a + b, (RRFConstant + a) * (RRFConstant + b)>>
  BY <1>3 DEF ME!Fraction
<1> DEFINE A == RRFConstant + a
           B == RRFConstant + b
           C == RRFConstant + c
           D == RRFConstant + d
<1>6. /\ A \in Nat /\ B \in Nat /\ C \in Nat /\ D \in Nat /\ 0 < A /\ 0 < B
      /\ 2 * RRFConstant + a + b = A + B /\ 2 * RRFConstant + c + d = C + D
      /\ (c > 0 => A < C) /\ (d > 0 => B < D)
  BY <1>3
<1>7. ME!Fraction(a, b) = <<A + B, A * B>>
  BY <1>5, <1>6
<1>8. CASE c > 0 /\ d > 0
  <2>1. ME!Fraction(c, d) = <<2 * RRFConstant + c + d, (RRFConstant + c) * (RRFConstant + d)>>
    BY <1>8 DEF ME!Fraction
  <2>2. ME!Fraction(c, d) = <<C + D, C * D>>
    BY <1>6, <2>1
  <2> HIDE DEF A, B, C, D
  <2>3. (A + B) * (C * D) > (C + D) * (A * B)
    BY <1>6, <1>8, InversesShrink
  <2> QED
    BY <1>4, <1>7, <2>2, <2>3 DEF ME!Above
<1>9. CASE c > 0 /\ d = 0
  <2>1. ME!Fraction(c, d) = <<1, C>>
    BY <1>9 DEF ME!Fraction
  <2>2. B < B + 1 /\ B + 1 \in Nat
    BY <1>6
  <2> HIDE DEF A, B, C, D
  <2>3. (A + B) * C > 1 * (A * B)
    BY <1>6, <1>9, <2>2, InversesShrink
  <2> QED
    BY <1>4, <1>7, <2>1, <2>3 DEF ME!Above
<1>10. CASE c = 0 /\ d > 0
  <2>1. ME!Fraction(c, d) = <<1, D>>
    BY <1>10 DEF ME!Fraction
  <2>2. A < A + 1 /\ A + 1 \in Nat
    BY <1>6
  <2> HIDE DEF A, B, C, D
  <2>3. (A + B) * D > 1 * (A * B)
    BY <1>6, <1>10, <2>2, InversesShrink
  <2> QED
    BY <1>4, <1>7, <2>1, <2>3 DEF ME!Above
<1> QED
  BY <1>3, <1>8, <1>9, <1>10

LEMMA FusionRespectsBoth ==
    ASSUME ME!MetasearchAssumption, FusionInv
    PROVE  BetterInBothComesFirst
<1> SUFFICES ASSUME NEW f \in ME!FlightKey, ME!Stage(f, "done")
             PROVE  LET p == [n \in DOMAIN flights[f].lexical |-> <<flights[f].lexical[n], 0>>]
                        q == flights[f].vector
                    IN  \A x, y \in ME!Range(p) \cup ME!Range(q) :
                           ME!Beats(p, x, y) /\ ME!Beats(q, x, y) /\ ME!Rank(flights[f].hits, y) # 0
                           => ME!Beats(flights[f].hits, x, y)
  BY DEF BetterInBothComesFirst, ME!BetterInBothComesFirst
<1> DEFINE named == flights[f].lexical
           p == [n \in DOMAIN named |-> <<named[n], 0>>]
           q == flights[f].vector
           ids == Range(p) \cup Range(q)
           hits == flights[f].hits
           S(id) == ME!RRFScore(p, q, id)
<1>1. \A s : ME!Range(s) = Range(s)
  BY Zenon DEF ME!Range, Range
<1>2. Listing(named) /\ Listing(q) /\ hits \in ME!ReciprocalRankFusion(named, q, f[2])
  BY DEF FusionInv, ME!Stage
<1>3. p \in Seq(Range(p)) /\ IsFiniteSet(Range(p))
  <2> HIDE DEF named
  <2>1. Len(named) \in Nat /\ DOMAIN named = 1..Len(named)
    BY <1>2 DEF Listing
  <2>2. p \in Seq(Range(p)) /\ p \in [1..Len(named) -> Range(p)]
    BY <2>1 DEF Range
  <2>3. p \in Surjection(1..Len(named), Range(p))
    BY <2>1, <2>2 DEF Surjection, Range
  <2>4. IsFiniteSet(1..Len(named))
    BY <2>1, FS_Interval
  <2> QED
    BY <2>2, <2>3, <2>4, FS_Surjection
<1>4. IsFiniteSet(ids)
  BY <1>2, <1>3, FS_Union DEF Listing
<1>5. PICK t \in ME!SetToSeqs(ids) :
          /\ hits = ME!Cut(t, f[2])
          /\ \A i, j \in DOMAIN t : i < j => ~ME!Above(S(t[j]), S(t[i]))
  BY <1>1, <1>2 DEF ME!ReciprocalRankFusion
<1> SUFFICES ASSUME NEW x \in ids, NEW y \in ids,
                    ME!Beats(p, x, y), ME!Beats(q, x, y), ME!Rank(hits, y) # 0
             PROVE  ME!Beats(hits, x, y)
  BY <1>1
<1>6. ME!Above(S(x), S(y))
  BY <1>2, <1>3, BetterInBothIsAbove DEF Listing, ME!MetasearchAssumption
<1>7. /\ t \in Seq(ids) /\ Len(t) \in Nat /\ \A z \in ids : \E i \in 1..Len(t) : t[i] = z
      /\ \A i, j \in 1..Len(t) : t[i] = t[j] => i = j
  BY <1>4, RankingIsSeq
<1>8. f[2] \in Nat
  BY KeysOfFlights
<1>9. t \in Seq(ids) /\ Len(t) \in Nat
  BY <1>7
<1>10. DOMAIN t = 1..Len(t)
  BY <1>9
<1> HIDE DEF named, q, ids, p, S
<1>11. /\ hits \in Seq(ids) /\ Len(hits) \in Nat /\ Len(hits) <= Len(t)
      /\ \A i \in 1..Len(hits) : i \in 1..Len(t) /\ hits[i] = t[i]
  <2>1. PICK k \in Nat : k = f[2]
    BY <1>8
  <2> HIDE DEF hits
  <2>2. /\ hits \in Seq(ids) /\ Len(hits) = IF k > 0 /\ Len(t) > k THEN k ELSE Len(t)
        /\ \A i \in 1..Len(hits) : hits[i] = t[i]
    BY <1>5, <1>7, <2>1, CutIs
  <2>3. Len(hits) \in Nat /\ Len(hits) <= Len(t)
    <3>1. PICK n \in Nat : n = Len(t)
      BY <1>9
    <3>2. Len(hits) = IF k > 0 /\ n > k THEN k ELSE n
      BY <2>2, <3>1
    <3>3. Len(hits) \in Nat /\ Len(hits) <= n
      BY <3>2
    <3> QED
      BY <3>1, <3>3
  <2>4. \A i \in 1..Len(hits) : i \in 1..Len(t)
    BY <1>7, <2>3
  <2> QED
    BY <2>2, <2>3, <2>4
<1> HIDE DEF hits
<1>12. PICK j \in 1..Len(hits) : j = ME!Rank(hits, y) /\ hits[j] = y
  BY <1>11, RankIs
<1>13. PICK i \in 1..Len(t) : t[i] = x
  BY <1>7
<1>14. j \in 1..Len(t) /\ t[j] = y
  BY <1>7, <1>11, <1>12
<1>15. x # y
  <2>1. ME!Rank(p, x) \in Nat /\ ME!Rank(p, x) # 0
    BY <1>3, RankIs DEF ME!Beats
  <2> QED
    BY <2>1 DEF ME!Beats
<1>16. i < j
  <2>0. i \in DOMAIN t /\ j \in DOMAIN t
    BY <1>13, <1>14, <1>10
  <2>1. ~(j < i)
    BY <1>5, <1>6, <1>13, <1>14, <2>0
  <2>2. i # j
    BY <1>13, <1>14, <1>15
  <2> QED
    BY <1>13, <1>14, <2>1, <2>2
<1>17. i \in 1..Len(hits) /\ hits[i] = x
  <2>1. i \in 1..Len(hits)
    BY <1>11, <1>13, <1>16
  <2> QED
    BY <1>11, <1>13, <2>1
<1>18. ME!Rank(hits, x) = i
  <2>1. x \in Range(hits)
    BY <1>11, <1>17 DEF Range
  <2>2. PICK m \in 1..Len(hits) : m = ME!Rank(hits, x) /\ hits[m] = x
    BY <1>11, <2>1, RankIs
  <2>3. m \in 1..Len(t) /\ t[m] = x
    BY <1>7, <1>11, <2>2
  <2> QED
    BY <1>7, <1>13, <2>2, <2>3
<1> QED
  BY <1>11, <1>12, <1>16, <1>17, <1>18 DEF ME!Beats

\* BetterInBothComesFirst of Metasearch: for any pages, scores and constants, what the
\* fusion answers never puts a document before one that both rankings put above it, and
\* never cuts the better one off alone (ReciprocalRankFusion in rrf.go).
THEOREM FusionIsFair ==
    ASSUME ME!MetasearchAssumption
    PROVE  PartsSpec => []BetterInBothComesFirst
<1>1. PartsInit => FusionInv
  <2> SUFFICES ASSUME PartsInit PROVE FusionInv
    OBVIOUS
  <2>1. CASE ME!Init
    BY <2>1, FusionStarts
  <2>2. CASE meAbsent
    BY <2>2, NothingFused DEF meAbsent
  <2> QED
    BY <2>1, <2>2 DEF PartsInit
<1>2. FusionInv /\ [PartsNext]_partVars => FusionInv'
  BY FusionStep, PartSteps
<1>3. FusionInv => BetterInBothComesFirst
  BY FusionRespectsBoth
<1> QED
  BY <1>1, <1>2, <1>3, PTL DEF PartsSpec

-----------------------------------------------------------------------------
(* ScatterGather: the best hits of all documents are among the best of their nodes. *)

Hits == [url : Number, score : Nat]
HitOrder == {p \in Hits \X Hits : SG!HitBefore(p[1], p[2])}
LineOf(S) == SG!InOrder(S, SG!HitBefore)

LEMMA HitsAreOrdered ==
    ASSUME SG!ScatterGatherAssumption
    PROVE  /\ StrictOrder(HitOrder, Hits)
           /\ \A g, h \in Hits : <<g, h>> \in HitOrder <=> SG!HitBefore(g, h)
<1>1. \A g, h \in Hits : <<g, h>> \in HitOrder <=> SG!HitBefore(g, h)
  BY DEF HitOrder
<1>2. \A h \in Hits : h.url \in Nat /\ h.score \in Nat
  BY DEF Hits, SG!ScatterGatherAssumption
<1>3. \A g, h \in Hits : g.url = h.url /\ g.score = h.score => g = h
  BY DEF Hits
<1>4. \A h \in Hits : ~SG!HitBefore(h, h)
  BY <1>2 DEF SG!HitBefore
<1>5. \A f, g, h \in Hits : SG!HitBefore(f, g) /\ SG!HitBefore(g, h) => SG!HitBefore(f, h)
  BY <1>2 DEF SG!HitBefore
<1>6. \A g, h \in Hits : g = h \/ SG!HitBefore(g, h) \/ SG!HitBefore(h, g)
  BY <1>2, <1>3 DEF SG!HitBefore
<1> HIDE DEF Hits, HitOrder
<1> QED
  BY <1>1, <1>4, <1>5, <1>6 DEF StrictOrder

LEMMA LineOfHits ==
    ASSUME SG!ScatterGatherAssumption, NEW S \in SUBSET Hits, IsFiniteSet(S)
    PROVE  InLine(LineOf(S), HitOrder, S) /\ StrictOrder(HitOrder, S)
           /\ LineOf(S) \in Seq(S) /\ Len(LineOf(S)) = Cardinality(S)
<1> DEFINE s == LineOf(S)
<1>1. StrictOrder(HitOrder, S)
  BY HitsAreOrdered DEF StrictOrder
<1>2. \A T : SG!Cardinality(T) = Cardinality(T)
  BY Zenon DEF SG!Cardinality, Cardinality
<1>3. Cardinality(S) \in Nat
  BY FS_CardinalityType
<1> DEFINE Prior(x) == SG!Cardinality({y \in S : SG!HitBefore(y, x)})
<1>4. s = [p \in 1..Cardinality(S) |-> CHOOSE x \in S : Prior(x) = p - 1]
  BY <1>2 DEF LineOf, SG!InOrder
<1>5. \A x \in S : Prior(x) = PlaceIn(HitOrder, S, x)
  <2> SUFFICES ASSUME NEW x \in S
               PROVE  {y \in S : SG!HitBefore(y, x)} = Below(HitOrder, S, x)
    BY <1>2 DEF PlaceIn
  <2> QED
    BY HitsAreOrdered DEF Below
<1> HIDE DEF Prior
<1>6. \A n \in 1..Cardinality(S) : s[n] \in S /\ PlaceIn(HitOrder, S, s[n]) = n - 1
  <2> SUFFICES ASSUME NEW n \in 1..Cardinality(S)
               PROVE  s[n] \in S /\ PlaceIn(HitOrder, S, s[n]) = n - 1
    OBVIOUS
  <2>1. \E x \in S : Prior(x) = n - 1
    BY <1>1, <1>5, PlacesAreTaken
  <2>2. s[n] \in S /\ Prior(s[n]) = n - 1
    BY <1>4, <2>1
  <2> QED
    BY <1>5, <2>2
<1>7. s \in [1..Cardinality(S) -> S]
  BY <1>4, <1>6
<1> HIDE DEF s
<1>8. s \in Seq(S) /\ Len(s) = Cardinality(S)
  BY <1>3, <1>7
<1> QED
  BY <1>1, <1>6, <1>7, <1>8 DEF InLine, s

LEMMA ShardHits ==
    ASSUME SG!ScatterGatherAssumption, NEW n \in Node
    PROVE  /\ SG!HitsOf(n) \in SUBSET Hits /\ IsFiniteSet(SG!HitsOf(n))
           /\ \A g, h \in SG!HitsOf(n) : g.url = h.url => g = h
<1> DEFINE U == {u \in Number : Relevance[n][u] > 0}
           f == [u \in U |-> [url |-> u, score |-> Relevance[n][u]]]
<1>1. \A u \in Number : Relevance[n][u] \in Nat
  BY DEF SG!ScatterGatherAssumption
<1>2. SG!HitsOf(n) = {[url |-> u, score |-> Relevance[n][u]] : u \in U}
  BY DEF SG!HitsOf
<1>3. SG!HitsOf(n) \subseteq Hits
  BY <1>1, <1>2 DEF Hits
<1>4. \A T : SG!IsFiniteSet(T) = IsFiniteSet(T)
  BY Zenon DEF SG!IsFiniteSet, IsFiniteSet
<1>5. IsFiniteSet(Number)
  BY <1>4 DEF SG!ScatterGatherAssumption
<1>6. IsFiniteSet(U)
  BY <1>5, FS_Subset
<1>7. f \in Surjection(U, SG!HitsOf(n))
  BY <1>2 DEF Surjection
<1>8. IsFiniteSet(SG!HitsOf(n))
  BY <1>6, <1>7, FS_Surjection
<1>9. \A g, h \in SG!HitsOf(n) : g.url = h.url => g = h
  BY <1>2
<1> QED
  BY <1>3, <1>8, <1>9

LEMMA ShortList ==
    ASSUME NEW X, NEW s \in Seq(X), NEW k \in Nat
    PROVE  /\ SG!Cut(s, k) \in Seq(X)
           /\ Len(SG!Cut(s, k)) = IF Len(s) > k THEN k ELSE Len(s)
           /\ \A i \in 1..Len(SG!Cut(s, k)) : SG!Cut(s, k)[i] = s[i]
<1>1. Len(s) \in Nat
  OBVIOUS
<1>2. CASE Len(s) > k
  <2>1. SG!Cut(s, k) = SubSeq(s, 1, k)
    BY <1>2 DEF SG!Cut
  <2>2. /\ SubSeq(s, 1, k) \in Seq(X) /\ Len(SubSeq(s, 1, k)) = k
        /\ \A i \in 1..k : SubSeq(s, 1, k)[i] = s[i]
    BY <1>1, <1>2, SubSeqProperties
  <2> QED
    BY <1>2, <2>1, <2>2
<1>3. CASE ~(Len(s) > k)
  BY <1>3 DEF SG!Cut
<1> QED
  BY <1>2, <1>3

\* A node answers with its hits whose place is below k.
LEMMA ShardAnswersFirst ==
    ASSUME SG!ScatterGatherAssumption, NEW n \in Node, NEW k \in Nat, k > 0
    PROVE  /\ Range(SG!ExecuteLocalShardSearch(n, k)) \subseteq SG!HitsOf(n)
           /\ \A x \in SG!HitsOf(n) :
                 PlaceIn(HitOrder, SG!HitsOf(n), x) < k => x \in Range(SG!ExecuteLocalShardSearch(n, k))
<1> DEFINE S == SG!HitsOf(n)
           s == LineOf(S)
           a == SG!ExecuteLocalShardSearch(n, k)
<1>1. S \in SUBSET Hits /\ IsFiniteSet(S)
  BY ShardHits
<1>2. a = SG!Cut(s, k)
  BY DEF SG!ExecuteLocalShardSearch, LineOf
<1>3. InLine(s, HitOrder, S) /\ StrictOrder(HitOrder, S) /\ s \in Seq(S) /\ Len(s) = Cardinality(S)
  <2> HIDE DEF S
  <2> QED
    BY <1>1, LineOfHits
<1>4. Cardinality(S) \in Nat
  BY <1>1, FS_CardinalityType
<1> HIDE DEF S, s, a
<1>5. /\ a \in Seq(S) /\ Len(a) = IF Len(s) > k THEN k ELSE Len(s)
      /\ \A i \in 1..Len(a) : a[i] = s[i]
  BY <1>2, <1>3, ShortList
<1>6. Range(a) \subseteq S
  BY <1>5 DEF Range
<1>7. ASSUME NEW x \in S, PlaceIn(HitOrder, S, x) < k
      PROVE  x \in Range(a)
  <2>1. PICK p \in Nat : p = PlaceIn(HitOrder, S, x)
    BY <1>1, <1>3, PlacesGrow
  <2>2. p + 1 \in 1..Cardinality(S) /\ s[p + 1] = x
    BY <1>1, <1>3, <2>1, FirstOfLine
  <2>3. PICK m \in Nat : m = Cardinality(S)
    BY <1>4
  <2>4. Len(a) = IF m > k THEN k ELSE m
    BY <1>3, <1>5, <2>3
  <2>5. p < k /\ p + 1 <= m
    BY <1>7, <2>1, <2>2, <2>3
  <2>6. p + 1 \in 1..Len(a)
    BY <2>4, <2>5
  <2>7. a[p + 1] = x
    BY <1>5, <2>2, <2>6
  <2> QED
    BY <1>5, <2>6, <2>7 DEF Range
<1> QED
  BY <1>6, <1>7 DEF S, a

\* Of every URL the merge keeps one hit, that no other hit is above.
LEMMA MergeKeepsBest ==
    ASSUME SG!ScatterGatherAssumption, NEW S \in SUBSET Hits, IsFiniteSet(S), NEW h \in S
    PROVE  \E g \in SG!Merge(S) : g.url = h.url /\ g.score >= h.score
<1> DEFINE T == {g \in S : g.url = h.url}
           f == [g \in T |-> g.score]
           V == {g.score : g \in T}
<1>1. \A g \in S : g.score \in Nat
  BY DEF Hits
<1>2. IsFiniteSet(T) /\ h \in T
  BY FS_Subset
<1>3. V \in SUBSET Nat /\ h.score \in V
  BY <1>1, <1>2
<1>4. IsFiniteSet(V)
  <2>1. f \in Surjection(T, V)
    BY DEF Surjection
  <2> QED
    BY <1>2, <2>1, FS_Surjection
<1>5. PICK v \in V : \A w \in V : w <= v
  BY <1>3, <1>4, FiniteHasMax
<1>6. PICK g \in T : g.score = v
  OBVIOUS
<1>7. \A e \in S : e.url = g.url => e.score <= g.score
  BY <1>5, <1>6
<1>8. g \in SG!Merge(S)
  BY <1>6, <1>7 DEF SG!Merge
<1> QED
  BY <1>1, <1>2, <1>6, <1>7, <1>8

\* The first k of all documents are the first k of what the nodes have left of theirs.
LEMMA ShortListsSuffice ==
    ASSUME SG!ScatterGatherAssumption, NEW D \in SUBSET Node, NEW k \in Nat, k > 0
    PROVE  SG!Cut(LineOf(SG!Merge(UNION {SG!HitsOf(n) : n \in D})), k)
         = SG!Cut(LineOf(SG!Merge(UNION {Range(SG!ExecuteLocalShardSearch(n, k)) : n \in D})), k)
<1> DEFINE A == UNION {SG!HitsOf(n) : n \in D}
           C == UNION {Range(SG!ExecuteLocalShardSearch(n, k)) : n \in D}
           M == SG!Merge(A)
           N == SG!Merge(C)
<1>1. A \in SUBSET Hits /\ IsFiniteSet(A)
  <2>1. A \in SUBSET Hits
    BY ShardHits
  <2>2. IsFiniteSet(Node)
    <3>1. SG!IsFiniteSet(Node) = IsFiniteSet(Node)
      BY Zenon DEF SG!IsFiniteSet, IsFiniteSet
    <3> QED
      BY <3>1 DEF SG!ScatterGatherAssumption
  <2> DEFINE All == {SG!HitsOf(n) : n \in D}
             f == [n \in D |-> SG!HitsOf(n)]
  <2>3. f \in Surjection(D, All)
    BY DEF Surjection
  <2>4. IsFiniteSet(All)
    BY <2>2, <2>3, FS_Subset, FS_Surjection
  <2>5. \A S \in All : IsFiniteSet(S)
    BY ShardHits
  <2> HIDE DEF All
  <2>6. IsFiniteSet(UNION All)
    BY <2>4, <2>5, FS_UNION
  <2> QED
    BY <2>1, <2>6 DEF All
<1>2. C \subseteq A
  BY ShardAnswersFirst
<1>3. /\ M \in SUBSET Hits /\ IsFiniteSet(M) /\ N \in SUBSET Hits /\ IsFiniteSet(N)
      /\ C \in SUBSET Hits /\ IsFiniteSet(C)
  <2> HIDE DEF A, C
  <2>1. M \subseteq A /\ N \subseteq C
    BY DEF SG!Merge
  <2> QED
    BY <1>1, <1>2, <2>1, FS_Subset
<1>4. \A h \in A : \E g \in M : g.url = h.url /\ g.score >= h.score
  <2> HIDE DEF A
  <2> QED
    BY <1>1, MergeKeepsBest
<1>5. \A h \in Hits : h.url \in Nat /\ h.score \in Nat
  BY DEF Hits, SG!ScatterGatherAssumption
<1>6. ASSUME NEW x \in M, PlaceIn(HitOrder, M, x) < k
      PROVE  x \in N
  <2>1. PICK n \in D : x \in SG!HitsOf(n)
    BY DEF SG!Merge
  <2> DEFINE S == SG!HitsOf(n)
             Best(h) == CHOOSE g \in M : g.url = h.url /\ g.score >= h.score
             f == [h \in Below(HitOrder, S, x) |-> Best(h)]
  <2>2. S \subseteq A /\ S \in SUBSET Hits /\ IsFiniteSet(S) /\ \A g, h \in S : g.url = h.url => g = h
    BY ShardHits
  <2>3. x \in S /\ x \in Hits
    BY <2>1, <2>2
  <2>4. \A h \in S : Best(h) \in M /\ Best(h).url = h.url /\ Best(h).score >= h.score
    BY <1>4, <2>2
  <2>5. ASSUME NEW h \in Below(HitOrder, S, x)
        PROVE  h \in S /\ Best(h) \in Below(HitOrder, M, x)
    <3>1. h \in S /\ SG!HitBefore(h, x)
      BY <2>2, <2>3, HitsAreOrdered DEF Below
    <3>2. PICK g \in M : g = Best(h) /\ g.url = h.url /\ g.score >= h.score
      BY <2>4, <3>1
    <3>3. g \in Hits /\ h \in Hits
      BY <1>3, <2>2, <3>1
    <3>4. SG!HitBefore(g, x)
      BY <1>5, <2>3, <3>1, <3>2, <3>3 DEF SG!HitBefore
    <3>5. <<g, x>> \in HitOrder
      BY <2>3, <3>3, <3>4, HitsAreOrdered
    <3> QED
      BY <3>1, <3>2, <3>5 DEF Below
  <2>6. f \in Injection(Below(HitOrder, S, x), Below(HitOrder, M, x))
    <3>1. f \in [Below(HitOrder, S, x) -> Below(HitOrder, M, x)]
      BY <2>5
    <3>2. ASSUME NEW g \in Below(HitOrder, S, x), NEW h \in Below(HitOrder, S, x), f[g] = f[h]
          PROVE  g = h
      <4>1. g \in S /\ h \in S /\ Best(g) = Best(h)
        BY <2>5, <3>2
      <4>2. g.url = h.url
        BY <2>4, <4>1
      <4> QED
        BY <2>2, <4>1, <4>2
    <3> QED
      BY <3>1, <3>2 DEF Injection, IsInjective
  <2>7. IsFiniteSet(Below(HitOrder, M, x))
    <3>1. Below(HitOrder, M, x) \in SUBSET M
      BY DEF Below
    <3> QED
      BY <1>3, <3>1, FS_Subset
  <2>8. PlaceIn(HitOrder, S, x) <= PlaceIn(HitOrder, M, x)
    BY <2>6, <2>7, FS_Injection DEF PlaceIn
  <2>9. PlaceIn(HitOrder, S, x) \in Nat /\ PlaceIn(HitOrder, M, x) \in Nat
    <3> HIDE DEF S, M
    <3>1. StrictOrder(HitOrder, S) /\ StrictOrder(HitOrder, M)
      BY <1>3, <2>2, LineOfHits
    <3> QED
      BY <1>3, <2>2, <2>3, <3>1, PlacesGrow
  <2>10. x \in Range(SG!ExecuteLocalShardSearch(n, k))
    <3>1. PlaceIn(HitOrder, S, x) < k
      BY <1>6, <2>8, <2>9
    <3> QED
      BY <2>1, <3>1, ShardAnswersFirst
  <2>11. x \in C
    BY <2>10
  <2> HIDE DEF A, C
  <2> QED
    BY <1>2, <2>11 DEF SG!Merge
<1>7. ASSUME NEW y \in N \ M
      PROVE  \E g \in M \ N : <<g, y>> \in HitOrder
  <2> HIDE DEF A, C
  <2>1. y \in C /\ y \in A /\ y \in Hits /\ y \notin M
    BY <1>1, <1>2 DEF SG!Merge
  <2>2. PICK g \in M : g.url = y.url /\ g.score >= y.score
    BY <1>4, <2>1
  <2>3. g \in Hits /\ g # y
    BY <1>3, <2>1
  <2>4. g.score # y.score
    BY <2>1, <2>2, <2>3 DEF Hits
  <2>5. g.score > y.score
    BY <1>5, <2>1, <2>2, <2>3, <2>4
  <2>6. <<g, y>> \in HitOrder
    BY <2>1, <2>3, <2>5, HitsAreOrdered DEF SG!HitBefore
  <2>7. g \notin N
    <3> SUFFICES ASSUME g \in N PROVE FALSE
      OBVIOUS
    <3>1. g \in C
      BY DEF SG!Merge
    <3>2. g.score <= y.score
      BY <2>2, <3>1 DEF SG!Merge
    <3> QED
      BY <1>5, <2>1, <2>3, <2>5, <3>2
  <2> QED
    BY <2>6, <2>7
<1> DEFINE s == LineOf(M)
           t == LineOf(N)
<1> HIDE DEF A, C, M, N
<1>8. /\ InLine(s, HitOrder, M) /\ s \in Seq(M) /\ Len(s) = Cardinality(M)
      /\ InLine(t, HitOrder, N) /\ t \in Seq(N) /\ Len(t) = Cardinality(N)
  BY <1>3, LineOfHits
<1>9. Cardinality(M) \in Nat /\ Cardinality(N) \in Nat
  BY <1>3, FS_CardinalityType
<1> HIDE DEF s, t
<1>10. /\ \/ Cardinality(M) = Cardinality(N)
          \/ k <= Cardinality(M) /\ k <= Cardinality(N)
       /\ \A n \in 1..k : n <= Cardinality(M) /\ n <= Cardinality(N) => s[n] = t[n]
  <2>1. StrictOrder(HitOrder, Hits)
    BY HitsAreOrdered
  <2>2. \A x \in M : PlaceIn(HitOrder, M, x) < k => x \in N
    BY <1>6
  <2>3. \A y \in N \ M : \E g \in M \ N : <<g, y>> \in HitOrder
    BY <1>7
  <2>4. M \in SUBSET Hits /\ N \in SUBSET Hits /\ IsFiniteSet(M) /\ IsFiniteSet(N)
    BY <1>3
  <2>5. InLine(s, HitOrder, M) /\ InLine(t, HitOrder, N)
    BY <1>8
  <2> QED
    BY <2>1, <2>2, <2>3, <2>4, <2>5, LinesAgree
<1>11. SG!Cut(s, k) = SG!Cut(t, k)
  <2>1. PICK m \in Nat, n \in Nat : m = Cardinality(M) /\ n = Cardinality(N)
    BY <1>9
  <2> DEFINE a == SG!Cut(s, k)
             b == SG!Cut(t, k)
  <2>2. /\ a \in Seq(M) /\ Len(a) = IF m > k THEN k ELSE m
        /\ \A i \in 1..Len(a) : a[i] = s[i]
    BY <1>8, <2>1, ShortList
  <2>3. /\ b \in Seq(N) /\ Len(b) = IF n > k THEN k ELSE n
        /\ \A i \in 1..Len(b) : b[i] = t[i]
    BY <1>8, <2>1, ShortList
  <2>4. m = n \/ (k <= m /\ k <= n)
    BY <1>10, <2>1
  <2> HIDE DEF a, b
  <2>5. PICK l \in Nat : l = Len(a) /\ l = Len(b) /\ l <= k /\ l <= m /\ l <= n
    BY <2>2, <2>3, <2>4
  <2>6. \A i \in 1..l : a[i] = b[i]
    <3> SUFFICES ASSUME NEW i \in 1..l PROVE a[i] = b[i]
      OBVIOUS
    <3>1. i \in 1..k /\ i <= m /\ i <= n
      BY <2>5
    <3> QED
      BY <1>10, <2>1, <2>2, <2>3, <2>5, <3>1
  <2>7. a \in Seq(Hits) /\ b \in Seq(Hits)
    BY <1>3, <2>2, <2>3
  <2> QED
    BY <2>5, <2>6, <2>7, SeqEqual DEF a, b
<1> QED
  BY <1>11 DEF A, C, M, N, s, t

\* While a search is underway, what a node has answered is its own short list.
GatherInv ==
    /\ nodes \subseteq Node /\ askedNodes \subseteq Node
    /\ topK \in Nat /\ topK > 0
    /\ DOMAIN answers \subseteq askedNodes
    /\ \A n \in DOMAIN answers :
          answers[n].ok => answers[n].hits = SG!ExecuteLocalShardSearch(n, topK)
    /\ askedNodes # {} => result = SG!NoResult
    /\ GatherIsExact

LEMMA GatherStarts ==
    ASSUME SG!ScatterGatherAssumption, SG!Init
    PROVE  GatherInv
  BY DEF SG!Init, SG!ScatterGatherAssumption, GatherInv, GatherIsExact, SG!GatherIsExact

\* A search at home finds the best of its own.
LEMMA HomeIsExact ==
    ASSUME SG!ScatterGatherAssumption, NEW k \in Nat, k > 0
    PROVE  SG!ExecuteLocalShardSearch(Self, k)
         = SG!Cut(LineOf(SG!Merge(UNION {SG!HitsOf(n) : n \in {Self}})), k)
<1> DEFINE S == SG!HitsOf(Self)
<1>1. UNION {SG!HitsOf(n) : n \in {Self}} = S
  OBVIOUS
<1>2. S \in SUBSET Hits /\ \A g, h \in S : g.url = h.url => g = h
  BY ShardHits DEF SG!ScatterGatherAssumption
<1>3. \A h \in Hits : h.score <= h.score
  BY DEF Hits
<1>4. SG!Merge(S) = S
  BY <1>2, <1>3 DEF SG!Merge
<1>5. SG!ExecuteLocalShardSearch(Self, k) = SG!Cut(LineOf(S), k)
  BY DEF SG!ExecuteLocalShardSearch, LineOf
<1> HIDE DEF S
<1> QED
  BY <1>1, <1>4, <1>5

LEMMA GatherStep ==
    ASSUME SG!ScatterGatherAssumption, GatherInv, [SG!Next]_sgVars
    PROVE  GatherInv'
<1>1. ASSUME NEW n \in Node, SG!AddNode(n) \/ SG!RemoveNode(n)
      PROVE  GatherInv'
  <2>1. UNCHANGED <<askedNodes, answers, topK, result>> /\ nodes' \subseteq Node
    BY <1>1 DEF SG!AddNode, SG!RemoveNode, SG!searchVars, SG!ringVars, GatherInv
  <2> QED
    BY <2>1 DEF GatherInv, GatherIsExact, SG!GatherIsExact
<1>2. ASSUME NEW k \in HowMany, SG!ScatterGatherSearch(k)
      PROVE  GatherInv'
  <2> DEFINE top == IF k <= 0 THEN Standard ELSE k
  <2>1. top \in Nat /\ top > 0
    BY DEF SG!ScatterGatherAssumption
  <2>2. askedNodes = {} /\ topK' = top /\ nodes' = nodes
    BY <1>2 DEF SG!ScatterGatherSearch, SG!ringVars
  <2> HIDE DEF top
  <2>3. CASE SG!Cardinality(nodes) <= 1
    <3>1. /\ result' = [hits |-> SG!ExecuteLocalShardSearch(Self, top), degraded |-> FALSE, from |-> {Self}]
          /\ UNCHANGED <<askedNodes, answers>>
      BY <1>2, <2>2, <2>3 DEF SG!ScatterGatherSearch
    <3>2. GatherIsExact'
      BY <2>1, <2>2, <3>1, HomeIsExact DEF GatherIsExact, SG!GatherIsExact, LineOf
    <3>3. DOMAIN answers = {}
      BY <2>2 DEF GatherInv
    <3> QED
      BY <2>1, <2>2, <3>1, <3>2, <3>3 DEF GatherInv
  <2>4. CASE ~(SG!Cardinality(nodes) <= 1)
    <3>1. askedNodes' = nodes /\ answers' = << >> /\ result' = SG!NoResult
      BY <1>2, <2>4 DEF SG!ScatterGatherSearch
    <3>2. DOMAIN answers' = {}
      BY <3>1
    <3> QED
      BY <2>1, <2>2, <3>1, <3>2 DEF GatherInv, GatherIsExact, SG!GatherIsExact
  <2> QED
    BY <2>3, <2>4
<1>3. ASSUME NEW n \in Node, SG!ShardAnswers(n)
      PROVE  GatherInv'
  <2>1. UNCHANGED <<nodes, askedNodes, topK, result>> /\ n \in askedNodes
    BY <1>3 DEF SG!ShardAnswers, SG!ringVars
  <2>2. PICK a \in {[ok |-> TRUE, hits |-> SG!ExecuteLocalShardSearch(n, topK)], SG!Failed} :
            answers' = [m \in DOMAIN answers \cup {n} |-> IF m = n THEN a ELSE answers[m]]
    BY <1>3 DEF SG!ShardAnswers
  <2>3. a.ok => a.hits = SG!ExecuteLocalShardSearch(n, topK)
    BY DEF SG!Failed
  <2>4. \A m \in DOMAIN answers' :
           answers'[m].ok => answers'[m].hits = SG!ExecuteLocalShardSearch(m, topK)
    BY <2>2, <2>3 DEF GatherInv
  <2>5. DOMAIN answers' \subseteq askedNodes
    BY <2>1, <2>2 DEF GatherInv
  <2> QED
    BY <2>1, <2>4, <2>5 DEF GatherInv, GatherIsExact, SG!GatherIsExact
<1>4. ASSUME SG!Reduce
      PROVE  GatherInv'
  <2> DEFINE D == {n \in askedNodes : answers[n].ok}
  <2>1. /\ DOMAIN answers = askedNodes /\ askedNodes' = {} /\ answers' = << >>
        /\ UNCHANGED <<nodes, topK>>
        /\ result' = [hits |-> SG!Gather(D, topK), degraded |-> D # askedNodes, from |-> D]
    BY <1>4 DEF SG!Reduce, SG!ringVars
  <2>2. D \in SUBSET Node
    BY DEF GatherInv
  <2>3. \A n \in D : SG!Range(answers[n].hits) = Range(SG!ExecuteLocalShardSearch(n, topK))
    <3>1. \A s : SG!Range(s) = Range(s)
      BY Zenon DEF SG!Range, Range
    <3> QED
      BY <2>1, <3>1 DEF GatherInv
  <2>4. UNION {SG!Range(answers[n].hits) : n \in D}
      = UNION {Range(SG!ExecuteLocalShardSearch(n, topK)) : n \in D}
    BY <2>3
  <2>5. SG!Gather(D, topK) = SG!Cut(LineOf(SG!Merge(UNION {SG!Range(answers[n].hits) : n \in D})), topK)
    BY DEF SG!Gather, LineOf
  <2> HIDE DEF D
  <2>6. SG!Gather(D, topK) = SG!Cut(LineOf(SG!Merge(UNION {SG!HitsOf(n) : n \in D})), topK)
    BY <2>2, <2>4, <2>5, ShortListsSuffice DEF GatherInv
  <2>7. GatherIsExact'
    BY <2>1, <2>6 DEF GatherIsExact, SG!GatherIsExact, LineOf
  <2>8. DOMAIN answers' = {}
    BY <2>1
  <2> QED
    BY <2>1, <2>7, <2>8 DEF GatherInv
<1>5. CASE UNCHANGED sgVars
  BY <1>5 DEF sgVars, GatherInv, GatherIsExact, SG!GatherIsExact
<1> QED
  BY <1>1, <1>2, <1>3, <1>4, <1>5 DEF SG!Next

\* GatherIsExact of ScatterGather: for any nodes, documents and scores, the answer of the
\* cluster is what a search of all documents of the nodes that answered would give,
\* although each node has cut its list and documents may be held twice (ScatterGatherSearch
\* in coordinator.go).
THEOREM GatheredIsExact ==
    ASSUME SG!ScatterGatherAssumption
    PROVE  PartsSpec => []GatherIsExact
<1>1. PartsInit => GatherInv
  BY GatherStarts DEF PartsInit
<1>2. GatherInv /\ [PartsNext]_partVars => GatherInv'
  BY GatherStep, PartSteps
<1>3. GatherInv => GatherIsExact
  BY DEF GatherInv
<1> QED
  BY <1>1, <1>2, <1>3, PTL DEF PartsSpec

-----------------------------------------------------------------------------
(* ScatterGather: the ring keeps its tokens in order, so a key stays with its token *)
(* unless that token goes or a new one comes between.                           *)

Token == [hash : Nat, node : Node]
TokenOrder == {p \in Token \X Token : SG!TokenBefore(p[1], p[2])}

InRingOrder(s) ==
    /\ s \in Seq(Token)
    /\ \A i, j \in 1..Len(s) : i < j => SG!TokenBefore(s[i], s[j])

RingInv ==
    /\ nodes \subseteq Node
    /\ InRingOrder(ring)
    /\ Range(ring) = UNION {SG!TokensOf(n) : n \in nodes}

LEMMA TokensAreOrdered ==
    ASSUME SG!ScatterGatherAssumption
    PROVE  /\ StrictOrder(TokenOrder, Token)
           /\ \A s, t \in Token : <<s, t>> \in TokenOrder <=> SG!TokenBefore(s, t)
<1>1. \A s, t \in Token : <<s, t>> \in TokenOrder <=> SG!TokenBefore(s, t)
  BY DEF TokenOrder
<1>2. \A t \in Token : t.hash \in Nat /\ t.node \in Node /\ Order[t.node] \in Nat
  BY DEF Token, SG!ScatterGatherAssumption
<1>3. \A s, t \in Token : s.hash = t.hash /\ Order[s.node] = Order[t.node] => s = t
  BY DEF Token, SG!ScatterGatherAssumption
<1>4. \A t \in Token : ~SG!TokenBefore(t, t)
  BY <1>2 DEF SG!TokenBefore
<1>5. \A r, s, t \in Token : SG!TokenBefore(r, s) /\ SG!TokenBefore(s, t) => SG!TokenBefore(r, t)
  BY <1>2 DEF SG!TokenBefore
<1>6. \A s, t \in Token : s = t \/ SG!TokenBefore(s, t) \/ SG!TokenBefore(t, s)
  BY <1>2, <1>3 DEF SG!TokenBefore
<1> HIDE DEF Token, TokenOrder
<1> QED
  BY <1>1, <1>4, <1>5, <1>6 DEF StrictOrder

LEMMA OrderedTokens ==
    ASSUME SG!ScatterGatherAssumption, NEW S \in SUBSET Token, IsFiniteSet(S)
    PROVE  InRingOrder(SG!InOrder(S, SG!TokenBefore)) /\ Range(SG!InOrder(S, SG!TokenBefore)) = S
<1> DEFINE s == SG!InOrder(S, SG!TokenBefore)
<1>1. StrictOrder(TokenOrder, S)
  BY TokensAreOrdered DEF StrictOrder
<1>2. \A T : SG!Cardinality(T) = Cardinality(T)
  BY Zenon DEF SG!Cardinality, Cardinality
<1>3. Cardinality(S) \in Nat
  BY FS_CardinalityType
<1> DEFINE Prior(x) == SG!Cardinality({y \in S : SG!TokenBefore(y, x)})
<1>4. s = [p \in 1..Cardinality(S) |-> CHOOSE x \in S : Prior(x) = p - 1]
  BY <1>2 DEF SG!InOrder
<1>5. \A x \in S : Prior(x) = PlaceIn(TokenOrder, S, x)
  <2> SUFFICES ASSUME NEW x \in S
               PROVE  {y \in S : SG!TokenBefore(y, x)} = Below(TokenOrder, S, x)
    BY <1>2 DEF PlaceIn
  <2> QED
    BY TokensAreOrdered DEF Below
<1> HIDE DEF Prior
<1>6. \A n \in 1..Cardinality(S) : s[n] \in S /\ PlaceIn(TokenOrder, S, s[n]) = n - 1
  <2> SUFFICES ASSUME NEW n \in 1..Cardinality(S)
               PROVE  s[n] \in S /\ PlaceIn(TokenOrder, S, s[n]) = n - 1
    OBVIOUS
  <2>1. \E x \in S : Prior(x) = n - 1
    BY <1>1, <1>5, PlacesAreTaken
  <2>2. s[n] \in S /\ Prior(s[n]) = n - 1
    BY <1>4, <2>1
  <2> QED
    BY <1>5, <2>2
<1>7. s \in [1..Cardinality(S) -> S]
  BY <1>4, <1>6
<1> HIDE DEF s
<1>8. s \in Seq(Token) /\ Len(s) = Cardinality(S) /\ InLine(s, TokenOrder, S)
  BY <1>3, <1>6, <1>7 DEF InLine
<1>9. \A i, j \in 1..Len(s) : i < j => SG!TokenBefore(s[i], s[j])
  <2> SUFFICES ASSUME NEW i \in 1..Len(s), NEW j \in 1..Len(s), i < j
               PROVE  SG!TokenBefore(s[i], s[j])
    OBVIOUS
  <2>1. s[i] \in S /\ s[j] \in S /\ PlaceIn(TokenOrder, S, s[i]) < PlaceIn(TokenOrder, S, s[j])
    <3>1. i \in 1..Cardinality(S) /\ j \in 1..Cardinality(S) /\ i - 1 < j - 1
      BY <1>3, <1>8
    <3> QED
      BY <1>6, <3>1
  <2>2. <<s[i], s[j]>> \in TokenOrder
    BY <1>1, <2>1, PlacesGrow
  <2> QED
    BY <2>1, <2>2, TokensAreOrdered
<1>10. Range(s) = S
  <2>1. \A x \in S : \E i \in 1..Cardinality(S) : s[i] = x
    BY <1>1, <1>8, FirstOfLine
  <2> QED
    BY <1>7, <2>1 DEF Range
<1> QED
  BY <1>8, <1>9, <1>10 DEF InRingOrder, s

LEMMA RingWithout ==
    ASSUME SG!ScatterGatherAssumption, NEW s, InRingOrder(s), NEW n
    PROVE  /\ InRingOrder(SG!Without(s, n))
           /\ Range(SG!Without(s, n)) = {t \in Range(s) : t.node # n}
<1> DEFINE I == {i \in DOMAIN s : s[i].node # n}
           R == {r \in Nat \X Nat : r[1] < r[2]}
           kept == SG!InOrder(I, <)
           w == [p \in DOMAIN kept |-> s[kept[p]]]
<1>1. SG!Without(s, n) = w
  BY DEF SG!Without
<1>2. s \in Seq(Token) /\ DOMAIN s = 1..Len(s) /\ Len(s) \in Nat
  BY DEF InRingOrder
<1>3. I \subseteq 1..Len(s) /\ IsFiniteSet(I)
  <2>1. I \subseteq 1..Len(s) /\ IsFiniteSet(1..Len(s))
    BY <1>2, FS_Interval
  <2> QED
    BY <2>1, FS_Subset
<1>4. \A i, j \in Nat : <<i, j>> \in R <=> i < j
  OBVIOUS
<1>5. \A i \in I : i \in Nat
  BY <1>3
<1>6. \A i \in I : s[i].node # n /\ s[i] \in Token
  BY <1>2, <1>3
<1>7. \A i \in 1..Len(s) : s[i].node # n => i \in I
  BY <1>2
<1> HIDE DEF I, R
<1>8. StrictOrder(R, I)
  BY <1>4, <1>5 DEF StrictOrder
<1>9. \A T : SG!Cardinality(T) = Cardinality(T)
  BY Zenon DEF SG!Cardinality, Cardinality
<1>10. Cardinality(I) \in Nat
  BY <1>3, FS_CardinalityType
<1> DEFINE Prior(x) == SG!Cardinality({y \in I : y < x})
<1>11. kept = [p \in 1..Cardinality(I) |-> CHOOSE x \in I : Prior(x) = p - 1]
  BY <1>9 DEF SG!InOrder
<1>12. \A x \in I : Prior(x) = PlaceIn(R, I, x)
  <2> SUFFICES ASSUME NEW x \in I
               PROVE  {y \in I : y < x} = Below(R, I, x)
    BY <1>9 DEF PlaceIn
  <2> QED
    BY <1>4, <1>5 DEF Below
<1> HIDE DEF Prior
<1>13. \A p \in 1..Cardinality(I) : kept[p] \in I /\ PlaceIn(R, I, kept[p]) = p - 1
  <2> SUFFICES ASSUME NEW p \in 1..Cardinality(I)
               PROVE  kept[p] \in I /\ PlaceIn(R, I, kept[p]) = p - 1
    OBVIOUS
  <2>1. \E x \in I : Prior(x) = p - 1
    BY <1>3, <1>8, <1>12, PlacesAreTaken
  <2>2. kept[p] \in I /\ Prior(kept[p]) = p - 1
    BY <1>11, <2>1
  <2> QED
    BY <1>12, <2>2
<1>14. kept \in [1..Cardinality(I) -> I]
  BY <1>11, <1>13
<1> HIDE DEF kept
<1>15. InLine(kept, R, I)
  BY <1>13, <1>14 DEF InLine
<1>16. w \in Seq(Token) /\ Len(w) = Cardinality(I) /\ \A p \in 1..Cardinality(I) : w[p] = s[kept[p]]
  BY <1>6, <1>10, <1>14
<1> HIDE DEF w
<1>17. \A p, q \in 1..Len(w) : p < q => SG!TokenBefore(w[p], w[q])
  <2> SUFFICES ASSUME NEW p \in 1..Len(w), NEW q \in 1..Len(w), p < q
               PROVE  SG!TokenBefore(w[p], w[q])
    OBVIOUS
  <2>1. p \in 1..Cardinality(I) /\ q \in 1..Cardinality(I) /\ p - 1 < q - 1
    BY <1>10, <1>16
  <2>2. kept[p] \in I /\ kept[q] \in I /\ PlaceIn(R, I, kept[p]) < PlaceIn(R, I, kept[q])
    BY <1>13, <2>1
  <2>3. kept[p] < kept[q]
    BY <1>3, <1>4, <1>5, <1>8, <2>2, PlacesGrow
  <2>4. kept[p] \in 1..Len(s) /\ kept[q] \in 1..Len(s)
    BY <1>3, <2>2
  <2> QED
    BY <1>16, <2>1, <2>3, <2>4 DEF InRingOrder
<1>18. Range(w) = {t \in Range(s) : t.node # n}
  <2>1. DOMAIN w = 1..Cardinality(I)
    BY <1>10, <1>16
  <2>2. ASSUME NEW p \in 1..Cardinality(I) PROVE w[p] \in Range(s) /\ w[p].node # n
    <3>1. kept[p] \in I /\ kept[p] \in DOMAIN s /\ w[p] = s[kept[p]]
      BY <1>2, <1>3, <1>13, <1>16
    <3> QED
      BY <1>6, <3>1 DEF Range
  <2>3. ASSUME NEW i \in 1..Len(s), s[i].node # n PROVE \E p \in 1..Cardinality(I) : w[p] = s[i]
    <3>1. i \in I
      BY <1>7, <2>3
    <3>2. PICK p \in 1..Cardinality(I) : kept[p] = i
      BY <1>3, <1>8, <1>15, <3>1, FirstOfLine
    <3> QED
      BY <1>16, <3>2
  <2>4. ASSUME NEW t \in Range(s), t.node # n PROVE t \in Range(w)
    <3>1. PICK i \in 1..Len(s) : s[i] = t
      BY <1>2 DEF Range
    <3>2. PICK p \in 1..Cardinality(I) : w[p] = t
      BY <2>3, <2>4, <3>1
    <3> QED
      BY <2>1, <3>2 DEF Range
  <2>5. \A t \in Range(w) : t \in Range(s) /\ t.node # n
    BY <2>1, <2>2 DEF Range
  <2> QED
    BY <2>4, <2>5
<1> QED
  BY <1>1, <1>16, <1>17, <1>18 DEF InRingOrder

\* A search of the ring finds the first token at or after the key, or the first of all.
LEMMA PlaceFinds ==
    ASSUME SG!ScatterGatherAssumption, NEW s, InRingOrder(s), s # << >>, NEW k \in Key
    PROVE  /\ SG!Place(s, k) \in 1..Len(s)
           /\ \/ /\ s[SG!Place(s, k)].hash >= KeyHash[k]
                 /\ \A i \in 1..Len(s) : i < SG!Place(s, k) => s[i].hash < KeyHash[k]
              \/ /\ SG!Place(s, k) = 1
                 /\ \A i \in 1..Len(s) : s[i].hash < KeyHash[k]
<1> DEFINE v == KeyHash[k]
           D == (0..Len(s)) \X (0..Len(s))
           Is(f) == f = [r \in D |->
                            IF r[1] >= r[2] THEN r[1]
                            ELSE IF s[((r[1] + r[2]) \div 2) + 1].hash >= v THEN f[<<r[1], (r[1] + r[2]) \div 2>>]
                            ELSE f[<<((r[1] + r[2]) \div 2) + 1, r[2]>>]]
           Search == CHOOSE f : Is(f)
<1>1. SG!Place(s, k) = (Search[<<0, Len(s)>>] % Len(s)) + 1
  BY DEF SG!Place
<1>2. v \in Nat /\ s \in Seq(Token)
  BY DEF SG!ScatterGatherAssumption, InRingOrder
<1>3. PICK n \in Nat : n = Len(s) /\ n > 0
  BY <1>2
<1> HIDE DEF v
<1>4. \A i \in 1..n : s[i].hash \in Nat
  <2>1. \A i \in 1..n : s[i] \in Token
    BY <1>2, <1>3
  <2> QED
    BY <2>1 DEF Token
<1>5. \A i, j \in 1..n : i < j => s[i].hash <= s[j].hash
  <2> SUFFICES ASSUME NEW i \in 1..n, NEW j \in 1..n, i < j PROVE s[i].hash <= s[j].hash
    OBVIOUS
  <2>1. SG!TokenBefore(s[i], s[j])
    BY <1>3 DEF InRingOrder
  <2> QED
    BY <1>4, <2>1 DEF SG!TokenBefore
<1> DEFINE U == {i \in 1..n : s[i].hash >= v}
<1>6. \A i \in 1..n : i \in U <=> s[i].hash >= v
  OBVIOUS
<1>7. \A i, j \in 1..n : i \in U /\ i <= j => j \in U
  <2> SUFFICES ASSUME NEW i \in 1..n, NEW j \in 1..n, i \in U, i < j PROVE j \in U
    OBVIOUS
  <2>1. s[i].hash \in Nat /\ s[j].hash \in Nat /\ s[i].hash >= v /\ s[i].hash <= s[j].hash
    BY <1>4, <1>5
  <2>2. s[j].hash >= v
    BY <1>2, <2>1
  <2> QED
    BY <2>2
<1>8. PICK c \in 0..n : \A t \in 1..n : t \in U <=> c < t
  <2>1. CASE U = {}
    <3>1. n \in 0..n /\ \A t \in 1..n : t \in U <=> n < t
      BY <2>1
    <3> QED
      BY <3>1
  <2>2. CASE U # {}
    <3>1. U \subseteq Nat
      OBVIOUS
    <3> HIDE DEF U
    <3>2. Min(U) \in U /\ \A x \in U : Min(U) <= x
      BY <2>2, <3>1, MinOfNaturals
    <3>3. PICK m \in 1..n : m = Min(U)
      BY <3>2 DEF U
    <3>4. m - 1 \in 0..n /\ \A t \in 1..n : t \in U <=> m - 1 < t
      BY <1>7, <3>2, <3>3
    <3> QED
      BY <3>4
  <2> QED
    BY <2>1, <2>2
<1>9. \A f : Is(f) <=> Halves(U, n, f)
  <2> SUFFICES ASSUME NEW f PROVE Is(f) <=> Halves(U, n, f)
    OBVIOUS
  <2> DEFINE E(r) == IF r[1] >= r[2] THEN r[1]
                     ELSE IF s[((r[1] + r[2]) \div 2) + 1].hash >= v THEN f[<<r[1], (r[1] + r[2]) \div 2>>]
                     ELSE f[<<((r[1] + r[2]) \div 2) + 1, r[2]>>]
             F(r) == IF r[1] >= r[2] THEN r[1]
                     ELSE IF ((r[1] + r[2]) \div 2) + 1 \in U THEN f[<<r[1], (r[1] + r[2]) \div 2>>]
                     ELSE f[<<((r[1] + r[2]) \div 2) + 1, r[2]>>]
  <2>1. Is(f) <=> f = [r \in D |-> E(r)]
    OBVIOUS
  <2>2. Halves(U, n, f) <=> f = [r \in D |-> F(r)]
    BY <1>3 DEF Halves
  <2>3. ASSUME NEW i \in 0..n, NEW j \in 0..n PROVE E(<<i, j>>) = F(<<i, j>>)
    <3>1. CASE i >= j
      BY <3>1
    <3>2. CASE i < j
      <4>1. PICK h \in 0..n : h = (i + j) \div 2 /\ h + 1 \in 1..n
        BY <3>2
      <4>2. h + 1 \in U <=> s[h + 1].hash >= v
        BY <1>6, <4>1
      <4> QED
        BY <4>1, <4>2
    <3> QED
      BY <3>1, <3>2
  <2> HIDE DEF E, F
  <2>4. \A r \in D : E(r) = F(r)
    BY <1>3, <2>3
  <2> HIDE DEF D
  <2> QED
    BY <2>1, <2>2, <2>4
<1> HIDE DEF U, Is
<1>10. Halves(U, n, Search)
  <2>1. \E f : Is(f)
    BY <1>8, <1>9, SearchFinds
  <2>2. Is(Search)
    BY <2>1
  <2> QED
    BY <1>9, <2>2
<1> HIDE DEF Search
<1>11. Search[<<0, n>>] = c
  BY <1>8, <1>10, SearchFinds
<1>12. CASE c < n
  <2>1. SG!Place(s, k) = c + 1 /\ c + 1 \in 1..n
    BY <1>1, <1>3, <1>11, <1>12
  <2>2. s[c + 1].hash >= v /\ \A i \in 1..n : i < c + 1 => s[i].hash < v
    BY <1>2, <1>4, <1>6, <1>8, <2>1
  <2> QED
    BY <1>3, <2>1, <2>2 DEF v
<1>13. CASE c = n
  <2>1. SG!Place(s, k) = 1
    BY <1>1, <1>3, <1>11, <1>13
  <2>2. \A i \in 1..n : s[i].hash < v
    BY <1>2, <1>4, <1>6, <1>8, <1>13
  <2> QED
    BY <1>3, <2>1, <2>2 DEF v
<1> QED
  BY <1>12, <1>13

\* A sequence without repetitions is as long as its elements are many.
LEMMA LengthOfDistinct ==
    ASSUME NEW X, NEW s \in Seq(X), \A i, j \in 1..Len(s) : s[i] = s[j] => i = j
    PROVE  IsFiniteSet(Range(s)) /\ Cardinality(Range(s)) = Len(s)
<1>1. Len(s) \in Nat /\ DOMAIN s = 1..Len(s)
  OBVIOUS
<1>2. IsFiniteSet(1..Len(s)) /\ Cardinality(1..Len(s)) = Len(s)
  BY <1>1, FS_Interval
<1>3. s \in [1..Len(s) -> Range(s)] /\ \A x \in Range(s) : \E i \in 1..Len(s) : s[i] = x
  BY <1>1 DEF Range
<1>4. s \in Bijection(1..Len(s), Range(s))
  BY <1>3 DEF Bijection, Injection, Surjection, IsInjective
<1> QED
  BY <1>2, <1>4, FS_Bijection DEF ExistsBijection

\* A key keeps its token as long as both rings have it.
LEMMA OwnerStays ==
    ASSUME SG!ScatterGatherAssumption, NEW k \in Key,
           NEW s, InRingOrder(s), s # << >>, NEW t, InRingOrder(t), t # << >>,
           Range(s) \subseteq Range(t), t[SG!Place(t, k)] \in Range(s)
    PROVE  s[SG!Place(s, k)] = t[SG!Place(t, k)]
<1>1. PICK m \in Nat, n \in Nat : m = Len(s) /\ n = Len(t)
  BY DEF InRingOrder
<1>2. /\ DOMAIN s = 1..m /\ DOMAIN t = 1..n
      /\ \A i \in 1..m : s[i] \in Token
      /\ \A i \in 1..n : t[i] \in Token
  BY <1>1 DEF InRingOrder
<1>3. PICK p \in 1..m : p = SG!Place(s, k)
  BY <1>1, PlaceFinds
<1>4. PICK q \in 1..n : q = SG!Place(t, k)
  BY <1>1, PlaceFinds
<1>5. \/ s[p].hash >= KeyHash[k] /\ \A i \in 1..m : i < p => s[i].hash < KeyHash[k]
      \/ p = 1 /\ \A i \in 1..m : s[i].hash < KeyHash[k]
  BY <1>1, <1>3, PlaceFinds
<1>6. \/ t[q].hash >= KeyHash[k] /\ \A i \in 1..n : i < q => t[i].hash < KeyHash[k]
      \/ q = 1 /\ \A i \in 1..n : t[i].hash < KeyHash[k]
  BY <1>1, <1>4, PlaceFinds
<1>7. PICK i \in 1..m : s[i] = t[q]
  BY <1>2, <1>4 DEF Range
<1>8. PICK j \in 1..n : t[j] = s[p]
  <2>1. s[p] \in Range(t)
    BY <1>2, <1>3 DEF Range
  <2> QED
    BY <1>2, <2>1 DEF Range
<1>9. \A x \in Token : x.hash \in Nat /\ KeyHash[k] \in Nat
  BY DEF Token, SG!ScatterGatherAssumption
<1>10. p <= i /\ q <= j
  <2>1. s[p].hash \in Nat /\ t[q].hash \in Nat /\ KeyHash[k] \in Nat
    BY <1>2, <1>9
  <2>2. CASE t[q].hash >= KeyHash[k]
    <3>1. ~(s[i].hash < KeyHash[k])
      BY <1>7, <2>1, <2>2
    <3>2. s[p].hash >= KeyHash[k] /\ p <= i
      BY <1>5, <3>1
    <3>3. ~(t[j].hash < KeyHash[k])
      BY <1>8, <2>1, <3>2
    <3> QED
      BY <1>6, <3>2, <3>3
  <2>3. CASE q = 1 /\ \A x \in 1..n : t[x].hash < KeyHash[k]
    <3>1. t[j].hash < KeyHash[k]
      BY <2>3
    <3>2. ~(s[p].hash >= KeyHash[k])
      BY <1>8, <2>1, <3>1
    <3> QED
      BY <1>5, <2>3, <3>2
  <2> QED
    BY <1>6, <2>2, <2>3
<1>11. i # p => SG!TokenBefore(s[p], t[q])
  BY <1>1, <1>7, <1>10 DEF InRingOrder
<1>12. j # q => SG!TokenBefore(t[q], s[p])
  BY <1>1, <1>8, <1>10 DEF InRingOrder
<1>13. ~(SG!TokenBefore(s[p], t[q]) /\ SG!TokenBefore(t[q], s[p]))
  <2>1. s[p] \in Token /\ t[q] \in Token
    BY <1>2
  <2>2. s[p].hash \in Nat /\ t[q].hash \in Nat /\ Order[s[p].node] \in Nat /\ Order[t[q].node] \in Nat
    BY <2>1 DEF Token, SG!ScatterGatherAssumption
  <2> QED
    BY <2>2 DEF SG!TokenBefore
<1> QED
  BY <1>3, <1>4, <1>7, <1>8, <1>11, <1>12, <1>13

\* Around the ring from any place, every node is met.
LEMMA ReplicasAreAll ==
    ASSUME SG!ScatterGatherAssumption, NEW k \in Key, NEW s, InRingOrder(s), s # << >>,
           NEW N, IsFiniteSet(N), N = {t.node : t \in Range(s)}
    PROVE  LET all == SG!GetNodes(s, k, Cardinality(N))
           IN  Range(all) = N /\ Len(all) = Cardinality(N) /\ all[1] = SG!GetNode(s, k)
<1>1. PICK m \in Nat : m = Len(s) /\ m > 0
  BY DEF InRingOrder
<1>2. DOMAIN s = 1..m /\ N = {s[i].node : i \in 1..m}
  <2>1. DOMAIN s = 1..m
    BY <1>1 DEF InRingOrder
  <2>2. Range(s) = {s[i] : i \in 1..m}
    BY <2>1 DEF Range
  <2>3. N = {s[i].node : i \in 1..m}
    BY <2>2
  <2> QED
    BY <2>1, <2>3
<1>3. PICK p \in 1..m : p = SG!Place(s, k)
  BY <1>1, PlaceFinds
<1>4. PICK count \in Nat : count = Cardinality(N)
  BY FS_CardinalityType
<1> DEFINE around == [i \in 1..m |-> s[((p + i - 2) % m) + 1].node]
<1>5. \A i \in 1..m : ((p + i - 2) % m) + 1 \in 1..m
  <2> SUFFICES ASSUME NEW i \in 1..m PROVE ((p + i - 2) % m) + 1 \in 1..m
    OBVIOUS
  <2>1. p + i - 2 \in Nat
    OBVIOUS
  <2> QED
    BY <1>1, <2>1
<1>6. \A i \in 1..m : around[i] \in N
  BY <1>2, <1>5
<1>7. around[1] = s[p].node /\ 1 \in 1..m
  <2>1. (p + 1 - 2) % m = p - 1
    BY <1>1
  <2> QED
    BY <1>1, <2>1
<1>8. \A n \in N : \E i \in 1..m : around[i] = n
  <2> SUFFICES ASSUME NEW n \in N PROVE \E i \in 1..m : around[i] = n
    OBVIOUS
  <2>0. PICK j \in 1..m : s[j].node = n
    BY <1>2
  <2>1. CASE p <= j
    <3>1. PICK i \in 1..m : i = j - p + 1
      BY <2>1
    <3>2. p + i - 2 = j - 1 /\ (j - 1) % m = j - 1 /\ (j - 1) + 1 = j
      BY <1>1, <3>1
    <3>3. around[i] = s[j].node
      BY <3>2
    <3> QED
      BY <2>0, <3>3
  <2>2. CASE j < p
    <3>1. m + j - p + 1 \in 1..m
      BY <2>2
    <3>2. p + (m + j - p + 1) - 2 = (j - 1) + m /\ ((j - 1) + m) % m = j - 1
      BY <1>1
    <3>3. ((p + (m + j - p + 1) - 2) % m) + 1 = j
      BY <3>2
    <3> QED
      BY <2>0, <3>1, <3>3
  <2> QED
    BY <2>1, <2>2
<1>9. SG!GetNode(s, k) = around[1]
  BY <1>3, <1>7 DEF SG!GetNode
<1> DEFINE Take(found, n) == IF Len(found) < count /\ n \notin SG!Range(found) THEN Append(found, n) ELSE found
           Is(f) == f = [i \in 0..Len(s) |-> IF i = 0 THEN << >> ELSE Take(f[i - 1], around[i])]
           step == [i \in 1..m |-> [found \in Seq(N) |-> Take(found, around[i])]]
           iter == CHOOSE f : Is(f)
<1>10. SG!GetNodes(s, k, count) = iter[m]
  BY <1>1, <1>2, <1>3 DEF SG!GetNodes
<1>12. \A f : SG!Range(f) = Range(f)
  BY Zenon DEF SG!Range, Range
<1> HIDE DEF around
<1>14. \A found \in Seq(N), n \in N : Take(found, n) \in Seq(N)
  OBVIOUS
<1> HIDE DEF Take
<1>15. step \in [1..m -> [Seq(N) -> Seq(N)]]
  BY <1>6, <1>14
<1>16. PICK f : IsRecursion(f, m, Seq(N), << >>, step)
  <2> HIDE DEF step, iter, Is
  <2>1. << >> \in Seq(N)
    OBVIOUS
  <2> QED
    BY <1>15, <2>1, RecursionExists, Zenon
<1>18. Is(f)
  <2>1. f \in [0..m -> Seq(N)]
    BY <1>16 DEF IsRecursion
  <2>2. \A i \in 0..m : f[i] = IF i = 0 THEN << >> ELSE Take(f[i - 1], around[i])
    <3> SUFFICES ASSUME NEW i \in 1..m
                 PROVE  f[i] = Take(f[i - 1], around[i])
      BY <1>16 DEF IsRecursion
    <3>1. f[i - 1] \in Seq(N)
      BY <2>1
    <3>2. f[i] = step[i][f[i - 1]]
      BY <1>16 DEF IsRecursion
    <3> QED
      BY <3>1, <3>2
  <2> HIDE DEF step
  <2> QED
    BY <1>1, <2>1, <2>2
<1>19. Is(iter)
  <2> HIDE DEF Is
  <2> QED
    BY <1>18
<1>20. iter[0] = << >> /\ \A i \in 1..m : iter[i] = Take(iter[i - 1], around[i])
  <2> HIDE DEF iter, step
  <2>1. \A i \in 0..m : iter[i] = IF i = 0 THEN << >> ELSE Take(iter[i - 1], around[i])
    BY <1>1, <1>19
  <2> QED
    BY <2>1
<1> HIDE DEF iter, step, Is
\* What the fold has after i places.
<1> DEFINE Distinct(found, i) ==
               /\ found \in Seq(N)
               /\ \A x, y \in 1..Len(found) : found[x] = found[y] => x = y
               /\ Range(found) = {around[j] : j \in 1..i}
               /\ i > 0 => found[1] = around[1]
           S == {i \in 0..m : Distinct(iter[i], i)}
<1>21. 0 \in S
  <2>1. 1..0 = {}
    OBVIOUS
  <2>2. iter[0] = << >>
    BY <1>20
  <2>3. Range(<< >>) = {} /\ Len(<< >>) = 0
    BY DEF Range
  <2>4. Distinct(<< >>, 0)
    BY <2>1, <2>3
  <2> HIDE DEF Distinct
  <2> QED
    BY <2>2, <2>4
<1>22. ASSUME NEW i \in 0..m, i \in S, i # m
       PROVE  i + 1 \in S
  <2>1. i + 1 \in 1..m /\ (i + 1) - 1 = i /\ i + 1 \in 0..m
    BY <1>22
  <2>2. iter[i + 1] = Take(iter[i], around[i + 1])
    BY <1>20, <2>1
  <2> DEFINE found == iter[i]
  <2>3. Distinct(found, i)
    BY <1>22
  <2>4. around[i + 1] \in N
    BY <1>6, <2>1
  <2>5. {around[j] : j \in 1..(i + 1)} = {around[j] : j \in 1..i} \cup {around[i + 1]}
    <3>1. 1..(i + 1) = (1..i) \cup {i + 1}
      BY <2>1
    <3> QED
      BY <3>1
  <2> HIDE DEF found
  <2>6. Distinct(Take(found, around[i + 1]), i + 1)
    <3>1. found \in Seq(N) /\ Len(found) \in Nat /\ DOMAIN found = 1..Len(found)
      BY <2>3
    <3>2. CASE around[i + 1] \in Range(found)
      <4>1. Take(found, around[i + 1]) = found
        BY <1>12, <3>2 DEF Take
      <4>2. i > 0
        <5>1. CASE i = 0
          <6>1. Range(found) = {}
            BY <2>3, <5>1
          <6> QED
            BY <3>2, <6>1
        <5> QED
          BY <5>1
      <4>3. Range(found) = {around[j] : j \in 1..(i + 1)}
        BY <2>3, <2>5, <3>2
      <4> QED
        BY <2>3, <4>1, <4>2, <4>3
    <3>3. CASE around[i + 1] \notin Range(found)
      <4>1. Len(found) < count
        <5>3. Range(found) \subseteq N
          BY <3>1 DEF Range
        <5>4. Cardinality(Range(found)) = Len(found)
          BY <2>3, <3>1, LengthOfDistinct
        <5>5. Range(found) # N
          BY <2>4, <3>3
        <5>6. Cardinality(Range(found)) <= count /\ (Cardinality(Range(found)) = count => Range(found) = N)
          BY <1>4, <5>3, FS_Subset
        <5> QED
          BY <1>4, <3>1, <5>4, <5>5, <5>6
      <4>2. Take(found, around[i + 1]) = Append(found, around[i + 1])
        BY <1>12, <3>3, <4>1 DEF Take
      <4> DEFINE more == Append(found, around[i + 1])
      <4>3. /\ more \in Seq(N) /\ Len(more) = Len(found) + 1
            /\ \A x \in 1..Len(found) : more[x] = found[x]
            /\ more[Len(found) + 1] = around[i + 1]
        BY <2>4, <3>1
      <4> HIDE DEF more
      <4>4. \A x \in 1..Len(found) : found[x] # around[i + 1]
        BY <3>1, <3>3 DEF Range
      <4>5. \A x, y \in 1..Len(more) : more[x] = more[y] => x = y
        <5> SUFFICES ASSUME NEW x \in 1..Len(more), NEW y \in 1..Len(more), x < y, more[x] = more[y]
                     PROVE  FALSE
          BY <3>1, <4>3
        <5>1. x \in 1..Len(found)
          BY <3>1, <4>3
        <5>2. CASE y = Len(found) + 1
          BY <4>3, <4>4, <5>1, <5>2
        <5>3. CASE y \in 1..Len(found)
          BY <2>3, <4>3, <5>1, <5>3
        <5> QED
          BY <3>1, <4>3, <5>2, <5>3
      <4>6. Range(more) = Range(found) \cup {around[i + 1]}
        <5>1. DOMAIN more = (1..Len(found)) \cup {Len(found) + 1}
          BY <3>1, <4>3
        <5> QED
          BY <3>1, <4>3, <5>1 DEF Range
      <4>7. Range(more) = {around[j] : j \in 1..(i + 1)}
        BY <2>3, <2>5, <4>6
      <4>8. more[1] = around[1]
        <5>1. CASE i = 0
          <6>1. Len(found) = 0
            <7>1. Range(found) = {}
              BY <2>3, <5>1
            <7>2. CASE Len(found) > 0
              <8>1. 1 \in DOMAIN found
                BY <3>1, <7>2
              <8> QED
                BY <7>1, <8>1 DEF Range
            <7> QED
              BY <3>1, <7>2
          <6> QED
            BY <4>3, <5>1, <6>1
        <5>2. CASE i > 0
          <6>1. around[1] \in {around[j] : j \in 1..i}
            BY <5>2
          <6>2. 1 \in 1..Len(found)
            <7>1. PICK x \in 1..Len(found) : found[x] = around[1]
              <8>1. around[1] \in Range(found)
                BY <2>3, <6>1
              <8> QED
                BY <3>1, <8>1 DEF Range
            <7> QED
              BY <3>1, <7>1
          <6> QED
            BY <2>3, <4>3, <5>2, <6>2
        <5> QED
          BY <5>1, <5>2
      <4> QED
        BY <4>2, <4>3, <4>5, <4>7, <4>8 DEF more
    <3> QED
      BY <3>2, <3>3
  <2> HIDE DEF Distinct
  <2> QED
    BY <2>1, <2>2, <2>6 DEF found
<1> HIDE DEF S, Distinct
<1>23. m \in S
  <2>1. 0..m \subseteq S
    BY <1>21, <1>22, IntervalInduction
  <2> QED
    BY <2>1
<1> DEFINE all == iter[m]
<1>24. Distinct(all, m)
  BY <1>23 DEF S
<1> HIDE DEF all
<1>25. all \in Seq(N) /\ all[1] = around[1] /\ Range(all) = N
  <2>1. {around[j] : j \in 1..m} = N
    BY <1>6, <1>8
  <2> QED
    BY <1>1, <1>24, <2>1 DEF Distinct
<1>26. Len(all) = Cardinality(N)
  BY <1>24, <1>25, LengthOfDistinct DEF Distinct
<1> QED
  BY <1>4, <1>9, <1>10, <1>25, <1>26 DEF all

LEMMA RingStarts ==
    ASSUME SG!ScatterGatherAssumption, SG!Init
    PROVE  RingInv
<1>1. ring = << >> /\ nodes = {}
  BY DEF SG!Init
<1>2. << >> \in Seq(Token) /\ Len(<< >>) = 0 /\ Range(<< >>) = {}
  BY DEF Range
<1> QED
  BY <1>1, <1>2 DEF RingInv, InRingOrder

LEMMA TokensOfNode ==
    ASSUME SG!ScatterGatherAssumption, NEW n \in Node
    PROVE  /\ SG!TokensOf(n) \subseteq Token /\ IsFiniteSet(SG!TokensOf(n)) /\ SG!TokensOf(n) # {}
           /\ \A t \in SG!TokensOf(n) : t.node = n
<1>1. \A T : SG!IsFiniteSet(T) = IsFiniteSet(T)
  BY Zenon DEF SG!IsFiniteSet, IsFiniteSet
<1>2. IsFiniteSet(TokenHash[n]) /\ TokenHash[n] \subseteq Nat /\ TokenHash[n] # {}
  BY <1>1 DEF SG!ScatterGatherAssumption
<1> DEFINE f == [h \in TokenHash[n] |-> [hash |-> h, node |-> n]]
<1>3. f \in Surjection(TokenHash[n], SG!TokensOf(n))
  BY DEF Surjection, SG!TokensOf
<1>4. IsFiniteSet(SG!TokensOf(n))
  BY <1>2, <1>3, FS_Surjection
<1>5. SG!TokensOf(n) \subseteq Token /\ SG!TokensOf(n) # {}
  <2>1. \A h \in TokenHash[n] : [hash |-> h, node |-> n] \in Token
    BY <1>2 DEF Token
  <2> QED
    BY <1>2, <2>1 DEF SG!TokensOf
<1> QED
  BY <1>4, <1>5 DEF SG!TokensOf

\* The nodes of the tokens are the nodes of the ring.
LEMMA NodesOfRing ==
    ASSUME SG!ScatterGatherAssumption, NEW N \in SUBSET Node, NEW s, InRingOrder(s),
           Range(s) = UNION {SG!TokensOf(n) : n \in N}
    PROVE  N = {t.node : t \in Range(s)} /\ IsFiniteSet(N) /\ IsFiniteSet(Range(s))
<1>1. \A n \in N : n \in Node /\ SG!TokensOf(n) # {} /\ \A t \in SG!TokensOf(n) : t.node = n
  BY TokensOfNode
<1>2. \A n \in N : \E t \in Range(s) : t.node = n
  BY <1>1
<1>3. \A t \in Range(s) : t.node \in N
  BY <1>1
<1>4. IsFiniteSet(N)
  <2>1. \A T : SG!IsFiniteSet(T) = IsFiniteSet(T)
    BY Zenon DEF SG!IsFiniteSet, IsFiniteSet
  <2>2. IsFiniteSet(Node)
    BY <2>1 DEF SG!ScatterGatherAssumption
  <2> QED
    BY <2>2, FS_Subset
<1>5. IsFiniteSet(Range(s))
  <2>1. s \in [1..Len(s) -> Range(s)] /\ Len(s) \in Nat
    BY DEF InRingOrder, Range
  <2>2. s \in Surjection(1..Len(s), Range(s))
    BY <2>1 DEF Surjection, Range
  <2> QED
    BY <2>1, <2>2, FS_Interval, FS_Surjection
<1> QED
  BY <1>2, <1>3, <1>4, <1>5

\* What becomes of the ring in a step.
LEMMA RingSteps ==
    ASSUME SG!ScatterGatherAssumption, RingInv, [SG!Next]_sgVars
    PROVE  \/ UNCHANGED <<nodes, ring>>
           \/ \E n \in Node \ nodes : /\ nodes' = nodes \cup {n}
                                      /\ InRingOrder(ring') /\ Range(ring') = Range(ring) \cup SG!TokensOf(n)
           \/ \E n \in nodes : /\ nodes' = nodes \ {n}
                               /\ InRingOrder(ring') /\ Range(ring') = {t \in Range(ring) : t.node # n}
<1>1. ASSUME NEW n \in Node, SG!AddNode(n), n \notin nodes
      PROVE  /\ nodes' = nodes \cup {n}
             /\ InRingOrder(ring') /\ Range(ring') = Range(ring) \cup SG!TokensOf(n)
  <2> DEFINE S == Range(ring) \cup SG!TokensOf(n)
  <2>1. \A f : SG!Range(f) = Range(f)
    BY Zenon DEF SG!Range, Range
  <2>2. nodes' = nodes \cup {n} /\ ring' = SG!InOrder(S, SG!TokenBefore)
    BY <1>1, <2>1 DEF SG!AddNode, SG!AddTokens
  <2>3. S \in SUBSET Token
    <3>1. Range(ring) \subseteq Token
      BY DEF RingInv, InRingOrder, Range
    <3> QED
      BY <3>1, TokensOfNode
  <2>4. IsFiniteSet(S)
    BY NodesOfRing, TokensOfNode, FS_Union DEF RingInv
  <2> HIDE DEF S
  <2> QED
    BY <2>2, <2>3, <2>4, OrderedTokens DEF S
<1>2. ASSUME NEW n \in Node, SG!RemoveNode(n), n \in nodes
      PROVE  /\ nodes' = nodes \ {n}
             /\ InRingOrder(ring') /\ Range(ring') = {t \in Range(ring) : t.node # n}
  <2>1. nodes' = nodes \ {n} /\ ring' = SG!Without(ring, n)
    BY <1>2 DEF SG!RemoveNode
  <2> QED
    BY <2>1, RingWithout DEF RingInv
<1>3. ASSUME NEW n \in Node, SG!AddNode(n) \/ SG!RemoveNode(n)
      PROVE  \/ UNCHANGED <<nodes, ring>>
             \/ SG!AddNode(n) /\ n \notin nodes
             \/ SG!RemoveNode(n) /\ n \in nodes
  BY <1>3 DEF SG!AddNode, SG!RemoveNode, SG!ringVars
<1>4. ASSUME NEW n \in Node, SG!ShardAnswers(n)
      PROVE  UNCHANGED <<nodes, ring>>
  BY <1>4 DEF SG!ShardAnswers, SG!ringVars
<1>5. ASSUME NEW k \in HowMany, SG!ScatterGatherSearch(k)
      PROVE  UNCHANGED <<nodes, ring>>
  BY <1>5 DEF SG!ScatterGatherSearch, SG!ringVars
<1>6. CASE SG!Reduce
  BY <1>6 DEF SG!Reduce, SG!ringVars
<1>7. CASE UNCHANGED sgVars
  BY <1>7 DEF sgVars
<1> QED
  BY <1>1, <1>2, <1>3, <1>4, <1>5, <1>6, <1>7 DEF SG!Next

LEMMA RingStep ==
    ASSUME SG!ScatterGatherAssumption, RingInv, [SG!Next]_sgVars
    PROVE  RingInv'
<1>1. CASE UNCHANGED <<nodes, ring>>
  BY <1>1 DEF RingInv, InRingOrder
<1>2. ASSUME NEW n \in Node \ nodes, nodes' = nodes \cup {n},
             InRingOrder(ring'), Range(ring') = Range(ring) \cup SG!TokensOf(n)
      PROVE  RingInv'
  <2>1. nodes' \subseteq Node
    BY <1>2 DEF RingInv
  <2>2. Range(ring') = UNION {SG!TokensOf(m) : m \in nodes'}
    BY <1>2 DEF RingInv
  <2> QED
    BY <1>2, <2>1, <2>2 DEF RingInv, InRingOrder
<1>3. ASSUME NEW n \in nodes, nodes' = nodes \ {n},
             InRingOrder(ring'), Range(ring') = {t \in Range(ring) : t.node # n}
      PROVE  RingInv'
  <2>1. nodes' \subseteq Node
    BY <1>3 DEF RingInv
  <2>2. \A m \in nodes : \A t \in SG!TokensOf(m) : t.node = m
    BY TokensOfNode DEF RingInv
  <2>3. Range(ring') = UNION {SG!TokensOf(m) : m \in nodes'}
    BY <1>3, <2>2 DEF RingInv
  <2> QED
    BY <1>3, <2>1, <2>3 DEF RingInv, InRingOrder
<1> QED
  BY <1>1, <1>2, <1>3, RingSteps

\* Only keys of the node that joins or leaves move.
LEMMA OwnersMove ==
    ASSUME SG!ScatterGatherAssumption, RingInv, [SG!Next]_sgVars, NEW k \in Key,
           ring # << >>, ring' # << >>, SG!GetNode(ring, k) # SG!GetNode(ring', k)
    PROVE  SG!GetNode(ring', k) \in nodes' \ nodes \/ SG!GetNode(ring, k) \in nodes \ nodes'
<1>1. InRingOrder(ring) /\ nodes \subseteq Node
  BY DEF RingInv
<1> DEFINE mine == ring[SG!Place(ring, k)]
           next == ring'[SG!Place(ring', k)]
<1>2. SG!GetNode(ring, k) = mine.node /\ SG!GetNode(ring', k) = next.node
  BY DEF SG!GetNode
<1>3. mine \in Range(ring)
  <2>1. SG!Place(ring, k) \in 1..Len(ring)
    BY <1>1, PlaceFinds
  <2> QED
    BY <1>1, <2>1 DEF InRingOrder, Range
<1>4. ASSUME InRingOrder(ring') PROVE next \in Range(ring')
  <2>1. SG!Place(ring', k) \in 1..Len(ring')
    BY <1>4, PlaceFinds
  <2> QED
    BY <1>4, <2>1 DEF InRingOrder, Range
<1>5. mine # next /\ ring # ring'
  BY <1>2
<1>6. ASSUME NEW n \in Node \ nodes, nodes' = nodes \cup {n},
             InRingOrder(ring'), Range(ring') = Range(ring) \cup SG!TokensOf(n)
      PROVE  next.node \in nodes' \ nodes
  <2>1. Range(ring) \subseteq Range(ring')
    BY <1>6
  <2>2. next \notin Range(ring)
    BY <1>1, <1>5, <1>6, <2>1, OwnerStays
  <2>3. next \in SG!TokensOf(n)
    BY <1>4, <1>6, <2>2
  <2>4. next.node = n
    BY <1>6, <2>3, TokensOfNode
  <2> QED
    BY <1>6, <2>4
<1>7. ASSUME NEW n \in nodes, nodes' = nodes \ {n},
             InRingOrder(ring'), Range(ring') = {t \in Range(ring) : t.node # n}
      PROVE  mine.node \in nodes \ nodes'
  <2>1. Range(ring') \subseteq Range(ring)
    BY <1>7
  <2>2. mine \notin Range(ring')
    BY <1>1, <1>5, <1>7, <2>1, OwnerStays
  <2>3. mine.node = n
    BY <1>3, <1>7, <2>2
  <2> QED
    BY <1>7, <2>3
<1> QED
  BY <1>2, <1>5, <1>6, <1>7, RingSteps

\* KeysStay of ScatterGather: for any nodes, tokens and keys, also where tokens of two
\* nodes collide, a key changes its node only to one that joins or from one that leaves,
\* and its replicas are all nodes, each once (AddNode, RemoveNode, GetNode, GetNodes in
\* ring.go).
THEOREM KeysStayInPlace ==
    ASSUME SG!ScatterGatherAssumption
    PROVE  PartsSpec => KeysStay
<1> DEFINE Moves ==
        \A k \in Key : ring # << >> /\ ring' # << >> =>
           /\ SG!GetNode(ring, k) # SG!GetNode(ring', k) =>
                 SG!GetNode(ring', k) \in nodes' \ nodes \/ SG!GetNode(ring, k) \in nodes \ nodes'
           /\ LET all == SG!GetNodes(ring', k, SG!Cardinality(nodes')) IN
              SG!Range(all) = nodes' /\ Len(all) = SG!Cardinality(nodes') /\ all[1] = SG!GetNode(ring', k)
<1>1. PartsInit => RingInv
  BY RingStarts DEF PartsInit
<1>2. RingInv /\ [PartsNext]_partVars => RingInv'
  BY RingStep, PartSteps
<1>3. RingInv /\ RingInv' /\ [PartsNext]_partVars => [Moves]_SG!vars
  <2> SUFFICES ASSUME RingInv, RingInv', [PartsNext]_partVars PROVE Moves
    OBVIOUS
  <2>1. [SG!Next]_sgVars
    BY PartSteps
  <2> SUFFICES ASSUME NEW k \in Key, ring # << >>, ring' # << >>
               PROVE  /\ SG!GetNode(ring, k) # SG!GetNode(ring', k) =>
                            SG!GetNode(ring', k) \in nodes' \ nodes \/ SG!GetNode(ring, k) \in nodes \ nodes'
                      /\ LET all == SG!GetNodes(ring', k, SG!Cardinality(nodes')) IN
                         SG!Range(all) = nodes' /\ Len(all) = SG!Cardinality(nodes')
                         /\ all[1] = SG!GetNode(ring', k)
    OBVIOUS
  <2>2. InRingOrder(ring') /\ nodes' = {t.node : t \in Range(ring')} /\ IsFiniteSet(nodes')
    <3>1. /\ InRingOrder(ring') /\ nodes' \in SUBSET Node
          /\ Range(ring') = UNION {SG!TokensOf(n) : n \in nodes'}
      BY DEF RingInv, InRingOrder
    <3> QED
      BY <3>1, NodesOfRing
  <2>3. SG!Cardinality(nodes') = Cardinality(nodes')
    BY Zenon DEF SG!Cardinality, Cardinality
  <2>4. \A f : SG!Range(f) = Range(f)
    BY Zenon DEF SG!Range, Range
  <2>5. LET all == SG!GetNodes(ring', k, Cardinality(nodes'))
        IN  Range(all) = nodes' /\ Len(all) = Cardinality(nodes') /\ all[1] = SG!GetNode(ring', k)
    BY <2>2, ReplicasAreAll
  <2> QED
    BY <2>1, <2>3, <2>4, <2>5, OwnersMove
<1> QED
  BY <1>1, <1>2, <1>3, PTL DEF PartsSpec, KeysStay, SG!KeysStay
=============================================================================
