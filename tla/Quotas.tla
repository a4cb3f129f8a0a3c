------------------------------- MODULE Quotas -------------------------------
(***************************************************************************)
(* What a server grants its clients: TenantMiddleware with the quota of    *)
(* requests per minute of each tenant (internal/auth/tenant.go), and,      *)
(* behind it in cmd/lightlimbs, RateLimiterMiddleware with a token bucket  *)
(* for each client (common/ratelimit).  Each limiter decides under its own *)
(* lock, and requests of several connections reach them in any order.      *)
(*                                                                         *)
(* Time is in ticks, Minute of them in a minute, and Rate is in tokens per *)
(* tick.  The claims of a request are those ParseJWT accepted; signatures  *)
(* are left out, and so are the tokens that RecordTokens adds up for       *)
(* display.                                                                *)
(***************************************************************************)
EXTENDS Naturals, Sequences, FiniteSets

CONSTANTS
    Tenant, Client,
    PlansOf,          \* the plans in the claims of a tenant's tokens
    QuotaOf,          \* plan -> requests per minute: 600, 3000, 12000
    Minute,
    Rate, Burst,      \* of a bucket: 50 a second, 100
    MaxTime, MaxRequests   \* bounds

QuotasAssumption ==
    /\ \A plan \in DOMAIN QuotaOf : QuotaOf[plan] \in Nat
    /\ PlansOf \in [Tenant -> SUBSET DOMAIN QuotaOf]
    /\ \A t \in Tenant : \E best \in PlansOf[t] : \A plan \in PlansOf[t] : QuotaOf[plan] <= QuotaOf[best]
    /\ {Minute, Rate, Burst, MaxTime, MaxRequests} \subseteq Nat

VARIABLES
    now,
    requests, lastReset,   \* the TenantQuotaLimiter, shared by all tenants
    bucket,                \* client -> [level, updated]; a client has one once it asked
    waiting,               \* requests past the quota, before the rate limiter
    passed, served,        \* history: [who, at] of the requests each limiter let pass
    asked

vars == <<now, requests, lastReset, bucket, waiting, passed, served, asked>>

\* The most that any token of the tenant claims.
MaxReqs(tenant) ==
    QuotaOf[CHOOSE best \in PlansOf[tenant] : \A plan \in PlansOf[tenant] : QuotaOf[plan] <= QuotaOf[best]]

Init ==
    /\ now = 0 /\ lastReset = 0
    /\ requests = [t \in Tenant |-> 0]
    /\ bucket = << >>
    /\ waiting = << >> /\ passed = << >> /\ served = << >> /\ asked = 0

Tick ==
    /\ now < MaxTime
    /\ now' = now + 1
    /\ UNCHANGED <<requests, lastReset, bucket, waiting, passed, served, asked>>

Expired == now - lastReset > Minute

\* Allow of the tenants' limiter: one window for all, that begins anew with the
\* first request more than a minute after it began.  The quota is that of the plan
\* in the request's own token.  A refusal answers 429.
Counts == IF Expired THEN [t \in Tenant |-> 0] ELSE requests
AskTenant(tenant, plan, client) ==
    /\ asked < MaxRequests
    /\ plan \in PlansOf[tenant]
    /\ asked' = asked + 1
    /\ lastReset' = IF Expired THEN now ELSE lastReset
    /\ IF Counts[tenant] >= QuotaOf[plan]
       THEN requests' = Counts /\ UNCHANGED <<waiting, passed>>
       ELSE /\ requests' = [Counts EXCEPT ![tenant] = @ + 1]
            /\ passed' = Append(passed, [who |-> tenant, at |-> now])
            /\ waiting' = Append(waiting, client)
    /\ UNCHANGED <<now, bucket, served>>

\* Mutant: a bucket that is left alone fills without end.
LevelUncapped(client) ==
    IF client \in DOMAIN bucket
    THEN bucket[client].level + Rate * (now - bucket[client].updated)
    ELSE Burst

Level(client) ==
    LET refilled == bucket[client].level + Rate * (now - bucket[client].updated)
    IN  IF client \notin DOMAIN bucket THEN Burst   \* NewTokenBucket
        ELSE IF refilled > Burst THEN Burst ELSE refilled

\* Allow of the bucket of the client, for any of the requests that wait.
AskBucket(n) ==
    LET client == waiting[n]
        level == Level(client)
        left == IF level >= 1 THEN level - 1 ELSE level
    IN  /\ bucket' = [c \in DOMAIN bucket \cup {client} |->
                        IF c = client THEN [level |-> left, updated |-> now] ELSE bucket[c]]
        /\ served' = IF level >= 1 THEN Append(served, [who |-> client, at |-> now]) ELSE served
        /\ waiting' = SubSeq(waiting, 1, n - 1) \o SubSeq(waiting, n + 1, Len(waiting))
        /\ UNCHANGED <<now, requests, lastReset, passed, asked>>

Next ==
    \/ Tick
    \/ \E tenant \in Tenant, plan \in DOMAIN QuotaOf, client \in Client : AskTenant(tenant, plan, client)
    \/ \E n \in 1..Len(waiting) : AskBucket(n)

Spec == Init /\ [][Next]_vars

-----------------------------------------------------------------------------
\* How many of the grants to one party fall in the ticks from first to last.
Granted(grants, who, first, last) ==
    Cardinality({n \in DOMAIN grants : grants[n].who = who /\ grants[n].at \in first..last})

\* In any stretch of time a client is served no more than a full bucket and
\* what flows in, and in any minute a tenant passes no more than twice the largest
\* quota that its tokens claim, whatever plan each request comes with:
\* two windows may meet in a minute, and never three (ratelimit.go:27-44,
\* tenant.go:125-147).
GrantsAreBounded ==
    \A first, last \in 0..now :
        first <= last =>
            /\ \A c \in Client : Granted(served, c, first, last) <= Burst + Rate * (last - first)
            /\ last - first <= Minute =>
                  \A t \in Tenant : Granted(passed, t, first, last) <= 2 * MaxReqs(t)
=============================================================================
