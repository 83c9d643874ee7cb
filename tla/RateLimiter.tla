----------------------------- MODULE RateLimiter ----------------------------
(***************************************************************************)
(* The per-address rate limiter of the API (api/ratelimit.go) inside the   *)
(* handler chain of api/main.go.                                           *)
(*                                                                         *)
(* allow() looks the visitor up under the mutex, releases it, and only     *)
(* then takes a token, so other requests and the cleanup loop may come in  *)
(* between.  limiters is the heap of rate.Limiter objects: a visitor and a *)
(* running request hold positions in it, and an evicted limiter lives on   *)
(* for the requests that still point to it.  rate.Limiter itself is        *)
(* golang.org/x/time/rate; the unit of its content is a fraction of a      *)
(* token, so that the rate per unit of time is a natural number.           *)
(*                                                                         *)
(* served and limited are history variables: only the bound on the number  *)
(* of requests reads them.                                                 *)
(***************************************************************************)
EXTENDS Integers, Sequences

CONSTANTS Remotes,       \* values of http.Request.RemoteAddr
          SplitHost,     \* net.SplitHostPort where it succeeds: address to host
          Goroutines,    \* one per running request
          RpsEnv, DefaultRps,       \* RATE_LIMIT_RPS and its default
          BurstEnv, DefaultBurst,   \* RATE_LIMIT_BURST and its default
          Cost,          \* units in one token
          MaxIdle,       \* maxIdle of cleanupLoop
          MaxStall,      \* longest time from releasing the mutex to Allow()
          NoVisitor, NoRequest, NoTick,
          MaxClock, MaxRequests     \* bounds on what the environment does

\* A variable that is unset, does not parse or is not positive is ignored.
FromEnv(raw, default) == IF raw \in Int /\ raw > 0 THEN raw ELSE default

Rate == FromEnv(RpsEnv, DefaultRps)
Burst == FromEnv(BurstEnv, DefaultBurst)
Full == Burst * Cost

clientIP(remote) == IF remote \in DOMAIN SplitHost THEN SplitHost[remote] ELSE remote
IPs == {clientIP(r) : r \in Remotes}

Visitor == [limiter : Nat, lastSeen : Nat]
Request == [ip : IPs, limiter : Nat, at : Nat]

ASSUME LimitsAssumption ==
  /\ {DefaultRps, DefaultBurst, Cost, MaxStall} \subseteq Nat \ {0}
  /\ {MaxIdle, MaxClock, MaxRequests} \subseteq Nat
ASSUME MarkersAssumption == NoTick \notin Nat /\ NoVisitor \notin Visitor /\ NoRequest \notin Request
\* An idle visitor's bucket is full again by the time it is evicted.
ASSUME IdleAssumption == Full + Rate * MaxStall <= Rate * MaxIdle

VARIABLES
  visitors,   \* ipRateLimiter.visitors
  limiters,   \* per address: the content of each rate.Limiter made for it
  handler,    \* per goroutine: where the request is, and its local variables
  tick,       \* the value waiting in ticker.C
  clock,      \* wall clock
  served,     \* history: requests passed on to the routes, per address
  limited     \* history: requests answered 429, per address

vars == <<visitors, limiters, handler, tick, clock, served, limited>>

Init ==
  /\ visitors = [ip \in IPs |-> NoVisitor]
  /\ limiters = [ip \in IPs |-> <<>>]
  /\ handler = [g \in Goroutines |-> NoRequest]
  /\ tick = NoTick
  /\ clock = 0
  /\ served = [ip \in IPs |-> 0]
  /\ limited = [ip \in IPs |-> 0]

-----------------------------------------------------------------------------
\* withCORS answers a preflight before withRateLimit sees it.
Preflight(g, ip) ==
  /\ handler[g] = NoRequest
  /\ UNCHANGED vars

\* allow() up to the release of the mutex.
\* (Mutant: lastSeen is set only when the visitor is created.)
LookUpStampedOnce(g, ip) ==
  LET new == visitors[ip] = NoVisitor
      pos == IF new THEN Len(limiters[ip]) + 1 ELSE visitors[ip].limiter
  IN  /\ handler[g] = NoRequest
      /\ served[ip] + limited[ip] < MaxRequests
      /\ limiters' = [limiters EXCEPT ![ip] = IF new THEN Append(@, Full) ELSE @]
      /\ visitors' = [visitors EXCEPT ![ip] =
                        IF new THEN [limiter |-> pos, lastSeen |-> clock] ELSE @]
      /\ handler' = [handler EXCEPT ![g] = [ip |-> ip, limiter |-> pos, at |-> clock]]
      /\ UNCHANGED <<tick, clock, served, limited>>

LookUp(g, ip) ==
  LET new == visitors[ip] = NoVisitor
      pos == IF new THEN Len(limiters[ip]) + 1 ELSE visitors[ip].limiter
  IN  /\ handler[g] = NoRequest
      /\ served[ip] + limited[ip] < MaxRequests
      /\ limiters' = [limiters EXCEPT ![ip] = IF new THEN Append(@, Full) ELSE @]
      /\ visitors' = [visitors EXCEPT ![ip] = [limiter |-> pos, lastSeen |-> clock]]
      /\ handler' = [handler EXCEPT ![g] = [ip |-> ip, limiter |-> pos, at |-> clock]]
      /\ UNCHANGED <<tick, clock, served, limited>>

\* limiter.Allow() and what withRateLimit does with its result.
Content(g) == limiters[handler[g].ip][handler[g].limiter]

Pass(g) ==
  LET h == handler[g]
  IN  /\ h # NoRequest
      /\ Content(g) >= Cost
      /\ limiters' = [limiters EXCEPT ![h.ip][h.limiter] = @ - Cost]
      /\ served' = [served EXCEPT ![h.ip] = @ + 1]
      /\ handler' = [handler EXCEPT ![g] = NoRequest]
      /\ UNCHANGED <<visitors, tick, clock, limited>>

Reject(g) ==
  LET h == handler[g]
  IN  /\ h # NoRequest
      /\ Content(g) < Cost
      /\ limited' = [limited EXCEPT ![h.ip] = @ + 1]
      /\ handler' = [handler EXCEPT ![g] = NoRequest]
      /\ UNCHANGED <<visitors, limiters, tick, clock, served>>

-----------------------------------------------------------------------------
\* cleanupLoop.  The ticker keeps one value; the loop may take it late, when
\* requests have come in since, and sweeps with the time it was sent.
TickerFires ==
  /\ tick = NoTick
  /\ tick' = clock
  /\ UNCHANGED <<visitors, limiters, handler, clock, served, limited>>

\* Mutant: maxIdle is passed in a unit sixty times too large.
IdleInMinutes(v, now) == now - v.lastSeen > 60 * MaxIdle

Idle(v, now) == now - v.lastSeen > MaxIdle

Sweep ==
  /\ tick # NoTick
  /\ visitors' = [ip \in IPs |->
                    IF visitors[ip] # NoVisitor /\ Idle(visitors[ip], tick)
                      THEN NoVisitor ELSE visitors[ip]]
  /\ tick' = NoTick
  /\ UNCHANGED <<limiters, handler, clock, served, limited>>

\* A unit of time passes and every limiter refills.  A goroutine is not kept
\* from its next instruction for longer than MaxStall.
\* (Mutant of Refilled: the bucket has no brim.)
RefilledWithoutBurst(n) == n + Rate

Refilled(n) == IF n + Rate > Full THEN Full ELSE n + Rate

Elapse ==
  /\ clock < MaxClock
  /\ \A g \in Goroutines : handler[g] # NoRequest => clock < handler[g].at + MaxStall
  /\ clock' = clock + 1
  /\ limiters' = [ip \in IPs |-> [k \in DOMAIN limiters[ip] |-> Refilled(limiters[ip][k])]]
  /\ UNCHANGED <<visitors, handler, tick, served, limited>>

-----------------------------------------------------------------------------
Serving(g) ==
  \/ Pass(g) \/ Reject(g)
  \/ \E r \in Remotes : Preflight(g, clientIP(r)) \/ LookUp(g, clientIP(r))

Next == (\E g \in Goroutines : Serving(g)) \/ TickerFires \/ Sweep \/ Elapse

Spec == Init /\ [][Next]_vars

\* The ticker keeps firing and the cleanup goroutine is scheduled and gets the
\* mutex.  Nothing is assumed of clients or of the requests that are running.
FairSpec == Spec /\ WF_vars(TickerFires) /\ WF_vars(Sweep)

-----------------------------------------------------------------------------
\* Every variable has its type, and a visitor and a running request point at a
\* limiter of their address.
TypeOK ==
  /\ visitors \in [IPs -> Visitor \cup {NoVisitor}]
  /\ limiters \in [IPs -> Seq(0..Full)]
  /\ handler \in [Goroutines -> Request \cup {NoRequest}]
  /\ tick \in Nat \cup {NoTick}
  /\ clock \in Nat
  /\ served \in [IPs -> Nat]
  /\ limited \in [IPs -> Nat]
  /\ \A ip \in IPs : visitors[ip] # NoVisitor => visitors[ip].limiter \in DOMAIN limiters[ip]
  /\ \A g \in Goroutines :
       handler[g] # NoRequest => handler[g].limiter \in DOMAIN limiters[handler[g].ip]

\* The bucket an address has as far as the next request is concerned.
Level == [ip \in IPs |-> IF visitors[ip] = NoVisitor THEN Full
                                                     ELSE limiters[ip][visitors[ip].limiter]]

Bucket == INSTANCE TokenBucket WITH Clients <- IPs, level <- Level

\* The limiter is the one that never forgets an address: evicting a visitor,
\* taking the token outside the mutex and sweeping with an old tick never serve
\* a request that a bucket kept for ever would refuse, nor refuse one it serves,
\* and a preflight costs nothing.
ImplementsTokenBucket == Bucket!BucketSpec

\* cleanupLoop: a visitor idle for longer than maxIdle is forgotten, unless it
\* comes back first, so the map does not keep every address ever seen.
IdleVisitorsGo ==
  \A ip \in IPs :
    (visitors[ip] # NoVisitor /\ clock - visitors[ip].lastSeen > MaxIdle)
      ~> (visitors[ip] = NoVisitor \/ clock - visitors[ip].lastSeen <= MaxIdle)
=============================================================================
