------------------------- MODULE RateLimiterProofs --------------------------
(***************************************************************************)
(* The rate limiter implements one bucket per address kept for ever, for   *)
(* every rate, burst, number of addresses and of running requests, as long *)
(* as an idle visitor is kept for the time its bucket takes to refill.     *)
(***************************************************************************)
EXTENDS RateLimiter, TLAPS

\* No value of a timestamp lies in the future.
TimesInPast ==
  /\ tick # NoTick => tick <= clock
  /\ \A ip \in IPs : visitors[ip] # NoVisitor => visitors[ip].lastSeen <= clock

\* A running request holds the limiter its address has now, and looked it up no
\* later than the visitor was last seen and at most MaxStall ago.
RunningIsCurrent ==
  \A g \in Goroutines : handler[g] # NoRequest =>
    LET h == handler[g]
        v == visitors[h.ip]
    IN  /\ v # NoVisitor
        /\ h.limiter = v.limiter
        /\ h.at <= v.lastSeen
        /\ clock <= h.at + MaxStall

\* What a visitor's bucket holds grows with the time it has been idle.
IdleRefills ==
  \A ip \in IPs : visitors[ip] # NoVisitor =>
    LET v == visitors[ip]
        n == limiters[ip][v.limiter]
    IN  n = Full \/ n >= Rate * (clock - (v.lastSeen + MaxStall))

LimiterInv == TypeOK /\ TimesInPast /\ RunningIsCurrent /\ IdleRefills

-----------------------------------------------------------------------------
\* The settings rateLimitFromEnv arrives at are positive whatever the
\* environment holds.
LEMMA Settings == Rate \in Nat \ {0} /\ Burst \in Nat \ {0} /\ Full \in Nat
<1>1. Rate \in Nat \ {0} /\ Burst \in Nat \ {0}
  BY LimitsAssumption DEF Rate, Burst, FromEnv
<1>2. Full \in Nat
  BY <1>1, LimitsAssumption DEF Full
<1> QED BY <1>1, <1>2

\* Longer is more, at any rate.
LEMMA Scaled == ASSUME NEW r \in Nat, NEW a \in Int, NEW b \in Int, a <= b
                PROVE  r * a <= r * b
OBVIOUS

\* A stall is shorter than the time an idle visitor is kept.
LEMMA StallIsShort == MaxStall <= MaxIdle
<1> DEFINE f == Full
           r == Rate
<1>1. /\ r \in Nat \ {0} /\ f \in Nat /\ MaxStall \in Nat /\ MaxIdle \in Nat
      /\ f + r * MaxStall <= r * MaxIdle
  BY Settings, LimitsAssumption, IdleAssumption
<1> HIDE DEF f, r
<1>2. ASSUME MaxIdle + 1 <= MaxStall PROVE FALSE
  <2>1. r * (MaxIdle + 1) <= r * MaxStall
    BY <1>1, <1>2, Scaled
  <2>2. r * (MaxIdle + 1) = r * MaxIdle + r
    BY <1>1
  <2> QED BY <2>1, <2>2, <1>1
<1> QED BY <1>1, <1>2

\* A bucket idle for longer than maxIdle is full.
LEMMA FullByEviction ==
  ASSUME NEW n \in 0..Full, NEW t \in Nat, NEW last \in Nat, t - last > MaxIdle,
         n = Full \/ n >= Rate * (t - (last + MaxStall))
  PROVE  n = Full
<1> DEFINE f == Full
           r == Rate
<1>1. /\ r \in Nat \ {0} /\ f \in Nat /\ MaxStall \in Nat /\ MaxIdle \in Nat
      /\ f + r * MaxStall <= r * MaxIdle
  BY Settings, LimitsAssumption, IdleAssumption
<1>2. n \in 0..f /\ (n = f \/ n >= r * (t - (last + MaxStall)))
  OBVIOUS
<1> HIDE DEF f, r
<1>3. r * (MaxIdle - MaxStall) <= r * (t - (last + MaxStall))
  BY <1>1, Scaled
<1>4. r * (MaxIdle - MaxStall) = r * MaxIdle - r * MaxStall
  BY <1>1
<1>5. r * (t - (last + MaxStall)) \in Int
  BY <1>1
<1>6. n = f
  BY <1>1, <1>2, <1>3, <1>4, <1>5
<1> QED BY <1>6 DEF f

\* Refilling keeps a bucket within its brim.
LEMMA RefilledType == ASSUME NEW n \in 0..Full PROVE Refilled(n) \in 0..Full
BY Settings DEF Refilled

\* One limiter changes, one is added, all refill: sequences stay sequences.
LEMMA SeqElement == ASSUME NEW S, NEW s \in Seq(S), NEW k \in DOMAIN s PROVE s[k] \in S
OBVIOUS

LEMMA SeqUpdate == ASSUME NEW S, NEW s \in Seq(S), NEW k \in DOMAIN s, NEW x \in S
                   PROVE  [s EXCEPT ![k] = x] \in Seq(S) /\ DOMAIN [s EXCEPT ![k] = x] = DOMAIN s
OBVIOUS

LEMMA SeqAppend == ASSUME NEW S, NEW s \in Seq(S), NEW x \in S
                   PROVE  /\ Append(s, x) \in Seq(S)
                          /\ DOMAIN Append(s, x) = 1..Len(s) + 1
                          /\ DOMAIN s = 1..Len(s)
                          /\ \A k \in DOMAIN s : Append(s, x)[k] = s[k]
                          /\ Append(s, x)[Len(s) + 1] = x
                          /\ Len(s) \in Nat
OBVIOUS

LEMMA SeqRefill == ASSUME NEW s \in Seq(0..Full)
                   PROVE  [k \in DOMAIN s |-> Refilled(s[k])] \in Seq(0..Full)
<1> DEFINE t == [k \in DOMAIN s |-> Refilled(s[k])]
<1>0. \A k \in DOMAIN s : s[k] \in 0..Full
  BY SeqElement, Zenon
<1>1. \A k \in DOMAIN s : Refilled(s[k]) \in 0..Full
  BY <1>0, RefilledType
<1>2. DOMAIN t = 1..Len(s) /\ Len(s) \in Nat
  OBVIOUS
<1> HIDE DEF t
<1>3. \A k \in DOMAIN t : t[k] \in 0..Full
  BY <1>1, <1>2 DEF t
<1>4. t = [k \in 1..Len(s) |-> t[k]]
  BY <1>2 DEF t
<1>5. t \in Seq(0..Full)
  BY <1>2, <1>3, <1>4
<1> QED BY <1>5 DEF t

-----------------------------------------------------------------------------
\* The steps of a request and of the loop, without the choice of an address.
LEMMA Steps ==
  ASSUME [Next]_vars
  PROVE  \/ \E g \in Goroutines : Pass(g)
         \/ \E g \in Goroutines : Reject(g)
         \/ \E g \in Goroutines, ip \in IPs : LookUp(g, ip)
         \/ TickerFires \/ Sweep \/ Elapse \/ UNCHANGED vars
<1>1. \A r \in Remotes : clientIP(r) \in IPs
  BY DEF IPs
<1> QED BY <1>1 DEF Next, Serving, Preflight

\* LookUp leaves its address with a limiter of its own, and every limiter it had.
LEMMA LookUpStep ==
  ASSUME TypeOK, NEW g \in Goroutines, NEW ip \in IPs, LookUp(g, ip)
  PROVE  /\ limiters' \in [IPs -> Seq(0..Full)]
         /\ \A a \in IPs : DOMAIN limiters[a] \subseteq DOMAIN limiters'[a]
         /\ \A a \in IPs : \A k \in DOMAIN limiters[a] : limiters'[a][k] = limiters[a][k]
         /\ visitors'[ip] \in Visitor
         /\ visitors'[ip].limiter \in DOMAIN limiters'[ip]
         /\ visitors'[ip].lastSeen = clock
         /\ visitors[ip] = NoVisitor => limiters'[ip][visitors'[ip].limiter] = Full
         /\ visitors[ip] # NoVisitor => visitors'[ip].limiter = visitors[ip].limiter
         /\ \A a \in IPs \ {ip} : visitors'[a] = visitors[a]
         /\ visitors' \in [IPs -> Visitor \cup {NoVisitor}]
         /\ handler'[g] = [ip |-> ip, limiter |-> visitors'[ip].limiter, at |-> clock]
         /\ handler' \in [Goroutines -> Request \cup {NoRequest}]
<1> DEFINE new == visitors[ip] = NoVisitor
           pos == IF new THEN Len(limiters[ip]) + 1 ELSE visitors[ip].limiter
           longer == Append(limiters[ip], Full)
<1>1. Full \in 0..Full
  BY Settings
<1>2. limiters[ip] \in Seq(0..Full)
  BY DEF TypeOK
<1>3. /\ longer \in Seq(0..Full)
      /\ DOMAIN longer = 1..Len(limiters[ip]) + 1
      /\ DOMAIN limiters[ip] = 1..Len(limiters[ip])
      /\ \A k \in DOMAIN limiters[ip] : longer[k] = limiters[ip][k]
      /\ longer[Len(limiters[ip]) + 1] = Full
      /\ Len(limiters[ip]) \in Nat
  BY <1>1, <1>2, SeqAppend
<1>4. limiters' = [limiters EXCEPT ![ip] = IF new THEN longer ELSE limiters[ip]]
  BY DEF LookUp, TypeOK
<1> HIDE DEF longer
<1>5. visitors' = [visitors EXCEPT ![ip] = [limiter |-> pos, lastSeen |-> clock]]
  BY DEF LookUp
<1>6. handler' = [handler EXCEPT ![g] = [ip |-> ip, limiter |-> pos, at |-> clock]]
  BY DEF LookUp
<1>7. /\ pos \in Nat /\ (new => pos = Len(limiters[ip]) + 1)
      /\ (~new => pos = visitors[ip].limiter /\ pos \in DOMAIN limiters[ip])
  BY <1>3 DEF TypeOK, Visitor
<1> HIDE DEF pos, new
<1>8. limiters' \in [IPs -> Seq(0..Full)] /\ limiters'[ip] = (IF new THEN longer ELSE limiters[ip])
      /\ \A a \in IPs \ {ip} : limiters'[a] = limiters[a]
  BY <1>2, <1>3, <1>4 DEF TypeOK
<1>9. pos \in DOMAIN limiters'[ip] /\ (new => limiters'[ip][pos] = Full)
  BY <1>3, <1>7, <1>8
<1>10. /\ visitors' \in [IPs -> Visitor \cup {NoVisitor}]
       /\ visitors'[ip] = [limiter |-> pos, lastSeen |-> clock]
       /\ \A a \in IPs \ {ip} : visitors'[a] = visitors[a]
  BY <1>5, <1>7 DEF TypeOK, Visitor
<1>11. handler' \in [Goroutines -> Request \cup {NoRequest}]
  BY <1>6, <1>7 DEF TypeOK, Request
<1>12. handler'[g] = [ip |-> ip, limiter |-> pos, at |-> clock]
  BY <1>6 DEF TypeOK
<1>13. /\ \A a \in IPs : DOMAIN limiters[a] \subseteq DOMAIN limiters'[a]
       /\ \A a \in IPs : \A k \in DOMAIN limiters[a] : limiters'[a][k] = limiters[a][k]
  <2> SUFFICES ASSUME NEW a \in IPs
               PROVE  /\ DOMAIN limiters[a] \subseteq DOMAIN limiters'[a]
                      /\ \A k \in DOMAIN limiters[a] : limiters'[a][k] = limiters[a][k]
    OBVIOUS
  <2>1. CASE a # ip
    BY <2>1, <1>8
  <2>2. CASE a = ip
    BY <2>2, <1>3, <1>8
  <2> QED BY <2>1, <2>2
<1>14. visitors'[ip] \in Visitor /\ visitors'[ip].limiter = pos /\ visitors'[ip].lastSeen = clock
  BY <1>7, <1>10 DEF Visitor, TypeOK
<1> QED BY <1>7, <1>8, <1>9, <1>10, <1>11, <1>12, <1>13, <1>14 DEF new

\* Pass takes its token from the limiter it points at and from no other.
LEMMA PassStep ==
  ASSUME TypeOK, NEW g \in Goroutines, Pass(g)
  PROVE  LET h == handler[g] IN
         /\ h \in Request
         /\ limiters' \in [IPs -> Seq(0..Full)]
         /\ \A a \in IPs : DOMAIN limiters'[a] = DOMAIN limiters[a]
         /\ \A a \in IPs : \A k \in DOMAIN limiters[a] :
              limiters'[a][k] = IF a = h.ip /\ k = h.limiter THEN limiters[a][k] - Cost
                                                            ELSE limiters[a][k]
<1> DEFINE h == handler[g]
           s == limiters[h.ip]
           x == s[h.limiter] - Cost
<1>1. h \in Request /\ h.ip \in IPs /\ h.limiter \in DOMAIN s
  BY DEF TypeOK, Pass, Request
<1>2. s \in Seq(0..Full)
  BY <1>1 DEF TypeOK
<1>3. s[h.limiter] \in 0..Full /\ s[h.limiter] >= Cost
  BY <1>1, <1>2, SeqElement, Zenon DEF Pass, Content
<1>4. x \in 0..Full
  BY <1>3, LimitsAssumption, Settings
<1>5. limiters' = [limiters EXCEPT ![h.ip] = [s EXCEPT ![h.limiter] = x]]
  BY <1>1 DEF Pass, TypeOK
<1> HIDE DEF x
<1>6. [s EXCEPT ![h.limiter] = x] \in Seq(0..Full) /\ DOMAIN [s EXCEPT ![h.limiter] = x] = DOMAIN s
  BY <1>1, <1>2, <1>4, SeqUpdate
<1>7. \A k \in DOMAIN s : [s EXCEPT ![h.limiter] = x][k] = IF k = h.limiter THEN x ELSE s[k]
  BY <1>2
<1>8. limiters' \in [IPs -> Seq(0..Full)]
  BY <1>1, <1>5, <1>6 DEF TypeOK
<1>9. limiters'[h.ip] = [s EXCEPT ![h.limiter] = x] /\ \A a \in IPs \ {h.ip} : limiters'[a] = limiters[a]
  BY <1>1, <1>5, Zenon DEF TypeOK
<1> HIDE DEF s
<1>10. ASSUME NEW a \in IPs
       PROVE  /\ DOMAIN limiters'[a] = DOMAIN limiters[a]
              /\ \A k \in DOMAIN limiters[a] :
                   limiters'[a][k] = IF a = h.ip /\ k = h.limiter THEN limiters[a][k] - Cost
                                                                 ELSE limiters[a][k]
  <2>1. CASE a # h.ip
    BY <2>1, <1>9
  <2>2. CASE a = h.ip
    <3>1. limiters[a] = s
      BY <2>2 DEF s
    <3>2. limiters'[a] = [s EXCEPT ![h.limiter] = x]
      BY <2>2, <1>9
    <3>3. x = s[h.limiter] - Cost
      BY DEF x
    <3>4. \A k \in DOMAIN s : limiters'[a][k] = IF k = h.limiter THEN s[k] - Cost ELSE s[k]
      BY <3>2, <3>3, <1>7
    <3> QED BY <2>2, <3>1, <3>2, <3>4, <1>6
  <2> QED BY <2>1, <2>2
<1> QED BY <1>1, <1>8, <1>10

\* Every limiter refills when time passes.
LEMMA ElapseStep ==
  ASSUME TypeOK, Elapse
  PROVE  /\ limiters' \in [IPs -> Seq(0..Full)]
         /\ \A a \in IPs : DOMAIN limiters'[a] = DOMAIN limiters[a]
         /\ \A a \in IPs : \A k \in DOMAIN limiters[a] : limiters'[a][k] = Refilled(limiters[a][k])
<1>1. limiters' = [ip \in IPs |-> [k \in DOMAIN limiters[ip] |-> Refilled(limiters[ip][k])]]
  BY DEF Elapse
<1>2. \A ip \in IPs : [k \in DOMAIN limiters[ip] |-> Refilled(limiters[ip][k])] \in Seq(0..Full)
  BY SeqRefill DEF TypeOK
<1> QED BY <1>1, <1>2

-----------------------------------------------------------------------------
LEMMA TypeInit == Init => TypeOK
BY Settings, MarkersAssumption DEF Init, TypeOK

LEMMA TypeStep == TypeOK /\ [Next]_vars => TypeOK'
<1> SUFFICES ASSUME TypeOK, [Next]_vars PROVE TypeOK'
  BY Zenon
<1>1. ASSUME NEW g \in Goroutines, Pass(g) PROVE TypeOK'
  <2> DEFINE h == handler[g]
  <2>1. /\ h \in Request
        /\ limiters' \in [IPs -> Seq(0..Full)]
        /\ \A a \in IPs : DOMAIN limiters'[a] = DOMAIN limiters[a]
    BY <1>1, PassStep
  <2>2. served' \in [IPs -> Nat]
    BY <1>1, <2>1, SMT, Z3 DEF Pass, TypeOK, Request
  <2>3. handler' \in [Goroutines -> Request \cup {NoRequest}] /\ handler'[g] = NoRequest
        /\ \A o \in Goroutines \ {g} : handler'[o] = handler[o]
    BY <1>1 DEF Pass, TypeOK
  <2>4. \A o \in Goroutines : handler'[o] # NoRequest => handler'[o] = handler[o] /\ handler[o].ip \in IPs
    BY <2>3 DEF TypeOK, Request
  <2> QED BY <1>1, <2>1, <2>2, <2>3, <2>4, SMT, Z3 DEF Pass, TypeOK
<1>2. ASSUME NEW g \in Goroutines, Reject(g) PROVE TypeOK'
  <2>1. handler[g].ip \in IPs
    BY <1>2 DEF Reject, TypeOK, Request
  <2>2. limited' \in [IPs -> Nat]
    BY <1>2, <2>1, SMT, Z3 DEF Reject, TypeOK
  <2> QED BY <1>2, <2>2 DEF Reject, TypeOK
<1>3. ASSUME NEW g \in Goroutines, NEW ip \in IPs, LookUp(g, ip) PROVE TypeOK'
  <2>1. /\ limiters' \in [IPs -> Seq(0..Full)]
        /\ \A a \in IPs : DOMAIN limiters[a] \subseteq DOMAIN limiters'[a]
        /\ visitors'[ip].limiter \in DOMAIN limiters'[ip]
        /\ \A a \in IPs \ {ip} : visitors'[a] = visitors[a]
        /\ visitors' \in [IPs -> Visitor \cup {NoVisitor}]
        /\ handler'[g] = [ip |-> ip, limiter |-> visitors'[ip].limiter, at |-> clock]
        /\ handler' \in [Goroutines -> Request \cup {NoRequest}]
    BY <1>3, LookUpStep
  <2>2. \A a \in IPs : visitors'[a] # NoVisitor => visitors'[a].limiter \in DOMAIN limiters'[a]
    BY <2>1, Zenon DEF TypeOK
  <2>3. \A o \in Goroutines \ {g} : handler'[o] = handler[o]
    BY <1>3 DEF LookUp, TypeOK
  <2>4. ASSUME NEW o \in Goroutines, handler'[o] # NoRequest
        PROVE  handler'[o].limiter \in DOMAIN limiters'[handler'[o].ip]
    <3>1. CASE o = g
      BY <3>1, <2>1
    <3>2. CASE o # g
      <4>1. handler[o].ip \in IPs /\ handler'[o] = handler[o]
        BY <3>2, <2>3, <2>4 DEF TypeOK, Request
      <4> QED BY <4>1, <2>1, <2>4, SMT, Z3 DEF TypeOK
    <3> QED BY <3>1, <3>2, SMT, Z3
  <2> QED BY <1>3, <2>1, <2>2, <2>4, Zenon DEF LookUp, TypeOK
<1>4. CASE TickerFires
  BY <1>4 DEF TickerFires, TypeOK
<1>5. CASE Sweep
  BY <1>5, Zenon DEF Sweep, TypeOK
<1>6. CASE Elapse
  <2>1. \A g \in Goroutines : handler[g] # NoRequest => handler[g].ip \in IPs
    BY DEF TypeOK, Request
  <2> QED BY <1>6, <2>1, ElapseStep DEF Elapse, TypeOK
<1>7. CASE UNCHANGED vars
  BY <1>7 DEF vars, TypeOK
<1> QED BY <1>1, <1>2, <1>3, <1>4, <1>5, <1>6, <1>7, Steps

\* The limiter's variables keep their types, whatever the order of requests,
\* ticks and sweeps: a visitor and a request never point at a missing limiter.
THEOREM LimiterTypeCorrect == Spec => []TypeOK
BY TypeInit, TypeStep, PTL DEF Spec

-----------------------------------------------------------------------------
\* A visitor's bucket, in a state of the right type.
LEMMA VisitorType ==
  ASSUME TypeOK, NEW ip \in IPs, visitors[ip] # NoVisitor
  PROVE  /\ visitors[ip].limiter \in DOMAIN limiters[ip]
         /\ limiters[ip][visitors[ip].limiter] \in 0..Full
         /\ visitors[ip].lastSeen \in Nat
BY SeqElement, Zenon DEF TypeOK, Visitor

LEMMA RequestType ==
  ASSUME TypeOK, NEW g \in Goroutines, handler[g] # NoRequest
  PROVE  handler[g].ip \in IPs /\ handler[g].at \in Nat
BY DEF TypeOK, Request

LEMMA LimiterInit == Init => LimiterInv
<1> SUFFICES ASSUME Init PROVE LimiterInv
  OBVIOUS
<1>1. TimesInPast /\ RunningIsCurrent /\ IdleRefills
  BY DEF Init, TimesInPast, RunningIsCurrent, IdleRefills
<1> QED BY <1>1, TypeInit DEF LimiterInv

\* A tick is never from the future, and a visitor never seen in it.
LEMMA TimesStep == LimiterInv /\ [Next]_vars => TimesInPast'
<1> SUFFICES ASSUME LimiterInv, [Next]_vars PROVE TimesInPast'
  OBVIOUS
<1> USE DEF LimiterInv
<1>1. ASSUME NEW g \in Goroutines, Pass(g) PROVE TimesInPast'
  BY <1>1 DEF Pass, TimesInPast
<1>2. ASSUME NEW g \in Goroutines, Reject(g) PROVE TimesInPast'
  BY <1>2 DEF Reject, TimesInPast
<1>3. ASSUME NEW g \in Goroutines, NEW ip \in IPs, LookUp(g, ip) PROVE TimesInPast'
  <2>1. visitors'[ip].lastSeen = clock /\ \A a \in IPs \ {ip} : visitors'[a] = visitors[a]
    BY <1>3, LookUpStep, Zenon
  <2>2. clock' = clock /\ tick' = tick /\ clock \in Nat
    BY <1>3 DEF LookUp, TypeOK
  <2> QED BY <2>1, <2>2 DEF TimesInPast
<1>4. CASE TickerFires
  BY <1>4 DEF TickerFires, TimesInPast, TypeOK
<1>5. CASE Sweep
  BY <1>5 DEF Sweep, TimesInPast
<1>6. CASE Elapse
  <2>1. \A ip \in IPs : visitors[ip] # NoVisitor => visitors[ip].lastSeen \in Nat
    BY VisitorType
  <2> QED BY <1>6, <2>1 DEF Elapse, TimesInPast, TypeOK
<1>7. CASE UNCHANGED vars
  BY <1>7 DEF vars, TimesInPast
<1> QED BY <1>1, <1>2, <1>3, <1>4, <1>5, <1>6, <1>7, Steps

\* A sweep evicts no visitor that a running request looked up: its lastSeen is
\* at most MaxStall old, and the tick was sent no later than now.
LEMMA SweepSpares ==
  ASSUME LimiterInv, Sweep, NEW g \in Goroutines, handler[g] # NoRequest
  PROVE  visitors'[handler[g].ip] = visitors[handler[g].ip]
<1> DEFINE v == visitors[handler[g].ip]
<1>1. v # NoVisitor /\ handler[g].at <= v.lastSeen /\ clock <= handler[g].at + MaxStall
  BY DEF LimiterInv, RunningIsCurrent
<1>2. handler[g].ip \in IPs /\ handler[g].at \in Nat
  BY RequestType DEF LimiterInv
<1>3. v.lastSeen \in Nat
  BY <1>1, <1>2, VisitorType DEF LimiterInv
<1>4. tick \in Nat /\ tick <= clock /\ clock \in Nat
  BY DEF LimiterInv, TypeOK, TimesInPast, Sweep
<1>5. MaxStall \in Nat /\ MaxIdle \in Nat
  BY LimitsAssumption
<1> HIDE DEF v
<1>6. ~(tick - v.lastSeen > MaxIdle)
  BY <1>1, <1>2, <1>3, <1>4, <1>5, StallIsShort, SMT, Z3
<1> QED BY <1>2, <1>6 DEF Sweep, Idle, v

LEMMA RunningStep == LimiterInv /\ [Next]_vars => RunningIsCurrent'
<1> SUFFICES ASSUME LimiterInv, [Next]_vars, NEW o \in Goroutines, handler'[o] # NoRequest
             PROVE  /\ visitors'[handler'[o].ip] # NoVisitor
                    /\ handler'[o].limiter = visitors'[handler'[o].ip].limiter
                    /\ handler'[o].at <= visitors'[handler'[o].ip].lastSeen
                    /\ clock' <= handler'[o].at + MaxStall
  BY DEF RunningIsCurrent
<1> DEFINE Held == handler'[o] = handler[o]
           Still == visitors'[handler[o].ip] = visitors[handler[o].ip]
<1>0. Held /\ Still /\ clock' = clock =>
        /\ visitors'[handler'[o].ip] # NoVisitor
        /\ handler'[o].limiter = visitors'[handler'[o].ip].limiter
        /\ handler'[o].at <= visitors'[handler'[o].ip].lastSeen
        /\ clock' <= handler'[o].at + MaxStall
  BY Zenon DEF LimiterInv, RunningIsCurrent
<1>1. ASSUME NEW g \in Goroutines, Pass(g) PROVE Held /\ Still /\ clock' = clock
  BY <1>1 DEF Pass, LimiterInv, TypeOK
<1>2. ASSUME NEW g \in Goroutines, Reject(g) PROVE Held /\ Still /\ clock' = clock
  BY <1>2, Zenon DEF Reject, LimiterInv, TypeOK
<1>3. ASSUME NEW g \in Goroutines, NEW ip \in IPs, LookUp(g, ip)
      PROVE  /\ visitors'[handler'[o].ip] # NoVisitor
             /\ handler'[o].limiter = visitors'[handler'[o].ip].limiter
             /\ handler'[o].at <= visitors'[handler'[o].ip].lastSeen
             /\ clock' <= handler'[o].at + MaxStall
  <2>1. /\ visitors'[ip] \in Visitor
        /\ visitors'[ip].lastSeen = clock
        /\ visitors[ip] # NoVisitor => visitors'[ip].limiter = visitors[ip].limiter
        /\ \A a \in IPs \ {ip} : visitors'[a] = visitors[a]
        /\ handler'[g] = [ip |-> ip, limiter |-> visitors'[ip].limiter, at |-> clock]
    BY <1>3, LookUpStep, Zenon DEF LimiterInv
  <2>2. /\ clock' = clock /\ clock \in Nat /\ MaxStall \in Nat
        /\ \A p \in Goroutines \ {g} : handler'[p] = handler[p]
    BY <1>3, LimitsAssumption DEF LookUp, LimiterInv, TypeOK
  <2>3. visitors'[ip] # NoVisitor
    BY <2>1, MarkersAssumption
  <2>4. CASE o = g
    BY <2>1, <2>2, <2>3, <2>4
  <2>5. CASE o # g /\ handler[o].ip # ip
    <3>1. handler[o].ip \in IPs
      BY <2>2, <2>5, RequestType DEF LimiterInv
    <3>2. Held /\ Still
      BY <3>1, <2>1, <2>2, <2>5, Zenon
    <3> QED BY <3>2, <2>2, <1>0
  <2>6. CASE o # g /\ handler[o].ip = ip
    <3>1. Held /\ handler[o] # NoRequest
      BY <2>2, <2>6, Zenon
    <3>2. /\ visitors[ip] # NoVisitor
          /\ handler[o].limiter = visitors[ip].limiter
          /\ handler[o].at <= visitors[ip].lastSeen
          /\ clock <= handler[o].at + MaxStall
      BY <3>1, <2>6 DEF LimiterInv, RunningIsCurrent
    <3>3. visitors[ip].lastSeen <= clock /\ visitors[ip].lastSeen \in Nat /\ handler[o].at \in Nat
      BY <3>1, <3>2, VisitorType, RequestType DEF LimiterInv, TimesInPast
    <3> QED BY <3>1, <3>2, <3>3, <2>1, <2>2, <2>3, <2>6
  <2> QED BY <2>4, <2>5, <2>6, Zenon
<1>4. CASE TickerFires
  BY <1>4, <1>0 DEF TickerFires
<1>5. CASE Sweep
  <2>1. Held /\ clock' = clock
    BY <1>5 DEF Sweep
  <2>2. Still
    BY <2>1, <1>5, SweepSpares
  <2> QED BY <2>1, <2>2, <1>0
<1>6. CASE Elapse
  <2>1. Held /\ Still /\ clock' = clock + 1 /\ clock < handler[o].at + MaxStall
    BY <1>6, Zenon DEF Elapse
  <2>2. clock \in Nat /\ MaxStall \in Nat /\ handler[o].at \in Nat
    BY <2>1, RequestType, LimitsAssumption, Zenon DEF LimiterInv, TypeOK
  <2> QED BY <2>1, <2>2 DEF LimiterInv, RunningIsCurrent
<1>7. CASE UNCHANGED vars
  BY <1>7, <1>0 DEF vars
<1> QED BY <1>0, <1>1, <1>2, <1>3, <1>4, <1>5, <1>6, <1>7, Steps, Zenon

\* What an address's bucket must hold: IdleRefills for one visitor.
Owed(n, last, c) == n = Full \/ n >= Rate * (c - (last + MaxStall))

\* A unit of time adds Rate to both sides.
LEMMA RefillKeepsPace ==
  ASSUME NEW n \in 0..Full, NEW c \in Nat, NEW last \in Nat, Owed(n, last, c)
  PROVE  Owed(Refilled(n), last, c + 1)
<1> DEFINE r == Rate
           f == Full
           d == c - (last + MaxStall)
<1>1. r \in Nat \ {0} /\ f \in Nat /\ d \in Int /\ (c + 1) - (last + MaxStall) = d + 1
  BY Settings, LimitsAssumption
<1>2. n \in 0..f /\ (n = f \/ n >= r * d) /\ Refilled(n) = IF n + r > f THEN f ELSE n + r
  BY DEF Refilled, Owed
<1> HIDE DEF r, f, d
<1>3. r * (d + 1) = r * d + r /\ r * d \in Int
  BY <1>1
<1>4. Refilled(n) = f \/ Refilled(n) >= r * (d + 1)
  BY <1>1, <1>2, <1>3
<1>5. Rate * ((c + 1) - (last + MaxStall)) = r * (d + 1) /\ Full = f
  BY <1>1, Zenon DEF r, f
<1> QED BY <1>4, <1>5 DEF Owed

\* Nothing is owed by a visitor seen within MaxStall.
LEMMA NothingOwed ==
  ASSUME NEW c \in Nat, NEW last \in Nat, c <= last + MaxStall
  PROVE  Rate * (c - (last + MaxStall)) <= 0
<1> DEFINE r == Rate
           d == c - (last + MaxStall)
<1>1. r \in Nat /\ d \in Int /\ d <= 0
  BY Settings, LimitsAssumption
<1> HIDE DEF r, d
<1>2. r * d <= r * 0 /\ r * 0 = 0
  BY <1>1, Scaled
<1> QED BY <1>2 DEF r, d

\* Pass on the bucket of its own address.
LEMMA PassOnOwn ==
  ASSUME LimiterInv, NEW g \in Goroutines, Pass(g)
  PROVE  LET h == handler[g]
             v == visitors[h.ip]
         IN  /\ h.ip \in IPs
             /\ v # NoVisitor
             /\ limiters'[h.ip][v.limiter] = limiters[h.ip][v.limiter] - Cost
             /\ limiters[h.ip][v.limiter] >= Cost
             /\ limiters'[h.ip][v.limiter] \in 0..Full
             /\ clock <= v.lastSeen + MaxStall
             /\ \A a \in IPs \ {h.ip} : visitors[a] # NoVisitor =>
                  limiters'[a][visitors[a].limiter] = limiters[a][visitors[a].limiter]
<1> DEFINE h == handler[g]
           v == visitors[h.ip]
<1>1. h # NoRequest /\ limiters[h.ip][h.limiter] >= Cost
  BY DEF Pass, Content
<1>2. h.ip \in IPs /\ h.at \in Nat
  BY <1>1, RequestType DEF LimiterInv
<1>3. v # NoVisitor /\ h.limiter = v.limiter /\ h.at <= v.lastSeen /\ clock <= h.at + MaxStall
  BY <1>1, Zenon DEF LimiterInv, RunningIsCurrent
<1>4. v.limiter \in DOMAIN limiters[h.ip] /\ v.lastSeen \in Nat
  BY <1>2, <1>3, VisitorType DEF LimiterInv
<1>5. \A a \in IPs \ {h.ip} : visitors[a] # NoVisitor => visitors[a].limiter \in DOMAIN limiters[a]
  BY VisitorType DEF LimiterInv
<1>6. /\ limiters' \in [IPs -> Seq(0..Full)]
      /\ \A a \in IPs : DOMAIN limiters'[a] = DOMAIN limiters[a]
      /\ \A a \in IPs : \A k \in DOMAIN limiters[a] :
           limiters'[a][k] = IF a = h.ip /\ k = h.limiter THEN limiters[a][k] - Cost
                                                         ELSE limiters[a][k]
  BY PassStep DEF LimiterInv
<1>7. limiters'[h.ip][v.limiter] \in 0..Full
  BY <1>2, <1>4, <1>6, SeqElement, Zenon
<1>8. clock <= v.lastSeen + MaxStall
  <2>1. clock \in Nat /\ MaxStall \in Nat
    BY LimitsAssumption, Zenon DEF LimiterInv, TypeOK
  <2> HIDE DEF h, v
  <2> QED BY <2>1, <1>2, <1>3, <1>4
<1>9. limiters'[h.ip][v.limiter] = limiters[h.ip][v.limiter] - Cost
  BY <1>2, <1>3, <1>4, <1>6
<1>10. \A a \in IPs \ {h.ip} : visitors[a] # NoVisitor =>
         limiters'[a][visitors[a].limiter] = limiters[a][visitors[a].limiter]
  BY <1>5, <1>6
<1> QED BY <1>1, <1>2, <1>3, <1>7, <1>8, <1>9, <1>10, Zenon

LEMMA OwedWhenSeen ==
  ASSUME NEW n \in 0..Full, NEW last \in Nat, NEW c \in Nat, c <= last + MaxStall
  PROVE  Owed(n, last, c)
<1> DEFINE owed == Rate * (c - (last + MaxStall))
<1>1. owed <= 0 /\ owed \in Int
  BY NothingOwed, Settings, LimitsAssumption
<1>2. n \in Nat
  BY Settings
<1> HIDE DEF owed
<1>3. n >= owed
  BY <1>1, <1>2, SMT, Z3
<1> QED BY <1>3 DEF Owed, owed

LEMMA RefillStep == LimiterInv /\ [Next]_vars => IdleRefills'
<1> SUFFICES ASSUME LimiterInv, [Next]_vars, NEW a \in IPs, visitors'[a] # NoVisitor
             PROVE  Owed(limiters'[a][visitors'[a].limiter], visitors'[a].lastSeen, clock')
  BY Zenon DEF IdleRefills, Owed
<1> DEFINE v == visitors[a]
           n == limiters[a][v.limiter]
<1>a. v # NoVisitor => Owed(n, v.lastSeen, clock) /\ n \in 0..Full /\ v.lastSeen \in Nat
  BY VisitorType DEF LimiterInv, IdleRefills, Owed
<1>b. clock \in Nat /\ MaxStall \in Nat
  BY LimitsAssumption DEF LimiterInv, TypeOK
<1>1. ASSUME NEW g \in Goroutines, Pass(g)
      PROVE  Owed(limiters'[a][visitors'[a].limiter], visitors'[a].lastSeen, clock')
  <2>1. visitors' = visitors /\ clock' = clock
    BY <1>1 DEF Pass
  <2>2. CASE a = handler[g].ip
    <3>1. limiters'[a][v.limiter] \in 0..Full /\ clock <= v.lastSeen + MaxStall
      BY <1>1, <2>2, PassOnOwn, Zenon
    <3>2. Owed(limiters'[a][v.limiter], v.lastSeen, clock)
      BY <3>1, <2>1, <1>a, <1>b, OwedWhenSeen, Zenon
    <3> QED BY <2>1, <3>2
  <2>3. CASE a # handler[g].ip
    <3>1. limiters'[a][v.limiter] = n
      BY <1>1, <2>1, <2>3, PassOnOwn, Zenon
    <3> QED BY <2>1, <3>1, <1>a, Zenon
  <2> QED BY <2>2, <2>3
<1>2. ASSUME NEW g \in Goroutines, Reject(g)
      PROVE  Owed(limiters'[a][visitors'[a].limiter], visitors'[a].lastSeen, clock')
  BY <1>2, <1>a, SMT, Z3 DEF Reject
<1>3. ASSUME NEW g \in Goroutines, NEW ip \in IPs, LookUp(g, ip)
      PROVE  Owed(limiters'[a][visitors'[a].limiter], visitors'[a].lastSeen, clock')
  <2>1. /\ limiters' \in [IPs -> Seq(0..Full)]
        /\ \A b \in IPs : \A k \in DOMAIN limiters[b] : limiters'[b][k] = limiters[b][k]
        /\ visitors'[ip].limiter \in DOMAIN limiters'[ip]
        /\ visitors'[ip].lastSeen = clock
        /\ \A b \in IPs \ {ip} : visitors'[b] = visitors[b]
    BY <1>3, LookUpStep, Zenon DEF LimiterInv
  <2>2. clock' = clock
    BY <1>3 DEF LookUp
  <2>3. CASE a = ip
    <3>1. limiters'[a][visitors'[a].limiter] \in 0..Full
      BY <2>1, <2>3, SeqElement, Zenon
    <3>2. clock <= clock + MaxStall
      BY <1>b
    <3>3. Owed(limiters'[a][visitors'[a].limiter], clock, clock)
      BY <3>1, <3>2, <1>b, OwedWhenSeen, Zenon
    <3> QED BY <3>3, <2>1, <2>2, <2>3
  <2>4. CASE a # ip
    <3>1. visitors'[a] = v /\ v.limiter \in DOMAIN limiters[a]
      BY <2>1, <2>4, VisitorType, Zenon DEF LimiterInv
    <3>2. limiters'[a][v.limiter] = n
      BY <2>1, <3>1, Zenon
    <3> QED BY <2>2, <3>1, <3>2, <1>a, Zenon
  <2> QED BY <2>3, <2>4
<1>4. CASE TickerFires
  BY <1>4, <1>a, Zenon DEF TickerFires
<1>5. CASE Sweep
  <2>1. visitors'[a] = v /\ limiters' = limiters /\ clock' = clock
    BY <1>5, Zenon DEF Sweep
  <2> QED BY <2>1, <1>a
<1>6. CASE Elapse
  <2>1. visitors'[a] = v /\ clock' = clock + 1 /\ v # NoVisitor
    BY <1>6, Zenon DEF Elapse
  <2>2. limiters'[a][v.limiter] = Refilled(n)
    BY <2>1, <1>6, ElapseStep, VisitorType, Zenon DEF LimiterInv
  <2>3. Owed(Refilled(n), v.lastSeen, clock + 1)
    <3> DEFINE last == v.lastSeen
    <3>1. n \in 0..Full /\ last \in Nat /\ Owed(n, last, clock)
      BY <2>1, <1>a
    <3> HIDE DEF n, last
    <3>2. Owed(Refilled(n), last, clock + 1)
      BY <3>1, <1>b, RefillKeepsPace, Zenon
    <3> QED BY <3>2, Zenon DEF last
  <2> QED BY <2>1, <2>2, <2>3
<1>7. CASE UNCHANGED vars
  BY <1>7, <1>a DEF vars
<1> QED BY <1>1, <1>2, <1>3, <1>4, <1>5, <1>6, <1>7, Steps

LEMMA LimiterStep == LimiterInv /\ [Next]_vars => LimiterInv'
BY TypeStep, TimesStep, RunningStep, RefillStep DEF LimiterInv

-----------------------------------------------------------------------------
\* Level, address by address.
LEMMA LevelPoint ==
  ASSUME NEW a \in IPs
  PROVE  Level[a] = IF visitors[a] = NoVisitor THEN Full ELSE limiters[a][visitors[a].limiter]
BY DEF Level

LEMMA LevelPointNext ==
  ASSUME NEW a \in IPs
  PROVE  Level'[a] = IF visitors'[a] = NoVisitor THEN Full ELSE limiters'[a][visitors'[a].limiter]
BY DEF Level

\* Two functions on the addresses are equal when they agree everywhere.
LEMMA SameLevel == (\A a \in IPs : Level'[a] = Level[a]) => Level' = Level
BY DEF Level

LEMMA BucketInitially == Init => Bucket!BucketInit
BY DEF Init, Bucket!BucketInit, Level

\* Evicting a visitor changes no bucket: the one it had is full by then, and a
\* full one is what the address gets when it comes back.
LEMMA SweepIsSilent == ASSUME LimiterInv, Sweep PROVE Level' = Level
<1> SUFFICES ASSUME NEW a \in IPs PROVE Level'[a] = Level[a]
  BY SameLevel
<1> DEFINE v == visitors[a]
           n == limiters[a][v.limiter]
           gone == v # NoVisitor /\ Idle(v, tick)
<1>1. visitors'[a] = IF gone THEN NoVisitor ELSE v
  BY DEF Sweep
<1>2. limiters' = limiters
  BY Zenon DEF Sweep
<1>3. CASE gone
  <2> DEFINE last == v.lastSeen
  <2>1. n \in 0..Full /\ last \in Nat
    BY <1>3, VisitorType, Zenon DEF LimiterInv
  <2>2. tick \in Nat /\ tick <= clock /\ clock \in Nat /\ MaxIdle \in Nat
    BY LimitsAssumption DEF LimiterInv, TypeOK, TimesInPast, Sweep
  <2>3. tick - last > MaxIdle
    BY <1>3, Zenon DEF Idle
  <2>4. Owed(n, last, clock)
    BY <1>3 DEF LimiterInv, IdleRefills, Owed
  <2> HIDE DEF n, last
  <2>5. clock - last > MaxIdle
    BY <2>1, <2>2, <2>3
  <2>6. n = Full
    BY <2>1, <2>2, <2>4, <2>5, FullByEviction DEF Owed
  <2> QED BY <2>6, <1>1, <1>3, LevelPoint, LevelPointNext, MarkersAssumption, Zenon DEF n
<1>4. CASE ~gone
  BY <1>4, <1>1, <1>2, LevelPoint, LevelPointNext
<1> QED BY <1>3, <1>4

LEMMA LookUpIsSilent ==
  ASSUME LimiterInv, NEW g \in Goroutines, NEW ip \in IPs, LookUp(g, ip)
  PROVE  Level' = Level
<1> SUFFICES ASSUME NEW a \in IPs PROVE Level'[a] = Level[a]
  BY SameLevel
<1>1. /\ \A b \in IPs : \A k \in DOMAIN limiters[b] : limiters'[b][k] = limiters[b][k]
      /\ visitors'[ip] \in Visitor
      /\ visitors[ip] = NoVisitor => limiters'[ip][visitors'[ip].limiter] = Full
      /\ visitors[ip] # NoVisitor => visitors'[ip].limiter = visitors[ip].limiter
      /\ \A b \in IPs \ {ip} : visitors'[b] = visitors[b]
  BY LookUpStep, Zenon DEF LimiterInv
<1>2. visitors'[ip] # NoVisitor
  BY <1>1, MarkersAssumption
<1>3. \A b \in IPs : visitors[b] # NoVisitor => visitors[b].limiter \in DOMAIN limiters[b]
  BY VisitorType, Zenon DEF LimiterInv
<1>4. CASE a = ip
  BY <1>1, <1>2, <1>3, <1>4, LevelPoint, LevelPointNext, SMT, Z3
<1>5. CASE a # ip
  <2>1. visitors'[a] = visitors[a]
    BY <1>1, <1>5
  <2>2. \A k \in DOMAIN limiters[a] : limiters'[a][k] = limiters[a][k]
    BY <1>1
  <2> QED BY <2>1, <2>2, <1>3, LevelPoint, LevelPointNext, SMT, Z3
<1> QED BY <1>4, <1>5

\* The step the bucket takes when the limiter's state takes one.
LEMMA BucketStep ==
  LimiterInv /\ [Next]_vars => [Bucket!BucketNext]_(Bucket!bucketVars)
<1> SUFFICES ASSUME LimiterInv, [Next]_vars PROVE [Bucket!BucketNext]_(Bucket!bucketVars)
  OBVIOUS
<1> USE DEF Bucket!bucketVars
<1>1. ASSUME NEW g \in Goroutines, Pass(g) PROVE Bucket!BucketNext
  <2> DEFINE c == handler[g].ip
  <2>1. /\ c \in IPs
        /\ visitors[c] # NoVisitor
        /\ limiters'[c][visitors[c].limiter] = limiters[c][visitors[c].limiter] - Cost
        /\ limiters[c][visitors[c].limiter] >= Cost
        /\ \A a \in IPs \ {c} : visitors[a] # NoVisitor =>
             limiters'[a][visitors[a].limiter] = limiters[a][visitors[a].limiter]
    BY <1>1, PassOnOwn, Zenon
  <2>2. visitors' = visitors /\ limited' = limited /\ served' = [served EXCEPT ![c] = @ + 1]
    BY <1>1, Zenon DEF Pass
  <2> HIDE DEF c
  <2>3. Level[c] >= Cost /\ Level'[c] = Level[c] - Cost
    BY <2>1, <2>2, LevelPoint, LevelPointNext, Zenon
  <2>4. \A a \in IPs \ {c} : Level'[a] = Level[a]
    BY <2>1, <2>2, LevelPoint, LevelPointNext
  <2>5. Level' = [Level EXCEPT ![c] = Level[c] - Cost]
    BY <2>1, <2>3, <2>4, Zenon DEF Level
  <2>6. Bucket!Serve(c)
    BY <2>2, <2>3, <2>5 DEF Bucket!Serve
  <2> QED BY <2>1, <2>6 DEF Bucket!BucketNext
<1>2. ASSUME NEW g \in Goroutines, Reject(g) PROVE Bucket!BucketNext
  <2> DEFINE c == handler[g].ip
  <2>1. handler[g] # NoRequest /\ limiters[c][handler[g].limiter] < Cost
    BY <1>2, Zenon DEF Reject, Content
  <2>2. c \in IPs /\ visitors[c] # NoVisitor /\ handler[g].limiter = visitors[c].limiter
    BY <2>1, RequestType, SMT, Z3 DEF LimiterInv, RunningIsCurrent
  <2>3. /\ visitors' = visitors /\ limiters' = limiters /\ served' = served
        /\ limited' = [limited EXCEPT ![c] = @ + 1]
    BY <1>2, Zenon DEF Reject
  <2>4. Level[c] < Cost /\ Level' = Level
    BY <2>1, <2>2, <2>3, LevelPoint, Zenon DEF Level
  <2>5. Bucket!Limit(c)
    BY <2>3, <2>4 DEF Bucket!Limit
  <2> QED BY <2>2, <2>5, Zenon DEF Bucket!BucketNext
<1>3. ASSUME NEW g \in Goroutines, NEW ip \in IPs, LookUp(g, ip) PROVE UNCHANGED Bucket!bucketVars
  BY <1>3, LookUpIsSilent, Zenon DEF LookUp
<1>4. CASE TickerFires
  BY <1>4 DEF TickerFires, Level
<1>5. CASE Sweep
  BY <1>5, SweepIsSilent DEF Sweep
<1>6. CASE Elapse
  <2>1. visitors' = visitors /\ served' = served /\ limited' = limited
    BY <1>6 DEF Elapse
  <2>2. Refilled(Full) = Full
    BY Settings DEF Refilled
  <2>3. ASSUME NEW a \in IPs PROVE Level'[a] = Refilled(Level[a])
    <3>1. CASE visitors[a] = NoVisitor
      BY <3>1, <2>1, <2>2, LevelPoint, LevelPointNext, Zenon
    <3>2. CASE visitors[a] # NoVisitor
      <4>1. limiters'[a][visitors[a].limiter] = Refilled(limiters[a][visitors[a].limiter])
        BY <3>2, <1>6, ElapseStep, VisitorType, Zenon DEF LimiterInv
      <4> QED BY <4>1, <3>2, <2>1, LevelPoint, LevelPointNext, Zenon
    <3> QED BY <3>1, <3>2, Zenon
  <2>4. Level' = [a \in IPs |-> Refilled(Level[a])]
    BY <2>3 DEF Level
  <2>5. Level' = [a \in IPs |-> Bucket!Refilled(Level[a])]
    BY <2>4 DEF Refilled, Bucket!Refilled
  <2>6. Bucket!Refill
    BY <2>1, <2>5, Zenon DEF Bucket!Refill
  <2> QED BY <2>6 DEF Bucket!BucketNext
<1>7. CASE UNCHANGED vars
  BY <1>7 DEF vars, Level
<1> QED BY <1>1, <1>2, <1>3, <1>4, <1>5, <1>6, <1>7, Steps

\* ratelimit.go serves and limits exactly the requests that one bucket per
\* address, kept for ever, would: the eviction of idle visitors, the token taken
\* after the mutex is released and the sweep with an old tick cannot be told.
THEOREM LimiterImplementsBucket == Spec => ImplementsTokenBucket
<1>1. Spec => []LimiterInv
  BY LimiterInit, LimiterStep, PTL DEF Spec
<1>2. LimiterInv /\ [Next]_vars => [Bucket!BucketNext]_(Bucket!bucketVars)
  BY BucketStep
<1>3. Init => Bucket!BucketInit
  BY BucketInitially
<1> QED BY <1>1, <1>2, <1>3, PTL DEF Spec, ImplementsTokenBucket, Bucket!BucketSpec
=============================================================================
