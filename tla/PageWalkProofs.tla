--------------------------- MODULE PageWalkProofs ---------------------------
(***************************************************************************)
(* Proofs about the reads of the API, for every table, every collection,   *)
(* every limit and every number of pages: getDeviceTelemetry answers in    *)
(* order and without a gap, and a walk through listAlerts misses no alert  *)
(* but for the reasons that WalkMissesNothing names.                       *)
(***************************************************************************)
EXTENDS PageWalk, AlertStoreProofs

LEMMA MinOfTwo ==
  ASSUME NEW a \in Int, NEW b \in Int
  PROVE  Min({a, b}) = IF a <= b THEN a ELSE b
<1> DEFINE least == IF a <= b THEN a ELSE b
<1>1. least \in {a, b} /\ \A y \in {a, b} : least <= y
  OBVIOUS
<1>2. \A x \in {a, b} : (\A y \in {a, b} : x <= y) => x = least
  OBVIOUS
<1> HIDE DEF least
<1>3. Min({a, b}) = least
  BY <1>1, <1>2, Zenon DEF Min
<1>4. QED
  BY <1>3 DEF least

-----------------------------------------------------------------------------
\* The read of a device's telemetry.  While the cursor is read the points descend;
\* no document that Find saw and the read has not met is newer than a point, so
\* that the points can be answered whenever the cursor breaks.
Unbroken(rd) ==
  /\ rd = [query |-> rd.query, there |-> rd.there, points |-> rd.points,
           cut |-> rd.cut, done |-> rd.done]
  /\ rd.there \subseteq telemetry_raw
  /\ rd.points \in Seq(Wanted(rd.query)) /\ Len(rd.points) <= PointLimit(rd.query.limit)
  /\ \A j, k \in DOMAIN rd.points :
       j < k => /\ rd.done => rd.points[j].ts <= rd.points[k].ts
                /\ ~rd.done => rd.points[k].ts <= rd.points[j].ts
  /\ \A d \in rd.there \ Range(rd.points), p \in Range(rd.points) : d.ts <= p.ts
  /\ rd.done /\ ~rd.cut =>
       Len(rd.points) = PointLimit(rd.query.limit) \/ rd.there \subseteq Range(rd.points)

ReadInv ==
  /\ \A d \in telemetry_raw : d.ts \in Nat
  /\ read # NoRead => Unbroken(read)

LEMMA PointLimitType ==
  ASSUME NEW raw
  PROVE  PointLimit(raw) \in Nat
BY PointsAssumption, SMT, Z3 DEF PointLimit

LEMMA SequenceFacts ==
  ASSUME NEW S, NEW s \in Seq(S)
  PROVE  /\ Len(s) \in Nat /\ DOMAIN s = 1..Len(s)
         /\ \A k \in DOMAIN s : s[k] \in S
         /\ Range(s) \subseteq S
<1>1. Len(s) \in Nat /\ DOMAIN s = 1..Len(s) /\ \A k \in DOMAIN s : s[k] \in S
  BY SMT, Z3
<1>2. QED
  BY <1>1, Zenon DEF Range

LEMMA TurnedRound ==
  ASSUME NEW S, NEW s \in Seq(S)
  PROVE  /\ Reverse(s) \in Seq(S) /\ Len(Reverse(s)) = Len(s)
         /\ Range(Reverse(s)) = Range(s)
         /\ \A j, k \in DOMAIN Reverse(s) : j < k =>
              \E a, b \in DOMAIN s : b < a /\ Reverse(s)[j] = s[a] /\ Reverse(s)[k] = s[b]
<1>1. PICK n \in Nat : n = Len(s) /\ DOMAIN s = 1..n /\ \A k \in 1..n : s[k] \in S
  BY SequenceFacts, Zenon
<1>2. PICK r : r = Reverse(s)
  BY Zenon
<1>3. r = [k \in 1..n |-> s[(n - k) + 1]]
  BY <1>1, <1>2, Zenon DEF Reverse
<1>4. \A k \in 1..n : (n - k) + 1 \in 1..n /\ (n - ((n - k) + 1)) + 1 = k
  BY <1>1, SMT, Z3
<1>5. r \in [1..n -> S] /\ \A k \in 1..n : r[k] = s[(n - k) + 1]
  BY <1>1, <1>3, <1>4, Zenon
<1>6. r \in Seq(S) /\ Len(r) = n /\ DOMAIN r = 1..n
  BY <1>1, <1>5, SMT, Z3
<1>7. \A k \in 1..n : s[k] = r[(n - k) + 1]
  BY <1>4, <1>5, Zenon
<1>8. Range(r) = Range(s)
  BY <1>1, <1>4, <1>5, <1>6, <1>7, SMT, Z3 DEF Range
<1>9. \A j, k \in 1..n : j < k => (n - k) + 1 < (n - j) + 1
  BY <1>1, SMT, Z3
<1>10. ASSUME NEW j \in DOMAIN r, NEW k \in DOMAIN r, j < k
       PROVE  \E a, b \in DOMAIN s : b < a /\ r[j] = s[a] /\ r[k] = s[b]
  <2>1. j \in 1..n /\ k \in 1..n
    BY <1>6, Zenon
  <2>2. PICK a, b : a = (n - j) + 1 /\ b = (n - k) + 1
    BY Zenon
  <2>3. a \in DOMAIN s /\ b \in DOMAIN s /\ r[j] = s[a] /\ r[k] = s[b]
    BY <1>1, <1>4, <1>5, <2>1, <2>2, Zenon
  <2>4. b < a
    BY <1>9, <1>10, <2>1, <2>2, Zenon
  <2>5. QED
    BY <2>3, <2>4, Zenon
<1>11. r \in Seq(S) /\ Len(r) = Len(s) /\ Range(r) = Range(s)
  BY <1>1, <1>6, <1>8, Zenon
<1>12. QED
  BY <1>2, <1>10, <1>11, Zenon

\* A document that is stored is in no read's way.
LEMMA StoreStep ==
  ASSUME ReadInv, NEW d \in Devices, NEW ts \in 0..MaxTime, Store(d, ts)
  PROVE  ReadInv'
<1>1. PICK doc : /\ doc = [_id |-> Cardinality(telemetry_raw), device_id |-> d, ts |-> ts]
                 /\ telemetry_raw' = telemetry_raw \cup {doc} /\ read' = read
  BY Zenon DEF Store
<1>2. doc.ts \in Nat
  BY <1>1, BoundsAssumption, SMT, Z3
<1>3. \A x \in telemetry_raw' : x.ts \in Nat
  BY <1>1, <1>2, Zenon DEF ReadInv
<1>4. ASSUME read # NoRead PROVE Unbroken(read)'
  <2>1. Unbroken(read) /\ read' = read
    BY <1>1, <1>4, Zenon DEF ReadInv
  <2>2. PICK q, points : q = read.query /\ points = read.points
    BY Zenon
  <2>3. Wanted(q) \subseteq Wanted(q)'
    BY <1>1, Zenon DEF Wanted, InWindow
  <2>4. points \in Seq(Wanted(q)')
    <3>1. PICK S, T : S = Wanted(q) /\ T = Wanted(q)' /\ S \subseteq T
      BY <2>3, Zenon
    <3>2. points \in Seq(S)
      BY <2>1, <2>2, <3>1, Zenon DEF Unbroken
    <3>3. points \in Seq(T)
      BY <3>1, <3>2, SMT, Z3
    <3>4. QED
      BY <3>1, <3>3, Zenon
  <2>5. read.there \subseteq telemetry_raw'
    BY <1>1, <2>1, Zenon DEF Unbroken
  <2>6. QED
    BY <2>1, <2>2, <2>4, <2>5, Zenon DEF Unbroken
<1>5. QED
  BY <1>1, <1>3, <1>4, Zenon DEF ReadInv

LEMMA FindStep ==
  ASSUME ReadInv, NEW q, Find(q)
  PROVE  ReadInv'
<1>1. PICK rd : /\ read' = rd
                /\ rd = [query |-> q, there |-> Wanted(q), points |-> <<>>,
                         cut |-> FALSE, done |-> FALSE]
  BY Zenon DEF Find
<1>2. rd.query = q /\ rd.there = Wanted(q) /\ rd.points = <<>> /\ rd.cut = FALSE /\ rd.done = FALSE
  BY <1>1, Zenon
<1>3. Unbroken(rd)
  <2>1. Wanted(q) \subseteq telemetry_raw
    BY Zenon DEF Wanted
  <2>2. PICK S : S = Wanted(q)
    BY Zenon
  <2>3. <<>> \in Seq(S) /\ Len(<<>>) = 0 /\ DOMAIN <<>> = {} /\ Range(<<>>) = {}
    BY SMT, Z3 DEF Range
  <2>4. 0 <= PointLimit(q.limit)
    BY PointLimitType, SMT, Z3
  <2>5. rd.points \in Seq(Wanted(rd.query)) /\ Len(rd.points) <= PointLimit(rd.query.limit)
    BY <1>2, <2>2, <2>3, <2>4, Zenon
  <2>6. DOMAIN rd.points = {} /\ Range(rd.points) = {}
    BY <1>2, <2>3, Zenon
  <2>7. QED
    BY <1>1, <1>2, <2>1, <2>5, <2>6, Zenon DEF Unbroken
<1>4. telemetry_raw' = telemetry_raw
  BY Zenon DEF Find
<1>5. Unbroken(rd)'
  BY <1>3, <1>4, Zenon DEF Unbroken, Wanted
<1>6. QED
  BY <1>1, <1>4, <1>5, Zenon DEF ReadInv

LEMMA PointStep ==
  ASSUME ReadInv, NEW d \in telemetry_raw, NextPoint(d)
  PROVE  ReadInv'
<1>1. /\ Unbroken(read) /\ ~read.done /\ telemetry_raw' = telemetry_raw
      /\ Len(read.points) < PointLimit(read.query.limit)
      /\ d \in Wanted(read.query) /\ d \notin Range(read.points) /\ Follows(d)
  BY Zenon DEF ReadInv, NextPoint, Reading, Unread
<1>2. PICK q, there, s, S, cut, done :
        /\ q = read.query /\ there = read.there /\ s = read.points /\ S = Wanted(q)
        /\ cut = read.cut /\ done = read.done
        /\ read = [query |-> q, there |-> there, points |-> s, cut |-> cut, done |-> done]
  BY <1>1, Zenon DEF Unbroken
<1>3. /\ s \in Seq(S) /\ there \subseteq telemetry_raw /\ d \in S /\ ~done
      /\ Len(s) < PointLimit(q.limit)
      /\ \A j, k \in DOMAIN s : j < k => s[k].ts <= s[j].ts
      /\ \A e \in there \ Range(s), p \in Range(s) : e.ts <= p.ts
      /\ \A p \in Range(s) : d.ts <= p.ts
      /\ \A e \in there \ Range(s) : e.ts <= d.ts
  BY <1>1, <1>2, Zenon DEF Unbroken, Follows, Unread
<1>4. PICK t, rd : t = Append(s, d) /\ read' = rd
        /\ rd = [query |-> q, there |-> there, points |-> t, cut |-> cut, done |-> done]
  BY <1>2, Zenon DEF NextPoint
<1>5. rd.query = q /\ rd.there = there /\ rd.points = t /\ rd.cut = cut /\ rd.done = done
  BY <1>4, Zenon
<1>6. /\ Len(s) \in Nat /\ DOMAIN s = 1..Len(s)
      /\ t \in Seq(S) /\ Len(t) = Len(s) + 1 /\ DOMAIN t = 1..(Len(s) + 1)
      /\ t[Len(s) + 1] = d /\ \A k \in 1..Len(s) : t[k] = s[k]
  BY <1>3, <1>4, SMT, Z3
<1>7. PICK n \in Nat : n = Len(s)
  BY <1>6, Zenon
<1>8. 1..(n + 1) = 1..n \cup {n + 1} /\ \A k \in 1..(n + 1) : ~(n + 1 < k)
  BY <1>7, SMT, Z3
<1>9. Range(t) = Range(s) \cup {d}
  BY <1>6, <1>7, <1>8, SMT, Z3 DEF Range
<1>10. Len(t) <= PointLimit(q.limit)
  BY <1>3, <1>6, PointLimitType, SMT, Z3
<1>11. ASSUME NEW j \in DOMAIN t, NEW k \in DOMAIN t, j < k PROVE t[k].ts <= t[j].ts
  <2>1. j \in 1..n
    BY <1>6, <1>7, <1>8, <1>11, Zenon
  <2>2. t[j] = s[j] /\ j \in DOMAIN s /\ s[j] \in Range(s)
    BY <1>6, <1>7, <2>1, Zenon DEF Range
  <2>3. CASE k \in 1..n
    BY <1>3, <1>6, <1>7, <1>11, <2>2, <2>3, Zenon
  <2>4. CASE k = n + 1
    BY <1>3, <1>6, <1>7, <2>2, <2>4, Zenon
  <2>5. QED
    BY <1>6, <1>7, <1>8, <2>3, <2>4, Zenon
<1>12. \A e \in there \ Range(t), p \in Range(t) : e.ts <= p.ts
  BY <1>3, <1>9, Zenon
<1>13. Unbroken(rd)
  BY <1>1, <1>2, <1>3, <1>4, <1>5, <1>6, <1>10, <1>11, <1>12, Zenon DEF Unbroken
<1>14. Unbroken(rd)'
  BY <1>1, <1>13, Zenon DEF Unbroken, Wanted
<1>15. QED
  BY <1>1, <1>4, <1>14, Zenon DEF ReadInv

\* The cursor ended, with the limit reached or nothing left, or it broke.
LEMMA RespondStep ==
  ASSUME ReadInv, Reading, NEW cut \in BOOLEAN, Respond(cut),
         cut \/ Len(read.points) = PointLimit(read.query.limit) \/ Unread(read.there) = {}
  PROVE  ReadInv'
<1>1. /\ Unbroken(read) /\ ~read.done /\ telemetry_raw' = telemetry_raw
      /\ \A d \in telemetry_raw : d.ts \in Nat
  BY Zenon DEF ReadInv, Reading, Respond
<1>2. PICK q, there, s, S :
        /\ q = read.query /\ there = read.there /\ s = read.points /\ S = Wanted(q)
        /\ read = [query |-> q, there |-> there, points |-> s, cut |-> read.cut, done |-> read.done]
  BY <1>1, Zenon DEF Unbroken
<1>3. /\ s \in Seq(S) /\ there \subseteq telemetry_raw
      /\ Len(s) <= PointLimit(q.limit)
      /\ \A j, k \in DOMAIN s : j < k => s[k].ts <= s[j].ts
      /\ \A e \in there \ Range(s), p \in Range(s) : e.ts <= p.ts
      /\ cut \/ Len(s) = PointLimit(q.limit) \/ there \subseteq Range(s)
  BY <1>1, <1>2, Zenon DEF Unbroken, Unread
<1>4. PICK t, rd : t = Reverse(s) /\ read' = rd
        /\ rd = [query |-> q, there |-> there, points |-> t, cut |-> cut, done |-> TRUE]
  BY <1>2, Zenon DEF Respond
<1>5. rd.query = q /\ rd.there = there /\ rd.points = t /\ rd.cut = cut /\ rd.done = TRUE
  BY <1>4, Zenon
<1>6. /\ t \in Seq(S) /\ Len(t) = Len(s) /\ Range(t) = Range(s)
      /\ \A j, k \in DOMAIN t : j < k =>
           \E a, b \in DOMAIN s : b < a /\ t[j] = s[a] /\ t[k] = s[b]
  BY <1>3, <1>4, TurnedRound
<1>7. ASSUME NEW j \in DOMAIN t, NEW k \in DOMAIN t, j < k
      PROVE  t[j].ts <= t[k].ts
  <2>1. PICK a \in DOMAIN s, b \in DOMAIN s : b < a /\ t[j] = s[a] /\ t[k] = s[b]
    BY <1>6, <1>7, Zenon
  <2>2. s[a].ts <= s[b].ts
    BY <1>3, <2>1, Zenon
  <2>3. QED
    BY <2>1, <2>2, Zenon
<1>8. Unbroken(rd)
  <2>1. rd.points \in Seq(Wanted(rd.query)) /\ Len(rd.points) <= PointLimit(rd.query.limit)
    BY <1>2, <1>3, <1>5, <1>6, Zenon
  <2>2. \A j, k \in DOMAIN rd.points : j < k => rd.points[j].ts <= rd.points[k].ts
    BY <1>5, <1>7, Zenon
  <2>3. \A e \in rd.there \ Range(rd.points), p \in Range(rd.points) : e.ts <= p.ts
    BY <1>3, <1>5, <1>6, Zenon
  <2>4. ~rd.cut => Len(rd.points) = PointLimit(rd.query.limit) \/ rd.there \subseteq Range(rd.points)
    BY <1>3, <1>5, <1>6, Zenon
  <2>5. rd = [query |-> rd.query, there |-> rd.there, points |-> rd.points,
              cut |-> rd.cut, done |-> rd.done]
    BY <1>4, <1>5
  <2>6. rd.done /\ rd.there \subseteq telemetry_raw
    BY <1>3, <1>5, Zenon
  <2>7. QED
    BY <2>1, <2>2, <2>3, <2>4, <2>5, <2>6, Zenon DEF Unbroken
<1>9. Unbroken(rd)'
  BY <1>1, <1>8, Zenon DEF Unbroken, Wanted
<1>10. QED
  BY <1>1, <1>4, <1>9, Zenon DEF ReadInv

LEMMA ReadOnStep ==
  ASSUME ReadInv, ReadOn
  PROVE  ReadInv'
<1>1. ASSUME NEW d \in telemetry_raw, NextPoint(d) PROVE ReadInv'
  BY <1>1, PointStep, Zenon
<1>2. CASE CursorEnds
  BY <1>2, RespondStep, Zenon DEF CursorEnds
<1>3. CASE CursorBreaks
  BY <1>3, RespondStep, Zenon DEF CursorBreaks
<1>4. CASE EndRead
  BY <1>4, Zenon DEF EndRead, ReadInv
<1>5. QED
  BY <1>1, <1>2, <1>3, <1>4, Zenon DEF ReadOn

LEMMA StillReads ==
  ASSUME ReadInv, UNCHANGED readVars
  PROVE  ReadInv'
BY Zenon DEF readVars, ReadInv, Unbroken, Wanted

LEMMA ReadInvariant == Spec => []ReadInv
<1>1. Init => ReadInv
  BY Zenon DEF Init, ReadInit, ReadInv
<1>2. ReadInv /\ [Next]_vars => ReadInv'
  <2> SUFFICES ASSUME ReadInv, [Next]_vars PROVE ReadInv'
    BY Zenon
  <2>1. ASSUME NEW d \in Devices, NEW ts \in 0..MaxTime, Store(d, ts) PROVE ReadInv'
    BY <2>1, StoreStep, Zenon
  <2>2. ASSUME NEW q \in Windows, Find(q) PROVE ReadInv'
    BY <2>2, FindStep, Zenon
  <2>3. CASE ReadOn
    BY <2>3, ReadOnStep, Zenon
  <2>4. CASE UNCHANGED readVars
    BY <2>4, StillReads, Zenon
  <2>5. CASE UNCHANGED vars
    BY <2>4, <2>5, Zenon DEF vars, readVars
  <2>6. QED
    BY <2>1, <2>2, <2>3, <2>4, <2>5, Zenon DEF Next, ReadStep
<1>3. QED
  BY <1>1, <1>2, PTL DEF Spec

\* getDeviceTelemetry answers in the order of time and without a gap, whatever the
\* window and the limit, however many documents are stored while its cursor is
\* read, and wherever the cursor breaks.
THEOREM TelemetryReadsLatest == Spec => []TelemetryIsLatest
<1>1. ReadInv => TelemetryIsLatest
  <2> SUFFICES ASSUME ReadInv, read # NoRead, read.done
               PROVE  /\ Range(read.points) \subseteq Wanted(read.query)
                      /\ Len(read.points) <= PointLimit(read.query.limit)
                      /\ \A j, k \in DOMAIN read.points :
                           j < k => read.points[j].ts <= read.points[k].ts
                      /\ \A d \in Unread(read.there) :
                           /\ \A p \in Range(read.points) : d.ts <= p.ts
                           /\ read.cut \/ Len(read.points) = PointLimit(read.query.limit)
    BY Zenon DEF TelemetryIsLatest
  <2>1. Unbroken(read)
    BY Zenon DEF ReadInv
  <2>2. Range(read.points) \subseteq Wanted(read.query)
    BY <2>1, SequenceFacts, Zenon DEF Unbroken
  <2>3. QED
    BY <2>1, <2>2, Zenon DEF Unbroken, Unread
<1>2. QED
  BY <1>1, ReadInvariant, PTL

-----------------------------------------------------------------------------
\* The walk.  An alert that has a time of its own has a place in the answer: it
\* follows the alerts that are newer.  Alerts raised meanwhile only move it back,
\* so one that was not shown yet is still behind the pages read so far.
Limit(q) == parseIntParam(q.limit, DefaultLimit, MaxLimit)
Offset(raw) == parseIntParam(raw, 0, MaxOffset)

Newer(q, i) == {j \in Matching(q) : alerts[j].triggered_at > alerts[i].triggered_at}

AloneInTime(i) ==
  \A j \in DOMAIN alerts \ {i} : alerts[j].triggered_at # alerts[i].triggered_at

Walk == [query : Walks, offset : Nat, present : SUBSET Nat, seen : SUBSET Nat,
         shifted : BOOLEAN, cut : BOOLEAN, done : BOOLEAN]

Complete(wk) ==
  ~wk.shifted /\ ~wk.cut =>
    /\ wk.present \subseteq Matching(wk.query)
    /\ \A i \in wk.present \ wk.seen :
         AloneInTime(i) => ~wk.done /\ Cardinality(Newer(wk.query, i)) >= Offset(wk.offset)

WalkInv ==
  /\ StoreTypeOK
  /\ walk = NoWalk \/ \E wk \in Walk : walk = wk /\ Complete(wk)

LEMMA MatchingRows ==
  ASSUME StoreTypeOK, NEW q
  PROVE  /\ IsFiniteSet(Matching(q)) /\ Matching(q) \subseteq DOMAIN alerts
         /\ DOMAIN alerts \subseteq Nat /\ \A i \in DOMAIN alerts : alerts[i].triggered_at \in Nat
<1>1. Matching(q) \subseteq DOMAIN alerts /\ DOMAIN alerts = 1..Len(alerts) /\ Len(alerts) \in Nat
  BY DEF StoreTypeOK, Matching
<1>2. IsFiniteSet(1..Len(alerts))
  BY <1>1, FS_Interval
<1>3. \A i \in DOMAIN alerts : alerts[i] \in Alert
  BY SMT, Z3 DEF StoreTypeOK
<1>4. \A i \in DOMAIN alerts : alerts[i].triggered_at \in Nat
  BY <1>3, Zenon DEF Alert
<1>5. QED
  BY <1>1, <1>2, <1>4, FS_Subset

LEMMA NewerFinite ==
  ASSUME StoreTypeOK, NEW q, NEW i
  PROVE  IsFiniteSet(Newer(q, i)) /\ Cardinality(Newer(q, i)) \in Nat
BY MatchingRows, FS_Subset, FS_CardinalityType, Zenon DEF Newer

LEMMA Place ==
  ASSUME StoreTypeOK, NEW q, NEW s \in NewestFirst(Matching(q)),
         NEW i \in Matching(q), AloneInTime(i)
  PROVE  /\ s \in Seq(Matching(q))
         /\ Cardinality(Newer(q, i)) + 1 \in 1..Len(s)
         /\ s[Cardinality(Newer(q, i)) + 1] = i
<1>1. /\ IsFiniteSet(Matching(q)) /\ Matching(q) \subseteq DOMAIN alerts
      /\ \A j \in DOMAIN alerts : alerts[j].triggered_at \in Nat
  BY MatchingRows, Zenon
<1>2. /\ s \in Orders(Matching(q))
      /\ \A j, k \in DOMAIN s : j < k => alerts[s[j]].triggered_at >= alerts[s[k]].triggered_at
  BY Zenon DEF NewestFirst
<1>3. /\ s \in Seq(Matching(q)) /\ Len(s) \in Nat
      /\ \A j, k \in 1..Len(s) : s[j] = s[k] => j = k
      /\ \A x \in Matching(q) : \E k \in 1..Len(s) : s[k] = x
  BY <1>1, <1>2, InSomeOrder, SMT, Z3
<1>4. PICK k \in 1..Len(s) : s[k] = i
  BY <1>3, Zenon
<1>0. DOMAIN s = 1..Len(s) /\ \A j \in 1..Len(s) : s[j] \in Matching(q)
  BY <1>3, SMT, Z3
<1>5. PICK n \in Nat : n = k - 1
  BY <1>3, <1>4
<1>6. PICK f : f = [j \in 1..n |-> s[j]]
  BY Zenon
<1>7. \A j \in 1..n : j \in 1..Len(s) /\ j # k /\ j < k
  BY <1>3, <1>4, <1>5, SMT, Z3
<1>8. ASSUME NEW j \in 1..n PROVE s[j] \in Newer(q, i)
  <2>0. j \in 1..Len(s) /\ j # k /\ j < k
    BY <1>7, Zenon
  <2>1. s[j] \in Matching(q) /\ s[j] # i /\ j \in DOMAIN s /\ k \in DOMAIN s
    BY <1>0, <1>3, <1>4, <2>0, Zenon
  <2>2. /\ alerts[s[j]].triggered_at >= alerts[i].triggered_at
        /\ alerts[s[j]].triggered_at # alerts[i].triggered_at
    BY <1>1, <1>2, <1>4, <1>7, <2>1 DEF AloneInTime
  <2>3. alerts[s[j]].triggered_at \in Nat /\ alerts[i].triggered_at \in Nat
    BY <1>1, <2>1, Zenon
  <2>4. QED
    BY <2>1, <2>2, <2>3, SMT, Z3 DEF Newer
<1>9. ASSUME NEW x \in Newer(q, i) PROVE \E j \in 1..n : s[j] = x
  <2>1. x \in Matching(q) /\ alerts[x].triggered_at > alerts[i].triggered_at
    BY Zenon DEF Newer
  <2>2. PICK j \in 1..Len(s) : s[j] = x
    BY <1>3, <2>1, Zenon
  <2>3. alerts[x].triggered_at \in Nat /\ alerts[i].triggered_at \in Nat
    BY <1>1, <2>1, Zenon
  <2>4. j # k
    BY <1>4, <2>1, <2>2, <2>3, SMT, Z3
  <2>5. ~(k < j)
    <3>1. k < j => alerts[s[k]].triggered_at >= alerts[s[j]].triggered_at
      BY <1>0, <1>2, <1>4, <2>2
    <3>2. QED
      BY <1>4, <2>1, <2>2, <2>3, <3>1
  <2>6. j \in 1..n
    BY <1>3, <1>4, <1>5, <2>2, <2>4, <2>5
  <2>7. QED
    BY <2>2, <2>6, Zenon
<1>10. f \in Bijection(1..n, Newer(q, i))
  <2>1. f \in [1..n -> Newer(q, i)]
    BY <1>6, <1>8, Zenon
  <2>2. IsInjective(f)
    BY <1>3, <1>6, <1>7, Zenon DEF IsInjective
  <2>3. \A x \in Newer(q, i) : \E j \in 1..n : f[j] = x
    BY <1>6, <1>9, Zenon
  <2>4. QED
    BY <2>1, <2>2, <2>3, Zenon DEF Bijection, Injection, Surjection
<1>11. Cardinality(Newer(q, i)) = n
  BY <1>10, FS_CountingElements, Zenon DEF ExistsBijection
<1>12. QED
  BY <1>3, <1>4, <1>5, <1>11, SMT, Z3

\* Only the offset of a walk's query changes from page to page.
LEMMA QueryAt ==
  ASSUME NEW q \in Walks, NEW o \in Nat
  PROVE  /\ Limit([q EXCEPT !.offset = o]) = Limit(q)
         /\ [q EXCEPT !.offset = o].offset = o
         /\ Matching([q EXCEPT !.offset = o]) = Matching(q)
<1>1. /\ [q EXCEPT !.offset = o].offset = o
      /\ [q EXCEPT !.offset = o].limit = q.limit
      /\ [q EXCEPT !.offset = o].site_id = q.site_id
      /\ [q EXCEPT !.offset = o].status = q.status
      /\ [q EXCEPT !.offset = o].device_id = q.device_id
  <2>1. q = [site_id |-> q.site_id, status |-> q.status, device_id |-> q.device_id,
             limit |-> q.limit, offset |-> q.offset]
    BY WalksAssumption
  <2>2. QED
    BY <2>1, Zenon
<1>2. PICK p : p = [q EXCEPT !.offset = o]
  BY Zenon
<1>3. Limit(p) = Limit(q) /\ Matching(p) = Matching(q)
  BY <1>1, <1>2, Zenon DEF Limit, Matching, Matches
<1>4. QED
  BY <1>1, <1>2, <1>3

LEMMA Parsed ==
  ASSUME NEW q \in Walks, NEW o \in Nat
  PROVE  /\ Limit(q) \in Nat \ {0} /\ Offset(o) \in Nat
         /\ \A l \in Nat : Offset(o + l) <= Offset(o) + l
<1>1. Limit(q) \in Nat \ {0}
  BY WalksAssumption, LimitsAssumption, Zenon DEF Limit, parseIntParam
<1>2. Offset(o) \in Nat /\ \A l \in Nat : Offset(o + l) <= Offset(o) + l
  BY LimitsAssumption, SMT, Z3 DEF Offset, parseIntParam
<1>3. QED
  BY <1>1, <1>2, Zenon

\* A page of a walk, as a part of one order of the matching alerts.
LEMMA PageOfWalk ==
  ASSUME StoreTypeOK, NEW q \in Walks, NEW o \in Nat,
         NEW rows \in listAlerts([q EXCEPT !.offset = o])
  PROVE  \E s \in NewestFirst(Matching(q)), to \in Nat :
           /\ s \in Seq(Matching(q)) /\ rows = SubSeq(s, Offset(o) + 1, to)
           /\ to = IF Offset(o) + Limit(q) <= Len(s) THEN Offset(o) + Limit(q) ELSE Len(s)
<1>1. PICK p : p = [q EXCEPT !.offset = o]
  BY Zenon
<1>2. Limit(p) = Limit(q) /\ p.offset = o /\ Matching(p) = Matching(q)
  BY <1>1, QueryAt, Zenon
<1>3. PICK s \in NewestFirst(Matching(q)) : rows = Page(s, Limit(q), Offset(o))
  BY <1>1, <1>2, Zenon DEF listAlerts, Limit, Offset
<1>4. s \in Seq(Matching(q)) /\ Len(s) \in Nat
  BY MatchingRows, InSomeOrder, Zenon DEF NewestFirst
<1>5. Limit(q) \in Nat /\ Offset(o) \in Nat
  BY Parsed, Zenon
<1>6. PICK to : to = Min({Offset(o) + Limit(q), Len(s)})
  BY Zenon
<1>7. Offset(o) + Limit(q) \in Int /\ Len(s) \in Int
  BY <1>4, <1>5, SMT, Z3
<1>8. to = IF Offset(o) + Limit(q) <= Len(s) THEN Offset(o) + Limit(q) ELSE Len(s)
  BY <1>6, <1>7, MinOfTwo, Zenon
<1>9. to \in Nat
  BY <1>4, <1>5, <1>8, SMT, Z3
<1>10. rows = SubSeq(s, Offset(o) + 1, to)
  BY <1>3, <1>6, Zenon DEF Page
<1>11. QED
  BY <1>4, <1>8, <1>9, <1>10, Zenon

\* An alert that is behind the offset is shown, or behind the next offset.
LEMMA PageShows ==
  ASSUME StoreTypeOK, NEW q \in Walks, NEW o \in Nat,
         NEW rows \in listAlerts([q EXCEPT !.offset = o]),
         NEW i \in Matching(q), AloneInTime(i), Cardinality(Newer(q, i)) >= Offset(o)
  PROVE  /\ rows # <<>>
         /\ \/ i \in Range(rows)
            \/ Cardinality(Newer(q, i)) >= Offset(o + Len(rows))
<1>1. PICK s \in NewestFirst(Matching(q)), to \in Nat :
           /\ s \in Seq(Matching(q)) /\ rows = SubSeq(s, Offset(o) + 1, to)
           /\ to = IF Offset(o) + Limit(q) <= Len(s) THEN Offset(o) + Limit(q) ELSE Len(s)
  BY PageOfWalk, Zenon
<1>2. PICK off \in Nat, limit \in Nat \ {0} : off = Offset(o) /\ limit = Limit(q)
  BY Parsed, Zenon
<1>3. PICK rank \in Nat : rank = Cardinality(Newer(q, i))
  BY NewerFinite, Zenon
<1>4. rank + 1 \in 1..Len(s) /\ s[rank + 1] = i /\ rank >= off
  BY <1>1, <1>2, <1>3, Place
<1>5. Len(s) \in Nat /\ to <= Len(s) /\ off + 1 <= to /\ to <= off + limit
  <2>1. PICK n \in Nat : n = Len(s)
    BY <1>1, SMT, Z3
  <2>2. to = IF off + limit <= n THEN off + limit ELSE n
    BY <1>1, <1>2, <2>1, Zenon
  <2>3. rank + 1 <= n /\ off <= rank
    BY <1>2, <1>3, <1>4, <2>1, SMT, Z3
  <2>4. to <= n /\ off + 1 <= to /\ to <= off + limit
    BY <1>2, <1>3, <2>1, <2>2, <2>3
  <2>5. QED
    BY <2>1, <2>4, Zenon
<1>6. /\ rows \in Seq(Matching(q)) /\ Len(rows) = to - off
      /\ \A k \in 1..(to - off) : rows[k] = s[off + k]
  <2>1. off + 1 \in Nat /\ off + 1 # 0
    BY <1>2, SMT, Z3
  <2>2. rows = SubSeq(s, off + 1, to) /\ s \in Seq(Matching(q)) /\ to <= Len(s)
    BY <1>1, <1>2, <1>5, Zenon
  <2>3. /\ rows \in Seq(Matching(q)) /\ Len(rows) = (to - (off + 1)) + 1
        /\ \A k \in 1..Len(rows) : rows[k] = s[(k + (off + 1)) - 1]
    <3>1. PICK from \in Nat : from = off + 1
      BY <1>2, SMT, Z3
    <3>2. from # 0 /\ from <= to /\ rows = SubSeq(s, from, to)
      BY <1>5, <2>1, <2>2, <3>1, SMT, Z3
    <3>3. /\ rows \in Seq(Matching(q))
          /\ Len(rows) = IF from <= to THEN (to - from) + 1 ELSE 0
          /\ \A k \in 1..Len(rows) : rows[k] = s[(k + from) - 1]
      BY <2>2, <3>2, PartInOrder, SMT, Z3
    <3>4. QED
      BY <3>1, <3>2, <3>3, Zenon
  <2>4. \A a, b, k \in Int : (a - (b + 1)) + 1 = a - b /\ (k + (b + 1)) - 1 = b + k
    BY SMT, Z3
  <2>5. (to - (off + 1)) + 1 = to - off /\ to \in Int /\ off \in Int
    BY <2>4, SMT, Z3
  <2>6. Len(rows) = to - off
    BY <2>3, <2>5, Zenon
  <2>7. ASSUME NEW k \in 1..(to - off) PROVE rows[k] = s[off + k]
    <3>1. k \in 1..Len(rows) /\ k \in Int
      BY <2>6, SMT, Z3
    <3>2. (k + (off + 1)) - 1 = off + k
      BY <2>4, <2>5, <3>1, Zenon
    <3>3. QED
      BY <2>3, <3>1, <3>2, Zenon
  <2>8. QED
    BY <2>3, <2>6, <2>7, Zenon
<1>7. rows # <<>>
  BY <1>5, <1>6, SMT, Z3
<1>8. CASE rank + 1 <= to
  <2>1. (rank + 1) - off \in 1..(to - off)
    BY <1>1, <1>2, <1>3, <1>4, <1>8, SMT, Z3
  <2>2. rows[(rank + 1) - off] = i /\ (rank + 1) - off \in DOMAIN rows
    BY <1>2, <1>3, <1>4, <1>6, <2>1
  <2>3. QED
    BY <1>7, <2>2, Zenon DEF Range
<1>9. CASE ~(rank + 1 <= to)
  <2>1. rank >= off + Len(rows)
    BY <1>1, <1>2, <1>3, <1>6, <1>9
  <2>2. Len(rows) \in Nat
    BY <1>6, SMT, Z3
  <2>3. Offset(o + Len(rows)) <= off + Len(rows) /\ Offset(o + Len(rows)) \in Nat
    <3>1. o + Len(rows) \in Nat
      BY <2>2, SMT, Z3
    <3>2. QED
      BY <1>2, <2>2, <3>1, Parsed, Zenon
  <2>4. QED
    BY <1>2, <1>3, <1>7, <2>1, <2>2, <2>3
<1>10. QED
  BY <1>8, <1>9, Zenon

-----------------------------------------------------------------------------
\* The table under a walk.  Its writers never remove an alert or change its
\* triggered_at.
TimesKept ==
  \A i \in DOMAIN alerts :
    i \in DOMAIN alerts' /\ alerts'[i].triggered_at = alerts[i].triggered_at

LEMMA NewerGrows ==
  ASSUME StoreTypeOK, StoreTypeOK', TimesKept, NEW q, Matching(q) \subseteq Matching(q)',
         NEW i \in DOMAIN alerts
  PROVE  /\ Cardinality(Newer(q, i)') \in Nat
         /\ Cardinality(Newer(q, i)) <= Cardinality(Newer(q, i)')
         /\ AloneInTime(i)' => AloneInTime(i)
<1>1. IsFiniteSet(Newer(q, i)') /\ Cardinality(Newer(q, i)') \in Nat
  <2>1. Newer(q, i)' \subseteq 1..Len(alerts') /\ Len(alerts') \in Nat
    <3>1. DOMAIN alerts' = 1..Len(alerts') /\ Len(alerts') \in Nat
      BY SMT, Z3 DEF StoreTypeOK
    <3>2. Newer(q, i)' \subseteq DOMAIN alerts'
      BY Zenon DEF Newer, Matching
    <3>3. QED
      BY <3>1, <3>2, Zenon
  <2>2. IsFiniteSet(1..Len(alerts'))
    BY <2>1, FS_Interval, SMT, Z3
  <2>3. QED
    BY <2>1, <2>2, FS_Subset, FS_CardinalityType, SMT, Z3
<1>2. Newer(q, i) \subseteq Newer(q, i)'
  <2>1. Matching(q) \subseteq DOMAIN alerts
    BY Zenon DEF Matching
  <2>2. QED
    BY <2>1, Zenon DEF Newer, TimesKept
<1>3. Cardinality(Newer(q, i)) <= Cardinality(Newer(q, i)')
  BY <1>1, <1>2, FS_Subset, Zenon
<1>4. AloneInTime(i)' => AloneInTime(i)
  BY Zenon DEF AloneInTime, TimesKept
<1>5. QED
  BY <1>1, <1>3, <1>4, Zenon

LEMMA WatchKeepsComplete ==
  ASSUME StoreTypeOK, StoreTypeOK', TimesKept, Watch,
         walk = NoWalk \/ \E wk \in Walk : walk = wk /\ Complete(wk)
  PROVE  (walk = NoWalk \/ \E wk \in Walk : walk = wk /\ Complete(wk))'
<1>1. CASE walk = NoWalk
  BY <1>1, Zenon DEF Watch
<1>2. ASSUME walk # NoWalk, NEW wk \in Walk, walk = wk, Complete(wk)
      PROVE  \E after \in Walk : walk' = after /\ Complete(after)'
  <2>1. wk.query \in Walks /\ [wk EXCEPT !.shifted = TRUE] \in Walk
        /\ [wk EXCEPT !.shifted = TRUE].shifted
    BY Zenon DEF Walk
  <2>2. CASE ~(Matching(wk.query) \subseteq Matching(wk.query)')
    <3>1. walk' = [wk EXCEPT !.shifted = TRUE]
      BY <1>2, <2>1, <2>2, Zenon DEF Watch
    <3>2. QED
      BY <2>1, <3>1, Zenon DEF Complete
  <2>3. CASE Matching(wk.query) \subseteq Matching(wk.query)'
    <3>1. walk' = wk
      BY <1>2, <2>1, <2>3, Zenon DEF Watch
    <3>2. SUFFICES ASSUME ~wk.shifted, ~wk.cut PROVE Complete(wk)'
      BY <3>1, Zenon DEF Complete
    <3>3. /\ wk.present \subseteq Matching(wk.query)
          /\ \A i \in wk.present \ wk.seen :
               AloneInTime(i) => ~wk.done /\ Cardinality(Newer(wk.query, i)) >= Offset(wk.offset)
      BY <1>2, <3>2, Zenon DEF Complete
    <3>4. ASSUME NEW i \in wk.present \ wk.seen, AloneInTime(i)'
          PROVE  ~wk.done /\ Cardinality(Newer(wk.query, i)') >= Offset(wk.offset)
      <4>1. i \in DOMAIN alerts
        BY <3>3, Zenon DEF Matching
      <4>2. /\ Cardinality(Newer(wk.query, i)') \in Nat
            /\ Cardinality(Newer(wk.query, i)) <= Cardinality(Newer(wk.query, i)')
            /\ AloneInTime(i)
        BY <2>3, <3>4, <4>1, NewerGrows
      <4>3. Cardinality(Newer(wk.query, i)) \in Nat
        BY NewerFinite, Zenon
      <4>4. Offset(wk.offset) \in Nat
        BY <2>1, Parsed, Zenon DEF Walk
      <4>5. QED
        BY <3>3, <4>2, <4>3, <4>4
    <3>5. wk.present \subseteq Matching(wk.query)'
      BY <2>3, <3>3, Zenon
    <3>6. QED
      BY <3>4, <3>5, Zenon DEF Complete
  <2>4. QED
    BY <2>2, <2>3, Zenon
<1>3. QED
  BY <1>1, <1>2, Zenon

LEMMA RaiseStep ==
  ASSUME WalkInv, NEW r \in LiveRules, NEW at \in 0..MaxTime, Raise(r, at)
  PROVE  WalkInv'
<1>1. StoreTypeOK /\ InsertAlert(r, alert_rules[r].device_id, at) /\ Watch
  BY Zenon DEF WalkInv, Raise
<1>2. r \in RuleIds /\ alert_rules[r].device_id \in Devices /\ at \in Nat
  <2>1. r \in RuleIds /\ alert_rules[r] \in Rule
    BY <1>1, Zenon DEF StoreTypeOK, LiveRules
  <2>2. alert_rules[r].device_id \in Devices
    BY <2>1, Zenon DEF Rule
  <2>3. at \in Nat
    BY BoundsAssumption, SMT, Z3
  <2>4. QED
    BY <2>1, <2>2, <2>3, Zenon
<1>3. StoreTypeOK'
  BY <1>1, <1>2, InsertAlertType, Zenon
<1>4. TimesKept
  <2>1. /\ alerts \in Seq(Alert)
        /\ alerts' = Append(alerts, NewAlert(r, alert_rules[r].device_id, at))
    BY <1>1, Zenon DEF StoreTypeOK, InsertAlert
  <2>2. QED
    BY <2>1, SMT, Z3 DEF TimesKept
<1>5. (walk = NoWalk \/ \E wk \in Walk : walk = wk /\ Complete(wk))'
  BY <1>1, <1>3, <1>4, WatchKeepsComplete DEF WalkInv
<1>6. QED
  BY <1>1, <1>3, <1>5, Zenon DEF WalkInv

LEMMA CloseStep ==
  ASSUME WalkInv, NEW r \in LiveRules, Close(r)
  PROVE  WalkInv'
<1>1. StoreTypeOK /\ AutoResolveAlerts(r, MaxTime) /\ Watch
  BY Zenon DEF WalkInv, Close
<1>2. r \in RuleIds /\ MaxTime \in Nat
  BY BoundsAssumption, Zenon DEF LiveRules
<1>3. StoreTypeOK' /\ DOMAIN alerts' = DOMAIN alerts
  BY <1>1, <1>2, AutoResolveType, Zenon
<1>4. TimesKept
  <2>1. ASSUME NEW i \in DOMAIN alerts
        PROVE  alerts'[i].triggered_at = alerts[i].triggered_at
    <3>1. alerts[i] \in Alert
      BY <1>1, SMT, Z3 DEF StoreTypeOK
    <3>2. alerts'[i] = IF alerts[i].alert_rule_id = r /\ Active(alerts[i])
                         THEN [alerts[i] EXCEPT !.status = "resolved", !.resolved_at = MaxTime]
                         ELSE alerts[i]
      BY <1>1, Zenon DEF AutoResolveAlerts
    <3>3. [alerts[i] EXCEPT !.status = "resolved", !.resolved_at = MaxTime].triggered_at
            = alerts[i].triggered_at
      BY <3>1, Zenon DEF Alert
    <3>4. QED
      BY <3>2, <3>3, Zenon
  <2>2. QED
    BY <1>3, <2>1, Zenon DEF TimesKept
<1>5. (walk = NoWalk \/ \E wk \in Walk : walk = wk /\ Complete(wk))'
  BY <1>1, <1>3, <1>4, WatchKeepsComplete DEF WalkInv
<1>6. QED
  BY <1>1, <1>3, <1>5, Zenon DEF WalkInv

\* The steps that leave the table alone leave what Complete says alone.
LEMMA SameTable ==
  ASSUME UNCHANGED alerts, NEW wk
  PROVE  Complete(wk)' <=> Complete(wk)
BY Zenon DEF Complete, Newer, Matching, AloneInTime

\* Whatever page the client gets, it names alerts that match.
LEMMA PageRows ==
  ASSUME StoreTypeOK, NEW q \in Walks, NEW o \in Nat,
         NEW rows \in listAlerts([q EXCEPT !.offset = o])
  PROVE  /\ rows \in Seq(Matching(q))
         /\ \A part \in CutShort(rows) : part \in Seq(Matching(q))
<1>1. PICK s \in NewestFirst(Matching(q)), to \in Nat :
           /\ s \in Seq(Matching(q)) /\ rows = SubSeq(s, Offset(o) + 1, to)
           /\ to = IF Offset(o) + Limit(q) <= Len(s) THEN Offset(o) + Limit(q) ELSE Len(s)
  BY PageOfWalk, Zenon
<1>2. PICK from \in Nat, upTo \in Nat \ {0} : from = Offset(o) + 1 /\ upTo = Offset(o) + Limit(q)
  BY Parsed, SMT, Z3
<1>3. PICK n \in Nat : n = Len(s)
  BY <1>1, SMT, Z3
<1>4. to <= n
  BY <1>1, <1>2, <1>3, SMT, Z3
<1>5. from # 0
  BY <1>2, Parsed, SMT, Z3
<1>6. rows \in Seq(Matching(q))
  <2>1. rows = SubSeq(s, from, to) /\ s \in Seq(Matching(q)) /\ to <= Len(s)
    BY <1>1, <1>2, <1>3, <1>4
  <2>2. QED
    BY <1>5, <2>1, PartInOrder, Zenon
<1>7. ASSUME NEW part \in CutShort(rows) PROVE part \in Seq(Matching(q))
  <2>1. Len(rows) \in Nat
    BY <1>6, SMT, Z3
  <2>2. PICK m \in 0..(Len(rows) - 1) : part = SubSeq(rows, 1, m)
    BY Zenon DEF CutShort
  <2>3. m \in Nat /\ m <= Len(rows)
    BY <2>1, <2>2, SMT, Z3
  <2>4. QED
    BY <1>6, <2>2, <2>3, PartInOrder
<1>8. QED
  BY <1>6, <1>7, Zenon

LEMMA StartStep ==
  ASSUME WalkInv, NEW q \in Walks, StartWalk(q)
  PROVE  WalkInv'
<1>1. StoreTypeOK' /\ UNCHANGED alerts
  BY Zenon DEF WalkInv, StartWalk, StoreTypeOK
<1>2. PICK wk : /\ walk' = wk
                /\ wk = [query |-> q, offset |-> 0, present |-> Matching(q), seen |-> {},
                         shifted |-> FALSE, cut |-> FALSE, done |-> FALSE]
  BY Zenon DEF StartWalk
<1>3. wk \in Walk
  <2>1. Matching(q) \subseteq Nat
    BY MatchingRows, Zenon DEF WalkInv
  <2>2. QED
    BY <1>2, <2>1, Zenon DEF Walk
<1>4. Complete(wk)
  <2>1. Offset(0) = 0
    BY LimitsAssumption, SMT, Z3 DEF Offset, parseIntParam
  <2>2. \A i : Cardinality(Newer(q, i)) \in Nat
    BY NewerFinite, Zenon DEF WalkInv
  <2>3. /\ wk.query = q /\ wk.offset = 0 /\ wk.present = Matching(q) /\ ~wk.done
    BY <1>2, Zenon
  <2>4. QED
    BY <2>1, <2>2, <2>3, SMT, Z3 DEF Complete
<1>5. QED
  BY <1>1, <1>2, <1>3, <1>4, SameTable DEF WalkInv

\* The walk after a page.
Received(wk, rows, cut) ==
  [wk EXCEPT !.offset = @ + Len(rows), !.seen = @ \cup Range(rows),
             !.done = rows = <<>>, !.cut = @ \/ cut]

LEMMA ReceivedFields ==
  ASSUME NEW wk \in Walk, NEW S, S \subseteq Nat, NEW rows \in Seq(S), NEW cut \in BOOLEAN
  PROVE  /\ Received(wk, rows, cut) \in Walk
         /\ Received(wk, rows, cut).query = wk.query
         /\ Received(wk, rows, cut).offset = wk.offset + Len(rows)
         /\ Received(wk, rows, cut).present = wk.present
         /\ Received(wk, rows, cut).seen = wk.seen \cup Range(rows)
         /\ Received(wk, rows, cut).shifted = wk.shifted
         /\ Received(wk, rows, cut).cut = (wk.cut \/ cut)
         /\ Received(wk, rows, cut).done = (rows = <<>>)
<1>1. /\ wk.query \in Walks /\ wk.offset \in Nat /\ wk.present \subseteq Nat
      /\ wk.seen \subseteq Nat /\ wk.shifted \in BOOLEAN /\ wk.cut \in BOOLEAN
      /\ wk = [query |-> wk.query, offset |-> wk.offset, present |-> wk.present,
               seen |-> wk.seen, shifted |-> wk.shifted, cut |-> wk.cut, done |-> wk.done]
  BY Zenon DEF Walk
<1>2. Len(rows) \in Nat /\ Range(rows) \subseteq Nat
  <2>1. Len(rows) \in Nat /\ DOMAIN rows = 1..Len(rows) /\ \A k \in 1..Len(rows) : rows[k] \in S
    BY SMT, Z3
  <2>2. QED
    BY <2>1, Zenon DEF Range
<1>3. wk.offset + Len(rows) \in Nat /\ wk.seen \cup Range(rows) \subseteq Nat
  BY <1>1, <1>2, SMT, Z3
<1>4. (rows = <<>>) \in BOOLEAN /\ (wk.cut \/ cut) \in BOOLEAN
  BY Zenon
<1>5. PICK done \in BOOLEAN, broken \in BOOLEAN : done = (rows = <<>>) /\ broken = (wk.cut \/ cut)
  BY <1>4, Zenon
<1>6. PICK next : next = Received(wk, rows, cut)
  BY Zenon
<1>7. PICK offset \in Nat, seen \in SUBSET Nat :
        offset = wk.offset + Len(rows) /\ seen = wk.seen \cup Range(rows)
  BY <1>3, Zenon
<1>8. next = [wk EXCEPT !.offset = offset, !.seen = seen, !.done = done, !.cut = broken]
  BY <1>5, <1>6, <1>7, Zenon DEF Received
<1>9. /\ next \in Walk
      /\ next.query = wk.query /\ next.offset = offset /\ next.present = wk.present
      /\ next.seen = seen /\ next.shifted = wk.shifted
      /\ next.cut = broken /\ next.done = done
  <2>1. PICK w1 : w1 = [wk EXCEPT !.offset = offset]
    BY Zenon
  <2>2. PICK w2 : w2 = [w1 EXCEPT !.seen = seen]
    BY Zenon
  <2>3. PICK w3 : w3 = [w2 EXCEPT !.done = done]
    BY Zenon
  <2>4. next = [w3 EXCEPT !.cut = broken]
    BY <1>8, <2>1, <2>2, <2>3
  <2>5. w1 \in Walk
    BY <2>1, Zenon DEF Walk
  <2>6. w2 \in Walk
    BY <2>2, <2>5, Zenon DEF Walk
  <2>7. w3 \in Walk
    BY <2>3, <2>6, Zenon DEF Walk
  <2>8. next \in Walk
    BY <2>4, <2>7, Zenon DEF Walk
  <2>9. QED
    BY <1>1, <2>1, <2>2, <2>3, <2>4, <2>5, <2>6, <2>7, <2>8 DEF Walk
<1>10. QED
  BY <1>5, <1>6, <1>7, <1>9, Zenon

LEMMA NextPageStep ==
  ASSUME WalkInv, NextPage
  PROVE  WalkInv'
<1>1. StoreTypeOK /\ StoreTypeOK' /\ UNCHANGED alerts
  BY Zenon DEF WalkInv, NextPage, StoreTypeOK
<1>2. PICK wk \in Walk : walk = wk /\ Complete(wk) /\ ~wk.done
  BY Zenon DEF WalkInv, NextPage
<1>3. wk.query \in Walks /\ wk.offset \in Nat /\ wk.shifted \in BOOLEAN /\ wk.cut \in BOOLEAN
  BY Zenon DEF Walk
<1>4. PICK rows \in listAlerts([wk.query EXCEPT !.offset = wk.offset]) :
        \/ walk' = Received(wk, rows, FALSE)
        \/ \E part \in CutShort(rows) : walk' = Received(wk, part, TRUE)
  <2>1. ASSUME NEW rows, NEW cut, Receive(rows, cut) PROVE walk' = Received(walk, rows, cut)
    BY <2>1, Zenon DEF Receive, Received
  <2>2. QED
    BY <1>2, <2>1, Zenon DEF NextPage
<1>5. /\ Matching(wk.query) \subseteq Nat /\ rows \in Seq(Matching(wk.query))
      /\ \A part \in CutShort(rows) : part \in Seq(Matching(wk.query))
  BY <1>1, <1>3, MatchingRows, PageRows
<1>6. SUFFICES \E after \in Walk : walk' = after /\ Complete(after)
  BY <1>1, SameTable, Zenon DEF WalkInv
<1>7. ASSUME NEW part \in CutShort(rows), walk' = Received(wk, part, TRUE)
      PROVE  \E after \in Walk : walk' = after /\ Complete(after)
  <2>1. Received(wk, part, TRUE) \in Walk /\ Received(wk, part, TRUE).cut
    BY <1>5, <1>7, ReceivedFields, Zenon
  <2>2. QED
    BY <1>7, <2>1, Zenon DEF Complete
<1>8. ASSUME walk' = Received(wk, rows, FALSE)
      PROVE  \E after \in Walk : walk' = after /\ Complete(after)
  <2>1. PICK after \in Walk : walk' = after
        /\ after.query = wk.query /\ after.offset = wk.offset + Len(rows)
        /\ after.present = wk.present /\ after.seen = wk.seen \cup Range(rows)
        /\ after.shifted = wk.shifted /\ after.cut = wk.cut /\ after.done = (rows = <<>>)
    <3>1. PICK cut \in BOOLEAN : ~cut /\ walk' = Received(wk, rows, cut)
      BY <1>8, Zenon
    <3>2. PICK after : after = Received(wk, rows, cut)
      BY Zenon
    <3>3. /\ after \in Walk
          /\ after.query = wk.query /\ after.offset = wk.offset + Len(rows)
          /\ after.present = wk.present /\ after.seen = wk.seen \cup Range(rows)
          /\ after.shifted = wk.shifted /\ after.done = (rows = <<>>)
          /\ after.cut = (wk.cut \/ cut)
      BY <1>5, <3>2, ReceivedFields, SMT, Z3
    <3>4. after.cut = wk.cut
      BY <1>3, <3>1, <3>3
    <3>5. QED
      BY <3>1, <3>2, <3>3, <3>4, Zenon
  <2>2. SUFFICES ASSUME ~wk.shifted, ~wk.cut PROVE Complete(after)
    BY <2>1, Zenon DEF Complete
  <2>3. /\ wk.present \subseteq Matching(wk.query)
        /\ \A i \in wk.present \ wk.seen :
             AloneInTime(i) => Cardinality(Newer(wk.query, i)) >= Offset(wk.offset)
    BY <1>2, <2>2, Zenon DEF Complete
  <2>4. ASSUME NEW i \in wk.present \ (wk.seen \cup Range(rows)), AloneInTime(i)
        PROVE  rows # <<>> /\ Cardinality(Newer(wk.query, i)) >= Offset(wk.offset + Len(rows))
    <3>1. i \in Matching(wk.query) /\ Cardinality(Newer(wk.query, i)) >= Offset(wk.offset)
      BY <2>3, <2>4, Zenon
    <3>2. QED
      BY <1>1, <1>3, <2>4, <3>1, PageShows
  <2>5. Complete(after)
    BY <2>1, <2>3, <2>4, Zenon DEF Complete
  <2>6. QED
    BY <2>5, Zenon
<1>9. QED
  BY <1>4, <1>7, <1>8, Zenon

LEMMA EndStep ==
  ASSUME WalkInv, EndWalk
  PROVE  WalkInv'
BY Zenon DEF WalkInv, EndWalk, StoreTypeOK

LEMMA StillWalk ==
  ASSUME WalkInv, UNCHANGED walkVars
  PROVE  WalkInv'
<1>1. UNCHANGED <<alert_rules, alerts>> /\ walk' = walk
  BY Zenon DEF walkVars
<1>2. (walk = NoWalk \/ \E wk \in Walk : walk = wk /\ Complete(wk))'
  BY <1>1, SameTable, Zenon DEF WalkInv
<1>3. QED
  BY <1>1, <1>2, Zenon DEF WalkInv, StoreTypeOK

LEMMA WalkInvariant == Spec => []WalkInv
<1>1. Init => WalkInv
  <2> SUFFICES ASSUME Init PROVE WalkInv
    BY Zenon
  <2>1. alert_rules = InitialRules /\ alerts = <<>> /\ walk = NoWalk
    BY Zenon DEF Init
  <2>2. StoreTypeOK
    BY <2>1, InitialRulesAssumption, SMT, Z3 DEF StoreTypeOK
  <2>3. QED
    BY <2>1, <2>2, Zenon DEF WalkInv
<1>2. WalkInv /\ [Next]_vars => WalkInv'
  <2> SUFFICES ASSUME WalkInv, [Next]_vars PROVE WalkInv'
    BY Zenon
  <2>1. ASSUME NEW r \in LiveRules, NEW at \in 0..MaxTime, Raise(r, at) PROVE WalkInv'
    BY <2>1, RaiseStep, Zenon
  <2>2. ASSUME NEW r \in LiveRules, Close(r) PROVE WalkInv'
    BY <2>2, CloseStep, Zenon
  <2>3. ASSUME NEW q \in Walks, StartWalk(q) PROVE WalkInv'
    BY <2>3, StartStep, Zenon
  <2>4. CASE NextPage
    BY <2>4, NextPageStep, Zenon
  <2>5. CASE EndWalk
    BY <2>5, EndStep, Zenon
  <2>6. CASE UNCHANGED walkVars
    BY <2>6, StillWalk, Zenon
  <2>7. CASE UNCHANGED vars
    BY <2>6, <2>7, Zenon DEF vars, walkVars
  <2>8. QED
    BY <2>1, <2>2, <2>3, <2>4, <2>5, <2>6, <2>7, Zenon DEF Next, WalkStep
<1>3. QED
  BY <1>1, <1>2, PTL DEF Spec

-----------------------------------------------------------------------------
\* A client that reads GET /alerts page by page until a page is empty has seen
\* every alert that was there when it began, for any limit and any number of
\* alerts raised meanwhile, unless the alert shares its triggered_at, an alert left
\* the filter or an answer was cut short.
THEOREM WalkSeesAll == Spec => []WalkMissesNothing
<1>1. WalkInv => WalkMissesNothing
  <2> SUFFICES ASSUME WalkInv, walk # NoWalk, walk.done, ~walk.shifted, ~walk.cut,
                      NEW i \in walk.present \ walk.seen
               PROVE  ~AloneInTime(i)
    BY Zenon DEF WalkMissesNothing, AloneInTime
  <2>1. Complete(walk)
    BY DEF WalkInv
  <2>2. QED
    BY <2>1, Zenon DEF Complete
<1>2. QED
  BY <1>1, WalkInvariant, PTL
=============================================================================
