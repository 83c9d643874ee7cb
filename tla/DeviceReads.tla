----------------------------- MODULE DeviceReads ----------------------------
(***************************************************************************)
(* GET /devices/{id}/telemetry of the API, getDeviceTelemetry of           *)
(* api/devices.go, with the parsing of its query parameters.  The handler  *)
(* reads a MongoDB cursor, in batches, while the ingestion service stores  *)
(* documents.  A document's ts is the device's, so a new one may belong    *)
(* anywhere.                                                               *)
(*                                                                         *)
(* The handler does not ask cursor.Err(): when a batch cannot be fetched,  *)
(* the points read so far go out with status 200.                          *)
(***************************************************************************)
EXTENDS Integers, Sequences, SequencesExt

CONSTANTS DefaultPoints, MaxPoints,  \* 100 and 1000
          NoRead

ASSUME PointsAssumption == {DefaultPoints, MaxPoints} \subseteq Nat

VARIABLES telemetry_raw,
          read  \* the request under way; there is history: what Find could see

readVars == <<telemetry_raw, read>>

ReadInit == telemetry_raw = {} /\ read = NoRead

\* parseTimeParam: a bound that is missing or does not parse is no bound.
InWindow(q, ts) == (q.from \in Nat => ts >= q.from) /\ (q.to \in Nat => ts <= q.to)

PointLimit(raw) == IF raw \in 1..MaxPoints THEN raw ELSE DefaultPoints

Wanted(q) == {d \in telemetry_raw : d.device_id = q.device_id /\ InWindow(q, d.ts)}

\* WriteTelemetry of the ingestion service.
Store(d, ts) ==
  /\ telemetry_raw' = telemetry_raw \cup
       {[_id |-> Cardinality(telemetry_raw), device_id |-> d, ts |-> ts]}
  /\ UNCHANGED read

-----------------------------------------------------------------------------
Find(q) ==
  /\ read = NoRead
  /\ read' = [query |-> q, there |-> Wanted(q), points |-> <<>>, cut |-> FALSE, done |-> FALSE]
  /\ UNCHANGED telemetry_raw

Reading == read # NoRead /\ ~read.done

Unread(docs) == docs \ Range(read.points)

\* SetSort on ts, from the index on device_id and ts: of documents with the same
\* ts any may be next, and one stored since Find is met if the cursor has yet to
\* pass its place, or not at all.
\* (Mutant: the sort is ascending.)
FollowsOldest(d) ==
  /\ \A p \in Range(read.points) : p.ts <= d.ts
  /\ \A e \in Unread(read.there) : d.ts <= e.ts

Follows(d) ==
  /\ \A p \in Range(read.points) : d.ts <= p.ts
  /\ \A e \in Unread(read.there) : e.ts <= d.ts

\* The loop over cursor.Next and Decode.
NextPoint(d) ==
  /\ Reading
  /\ Len(read.points) < PointLimit(read.query.limit)
  /\ d \in Unread(Wanted(read.query)) /\ Follows(d)
  /\ read' = [read EXCEPT !.points = Append(@, d)]
  /\ UNCHANGED telemetry_raw

\* The points are turned round and answered.
Respond(cut) ==
  /\ read' = [read EXCEPT !.points = Reverse(@), !.cut = cut, !.done = TRUE]
  /\ UNCHANGED telemetry_raw

CursorEnds ==
  /\ Reading
  /\ Len(read.points) = PointLimit(read.query.limit) \/ Unread(read.there) = {}
  /\ Respond(FALSE)

CursorBreaks == Reading /\ Respond(TRUE)

\* The client has the answer; or a document does not decode, and it has a 500.
EndRead ==
  /\ read # NoRead
  /\ read' = NoRead
  /\ UNCHANGED telemetry_raw

ReadOn == \/ \E d \in telemetry_raw : NextPoint(d)
          \/ CursorEnds \/ CursorBreaks \/ EndRead

-----------------------------------------------------------------------------
\* getDeviceTelemetry answers in chronological order, and without a gap: of the
\* documents that were in the window when it began, none that it leaves out is
\* newer than one that it shows, however many are stored meanwhile and also when
\* the cursor broke; and unless it broke, documents are left out for the limit only.
TelemetryIsLatest ==
  read # NoRead /\ read.done =>
    LET points == read.points
        limit == PointLimit(read.query.limit)
    IN  /\ Range(points) \subseteq Wanted(read.query)
        /\ Len(points) <= limit
        /\ \A j, k \in DOMAIN points : j < k => points[j].ts <= points[k].ts
        /\ \A d \in Unread(read.there) :
             /\ \A p \in Range(points) : d.ts <= p.ts
             /\ read.cut \/ Len(points) = limit
=============================================================================
