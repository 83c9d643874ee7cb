------------------------------ MODULE ApiReads ------------------------------
(***************************************************************************)
(* GET /alerts of the API, listAlerts of api/alerts.go, with the parsing   *)
(* of its query parameters.  A query whose ORDER BY leaves ties has a set  *)
(* of possible answers, one per order of the tied rows.                    *)
(*                                                                         *)
(* The handler does not ask rows.Err(): when the connection breaks while   *)
(* rows are read, the rows read so far go out with status 200 (CutShort).  *)
(***************************************************************************)
EXTENDS AlertStore, FiniteSetsExt

CONSTANTS SiteOf,                            \* devices.site_id
          DefaultLimit, MaxLimit, MaxOffset  \* 50, 500 and 1_000_000 of listAlerts

ASSUME LimitsAssumption == {DefaultLimit, MaxLimit, MaxOffset} \subseteq Nat

\* A parameter that is missing, does not parse or is negative takes the default.
parseIntParam(raw, def, max) ==
  IF raw \notin Nat THEN def ELSE IF raw > max THEN max ELSE raw

\* A parameter left empty is no condition.
Matches(q, a) ==
  /\ q.site_id # "" => SiteOf[a.device_id] = q.site_id
  /\ q.status # "" => a.status = q.status
  /\ q.device_id # "" => a.device_id = q.device_id

Matching(q) == {i \in DOMAIN alerts : Matches(q, alerts[i])}

\* ORDER BY triggered_at DESC: the orders Postgres may return ids in.
NewestFirst(ids) ==
  {s \in Orders(ids) :
     \A j, k \in DOMAIN s : j < k => alerts[s[j]].triggered_at >= alerts[s[k]].triggered_at}

\* LIMIT and OFFSET.
\* (Mutant: the offset counts from one.)
PageFromOne(s, limit, offset) ==
  SubSeq(s, offset + 2, Min({offset + 1 + limit, Len(s)}))

Page(s, limit, offset) == SubSeq(s, offset + 1, Min({offset + limit, Len(s)}))

\* The ids listAlerts may answer with.
listAlerts(q) ==
  LET limit == parseIntParam(q.limit, DefaultLimit, MaxLimit)
      offset == parseIntParam(q.offset, 0, MaxOffset)
  IN  {Page(s, limit, offset) : s \in NewestFirst(Matching(q))}

CutShort(rows) == {SubSeq(rows, 1, n) : n \in 0..(Len(rows) - 1)}

=============================================================================
