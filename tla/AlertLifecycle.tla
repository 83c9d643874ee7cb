--------------------------- MODULE AlertLifecycle ---------------------------
(***************************************************************************)
(* What the system promises about the life of an alert, whoever writes to  *)
(* the table and in whatever order: an alert is raised open, may be        *)
(* acknowledged once by a person, and is closed once, by a person or by    *)
(* the engine; closed is final.  The engine closes all active alerts of a  *)
(* rule together and signs none of them.                                   *)
(***************************************************************************)
EXTENDS Integers, Sequences

CONSTANTS Rules, People, Nobody

VARIABLE log   \* alerts in the order they were raised

Raised(r) == [rule |-> r, status |-> "open", acknowledged_by |-> Nobody,
              resolved_by |-> Nobody]

Start == log = <<>>

Raise(r) == log' = Append(log, Raised(r))

AcknowledgedBy(i, p) ==
  /\ log[i].status = "open"
  /\ log' = [log EXCEPT ![i].status = "acknowledged", ![i].acknowledged_by = p]

ResolvedBy(i, p) ==
  /\ log[i].status # "resolved"
  /\ log' = [log EXCEPT ![i].status = "resolved", ![i].resolved_by = p]

ClearedByEngine(r) ==
  log' = [i \in DOMAIN log |-> IF log[i].rule = r /\ log[i].status # "resolved"
                                 THEN [log[i] EXCEPT !.status = "resolved"]
                                 ELSE log[i]]

Step ==
  \/ \E r \in Rules : Raise(r) \/ ClearedByEngine(r)
  \/ \E i \in DOMAIN log, p \in People : AcknowledgedBy(i, p) \/ ResolvedBy(i, p)

LifecycleSpec == Start /\ [][Step]_log
=============================================================================
