---------------------------- MODULE MCIngestion -----------------------------
(***************************************************************************)
(* Small instances of Ingestion for TLC.  The rules are the two seeded for *)
(* temp-sensor-01: same metric, two thresholds.  Value 0 is normal, 1 is   *)
(* above the warning threshold only, 2 is above both.                      *)
(***************************************************************************)
EXTENDS Ingestion, TLC

CONSTANTS d1, d2, warning, critical

TempRule(threshold) ==
  [device_id |-> d1, metric |-> "temperature_c", operator |-> "gt",
   threshold |-> threshold, enabled |-> TRUE]

OneRule == [r \in RuleIds |-> IF r = warning THEN TempRule(0) ELSE NoRule]
SeededRules == [r \in RuleIds |-> CASE r = warning -> TempRule(0)
                                  []   r = critical -> TempRule(1)
                                  []   OTHER -> NoRule]

TempOf(d, v) == [device_id |-> d, readings |-> [m \in {"temperature_c"} |-> v]]

Temp(v) == TempOf(d1, v)

OnlyD1 == {d1}
TwoLevels == {Temp(0), Temp(2)}
BothDevices == {d1, d2}
TwoDevices == TwoLevels \cup {TempOf(d2, 2)}
MessyPayloads == TwoLevels \cup {Malformed}

\* PATCH bodies: raise the threshold, disable the rule, forget "enabled" and the
\* metric, send an operator the schema rejects.
Edits == {[metric |-> "temperature_c", operator |-> "gt", threshold |-> 1, enabled |-> "omitted"],
          [metric |-> "temperature_c", operator |-> "gt", threshold |-> 0, enabled |-> "false"],
          [metric |-> "", operator |-> "lte", threshold |-> 0, enabled |-> "omitted"],
          [metric |-> "temperature_c", operator |-> "eq", threshold |-> 0, enabled |-> "true"]}

\* Workers run the same code.
WorkerSymmetry == Permutations(Workers)
=============================================================================
