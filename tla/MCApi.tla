------------------------------- MODULE MCApi --------------------------------
(***************************************************************************)
(* An instance of Api for TLC: one rule exists and one more can be made.   *)
(***************************************************************************)
EXTENDS Api, TLC

CONSTANTS d1, r1

OneRule == [r \in RuleIds |->
              IF r = r1 THEN [device_id |-> d1, metric |-> "temperature_c", operator |-> "gt",
                              threshold |-> 0, enabled |-> TRUE]
                        ELSE NoRule]
OneSite == [d \in Devices |-> "site"]

\* A body the schema accepts and one it rejects.
Bodies == {[metric |-> "temperature_c", operator |-> "lt", threshold |-> 1, enabled |-> "omitted"],
           [metric |-> "temperature_c", operator |-> "eq", threshold |-> 1, enabled |-> "false"]}

\* Requests and users are alike.
ApiSymmetry == Permutations(Slots) \cup Permutations(Users)
=============================================================================
