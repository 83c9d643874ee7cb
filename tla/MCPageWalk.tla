----------------------------- MODULE MCPageWalk -----------------------------
(***************************************************************************)
(* An instance of PageWalk for TLC: one device, pages of one alert or two, *)
(* parameters missing, negative and beyond their maximum.                  *)
(***************************************************************************)
EXTENDS PageWalk

CONSTANTS d1, site, missing

Rules == [r \in RuleIds |-> [device_id |-> d1, metric |-> "temperature_c", operator |-> "gt",
                             threshold |-> 0, enabled |-> TRUE]]
NoInputs == {}
OneSite == [d \in Devices |-> site]

Query(status, limit) == [site_id |-> site, status |-> status, device_id |-> d1,
                         limit |-> limit, offset |-> 0]
SmallWalks == {Query("", 9), Query("open", missing)}

Window(from, to, limit) == [device_id |-> d1, from |-> from, to |-> to, limit |-> limit]
SmallWindows == {Window(missing, missing, 1), Window(1, missing, 0), Window(0, 1, missing),
                 Window(missing, 1, 9)}
=============================================================================
