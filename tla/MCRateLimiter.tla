--------------------------- MODULE MCRateLimiter ----------------------------
(***************************************************************************)
(* A small instance of RateLimiter for TLC: two ports of one host share a  *)
(* bucket, and an address that does not split is a client of its own.      *)
(***************************************************************************)
EXTENDS RateLimiter

TwoPorts == {"10.0.0.7:4001", "10.0.0.7:4002", "@"}
Hosts == [r \in {"10.0.0.7:4001", "10.0.0.7:4002"} |-> "10.0.0.7"]
=============================================================================
