---------------------------- MODULE TokenBucket -----------------------------
(***************************************************************************)
(* What the API's rate limiter promises: one bucket per client for ever.   *)
(* A bucket starts full and refills with time; a request is served exactly *)
(* when its client's bucket holds the cost of one, and limited otherwise.  *)
(* Nothing here evicts, locks or runs in parallel.                         *)
(***************************************************************************)
EXTENDS Naturals

CONSTANTS Clients,
          Full,      \* content of a full bucket
          Cost,      \* what one request takes
          Rate       \* what one unit of time adds

VARIABLES level, served, limited

bucketVars == <<level, served, limited>>

BucketInit ==
  /\ level = [c \in Clients |-> Full]
  /\ served = [c \in Clients |-> 0]
  /\ limited = [c \in Clients |-> 0]

Refilled(n) == IF n + Rate > Full THEN Full ELSE n + Rate

Refill == /\ level' = [c \in Clients |-> Refilled(level[c])]
          /\ UNCHANGED <<served, limited>>

Serve(c) == /\ level[c] >= Cost
            /\ level' = [level EXCEPT ![c] = @ - Cost]
            /\ served' = [served EXCEPT ![c] = @ + 1]
            /\ UNCHANGED limited

Limit(c) == /\ level[c] < Cost
            /\ limited' = [limited EXCEPT ![c] = @ + 1]
            /\ UNCHANGED <<level, served>>

BucketNext == Refill \/ \E c \in Clients : Serve(c) \/ Limit(c)

BucketSpec == BucketInit /\ [][BucketNext]_bucketVars
=============================================================================
