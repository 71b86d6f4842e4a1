------------------------------ MODULE MCAuthKeys ------------------------------
(* A token of each of two keys, one of which expires within the run.       *)
EXTENDS AuthKeys

CONSTANTS k1, k2

TokenSet == { [kid |-> k1, exp |-> 9], [kid |-> k2, exp |-> 1] }
===============================================================================
