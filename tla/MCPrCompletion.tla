----------------------------- MODULE MCPrCompletion -----------------------------
(* PrCompletion on small instances; the values are in the .cfg files.      *)
EXTENDS PrCompletion
=================================================================================
