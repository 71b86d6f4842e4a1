---------------------------- MODULE MCFulcrumRetry -----------------------------
(* A writer with a batch of a create and an update, and a second writer    *)
(* that updates the same task.                                             *)
EXTENDS FulcrumRetry

OwnerOf == [create |-> "golemd", complete |-> "golemd", edit |-> "web"]
================================================================================
