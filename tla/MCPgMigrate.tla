----------------------------- MODULE MCPgMigrate -----------------------------
(* Two releases of one service, of which the new one fills in version 2, a *)
(* fork that gave that number to another migration, and a list in the      *)
(* wrong order, all migrating the same database.                           *)
EXTENDS PgMigrate

M(version, name) == [version |-> version, name |-> name]

MCList == [old  |-> <<M(1, "a"), M(3, "c")>>,
           new  |-> <<M(1, "a"), M(2, "b"), M(3, "c")>>,
           fork |-> <<M(1, "a"), M(2, "x")>>,
           bad  |-> <<M(2, "b"), M(1, "a")>>]

MCWaiver == [old |-> "no", new |-> "no", fork |-> "reason", bad |-> "reason"]
=============================================================================
