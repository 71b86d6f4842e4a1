------------------------------- MODULE MCDeploy -------------------------------
(* Revision 1.2 is contained in 1.2.1, as grep -F sees it.                 *)
EXTENDS Deploy

Containing == {<<"1.2.1", "1.2">>}
===============================================================================
