------------------------------- MODULE MCRelease -------------------------------
(* The key of the pipeline and a key that is not trusted; one deployment,  *)
(* which finds a release in service.                                       *)
EXTENDS Release

Signs == [ci |-> "new", laptop |-> "own"]
Distinct == {}
Deployed == ReleaseInit /\ serial /\ current = First
OneRun == Deployed /\ [][ReleaseNext]_releaseVars
================================================================================
