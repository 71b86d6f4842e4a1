-------------------------------- MODULE Deploy --------------------------------
(***************************************************************************)
(* packaging/scripts/deploy.sh: runs of the script that install a release  *)
(* directory, swap the current link to it, restart the systemd unit and    *)
(* roll back unless the health endpoint reports the revision.              *)
(*                                                                         *)
(* Nothing in the script locks RELEASE_ROOT: runs interleave command by    *)
(* command, and one may be killed between any two.  External: the verify   *)
(* command, the file system (mv of a directory onto an existing one moves  *)
(* it inside), systemd, which restarts a unit that dies, and the service.  *)
(***************************************************************************)
EXTENDS Integers, FiniteSets

CONSTANTS
    Runs,             \* runs of deploy.sh
    Revisions,        \* values of EXPECTED_REVISION
    First,            \* the release that is current at first
    Alike,            \* <<s, r>>: the health body of release s contains the text r
    HealthAttempts,   \* HEALTH_ATTEMPTS
    MaxFaults         \* bound of the model: commands that fail, kills

None == "none"

ASSUME DeployAssumption ==
    /\ Runs # {} /\ First \in Revisions /\ None \notin Runs \cup Revisions
    /\ Alike \subseteq Revisions \X Revisions
    /\ HealthAttempts \in Nat /\ MaxFaults \in Nat

VARIABLES
    rev,        \* EXPECTED_REVISION of each run
    serial,     \* whether the pipeline lets one run at a time go on
    release,    \* $release_root/releases: revision -> who put it there, and
                \* the staging directories that ended up inside it
    current,    \* target of CURRENT_LINK, None if there is no link
    service,    \* the release the unit runs, None while it is down
    run,        \* the shell variables of each run: see Shell
    faults

vars == <<rev, serial, release, current, service, run, faults>>

Release == [by : Runs \cup {First, None}, inside : SUBSET Runs]
Absent == [by |-> None, inside |-> {}]
Exists(r) == release[r].by # None

(* next is what the temporary link points to; ok is FALSE once a rollback  *)
(* could not restore the current link.                                     *)
Shell == [pc : {"idle", "check", "read", "stage", "copy", "install", "link", "rename",
                "restart", "health", "back", "relink", "restore", "exit", "dead"},
          previous : Revisions \cup {None}, staging : BOOLEAN,
          next : Revisions \cup {None}, attempt : Nat, ok : BOOLEAN,
          out : {"unfinished", "refused", "deployed", "rolled back", "incomplete"}]

Fresh == [pc |-> "idle", previous |-> None, staging |-> FALSE, next |-> None,
          attempt |-> 1, ok |-> TRUE, out |-> "unfinished"]

Init ==
    /\ rev \in [Runs -> Revisions \ {First}]
    /\ serial \in BOOLEAN
    /\ current \in {First, None}
    /\ service = current
    /\ release = [r \in Revisions |->
                     IF r = current THEN [by |-> First, inside |-> {}] ELSE Absent]
    /\ run = [d \in Runs |-> Fresh]
    /\ faults = 0

Set(d, shell) == run' = [run EXCEPT ![d] = shell]
Goto(d, pc) == run' = [run EXCEPT ![d].pc = pc]
At(d, pc) == run[d].pc = pc
Active(d) == run[d].pc \notin {"idle", "exit", "dead"}
Fault == faults < MaxFaults /\ faults' = faults + 1

(* The EXIT trap.  A rename that failed inside rollback has left its link: *)
(* next_link, by which the trap goes, was emptied all the same.            *)
Cleaned(shell) ==
    [shell EXCEPT !.staging = FALSE, !.next = IF shell.ok THEN None ELSE @]

Exit(d, out) == Set(d, [Cleaned(run[d]) EXCEPT !.pc = "exit", !.out = out])

-------------------------------------------------------------------------------
(* The arguments and VERIFY_COMMAND, before anything is touched.           *)
Start(d) ==
    /\ At(d, "idle")
    /\ serial => \A e \in Runs : ~Active(e)
    /\ \/ Goto(d, "check") /\ UNCHANGED faults
       \/ Fault /\ Exit(d, "refused")
    /\ UNCHANGED <<rev, serial, release, current, service>>

Check(d) ==
    /\ At(d, "check")
    /\ IF Exists(rev[d]) THEN Exit(d, "refused") ELSE Goto(d, "read")
    /\ UNCHANGED <<rev, serial, release, current, service, faults>>

(* previous is read once, here.                                            *)
ReadCurrent(d) ==
    /\ At(d, "read")
    /\ Set(d, [run[d] EXCEPT !.pc = "stage", !.previous = current])
    /\ UNCHANGED <<rev, serial, release, current, service, faults>>

Stage(d) ==
    /\ At(d, "stage")
    /\ \/ Set(d, [run[d] EXCEPT !.pc = "copy", !.staging = TRUE]) /\ UNCHANGED faults
       \/ Fault /\ Exit(d, "refused")
    /\ UNCHANGED <<rev, serial, release, current, service>>

(* cp, the search for writable paths, chmod.                               *)
Copy(d) ==
    /\ At(d, "copy")
    /\ \/ Goto(d, "install") /\ UNCHANGED faults
       \/ Fault /\ Exit(d, "refused")
    /\ UNCHANGED <<rev, serial, release, current, service>>

(* mv "$staging" "$release": the existence test is several commands old.   *)
Moved(d) == IF Exists(rev[d]) THEN [release[rev[d]] EXCEPT !.inside = @ \cup {d}]
                              ELSE [by |-> d, inside |-> {}]

Install(d) ==
    /\ At(d, "install")
    /\ \/ /\ release' = [release EXCEPT ![rev[d]] = Moved(d)]
          /\ Set(d, [run[d] EXCEPT !.pc = "link", !.staging = FALSE])
          /\ UNCHANGED faults
       \/ Fault /\ Exit(d, "refused") /\ UNCHANGED release
    /\ UNCHANGED <<rev, serial, current, service>>

-------------------------------------------------------------------------------
(* swap_current "$release": ln -s, then an atomic rename over the link.    *)
Link(d) ==
    /\ At(d, "link")
    /\ \/ Set(d, [run[d] EXCEPT !.pc = "rename", !.next = rev[d]]) /\ UNCHANGED faults
       \/ Fault /\ Exit(d, "refused")
    /\ UNCHANGED <<rev, serial, release, current, service>>

Rename(d) ==
    /\ At(d, "rename")
    /\ \/ /\ current' = run[d].next
          /\ Set(d, [run[d] EXCEPT !.pc = "restart", !.next = None])
          /\ UNCHANGED faults
       \/ Fault /\ Exit(d, "refused") /\ UNCHANGED current
    /\ UNCHANGED <<rev, serial, release, service>>

(* systemctl restart starts what the link names at that moment; when it    *)
(* fails, the unit is down or still the old one.                           *)
RestartFails == Fault /\ service' \in {service, None}

Restart(d) ==
    /\ At(d, "restart")
    /\ \/ service' = current /\ Goto(d, "health") /\ UNCHANGED faults
       \/ RestartFails /\ Goto(d, "back")
    /\ UNCHANGED <<rev, serial, release, current>>

Attempts(d) == run[d].attempt + 1

(* The body of a running release contains its own revision, and that of    *)
(* any release whose name it happens to contain.                           *)
Reports(d) == service = rev[d] \/ <<service, rev[d]>> \in Alike

(* One probe: a body that names the revision ends the run well; anything   *)
(* else may come from any release, healthy or not.                         *)
Health(d) ==
    /\ At(d, "health")
    /\ \/ run[d].attempt <= HealthAttempts /\ Reports(d) /\ Exit(d, "deployed")
       \/ run[d].attempt < HealthAttempts
            /\ Set(d, [run[d] EXCEPT !.attempt = Attempts(d)])
       \/ run[d].attempt >= HealthAttempts /\ Goto(d, "back")
    /\ UNCHANGED <<rev, serial, release, current, service, faults>>

-------------------------------------------------------------------------------
(* Seeded fault: rollback links the release that has just failed.          *)
Target_Failed(d) == rev[d]

Target(d) == run[d].previous

(* rollback || true: errexit is off inside, so a command that fails is     *)
(* passed over.                                                            *)
Back(d) ==
    /\ At(d, "back")
    /\ \/ /\ run[d].previous # None
          /\ Set(d, [run[d] EXCEPT !.pc = "relink", !.next = Target(d)])
          /\ UNCHANGED <<current, faults>>
       \/ /\ run[d].previous = None
          /\ current' = None
          /\ Goto(d, "restore")
          /\ UNCHANGED faults
       \/ /\ Fault
          /\ Set(d, [run[d] EXCEPT !.pc = "restore", !.ok = FALSE])
          /\ UNCHANGED current
    /\ UNCHANGED <<rev, serial, release, service>>

Relink(d) ==
    /\ At(d, "relink")
    /\ \/ /\ current' = run[d].next
          /\ Set(d, [run[d] EXCEPT !.pc = "restore", !.next = None])
          /\ UNCHANGED faults
       \/ /\ Fault
          /\ Set(d, [run[d] EXCEPT !.pc = "restore", !.ok = FALSE])
          /\ UNCHANGED current
    /\ UNCHANGED <<rev, serial, release, service>>

(* Seeded fault: the failed release is deleted on the way out.             *)
Kept_Deleted(d) == [release EXCEPT ![rev[d]] = Absent]

Kept(d) == release

(* Seeded fault: the unit is left as it is when the link is back.          *)
Restored_NoRestart == service

Restored == current

Restore(d) ==
    /\ At(d, "restore")
    /\ \/ service' = Restored /\ Exit(d, "rolled back") /\ UNCHANGED faults
       \/ RestartFails /\ Exit(d, "incomplete")
    /\ release' = Kept(d)
    /\ UNCHANGED <<rev, serial, current>>

-------------------------------------------------------------------------------
(* A run that is killed runs no trap.                                      *)
Kill(d) ==
    /\ Active(d)
    /\ Fault
    /\ Goto(d, "dead")
    /\ UNCHANGED <<rev, serial, release, current, service>>

(* Restart=always: the unit dies and is started again from the link.       *)
Respawn ==
    /\ service' \in {current, None}
    /\ service' # service
    /\ UNCHANGED <<rev, serial, release, current, run, faults>>

Proceed(d) ==
    \/ Check(d) \/ ReadCurrent(d) \/ Stage(d) \/ Copy(d) \/ Install(d) \/ Link(d)
    \/ Rename(d) \/ Restart(d) \/ Health(d) \/ Back(d) \/ Relink(d) \/ Restore(d)

Next ==
    \/ \E d \in Runs : Start(d) \/ Proceed(d) \/ Kill(d)
    \/ Respawn

Spec == Init /\ [][Next]_vars

-------------------------------------------------------------------------------
TypeOK ==
    /\ rev \in [Runs -> Revisions]
    /\ serial \in BOOLEAN
    /\ release \in [Revisions -> Release]
    /\ current \in Revisions \cup {None}
    /\ service \in Revisions \cup {None}
    /\ run \in [Runs -> Shell]
    /\ faults \in Nat

(* The link never names a release that is not there, and neither the link  *)
(* a run is about to put in place nor the one it may go back to does,      *)
(* however runs overlap or die (swap_current, rollback).                   *)
LinkResolves ==
    /\ current # None => Exists(current)
    /\ \A d \in Runs : \A r \in {run[d].previous, run[d].next} \ {None} : Exists(r)

(* When every run has reported a result other than ROLLBACK INCOMPLETE,    *)
(* the unit is down or runs what the link names: a swap is never left      *)
(* without the restart that follows it (the order of swap_current and      *)
(* systemctl restart, also in rollback).                                   *)
RestServesCurrent ==
    (\A d \in Runs : run[d].out \in {"refused", "deployed", "rolled back"})
        => service \in {current, None}

(* One run at a time: when all have ended by themselves, the link names a  *)
(* release whose run said so or, if none did, exactly what it named at     *)
(* first (First, unless there was no release at all), provided that every  *)
(* rollback could move it (previous, rollback).                            *)
SerialOutcome ==
    serial /\ (\A d \in Runs : At(d, "exit") /\ run[d].ok) =>
        LET deployed == {rev[d] : d \in {e \in Runs : run[e].out = "deployed"}}
            began == IF Exists(First) THEN First ELSE None
        IN  current \in IF deployed = {} THEN {began} ELSE deployed
===============================================================================
