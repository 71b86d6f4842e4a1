-------------------------------- MODULE Release ---------------------------------
(***************************************************************************)
(* A release from end to end: the artifact directory of Manifest is sealed *)
(* by the pipeline, and the runs of Deploy verify it (VERIFY_COMMAND calls *)
(* VerifyAny), copy it file by file and install the copy.                  *)
(*                                                                         *)
(* The two meet in deploy.sh: a run goes on if the verification succeeded  *)
(* (line 28), and cp reads the directory again (line 59).                  *)
(***************************************************************************)
EXTENDS Deploy

CONSTANTS
    Paths, Mangled, Contents, Sealers, Keys, KeyOf, Trusted, MaxWrites,
    MaxIOFaults   \* bound of the model: calls of Seal and VerifyAny cut short

VARIABLES
    dir, mf, sig, seal, ver, signed, sealed, writes, ioFaults,
    copy,         \* what each run has put into its staging directory
    tree          \* the payload of each release directory

M == INSTANCE Manifest WITH Verifiers <- Runs, MaxFaults <- MaxIOFaults, faults <- ioFaults

ASSUME ReleaseAssumption == M!ArtifactAssumption

pipeline == <<dir, mf, sig, seal, ver, signed, sealed, writes, ioFaults>>
releaseVars == <<pipeline, vars, copy, tree>>

(* steady: nobody changed the artifact from the start of its verification  *)
(* to the end of the copy.                                                 *)
Tree == [rest : SUBSET Paths,
         files : SUBSET [path : Paths, content : Contents \cup {M!Link}], steady : BOOLEAN]
Nothing == [rest |-> {}, files |-> {}, steady |-> FALSE]

ReleaseInit ==
    /\ M!Init /\ Init
    /\ copy = [d \in Runs |-> Nothing]
    /\ tree = [r \in Revisions |-> Nothing]

Busy(d) == Active(d) \/ (At(d, "idle") /\ ver[d].pc # "idle")
-------------------------------------------------------------------------------
Pipeline ==
    /\ \/ \E s \in Sealers : M!Seal(s)
       \/ M!Build \/ M!Transport
    /\ UNCHANGED <<vars, copy, tree>>

(* "$verify_command" "$artifact_dir", before anything else.                *)
Verify(d) ==
    /\ At(d, "idle")
    /\ serial => \A e \in Runs \ {d} : ~Busy(e)
    /\ M!VerifyAny(d)
    /\ UNCHANGED <<vars, copy, tree>>

(* Seeded fault: the script goes on whatever the verification said.        *)
Proceeds_Anyway(d) == ver[d].pc \in {"accepted", "refused", "failed"}

(* set -e.                                                                 *)
Proceeds(d) == ver[d].pc = "accepted"

StartVerified(d) ==
    /\ ver[d].pc \in {"accepted", "refused", "failed"}
    /\ Start(d)
    /\ run'[d].pc = "check" => Proceeds(d)
    /\ UNCHANGED <<pipeline, copy, tree>>

(* mktemp -d; cp then lists the directory it is given.                     *)
StageCopy(d) ==
    /\ Stage(d)
    /\ copy' = [copy EXCEPT ![d] = [rest |-> M!Listed, files |-> {}, steady |-> FALSE]]
    /\ UNCHANGED <<pipeline, tree>>

(* cp comes to a file; one that vanished makes it fail (EndCopy).          *)
CopyFile(d) ==
    /\ At(d, "copy")
    /\ \E p \in copy[d].rest :
          /\ dir[p] # M!Absent
          /\ copy' = [copy EXCEPT ![d].rest = @ \ {p}, ![d].files = M!Collected(@, p)]
    /\ UNCHANGED <<pipeline, vars, tree>>

EndCopy(d) ==
    /\ Copy(d)
    /\ run'[d].pc = "install" => copy[d].rest = {}
    /\ copy' = [copy EXCEPT ![d].steady = ver[d].steady]
    /\ UNCHANGED <<pipeline, tree>>

InstallCopy(d) ==
    /\ Install(d)
    /\ tree' = IF release' # release /\ ~Exists(rev[d])
               THEN [tree EXCEPT ![rev[d]] = copy[d]] ELSE tree
    /\ UNCHANGED <<pipeline, copy>>

Others(d) ==
    /\ \/ Check(d) \/ ReadCurrent(d) \/ Link(d) \/ Rename(d) \/ Restart(d)
       \/ Health(d) \/ Back(d) \/ Relink(d) \/ Restore(d) \/ Kill(d)
    /\ UNCHANGED <<pipeline, copy, tree>>

RespawnUnit == Respawn /\ UNCHANGED <<pipeline, copy, tree>>

ReleaseNext ==
    \/ Pipeline \/ RespawnUnit
    \/ \E d \in Runs :
          \/ Verify(d) \/ StartVerified(d) \/ StageCopy(d) \/ CopyFile(d) \/ EndCopy(d)
          \/ InstallCopy(d) \/ Others(d)

ReleaseSpec == ReleaseInit /\ [][ReleaseNext]_releaseVars
-------------------------------------------------------------------------------
ReleaseTypeOK ==
    /\ M!TypeOK /\ TypeOK
    /\ copy \in [Runs -> Tree]
    /\ tree \in [Revisions -> Tree]

(* What was sealed undisturbed, and not touched since, is never refused    *)
(* (Manifest).                                                             *)
SealThenVerify == M!SealThenVerify

(* What a run of deploy.sh put into place is, file for file, what one      *)
(* trusted signer saw, even when the artifact directory has moved on to    *)
(* another release since; unless it changed between the start of that      *)
(* run's verification and the end of its copy, or an overlapping run of    *)
(* the same revision moved its own copy inside (verify_command, cp, mv).   *)
InstalledAsSigned ==
    \A r \in Revisions :
        release[r].by \in Runs /\ release[r].inside = {} /\ tree[r].steady =>
            \E m \in signed : KeyOf[m.by] \in Trusted /\ m.files = tree[r].files
===============================================================================
