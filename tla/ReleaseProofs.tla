------------------------------ MODULE ReleaseProofs ------------------------------
(***************************************************************************)
(* Deploy, Manifest and Release, for any number of runs, revisions, paths, *)
(* sealers, keys, writes and faults.                                       *)
(*                                                                         *)
(* Deploy.  A release is never taken away (Links); whoever has moved the   *)
(* link still owes a restart (Owed); and a run that is alone knows the     *)
(* link it found and the one it has put in its place (Alone, Chains).      *)
(*                                                                         *)
(* Manifest.  A signature is of a manifest that was signed (Signatures),   *)
(* an undisturbed Seal wrote what it read (Seals, Holds), and a VerifyAny  *)
(* that got past the signature holds the manifest of a trusted signer and  *)
(* the files it has collected so far (Checks).                             *)
(*                                                                         *)
(* Release refines both, so that both invariants hold in it, and a run     *)
(* that copies is between the two (Copies).                                *)
(***************************************************************************)
EXTENDS Release, WellFoundedInduction, TLAPS

Links == LinkResolves /\ \A d \in Runs : At(d, "link") => Exists(rev[d])

Unfinished == \A d \in Runs : ~At(d, "exit") => run[d].out = "unfinished"

Owing(shell) ==
    \/ shell.out = "incomplete"
    \/ /\ shell.out = "unfinished"
       /\ shell.pc \in {"restart", "back", "relink", "restore", "dead"}

Owed == service \in {current, None} \/ \E d \in Runs : Owing(run[d])

Alone == serial => \A d, e \in Runs : Active(d) /\ Active(e) => d = e

Deployed == {rev[d] : d \in {e \in Runs : run[e].out = "deployed"}}
(* No run is for First: it is there from the beginning or never.           *)
Foreign == \A d \in Runs : rev[d] # First
Began == IF Exists(First) THEN First ELSE None
Good == IF Deployed = {} THEN {Began} ELSE Deployed

(* What a run that is alone knows of the link cur, as long as every        *)
(* rollback so far could move it; good is what the link may name at rest.  *)
Chain(shell, r, cur, good) ==
    /\ shell.pc \notin {"restart", "health", "back", "relink", "restore"} => cur \in good
    /\ shell.pc \in {"stage", "copy", "install", "link", "rename", "restart", "health",
                    "back", "relink", "restore"} => shell.previous \in good
    /\ shell.pc = "rename" => shell.next = r
    /\ shell.pc \in {"restart", "health"} => cur = r
    /\ shell.pc = "relink" => shell.next = shell.previous
    /\ shell.pc = "restore" => cur = shell.previous

Clean == \A d \in Runs : ~At(d, "dead") /\ run[d].ok

Chains ==
    serial /\ Clean => \A d \in Runs : (\A e \in Runs \ {d} : ~Active(e)) =>
        Chain(run[d], rev[d], current, Good)

IInv == TypeOK /\ Links /\ Unfinished /\ Owed /\ Alone /\ Foreign /\ Chains
-------------------------------------------------------------------------------
LEMMA InitInv == Init => IInv
<1> SUFFICES ASSUME Init PROVE IInv
  OBVIOUS
<1> USE DeployAssumption DEF Init
<1>1. Fresh \in Shell /\ Fresh.pc = "idle" /\ Fresh.previous = None /\ Fresh.next = None
      /\ Fresh.ok /\ Fresh.out = "unfinished"
  BY DEF Fresh, Shell
<1>2. \A d \in Runs : run[d] = Fresh
  OBVIOUS
<1>3. TypeOK
  <2>1. run \in [Runs -> Shell]
    BY <1>1
  <2>2. {} \in SUBSET Runs
    OBVIOUS
  <2>3. release \in [Revisions -> Release]
    BY <2>2 DEF Release, Absent
  <2> QED BY <2>1, <2>3 DEF TypeOK
<1>4. Links
  <2>1. current # None => Exists(current)
    BY DEF Exists
  <2> QED BY <1>1, <1>2, <2>1 DEF Links, LinkResolves, At
<1>5. Unfinished /\ Owed /\ Alone
  BY <1>1, <1>2 DEF Unfinished, Owed, Alone, Active, At
<1>6. Foreign
  BY DEF Foreign
<1>7. Chains
  <2>1. Deployed = {}
    BY <1>1, <1>2 DEF Deployed
  <2>2. current = Began
    BY DEF Began, Exists, Absent
  <2>3. current \in Good
    BY <2>1, <2>2 DEF Good
  <2> QED BY <1>1, <1>2, <2>3 DEF Chains, Chain
<1> QED BY <1>3, <1>4, <1>5, <1>6, <1>7 DEF IInv

LEMMA ShellType ==
  ASSUME TypeOK, NEW d \in Runs
  PROVE  /\ run[d] \in Shell /\ rev[d] \in Revisions
         /\ run[d].previous \in Revisions \cup {None} /\ run[d].next \in Revisions \cup {None}
         /\ run[d].attempt \in Nat
<1>1. run[d] \in Shell /\ rev[d] \in Revisions
  BY DEF TypeOK
<1> QED BY <1>1 DEF Shell

(* The parts of a step of run d, which gives it the shell s.  One lemma    *)
(* for each part of the invariant; what each action has to show is what    *)
(* these ask for.                                                          *)
Turn(d, s) ==
    /\ s \in Shell /\ run' = [run EXCEPT ![d] = s]
    /\ rev' = rev /\ serial' = serial /\ faults' \in Nat
    /\ ~At(d, "exit") /\ ~At(d, "dead")
    /\ s.pc # "exit" => s.out = "unfinished"
    /\ s.pc # "idle"
    /\ serial /\ At(d, "idle") => \A e \in Runs : ~Active(e)

Stands(d, s) ==
    /\ release' \in [Revisions -> Release] /\ current' \in Revisions \cup {None}
    /\ \A r \in Revisions : Exists(r) => release'[r].by # None
    /\ release'[First] = release[First]
    /\ \A r \in {current', s.previous, s.next} \ {None} :
          r \in {current, run[d].previous, run[d].next} \/ release'[r].by # None
    /\ s.pc = "link" => release'[rev[d]].by # None

Pays(d, s) ==
    /\ service' \in Revisions \cup {None}
    /\ \/ service' \in {current', None}
       \/ Owing(s)
       \/ current' = current /\ service' = service /\ ~Owing(run[d])

Follows(d, s) ==
    s.ok /\ s.pc # "dead" =>
        /\ run[d].ok
        /\ s.out # "deployed" /\ Chain(run[d], rev[d], current, Good)
              => Chain(s, rev[d], current', Good)
        /\ s.out = "deployed" /\ Chain(run[d], rev[d], current, Good)
              => s.pc = "exit" /\ current' = rev[d]

LEMMA TurnTypes ==
  ASSUME IInv, NEW d \in Runs, NEW s, Turn(d, s), Stands(d, s), Pays(d, s)
  PROVE  /\ TypeOK' /\ Unfinished'
         /\ run'[d] = s /\ \A e \in Runs \ {d} : run'[e] = run[e]
<1>1. run'[d] = s /\ \A e \in Runs \ {d} : run'[e] = run[e]
  BY DEF IInv, TypeOK, Turn
<1>2. TypeOK'
  BY DEF IInv, TypeOK, Turn, Stands, Pays
<1>3. Unfinished'
  BY <1>1 DEF IInv, Unfinished, At, Turn
<1> QED BY <1>1, <1>2, <1>3

LEMMA TurnLinks ==
  ASSUME IInv, NEW d \in Runs, NEW s, Turn(d, s), Stands(d, s), Pays(d, s)
  PROVE  Links'
<1>1. run'[d] = s /\ \A e \in Runs \ {d} : run'[e] = run[e]
  BY TurnTypes
<1>2. /\ rev' = rev /\ rev \in [Runs -> Revisions]
      /\ current \in Revisions \cup {None}
      /\ run[d].previous \in Revisions \cup {None} /\ run[d].next \in Revisions \cup {None}
  BY ShellType DEF Turn, IInv, TypeOK
<1>3. \A r \in Revisions : Exists(r) => release'[r].by # None
  BY DEF Stands
<1>4. \A r \in {current', s.previous, s.next} \ {None} : release'[r].by # None
  BY <1>2, <1>3 DEF Stands, IInv, Links, LinkResolves
<1>5. ASSUME NEW e \in Runs, e # d, NEW r \in {run[e].previous, run[e].next} \ {None}
      PROVE  release'[r].by # None
  <2>1. r \in Revisions /\ Exists(r)
    BY <1>5, ShellType DEF IInv, Links, LinkResolves
  <2> QED BY <1>3, <2>1
<1>6. LinkResolves'
  BY <1>1, <1>4, <1>5 DEF LinkResolves, Exists
<1>7. ASSUME NEW e \in Runs, At(e, "link")' PROVE Exists(rev[e])'
  <2>1. CASE e = d
    BY <1>1, <1>2, <1>7, <2>1 DEF At, Exists, Stands
  <2>2. CASE e # d
    BY <1>1, <1>2, <1>3, <1>7, <2>2 DEF At, Exists, IInv, Links
  <2> QED BY <2>1, <2>2
<1> QED BY <1>2, <1>6, <1>7 DEF Links

LEMMA TurnOwed ==
  ASSUME IInv, NEW d \in Runs, NEW s, Turn(d, s), Stands(d, s), Pays(d, s)
  PROVE  Owed'
<1>1. run'[d] = s /\ \A e \in Runs \ {d} : run'[e] = run[e]
  BY TurnTypes
<1>2. CASE service' \in {current', None}
  BY <1>2 DEF Owed
<1>3. CASE Owing(s)
  BY <1>1, <1>3 DEF Owed
<1>4. CASE current' = current /\ service' = service /\ ~Owing(run[d])
  <2>1. CASE service \in {current, None}
    BY <1>4, <2>1 DEF Owed
  <2>2. ASSUME NEW e \in Runs, Owing(run[e]) PROVE Owed'
    <3>1. e # d
      BY <1>4, <2>2
    <3>2. Owing(run'[e])
      BY <1>1, <2>2, <3>1
    <3> QED BY <3>2 DEF Owed
  <2> QED BY <2>1, <2>2 DEF IInv, Owed
<1> QED BY <1>2, <1>3, <1>4 DEF Pays
LEMMA TurnAlone ==
  ASSUME IInv, NEW d \in Runs, NEW s, Turn(d, s), Stands(d, s), Pays(d, s)
  PROVE  Alone' /\ (serial => \A e \in Runs \ {d} : ~Active(e) /\ ~Active(e)')
<1>1. run'[d] = s /\ \A e \in Runs \ {d} : run'[e] = run[e]
  BY TurnTypes
<1>2. serial' = serial
  BY DEF Turn
<1>3. ASSUME serial, NEW e \in Runs, e # d PROVE ~Active(e)
  <2>1. CASE At(d, "idle")
    BY <1>3, <2>1 DEF Turn
  <2>2. CASE ~At(d, "idle")
    <3>1. Active(d)
      BY <2>2 DEF Active, At, Turn
    <3> QED BY <1>3, <3>1 DEF IInv, Alone
  <2> QED BY <2>1, <2>2
<1>4. ASSUME serial, NEW e \in Runs, e # d PROVE ~Active(e)'
  BY <1>1, <1>3, <1>4 DEF Active
<1> QED BY <1>2, <1>3, <1>4 DEF Alone

(* A run that has not reported changes nothing of what others report.      *)
LEMMA GoodSame ==
  ASSUME IInv, NEW d \in Runs, NEW s, Turn(d, s), Stands(d, s), Pays(d, s), s.out # "deployed"
  PROVE  Good' = Good
<1>1. run'[d] = s /\ \A e \in Runs \ {d} : run'[e] = run[e]
  BY TurnTypes
<1>2. rev' = rev /\ run[d].out = "unfinished"
  BY DEF Turn, IInv, Unfinished
<1>3. \A e \in Runs : run'[e].out = "deployed" <=> run[e].out = "deployed"
  BY <1>1, <1>2
<1>4. Deployed' = Deployed
  BY <1>2, <1>3 DEF Deployed
<1>5. Began' = Began
  BY DEF Stands, Began, Exists
<1> QED BY <1>4, <1>5 DEF Good

LEMMA TurnChains ==
  ASSUME IInv, NEW d \in Runs, NEW s, Turn(d, s), Stands(d, s), Pays(d, s), Follows(d, s)
  PROVE  Chains'
<1> SUFFICES ASSUME serial', Clean', NEW e \in Runs, (\A f \in Runs \ {e} : ~Active(f))'
             PROVE  Chain(run[e], rev[e], current, Good)'
  BY DEF Chains
<1>1. run'[d] = s /\ \A f \in Runs \ {d} : run'[f] = run[f]
  BY TurnTypes
<1>2. serial /\ rev' = rev
  BY DEF Turn
<1>3. \A f \in Runs \ {d} : ~Active(f)
  BY <1>2, TurnAlone
<1>4. s.ok /\ s.pc # "dead"
  BY <1>1 DEF Clean, At
<1>5. Clean
  BY <1>1, <1>4 DEF Clean, At, Turn, Follows
<1>6. Chain(run[d], rev[d], current, Good)
  BY <1>2, <1>3, <1>5 DEF IInv, Chains
<1>7. Chain(s, rev[d], current', Good')
  <2>1. CASE s.out # "deployed"
    BY <1>4, <1>6, <2>1, GoodSame DEF Follows
  <2>2. CASE s.out = "deployed"
    <3>1. s.pc = "exit" /\ current' = rev[d]
      BY <1>4, <1>6, <2>2 DEF Follows
    <3>2. rev[d] \in Deployed'
      BY <1>1, <1>2, <2>2 DEF Deployed
    <3>3. current' \in Good'
      BY <3>1, <3>2 DEF Good
    <3> QED BY <3>1, <3>3 DEF Chain
  <2> QED BY <2>1, <2>2
<1>8. CASE e = d
  BY <1>1, <1>2, <1>7, <1>8
<1>9. CASE e # d
  <2>1. ~Active(e)' /\ ~Active(d)'
    BY <1>2, <1>9, TurnAlone
  <2>2. s.pc = "exit"
    BY <1>1, <1>4, <2>1 DEF Active, Turn
  <2>3. current' \in Good'
    BY <1>7, <2>2 DEF Chain
  <2>4. run'[e].pc \in {"idle", "exit", "dead"}
    BY <2>1 DEF Active
  <2> QED BY <2>3, <2>4 DEF Chain
<1> QED BY <1>8, <1>9

LEMMA TurnInv ==
  ASSUME IInv, NEW d \in Runs, NEW s, Turn(d, s), Stands(d, s), Pays(d, s), Follows(d, s)
  PROVE  IInv'
<1>1. Foreign'
  BY DEF IInv, Foreign, Turn
<1> QED BY <1>1, TurnTypes, TurnLinks, TurnOwed, TurnAlone, TurnChains DEF IInv
-------------------------------------------------------------------------------
LEMMA ExitShell ==
  ASSUME IInv, NEW d \in Runs, NEW out \in {"refused", "deployed", "rolled back", "incomplete"},
         Exit(d, out)
  PROVE  \E s \in Shell :
            /\ run' = [run EXCEPT ![d] = s]
            /\ s.pc = "exit" /\ s.out = out /\ s.previous = run[d].previous
            /\ s.next \in {None, run[d].next} /\ s.ok = run[d].ok
<1> DEFINE b == Cleaned(run[d])
<1> DEFINE s == [b EXCEPT !.pc = "exit", !.out = out]
<1>1. run[d] \in Shell
  BY ShellType DEF IInv
<1>2. /\ b \in Shell /\ b.previous = run[d].previous /\ b.next \in {None, run[d].next}
      /\ b.ok = run[d].ok
  BY <1>1 DEF Cleaned, Shell
<1>3. run' = [run EXCEPT ![d] = s]
  BY DEF Exit, Set
<1> HIDE DEF b
<1>4. /\ s \in Shell /\ s.pc = "exit" /\ s.out = out /\ s.previous = b.previous
      /\ s.next = b.next /\ s.ok = b.ok
  BY <1>2 DEF Shell
<1> HIDE DEF s
<1> QED BY <1>2, <1>3, <1>4

LEMMA GotoShell ==
  ASSUME IInv, NEW d \in Runs,
         NEW pc \in {"check", "read", "stage", "copy", "install", "link", "rename", "restart",
                     "health", "back", "relink", "restore", "dead"}, Goto(d, pc)
  PROVE  \E s \in Shell :
            /\ run' = [run EXCEPT ![d] = s]
            /\ s.pc = pc /\ s.out = run[d].out /\ s.previous = run[d].previous
            /\ s.next = run[d].next /\ s.ok = run[d].ok
<1> DEFINE s == [run[d] EXCEPT !.pc = pc]
<1>1. run[d] \in Shell /\ run \in [Runs -> Shell]
  BY ShellType DEF IInv, TypeOK
<1>2. /\ s \in Shell /\ s.pc = pc /\ s.out = run[d].out /\ s.previous = run[d].previous
      /\ s.next = run[d].next /\ s.ok = run[d].ok
  BY <1>1 DEF Shell
<1>3. run' = [run EXCEPT ![d] = s]
  BY <1>1 DEF Goto
<1> HIDE DEF s
<1> QED BY <1>2, <1>3

(* A run that gives up before it has moved the link.                       *)
LEMMA RefusedInv ==
  ASSUME IInv, NEW d \in Runs, Exit(d, "refused"), faults' \in Nat,
         UNCHANGED <<rev, serial, release, current, service>>,
         run[d].pc \in {"idle", "check", "stage", "copy", "install", "link", "rename"},
         serial /\ At(d, "idle") => \A e \in Runs : ~Active(e)
  PROVE  IInv'
<1>1. PICK s \in Shell :
        /\ run' = [run EXCEPT ![d] = s]
        /\ s.pc = "exit" /\ s.out = "refused" /\ s.previous = run[d].previous
        /\ s.next \in {None, run[d].next} /\ s.ok = run[d].ok
  BY ExitShell
<1>2. Turn(d, s)
  BY <1>1 DEF Turn, At
<1>3. Stands(d, s)
  BY <1>1 DEF Stands, IInv, TypeOK, Exists
<1>4. Pays(d, s)
  BY DEF Pays, IInv, TypeOK, Owing, Unfinished, At
<1>5. Follows(d, s)
  BY <1>1 DEF Follows, Chain
<1> QED BY <1>2, <1>3, <1>4, <1>5, TurnInv

(* A step of the script that only takes it to its next command.            *)
LEMMA OnwardInv ==
  ASSUME IInv, NEW d \in Runs, NEW pc \in {"check", "read", "install"}, Goto(d, pc),
         faults' \in Nat,
         UNCHANGED <<rev, serial, release, current, service>>,
         run[d].pc \in {"idle", "check", "copy"}, pc = "install" => run[d].pc = "copy",
         serial /\ At(d, "idle") => \A e \in Runs : ~Active(e)
  PROVE  IInv'
<1>1. PICK s \in Shell :
        /\ run' = [run EXCEPT ![d] = s]
        /\ s.pc = pc /\ s.out = run[d].out /\ s.previous = run[d].previous
        /\ s.next = run[d].next /\ s.ok = run[d].ok
  BY GotoShell
<1>2. run[d].out = "unfinished"
  BY DEF IInv, Unfinished, At
<1>3. Turn(d, s)
  BY <1>1, <1>2 DEF Turn, At
<1>4. Stands(d, s)
  BY <1>1 DEF Stands, IInv, TypeOK, Exists
<1>5. Pays(d, s)
  BY <1>2 DEF Pays, IInv, TypeOK, Owing
<1>6. Follows(d, s)
  BY <1>1, <1>2 DEF Follows, Chain
<1> QED BY <1>3, <1>4, <1>5, <1>6, TurnInv

LEMMA StartInv == ASSUME IInv, NEW d \in Runs, Start(d) PROVE IInv'
<1>1. run[d].pc = "idle" /\ faults' \in Nat /\ UNCHANGED <<rev, serial, release, current, service>>
  BY DEF Start, At, IInv, TypeOK, Fault
<1>2. serial => \A e \in Runs : ~Active(e)
  BY DEF Start
<1> QED BY <1>1, <1>2, RefusedInv, OnwardInv DEF Start

LEMMA CheckInv == ASSUME IInv, NEW d \in Runs, Check(d) PROVE IInv'
<1>1. run[d].pc = "check" /\ faults' \in Nat /\ UNCHANGED <<rev, serial, release, current, service>>
  BY DEF Check, At, IInv, TypeOK
<1> QED BY <1>1, RefusedInv, OnwardInv DEF Check, At

LEMMA CopyInv == ASSUME IInv, NEW d \in Runs, Copy(d) PROVE IInv'
<1>1. run[d].pc = "copy" /\ faults' \in Nat /\ UNCHANGED <<rev, serial, release, current, service>>
  BY DEF Copy, At, IInv, TypeOK, Fault
<1> QED BY <1>1, RefusedInv, OnwardInv DEF Copy, At

LEMMA ReadInv == ASSUME IInv, NEW d \in Runs, ReadCurrent(d) PROVE IInv'
<1> DEFINE s == [run[d] EXCEPT !.pc = "stage", !.previous = current]
<1>1. run[d] \in Shell /\ current \in Revisions \cup {None} /\ run[d].out = "unfinished"
  BY ShellType DEF IInv, TypeOK, Unfinished, ReadCurrent, At
<1>2. /\ s \in Shell /\ s.pc = "stage" /\ s.out = "unfinished" /\ s.previous = current
      /\ s.next = run[d].next /\ s.ok = run[d].ok
  BY <1>1 DEF Shell
<1>3. run' = [run EXCEPT ![d] = s] /\ run[d].pc = "read"
      /\ UNCHANGED <<rev, serial, release, current, service, faults>>
  BY DEF ReadCurrent, Set, At
<1> HIDE DEF s
<1>4. Turn(d, s)
  BY <1>2, <1>3 DEF Turn, At, IInv, TypeOK
<1>5. Stands(d, s)
  BY <1>2, <1>3 DEF Stands, IInv, TypeOK, Exists
<1>6. Pays(d, s)
  BY <1>1, <1>3 DEF Pays, IInv, TypeOK, Owing
<1>7. Follows(d, s)
  BY <1>2, <1>3 DEF Follows, Chain
<1> QED BY <1>4, <1>5, <1>6, <1>7, TurnInv

LEMMA StageInv == ASSUME IInv, NEW d \in Runs, Stage(d) PROVE IInv'
<1> DEFINE s == [run[d] EXCEPT !.pc = "copy", !.staging = TRUE]
<1>1. run[d] \in Shell /\ run[d].out = "unfinished"
  BY ShellType DEF IInv, Unfinished, Stage, At
<1>2. /\ s \in Shell /\ s.pc = "copy" /\ s.out = "unfinished" /\ s.previous = run[d].previous
      /\ s.next = run[d].next /\ s.ok = run[d].ok
  BY <1>1 DEF Shell
<1>3. faults' \in Nat /\ run[d].pc = "stage"
      /\ UNCHANGED <<rev, serial, release, current, service>>
  BY DEF Stage, At, IInv, TypeOK, Fault
<1>4. CASE run' = [run EXCEPT ![d] = s]
  <2> HIDE DEF s
  <2>1. Turn(d, s)
    BY <1>2, <1>3, <1>4 DEF Turn, At
  <2>2. Stands(d, s)
    BY <1>2, <1>3 DEF Stands, IInv, TypeOK, Exists
  <2>3. Pays(d, s)
    BY <1>1, <1>3 DEF Pays, IInv, TypeOK, Owing
  <2>4. Follows(d, s)
    BY <1>2, <1>3 DEF Follows, Chain
  <2> QED BY <2>1, <2>2, <2>3, <2>4, TurnInv
<1>5. CASE Exit(d, "refused")
  BY <1>3, <1>5, RefusedInv DEF At
<1> QED BY <1>4, <1>5 DEF Stage, Set
LEMMA InstallInv == ASSUME IInv, NEW d \in Runs, Install(d) PROVE IInv'
<1>1. run[d] \in Shell /\ run[d].out = "unfinished" /\ rev[d] \in Revisions
  BY ShellType DEF IInv, Unfinished, Install, At
<1>2. faults' \in Nat /\ run[d].pc = "install" /\ UNCHANGED <<rev, serial, current, service>>
  BY DEF Install, At, IInv, TypeOK, Fault
<1>3. CASE Exit(d, "refused") /\ UNCHANGED release
  BY <1>2, <1>3, RefusedInv DEF At
<1>4. CASE /\ release' = [release EXCEPT ![rev[d]] = Moved(d)]
           /\ Set(d, [run[d] EXCEPT !.pc = "link", !.staging = FALSE])
  <2> DEFINE s == [run[d] EXCEPT !.pc = "link", !.staging = FALSE]
  <2>1. /\ s \in Shell /\ s.pc = "link" /\ s.out = "unfinished" /\ s.previous = run[d].previous
        /\ s.next = run[d].next /\ s.ok = run[d].ok
    BY <1>1 DEF Shell
  <2>2. run' = [run EXCEPT ![d] = s]
    BY <1>4 DEF Set
  <2> HIDE DEF s
  <2>3. release \in [Revisions -> Release] /\ release[rev[d]] \in Release
    BY <1>1 DEF IInv, TypeOK
  <2>4. Moved(d) \in Release /\ Moved(d).by # None
    <3>1. {} \in SUBSET Runs /\ d # None
      BY DeployAssumption
    <3>2. CASE Exists(rev[d])
      BY <2>3, <3>2 DEF Exists, Release, Moved
    <3>3. CASE ~Exists(rev[d])
      BY <3>1, <3>3 DEF Release, Moved
    <3> QED BY <3>2, <3>3
  <2>6. /\ release' \in [Revisions -> Release] /\ release'[rev[d]].by # None
        /\ \A r \in Revisions : Exists(r) => release'[r].by # None
        /\ release'[First] = release[First]
    BY <1>1, <1>4, <2>3, <2>4, DeployAssumption DEF Exists, IInv, Foreign
  <2>7. Turn(d, s)
    BY <1>2, <2>1, <2>2 DEF Turn, At
  <2>8. Stands(d, s)
    BY <1>2, <2>1, <2>6 DEF Stands, IInv, TypeOK
  <2>9. Pays(d, s)
    BY <1>1, <1>2 DEF Pays, IInv, TypeOK, Owing
  <2>10. Follows(d, s)
    BY <1>2, <2>1 DEF Follows, Chain
  <2> QED BY <2>7, <2>8, <2>9, <2>10, TurnInv
<1> QED BY <1>3, <1>4 DEF Install

LEMMA LinkInv == ASSUME IInv, NEW d \in Runs, Link(d) PROVE IInv'
<1> DEFINE s == [run[d] EXCEPT !.pc = "rename", !.next = rev[d]]
<1>1. run[d] \in Shell /\ run[d].out = "unfinished" /\ rev[d] \in Revisions
  BY ShellType DEF IInv, Unfinished, Link, At
<1>2. /\ s \in Shell /\ s.pc = "rename" /\ s.out = "unfinished" /\ s.previous = run[d].previous
      /\ s.next = rev[d] /\ s.ok = run[d].ok
  BY <1>1 DEF Shell
<1>3. /\ faults' \in Nat /\ run[d].pc = "link" /\ Exists(rev[d])
      /\ UNCHANGED <<rev, serial, release, current, service>>
  BY DEF Link, At, IInv, TypeOK, Fault, Links
<1>4. CASE run' = [run EXCEPT ![d] = s]
  <2> HIDE DEF s
  <2>1. Turn(d, s)
    BY <1>2, <1>3, <1>4 DEF Turn, At
  <2>2. Stands(d, s)
    BY <1>2, <1>3 DEF Stands, IInv, TypeOK, Exists
  <2>3. Pays(d, s)
    BY <1>1, <1>3 DEF Pays, IInv, TypeOK, Owing
  <2>4. Follows(d, s)
    BY <1>2, <1>3 DEF Follows, Chain
  <2> QED BY <2>1, <2>2, <2>3, <2>4, TurnInv
<1>5. CASE Exit(d, "refused")
  BY <1>3, <1>5, RefusedInv DEF At
<1> QED BY <1>4, <1>5 DEF Link, Set

LEMMA RenameInv == ASSUME IInv, NEW d \in Runs, Rename(d) PROVE IInv'
<1> DEFINE s == [run[d] EXCEPT !.pc = "restart", !.next = None]
<1>1. /\ run[d] \in Shell /\ run[d].out = "unfinished"
      /\ run[d].next \in Revisions \cup {None}
  BY ShellType DEF IInv, Unfinished, Rename, At
<1>2. /\ s \in Shell /\ s.pc = "restart" /\ s.out = "unfinished"
      /\ s.previous = run[d].previous /\ s.next = None /\ s.ok = run[d].ok
  BY <1>1 DEF Shell
<1>3. faults' \in Nat /\ run[d].pc = "rename" /\ UNCHANGED <<rev, serial, release, service>>
  BY DEF Rename, At, IInv, TypeOK, Fault
<1>4. CASE current' = run[d].next /\ run' = [run EXCEPT ![d] = s]
  <2> HIDE DEF s
  <2>1. Turn(d, s)
    BY <1>2, <1>3, <1>4 DEF Turn, At
  <2>2. Stands(d, s)
    BY <1>1, <1>2, <1>3, <1>4 DEF Stands, IInv, TypeOK, Exists
  <2>3. Pays(d, s)
    BY <1>2, <1>3 DEF Pays, IInv, TypeOK, Owing
  <2>4. Follows(d, s)
    BY <1>2, <1>3, <1>4 DEF Follows, Chain
  <2> QED BY <2>1, <2>2, <2>3, <2>4, TurnInv
<1>5. CASE Exit(d, "refused") /\ UNCHANGED current
  BY <1>3, <1>5, RefusedInv DEF At
<1> QED BY <1>4, <1>5 DEF Rename, Set

(* A step of the script, after the link was moved, that only takes it to   *)
(* its next command; the unit is restarted before health.                  *)
LEMMA AfterInv ==
  ASSUME IInv, NEW d \in Runs, NEW pc \in {"health", "back"}, Goto(d, pc), faults' \in Nat,
         UNCHANGED <<rev, serial, release, current>>,
         run[d].pc \in {"restart", "health"}, service' \in Revisions \cup {None},
         pc = "health" => run[d].pc = "restart" /\ service' = current
  PROVE  IInv'
<1>1. PICK s \in Shell :
        /\ run' = [run EXCEPT ![d] = s]
        /\ s.pc = pc /\ s.out = run[d].out /\ s.previous = run[d].previous
        /\ s.next = run[d].next /\ s.ok = run[d].ok
  BY GotoShell
<1>2. run[d].out = "unfinished"
  BY DEF IInv, Unfinished, At
<1>3. Turn(d, s)
  BY <1>1, <1>2 DEF Turn, At
<1>4. Stands(d, s)
  BY <1>1 DEF Stands, IInv, TypeOK, Exists
<1>5. Pays(d, s)
  BY <1>1, <1>2 DEF Pays, IInv, TypeOK, Owing
<1>6. Follows(d, s)
  BY <1>1, <1>2 DEF Follows, Chain
<1> QED BY <1>3, <1>4, <1>5, <1>6, TurnInv

LEMMA RestartInv == ASSUME IInv, NEW d \in Runs, Restart(d) PROVE IInv'
<1>1. /\ faults' \in Nat /\ run[d].pc = "restart" /\ UNCHANGED <<rev, serial, release, current>>
      /\ current \in Revisions \cup {None} /\ service \in Revisions \cup {None}
  BY DEF Restart, At, IInv, TypeOK, Fault, RestartFails
<1>2. CASE service' = current /\ Goto(d, "health")
  BY <1>1, <1>2, AfterInv
<1>3. CASE RestartFails /\ Goto(d, "back")
  BY <1>1, <1>3, AfterInv DEF RestartFails
<1> QED BY <1>2, <1>3 DEF Restart
LEMMA HealthInv == ASSUME IInv, NEW d \in Runs, Health(d) PROVE IInv'
<1>1. /\ faults' \in Nat /\ run[d].pc = "health" /\ run[d] \in Shell /\ run[d].attempt \in Nat
      /\ UNCHANGED <<rev, serial, release, current, service>> /\ run[d].out = "unfinished"
  BY ShellType DEF Health, At, IInv, TypeOK, Unfinished
<1>2. CASE Exit(d, "deployed")
  <2>1. PICK s \in Shell :
          /\ run' = [run EXCEPT ![d] = s]
          /\ s.pc = "exit" /\ s.out = "deployed" /\ s.previous = run[d].previous
          /\ s.next \in {None, run[d].next} /\ s.ok = run[d].ok
    BY <1>2, ExitShell
  <2>2. Turn(d, s)
    BY <1>1, <2>1 DEF Turn, At
  <2>3. Stands(d, s)
    BY <1>1, <2>1 DEF Stands, IInv, TypeOK, Exists
  <2>4. Pays(d, s)
    BY <1>1 DEF Pays, IInv, TypeOK, Owing
  <2>5. Follows(d, s)
    BY <1>1, <2>1 DEF Follows, Chain
  <2> QED BY <2>2, <2>3, <2>4, <2>5, TurnInv
<1>3. CASE Set(d, [run[d] EXCEPT !.attempt = Attempts(d)])
  <2> DEFINE s == [run[d] EXCEPT !.attempt = Attempts(d)]
  <2>1. Attempts(d) \in Nat
    BY <1>1 DEF Attempts
  <2>2. /\ s \in Shell /\ s.pc = "health" /\ s.out = "unfinished"
        /\ s.previous = run[d].previous /\ s.next = run[d].next /\ s.ok = run[d].ok
    BY <1>1, <2>1 DEF Shell
  <2>3. run' = [run EXCEPT ![d] = s]
    BY <1>3 DEF Set
  <2> HIDE DEF s
  <2>4. Turn(d, s)
    BY <1>1, <2>2, <2>3 DEF Turn, At
  <2>5. Stands(d, s)
    BY <1>1, <2>2 DEF Stands, IInv, TypeOK, Exists
  <2>6. Pays(d, s)
    BY <1>1 DEF Pays, IInv, TypeOK, Owing
  <2>7. Follows(d, s)
    BY <1>1, <2>2 DEF Follows, Chain
  <2> QED BY <2>4, <2>5, <2>6, <2>7, TurnInv
<1>4. CASE Goto(d, "back")
  <2>1. service' \in Revisions \cup {None}
    BY <1>1 DEF IInv, TypeOK
  <2> QED BY <1>1, <1>4, <2>1, AfterInv
<1> QED BY <1>2, <1>3, <1>4 DEF Health

(* A command of rollback that fails and is passed over.                    *)
LEMMA PassedOverInv ==
  ASSUME IInv, NEW d \in Runs, Set(d, [run[d] EXCEPT !.pc = "restore", !.ok = FALSE]),
         faults' \in Nat, UNCHANGED <<rev, serial, release, current, service>>,
         run[d].pc \in {"back", "relink"}
  PROVE  IInv'
<1> DEFINE s == [run[d] EXCEPT !.pc = "restore", !.ok = FALSE]
<1>1. run[d] \in Shell /\ run[d].out = "unfinished"
  BY ShellType DEF IInv, Unfinished, At
<1>2. /\ s \in Shell /\ s.pc = "restore" /\ s.out = "unfinished"
      /\ s.previous = run[d].previous /\ s.next = run[d].next /\ ~s.ok
  BY <1>1 DEF Shell
<1>3. run' = [run EXCEPT ![d] = s]
  BY DEF Set
<1> HIDE DEF s
<1>4. Turn(d, s)
  BY <1>2, <1>3 DEF Turn, At
<1>5. Stands(d, s)
  BY <1>2 DEF Stands, IInv, TypeOK, Exists
<1>6. Pays(d, s)
  BY <1>2 DEF Pays, IInv, TypeOK, Owing
<1>7. Follows(d, s)
  BY <1>2 DEF Follows
<1> QED BY <1>4, <1>5, <1>6, <1>7, TurnInv

LEMMA BackInv == ASSUME IInv, NEW d \in Runs, Back(d) PROVE IInv'
<1>1. /\ run[d] \in Shell /\ run[d].out = "unfinished"
      /\ run[d].previous \in Revisions \cup {None}
  BY ShellType DEF IInv, Unfinished, Back, At
<1>2. faults' \in Nat /\ run[d].pc = "back" /\ UNCHANGED <<rev, serial, release, service>>
  BY DEF Back, At, IInv, TypeOK, Fault
<1>3. CASE Set(d, [run[d] EXCEPT !.pc = "relink", !.next = Target(d)]) /\ UNCHANGED current
  <2> DEFINE s == [run[d] EXCEPT !.pc = "relink", !.next = Target(d)]
  <2>1. /\ s \in Shell /\ s.pc = "relink" /\ s.out = "unfinished"
        /\ s.previous = run[d].previous /\ s.next = run[d].previous /\ s.ok = run[d].ok
    BY <1>1 DEF Shell, Target
  <2>2. run' = [run EXCEPT ![d] = s]
    BY <1>3 DEF Set
  <2> HIDE DEF s
  <2>3. Turn(d, s)
    BY <1>2, <2>1, <2>2 DEF Turn, At
  <2>4. Stands(d, s)
    BY <1>2, <1>3, <2>1 DEF Stands, IInv, TypeOK, Exists
  <2>5. Pays(d, s)
    BY <1>2, <2>1 DEF Pays, IInv, TypeOK, Owing
  <2>6. Follows(d, s)
    BY <1>2, <2>1 DEF Follows, Chain
  <2> QED BY <2>3, <2>4, <2>5, <2>6, TurnInv
<1>4. CASE run[d].previous = None /\ current' = None /\ Goto(d, "restore")
  <2>1. PICK s \in Shell :
          /\ run' = [run EXCEPT ![d] = s]
          /\ s.pc = "restore" /\ s.out = run[d].out /\ s.previous = run[d].previous
          /\ s.next = run[d].next /\ s.ok = run[d].ok
    BY <1>4, GotoShell
  <2>2. Turn(d, s)
    BY <1>1, <1>2, <2>1 DEF Turn, At
  <2>3. Stands(d, s)
    BY <1>2, <1>4, <2>1 DEF Stands, IInv, TypeOK, Exists
  <2>4. Pays(d, s)
    BY <1>1, <1>2, <2>1 DEF Pays, IInv, TypeOK, Owing
  <2>5. Follows(d, s)
    BY <1>1, <1>2, <1>4, <2>1 DEF Follows, Chain
  <2> QED BY <2>2, <2>3, <2>4, <2>5, TurnInv
<1>5. CASE Set(d, [run[d] EXCEPT !.pc = "restore", !.ok = FALSE]) /\ UNCHANGED current
  BY <1>2, <1>5, PassedOverInv
<1> QED BY <1>3, <1>4, <1>5 DEF Back

LEMMA RelinkInv == ASSUME IInv, NEW d \in Runs, Relink(d) PROVE IInv'
<1>1. /\ run[d] \in Shell /\ run[d].out = "unfinished"
      /\ run[d].next \in Revisions \cup {None}
  BY ShellType DEF IInv, Unfinished, Relink, At
<1>2. faults' \in Nat /\ run[d].pc = "relink" /\ UNCHANGED <<rev, serial, release, service>>
  BY DEF Relink, At, IInv, TypeOK, Fault
<1>3. CASE current' = run[d].next /\ Set(d, [run[d] EXCEPT !.pc = "restore", !.next = None])
  <2> DEFINE s == [run[d] EXCEPT !.pc = "restore", !.next = None]
  <2>1. /\ s \in Shell /\ s.pc = "restore" /\ s.out = "unfinished"
        /\ s.previous = run[d].previous /\ s.next = None /\ s.ok = run[d].ok
    BY <1>1 DEF Shell
  <2>2. run' = [run EXCEPT ![d] = s]
    BY <1>3 DEF Set
  <2> HIDE DEF s
  <2>3. Turn(d, s)
    BY <1>2, <2>1, <2>2 DEF Turn, At
  <2>4. Stands(d, s)
    BY <1>1, <1>2, <1>3, <2>1 DEF Stands, IInv, TypeOK, Exists
  <2>5. Pays(d, s)
    BY <1>2, <2>1 DEF Pays, IInv, TypeOK, Owing
  <2>6. Follows(d, s)
    BY <1>2, <1>3, <2>1 DEF Follows, Chain
  <2> QED BY <2>3, <2>4, <2>5, <2>6, TurnInv
<1>4. CASE Set(d, [run[d] EXCEPT !.pc = "restore", !.ok = FALSE]) /\ UNCHANGED current
  BY <1>2, <1>4, PassedOverInv
<1> QED BY <1>3, <1>4 DEF Relink

LEMMA RestoreInv == ASSUME IInv, NEW d \in Runs, Restore(d) PROVE IInv'
<1>1. run[d].out = "unfinished"
  BY DEF IInv, Unfinished, Restore, At
<1>2. /\ faults' \in Nat /\ run[d].pc = "restore" /\ UNCHANGED <<rev, serial, release, current>>
      /\ service' \in Revisions \cup {None}
  <2>1. /\ run[d].pc = "restore" /\ UNCHANGED <<rev, serial, current>>
        /\ release' = release
    BY DEF Restore, At, Kept
  <2>2. faults \in Nat /\ current \in Revisions \cup {None} /\ service \in Revisions \cup {None}
    BY DEF IInv, TypeOK
  <2>3. faults' \in Nat
    <3>1. faults' = faults \/ faults' = faults + 1
      BY DEF Restore, RestartFails, Fault
    <3> QED BY <2>2, <3>1
  <2>4. service' \in Revisions \cup {None}
    BY <2>2 DEF Restore, RestartFails, Restored
  <2> QED BY <2>1, <2>3, <2>4
<1>3. PICK out \in {"rolled back", "incomplete"} :
        Exit(d, out) /\ (out = "rolled back" => service' = current)
  BY DEF Restore, Restored
<1>4. PICK s \in Shell :
        /\ run' = [run EXCEPT ![d] = s]
        /\ s.pc = "exit" /\ s.out = out /\ s.previous = run[d].previous
        /\ s.next \in {None, run[d].next} /\ s.ok = run[d].ok
  <2>1. out \in {"refused", "deployed", "rolled back", "incomplete"}
    OBVIOUS
  <2> QED BY <1>3, <2>1, ExitShell
<1>5. Turn(d, s)
  BY <1>2, <1>4 DEF Turn, At
<1>6. Stands(d, s)
  BY <1>2, <1>4 DEF Stands, IInv, TypeOK, Exists
<1>7. Pays(d, s)
  BY <1>2, <1>3, <1>4 DEF Pays, Owing
<1>8. Follows(d, s)
  BY <1>2, <1>4 DEF Follows, Chain
<1> QED BY <1>5, <1>6, <1>7, <1>8, TurnInv

LEMMA KillInv == ASSUME IInv, NEW d \in Runs, Kill(d) PROVE IInv'
<1>1. PICK s \in Shell :
        /\ run' = [run EXCEPT ![d] = s]
        /\ s.pc = "dead" /\ s.out = run[d].out /\ s.previous = run[d].previous
        /\ s.next = run[d].next /\ s.ok = run[d].ok
  BY GotoShell DEF Kill
<1>2. /\ run[d].pc \notin {"idle", "exit", "dead"} /\ run[d].out = "unfinished"
      /\ faults' \in Nat /\ UNCHANGED <<rev, serial, release, current, service>>
  BY DEF Kill, Active, IInv, TypeOK, Unfinished, At, Fault
<1>3. Turn(d, s)
  BY <1>1, <1>2 DEF Turn, At
<1>4. Stands(d, s)
  BY <1>1, <1>2 DEF Stands, IInv, TypeOK, Exists
<1>5. Pays(d, s)
  BY <1>1, <1>2 DEF Pays, IInv, TypeOK, Owing
<1>6. Follows(d, s)
  BY <1>1 DEF Follows
<1> QED BY <1>3, <1>4, <1>5, <1>6, TurnInv

LEMMA RespawnInv == ASSUME IInv, Respawn PROVE IInv'
<1> USE DEF IInv
<1>1. /\ service' \in {current, None}
      /\ UNCHANGED <<rev, serial, release, current, run, faults>>
  BY DEF Respawn
<1>2. TypeOK' /\ Unfinished' /\ Owed'
  BY <1>1 DEF TypeOK, Unfinished, At, Owed
<1>3. Links'
  BY <1>1 DEF Links, LinkResolves, Exists, At
<1>4. Alone' /\ Foreign'
  BY <1>1 DEF Alone, Active, Foreign
<1>5. Chains'
  <2>1. Good' = Good /\ (Clean' <=> Clean)
    BY <1>1 DEF Good, Began, Exists, Deployed, Clean, At
  <2> QED BY <1>1, <2>1 DEF Chains, Chain, Active
<1> QED BY <1>2, <1>3, <1>4, <1>5

LEMMA Inductive == IInv /\ [Next]_vars => IInv'
<1> SUFFICES ASSUME IInv, [Next]_vars PROVE IInv'
  OBVIOUS
<1>1. ASSUME NEW d \in Runs, Check(d) \/ ReadCurrent(d) \/ Stage(d) \/ Copy(d) \/ Install(d)
      PROVE  IInv'
  BY <1>1, CheckInv, ReadInv, StageInv, CopyInv, InstallInv
<1>2. ASSUME NEW d \in Runs, Link(d) \/ Rename(d) \/ Restart(d) \/ Health(d) PROVE IInv'
  BY <1>2, LinkInv, RenameInv, RestartInv, HealthInv
<1>3. ASSUME NEW d \in Runs, Back(d) \/ Relink(d) \/ Restore(d) PROVE IInv'
  BY <1>3, BackInv, RelinkInv, RestoreInv
<1>4. ASSUME NEW d \in Runs, Start(d) \/ Proceed(d) \/ Kill(d) PROVE IInv'
  BY <1>1, <1>2, <1>3, <1>4, StartInv, KillInv DEF Proceed
<1>5. CASE UNCHANGED vars
  <2>1. UNCHANGED <<rev, serial, release, current, service, run, faults>>
    BY <1>5 DEF vars
  <2>2. TypeOK' /\ Unfinished' /\ Owed'
    BY <2>1 DEF IInv, TypeOK, Unfinished, At, Owed
  <2>3. Links'
    BY <2>1 DEF IInv, Links, LinkResolves, Exists, At
  <2>4. Alone' /\ Foreign'
    BY <2>1 DEF IInv, Alone, Active, Foreign
  <2>5. Chains'
    <3>1. Good' = Good /\ (Clean' <=> Clean)
      BY <2>1 DEF Good, Began, Exists, Deployed, Clean, At
    <3> QED BY <2>1, <3>1 DEF IInv, Chains, Chain, Active
  <2> QED BY <2>2, <2>3, <2>4, <2>5 DEF IInv
<1> QED BY <1>4, <1>5, RespawnInv DEF Next

LEMMA Invariance == Spec => []IInv
<1> QED BY InitInv, Inductive, PTL DEF Spec
-------------------------------------------------------------------------------
(* The variables keep their types.                                         *)
THEOREM TypeCorrect == Spec => []TypeOK
<1>1. IInv => TypeOK
  BY DEF IInv
<1> QED BY <1>1, Invariance, PTL

(* LinkResolves: no run takes a release away, and a run links what it has  *)
(* installed or what the link named when it looked (swap_current).         *)
THEOREM LinkCorrect == Spec => []LinkResolves
<1>1. IInv => LinkResolves
  BY DEF IInv, Links
<1> QED BY <1>1, Invariance, PTL

(* RestServesCurrent: whoever has moved the link owes a restart until it   *)
(* has reported (Owed), and the last such restart reads the link.          *)
THEOREM RestCorrect == Spec => []RestServesCurrent
<1>1. ASSUME IInv, \A d \in Runs : run[d].out \in {"refused", "deployed", "rolled back"}
      PROVE  service \in {current, None}
  <2>1. ASSUME NEW d \in Runs PROVE ~Owing(run[d])
    BY <1>1 DEF Owing
  <2> QED BY <1>1, <2>1 DEF IInv, Owed
<1>2. IInv => RestServesCurrent
  BY <1>1 DEF RestServesCurrent
<1> QED BY <1>2, Invariance, PTL

(* SerialOutcome: a run that is alone leaves the link where it found it or *)
(* reports its own revision (Alone, Chains).                               *)
THEOREM SerialCorrect == Spec => []SerialOutcome
<1>1. ASSUME IInv, serial, \A d \in Runs : At(d, "exit") /\ run[d].ok
      PROVE  current \in Good
  <2>1. PICK d \in Runs : TRUE
    BY DeployAssumption
  <2>2. Clean /\ \A e \in Runs : ~Active(e)
    BY <1>1 DEF Clean, Active, At
  <2>3. Chain(run[d], rev[d], current, Good)
    BY <1>1, <2>2 DEF IInv, Chains
  <2> QED BY <1>1, <2>3 DEF Chain, At
<1>2. IInv => SerialOutcome
  BY <1>1 DEF SerialOutcome, Good, Began, Deployed
<1> QED BY <1>2, Invariance, PTL
-------------------------------------------------------------------------------
LEMMA StepIsDeploy == ReleaseNext => [Next]_vars
<1>1. ASSUME NEW d \in Runs,
             StartVerified(d) \/ StageCopy(d) \/ EndCopy(d) \/ InstallCopy(d) \/ Others(d)
      PROVE  Next
  BY <1>1 DEF StartVerified, StageCopy, EndCopy, InstallCopy, Others, Next, Proceed
<1>2. ASSUME NEW d \in Runs, Verify(d) \/ CopyFile(d) PROVE UNCHANGED vars
  BY <1>2 DEF Verify, CopyFile
<1>3. RespawnUnit => Next
  BY DEF RespawnUnit, Next
<1>4. Pipeline => UNCHANGED vars
  BY DEF Pipeline
<1> QED BY <1>1, <1>2, <1>3, <1>4 DEF ReleaseNext

(* The composition does nothing to the releases, the link and the unit     *)
(* that deploy.sh alone would not do: what is proved of Deploy above holds *)
(* of Release.                                                             *)
THEOREM RefinesDeploy == ReleaseSpec => Spec
<1>1. ReleaseInit => Init
  BY DEF ReleaseInit
<1>2. [ReleaseNext]_releaseVars => [Next]_vars
  BY StepIsDeploy DEF releaseVars
<1> QED BY <1>1, <1>2, PTL DEF ReleaseSpec, Spec

LEMMA StepIsManifest == ReleaseNext => [M!Next]_(M!vars)
<1>1. ASSUME NEW d \in Runs, Verify(d) PROVE M!Next
  BY <1>1 DEF Verify, M!Next
<1>2. Pipeline => M!Next
  BY DEF Pipeline, M!Next
<1>3. ASSUME NEW d \in Runs, \/ StartVerified(d) \/ StageCopy(d) \/ CopyFile(d)
                            \/ EndCopy(d) \/ InstallCopy(d) \/ Others(d)
      PROVE  UNCHANGED M!vars
  BY <1>3 DEF StartVerified, StageCopy, CopyFile, EndCopy, InstallCopy, Others, pipeline,
              M!vars, M!artifact
<1>4. RespawnUnit => UNCHANGED M!vars
  BY DEF RespawnUnit, pipeline, M!vars, M!artifact
<1> QED BY <1>1, <1>2, <1>3, <1>4 DEF ReleaseNext

(* Nor does it do anything to the artifact directory that the pipeline, a  *)
(* Seal or a VerifyAny alone would not do (deploy.sh only reads it).       *)
THEOREM RefinesManifest == ReleaseSpec => M!Spec
<1>1. ReleaseInit => M!Init
  BY DEF ReleaseInit
<1>2. [ReleaseNext]_releaseVars => [M!Next]_(M!vars)
  BY StepIsManifest DEF releaseVars, pipeline, M!vars, M!artifact
<1> QED BY <1>1, <1>2, PTL DEF ReleaseSpec, M!Spec

-------------------------------------------------------------------------------
(* What a Seal or VerifyAny, or cp, that read the paths S found in them.  *)
Snapshot(S) == {[path |-> p, content |-> dir[p]] : p \in S}
Read(files, S) == files = Snapshot(S) /\ \A p \in S : M!Regular(p)

(* Whatever is signed was put together by a Seal that got so far.          *)
Signatures ==
    /\ \A m \in signed : m.what = "manifest"
    /\ sig.what = "signature" => \E m \in signed : sig = M!Sign(m)
    /\ \A s \in Sealers : seal[s].pc \in {"write", "open sig", "write sig", "done"} =>
           M!ManifestOf(s) \in signed

(* What a Seal that nobody has disturbed knows of the artifact.            *)
Sees(s) ==
    /\ seal[s].pc = "hash" =>
           seal[s].rest \subseteq M!Listed /\ Read(seal[s].files, M!Listed \ seal[s].rest)
    /\ seal[s].pc \in {"write", "open sig", "write sig"} => Read(seal[s].files, M!Listed)
    /\ seal[s].pc = "write" => mf = M!No("empty")
    /\ seal[s].pc \in {"open sig", "write sig"} => mf = M!ManifestOf(s)
    /\ seal[s].pc = "write sig" => sig = M!No("empty")

Seals == \A s \in Sealers : seal[s].steady => Sees(s)

(* What an undisturbed Seal leaves behind.                                 *)
Holds ==
    sealed # None =>
        /\ seal[sealed].pc = "done" /\ Read(seal[sealed].files, M!Listed)
        /\ mf = M!ManifestOf(sealed) /\ sig = M!Sign(M!ManifestOf(sealed))

(* What a VerifyAny with the state r has established: who signed the       *)
(* manifest it read and, as long as nobody disturbs it, that the files it  *)
(* has collected are those that are there.                                 *)
Checks(r) ==
    /\ r.pc \in {"signature", "list"} => r.files = {}
    /\ r.pc \in {"list", "hash", "accepted"} =>
           r.mf \in signed /\ KeyOf[r.mf.by] \in Trusted
    /\ r.pc = "accepted" => r.mf.files = r.files
    /\ r.steady /\ r.pc = "hash" =>
           r.rest \subseteq M!Listed /\ r.files = Snapshot(M!Listed \ r.rest)
    /\ r.steady /\ r.pc = "accepted" => r.files = Snapshot(M!Listed)
    /\ r.steady /\ r.due /\ r.pc # "idle" =>
           sealed # None /\ KeyOf[sealed] \in Trusted /\ r.mf = mf
    /\ r.steady /\ r.due /\ r.pc = "refused" => M!Listed \cap Mangled # {}

ManifestInv == M!TypeOK /\ Signatures /\ Seals /\ Holds /\ \A v \in Runs : Checks(ver[v])

(* The least of a set of natural numbers is one of them.                   *)
LEMMA MinIn == ASSUME NEW T \in SUBSET Nat, T # {} PROVE M!Min(T) \in T
<1> DEFINE Less == OpToRel(<, Nat)
<1>1. \A a, b \in Nat : a < b => <<a, b>> \in Less
  <2>1. ASSUME NEW a \in Nat, NEW b \in Nat, a < b
        PROVE  <<a, b>> \in {ss \in Nat \X Nat : ss[1] < ss[2]}
    BY <2>1
  <2>2. Less = {ss \in Nat \X Nat : ss[1] < ss[2]}
    BY Zenon DEF OpToRel
  <2> QED BY <2>1, <2>2
<1>2. IsWellFoundedOn(Less, Nat)
  BY NatLessThanWellFounded
<1> HIDE DEF Less
<1>3. PICK x \in T : \A y \in T : ~(<<y, x>> \in Less)
  BY <1>2, WFMin
<1>4. \A y \in T : x <= y
  <2> SUFFICES ASSUME NEW y \in T PROVE x <= y
    OBVIOUS
  <2>1. x \in Nat /\ y \in Nat
    OBVIOUS
  <2>2. ~(y < x)
    BY <1>1, <1>3, <2>1, Zenon
  <2> QED BY <2>1, <2>2
<1>5. \E z \in T : \A y \in T : z <= y
  BY <1>4
<1> QED BY <1>5 DEF M!Min

LEMMA InitManifest == M!Init => ManifestInv
<1> SUFFICES ASSUME M!Init PROVE ManifestInv
  OBVIOUS
<1> USE ReleaseAssumption DEF M!ArtifactAssumption, M!Init
<1>1. /\ \A s \in Sealers : seal[s].pc = "idle"
      /\ \A v \in Runs : ver[v].pc = "idle" /\ ver[v].files = {}
      /\ signed = {} /\ sealed = None /\ sig.what = "absent"
  BY DEF M!No, M!None, None
<1>2. M!No("absent") \in M!Bytes
  BY DEF M!No, M!Bytes
<1>3. seal \in [Sealers -> M!Sealing]
  BY DEF M!Sealing
<1>4. ver \in [Runs -> M!Verifying]
  BY <1>2 DEF M!Verifying
<1>5. M!TypeOK
  BY <1>1, <1>2, <1>3, <1>4 DEF M!TypeOK, M!None, None
<1>6. Signatures /\ Seals /\ Holds
  BY <1>1 DEF Signatures, Seals, Sees, Holds
<1>7. \A v \in Runs : Checks(ver[v])
  BY <1>1 DEF Checks
<1> QED BY <1>5, <1>6, <1>7 DEF ManifestInv

(* What a step that changes the artifact leaves of what is known.          *)
LEMMA Shaken ==
  ASSUME M!TypeOK
  PROVE  /\ \A s \in Sealers : LET x == [seal[s] EXCEPT !.steady = FALSE] IN
              /\ x \in M!Sealing /\ ~x.steady /\ x.pc = seal[s].pc /\ x.files = seal[s].files
         /\ \A v \in Runs : LET x == [ver[v] EXCEPT !.steady = FALSE] IN
              /\ x \in M!Verifying /\ ~x.steady /\ x.pc = ver[v].pc /\ x.files = ver[v].files
              /\ x.mf = ver[v].mf
<1>1. seal \in [Sealers -> M!Sealing] /\ ver \in [Runs -> M!Verifying]
  BY DEF M!TypeOK
<1>2. \A s \in Sealers : seal[s] \in M!Sealing
  BY <1>1
<1>3. \A v \in Runs : ver[v] \in M!Verifying
  BY <1>1
<1>4. ASSUME NEW r \in M!Sealing, NEW x, x = [r EXCEPT !.steady = FALSE]
      PROVE  /\ x \in M!Sealing /\ ~x.steady /\ x.pc = r.pc /\ x.files = r.files
  BY <1>4 DEF M!Sealing
<1>5. ASSUME NEW r \in M!Verifying, NEW x, x = [r EXCEPT !.steady = FALSE]
      PROVE  /\ x \in M!Verifying /\ ~x.steady /\ x.pc = r.pc /\ x.files = r.files /\ x.mf = r.mf
  BY <1>5 DEF M!Verifying
<1> QED BY <1>2, <1>3, <1>4, <1>5

LEMMA ShakenChecks ==
  ASSUME ManifestInv, ver' = M!Unsteady, signed \subseteq signed'
  PROVE  ver' \in [Runs -> M!Verifying] /\ \A v \in Runs : Checks(ver[v])'
<1>1. M!TypeOK /\ \A v \in Runs : Checks(ver[v])
  BY DEF ManifestInv
<1>2. ASSUME NEW v \in Runs
      PROVE  /\ ver'[v] \in M!Verifying /\ ~ver'[v].steady /\ ver'[v].pc = ver[v].pc
             /\ ver'[v].files = ver[v].files /\ ver'[v].mf = ver[v].mf
  <2>1. ver'[v] = [ver[v] EXCEPT !.steady = FALSE]
    BY DEF M!Unsteady
  <2> QED BY <1>1, <2>1, Shaken
<1>3. ver' \in [Runs -> M!Verifying]
  BY <1>2 DEF M!Unsteady
<1>4. ASSUME NEW v \in Runs PROVE Checks(ver[v])'
  BY <1>1, <1>2 DEF Checks
<1> QED BY <1>3, <1>4

LEMMA ManifestType ==
  ASSUME M!TypeOK, NEW s \in Sealers
  PROVE  /\ M!ManifestOf(s) \in M!Bytes /\ M!ManifestOf(s).what = "manifest"
         /\ M!ManifestOf(s).by = s
         /\ M!Sign(M!ManifestOf(s)) \in M!Bytes /\ M!Sign(M!ManifestOf(s)).what = "signature"
         /\ M!Sign(M!ManifestOf(s)).by = s
<1>1. seal[s] \in M!Sealing
  BY DEF M!TypeOK
<1>2. seal[s].files \subseteq M!File
  BY <1>1 DEF M!Sealing
<1>3. ASSUME NEW f \in M!File
      PROVE  [f EXCEPT !.path = IF @ \in Mangled THEN 0 ELSE @] \in M!File
  BY <1>3 DEF M!File
<1>4. M!Encode(seal[s].files) \subseteq M!File
  BY <1>2, <1>3 DEF M!Encode
<1>5. M!ManifestOf(s) \in M!Bytes
  BY <1>4 DEF M!ManifestOf, M!Bytes
<1>6. ASSUME NEW m \in M!Bytes
      PROVE  M!Sign(m) \in M!Bytes /\ M!Sign(m).what = "signature" /\ M!Sign(m).by = m.by
  BY <1>6 DEF M!Sign, M!Bytes
<1> QED BY <1>5, <1>6 DEF M!ManifestOf

(* A step of Seal that leaves the artifact alone.                          *)
LEMMA QuietSeal ==
  ASSUME ManifestInv, NEW s \in Sealers, NEW x \in M!Sealing, seal' = [seal EXCEPT ![s] = x],
         UNCHANGED <<dir, mf, sig, ver, signed, sealed>>, writes' \in Nat, ioFaults' \in Nat,
         seal[s].pc # "done", x.pc \in {"hash", "failed"},
         x.steady /\ x.pc = "hash" =>
             x.rest \subseteq M!Listed /\ Read(x.files, M!Listed \ x.rest)
  PROVE  ManifestInv'
<1> USE DEF ManifestInv
<1>1. seal \in [Sealers -> M!Sealing] /\ sealed # s
  BY ReleaseAssumption DEF M!TypeOK, Holds, M!ArtifactAssumption, M!None, None
<1>2. seal'[s] = x /\ \A t \in Sealers \ {s} : seal'[t] = seal[t]
  BY <1>1
<1>3. M!TypeOK'
  <2>1. seal' \in [Sealers -> M!Sealing]
    BY <1>1
  <2> QED BY <2>1 DEF M!TypeOK
<1>4. M!Listed' = M!Listed /\ \A f, S : Read(f, S)' <=> Read(f, S)
  BY DEF M!Listed, Read, Snapshot, M!Regular
<1>5. \A t \in Sealers \ {s} : M!ManifestOf(t)' = M!ManifestOf(t)
  BY <1>2 DEF M!ManifestOf
<1>6. Signatures'
  BY <1>2, <1>5 DEF Signatures
<1>7. Seals'
  <2>1. ASSUME x.steady PROVE Sees(s)'
    BY <1>2, <1>4, <2>1 DEF Sees
  <2>2. ASSUME NEW t \in Sealers \ {s} PROVE Sees(t)' <=> Sees(t)
    BY <1>2, <1>4, <1>5 DEF Sees
  <2> QED BY <1>2, <2>1, <2>2 DEF Seals
<1>8. Holds'
  BY <1>1, <1>2, <1>4, <1>5 DEF Holds, M!TypeOK, M!None, None
<1>9. \A v \in Runs : Checks(ver[v])'
  BY <1>4 DEF Checks, Snapshot
<1> QED BY <1>3, <1>6, <1>7, <1>8, <1>9

(* A step of Seal that writes one of the two files.                        *)
LEMMA LoudSeal ==
  ASSUME ManifestInv, NEW s \in Sealers, NEW x \in M!Sealing, seal' = M!Others(s, x),
         ver' = M!Unsteady, UNCHANGED <<dir, writes, ioFaults>>,
         mf' \in M!Bytes, sig' \in M!Bytes, signed' = signed \cup {M!ManifestOf(s)},
         x.files = seal[s].files, x.pc \notin {"idle", "hash"},
         sig' = sig \/ sig' = M!Sign(M!ManifestOf(s)) \/ sig'.what # "signature",
         x.steady => Sees(s)', sealed' \in {s, None}, sealed' = s => Holds'
  PROVE  ManifestInv'
<1> USE DEF ManifestInv
<1>0. seal \in [Sealers -> M!Sealing] /\ signed \in SUBSET M!Bytes
  BY DEF M!TypeOK
<1>1. ASSUME NEW t \in Sealers, t # s
      PROVE  /\ seal'[t] \in M!Sealing /\ ~seal'[t].steady /\ seal'[t].pc = seal[t].pc
             /\ seal'[t].files = seal[t].files
  <2>1. seal'[t] = [seal[t] EXCEPT !.steady = FALSE]
    BY <1>1 DEF M!Others
  <2> QED BY <2>1, Shaken
<1>2. seal'[s] = x
  BY DEF M!Others
<1>3. seal' \in [Sealers -> M!Sealing]
  BY <1>1, <1>2 DEF M!Others
<1>4. \A t \in Sealers : M!ManifestOf(t)' = M!ManifestOf(t)
  BY <1>1, <1>2 DEF M!ManifestOf
<1>5. M!ManifestOf(s) \in M!Bytes
  BY <1>0, ManifestType
<1>6. M!TypeOK'
  <2>1. sealed' \in Sealers \cup {None}
    OBVIOUS
  <2>2. ver' \in [Runs -> M!Verifying]
    BY ShakenChecks
  <2> QED BY <1>0, <1>3, <1>5, <2>1, <2>2 DEF M!TypeOK, M!None, None
<1>7. Signatures'
  <2>1. \A m \in signed' : m.what = "manifest"
    <3>1. M!ManifestOf(s).what = "manifest"
      BY ManifestType
    <3> QED BY <3>1 DEF Signatures
  <2>2. sig'.what = "signature" => \E m \in signed' : sig' = M!Sign(m)
    <3> DEFINE new == M!ManifestOf(s)
    <3>1. new \in signed' /\ signed \subseteq signed'
      OBVIOUS
    <3>2. CASE sig' = sig
      BY <3>1, <3>2 DEF Signatures
    <3>3. CASE sig' = M!Sign(new)
      BY <3>1, <3>3
    <3> QED
      BY <3>2, <3>3
  <2>3. ASSUME NEW t \in Sealers, seal'[t].pc \in {"write", "open sig", "write sig", "done"}
        PROVE  M!ManifestOf(t)' \in signed'
    BY <1>1, <1>4, <2>3 DEF Signatures
  <2> QED BY <2>1, <2>2, <2>3 DEF Signatures, M!Sign
<1>8. Seals'
  BY <1>1, <1>2 DEF Seals
<1>9. Holds'
  BY DEF Holds
<1>10. \A v \in Runs : Checks(ver[v])'
  BY ShakenChecks
<1> QED BY <1>6, <1>7, <1>8, <1>9, <1>10

(* Only the verification v goes on.                                        *)
LEMMA VerifyStep ==
  ASSUME ManifestInv, NEW v \in Runs, NEW x \in M!Verifying, ver' = [ver EXCEPT ![v] = x],
         UNCHANGED <<dir, mf, sig, seal, signed, sealed>>, writes' \in Nat, ioFaults' \in Nat,
         Checks(x)
  PROVE  ManifestInv'
<1> USE DEF ManifestInv
<1>1. ver \in [Runs -> M!Verifying]
  BY DEF M!TypeOK
<1>2. M!TypeOK'
  <2>1. ver' \in [Runs -> M!Verifying]
    BY <1>1
  <2> QED BY <2>1 DEF M!TypeOK
<1>3. M!Listed' = M!Listed /\ \A S : Snapshot(S)' = Snapshot(S)
  BY DEF M!Listed, Snapshot
<1>4. Signatures'
  BY DEF Signatures, M!ManifestOf
<1>5. Seals'
  BY <1>3 DEF Seals, Sees, Read, M!Regular, M!ManifestOf
<1>6. Holds'
  BY <1>3 DEF Holds, Read, M!Regular, M!ManifestOf
<1>7. ASSUME NEW w \in Runs \ {v} PROVE Checks(ver[w])'
  <2>1. ver'[w] = ver[w] /\ Checks(ver[w])
    BY <1>1
  <2> QED BY <1>3, <2>1 DEF Checks
<1>8. ver'[v] = x /\ Checks(x)'
  BY <1>1, <1>3 DEF Checks
<1> QED BY <1>2, <1>4, <1>5, <1>6, <1>7, <1>8

(* The payload is read file by file.                                       *)
LEMMA ReadOn ==
  ASSUME M!TypeOK, NEW rest \in SUBSET Paths, rest # {}, NEW p, p = M!Min(rest), NEW files
  PROVE  /\ p \in rest /\ p \in Paths
         /\ M!Regular(p) => M!Collected({}, p) \subseteq M!File
         /\ rest \subseteq M!Listed /\ files = Snapshot(M!Listed \ rest) =>
              /\ rest \ {p} \subseteq M!Listed
              /\ M!Collected(files, p) = Snapshot(M!Listed \ (rest \ {p}))
<1>1. p \in rest /\ p \in Paths
  BY MinIn, ReleaseAssumption DEF M!ArtifactAssumption
<1>2. M!Regular(p) => M!Collected({}, p) \subseteq M!File
  BY <1>1 DEF M!Collected, M!Regular, M!File
<1>3. ASSUME rest \subseteq M!Listed, files = Snapshot(M!Listed \ rest)
      PROVE  M!Collected(files, p) = Snapshot(M!Listed \ (rest \ {p}))
  <2>1. M!Listed \ (rest \ {p}) = (M!Listed \ rest) \cup {p}
    BY <1>1, <1>3
  <2>2. Snapshot((M!Listed \ rest) \cup {p}) = Snapshot(M!Listed \ rest) \cup Snapshot({p})
    BY DEF Snapshot
  <2>3. Snapshot({p}) = {[path |-> p, content |-> dir[p]]}
    BY DEF Snapshot
  <2> QED BY <1>3, <2>1, <2>2, <2>3 DEF M!Collected
<1> QED BY <1>1, <1>2, <1>3

LEMMA SealListInv == ASSUME ManifestInv, NEW s \in Sealers, M!SealList(s) PROVE ManifestInv'
<1> DEFINE x == [pc |-> "hash", rest |-> M!Listed, files |-> {}, steady |-> TRUE]
<1>1. x \in M!Sealing
  BY DEF M!Sealing, M!Listed
<1>2. Read(x.files, M!Listed \ x.rest)
  BY DEF Read, Snapshot
<1>3. /\ seal' = [seal EXCEPT ![s] = x] /\ seal[s].pc = "idle"
      /\ UNCHANGED <<dir, mf, sig, ver, signed, sealed, writes, ioFaults>>
  BY DEF M!SealList, M!artifact
<1>4. writes' \in Nat /\ ioFaults' \in Nat
  BY <1>3 DEF ManifestInv, M!TypeOK
<1>5. x.pc = "hash" /\ x.rest = M!Listed
  OBVIOUS
<1> HIDE DEF x
<1> QED BY <1>1, <1>2, <1>3, <1>4, <1>5, QuietSeal

LEMMA SealHashInv == ASSUME ManifestInv, NEW s \in Sealers, M!SealHash(s) PROVE ManifestInv'
<1>0. PICK old, p : old = seal[s] /\ p = M!Min(old.rest)
  OBVIOUS
<1>1. /\ old \in M!Sealing /\ old.pc = "hash" /\ old.rest # {} /\ old.rest \in SUBSET Paths
      /\ old.files \subseteq M!File /\ seal \in [Sealers -> M!Sealing]
  <2>1. seal[s] \in M!Sealing /\ seal \in [Sealers -> M!Sealing]
    BY DEF ManifestInv, M!TypeOK
  <2> QED BY <1>0, <2>1 DEF M!SealHash, M!Sealing
<1>2. UNCHANGED <<dir, mf, sig, ver, signed, sealed, writes, ioFaults>>
  BY DEF M!SealHash, M!artifact
<1>3. writes' \in Nat /\ ioFaults' \in Nat
  BY <1>2 DEF ManifestInv, M!TypeOK
<1>4. CASE M!Regular(p)
  <2> DEFINE x == [old EXCEPT !.rest = old.rest \ {p}, !.files = M!Collected(old.files, p)]
  <2>1. seal' = [seal EXCEPT ![s] = x]
    BY <1>0, <1>1, <1>4 DEF M!SealHash
  <2>2. /\ p \in old.rest /\ M!Collected({}, p) \subseteq M!File
        /\ old.rest \subseteq M!Listed /\ old.files = Snapshot(M!Listed \ old.rest) =>
              /\ old.rest \ {p} \subseteq M!Listed
              /\ M!Collected(old.files, p) = Snapshot(M!Listed \ (old.rest \ {p}))
    BY <1>0, <1>1, <1>4, ReadOn DEF ManifestInv
  <2>3. M!Collected(old.files, p) \subseteq M!File
    BY <1>1, <2>2 DEF M!Collected
  <2>4. /\ x \in M!Sealing /\ x.pc = "hash" /\ x.rest = old.rest \ {p}
        /\ x.files = M!Collected(old.files, p) /\ x.steady = old.steady
    BY <1>1, <2>3 DEF M!Sealing
  <2>5. ASSUME x.steady PROVE x.rest \subseteq M!Listed /\ Read(x.files, M!Listed \ x.rest)
    <3>1. old.rest \subseteq M!Listed /\ Read(old.files, M!Listed \ old.rest)
      BY <1>0, <1>1, <2>4, <2>5 DEF ManifestInv, Seals, Sees
    <3> QED BY <1>4, <2>2, <2>4, <3>1 DEF Read
  <2> HIDE DEF x
  <2> QED BY <1>0, <1>1, <1>2, <1>3, <2>1, <2>4, <2>5, QuietSeal
<1>5. CASE ~M!Regular(p)
  <2> DEFINE x == [old EXCEPT !.pc = "failed"]
  <2>1. seal' = [seal EXCEPT ![s] = x]
    BY <1>0, <1>1, <1>5 DEF M!SealHash
  <2>2. x \in M!Sealing /\ x.pc = "failed"
    BY <1>1 DEF M!Sealing
  <2> HIDE DEF x
  <2> QED BY <1>0, <1>1, <1>2, <1>3, <2>1, <2>2, QuietSeal
<1> QED BY <1>4, <1>5

LEMMA SealFailsInv == ASSUME ManifestInv, NEW s \in Sealers, M!SealFails(s) PROVE ManifestInv'
<1> DEFINE x == [seal[s] EXCEPT !.pc = "failed"]
<1>1. seal[s] \in M!Sealing /\ seal \in [Sealers -> M!Sealing]
  BY DEF ManifestInv, M!TypeOK
<1>2. x \in M!Sealing /\ x.pc = "failed"
  BY <1>1 DEF M!Sealing
<1>3. /\ seal' = [seal EXCEPT ![s] = x] /\ seal[s].pc # "done"
      /\ UNCHANGED <<dir, mf, sig, ver, signed, sealed, writes>> /\ ioFaults' = ioFaults + 1
  BY <1>1 DEF M!SealFails, M!Fault, M!artifact
<1>4. writes' \in Nat /\ ioFaults' \in Nat
  BY <1>3 DEF ManifestInv, M!TypeOK
<1> HIDE DEF x
<1> QED BY <1>2, <1>3, <1>4, QuietSeal

(* What the four writes of Seal have in common.                            *)
LEMMA LoudFacts ==
  ASSUME NEW s \in Sealers, NEW x, x.files = seal[s].files, seal' = M!Others(s, x), UNCHANGED dir
  PROVE  /\ seal'[s] = x /\ M!ManifestOf(s)' = M!ManifestOf(s)
         /\ \A f : Read(f, M!Listed)' <=> Read(f, M!Listed)
<1>1. seal'[s] = x
  BY DEF M!Others
<1>2. M!ManifestOf(s)' = M!ManifestOf(s)
  BY <1>1 DEF M!ManifestOf
<1>3. \A f : Read(f, M!Listed)' <=> Read(f, M!Listed)
  BY DEF Read, Snapshot, M!Listed, M!Regular
<1> QED BY <1>1, <1>2, <1>3

LEMMA SignedOf ==
  ASSUME ManifestInv, NEW s \in Sealers, seal[s].pc \in {"write", "open sig", "write sig"}
  PROVE  signed = signed \cup {M!ManifestOf(s)}
<1> QED BY DEF ManifestInv, Signatures

LEMMA EmptyType ==
  ASSUME NEW what \in {"absent", "empty", "torn"}
  PROVE  M!No(what) \in M!Bytes /\ M!No(what).what = what
<1> QED BY DEF M!No, M!Bytes, M!None

LEMMA SealOpenInv == ASSUME ManifestInv, NEW s \in Sealers, M!SealOpen(s) PROVE ManifestInv'
<1> DEFINE x == [seal[s] EXCEPT !.pc = "write"]
<1>0. /\ x \in M!Sealing /\ x.pc = "write" /\ x.files = seal[s].files
      /\ x.steady = seal[s].steady
  <2>1. seal[s] \in M!Sealing
    BY DEF ManifestInv, M!TypeOK
  <2> QED BY <2>1 DEF M!Sealing
<1>1. /\ seal[s].pc = "hash" /\ seal[s].rest = {} /\ mf' = M!No("empty")
      /\ seal' = M!Others(s, x) /\ ver' = M!Unsteady
      /\ signed' = signed \cup {M!ManifestOf(s)} /\ sealed' = None
      /\ UNCHANGED <<dir, sig, writes, ioFaults>>
  BY DEF M!SealOpen, M!Opened, M!None, None
<1> HIDE DEF x
<1>2. /\ seal'[s] = x
      /\ \A f : Read(f, M!Listed)' <=> Read(f, M!Listed)
  BY <1>0, <1>1, LoudFacts
<1>3. ASSUME x.steady PROVE Sees(s)'
  <2>1. Read(seal[s].files, M!Listed)
    BY <1>0, <1>1, <1>3 DEF ManifestInv, Seals, Sees
  <2> QED BY <1>0, <1>1, <1>2, <2>1 DEF Sees
<1>4. mf' \in M!Bytes /\ sig' \in M!Bytes
  BY <1>1, EmptyType DEF ManifestInv, M!TypeOK
<1>5. sealed' # s
  BY <1>1, ReleaseAssumption DEF M!ArtifactAssumption, M!None, None
<1> QED BY <1>0, <1>1, <1>2, <1>3, <1>4, <1>5, LoudSeal

LEMMA SealWriteInv == ASSUME ManifestInv, NEW s \in Sealers, M!SealWrite(s) PROVE ManifestInv'
<1> DEFINE x == [seal[s] EXCEPT !.pc = "open sig"]
<1>0. /\ x \in M!Sealing /\ x.pc = "open sig" /\ x.files = seal[s].files
      /\ x.steady = seal[s].steady
  <2>1. seal[s] \in M!Sealing
    BY DEF ManifestInv, M!TypeOK
  <2> QED BY <2>1 DEF M!Sealing
<1>1. /\ seal[s].pc = "write" /\ mf' \in M!Written(mf, M!ManifestOf(s))
      /\ seal' = M!Others(s, x) /\ ver' = M!Unsteady /\ signed' = signed /\ sealed' = None
      /\ UNCHANGED <<dir, sig, writes, ioFaults>>
  BY DEF M!SealWrite, M!None, None
<1> HIDE DEF x
<1>2. /\ seal'[s] = x /\ M!ManifestOf(s)' = M!ManifestOf(s)
      /\ \A f : Read(f, M!Listed)' <=> Read(f, M!Listed)
  BY <1>0, <1>1, LoudFacts
<1>3. ASSUME x.steady PROVE Sees(s)'
  <2>1. Read(seal[s].files, M!Listed) /\ mf = M!No("empty")
    BY <1>0, <1>1, <1>3 DEF ManifestInv, Seals, Sees
  <2>2. mf' = M!ManifestOf(s)
    BY <1>1, <2>1 DEF M!Written
  <2> QED BY <1>0, <1>1, <1>2, <2>1, <2>2 DEF Sees
<1>4. mf' \in M!Bytes /\ sig' \in M!Bytes
  <2>1. mf \in M!Bytes /\ sig \in M!Bytes /\ M!ManifestOf(s) \in M!Bytes /\ M!No("torn") \in M!Bytes
    BY EmptyType, ManifestType DEF ManifestInv, M!TypeOK
  <2> QED BY <1>1, <2>1 DEF M!Written
<1>5. sealed' # s /\ signed' = signed \cup {M!ManifestOf(s)}
  BY <1>1, SignedOf, ReleaseAssumption DEF M!ArtifactAssumption, M!None, None
<1> QED BY <1>0, <1>1, <1>2, <1>3, <1>4, <1>5, LoudSeal

LEMMA SealOpenSignatureInv ==
  ASSUME ManifestInv, NEW s \in Sealers, M!SealOpenSignature(s) PROVE ManifestInv'
<1> DEFINE x == [seal[s] EXCEPT !.pc = "write sig"]
<1>0. /\ x \in M!Sealing /\ x.pc = "write sig" /\ x.files = seal[s].files
      /\ x.steady = seal[s].steady
  <2>1. seal[s] \in M!Sealing
    BY DEF ManifestInv, M!TypeOK
  <2> QED BY <2>1 DEF M!Sealing
<1>1. /\ seal[s].pc = "open sig" /\ sig' = M!No("empty")
      /\ seal' = M!Others(s, x) /\ ver' = M!Unsteady /\ signed' = signed /\ sealed' = None
      /\ UNCHANGED <<dir, mf, writes, ioFaults>>
  BY DEF M!SealOpenSignature, M!Opened, M!None, None
<1> HIDE DEF x
<1>2. /\ seal'[s] = x /\ M!ManifestOf(s)' = M!ManifestOf(s)
      /\ \A f : Read(f, M!Listed)' <=> Read(f, M!Listed)
  BY <1>0, <1>1, LoudFacts
<1>3. ASSUME x.steady PROVE Sees(s)'
  <2>1. Read(seal[s].files, M!Listed) /\ mf = M!ManifestOf(s)
    BY <1>0, <1>1, <1>3 DEF ManifestInv, Seals, Sees
  <2> QED BY <1>0, <1>1, <1>2, <2>1 DEF Sees
<1>4. mf' \in M!Bytes /\ sig' \in M!Bytes /\ sig'.what # "signature"
  BY <1>1, EmptyType DEF ManifestInv, M!TypeOK
<1>5. sealed' # s /\ signed' = signed \cup {M!ManifestOf(s)}
  BY <1>1, SignedOf, ReleaseAssumption DEF M!ArtifactAssumption, M!None, None
<1> QED BY <1>0, <1>1, <1>2, <1>3, <1>4, <1>5, LoudSeal

LEMMA SealWriteSignatureInv ==
  ASSUME ManifestInv, NEW s \in Sealers, M!SealWriteSignature(s) PROVE ManifestInv'
<1> DEFINE x == [seal[s] EXCEPT !.pc = "done"]
<1>0. /\ x \in M!Sealing /\ x.pc = "done" /\ x.files = seal[s].files
      /\ x.steady = seal[s].steady
  <2>1. seal[s] \in M!Sealing
    BY DEF ManifestInv, M!TypeOK
  <2> QED BY <2>1 DEF M!Sealing
<1>1. /\ seal[s].pc = "write sig" /\ sig' \in M!Written(sig, M!Sign(M!ManifestOf(s)))
      /\ seal' = M!Others(s, x) /\ ver' = M!Unsteady /\ signed' = signed
      /\ sealed' = (IF seal[s].steady THEN s ELSE None)
      /\ UNCHANGED <<dir, mf, writes, ioFaults>>
  BY DEF M!SealWriteSignature, M!None, None
<1> HIDE DEF x
<1>2. /\ seal'[s] = x /\ M!ManifestOf(s)' = M!ManifestOf(s)
      /\ \A f : Read(f, M!Listed)' <=> Read(f, M!Listed)
  BY <1>0, <1>1, LoudFacts
<1>3. Sees(s)'
  BY <1>0, <1>2 DEF Sees
<1>4. mf' \in M!Bytes /\ sig' \in M!Bytes
      /\ (sig' = sig \/ sig' = M!Sign(M!ManifestOf(s)) \/ sig'.what # "signature")
  <2>1. /\ mf \in M!Bytes /\ sig \in M!Bytes /\ M!Sign(M!ManifestOf(s)) \in M!Bytes
        /\ M!No("torn") \in M!Bytes /\ M!No("torn").what = "torn"
    BY EmptyType, ManifestType DEF ManifestInv, M!TypeOK
  <2> QED BY <1>1, <2>1 DEF M!Written
<1>5. ASSUME sealed' = s PROVE Holds'
  <2>1. seal[s].steady
    BY <1>1, <1>5, ReleaseAssumption DEF M!ArtifactAssumption, M!None, None
  <2>2. Read(seal[s].files, M!Listed) /\ mf = M!ManifestOf(s) /\ sig = M!No("empty")
    BY <1>1, <2>1 DEF ManifestInv, Seals, Sees
  <2>3. sig' = M!Sign(M!ManifestOf(s))
    BY <1>1, <2>2 DEF M!Written
  <2>4. M!Sign(M!ManifestOf(s))' = M!Sign(M!ManifestOf(s))
    BY <1>2 DEF M!Sign
  <2> QED BY <1>0, <1>1, <1>2, <1>5, <2>2, <2>3, <2>4 DEF Holds
<1>6. signed' = signed \cup {M!ManifestOf(s)} /\ sealed' \in {s, None}
  BY <1>1, SignedOf
<1> QED BY <1>0, <1>1, <1>2, <1>3, <1>4, <1>5, <1>6, LoudSeal

(* The pipeline changes the artifact.                                      *)
LEMMA DisturbInv ==
  ASSUME ManifestInv, M!Disturb,
         dir' \in [Paths -> Contents \cup {M!Absent, M!Link}], mf' \in M!Bytes, sig' \in M!Bytes,
         sig' = sig \/ sig'.what # "signature" \/ \E m \in signed : sig' = M!Sign(m)
  PROVE  ManifestInv'
<1> USE DEF ManifestInv
<1>1. /\ seal' = [s \in Sealers |-> [seal[s] EXCEPT !.steady = FALSE]] /\ ver' = M!Unsteady
      /\ sealed' = None /\ signed' = signed /\ writes' = writes + 1 /\ ioFaults' = ioFaults
  BY DEF M!Disturb, M!None, None
<1>2. ASSUME NEW s \in Sealers
      PROVE  /\ seal'[s] \in M!Sealing /\ ~seal'[s].steady /\ seal'[s].pc = seal[s].pc
             /\ seal'[s].files = seal[s].files
  BY <1>1, Shaken
<1>3. seal' \in [Sealers -> M!Sealing]
  BY <1>1, <1>2
<1>4. ver' \in [Runs -> M!Verifying] /\ \A v \in Runs : Checks(ver[v])'
  BY <1>1, ShakenChecks
<1>5. M!TypeOK'
  BY <1>1, <1>3, <1>4 DEF M!TypeOK, M!None, None
<1>6. \A s \in Sealers : M!ManifestOf(s)' = M!ManifestOf(s)
  BY <1>2 DEF M!ManifestOf
<1>7. Signatures'
  BY <1>1, <1>2, <1>6 DEF Signatures, M!Sign
<1>8. Seals' /\ Holds'
  BY <1>1, <1>2 DEF Seals, Holds
<1> QED BY <1>4, <1>5, <1>7, <1>8

LEMMA BuildInv == ASSUME ManifestInv, M!Build PROVE ManifestInv'
<1>1. dir' \in [Paths -> Contents \cup {M!Absent, M!Link}] /\ mf' \in M!Bytes /\ sig' \in M!Bytes
  BY DEF ManifestInv, M!TypeOK, M!Build
<1> QED BY <1>1, DisturbInv DEF M!Build

LEMMA TransportInv == ASSUME ManifestInv, M!Transport PROVE ManifestInv'
<1>1. \A m \in M!Bytes : M!Sign(m) \in M!Bytes
  BY DEF M!Sign, M!Bytes
<1>2. /\ M!No("absent") \in M!Bytes /\ M!No("absent").what # "signature"
      /\ mf \in M!Bytes /\ sig \in M!Bytes /\ signed \in SUBSET M!Bytes
      /\ dir' \in [Paths -> Contents \cup {M!Absent, M!Link}]
  BY EmptyType DEF ManifestInv, M!TypeOK, M!Transport
<1>3. mf' \in M!Bytes /\ sig' \in M!Bytes
  BY <1>1, <1>2 DEF M!Transport
<1>4. sig' = sig \/ sig'.what # "signature" \/ \E m \in signed : sig' = M!Sign(m)
  BY <1>2 DEF M!Transport
<1> QED BY <1>2, <1>3, <1>4, DisturbInv DEF M!Transport

LEMMA VerifyReadInv == ASSUME ManifestInv, NEW v \in Runs, M!VerifyRead(v) PROVE ManifestInv'
<1>0. PICK due \in BOOLEAN : due <=> sealed # None /\ KeyOf[sealed] \in Trusted
  OBVIOUS
<1>1. PICK pc : pc = IF mf = M!No("absent") THEN "refused" ELSE "signature"
  OBVIOUS
<1> DEFINE x == [pc |-> pc, rest |-> {}, files |-> {}, mf |-> mf, steady |-> TRUE, due |-> due]
<1>2. ver' = [ver EXCEPT ![v] = x]
  <2>1. due = (sealed # M!None /\ KeyOf[sealed] \in Trusted)
    BY <1>0 DEF None, M!None
  <2> QED BY <1>1, <2>1 DEF M!VerifyRead
<1>3. UNCHANGED <<dir, mf, sig, seal, signed, sealed, writes, ioFaults>>
  BY DEF M!VerifyRead, M!artifact
<1>4. mf \in M!Bytes /\ writes' \in Nat /\ ioFaults' \in Nat
  BY <1>3 DEF ManifestInv, M!TypeOK
<1>5. x \in M!Verifying
  BY <1>1, <1>4 DEF M!Verifying
<1>6. x.pc = pc /\ x.files = {} /\ x.mf = mf /\ x.due = due
  OBVIOUS
<1>7. due => pc # "refused"
  <2>1. ASSUME due PROVE mf # M!No("absent")
    <3>1. mf = M!ManifestOf(sealed) /\ sealed \in Sealers
      BY <1>0, <2>1 DEF ManifestInv, Holds, M!TypeOK, M!None, None
    <3>2. mf.what = "manifest"
      BY <3>1, ManifestType DEF ManifestInv
    <3> QED BY <3>2 DEF M!No
  <2> QED BY <1>1, <2>1
<1> HIDE DEF x
<1>8. Checks(x)
  BY <1>0, <1>1, <1>6, <1>7 DEF Checks
<1> QED BY <1>2, <1>3, <1>4, <1>5, <1>8, VerifyStep

(* Where the verification is due to succeed, it has read what was sealed.  *)
LEMMA DueFacts ==
  ASSUME ManifestInv, NEW v \in Runs, ver[v].steady, ver[v].due, ver[v].pc # "idle"
  PROVE  /\ sealed \in Sealers /\ KeyOf[sealed] \in Trusted /\ ver[v].mf = mf
         /\ mf.what = "manifest" /\ sig = M!Sign(mf) /\ sig.by = sealed
         /\ mf.files = M!Encode(Snapshot(M!Listed)) /\ \A p \in M!Listed : M!Regular(p)
<1>1. /\ sealed # None /\ sealed \in Sealers /\ KeyOf[sealed] \in Trusted /\ ver[v].mf = mf
  BY DEF ManifestInv, Checks, M!TypeOK, M!None, None
<1>2. /\ mf = M!ManifestOf(sealed) /\ sig = M!Sign(M!ManifestOf(sealed))
      /\ Read(seal[sealed].files, M!Listed)
  BY <1>1 DEF ManifestInv, Holds
<1>3. mf.what = "manifest" /\ sig.by = sealed
  BY <1>1, <1>2, ManifestType DEF ManifestInv
<1>4. mf.files = M!Encode(seal[sealed].files)
  BY <1>2 DEF M!ManifestOf
<1> QED BY <1>1, <1>2, <1>3, <1>4 DEF Read

(* A step of VerifyAny that only decides.                                  *)
LEMMA Decides ==
  ASSUME ManifestInv, NEW v \in Runs, NEW pc \in {"list", "accepted", "refused", "failed"},
         ver' = [ver EXCEPT ![v].pc = pc], UNCHANGED <<dir, mf, sig, seal, signed, sealed>>,
         writes' \in Nat, ioFaults' \in Nat, ver[v].pc # "idle",
         pc = "list" => ver[v].pc = "signature" /\ M!Authenticated(v),
         pc = "accepted" => ver[v].pc = "hash" /\ ver[v].rest = {} /\ M!EqualFiles(v),
         pc = "refused" /\ ver[v].steady /\ ver[v].due => M!Listed \cap Mangled # {}
  PROVE  ManifestInv'
<1> DEFINE x == [ver[v] EXCEPT !.pc = pc]
<1>1. ver[v] \in M!Verifying /\ ver \in [Runs -> M!Verifying] /\ Checks(ver[v])
  BY DEF ManifestInv, M!TypeOK
<1>2. /\ x \in M!Verifying /\ x.pc = pc /\ x.files = ver[v].files /\ x.mf = ver[v].mf
      /\ x.steady = ver[v].steady /\ x.due = ver[v].due /\ x.rest = ver[v].rest
  BY <1>1 DEF M!Verifying
<1>3. ver' = [ver EXCEPT ![v] = x]
  BY <1>1
<1> HIDE DEF x
<1>4. ASSUME pc = "list" PROVE ver[v].mf \in signed /\ KeyOf[ver[v].mf.by] \in Trusted
  <2>1. /\ ver[v].mf.what = "manifest" /\ sig = M!Sign(ver[v].mf) /\ KeyOf[sig.by] \in Trusted
        /\ ver[v].mf \in M!Bytes
    BY <1>1, <1>4 DEF M!Authenticated, M!Verifying
  <2>2. sig.what = "signature" /\ sig.by = ver[v].mf.by
    BY <2>1 DEF M!Sign, M!Bytes
  <2>3. PICK m \in signed : m.what = "manifest" /\ M!Sign(m) = M!Sign(ver[v].mf)
    BY <2>1, <2>2 DEF ManifestInv, Signatures
  <2>4. m \in M!Bytes
    BY DEF ManifestInv, M!TypeOK
  <2>5. ASSUME NEW a \in M!Bytes, NEW b \in M!Bytes, a.what = b.what, M!Sign(a) = M!Sign(b)
        PROVE  a = b
    BY <2>5 DEF M!Sign, M!Bytes
  <2>6. m = ver[v].mf
    BY <2>1, <2>3, <2>4, <2>5
  <2> QED BY <2>1, <2>2, <2>6
<1>5. ASSUME pc = "accepted"
      PROVE  /\ ver[v].mf \in signed /\ KeyOf[ver[v].mf.by] \in Trusted
             /\ ver[v].mf.files = ver[v].files
             /\ ver[v].steady => ver[v].files = Snapshot(M!Listed)
  <2>1. M!Listed \ {} = M!Listed
    OBVIOUS
  <2> QED BY <1>1, <1>5, <2>1 DEF Checks, M!EqualFiles
<1>6. pc = "list" => ver[v].files = {}
  BY <1>1 DEF Checks
<1>7. ver[v].steady /\ ver[v].due => sealed # None /\ KeyOf[sealed] \in Trusted /\ ver[v].mf = mf
  BY <1>1 DEF Checks
<1>8. Checks(x)
  BY <1>2, <1>4, <1>5, <1>6, <1>7 DEF Checks
<1> QED BY <1>2, <1>3, <1>8, VerifyStep

LEMMA VerifySignatureInv ==
  ASSUME ManifestInv, NEW v \in Runs, M!VerifySignature(v) PROVE ManifestInv'
<1>1. PICK pc \in {"list", "refused"} : pc = IF M!Authenticated(v) THEN "list" ELSE "refused"
  OBVIOUS
<1>2. /\ ver' = [ver EXCEPT ![v].pc = pc] /\ ver[v].pc = "signature"
      /\ UNCHANGED <<dir, mf, sig, seal, signed, sealed, writes, ioFaults>>
  BY <1>1 DEF M!VerifySignature, M!artifact
<1>3. writes' \in Nat /\ ioFaults' \in Nat
  BY <1>2 DEF ManifestInv, M!TypeOK
<1>4. ver[v].steady /\ ver[v].due => M!Authenticated(v)
  BY <1>2, DueFacts DEF M!Authenticated
<1> QED BY <1>1, <1>2, <1>3, <1>4, Decides

LEMMA VerifyListInv == ASSUME ManifestInv, NEW v \in Runs, M!VerifyList(v) PROVE ManifestInv'
<1> DEFINE x == [ver[v] EXCEPT !.pc = "hash", !.rest = M!Listed]
<1>1. ver[v] \in M!Verifying /\ ver \in [Runs -> M!Verifying] /\ Checks(ver[v])
  BY DEF ManifestInv, M!TypeOK
<1>2. /\ x \in M!Verifying /\ x.pc = "hash" /\ x.files = ver[v].files /\ x.mf = ver[v].mf
      /\ x.steady = ver[v].steady /\ x.due = ver[v].due /\ x.rest = M!Listed
  BY <1>1 DEF M!Verifying, M!Listed
<1>3. /\ ver' = [ver EXCEPT ![v] = x] /\ ver[v].pc = "list"
      /\ UNCHANGED <<dir, mf, sig, seal, signed, sealed, writes, ioFaults>>
  BY <1>1 DEF M!VerifyList, M!artifact
<1>4. writes' \in Nat /\ ioFaults' \in Nat
  BY <1>3 DEF ManifestInv, M!TypeOK
<1> HIDE DEF x
<1>5. Snapshot(M!Listed \ M!Listed) = {}
  BY DEF Snapshot
<1>6. Checks(x)
  BY <1>1, <1>2, <1>3, <1>5 DEF Checks
<1> QED BY <1>2, <1>3, <1>4, <1>6, VerifyStep

LEMMA VerifyHashInv == ASSUME ManifestInv, NEW v \in Runs, M!VerifyHash(v) PROVE ManifestInv'
<1>0. PICK old, p : old = ver[v] /\ p = M!Min(old.rest)
  OBVIOUS
<1>1. /\ old \in M!Verifying /\ old.pc = "hash" /\ old.rest # {} /\ old.rest \in SUBSET Paths
      /\ old.files \subseteq M!File /\ ver \in [Runs -> M!Verifying] /\ Checks(old)
  <2>1. ver[v] \in M!Verifying /\ ver \in [Runs -> M!Verifying] /\ Checks(ver[v])
    BY DEF ManifestInv, M!TypeOK
  <2> QED BY <1>0, <2>1 DEF M!VerifyHash, M!Verifying
<1>2. UNCHANGED <<dir, mf, sig, seal, signed, sealed, writes, ioFaults>>
  BY DEF M!VerifyHash, M!artifact
<1>3. writes' \in Nat /\ ioFaults' \in Nat
  BY <1>2 DEF ManifestInv, M!TypeOK
<1>4. /\ p \in old.rest
      /\ M!Regular(p) => M!Collected({}, p) \subseteq M!File
      /\ old.rest \subseteq M!Listed /\ old.files = Snapshot(M!Listed \ old.rest) =>
            /\ old.rest \ {p} \subseteq M!Listed
            /\ M!Collected(old.files, p) = Snapshot(M!Listed \ (old.rest \ {p}))
  BY <1>0, <1>1, ReadOn DEF ManifestInv
<1>5. CASE M!Regular(p)
  <2> DEFINE x == [old EXCEPT !.rest = old.rest \ {p}, !.files = M!Collected(old.files, p)]
  <2>1. ver' = [ver EXCEPT ![v] = x]
    BY <1>0, <1>1, <1>5 DEF M!VerifyHash
  <2>2. M!Collected(old.files, p) \subseteq M!File
    BY <1>1, <1>4, <1>5 DEF M!Collected
  <2>3. /\ x \in M!Verifying /\ x.pc = "hash" /\ x.rest = old.rest \ {p}
        /\ x.files = M!Collected(old.files, p) /\ x.steady = old.steady
        /\ x.mf = old.mf /\ x.due = old.due
    BY <1>1, <2>2 DEF M!Verifying
  <2> HIDE DEF x
  <2>4. Checks(x)
    BY <1>1, <1>4, <2>3 DEF Checks
  <2> QED BY <1>2, <1>3, <2>1, <2>3, <2>4, VerifyStep
<1>6. CASE ~M!Regular(p)
  <2>1. ver' = [ver EXCEPT ![v].pc = "refused"]
    BY <1>0, <1>1, <1>6 DEF M!VerifyHash
  <2>2. ~(ver[v].steady /\ ver[v].due)
    <3>1. ASSUME ver[v].steady, ver[v].due PROVE FALSE
      <4>1. \A q \in M!Listed : M!Regular(q)
        BY <1>0, <1>1, <3>1, DueFacts
      <4>2. p \in M!Listed
        BY <1>0, <1>1, <1>4, <3>1 DEF Checks
      <4> QED BY <1>6, <4>1, <4>2
    <3> QED BY <3>1
  <2> QED BY <1>0, <1>1, <1>2, <1>3, <2>1, <2>2, Decides
<1> QED BY <1>5, <1>6

(* Of names that are UTF-8 the JSON keeps everything.                      *)
LEMMA EncodeSame ==
  ASSUME M!Listed \cap Mangled = {} PROVE M!Encode(Snapshot(M!Listed)) = Snapshot(M!Listed)
<1>1. ASSUME NEW f \in Snapshot(M!Listed)
      PROVE  [f EXCEPT !.path = IF @ \in Mangled THEN 0 ELSE @] = f
  <2>1. PICK p \in M!Listed : f = [path |-> p, content |-> dir[p]]
    BY DEF Snapshot
  <2>2. p \notin Mangled
    OBVIOUS
  <2> QED BY <2>1, <2>2
<1> QED BY <1>1 DEF M!Encode

LEMMA VerifyCompareInv ==
  ASSUME ManifestInv, NEW v \in Runs, M!VerifyCompare(v) PROVE ManifestInv'
<1>1. PICK pc \in {"accepted", "refused"} : pc = IF M!EqualFiles(v) THEN "accepted" ELSE "refused"
  OBVIOUS
<1>2. /\ ver' = [ver EXCEPT ![v].pc = pc] /\ ver[v].pc = "hash" /\ ver[v].rest = {}
      /\ UNCHANGED <<dir, mf, sig, seal, signed, sealed, writes, ioFaults>>
  BY <1>1 DEF M!VerifyCompare, M!artifact
<1>3. writes' \in Nat /\ ioFaults' \in Nat
  BY <1>2 DEF ManifestInv, M!TypeOK
<1>4. ASSUME ver[v].steady, ver[v].due, M!Listed \cap Mangled = {} PROVE M!EqualFiles(v)
  <2>1. M!Listed \ {} = M!Listed /\ Checks(ver[v])
    BY DEF ManifestInv
  <2>2. ver[v].files = Snapshot(M!Listed)
    BY <1>2, <1>4, <2>1 DEF Checks
  <2>3. ver[v].mf.files = M!Encode(Snapshot(M!Listed))
    BY <1>2, <1>4, DueFacts
  <2> QED BY <1>4, <2>2, <2>3, EncodeSame DEF M!EqualFiles
<1> QED BY <1>1, <1>2, <1>3, <1>4, Decides

LEMMA VerifyFailsInv == ASSUME ManifestInv, NEW v \in Runs, M!VerifyFails(v) PROVE ManifestInv'
<1>1. /\ ver' = [ver EXCEPT ![v].pc = "failed"] /\ ver[v].pc # "idle"
      /\ UNCHANGED <<dir, mf, sig, seal, signed, sealed, writes>> /\ ioFaults' = ioFaults + 1
  BY DEF M!VerifyFails, M!artifact, M!Fault
<1>2. writes' \in Nat /\ ioFaults' \in Nat
  BY <1>1 DEF ManifestInv, M!TypeOK
<1> QED BY <1>1, <1>2, Decides

LEMMA ManifestStep == ManifestInv /\ [M!Next]_(M!vars) => ManifestInv'
<1> SUFFICES ASSUME ManifestInv, [M!Next]_(M!vars) PROVE ManifestInv'
  OBVIOUS
<1>1. ASSUME NEW s \in Sealers, M!Seal(s) PROVE ManifestInv'
  BY <1>1, SealListInv, SealHashInv, SealOpenInv, SealWriteInv, SealOpenSignatureInv,
     SealWriteSignatureInv, SealFailsInv DEF M!Seal
<1>2. ASSUME NEW v \in Runs, M!VerifyAny(v) PROVE ManifestInv'
  BY <1>2, VerifyReadInv, VerifySignatureInv, VerifyListInv, VerifyHashInv, VerifyCompareInv,
     VerifyFailsInv DEF M!VerifyAny
<1>3. CASE UNCHANGED M!vars
  <2>1. UNCHANGED <<dir, mf, sig, seal, ver, signed, sealed, writes, ioFaults>>
    BY <1>3 DEF M!vars, M!artifact
  <2>2. M!Listed' = M!Listed /\ \A S : Snapshot(S)' = Snapshot(S)
    BY <2>1 DEF M!Listed, Snapshot
  <2>3. M!TypeOK' /\ Signatures'
    BY <2>1 DEF ManifestInv, M!TypeOK, Signatures, M!ManifestOf
  <2>4. Seals' /\ Holds'
    BY <2>1, <2>2 DEF ManifestInv, Seals, Sees, Holds, Read, M!Regular, M!ManifestOf
  <2>5. \A v \in Runs : Checks(ver[v])'
    BY <2>1, <2>2 DEF ManifestInv, Checks
  <2> QED BY <2>3, <2>4, <2>5 DEF ManifestInv
<1> QED BY <1>1, <1>2, <1>3, BuildInv, TransportInv DEF M!Next

LEMMA ManifestInvariance == ReleaseSpec => []ManifestInv
<1>1. M!Init /\ [][M!Next]_(M!vars) => []ManifestInv
  BY InitManifest, ManifestStep, PTL
<1> QED BY <1>1, RefinesManifest, PTL DEF M!Spec
-------------------------------------------------------------------------------
(* Copies(d): what run d is copying or has copied.                         *)
Copies(d) ==
    /\ run[d].pc \notin {"idle", "exit", "dead"} => ver[d].pc = "accepted"
    /\ run[d].pc = "copy" /\ ver[d].steady =>
           copy[d].rest \subseteq M!Listed /\ copy[d].files = Snapshot(M!Listed \ copy[d].rest)
    /\ run[d].pc = "install" /\ copy[d].steady => copy[d].files = ver[d].mf.files

CopyType == copy \in [Runs -> Tree] /\ tree \in [Revisions -> Tree]

ReleaseInv == CopyType /\ (\A d \in Runs : Copies(d)) /\ InstalledAsSigned

LEMMA InitRelease == ReleaseInit => ReleaseInv
<1> SUFFICES ASSUME ReleaseInit PROVE ReleaseInv
  OBVIOUS
<1>1. Nothing \in Tree /\ ~Nothing.steady
  BY DEF Nothing, Tree
<1>2. CopyType
  BY <1>1 DEF ReleaseInit, CopyType
<1>3. \A d \in Runs : run[d].pc = "idle"
  BY DEF ReleaseInit, Init, Fresh
<1>4. \A d \in Runs : Copies(d)
  BY <1>3 DEF Copies
<1>5. InstalledAsSigned
  BY <1>1 DEF ReleaseInit, InstalledAsSigned
<1> QED BY <1>2, <1>4, <1>5 DEF ReleaseInv

(* Only what concerns run d changes, and nothing it has installed.         *)
LEMMA RunStep ==
  ASSUME ReleaseInv, NEW d \in Runs,
         \A e \in Runs \ {d} : run'[e] = run[e] /\ ver'[e] = ver[e] /\ copy'[e] = copy[e],
         UNCHANGED <<dir, signed>>, CopyType', Copies(d)', InstalledAsSigned'
  PROVE  ReleaseInv'
<1>1. M!Listed' = M!Listed /\ \A S : Snapshot(S)' = Snapshot(S)
  BY DEF M!Listed, Snapshot
<1>2. ASSUME NEW e \in Runs \ {d} PROVE Copies(e)'
  <2>1. Copies(e)
    BY DEF ReleaseInv
  <2> QED BY <1>1, <2>1 DEF Copies
<1> QED BY <1>2 DEF ReleaseInv

LEMMA InstalledSame ==
  ASSUME ReleaseInv, UNCHANGED <<release, tree>>, signed \subseteq signed' PROVE InstalledAsSigned'
<1> QED BY DEF ReleaseInv, InstalledAsSigned

LEMMA PipelineStep == ASSUME ManifestInv, ReleaseInv, Pipeline PROVE ReleaseInv'
<1>1. UNCHANGED <<rev, serial, release, current, service, run, faults, copy, tree>>
  BY DEF Pipeline, vars
<1>2. signed \subseteq signed' /\ (ver' = M!Unsteady \/ UNCHANGED <<ver, dir>>)
  <2>1. ASSUME NEW s \in Sealers, M!Seal(s)
        PROVE  signed \subseteq signed' /\ (ver' = M!Unsteady \/ UNCHANGED <<ver, dir>>)
    BY <2>1 DEF M!Seal, M!SealList, M!SealHash, M!SealOpen, M!SealWrite, M!SealOpenSignature,
                M!SealWriteSignature, M!SealFails, M!artifact
  <2>2. M!Build \/ M!Transport => signed \subseteq signed' /\ ver' = M!Unsteady
    BY DEF M!Build, M!Transport, M!Disturb
  <2> QED BY <2>1, <2>2 DEF Pipeline
<1>3. CopyType'
  BY <1>1 DEF ReleaseInv, CopyType
<1>4. InstalledAsSigned'
  BY <1>1, <1>2, InstalledSame
<1>5. ASSUME NEW d \in Runs PROVE Copies(d)'
  <2>1. Copies(d)
    BY DEF ReleaseInv
  <2>2. CASE UNCHANGED <<ver, dir>>
    <3>1. M!Listed' = M!Listed /\ \A S : Snapshot(S)' = Snapshot(S)
      BY <2>2 DEF M!Listed, Snapshot
    <3> QED BY <1>1, <2>1, <2>2, <3>1 DEF Copies
  <2>3. CASE ver' = M!Unsteady
    <3>1. ver'[d] = [ver[d] EXCEPT !.steady = FALSE]
      BY <2>3 DEF M!Unsteady
    <3>2. ~ver'[d].steady /\ ver'[d].pc = ver[d].pc /\ ver'[d].mf = ver[d].mf
      BY <3>1, Shaken DEF ManifestInv
    <3> QED BY <1>1, <2>1, <3>2 DEF Copies
  <2> QED BY <1>2, <2>2, <2>3
<1> QED BY <1>3, <1>4, <1>5 DEF ReleaseInv

LEMMA VerifyCase == ASSUME ManifestInv, ReleaseInv, NEW d \in Runs, Verify(d) PROVE ReleaseInv'
<1>1. UNCHANGED <<rev, serial, release, current, service, run, faults, copy, tree>>
      /\ run[d].pc = "idle"
  BY DEF Verify, vars, At
<1>2. UNCHANGED <<dir, signed>> /\ \A e \in Runs \ {d} : ver'[e] = ver[e]
  <2>1. ver \in [Runs -> M!Verifying]
    BY DEF ManifestInv, M!TypeOK
  <2>2. M!VerifyAny(d)
    BY DEF Verify
  <2>3. CASE M!VerifyHash(d)
    BY <2>1, <2>3 DEF M!VerifyHash, M!artifact
  <2>4. CASE M!VerifyRead(d) \/ M!VerifySignature(d) \/ M!VerifyCompare(d) \/ M!VerifyFails(d)
    BY <2>1, <2>4 DEF M!VerifyRead, M!VerifySignature, M!VerifyCompare, M!VerifyFails, M!artifact
  <2>5. CASE M!VerifyList(d)
    BY <2>1, <2>5 DEF M!VerifyList, M!artifact
  <2> QED BY <2>2, <2>3, <2>4, <2>5 DEF M!VerifyAny
<1>3. CopyType'
  BY <1>1 DEF ReleaseInv, CopyType
<1>4. InstalledAsSigned'
  BY <1>1, <1>2, InstalledSame
<1>5. Copies(d)'
  BY <1>1 DEF Copies
<1> QED BY <1>1, <1>2, <1>3, <1>4, <1>5, RunStep

LEMMA PcAfterGoto ==
  ASSUME TypeOK, NEW d \in Runs, NEW pc, Goto(d, pc)
  PROVE  run'[d].pc = pc /\ \A e \in Runs \ {d} : run'[e] = run[e]
<1>1. run \in [Runs -> Shell] /\ run[d] \in Shell
  BY DEF TypeOK
<1> QED BY <1>1 DEF Goto, Shell

LEMMA PcAfterSet ==
  ASSUME TypeOK, NEW d \in Runs, NEW s, Set(d, s)
  PROVE  run'[d] = s /\ \A e \in Runs \ {d} : run'[e] = run[e]
<1> QED BY DEF Set, TypeOK

LEMMA PcAfterExit ==
  ASSUME IInv, NEW d \in Runs,
         NEW out \in {"refused", "deployed", "rolled back", "incomplete"}, Exit(d, out)
  PROVE  run'[d].pc = "exit" /\ \A e \in Runs \ {d} : run'[e] = run[e]
<1> DEFINE b == Cleaned(run[d])
           s == [b EXCEPT !.pc = "exit", !.out = out]
<1>1. run \in [Runs -> Shell] /\ run[d] \in Shell
  BY DEF IInv, TypeOK
<1>2. b \in Shell
  BY <1>1 DEF Cleaned, Shell
<1>3. run' = [run EXCEPT ![d] = s]
  BY DEF Exit, Set
<1> HIDE DEF b
<1>4. s.pc = "exit"
  BY <1>2 DEF Shell
<1> HIDE DEF s
<1> QED BY <1>1, <1>3, <1>4

LEMMA StartCase ==
  ASSUME IInv, ManifestInv, ReleaseInv, NEW d \in Runs, StartVerified(d) PROVE ReleaseInv'
<1>1. /\ UNCHANGED <<dir, signed, ver, copy, tree, release>>
      /\ Start(d) /\ (run'[d].pc = "check" => ver[d].pc = "accepted")
  BY DEF StartVerified, Proceeds, pipeline, Start
<1>2. run'[d].pc \in {"check", "exit"} /\ \A e \in Runs \ {d} : run'[e] = run[e]
  <2>1. Goto(d, "check") \/ Exit(d, "refused")
    BY <1>1 DEF Start
  <2> QED BY <2>1, PcAfterGoto, PcAfterExit DEF IInv
<1>3. CopyType'
  BY <1>1 DEF ReleaseInv, CopyType
<1>4. InstalledAsSigned'
  BY <1>1, InstalledSame
<1>5. Copies(d)'
  BY <1>1, <1>2 DEF Copies
<1> QED BY <1>1, <1>2, <1>3, <1>4, <1>5, RunStep

LEMMA StageCase ==
  ASSUME IInv, ManifestInv, ReleaseInv, NEW d \in Runs, StageCopy(d) PROVE ReleaseInv'
<1> DEFINE c == [rest |-> M!Listed, files |-> {}, steady |-> FALSE]
<1>1. /\ UNCHANGED <<dir, signed, ver, tree, release>> /\ copy' = [copy EXCEPT ![d] = c]
      /\ run[d].pc = "stage" /\ Stage(d)
  BY DEF StageCopy, pipeline, Stage, At
<1>2. run'[d].pc \in {"copy", "exit"} /\ \A e \in Runs \ {d} : run'[e] = run[e]
  <2>1. Set(d, [run[d] EXCEPT !.pc = "copy", !.staging = TRUE]) \/ Exit(d, "refused")
    BY <1>1 DEF Stage
  <2>2. PICK s : s = [run[d] EXCEPT !.pc = "copy", !.staging = TRUE]
    OBVIOUS
  <2>3. run[d] \in Shell
    BY DEF IInv, TypeOK
  <2>4. s.pc = "copy"
    BY <2>2, <2>3 DEF Shell
  <2>5. CASE Set(d, s)
    BY <2>4, <2>5, PcAfterSet DEF IInv
  <2> QED BY <2>1, <2>2, <2>5, PcAfterExit
<1>3. c \in Tree /\ c.rest = M!Listed /\ c.files = {}
  BY DEF Tree, M!Listed
<1>4. copy \in [Runs -> Tree] /\ tree \in [Revisions -> Tree]
  BY DEF ReleaseInv, CopyType
<1> HIDE DEF c
<1>5. copy'[d] = c /\ \A e \in Runs \ {d} : copy'[e] = copy[e]
  BY <1>1, <1>4
<1>6. CopyType'
  BY <1>1, <1>3, <1>4 DEF CopyType
<1>7. InstalledAsSigned'
  BY <1>1, InstalledSame
<1>8. Copies(d)'
  <2>1. M!Listed' = M!Listed /\ Snapshot(M!Listed \ M!Listed)' = {}
    BY <1>1 DEF M!Listed, Snapshot
  <2>2. ver[d].pc = "accepted"
    BY <1>1 DEF ReleaseInv, Copies
  <2> QED BY <1>1, <1>2, <1>3, <1>5, <2>1, <2>2 DEF Copies
<1> QED BY <1>1, <1>2, <1>5, <1>6, <1>7, <1>8, RunStep

LEMMA CopyFileCase ==
  ASSUME ManifestInv, ReleaseInv, NEW d \in Runs, CopyFile(d) PROVE ReleaseInv'
<1>1. /\ UNCHANGED <<dir, signed, ver, tree, release, run>> /\ run[d].pc = "copy"
      /\ copy \in [Runs -> Tree] /\ tree \in [Revisions -> Tree] /\ copy[d] \in Tree
  BY DEF CopyFile, pipeline, vars, At, ReleaseInv, CopyType
<1>2. PICK old : old = copy[d]
  OBVIOUS
<1>3. PICK p \in old.rest :
        /\ dir[p] # M!Absent
        /\ copy' = [copy EXCEPT ![d].rest = old.rest \ {p}, ![d].files = M!Collected(old.files, p)]
  BY <1>2 DEF CopyFile
<1> DEFINE c == [old EXCEPT !.rest = old.rest \ {p}, !.files = M!Collected(old.files, p)]
<1>4. copy' = [copy EXCEPT ![d] = c]
  BY <1>1, <1>2, <1>3
<1>5. /\ old \in Tree /\ old.rest \subseteq Paths /\ p \in Paths
      /\ old.files \subseteq [path : Paths, content : Contents \cup {M!Link}]
  BY <1>1, <1>2, <1>3 DEF Tree
<1>6. dir[p] \in Contents \cup {M!Link}
  BY <1>3, <1>5 DEF ManifestInv, M!TypeOK
<1>7. M!Collected(old.files, p) \subseteq [path : Paths, content : Contents \cup {M!Link}]
  BY <1>5, <1>6 DEF M!Collected
<1>8. /\ c \in Tree /\ c.rest = old.rest \ {p} /\ c.files = M!Collected(old.files, p)
      /\ c.steady = old.steady
  BY <1>5, <1>7 DEF Tree
<1> HIDE DEF c
<1>9. copy'[d] = c /\ \A e \in Runs \ {d} : copy'[e] = copy[e]
  BY <1>1, <1>4
<1>10. CopyType'
  BY <1>1, <1>4, <1>8 DEF CopyType
<1>11. InstalledAsSigned'
  BY <1>1, InstalledSame
<1>12. Copies(d)'
  <2>1. Copies(d)
    BY DEF ReleaseInv
  <2>2. ASSUME ver[d].steady
        PROVE  c.rest \subseteq M!Listed /\ c.files = Snapshot(M!Listed \ c.rest)
    <3>1. old.rest \subseteq M!Listed /\ old.files = Snapshot(M!Listed \ old.rest)
      BY <1>1, <1>2, <2>1, <2>2 DEF Copies
    <3>2. M!Listed \ c.rest = (M!Listed \ old.rest) \cup {p}
      BY <1>3, <1>8, <3>1
    <3>3. Snapshot((M!Listed \ old.rest) \cup {p}) = M!Collected(Snapshot(M!Listed \ old.rest), p)
      BY DEF Snapshot, M!Collected
    <3> QED BY <1>8, <3>1, <3>2, <3>3
  <2>3. M!Listed' = M!Listed /\ \A S : Snapshot(S)' = Snapshot(S)
    BY <1>1 DEF M!Listed, Snapshot
  <2> QED BY <1>1, <1>9, <2>1, <2>2, <2>3 DEF Copies
<1> QED BY <1>1, <1>9, <1>10, <1>11, <1>12, RunStep

LEMMA EndCopyCase ==
  ASSUME IInv, ManifestInv, ReleaseInv, NEW d \in Runs, EndCopy(d) PROVE ReleaseInv'
<1>1. /\ UNCHANGED <<dir, signed, ver, tree, release>> /\ run[d].pc = "copy"
      /\ copy' = [copy EXCEPT ![d].steady = ver[d].steady] /\ Copy(d)
      /\ run'[d].pc = "install" => copy[d].rest = {}
  BY DEF EndCopy, pipeline, Copy, At
<1>2. run'[d].pc \in {"install", "exit"} /\ \A e \in Runs \ {d} : run'[e] = run[e]
  <2>1. Goto(d, "install") \/ Exit(d, "refused")
    BY <1>1 DEF Copy
  <2> QED BY <2>1, PcAfterGoto, PcAfterExit DEF IInv
<1>3. copy \in [Runs -> Tree] /\ tree \in [Revisions -> Tree] /\ copy[d] \in Tree
  BY DEF ReleaseInv, CopyType
<1>4. PICK old, now : old = copy[d] /\ now = ver[d].steady
  OBVIOUS
<1>5. now \in BOOLEAN
  <2>1. ver[d] \in M!Verifying
    BY DEF ManifestInv, M!TypeOK
  <2> QED BY <1>4, <2>1 DEF M!Verifying
<1> DEFINE c == [old EXCEPT !.steady = now]
<1>6. copy' = [copy EXCEPT ![d] = c]
  BY <1>1, <1>3, <1>4
<1>7. c \in Tree /\ c.files = old.files /\ c.steady = now
  BY <1>3, <1>4, <1>5 DEF Tree
<1> HIDE DEF c
<1>8. copy'[d] = c /\ \A e \in Runs \ {d} : copy'[e] = copy[e]
  BY <1>3, <1>6
<1>9. CopyType'
  BY <1>1, <1>3, <1>6, <1>7 DEF CopyType
<1>10. InstalledAsSigned'
  BY <1>1, InstalledSame
<1>11. Copies(d)'
  <2>1. Copies(d) /\ Checks(ver[d])
    BY DEF ReleaseInv, ManifestInv
  <2>2. ver[d].pc = "accepted"
    BY <1>1, <2>1 DEF Copies
  <2>3. ASSUME now, run'[d].pc = "install" PROVE c.files = ver[d].mf.files
    <3>1. M!Listed \ {} = M!Listed
      OBVIOUS
    <3>2. copy[d].files = Snapshot(M!Listed)
      BY <1>1, <1>4, <2>1, <2>3, <3>1 DEF Copies
    <3>3. ver[d].mf.files = ver[d].files /\ ver[d].files = Snapshot(M!Listed)
      BY <1>4, <2>1, <2>2, <2>3 DEF Checks
    <3> QED BY <1>4, <1>7, <3>2, <3>3
  <2> QED BY <1>1, <1>2, <1>7, <1>8, <2>2, <2>3 DEF Copies
<1> QED BY <1>1, <1>2, <1>8, <1>9, <1>10, <1>11, RunStep

LEMMA InstallCase ==
  ASSUME IInv, ManifestInv, ReleaseInv, NEW d \in Runs, InstallCopy(d) PROVE ReleaseInv'
<1>1. /\ UNCHANGED <<dir, signed, ver, copy>> /\ run[d].pc = "install" /\ Install(d)
      /\ tree' = IF release' # release /\ ~Exists(rev[d])
                 THEN [tree EXCEPT ![rev[d]] = copy[d]] ELSE tree
  BY DEF InstallCopy, pipeline, Install, At
<1>2. run'[d].pc \in {"link", "exit"} /\ \A e \in Runs \ {d} : run'[e] = run[e]
  <2>1. Set(d, [run[d] EXCEPT !.pc = "link", !.staging = FALSE]) \/ Exit(d, "refused")
    BY <1>1 DEF Install
  <2>2. PICK s : s = [run[d] EXCEPT !.pc = "link", !.staging = FALSE]
    OBVIOUS
  <2>3. run[d] \in Shell
    BY DEF IInv, TypeOK
  <2>4. s.pc = "link"
    BY <2>2, <2>3 DEF Shell
  <2>5. CASE Set(d, s)
    BY <2>4, <2>5, PcAfterSet DEF IInv
  <2> QED BY <2>1, <2>2, <2>5, PcAfterExit
<1>3. /\ copy \in [Runs -> Tree] /\ tree \in [Revisions -> Tree] /\ copy[d] \in Tree
      /\ rev[d] \in Revisions /\ release \in [Revisions -> Release]
  BY DEF ReleaseInv, CopyType, IInv, TypeOK
<1>4. CopyType'
  BY <1>1, <1>3 DEF CopyType
<1>5. ver[d].pc = "accepted" /\ (copy[d].steady => copy[d].files = ver[d].mf.files)
  BY <1>1 DEF ReleaseInv, Copies
<1>6. Copies(d)'
  BY <1>1, <1>2, <1>5 DEF Copies
<1>7. InstalledAsSigned'
  <2>1. release' = [release EXCEPT ![rev[d]] = Moved(d)] \/ release' = release
    BY <1>1 DEF Install
  <2>2. CASE release' = release
    <3>1. tree' = tree
      BY <1>1, <2>2
    <3> QED BY <1>1, <2>2, <3>1, InstalledSame
  <2>3. CASE release' # release /\ Exists(rev[d])
    <3>1. tree' = tree /\ release' = [release EXCEPT ![rev[d]] = Moved(d)]
      BY <1>1, <2>1, <2>3
    <3>2. release'[rev[d]].inside # {}
      <4>1. PICK old : old = release[rev[d]]
        OBVIOUS
      <4>2. old \in Release
        BY <1>3, <4>1
      <4>3. Moved(d) = [old EXCEPT !.inside = old.inside \cup {d}]
        BY <2>3, <4>1 DEF Moved
      <4>4. Moved(d).inside = old.inside \cup {d}
        BY <4>2, <4>3 DEF Release
      <4> QED BY <1>3, <3>1, <4>4
    <3>3. \A r \in Revisions \ {rev[d]} : release'[r] = release[r]
      BY <1>3, <3>1
    <3> QED BY <1>1, <3>1, <3>2, <3>3 DEF ReleaseInv, InstalledAsSigned
  <2>4. CASE release' # release /\ ~Exists(rev[d])
    <3>1. tree' = [tree EXCEPT ![rev[d]] = copy[d]]
          /\ release' = [release EXCEPT ![rev[d]] = Moved(d)]
      BY <1>1, <2>1, <2>4
    <3>2. tree'[rev[d]] = copy[d]
          /\ \A r \in Revisions \ {rev[d]} : release'[r] = release[r] /\ tree'[r] = tree[r]
      BY <1>3, <3>1
    <3>3. ver[d].mf \in signed /\ KeyOf[ver[d].mf.by] \in Trusted
      BY <1>5 DEF ManifestInv, Checks
    <3>4. copy[d].steady => \E m \in signed : KeyOf[m.by] \in Trusted /\ m.files = copy[d].files
      BY <1>5, <3>3
    <3> QED BY <1>1, <3>2, <3>4 DEF ReleaseInv, InstalledAsSigned
  <2> QED BY <2>2, <2>3, <2>4
<1> QED BY <1>1, <1>2, <1>4, <1>6, <1>7, RunStep

(* The other commands of the script touch neither the copies nor the       *)
(* releases, and none of them goes back to the copy.                       *)
LEMMA OtherPc ==
  ASSUME IInv, NEW d \in Runs, Others(d)
  PROVE  /\ run[d].pc \notin {"idle", "exit", "dead"}
         /\ run'[d].pc \notin {"idle", "copy", "install"}
         /\ \A e \in Runs \ {d} : run'[e] = run[e]
         /\ release' = release
<1>0. TypeOK /\ run[d] \in Shell
  BY DEF IInv, TypeOK
<1>1. PICK old : old = run[d]
  OBVIOUS
<1>2. release' = release
  BY DEF Others, Check, ReadCurrent, Link, Rename, Restart, Health, Back, Relink, Restore, Kill,
         Kept
<1>3. run[d].pc \notin {"idle", "exit", "dead"}
  BY DEF Others, Check, ReadCurrent, Link, Rename, Restart, Health, Back, Relink, Restore, Kill,
         At, Active
<1>4. \/ \E out \in {"refused", "deployed", "rolled back", "incomplete"} : Exit(d, out)
      \/ \E pc \in {"read", "health", "back", "restore", "dead"} : Goto(d, pc)
      \/ Set(d, [run[d] EXCEPT !.pc = "stage", !.previous = current])
      \/ Set(d, [run[d] EXCEPT !.pc = "rename", !.next = rev[d]])
      \/ Set(d, [run[d] EXCEPT !.pc = "restart", !.next = None])
      \/ run[d].pc = "health" /\ Set(d, [run[d] EXCEPT !.attempt = Attempts(d)])
      \/ Set(d, [run[d] EXCEPT !.pc = "relink", !.next = Target(d)])
      \/ Set(d, [run[d] EXCEPT !.pc = "restore", !.ok = FALSE])
      \/ Set(d, [run[d] EXCEPT !.pc = "restore", !.next = None])
  BY Zenon DEF Others, Check, ReadCurrent, Link, Rename, Restart, Health, Back, Relink, Restore,
               Kill, At
<1>5. ASSUME NEW s, Set(d, s), s.pc \notin {"idle", "copy", "install"}
      PROVE  /\ run'[d].pc \notin {"idle", "copy", "install"}
             /\ \A e \in Runs \ {d} : run'[e] = run[e]
  BY <1>0, <1>5, PcAfterSet
<1>6. [old EXCEPT !.pc = "stage", !.previous = current].pc = "stage"
      /\ [old EXCEPT !.pc = "rename", !.next = rev[d]].pc = "rename"
      /\ [old EXCEPT !.pc = "restart", !.next = None].pc = "restart"
      /\ [old EXCEPT !.attempt = Attempts(d)].pc = old.pc
      /\ [old EXCEPT !.pc = "relink", !.next = Target(d)].pc = "relink"
      /\ [old EXCEPT !.pc = "restore", !.ok = FALSE].pc = "restore"
      /\ [old EXCEPT !.pc = "restore", !.next = None].pc = "restore"
  BY <1>0, <1>1 DEF Shell
<1>7. run'[d].pc \notin {"idle", "copy", "install"} /\ \A e \in Runs \ {d} : run'[e] = run[e]
  <2>1. CASE \E out \in {"refused", "deployed", "rolled back", "incomplete"} : Exit(d, out)
    BY <2>1, PcAfterExit
  <2>2. CASE \E pc \in {"read", "health", "back", "restore", "dead"} : Goto(d, pc)
    BY <1>0, <2>2, PcAfterGoto
  <2>3. ASSUME NEW s, Set(d, s),
               s.pc \in {"stage", "rename", "restart", "health", "relink", "restore"}
        PROVE  /\ run'[d].pc \notin {"idle", "copy", "install"}
             /\ \A e \in Runs \ {d} : run'[e] = run[e]
    BY <1>5, <2>3
  <2> QED BY <1>1, <1>4, <1>6, <2>1, <2>2, <2>3
<1> QED BY <1>2, <1>3, <1>7

LEMMA OthersCase ==
  ASSUME IInv, ManifestInv, ReleaseInv, NEW d \in Runs, Others(d) PROVE ReleaseInv'
<1>1. UNCHANGED <<dir, signed, ver, copy, tree>>
  BY DEF Others, pipeline
<1>2. /\ run[d].pc \notin {"idle", "exit", "dead"}
      /\ run'[d].pc \notin {"idle", "copy", "install"}
      /\ \A e \in Runs \ {d} : run'[e] = run[e]
      /\ release' = release
  BY OtherPc
<1>3. CopyType'
  BY <1>1 DEF ReleaseInv, CopyType
<1>4. InstalledAsSigned'
  BY <1>1, <1>2, InstalledSame
<1>5. ver[d].pc = "accepted"
  BY <1>2 DEF ReleaseInv, Copies
<1>6. Copies(d)'
  BY <1>1, <1>2, <1>5 DEF Copies
<1> QED BY <1>1, <1>2, <1>3, <1>4, <1>6, RunStep

LEMMA StillCase ==
  ASSUME ReleaseInv, UNCHANGED <<dir, signed, ver, copy, tree, run, release>> PROVE ReleaseInv'
<1>1. CopyType' /\ InstalledAsSigned'
  BY InstalledSame DEF ReleaseInv, CopyType
<1>2. M!Listed' = M!Listed /\ \A S : Snapshot(S)' = Snapshot(S)
  BY DEF M!Listed, Snapshot
<1>3. \A d \in Runs : Copies(d)'
  BY <1>2 DEF ReleaseInv, Copies
<1> QED BY <1>1, <1>3 DEF ReleaseInv

LEMMA ReleaseStep == IInv /\ ManifestInv /\ ReleaseInv /\ [ReleaseNext]_releaseVars => ReleaseInv'
<1> SUFFICES ASSUME IInv, ManifestInv, ReleaseInv, [ReleaseNext]_releaseVars PROVE ReleaseInv'
  OBVIOUS
<1>1. CASE RespawnUnit
  BY <1>1, StillCase DEF RespawnUnit, Respawn, pipeline
<1>2. CASE UNCHANGED releaseVars
  BY <1>2, StillCase DEF releaseVars, pipeline, vars
<1> QED BY <1>1, <1>2, PipelineStep, VerifyCase, StartCase, StageCase, CopyFileCase, EndCopyCase,
           InstallCase, OthersCase DEF ReleaseNext

LEMMA ReleaseInvariance == ReleaseSpec => []ReleaseInv
<1>1. ReleaseSpec => []IInv
  BY RefinesDeploy, Invariance, PTL
<1> QED BY <1>1, ManifestInvariance, InitRelease, ReleaseStep, PTL DEF ReleaseSpec
-------------------------------------------------------------------------------
(* SealThenVerify: as long as nobody disturbs it, a VerifyAny reads what   *)
(* the Seal of a trusted key has written, and finds the files it hashed    *)
(* (Holds, Checks); only names that are not UTF-8 come out different.      *)
THEOREM SealThenVerifyCorrect == ReleaseSpec => []SealThenVerify
<1>1. ManifestInv => SealThenVerify
  BY DEF ManifestInv, Checks, SealThenVerify, M!SealThenVerify
<1> QED BY <1>1, ManifestInvariance, PTL

(* InstalledAsSigned: a copy that was steady is the files the verification *)
(* compared with a manifest that a trusted key has signed, and nothing     *)
(* changes a release once it is in place (Copies, verify_command, cp, mv). *)
THEOREM InstalledCorrect == ReleaseSpec => []InstalledAsSigned
<1>1. ReleaseInv => InstalledAsSigned
  BY DEF ReleaseInv
<1> QED BY <1>1, ReleaseInvariance, PTL

(* All the variables of the composition keep their types.                  *)
THEOREM ReleaseTypeCorrect == ReleaseSpec => []ReleaseTypeOK
<1>1. ReleaseSpec => []TypeOK
  BY RefinesDeploy, TypeCorrect, PTL
<1>2. TypeOK /\ ManifestInv /\ ReleaseInv => ReleaseTypeOK
  BY DEF ManifestInv, ReleaseInv, CopyType, ReleaseTypeOK
<1> QED BY <1>1, <1>2, ManifestInvariance, ReleaseInvariance, PTL
==================================================================================
