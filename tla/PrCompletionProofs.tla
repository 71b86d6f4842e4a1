-------------------------- MODULE PrCompletionProofs --------------------------
(***************************************************************************)
(* Proofs about PrCompletion, for any runs, cleanups and verifications     *)
(* together, and any set of attached and detached trees.                   *)
(***************************************************************************)
EXTENDS PrCompletion, TLAPS

USE DEF Head, Newer, None

LEMMA InitType == Init => TypeOK
<1> SUFFICES ASSUME Init PROVE TypeOK
    OBVIOUS
<1>1. (CHOOSE t \in Trees : TRUE) \in Trees
    BY BoundAssumption
<1>2. tree \in [Trees -> Worktree]
    BY DEF Init, Worktree, Commit
<1>3. ref \in [Trees -> Commit \cup {None}]
    BY DEF Init, Commit
<1>4. run \in [Runs -> Run]
    <2> SUFFICES ASSUME NEW r \in Runs PROVE run[r] \in Run
        BY DEF Init
    <2>1. [t \in Trees |-> Head] \in [Trees -> Commit]
        BY DEF Commit
    <2> QED
        BY <1>1, <1>3, <2>1 DEF Init, Run
<1> QED
    BY <1>2, <1>3, <1>4, BoundAssumption DEF Init, TypeOK

(* What a step of a run does to the run itself stays in the type.          *)
LEMMA RunUpdate ==
    ASSUME TypeOK, NEW r \in Runs, NEW s \in Run, run' = [run EXCEPT ![r] = s]
    PROVE  run' \in [Runs -> Run]
BY DEF TypeOK

LEMMA GotoType ==
    ASSUME TypeOK, NEW r \in Runs, NEW pc, Goto(r, pc),
           pc \in {"list", "status", "refs", "preflight", "evidence", "remote", "head", "remove",
                   "resume", "force", "recheck", "prune", "delete", "trees", "branches", "done"}
    PROVE  run' \in [Runs -> Run]
<1> DEFINE s == [run[r] EXCEPT !.pc = pc]
<1>1. run[r] \in Run
    BY DEF TypeOK
<1>2. s \in Run
    BY <1>1 DEF Run
<1>3. run' = [run EXCEPT ![r] = s]
    BY DEF Goto
<1> QED
    BY <1>2, <1>3, RunUpdate

LEMMA FinishType ==
    ASSUME TypeOK, NEW r \in Runs, NEW out \in {"", "failed", "ok"}, Finish(r, out)
    PROVE  run' \in [Runs -> Run]
<1> DEFINE s == [run[r] EXCEPT !.pc = "done", !.out = out]
<1>1. run[r] \in Run
    BY DEF TypeOK
<1>2. s \in Run
    BY <1>1 DEF Run
<1>3. run' = [run EXCEPT ![r] = s]
    BY <1>1 DEF Finish, TypeOK, Run
<1> QED
    BY <1>2, <1>3, RunUpdate

LEMMA NextTreeType ==
    ASSUME TypeOK, NEW r \in Runs, NextTree(r)
    PROVE  run' \in [Runs -> Run]
<1> DEFINE s == [run[r] EXCEPT !.pc = "head", !.todo = @ \ {run[r].hand}]
<1>1. run[r] \in Run
    BY DEF TypeOK
<1>2. s \in Run
    BY <1>1 DEF Run
<1>3. run' = [run EXCEPT ![r] = s]
    BY DEF NextTree, Set
<1> QED
    BY <1>2, <1>3, RunUpdate

(* A removal, whole or cut short, leaves well-typed trees.                 *)
LEMMA RemovalType ==
    ASSUME TypeOK, NEW t \in Trees, tree' = Removed(t) \/ Interrupted(t)
    PROVE  /\ tree' \in [Trees -> Worktree]
           /\ \A u \in Trees : tree'[u].dir = "whole" => tree'[u].record
BY DEF TypeOK, Worktree, Removed, Interrupted

LEMMA FaultType == TypeOK /\ (Fault \/ UNCHANGED faults) => faults' \in Nat
BY DEF TypeOK, Fault

(* The type of what is not a run's is kept when only the run changes.      *)
LEMMA KeepType == TypeOK /\ Keep /\ run' \in [Runs -> Run] => TypeOK'
BY DEF Keep, world, TypeOK

LEMMA StepType ==
    ASSUME TypeOK, NEW r \in Runs, Step(r)
    PROVE  TypeOK'
<1>0. run[r] \in Run
    BY DEF TypeOK
<1>1. CASE Stop(r)
    BY <1>1, FinishType, KeepType DEF Stop
<1>2. CASE List(r)
    <2>1. CASE Finish(r, "failed")
        BY <1>2, <2>1, FinishType, KeepType DEF List
    <2>2. CASE ~Finish(r, "failed")
        <3> DEFINE s == [run[r] EXCEPT !.pc = "status", !.other = other,
                          !.heads = [t \in Trees |-> tree[t].head],
                          !.todo = IF r \in Verifying THEN {} ELSE Trees]
        <3>1. run' = [run EXCEPT ![r] = s]
            BY <1>2, <2>2 DEF List, Set
        <3>2. [t \in Trees |-> tree[t].head] \in [Trees -> Commit]
            BY DEF TypeOK, Worktree
        <3>3. s \in Run
            BY <1>0, <3>2 DEF Run, TypeOK
        <3> QED
            BY <1>2, <3>1, <3>3, RunUpdate, KeepType DEF List
    <2> QED
        BY <2>1, <2>2
<1>3. CASE Status(r)
    <2>1. CASE Goto(r, "refs") \/ Finish(r, "failed")
        BY <1>3, <2>1, GotoType, FinishType, KeepType DEF Status
    <2>2. ASSUME NEW t \in run[r].todo, Set(r, [run[r] EXCEPT !.todo = @ \ {t}])
          PROVE  TypeOK'
        BY <1>0, <1>3, <2>2, RunUpdate, KeepType DEF Status, Set, Run
    <2> QED
        BY <1>3, <2>1, <2>2 DEF Status
<1>4. CASE Refs(r)
    <2>1. CASE Finish(r, "failed")
        BY <1>4, <2>1, FinishType, KeepType DEF Refs
    <2>2. CASE ~Finish(r, "failed")
        <3> DEFINE s == [run[r] EXCEPT !.tips = ref,
                          !.pc = IF r \in Verifying THEN "evidence" ELSE "preflight"]
        <3>1. run' = [run EXCEPT ![r] = s]
            BY <1>4, <2>2 DEF Refs, Set
        <3>2. s \in Run
            BY <1>0 DEF Run, TypeOK
        <3> QED
            BY <1>4, <3>1, <3>2, RunUpdate, KeepType DEF Refs
    <2> QED
        BY <2>1, <2>2
<1>5. CASE PreflightBeforeProof(r) \/ PreflightBeforePrune(r)
    <2>1. PICK then \in {"evidence", "prune"} : PrunePreflight(r, then)
        BY <1>5 DEF PreflightBeforeProof, PreflightBeforePrune
    <2>2. CASE Goto(r, then)
        BY <2>1, <2>2, GotoType, KeepType DEF PrunePreflight
    <2>3. CASE ~Goto(r, then)
        <3> DEFINE s == [run[r] EXCEPT !.pc = "done", !.out = "failed", !.blockers = Candidates]
        <3>1. run' = [run EXCEPT ![r] = s]
            BY <2>1, <2>3 DEF PrunePreflight, Set
        <3>2. Candidates \in SUBSET (Trees \cup {Unrelated})
            BY DEF Candidates
        <3>3. s \in Run
            BY <1>0, <3>2 DEF Run
        <3> QED
            BY <2>1, <3>1, <3>3, RunUpdate, KeepType DEF PrunePreflight
    <2> QED
        BY <2>2, <2>3
<1>6. CASE Prove(r)
    BY <1>6, GotoType, FinishType, KeepType DEF Prove
<1>7. CASE RemoteHead(r)
    <2>1. CASE Goto(r, "trees") \/ Finish(r, "failed")
        BY <1>7, <2>1, GotoType, FinishType, KeepType DEF RemoteHead
    <2>2. CASE Set(r, [run[r] EXCEPT !.pc = "head", !.todo = Trees])
        BY <1>0, <1>7, <2>2, RunUpdate, KeepType DEF RemoteHead, Set, Run
    <2> QED
        BY <1>7, <2>1, <2>2 DEF RemoteHead
<1>8. CASE CheckHead(r)
    <2>1. CASE Goto(r, "recheck") \/ Finish(r, "failed")
        BY <1>8, <2>1, GotoType, FinishType, KeepType DEF CheckHead
    <2>2. ASSUME NEW t \in run[r].todo,
                 Set(r, [run[r] EXCEPT !.pc = "remove", !.hand = t, !.since = @ \ {t}])
          PROVE  TypeOK'
        BY <1>0, <1>8, <2>2, RunUpdate, KeepType DEF CheckHead, Set, Run
    <2> QED
        BY <1>8, <2>1, <2>2 DEF CheckHead
<1>9. CASE Remove(r)
    <2>1. run' \in [Runs -> Run]
        BY <1>9, NextTreeType, GotoType DEF Remove
    <2>2. run[r].hand \in Trees
        BY <1>0 DEF Run
    <2>3. /\ tree' \in [Trees -> Worktree]
          /\ \A u \in Trees : tree'[u].dir = "whole" => tree'[u].record
        BY <1>9, <2>2, RemovalType DEF Remove, TypeOK
    <2>4. faults' \in Nat
        BY <1>9, FaultType DEF Remove
    <2> QED
        BY <1>9, <2>1, <2>3, <2>4 DEF Remove, TypeOK
<1>10. CASE ResumePartialRemoval(r)
    <2>1. CASE NextTree(r) \/ Finish(r, "failed")
        BY <1>10, <2>1, NextTreeType, FinishType, KeepType DEF ResumePartialRemoval
    <2>2. CASE Set(r, [run[r] EXCEPT !.pc = "force", !.since = @ \ {run[r].hand}])
        BY <1>0, <1>10, <2>2, RunUpdate, KeepType DEF ResumePartialRemoval, Set, Run
    <2> QED
        BY <1>10, <2>1, <2>2 DEF ResumePartialRemoval, Refused
<1>11. CASE ForceRemove(r)
    <2>1. run' \in [Runs -> Run]
        BY <1>11, NextTreeType, FinishType DEF ForceRemove
    <2>2. run[r].hand \in Trees
        BY <1>0 DEF Run
    <2>3. /\ tree' \in [Trees -> Worktree]
          /\ \A u \in Trees : tree'[u].dir = "whole" => tree'[u].record
        BY <1>11, <2>2, RemovalType DEF ForceRemove, TypeOK
    <2>4. faults' \in Nat
        BY <1>11, FaultType DEF ForceRemove
    <2> QED
        BY <1>11, <2>1, <2>3, <2>4 DEF ForceRemove, TypeOK
<1>12. CASE Prune(r)
    <2> DEFINE s == [run[r] EXCEPT !.pc = "delete", !.todo = Attached, !.took = other = "away"]
    <2>1. s \in Run
        BY <1>0 DEF Run, Attached
    <2>2. run' \in [Runs -> Run]
        BY <1>12, <2>1, RunUpdate DEF Prune, Set
    <2>3. /\ tree' \in [Trees -> Worktree]
          /\ \A u \in Trees : tree'[u].dir = "whole" => tree'[u].record
        BY <1>12 DEF Prune, TypeOK, Worktree
    <2> QED
        BY <1>12, <2>2, <2>3 DEF Prune, TypeOK
<1>13. CASE DeleteBranch(r)
    <2>1. CASE UNCHANGED ref /\ (Goto(r, "trees") \/ Finish(r, "failed"))
        <3>1. run' \in [Runs -> Run]
            BY <2>1, GotoType, FinishType
        <3> QED
            BY <1>13, <2>1, <3>1 DEF DeleteBranch, TypeOK
    <2>2. ASSUME NEW t \in run[r].todo, ref' = [ref EXCEPT ![t] = None],
                 Set(r, [run[r] EXCEPT !.todo = @ \ {t}])
          PROVE  TypeOK'
        <3>1. [run[r] EXCEPT !.todo = @ \ {t}] \in Run
            BY <1>0 DEF Run
        <3>2. run' \in [Runs -> Run]
            BY <2>2, <3>1, RunUpdate DEF Set
        <3>3. ref' \in [Trees -> Commit \cup {None}]
            BY <2>2 DEF TypeOK
        <3> QED
            BY <1>13, <3>2, <3>3 DEF DeleteBranch, TypeOK
    <2> QED
        BY <1>13, <2>1, <2>2 DEF DeleteBranch
<1>14. CASE CheckTrees(r)
    BY <1>14, GotoType, FinishType, KeepType DEF CheckTrees
<1>15. CASE CheckBranches(r)
    <2>1. PICK out \in {"ok", "failed"} : Finish(r, out)
        BY <1>15 DEF CheckBranches
    <2> QED
        BY <1>15, <2>1, FinishType, KeepType DEF CheckBranches
<1> QED
    BY <1>1, <1>2, <1>3, <1>4, <1>5, <1>6, <1>7, <1>8, <1>9, <1>10, <1>11, <1>12, <1>13,
       <1>14, <1>15 DEF Step

LEMMA PeopleType ==
    ASSUME TypeOK, NEW t \in Trees, Edit(t) \/ MakeCommit(t) \/ ReuseBranch(t)
    PROVE  TypeOK'
<1>1. ASSUME Touch(t) PROVE run' \in [Runs -> Run]
    <2> SUFFICES ASSUME NEW r \in Runs PROVE [run[r] EXCEPT !.since = @ \cup {t}] \in Run
        BY <1>1 DEF Touch
    <2>1. run[r] \in Run
        BY DEF TypeOK
    <2> QED
        BY <2>1 DEF Run
<1>2. CASE Edit(t)
    <2>1. /\ tree' \in [Trees -> Worktree]
          /\ \A u \in Trees : tree'[u].dir = "whole" => tree'[u].record
        BY <1>2 DEF Edit, TypeOK, Worktree
    <2> QED
        BY <1>1, <1>2, <2>1 DEF Edit, TypeOK
<1>3. CASE MakeCommit(t)
    <2>1. /\ tree' \in [Trees -> Worktree]
          /\ \A u \in Trees : tree'[u].dir = "whole" => tree'[u].record
        BY <1>3 DEF MakeCommit, TypeOK, Worktree, Commit
    <2>2. ref' \in [Trees -> Commit \cup {None}]
        BY <1>3 DEF MakeCommit, TypeOK, Commit
    <2> QED
        BY <1>1, <1>3, <2>1, <2>2 DEF MakeCommit, TypeOK
<1>4. CASE ReuseBranch(t)
    BY <1>4 DEF ReuseBranch, TypeOK, Commit
<1> QED
    BY <1>2, <1>3, <1>4

LEMMA NextType == TypeOK /\ [Next]_vars => TypeOK'
<1> SUFFICES ASSUME TypeOK, [Next]_vars PROVE TypeOK'
    OBVIOUS
<1>1. CASE Merge
    BY <1>1 DEF Merge, TypeOK
<1>2. CASE DeleteRemote
    BY <1>2 DEF DeleteRemote, TypeOK
<1>3. CASE ElseWhere
    BY <1>3 DEF ElseWhere, TypeOK
<1>4. CASE UNCHANGED vars
    BY <1>4 DEF vars, world, TypeOK
<1> QED
    BY <1>1, <1>2, <1>3, <1>4, StepType, PeopleType DEF Next

(* The state of a run, of the repository and of the people's work stays    *)
(* what its type says.                                                     *)
THEOREM TypeCorrect == Spec => []TypeOK
<1>1. Init => TypeOK
    BY InitType
<1>2. TypeOK /\ [Next]_vars => TypeOK'
    BY NextType
<1> QED
    BY <1>1, <1>2, PTL DEF Spec

-------------------------------------------------------------------------------
(* The inductive invariant: what a run may rely on at each of its commands *)
(* (RunInv), and what is true of each tree (TreeInv), whoever else runs.   *)
Gone(t) == tree[t].dir = "gone"
Absent(t) == Gone(t) /\ ~tree[t].record

(* Past the evidence, and past the question whether the branch is deleted. *)
Proven == {"remote", "head", "remove", "resume", "force", "recheck", "prune", "delete",
           "trees", "branches"}

Permitted(r) ==
    /\ run[r].pc \in Proven => merged
    /\ run[r].pc \in Proven \ {"remote"} => ~remote

VerifyOnly(r) ==
    r \in Verifying =>
        /\ run[r].pc \in {"list", "status", "refs", "evidence", "remote", "trees", "branches", "done"}
        /\ run[r].pc \notin {"list", "done"} => \A t \in Trees : Absent(t)

(* Directories first, then records, then branches.                         *)
InOrder(r) ==
    /\ run[r].pc \in {"head", "remove", "resume", "force"} => \A t \in Trees \ run[r].todo : Gone(t)
    /\ run[r].pc \in {"recheck", "prune"} => \A t \in Trees : Gone(t)
    /\ run[r].pc \in {"delete", "trees", "branches"} => \A t \in Trees : Absent(t)

(* What is left of the look a run took at the tree in hand.                *)
Looking(r) ==
    LET t == run[r].hand IN
    /\ run[r].pc \in {"remove", "resume", "force"} /\ t \in Detached => tree[t].head = Head \/ t \in late
    /\ run[r].pc = "force" /\ tree[t].work => t \in run[r].since

(* A run that has pruned an unrelated record cannot find things as before. *)
Unpruned(r) ==
    /\ run[r].took => /\ run[r].pc \in {"delete", "trees", "branches", "done"}
                      /\ other = "pruned" /\ run[r].other # "pruned"
    /\ run[r].other = "pruned" => other = "pruned"
    /\ run[r].pc = "branches" => ~run[r].took

RunInv(r) == Permitted(r) /\ VerifyOnly(r) /\ InOrder(r) /\ Looking(r) /\ Unpruned(r)

TreeInv(t) ==
    /\ merged \/ tree[t].record
    /\ Gone(t) => ~tree[t].work
    /\ t \in made /\ t \in Attached => ref[t] = Newer
    /\ t \in made /\ t \in Detached => tree[t].head = Newer /\ (t \in late \/ (tree[t].record /\ ~Gone(t)))
    /\ t \in Detached => ref[t] = None

Inv ==
    /\ TypeOK
    /\ \A r \in Runs : RunInv(r)
    /\ \A t \in Trees : TreeInv(t)

LEMMA InitInv == Init => Inv
<1> SUFFICES ASSUME Init PROVE Inv
    OBVIOUS
<1>1. TypeOK
    BY InitType
<1>2. ASSUME NEW r \in Runs PROVE RunInv(r)
    BY <1>2 DEF Init, RunInv, Permitted, VerifyOnly, InOrder, Looking, Unpruned, Proven
<1>3. ASSUME NEW t \in Trees PROVE TreeInv(t)
    BY <1>3 DEF Init, TreeInv, Gone, Attached
<1> QED
    BY <1>1, <1>2, <1>3 DEF Inv

-------------------------------------------------------------------------------
(* What each way to move a run on does to the fields the invariant reads.  *)
Untouched(r) ==
    /\ run'[r].took = run[r].took /\ run'[r].other = run[r].other

LEMMA GotoFields ==
    ASSUME TypeOK, NEW r \in Runs, NEW pc, Goto(r, pc)
    PROVE  /\ run'[r].pc = pc /\ run'[r].out = run[r].out /\ Untouched(r)
           /\ run'[r].todo = run[r].todo /\ run'[r].hand = run[r].hand /\ run'[r].since = run[r].since
<1>1. run[r] \in Run
    BY DEF TypeOK
<1> QED
    BY <1>1 DEF Goto, TypeOK, Run, Untouched

LEMMA FinishFields ==
    ASSUME TypeOK, NEW r \in Runs, NEW out, Finish(r, out)
    PROVE  run'[r].pc = "done" /\ run'[r].out = out /\ Untouched(r)
<1>1. run[r] \in Run
    BY DEF TypeOK
<1> QED
    BY <1>1 DEF Finish, TypeOK, Run, Untouched

LEMMA SetFields ==
    ASSUME TypeOK, NEW r \in Runs, NEW s, Set(r, s)
    PROVE  run'[r] = s
BY DEF Set, TypeOK

LEMMA NextTreeFields ==
    ASSUME TypeOK, NEW r \in Runs, NextTree(r)
    PROVE  /\ run'[r].pc = "head" /\ run'[r].todo = run[r].todo \ {run[r].hand}
           /\ run'[r].out = run[r].out /\ Untouched(r)
<1>1. run[r] \in Run
    BY DEF TypeOK
<1>2. run'[r] = [run[r] EXCEPT !.pc = "head", !.todo = @ \ {run[r].hand}]
    BY SetFields DEF NextTree
<1> QED
    BY <1>1, <1>2 DEF Run, Untouched

(* A step of a run leaves the other runs where they are.                   *)
LEMMA OthersStand ==
    ASSUME TypeOK, NEW r \in Runs, Step(r), NEW q \in Runs, q # r
    PROVE  run'[q] = run[q]
BY DEF Step, Stop, List, Status, Refs, PreflightBeforeProof, PreflightBeforePrune, PrunePreflight,
       Prove, RemoteHead, CheckHead, Remove, ResumePartialRemoval, Refused, ForceRemove, Prune,
       DeleteBranch, CheckTrees, CheckBranches, NextTree, Set, Goto, Finish, TypeOK

(* What the world does under a step of a run: nobody's directory or record *)
(* comes back, nothing is committed, edited, or put back.                  *)
Onward ==
    /\ merged' = merged /\ remote' = remote /\ made' = made /\ late' = late
    /\ other = "pruned" => other' = "pruned"
    /\ \A t \in Trees :
          /\ tree'[t].head = tree[t].head
          /\ tree'[t].work => tree[t].work
          /\ Gone(t) => Gone(t)'
          /\ ~tree[t].record => ~tree'[t].record

LEMMA RemovalOnward ==
    ASSUME TypeOK, NEW t \in Trees, tree' = Removed(t) \/ Interrupted(t),
           UNCHANGED <<merged, remote, ref, other, made, late>>,
           tree[t].record \/ tree' = Removed(t)
    PROVE  Onward
<1>1. \A u \in Trees : tree[u] \in Worktree
    BY DEF TypeOK
<1>2. CASE tree' = Removed(t)
    BY <1>1, <1>2 DEF Onward, Removed, Gone, TypeOK, Worktree
<1>3. CASE Interrupted(t) /\ tree[t].record
    BY <1>1, <1>3 DEF Onward, Interrupted, Gone, TypeOK, Worktree
<1> QED
    BY <1>2, <1>3

LEMMA StepOnward ==
    ASSUME TypeOK, NEW r \in Runs, Step(r)
    PROVE  Onward
<1>1. CASE UNCHANGED <<merged, remote, tree, other, made, late>>
    BY <1>1 DEF Onward, Gone
<1>2. run[r].hand \in Trees
    <2>1. run[r] \in Run
        BY DEF TypeOK
    <2> QED
        BY <2>1 DEF Run
<1>3. CASE Remove(r)
    BY <1>1, <1>2, <1>3, RemovalOnward DEF Remove, Removable
<1>4. CASE ForceRemove(r)
    BY <1>1, <1>2, <1>4, RemovalOnward DEF ForceRemove
<1>5. CASE Prune(r)
    <2>1. \A t \in Trees : tree[t] \in Worktree
        BY DEF TypeOK
    <2> QED
        BY <1>5, <2>1 DEF Prune, Onward, Gone, Worktree
<1> QED
    BY <1>1, <1>3, <1>4, <1>5
    DEF Step, Stop, List, Status, Refs, PreflightBeforeProof, PreflightBeforePrune, PrunePreflight,
        Prove, RemoteHead, CheckHead, ResumePartialRemoval, DeleteBranch, CheckTrees,
        CheckBranches, Keep, world

LEMMA OtherRuns ==
    ASSUME Inv, NEW r \in Runs, Step(r), NEW q \in Runs, q # r
    PROVE  RunInv(q)'
<1>1. run'[q] = run[q]
    BY OthersStand DEF Inv
<1>2. Onward
    BY StepOnward DEF Inv
<1>3. run[q].hand \in Trees
    <2>1. run[q] \in Run
        BY DEF Inv, TypeOK
    <2> QED
        BY <2>1 DEF Run
<1>4. RunInv(q)
    BY DEF Inv
<1>5. Permitted(q)'
    BY <1>1, <1>2, <1>4 DEF RunInv, Permitted, Onward
<1>6. \A t \in Trees : (Gone(t) => Gone(t)') /\ (Absent(t) => Absent(t)')
    BY <1>2 DEF Onward, Gone, Absent
<1>7. VerifyOnly(q)'
    BY <1>1, <1>4, <1>6 DEF RunInv, VerifyOnly
<1>8. InOrder(q)'
    BY <1>1, <1>4, <1>6 DEF RunInv, InOrder
<1>9. Looking(q)'
    BY <1>1, <1>2, <1>3, <1>4 DEF RunInv, Looking, Onward
<1>10. Unpruned(q)'
    BY <1>1, <1>2, <1>4 DEF RunInv, Unpruned, Onward
<1> QED
    BY <1>5, <1>7, <1>8, <1>9, <1>10 DEF RunInv

(* A run that ends relies on nothing any more.                             *)
LEMMA RunEnds ==
    ASSUME Inv, NEW r \in Runs, Onward, run'[r].pc = "done", Untouched(r)
    PROVE  RunInv(r)'
<1>1. RunInv(r)
    BY DEF Inv
<1>2. Permitted(r)' /\ VerifyOnly(r)' /\ InOrder(r)' /\ Looking(r)'
    BY DEF Permitted, Proven, VerifyOnly, InOrder, Looking
<1>3. Unpruned(r)'
    BY <1>1 DEF RunInv, Unpruned, Onward, Untouched
<1> QED
    BY <1>2, <1>3 DEF RunInv

(* A run that goes on, short of the last command, has only its order, its  *)
(* permission and its look at a tree to answer for.                        *)
LEMMA RunGoesOn ==
    ASSUME Inv, NEW r \in Runs, Onward, Untouched(r), run'[r].pc # "branches",
           run[r].took => run'[r].pc \in {"delete", "trees", "done"}
    PROVE  Unpruned(r)'
<1>1. RunInv(r)
    BY DEF Inv
<1> QED
    BY <1>1 DEF RunInv, Unpruned, Onward, Untouched

(* Back to the next tree, the one in hand being gone.                      *)
LEMMA TreeDone ==
    ASSUME Inv, NEW r \in Runs, Onward, NextTree(r), run[r].pc \in {"remove", "resume", "force"},
           tree'[run[r].hand].dir = "gone"
    PROVE  RunInv(r)'
<1>1. RunInv(r) /\ TypeOK
    BY DEF Inv
<1>2. run'[r].pc = "head" /\ run'[r].todo = run[r].todo \ {run[r].hand} /\ Untouched(r)
    BY <1>1, NextTreeFields
<1>3. Permitted(r)'
    BY <1>1, <1>2 DEF RunInv, Permitted, Proven, Onward
<1>4. VerifyOnly(r)'
    BY <1>1, <1>2 DEF RunInv, VerifyOnly
<1>5. InOrder(r)'
    <2> SUFFICES ASSUME NEW t \in Trees \ run'[r].todo PROVE Gone(t)'
        BY <1>2 DEF InOrder
    <2>1. t = run[r].hand \/ t \in Trees \ run[r].todo
        BY <1>2
    <2> QED
        BY <1>1, <2>1 DEF RunInv, InOrder, Onward, Gone
<1>6. Looking(r)'
    BY <1>2 DEF Looking
<1>7. Unpruned(r)'
    BY <1>1, <1>2, RunGoesOn DEF RunInv, Unpruned
<1> QED
    BY <1>3, <1>4, <1>5, <1>6, <1>7 DEF RunInv

(* One command further with nothing else noted: what the next command      *)
(* relies on is all there is to show.                                      *)
LEMMA Further ==
    ASSUME Inv, NEW r \in Runs, Onward, Untouched(r),
           run'[r].pc \notin {"remove", "resume", "force", "branches"},
           run[r].took => run'[r].pc \in {"delete", "trees"},
           run'[r].pc \in Proven => merged, run'[r].pc \in Proven \ {"remote"} => ~remote,
           r \in Verifying => /\ run'[r].pc \in {"status", "refs", "evidence", "remote", "trees"}
                              /\ \A t \in Trees : Absent(t),
           run'[r].pc = "head" => run'[r].todo = Trees,
           run'[r].pc \in {"recheck", "prune"} => \A t \in Trees : Gone(t),
           run'[r].pc \in {"delete", "trees"} => \A t \in Trees : Absent(t)'
    PROVE  RunInv(r)'
<1>1. \A t \in Trees : (Gone(t) => Gone(t)') /\ (Absent(t) => Absent(t)')
    BY DEF Onward, Gone, Absent
<1>2. Permitted(r)'
    BY DEF Permitted, Onward
<1>3. VerifyOnly(r)'
    BY <1>1 DEF VerifyOnly
<1>4. InOrder(r)'
    BY <1>1 DEF InOrder
<1>5. Looking(r)'
    BY DEF Looking
<1>6. Unpruned(r)'
    BY RunGoesOn
<1> QED
    BY <1>2, <1>3, <1>4, <1>5, <1>6 DEF RunInv

LEMMA OwnBeforeProof ==
    ASSUME Inv, NEW r \in Runs, Step(r),
           Stop(r) \/ List(r) \/ Status(r) \/ Refs(r) \/ PreflightBeforeProof(r) \/ Prove(r) \/ RemoteHead(r)
    PROVE  RunInv(r)'
<1>1. TypeOK /\ RunInv(r) /\ run[r] \in Run
    BY DEF Inv, TypeOK
<1>2. Onward
    BY <1>1, StepOnward
<1>3. ASSUME NEW out, Finish(r, out) PROVE RunInv(r)'
    BY <1>1, <1>2, <1>3, FinishFields, RunEnds
<1>4. CASE Stop(r)
    BY <1>3, <1>4 DEF Stop
<1>5. CASE List(r) /\ ~Finish(r, "failed")
    <2> DEFINE s == [run[r] EXCEPT !.pc = "status", !.other = other,
                       !.heads = [t \in Trees |-> tree[t].head],
                       !.todo = IF r \in Verifying THEN {} ELSE Trees]
    <2>1. run'[r] = s
        BY <1>1, <1>5, SetFields DEF List
    <2>2. run'[r].pc = "status" /\ run'[r].other = other /\ run'[r].took = run[r].took
        BY <1>1, <2>1 DEF Run
    <2>3. r \in Verifying => \A t \in Trees : Absent(t)'
        BY <1>5 DEF List, Keep, world, Absent, Gone
    <2>4. ~run[r].took /\ other' = other
        BY <1>1, <1>5 DEF List, At, RunInv, Unpruned, Keep, world
    <2>5. Permitted(r)' /\ InOrder(r)' /\ Looking(r)'
        BY <2>2 DEF Permitted, Proven, InOrder, Looking
    <2>6. VerifyOnly(r)'
        BY <2>2, <2>3 DEF VerifyOnly
    <2>7. Unpruned(r)'
        BY <2>2, <2>4 DEF Unpruned
    <2> QED
        BY <2>5, <2>6, <2>7 DEF RunInv
<1>6. CASE Status(r)
    <2>1. r \in Verifying => \A t \in Trees : Absent(t)
        BY <1>1, <1>6 DEF Status, At, RunInv, VerifyOnly
    <2>2. ~run[r].took
        BY <1>1, <1>6 DEF Status, At, RunInv, Unpruned
    <2>3. CASE Goto(r, "refs")
        BY <1>1, <1>2, <2>1, <2>2, <2>3, GotoFields, Further DEF Proven
    <2>4. ASSUME NEW t \in run[r].todo, Set(r, [run[r] EXCEPT !.todo = @ \ {t}])
          PROVE  RunInv(r)'
        <3>1. run'[r] = [run[r] EXCEPT !.todo = @ \ {t}]
            BY <1>1, <2>4, SetFields
        <3>2. run'[r].pc = "status" /\ Untouched(r)
            BY <1>1, <1>6, <3>1 DEF Run, Untouched, Status, At
        <3> QED
            BY <1>2, <2>1, <2>2, <3>2, Further DEF Proven
    <2> QED
        BY <1>3, <1>6, <2>3, <2>4 DEF Status
<1>7. CASE Refs(r) /\ ~Finish(r, "failed")
    <2> DEFINE s == [run[r] EXCEPT !.tips = ref,
                       !.pc = IF r \in Verifying THEN "evidence" ELSE "preflight"]
    <2>1. run'[r] = s
        BY <1>1, <1>7, SetFields DEF Refs
    <2>2. /\ run'[r].pc = IF r \in Verifying THEN "evidence" ELSE "preflight"
          /\ Untouched(r)
        BY <1>1, <2>1 DEF Run, Untouched
    <2>3. r \in Verifying => \A t \in Trees : Absent(t)
        BY <1>1, <1>7 DEF Refs, At, RunInv, VerifyOnly
    <2>4. ~run[r].took
        BY <1>1, <1>7 DEF Refs, At, RunInv, Unpruned
    <2> QED
        BY <1>2, <2>2, <2>3, <2>4, Further DEF Proven
<1>8. CASE PreflightBeforeProof(r)
    <2>1. r \notin Verifying /\ ~run[r].took
        BY <1>1, <1>8 DEF PreflightBeforeProof, At, RunInv, VerifyOnly, Unpruned
    <2>2. CASE Goto(r, "evidence")
        BY <1>1, <1>2, <2>1, <2>2, GotoFields, Further DEF Proven
    <2>3. CASE ~Goto(r, "evidence")
        <3>1. run'[r] = [run[r] EXCEPT !.pc = "done", !.out = "failed", !.blockers = Candidates]
            BY <1>1, <1>8, <2>3, SetFields DEF PreflightBeforeProof, PrunePreflight
        <3>2. run'[r].pc = "done" /\ Untouched(r)
            BY <1>1, <3>1 DEF Run, Untouched
        <3> QED
            BY <1>2, <3>2, RunEnds
    <2> QED
        BY <2>2, <2>3
<1>9. CASE Prove(r) /\ ~Finish(r, "failed")
    <2>1. Goto(r, "remote") /\ merged
        BY <1>9 DEF Prove, Evidence
    <2>2. /\ r \in Verifying => \A t \in Trees : Absent(t)
          /\ ~run[r].took
        BY <1>1, <1>9 DEF Prove, At, RunInv, VerifyOnly, Unpruned
    <2> QED
        BY <1>1, <1>2, <2>1, <2>2, GotoFields, Further
<1>10. CASE RemoteHead(r) /\ ~Finish(r, "failed")
    <2>1. ~remote /\ merged /\ ~run[r].took
        BY <1>1, <1>10 DEF RemoteHead, At, RunInv, Permitted, Proven, Unpruned
    <2>2. \A t \in Trees : Absent(t)' <=> Absent(t)
        BY <1>10 DEF RemoteHead, Keep, world, Absent, Gone
    <2>3. CASE r \in Verifying
        <3>1. \A t \in Trees : Absent(t)
            BY <1>1, <1>10, <2>3 DEF RemoteHead, At, RunInv, VerifyOnly
        <3>2. Goto(r, "trees")
            BY <1>10, <2>1, <2>3 DEF RemoteHead
        <3> QED
            BY <1>1, <1>2, <2>1, <2>2, <3>1, <3>2, GotoFields, Further
    <2>4. CASE r \notin Verifying
        <3>1. run'[r] = [run[r] EXCEPT !.pc = "head", !.todo = Trees]
            BY <1>1, <1>10, <2>1, <2>4, SetFields DEF RemoteHead
        <3>2. run'[r].pc = "head" /\ run'[r].todo = Trees /\ Untouched(r)
            BY <1>1, <3>1 DEF Run, Untouched
        <3> QED
            BY <1>2, <2>1, <2>4, <3>2, Further
    <2> QED
        BY <2>3, <2>4
<1> QED
    BY <1>3, <1>4, <1>5, <1>6, <1>7, <1>8, <1>9, <1>10

LEMMA OwnRemoving ==
    ASSUME Inv, NEW r \in Runs, Step(r),
           CheckHead(r) \/ Remove(r) \/ ResumePartialRemoval(r) \/ ForceRemove(r)
    PROVE  RunInv(r)'
<1> DEFINE h == run[r].hand
<1>1. TypeOK /\ RunInv(r) /\ run[r] \in Run /\ h \in Trees
    <2>1. run[r] \in Run
        BY DEF Inv, TypeOK
    <2> QED
        BY <2>1 DEF Inv, Run
<1>2. Onward
    BY <1>1, StepOnward
<1>3. ASSUME NEW out, Finish(r, out) PROVE RunInv(r)'
    BY <1>1, <1>2, <1>3, FinishFields, RunEnds
<1>4. /\ run[r].pc \in {"head", "remove", "resume", "force"}
      /\ merged /\ ~remote /\ ~run[r].took /\ r \notin Verifying
      /\ \A t \in Trees \ run[r].todo : Gone(t)'
    <2>1. run[r].pc \in {"head", "remove", "resume", "force"}
        BY DEF CheckHead, Remove, ResumePartialRemoval, ForceRemove, At
    <2>2. \A t \in Trees \ run[r].todo : Gone(t)
        BY <1>1, <2>1 DEF RunInv, InOrder
    <2>3. merged /\ ~remote
        BY <1>1, <2>1 DEF RunInv, Permitted, Proven
    <2>4. ~run[r].took
        BY <1>1, <2>1 DEF RunInv, Unpruned
    <2>5. r \notin Verifying
        BY <1>1, <2>1 DEF RunInv, VerifyOnly
    <2> QED
        BY <1>2, <2>1, <2>2, <2>3, <2>4, <2>5 DEF Onward
(* On to a command about the tree in hand, looked at now or before.        *)
<1>5. ASSUME run'[r].pc \in {"remove", "resume", "force"}, run'[r].todo = run[r].todo, Untouched(r),
             /\ run'[r].hand \in Detached =>
                   tree[run'[r].hand].head = Head \/ run'[r].hand \in late
             /\ run'[r].hand \in Trees
             /\ run'[r].pc = "force" => ~tree[run'[r].hand].work
      PROVE  RunInv(r)'
    <2>1. Permitted(r)'
        BY <1>2, <1>4 DEF Permitted, Onward
    <2>2. VerifyOnly(r)'
        BY <1>4 DEF VerifyOnly
    <2>3. InOrder(r)'
        BY <1>4, <1>5 DEF InOrder
    <2>4. Looking(r)'
        BY <1>2, <1>5 DEF Looking, Onward
    <2>5. Unpruned(r)'
        BY <1>2, <1>4, <1>5, RunGoesOn
    <2> QED
        BY <2>1, <2>2, <2>3, <2>4, <2>5 DEF RunInv
<1>6. CASE CheckHead(r)
    <2>1. CASE run[r].todo = {} /\ Goto(r, "recheck")
        <3>1. \A t \in Trees : Gone(t)
            BY <1>1, <1>6, <2>1 DEF CheckHead, At, RunInv, InOrder
        <3> QED
            BY <1>1, <1>2, <1>4, <2>1, <3>1, GotoFields, Further
    <2>2. ASSUME NEW t \in run[r].todo, tree[t].head = Head,
                 Set(r, [run[r] EXCEPT !.pc = "remove", !.hand = t, !.since = @ \ {t}])
          PROVE  RunInv(r)'
        <3>1. run'[r] = [run[r] EXCEPT !.pc = "remove", !.hand = t, !.since = @ \ {t}]
            BY <1>1, <2>2, SetFields
        <3>2. /\ run'[r].pc = "remove" /\ run'[r].hand = t /\ run'[r].todo = run[r].todo
              /\ Untouched(r) /\ t \in Trees
            BY <1>1, <3>1 DEF Run, Untouched
        <3> QED
            BY <1>5, <2>2, <3>2
    <2> QED
        BY <1>3, <1>6, <2>1, <2>2 DEF CheckHead
<1>7. CASE Remove(r)
    <2>1. CASE tree' = Removed(h) /\ NextTree(r)
        <3>1. tree'[h].dir = "gone"
            BY <1>1, <2>1 DEF Removed, TypeOK, Worktree
        <3> QED
            BY <1>2, <1>4, <1>7, <2>1, <3>1, TreeDone DEF Remove, At
    <2>2. CASE Goto(r, "resume")
        <3>1. h \in Detached => tree[h].head = Head \/ h \in late
            BY <1>1, <1>7 DEF Remove, At, RunInv, Looking
        <3> QED
            BY <1>1, <1>5, <2>2, <3>1, GotoFields
    <2> QED
        BY <1>7, <2>1, <2>2 DEF Remove
<1>8. CASE ResumePartialRemoval(r)
    <2>1. tree' = tree
        BY <1>8 DEF ResumePartialRemoval, Keep, world
    <2>2. CASE tree[h].dir = "gone" /\ NextTree(r)
        BY <1>2, <1>8, <2>1, <2>2, TreeDone DEF ResumePartialRemoval, At
    <2>3. CASE OnlyDeletions(h) /\ Set(r, [run[r] EXCEPT !.pc = "force", !.since = @ \ {h}])
        <3>1. run'[r] = [run[r] EXCEPT !.pc = "force", !.since = @ \ {h}]
            BY <1>1, <2>3, SetFields
        <3>2. /\ run'[r].pc = "force" /\ run'[r].hand = h /\ run'[r].todo = run[r].todo
              /\ Untouched(r)
            BY <1>1, <3>1 DEF Run, Untouched
        <3>3. h \in Detached => tree[h].head = Head \/ h \in late
            BY <1>1, <1>8 DEF ResumePartialRemoval, At, RunInv, Looking
        <3> QED
            BY <1>1, <1>5, <2>3, <3>2, <3>3 DEF OnlyDeletions
    <2> QED
        BY <1>3, <1>8, <2>2, <2>3 DEF ResumePartialRemoval, Refused
<1>9. CASE ForceRemove(r)
    <2>1. CASE tree' = Removed(h) /\ NextTree(r)
        <3>1. tree'[h].dir = "gone"
            BY <1>1, <2>1 DEF Removed, TypeOK, Worktree
        <3> QED
            BY <1>2, <1>4, <1>9, <2>1, <3>1, TreeDone DEF ForceRemove, At
    <2> QED
        BY <1>3, <1>9, <2>1 DEF ForceRemove
<1> QED
    BY <1>6, <1>7, <1>8, <1>9

LEMMA OwnAfterRemoving ==
    ASSUME Inv, NEW r \in Runs, Step(r),
           \/ PreflightBeforePrune(r) \/ Prune(r) \/ DeleteBranch(r) \/ CheckTrees(r)
           \/ CheckBranches(r)
    PROVE  RunInv(r)'
<1>1. TypeOK /\ RunInv(r) /\ run[r] \in Run
    BY DEF Inv, TypeOK
<1>2. Onward
    BY <1>1, StepOnward
<1>3. ASSUME NEW out, Finish(r, out) PROVE RunInv(r)'
    BY <1>1, <1>2, <1>3, FinishFields, RunEnds
<1>4. merged /\ ~remote
    BY <1>1 DEF PreflightBeforePrune, Prune, DeleteBranch, CheckTrees, CheckBranches, At, RunInv,
                Permitted, Proven
<1>5. CASE PreflightBeforePrune(r)
    <2>1. r \notin Verifying /\ ~run[r].took /\ \A t \in Trees : Gone(t)
        BY <1>1, <1>5 DEF PreflightBeforePrune, At, RunInv, VerifyOnly, Unpruned, InOrder
    <2>2. CASE Goto(r, "prune")
        BY <1>1, <1>2, <1>4, <2>1, <2>2, GotoFields, Further
    <2>3. CASE ~Goto(r, "prune")
        <3>1. run'[r] = [run[r] EXCEPT !.pc = "done", !.out = "failed", !.blockers = Candidates]
            BY <1>1, <1>5, <2>3, SetFields DEF PreflightBeforePrune, PrunePreflight
        <3>2. run'[r].pc = "done" /\ Untouched(r)
            BY <1>1, <3>1 DEF Run, Untouched
        <3> QED
            BY <1>2, <3>2, RunEnds
    <2> QED
        BY <2>2, <2>3
<1>6. CASE Prune(r)
    <2>1. run'[r] = [run[r] EXCEPT !.pc = "delete", !.todo = Attached, !.took = other = "away"]
        BY <1>1, <1>6, SetFields DEF Prune
    <2>2. run'[r].pc = "delete" /\ run'[r].took = (other = "away") /\ run'[r].other = run[r].other
        BY <1>1, <2>1 DEF Run
    <2>3. r \notin Verifying /\ \A t \in Trees : Gone(t)
        BY <1>1, <1>6 DEF Prune, At, RunInv, VerifyOnly, InOrder
    <2>4. \A t \in Trees : Absent(t)'
        <3>1. \A t \in Trees : tree[t] \in Worktree
            BY <1>1 DEF TypeOK
        <3> QED
            BY <1>6, <2>3, <3>1 DEF Prune, Absent, Gone, Worktree
    <2>5. Permitted(r)' /\ VerifyOnly(r)' /\ InOrder(r)' /\ Looking(r)'
        BY <1>2, <1>4, <2>2, <2>3, <2>4 DEF Permitted, VerifyOnly, InOrder, Looking, Onward
    <2>6. Unpruned(r)'
        BY <1>1, <1>6, <2>2 DEF RunInv, Unpruned, Prune
    <2> QED
        BY <2>5, <2>6 DEF RunInv
<1>7. CASE DeleteBranch(r)
    <2>1. r \notin Verifying /\ \A t \in Trees : Absent(t)'
        BY <1>1, <1>7 DEF DeleteBranch, At, RunInv, VerifyOnly, InOrder, Absent, Gone
    <2>2. CASE Goto(r, "trees")
        BY <1>1, <1>2, <1>4, <2>1, <2>2, GotoFields, Further
    <2>3. ASSUME NEW t \in run[r].todo, Set(r, [run[r] EXCEPT !.todo = @ \ {t}])
          PROVE  RunInv(r)'
        <3>1. run'[r] = [run[r] EXCEPT !.todo = @ \ {t}]
            BY <1>1, <2>3, SetFields
        <3>2. run'[r].pc = "delete" /\ Untouched(r)
            BY <1>1, <1>7, <3>1 DEF Run, Untouched, DeleteBranch, At
        <3> QED
            BY <1>2, <1>4, <2>1, <3>2, Further
    <2> QED
        BY <1>3, <1>7, <2>2, <2>3 DEF DeleteBranch
<1>8. CASE CheckTrees(r) /\ ~Finish(r, "failed")
    <2>1. Goto(r, "branches") /\ other = run[r].other
        BY <1>8 DEF CheckTrees
    <2>2. run'[r].pc = "branches" /\ Untouched(r)
        BY <1>1, <2>1, GotoFields
    <2>3. \A t \in Trees : Absent(t)'
        BY <1>1, <1>8 DEF CheckTrees, At, RunInv, InOrder, Absent, Gone, Keep, world
    <2>4. Permitted(r)' /\ VerifyOnly(r)' /\ InOrder(r)' /\ Looking(r)'
        BY <1>2, <1>4, <2>2, <2>3 DEF Permitted, VerifyOnly, InOrder, Looking, Onward
    <2>5. Unpruned(r)'
        BY <1>1, <1>2, <2>1, <2>2 DEF RunInv, Unpruned, Onward, Untouched
    <2> QED
        BY <2>4, <2>5 DEF RunInv
<1>9. CASE CheckBranches(r)
    BY <1>3, <1>9 DEF CheckBranches
<1> QED
    BY <1>3, <1>5, <1>6, <1>7, <1>8, <1>9

LEMMA StepRuns ==
    ASSUME Inv, NEW r \in Runs, Step(r)
    PROVE  \A q \in Runs : RunInv(q)'
BY OtherRuns, OwnBeforeProof, OwnRemoving, OwnAfterRemoving DEF Step

-------------------------------------------------------------------------------
(* A removal, plain or forced, of the tree in hand of a run.               *)
LEMMA RemovalTrees ==
    ASSUME Inv, NEW t \in Trees, merged, tree' = Removed(t) \/ Interrupted(t),
           t \in Detached => tree[t].head = Head \/ t \in late,
           UNCHANGED <<merged, ref, made, late>>
    PROVE  \A u \in Trees : TreeInv(u)'
<1>1. (\A u \in Trees : tree[u] \in Worktree /\ TreeInv(u)) /\ tree \in [Trees -> Worktree]
    BY DEF Inv, TypeOK
<1> SUFFICES ASSUME NEW u \in Trees PROVE TreeInv(u)'
    OBVIOUS
<1>2. CASE u # t
    <2>1. tree'[u] = tree[u]
        BY <1>1, <1>2 DEF Removed, Interrupted
    <2> QED
        BY <1>1, <2>1 DEF TreeInv, Gone
<1>3. CASE u = t
    <2>1. tree'[t].head = tree[t].head
        BY <1>1 DEF Removed, Interrupted, Worktree
    <2>2. tree'[t].dir = "gone" => ~tree'[t].work
        BY <1>1 DEF Removed, Interrupted, Worktree
    <2>3. t \in made /\ t \in Detached => t \in late
        BY <1>1 DEF TreeInv
    <2> QED
        BY <1>1, <1>3, <2>1, <2>2, <2>3 DEF TreeInv, Gone
<1> QED
    BY <1>2, <1>3

LEMMA StepTrees ==
    ASSUME Inv, NEW r \in Runs, Step(r)
    PROVE  \A t \in Trees : TreeInv(t)'
<1>1. TypeOK /\ RunInv(r) /\ run[r] \in Run /\ run[r].hand \in Trees
    <2>1. run[r] \in Run
        BY DEF Inv, TypeOK
    <2> QED
        BY <2>1 DEF Inv, Run
<1>2. \A t \in Trees : TreeInv(t) /\ tree[t] \in Worktree
    BY DEF Inv, TypeOK
<1>3. CASE UNCHANGED <<merged, tree, ref, made, late>>
    BY <1>2, <1>3 DEF TreeInv, Gone
<1>4. CASE Remove(r)
    <2>1. merged /\ (run[r].hand \in Detached => tree[run[r].hand].head = Head \/ run[r].hand \in late)
        BY <1>1, <1>4 DEF Remove, At, RunInv, Permitted, Proven, Looking
    <2> QED
        BY <1>1, <1>3, <1>4, <2>1, RemovalTrees DEF Remove
<1>5. CASE ForceRemove(r)
    <2>1. merged /\ (run[r].hand \in Detached => tree[run[r].hand].head = Head \/ run[r].hand \in late)
        BY <1>1, <1>5 DEF ForceRemove, At, RunInv, Permitted, Proven, Looking
    <2> QED
        BY <1>1, <1>3, <1>5, <2>1, RemovalTrees DEF ForceRemove
<1>6. CASE Prune(r)
    <2>1. merged /\ UNCHANGED <<merged, ref, made, late>>
        BY <1>1, <1>6 DEF Prune, At, RunInv, Permitted, Proven
    <2>2. \A t \in Trees : /\ tree'[t].head = tree[t].head /\ tree'[t].work = tree[t].work
                           /\ tree'[t].dir = tree[t].dir
                           /\ ~Gone(t) => tree'[t].record = tree[t].record
        BY <1>2, <1>6 DEF Prune, Worktree, Gone
    <2> QED
        BY <1>2, <2>1, <2>2 DEF TreeInv, Gone
<1>7. CASE DeleteBranch(r)
    <2>1. UNCHANGED <<merged, tree, made, late>>
        BY <1>7 DEF DeleteBranch
    <2>2. ASSUME NEW t \in Trees, ref[t] = Head, ref' = [ref EXCEPT ![t] = None]
          PROVE  \A u \in Trees : TreeInv(u)'
        <3>1. \A u \in Trees : ref'[u] = IF u = t THEN None ELSE ref[u]
            BY <1>1, <2>2 DEF TypeOK
        <3> QED
            BY <1>2, <2>1, <2>2, <3>1 DEF TreeInv, Gone
    <2>3. run[r].todo \subseteq Trees
        BY <1>1 DEF Run
    <2> QED
        BY <1>3, <1>7, <2>1, <2>2, <2>3 DEF DeleteBranch, Deletable
<1> QED
    BY <1>3, <1>4, <1>5, <1>6, <1>7
    DEF Step, Stop, List, Status, Refs, PreflightBeforeProof, PreflightBeforePrune, PrunePreflight,
        Prove, RemoteHead, CheckHead, ResumePartialRemoval, CheckTrees, CheckBranches, Keep, world

(* GitHub and unrelated work leave the trees and the runs alone.           *)
LEMMA PeopleInv ==
    ASSUME Inv, Merge \/ DeleteRemote \/ ElseWhere \/ UNCHANGED vars
    PROVE  (\A r \in Runs : RunInv(r)') /\ \A t \in Trees : TreeInv(t)'
<1>1. UNCHANGED <<tree, ref, run, made, late>>
    BY DEF Merge, DeleteRemote, ElseWhere, vars, world
<1>2. /\ merged => merged'
      /\ ~remote => ~remote'
      /\ other = "pruned" => other' = "pruned"
    BY DEF Merge, DeleteRemote, ElseWhere, vars, world
<1>3. ASSUME NEW r \in Runs PROVE RunInv(r)'
    <2>1. RunInv(r)
        BY DEF Inv
    <2>2. Permitted(r)'
        BY <1>1, <1>2, <2>1 DEF RunInv, Permitted
    <2>3. VerifyOnly(r)' /\ InOrder(r)' /\ Looking(r)'
        BY <1>1, <2>1 DEF RunInv, VerifyOnly, InOrder, Looking, Absent, Gone
    <2>4. Unpruned(r)'
        BY <1>1, <1>2, <2>1 DEF RunInv, Unpruned
    <2> QED
        BY <2>2, <2>3, <2>4 DEF RunInv
<1>4. ASSUME NEW t \in Trees PROVE TreeInv(t)'
    BY <1>1, <1>2 DEF Inv, TreeInv, Gone
<1> QED
    BY <1>3, <1>4

LEMMA TouchFields ==
    ASSUME TypeOK, NEW t \in Trees, Touch(t), NEW r \in Runs
    PROVE  /\ run'[r].pc = run[r].pc /\ run'[r].out = run[r].out /\ Untouched(r)
           /\ run'[r].todo = run[r].todo /\ run'[r].hand = run[r].hand
           /\ run'[r].since = run[r].since \cup {t}
<1>1. run[r] \in Run
    BY DEF TypeOK
<1>2. run'[r] = [run[r] EXCEPT !.since = @ \cup {t}]
    BY DEF Touch
<1> QED
    BY <1>1, <1>2 DEF Run, Untouched

(* People change no directory and no record; what they do change is noted  *)
(* with the runs that have looked at the tree.                             *)
LEMMA EditInv ==
    ASSUME Inv, NEW t \in Trees, Edit(t) \/ MakeCommit(t)
    PROVE  (\A r \in Runs : RunInv(r)') /\ \A u \in Trees : TreeInv(u)'
<1>1. UNCHANGED <<merged, remote, other>> /\ Touch(t) /\ TypeOK
    BY DEF Edit, MakeCommit, Inv
<1>2. \A u \in Trees : tree[u] \in Worktree /\ TreeInv(u)
    BY <1>1 DEF Inv, TypeOK
<1>3. \A u \in Trees : /\ tree'[u].dir = tree[u].dir /\ tree'[u].record = tree[u].record
                       /\ u # t => tree'[u] = tree[u]
    BY <1>1, <1>2 DEF Edit, MakeCommit, TypeOK, Worktree
<1>4. \A u \in Trees : (Gone(u)' <=> Gone(u)) /\ (Absent(u)' <=> Absent(u))
    BY <1>3 DEF Gone, Absent
<1>5. ASSUME NEW r \in Runs PROVE RunInv(r)'
    <2>1. RunInv(r) /\ run[r] \in Run
        BY <1>1 DEF Inv, TypeOK
    <2>2. /\ run'[r].pc = run[r].pc /\ Untouched(r)
          /\ run'[r].todo = run[r].todo /\ run'[r].hand = run[r].hand
          /\ run'[r].since = run[r].since \cup {t}
        BY <1>1, TouchFields
    <2>3. Permitted(r)'
        BY <1>1, <2>1, <2>2 DEF RunInv, Permitted
    <2>4. VerifyOnly(r)'
        BY <1>4, <2>1, <2>2 DEF RunInv, VerifyOnly
    <2>5. InOrder(r)'
        BY <1>4, <2>1, <2>2 DEF RunInv, InOrder
    <2>6. Looking(r)'
        <3> DEFINE h == run[r].hand
        <3>1. h \in Trees
            BY <2>1 DEF Run
        <3>2. late \subseteq late'
            BY DEF Edit, MakeCommit
        <3>3. ASSUME run[r].pc \in {"remove", "resume", "force"}, h \in Detached
              PROVE  tree'[h].head = Head \/ h \in late'
            <4>1. CASE Edit(t)
                <5>1. tree'[h].head = tree[h].head
                    BY <1>1, <1>2, <3>1, <4>1 DEF Edit, TypeOK, Worktree
                <5> QED
                    BY <2>1, <3>2, <3>3, <5>1 DEF RunInv, Looking
            <4>2. CASE MakeCommit(t) /\ h = t
                BY <3>3, <4>2 DEF MakeCommit, Looked
            <4>3. CASE h # t
                BY <1>3, <2>1, <3>1, <3>2, <3>3, <4>3 DEF RunInv, Looking
            <4> QED
                BY <4>1, <4>2, <4>3
        <3>4. run[r].pc = "force" /\ tree'[h].work => h \in run'[r].since
            <4>1. CASE h = t
                BY <2>2, <4>1
            <4>2. CASE h # t
                BY <1>3, <2>1, <2>2, <3>1, <4>2 DEF RunInv, Looking
            <4> QED
                BY <4>1, <4>2
        <3> QED
            BY <2>2, <3>3, <3>4 DEF Looking
    <2>7. Unpruned(r)'
        BY <1>1, <2>1, <2>2 DEF RunInv, Unpruned, Untouched
    <2> QED
        BY <2>3, <2>4, <2>5, <2>6, <2>7 DEF RunInv
<1>6. ASSUME NEW u \in Trees PROVE TreeInv(u)'
    <2>1. CASE Edit(t)
        <3>1. tree'[u].head = tree[u].head /\ ~Gone(t) /\ UNCHANGED <<merged, ref, made, late>>
            BY <1>1, <1>2, <2>1 DEF Edit, TypeOK, Worktree, Gone
        <3> QED
            BY <1>2, <1>3, <1>4, <3>1 DEF TreeInv, Gone
    <2>2. CASE MakeCommit(t) /\ u # t
        <3>1. ref'[u] = ref[u] /\ (u \in made' <=> u \in made) /\ (u \in late => u \in late')
            BY <1>1, <2>2 DEF MakeCommit, TypeOK
        <3> QED
            BY <1>1, <1>2, <1>3, <2>2, <3>1 DEF TreeInv, Gone
    <2>3. CASE MakeCommit(t) /\ u = t
        <3>1. tree[t].dir = "whole" /\ tree[t].record
            BY <2>3 DEF MakeCommit
        <3>2. tree'[t].head = Newer /\ ~tree'[t].work
            BY <1>1, <2>3 DEF MakeCommit, TypeOK
        <3>3. ref'[t] = IF t \in Attached THEN Newer ELSE ref[t]
            BY <1>1, <2>3 DEF MakeCommit, TypeOK
        <3> QED
            BY <1>1, <1>2, <1>3, <2>3, <3>1, <3>2, <3>3 DEF TreeInv, Gone, Attached
    <2> QED
        BY <2>1, <2>2, <2>3
<1> QED
    BY <1>5, <1>6

LEMMA ReuseInv ==
    ASSUME Inv, NEW t \in Trees, ReuseBranch(t)
    PROVE  (\A r \in Runs : RunInv(r)') /\ \A u \in Trees : TreeInv(u)'
<1>1. UNCHANGED <<merged, remote, tree, other, late, run>>
    BY DEF ReuseBranch
<1>2. ASSUME NEW r \in Runs PROVE RunInv(r)'
    <2>1. RunInv(r)
        BY DEF Inv
    <2> QED
        BY <1>1, <2>1 DEF RunInv, Permitted, VerifyOnly, InOrder, Looking, Unpruned, Absent, Gone
<1>3. ASSUME NEW u \in Trees PROVE TreeInv(u)'
    <2>1. t \in Attached /\ t \notin Detached /\ made' = made \cup {t} /\ TreeInv(u)
        BY DEF ReuseBranch, Attached, Inv
    <2>2. ref'[u] = IF u = t THEN Newer ELSE ref[u]
        BY DEF ReuseBranch, Inv, TypeOK
    <2> QED
        BY <1>1, <2>1, <2>2 DEF TreeInv, Gone
<1> QED
    BY <1>2, <1>3

LEMMA NextInv == Inv /\ [Next]_vars => Inv'
<1> SUFFICES ASSUME Inv, [Next]_vars PROVE Inv'
    OBVIOUS
<1>1. TypeOK'
    BY NextType DEF Inv
<1>2. ASSUME NEW r \in Runs, Step(r) PROVE Inv'
    BY <1>1, <1>2, StepRuns, StepTrees DEF Inv
<1>3. ASSUME NEW t \in Trees, Edit(t) \/ MakeCommit(t) \/ ReuseBranch(t) PROVE Inv'
    BY <1>1, <1>3, EditInv, ReuseInv DEF Inv
<1>4. CASE Merge \/ DeleteRemote \/ ElseWhere \/ UNCHANGED vars
    BY <1>1, <1>4, PeopleInv DEF Inv
<1> QED
    BY <1>2, <1>3, <1>4 DEF Next

LEMMA Invariant == Spec => []Inv
<1>1. Init => Inv
    BY InitInv
<1>2. Inv /\ [Next]_vars => Inv'
    BY NextInv
<1> QED
    BY <1>1, <1>2, PTL DEF Spec

-------------------------------------------------------------------------------
(* However many runs clean up or verify, and wherever they are cut short,  *)
(* a commit stays reachable; the only one lost is made without a branch    *)
(* after a run has checked the tree's HEAD.                                *)
THEOREM NoCommitLost == Spec => []CommitsKept
<1>1. Inv => CommitsKept
    <2> SUFFICES ASSUME Inv, NEW t \in Trees
                 PROVE  /\ merged \/ Reachable(t, Head)
                        /\ t \in made => Reachable(t, Newer) \/ t \in late
        BY DEF CommitsKept
    <2>1. TreeInv(t) /\ tree[t].head \in Commit /\ (t \in Attached \/ t \in Detached)
        <3>1. tree[t] \in Worktree
            BY DEF Inv, TypeOK
        <3> QED
            BY <3>1 DEF Inv, Worktree, Attached
    <2> QED
        BY <2>1 DEF TreeInv, Reachable, Commit
<1> QED
    BY <1>1, Invariant, PTL

(* A change that is not committed is deleted only by a forced removal, and *)
(* only if it was made after the run had seen nothing but deletions there. *)
THEOREM NoWorkLost == Spec => WorkKept
<1> DEFINE Lost(t) == tree[t].work /\ ~tree'[t].work /\ tree'[t].head = tree[t].head
           Kept == \A t \in Trees : Lost(t) =>
                      \E r \in Runs : At(r, "force") /\ run[r].hand = t /\ t \in run[r].since
<1>1. Inv /\ [Next]_vars => Kept \/ UNCHANGED vars
    <2> SUFFICES ASSUME Inv, Next, NEW t \in Trees, Lost(t)
                 PROVE  \E r \in Runs : At(r, "force") /\ run[r].hand = t /\ t \in run[r].since
        OBVIOUS
    <2>1. TypeOK /\ tree[t] \in Worktree /\ TreeInv(t)
        BY DEF Inv, TypeOK
    <2>2. tree' # tree
        OBVIOUS
    <2>3. ASSUME NEW r \in Runs, run[r].hand \in Trees, Remove(r) PROVE FALSE
        BY <2>1, <2>3 DEF Remove, Removable, Clean, Removed, Interrupted, TreeInv, Gone, TypeOK, Worktree
    <2>4. ASSUME NEW r \in Runs, run[r].hand \in Trees, ForceRemove(r)
          PROVE  At(r, "force") /\ run[r].hand = t /\ t \in run[r].since
        <3>1. run[r].hand = t
            <4>1. tree' = Removed(run[r].hand) \/ Interrupted(run[r].hand)
                BY <2>2, <2>4 DEF ForceRemove
            <4>2. \A u \in Trees \ {run[r].hand} : tree'[u] = tree[u]
                <5>1. CASE tree' = Removed(run[r].hand)
                    BY <2>1, <5>1 DEF Removed, TypeOK
                <5>2. CASE Interrupted(run[r].hand)
                    BY <2>1, <5>2 DEF Interrupted, TypeOK
                <5> QED
                    BY <4>1, <5>1, <5>2
            <4>3. tree'[t] # tree[t]
                OBVIOUS
            <4> QED
                BY <4>2, <4>3
        <3> QED
            BY <2>4, <3>1 DEF ForceRemove, At, Inv, RunInv, Looking
    <2>5. ASSUME NEW r \in Runs, Prune(r) PROVE FALSE
        BY <2>1, <2>5 DEF Prune, Worktree
    <2>6. ASSUME NEW u \in Trees, Edit(u) \/ MakeCommit(u) PROVE FALSE
        <3>1. tree[u] \in Worktree
            BY <2>1 DEF TypeOK
        <3>2. CASE Edit(u)
            BY <2>1, <3>1, <3>2 DEF Edit, TypeOK, Worktree
        <3>3. CASE MakeCommit(u)
            <4>1. tree'[t].head = Newer \/ tree'[t] = tree[t]
                BY <2>1, <3>1, <3>3 DEF MakeCommit, TypeOK, Worktree
            <4>2. u = t => tree[t].head = Head
                BY <3>3 DEF MakeCommit
            <4>3. u # t => tree'[t] = tree[t]
                BY <2>1, <3>3 DEF MakeCommit, TypeOK
            <4> QED
                BY <4>1, <4>2, <4>3
        <3> QED
            BY <2>6, <3>2, <3>3
    <2>7. ASSUME NEW r \in Runs PROVE run[r].hand \in Trees
        <3>1. run[r] \in Run
            BY <2>1 DEF TypeOK
        <3> QED
            BY <3>1 DEF Run
    <2> QED
        BY <2>2, <2>3, <2>4, <2>5, <2>6, <2>7
        DEF Next, Step, Stop, List, Status, Refs, PreflightBeforeProof, PreflightBeforePrune,
            PrunePreflight, Prove, RemoteHead, CheckHead, ResumePartialRemoval, DeleteBranch,
            CheckTrees, CheckBranches, Keep, world, ReuseBranch, Merge, DeleteRemote, ElseWhere
<1> QED
    BY <1>1, Invariant, PTL DEF Spec, WorkKept

(* A branch goes only after the worktrees, directory and record.           *)
THEOREM NoBranchFirst == Spec => BranchesGoLast
<1> DEFINE Last == \A t \in Trees : ref[t] # None /\ ref'[t] = None =>
                      \A u \in Trees : tree[u].dir = "gone" /\ ~tree[u].record
<1>1. Inv /\ [Next]_vars => Last \/ UNCHANGED vars
    <2> SUFFICES ASSUME Inv, Next, NEW t \in Trees, ref[t] # None, ref'[t] = None
                 PROVE  \A u \in Trees : tree[u].dir = "gone" /\ ~tree[u].record
        OBVIOUS
    <2>1. TypeOK
        BY DEF Inv
    <2>2. ref' # ref
        OBVIOUS
    <2>3. ASSUME NEW r \in Runs, DeleteBranch(r)
          PROVE  \A u \in Trees : tree[u].dir = "gone" /\ ~tree[u].record
        BY <2>3 DEF DeleteBranch, At, Inv, RunInv, InOrder, Absent, Gone
    <2>4. ASSUME NEW u \in Trees, MakeCommit(u) \/ ReuseBranch(u) PROVE FALSE
        BY <2>1, <2>4 DEF MakeCommit, ReuseBranch, TypeOK
    <2> QED
        BY <2>2, <2>3, <2>4
        DEF Next, Step, Stop, List, Status, Refs, PreflightBeforeProof, PreflightBeforePrune,
            PrunePreflight, Prove, RemoteHead, CheckHead, Remove, ResumePartialRemoval, ForceRemove,
            Prune, CheckTrees, CheckBranches, Keep, world, Edit, Merge, DeleteRemote, ElseWhere
<1> QED
    BY <1>1, Invariant, PTL DEF Spec, BranchesGoLast

(* A run that answers ok leaves exactly what it was asked to: the trees,   *)
(* records and branches gone, for a merged pull request whose remote       *)
(* branch is deleted, and no unrelated record pruned by it.                *)
THEOREM OkIsExact == Spec => OkMeansExact
<1> DEFINE Exact == \A r \in Runs : run[r].out # "ok" /\ run'[r].out = "ok" =>
                       /\ merged /\ ~remote /\ ~run[r].took
                       /\ \A t \in Trees : tree[t].dir = "gone" /\ ~tree[t].record /\ ref[t] = None
<1>1. Inv /\ [Next]_vars => Exact \/ UNCHANGED vars
    <2> SUFFICES ASSUME Inv, Next, NEW r \in Runs, run[r].out # "ok", run'[r].out = "ok"
                 PROVE  /\ merged /\ ~remote /\ ~run[r].took
                        /\ \A t \in Trees : tree[t].dir = "gone" /\ ~tree[t].record /\ ref[t] = None
        OBVIOUS
    <2>1. TypeOK /\ RunInv(r) /\ run[r] \in Run
        BY DEF Inv, TypeOK
    <2>2. CASE Finish(r, "ok") /\ CheckBranches(r)
        <3>1. BranchesGone
            BY <2>1, <2>2, FinishFields DEF CheckBranches
        <3>2. \A t \in Trees : ref[t] = None
            BY <3>1 DEF BranchesGone, Attached, Inv, TreeInv
        <3> QED
            BY <2>1, <2>2, <3>2
            DEF CheckBranches, At, RunInv, Permitted, Proven, InOrder, Unpruned, Absent, Gone
    <2>3. ASSUME Finish(r, "failed") PROVE FALSE
        BY <2>1, <2>3, FinishFields
    <2>4. ASSUME NEW pc, Goto(r, pc) PROVE FALSE
        BY <2>1, <2>4, GotoFields
    <2>5. ASSUME NextTree(r) PROVE FALSE
        BY <2>1, <2>5, NextTreeFields
    <2>6. ASSUME NEW s, Set(r, s), s.out # "ok" PROVE FALSE
        BY <2>1, <2>6, SetFields
    <2>7. CASE Step(r)
        <3>1. CASE List(r)
            <4> DEFINE s == [run[r] EXCEPT !.pc = "status", !.other = other,
                               !.heads = [t \in Trees |-> tree[t].head],
                               !.todo = IF r \in Verifying THEN {} ELSE Trees]
            <4>1. s.out = run[r].out
                BY <2>1 DEF Run
            <4> QED
                BY <2>3, <2>6, <3>1, <4>1 DEF List
        <3>2. CASE Refs(r)
            <4> DEFINE s == [run[r] EXCEPT !.tips = ref,
                               !.pc = IF r \in Verifying THEN "evidence" ELSE "preflight"]
            <4>1. s.out = run[r].out
                BY <2>1 DEF Run
            <4> QED
                BY <2>3, <2>6, <3>2, <4>1 DEF Refs
        <3>3. CASE PreflightBeforeProof(r) \/ PreflightBeforePrune(r)
            <4> DEFINE s == [run[r] EXCEPT !.pc = "done", !.out = "failed", !.blockers = Candidates]
            <4>1. s.out = "failed"
                BY <2>1 DEF Run
            <4> QED
                BY <2>4, <2>6, <3>3, <4>1 DEF PreflightBeforeProof, PreflightBeforePrune, PrunePreflight
        <3>4. \A T : [run[r] EXCEPT !.todo = T].out = run[r].out
            BY <2>1 DEF Run
        <3>5. CASE Status(r) \/ DeleteBranch(r)
            <4>1. ASSUME NEW t, Set(r, [run[r] EXCEPT !.todo = @ \ {t}]) PROVE FALSE
                BY <2>6, <3>4, <4>1
            <4> QED
                BY <2>3, <2>4, <3>5, <4>1 DEF Status, DeleteBranch
        <3>6. CASE RemoteHead(r)
            <4>1. [run[r] EXCEPT !.pc = "head", !.todo = Trees].out = run[r].out
                BY <2>1 DEF Run
            <4> QED
                BY <2>3, <2>4, <2>6, <3>6, <4>1 DEF RemoteHead
        <3>7. CASE CheckHead(r)
            <4>1. \A t, T : [run[r] EXCEPT !.pc = "remove", !.hand = t, !.since = T].out = run[r].out
                BY <2>1 DEF Run
            <4>2. ASSUME NEW t, Set(r, [run[r] EXCEPT !.pc = "remove", !.hand = t, !.since = @ \ {t}])
                  PROVE  FALSE
                BY <2>6, <4>1, <4>2
            <4> QED
                BY <2>3, <2>4, <3>7, <4>2 DEF CheckHead
        <3>8. CASE ResumePartialRemoval(r)
            <4>1. [run[r] EXCEPT !.pc = "force", !.since = @ \ {run[r].hand}].out = run[r].out
                BY <2>1 DEF Run
            <4> QED
                BY <2>3, <2>5, <2>6, <3>8, <4>1 DEF ResumePartialRemoval, Refused
        <3>9. CASE Prune(r)
            <4>1. [run[r] EXCEPT !.pc = "delete", !.todo = Attached, !.took = other = "away"].out = run[r].out
                BY <2>1 DEF Run
            <4> QED
                BY <2>6, <3>9, <4>1 DEF Prune
        <3>10. CASE Stop(r) \/ Prove(r) \/ Remove(r) \/ ForceRemove(r) \/ CheckTrees(r)
            BY <2>3, <2>4, <2>5, <3>10 DEF Stop, Prove, Remove, ForceRemove, CheckTrees
        <3>11. CASE CheckBranches(r)
            BY <2>2, <2>3, <3>11 DEF CheckBranches
        <3> QED
            BY <2>7, <3>1, <3>2, <3>3, <3>5, <3>6, <3>7, <3>8, <3>9, <3>10, <3>11 DEF Step
    <2>8. ASSUME NEW q \in Runs, q # r, Step(q) PROVE FALSE
        BY <2>1, <2>8, OthersStand
    <2>9. ASSUME NEW t \in Trees, Edit(t) \/ MakeCommit(t) \/ ReuseBranch(t) PROVE FALSE
        BY <2>1, <2>9, TouchFields DEF Edit, MakeCommit, ReuseBranch
    <2>10. CASE Merge \/ DeleteRemote \/ ElseWhere
        BY <2>10 DEF Merge, DeleteRemote, ElseWhere
    <2> QED
        BY <2>7, <2>8, <2>9, <2>10 DEF Next
<1> QED
    BY <1>1, Invariant, PTL DEF Spec, OkMeansExact
===============================================================================
