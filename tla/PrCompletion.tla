------------------------------ MODULE PrCompletion ------------------------------
(***************************************************************************)
(* completePullRequest of scripts/ci/pr-completion.mjs: runs that remove   *)
(* the worktrees and local branches of a merged pull request, while people *)
(* and agents go on working in the same repository.  Every git or gh       *)
(* command of a run is one step; a run may be killed, or a command fail or *)
(* time out, at any of them, and another run may follow.                   *)
(*                                                                         *)
(* Two commits are told apart: Head, the head of the pull request, and     *)
(* Newer, one made on top of it.  An attached tree has a local branch of   *)
(* its own.  External: git, GitHub, and the people.                        *)
(***************************************************************************)
EXTENDS Integers, FiniteSets

CONSTANTS
    Runs,
    Verifying,       \* the runs with --verify-only
    Trees,           \* the worktrees named by --worktree
    Detached,        \* those of them that have no branch
    Unrelated,       \* stands for every worktree and branch not named
    MaxFaults        \* bound of the model: commands that fail half way

(* completePullRequest refuses an empty list of worktrees.                 *)
ASSUME BoundAssumption ==
    /\ Trees # {} /\ Verifying \subseteq Runs /\ Detached \subseteq Trees /\ Unrelated \notin Trees
    /\ MaxFaults \in Nat

Head == 0
Newer == 1
None == -1
Commit == {Head, Newer}
Attached == Trees \ Detached

VARIABLES
    merged,          \* GitHub shows the pull request as merged
    remote,          \* origin still has the head branch
    tree,            \* the named worktrees
    ref,             \* the tip of each tree's local branch
    other,           \* the state of what is unrelated
    run,             \* the runs: see Run
    made,            \* history: trees whose Newer commit has been made
    late,            \* history: detached trees whose Newer commit came after a
                     \* run had looked at their HEAD
    faults

world == <<merged, remote, tree, ref, other, made, late>>
vars == <<world, run, faults>>

(* A tree's directory may be half deleted; record is git's own note of the *)
(* worktree; work is a change that is not committed.                       *)
Worktree == [dir : {"whole", "partial", "gone"}, record : BOOLEAN, head : Commit, work : BOOLEAN]

(* What a run remembers: the heads and branch tips of its first snapshots, *)
(* the unrelated state, the trees and branches still to do, the tree in    *)
(* hand; since, the trees changed by people after the run last looked at   *)
(* them; blockers, what its prune preflight listed; took, whether its prune *)
(* has taken an unrelated record.                                          *)
Run == [pc : {"list", "status", "refs", "preflight", "evidence", "remote", "head", "remove",
              "resume", "force", "recheck", "prune", "delete", "trees", "branches", "done"},
        heads : [Trees -> Commit], tips : [Trees -> Commit \cup {None}],
        other : {"there", "changed", "away", "pruned"},
        todo : SUBSET Trees, hand : Trees, since : SUBSET Trees,
        blockers : SUBSET (Trees \cup {Unrelated}), took : BOOLEAN, out : {"", "failed", "ok"}]

Init ==
    /\ merged = FALSE /\ remote = TRUE
    /\ tree = [t \in Trees |-> [dir |-> "whole", record |-> TRUE, head |-> Head, work |-> FALSE]]
    /\ ref = [t \in Trees |-> IF t \in Attached THEN Head ELSE None]
    /\ other = "there"
    /\ run = [r \in Runs |-> [pc |-> "list", heads |-> [t \in Trees |-> Head], tips |-> ref,
                              other |-> "there", todo |-> {}, hand |-> CHOOSE t \in Trees : TRUE,
                              since |-> {}, blockers |-> {}, took |-> FALSE, out |-> ""]]
    /\ made = {} /\ late = {}
    /\ faults = 0

Set(r, s) == run' = [run EXCEPT ![r] = s]
Goto(r, pc) == run' = [run EXCEPT ![r].pc = pc]
Finish(r, out) == run' = [run EXCEPT ![r].pc = "done", ![r].out = out]
At(r, pc) == run[r].pc = pc
Fault == faults < MaxFaults /\ faults' = faults + 1
Keep == UNCHANGED <<world, faults>>

-------------------------------------------------------------------------------
(* Every failed command, exception or refused input before the removals    *)
(* ends the run, and so does whoever kills it.                             *)
Stop(r) ==
    /\ run[r].pc # "done"
    /\ Finish(r, "failed")
    /\ Keep

(* The inventory of worktrees: a cleanup wants every named one there, a    *)
(* verification none, neither on disk nor in git's notes.                  *)
List(r) ==
    /\ At(r, "list")
    /\ LET there(t) == tree[t].dir # "gone" /\ tree[t].record
           absent(t) == tree[t].dir = "gone" /\ ~tree[t].record IN
       IF \A t \in Trees : IF r \in Verifying THEN absent(t) ELSE there(t)
       THEN Set(r, [run[r] EXCEPT !.pc = "status", !.other = other,
                          !.heads = [t \in Trees |-> tree[t].head],
                          !.todo = IF r \in Verifying THEN {} ELSE Trees])
       ELSE Finish(r, "failed")
    /\ Keep

(* git status in every named worktree, and in the root.                    *)
Clean(t) == tree[t].dir = "whole" /\ ~tree[t].work

Status(r) ==
    /\ At(r, "status")
    /\ IF run[r].todo = {}
       THEN Goto(r, "refs")
       ELSE \E t \in run[r].todo :
               IF Clean(t) THEN Set(r, [run[r] EXCEPT !.todo = @ \ {t}]) ELSE Finish(r, "failed")
    /\ Keep

Refs(r) ==
    /\ At(r, "refs")
    /\ IF \A t \in Attached : (ref[t] = None) = (r \in Verifying)
       THEN Set(r, [run[r] EXCEPT !.tips = ref,
                          !.pc = IF r \in Verifying THEN "evidence" ELSE "preflight"])
       ELSE Finish(r, "failed")
    /\ Keep

(* What git worktree prune would remove: any record without a directory.   *)
Candidates ==
    {t \in Trees : tree[t].record /\ tree[t].dir = "gone"}
        \cup (IF other = "away" THEN {Unrelated} ELSE {})

PrunePreflight(r, then) ==
    /\ IF Candidates = {}
       THEN Goto(r, then)
       ELSE Set(r, [run[r] EXCEPT !.pc = "done", !.out = "failed", !.blockers = Candidates])
    /\ Keep

PreflightBeforeProof(r) == At(r, "preflight") /\ PrunePreflight(r, "evidence")

Evidence == merged

(* gh pr list and gh pr view agree on the merge; the snapshots of worktree *)
(* heads and branch tips equal the head of the pull request.               *)
Prove(r) ==
    /\ At(r, "evidence")
    /\ IF /\ Evidence
          /\ r \notin Verifying =>
                /\ \A t \in Trees : run[r].heads[t] = Head
                /\ \A t \in Attached : run[r].tips[t] = Head
       THEN Goto(r, "remote")
       ELSE Finish(r, "failed")
    /\ Keep

(* git ls-remote must not find the branch.                                 *)
RemoteHead(r) ==
    /\ At(r, "remote")
    /\ IF remote
       THEN Finish(r, "failed")
       ELSE IF r \in Verifying THEN Goto(r, "trees")
       ELSE Set(r, [run[r] EXCEPT !.pc = "head", !.todo = Trees])
    /\ Keep

-------------------------------------------------------------------------------
(* git rev-parse HEAD, once more, right before the tree is removed.        *)
CheckHead(r) ==
    /\ At(r, "head")
    /\ IF run[r].todo = {}
       THEN Goto(r, "recheck")
       ELSE \E t \in run[r].todo :
               IF tree[t].record /\ tree[t].dir # "gone" /\ tree[t].head = Head
               THEN Set(r, [run[r] EXCEPT !.pc = "remove", !.hand = t, !.since = @ \ {t}])
               ELSE Finish(r, "failed")
    /\ Keep

Removed(t) == [tree EXCEPT ![t].dir = "gone", ![t].record = FALSE, ![t].work = FALSE]

(* A removal cut short leaves files behind, or git's record, or both.      *)
Interrupted(t) ==
    \/ /\ tree[t].dir # "gone"
       /\ \E record \in BOOLEAN :
             tree' = [tree EXCEPT ![t].dir = "partial", ![t].record = record]
    \/ tree' = [tree EXCEPT ![t].dir = "gone", ![t].work = FALSE]

NextTree(r) == Set(r, [run[r] EXCEPT !.pc = "head", !.todo = @ \ {run[r].hand}])

(* git worktree remove refuses a tree that has changes or is not a tree;   *)
(* one without a directory it takes off its records.                       *)
Removable(t) == tree[t].record /\ (Clean(t) \/ tree[t].dir = "gone")

Remove(r) ==
    LET t == run[r].hand IN
    /\ At(r, "remove")
    /\ \/ /\ Removable(t)
          /\ tree' = Removed(t) /\ NextTree(r) /\ UNCHANGED faults
       \/ /\ Removable(t) /\ Fault
          /\ Interrupted(t) /\ Goto(r, "resume")
       \/ /\ ~Removable(t)
          /\ Goto(r, "resume") /\ UNCHANGED <<tree, faults>>
    /\ UNCHANGED <<merged, remote, ref, other, made, late>>

(* Seeded fault: any change counts as what the removal has left.           *)
OnlyDeletions_Dirty(t) == tree[t].record /\ ~Clean(t)

(* Deletions and nothing else: the mark of a removal cut short.            *)
OnlyDeletions(t) == tree[t].record /\ tree[t].dir = "partial" /\ ~tree[t].work

(* Seeded fault: a removal that cannot be resumed is passed over.          *)
Refused_PassedOver(r) == NextTree(r)

Refused(r) == Finish(r, "failed")

ResumePartialRemoval(r) ==
    LET t == run[r].hand IN
    /\ At(r, "resume")
    /\ IF tree[t].dir = "gone"
       THEN NextTree(r)
       ELSE IF OnlyDeletions(t)
       THEN Set(r, [run[r] EXCEPT !.pc = "force", !.since = @ \ {t}])
       ELSE Refused(r)
    /\ Keep

(* git worktree remove --force asks no questions.                          *)
ForceRemove(r) ==
    LET t == run[r].hand IN
    /\ At(r, "force")
    /\ \/ tree[t].record /\ tree' = Removed(t) /\ NextTree(r) /\ UNCHANGED faults
       \/ tree[t].record /\ Fault /\ Interrupted(t) /\ Finish(r, "failed")
       \/ ~tree[t].record /\ Finish(r, "failed") /\ UNCHANGED <<tree, faults>>
    /\ UNCHANGED <<merged, remote, ref, other, made, late>>

PreflightBeforePrune(r) == At(r, "recheck") /\ PrunePreflight(r, "prune")

Prune(r) ==
    /\ At(r, "prune")
    /\ tree' = [t \in Trees |-> [tree[t] EXCEPT !.record = @ /\ tree[t].dir # "gone"]]
    /\ other' = IF other = "away" THEN "pruned" ELSE other
    /\ Set(r, [run[r] EXCEPT !.pc = "delete", !.todo = Attached, !.took = other = "away"])
    /\ UNCHANGED <<merged, remote, ref, made, late, faults>>

(* Seeded fault: the branch is deleted wherever it points.                 *)
Deletable_Forced(t) == ref[t] # None

(* git update-ref -d deletes the ref only while it is what was proven.     *)
Deletable(t) == ref[t] = Head

DeleteBranch(r) ==
    /\ At(r, "delete")
    /\ IF run[r].todo = {}
       THEN Goto(r, "trees") /\ UNCHANGED ref
       ELSE \E t \in run[r].todo :
               IF Deletable(t)
               THEN /\ ref' = [ref EXCEPT ![t] = None]
                    /\ Set(r, [run[r] EXCEPT !.todo = @ \ {t}])
               ELSE Finish(r, "failed") /\ UNCHANGED ref
    /\ UNCHANGED <<merged, remote, tree, other, made, late, faults>>

(* The final inventory: no named worktree, and the unrelated ones exactly  *)
(* as they were.                                                           *)
CheckTrees(r) ==
    /\ At(r, "trees")
    /\ IF other = run[r].other /\ \A t \in Trees : ~tree[t].record
       THEN Goto(r, "branches")
       ELSE Finish(r, "failed")
    /\ Keep

(* Seeded fault: only the unrelated branches are compared.                 *)
BranchesGone_Unchecked == TRUE

BranchesGone == \A t \in Attached : ref[t] = None

(* The final branches; a worktree that is away is none of them.            *)
CheckBranches(r) ==
    /\ At(r, "branches")
    /\ Finish(r, IF BranchesGone /\ (other = "changed") = (run[r].other = "changed")
                 THEN "ok" ELSE "failed")
    /\ Keep

-------------------------------------------------------------------------------
(* GitHub: the pull request is merged, the branch deleted.                 *)
Merge == ~merged /\ merged' = TRUE /\ UNCHANGED <<remote, tree, ref, other, made, late, run, faults>>

DeleteRemote ==
    /\ remote /\ remote' = FALSE
    /\ UNCHANGED <<merged, tree, ref, other, made, late, run, faults>>

(* People.                                                                 *)
Touch(t) == run' = [r \in Runs |-> [run[r] EXCEPT !.since = @ \cup {t}]]

Edit(t) ==
    /\ tree[t].dir # "gone" /\ ~tree[t].work
    /\ tree' = [tree EXCEPT ![t].work = TRUE]
    /\ Touch(t)
    /\ UNCHANGED <<merged, remote, ref, other, made, late, faults>>

Looked(r, t) == run[r].pc \in {"remove", "resume", "force"} /\ run[r].hand = t

MakeCommit(t) ==
    /\ tree[t] = [dir |-> "whole", record |-> TRUE, head |-> Head, work |-> TRUE]
    /\ tree' = [tree EXCEPT ![t].work = FALSE, ![t].head = Newer]
    /\ ref' = IF t \in Attached THEN [ref EXCEPT ![t] = Newer] ELSE ref
    /\ made' = made \cup {t}
    /\ late' = IF t \in Detached /\ \E r \in Runs : Looked(r, t) THEN late \cup {t} ELSE late
    /\ Touch(t)
    /\ UNCHANGED <<merged, remote, other, faults>>

(* The name of a deleted branch is used again, for a newer commit.         *)
ReuseBranch(t) ==
    /\ t \in Attached /\ ref[t] = None
    /\ ref' = [ref EXCEPT ![t] = Newer]
    /\ made' = made \cup {t}
    /\ UNCHANGED <<merged, remote, tree, other, late, run, faults>>

(* Unrelated work goes on, or an unrelated worktree's disk is away.        *)
ElseWhere ==
    /\ other = "there"
    /\ other' \in {"changed", "away"}
    /\ UNCHANGED <<merged, remote, tree, ref, made, late, run, faults>>

Step(r) ==
    \/ Stop(r) \/ List(r) \/ Status(r) \/ Refs(r) \/ PreflightBeforeProof(r) \/ Prove(r)
    \/ RemoteHead(r) \/ CheckHead(r) \/ Remove(r) \/ ResumePartialRemoval(r) \/ ForceRemove(r)
    \/ PreflightBeforePrune(r) \/ Prune(r) \/ DeleteBranch(r) \/ CheckTrees(r) \/ CheckBranches(r)

Next ==
    \/ \E r \in Runs : Step(r)
    \/ \E t \in Trees : Edit(t) \/ MakeCommit(t) \/ ReuseBranch(t)
    \/ Merge \/ DeleteRemote \/ ElseWhere

Spec == Init /\ [][Next]_vars

-------------------------------------------------------------------------------
TypeOK ==
    /\ merged \in BOOLEAN /\ remote \in BOOLEAN
    /\ tree \in [Trees -> Worktree]
    /\ \A t \in Trees : tree[t].dir = "whole" => tree[t].record
    /\ ref \in [Trees -> Commit \cup {None}]
    /\ other \in {"there", "changed", "away", "pruned"}
    /\ run \in [Runs -> Run]
    /\ made \subseteq Trees /\ late \subseteq Detached
    /\ faults \in Nat

(* A change that is not committed is deleted only by a forced removal, and *)
(* only if it was made after the run had seen nothing but deletions there  *)
(* (resumePartialWorktreeRemoval, "the normal dirty-worktree protection    *)
(* must still refuse it").                                                 *)
WorkKept ==
    [][\A t \in Trees :
          tree[t].work /\ ~tree'[t].work /\ tree'[t].head = tree[t].head =>
              \E r \in Runs : At(r, "force") /\ run[r].hand = t /\ t \in run[r].since]_vars

Reachable(t, c) == ref[t] >= c \/ (tree[t].record /\ tree[t].head >= c)

(* A commit stays reachable, in the repository or, for the head of a       *)
(* merged pull request, on GitHub; the only one that can be lost is made   *)
(* without a branch after the run has checked the tree's HEAD (the two     *)
(* owned-heads checks, update-ref with the expected value).                *)
CommitsKept ==
    \A t \in Trees :
        /\ merged \/ Reachable(t, Head)
        /\ t \in made => Reachable(t, Newer) \/ t \in late

(* A branch goes only after the worktrees, directory and record: a run     *)
(* that fails over a tree, and the runs beside it, leave every branch that *)
(* is still checked out (completePullRequest, the order of the removals).  *)
BranchesGoLast ==
    [][\A t \in Trees :
          ref[t] # None /\ ref'[t] = None =>
              \A u \in Trees : tree[u].dir = "gone" /\ ~tree[u].record]_vars

(* A run that answers ok leaves the named worktrees and branches gone, the *)
(* pull request merged, its remote branch deleted, and has not pruned an   *)
(* unrelated record (the postconditions).                                  *)
OkMeansExact ==
    [][\A r \in Runs :
          run[r].out # "ok" /\ run'[r].out = "ok" =>
              /\ merged /\ ~remote /\ ~run[r].took
              /\ \A t \in Trees : tree[t].dir = "gone" /\ ~tree[t].record /\ ref[t] = None]_vars
================================================================================
