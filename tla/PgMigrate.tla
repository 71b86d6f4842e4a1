------------------------------- MODULE PgMigrate -------------------------------
(***************************************************************************)
(* Runner.Apply of pg/runner.go: forward-only migrations recorded in a     *)
(* ledger, run by several processes at once (replicas of a service that    *)
(* start together, an old and a new release, a retry after a crash).       *)
(*                                                                         *)
(* Nothing serialises two runs of Apply: each reads the ledger once, and   *)
(* only the primary key of the ledger stops it from repeating what another *)
(* run did meanwhile.  PostgreSQL is external: an INSERT of a version waits *)
(* for the transaction that holds it, then conflicts if that one committed; *)
(* a run that dies or loses its COMMIT's answer leaves its transaction in   *)
(* doubt, and the server commits or aborts it later.                       *)
(***************************************************************************)
EXTENDS Integers, Sequences

CONSTANTS
    Runs,            \* callers of Apply
    List,            \* List[r]: the migrations r supplies, [version, name]
    Waiver,          \* Waiver[r]: "no", "blank" (no reason given) or "reason"
    MaxExportAge,    \* Runner.MaxExportAge, 24 hours when it is not positive
    MaxTime,         \* bound of the model: the clock stops here
    MaxFaults        \* bound of the model: errors, crashes and cancellations

None == -1

Migration == [version : Int, name : STRING]
Versions == UNION {{List[r][i].version : i \in DOMAIN List[r]} : r \in Runs}
Names == UNION {{List[r][i].name : i \in DOMAIN List[r]} : r \in Runs}

ASSUME RunAssumption ==
    /\ \A r \in Runs : List[r] \in Seq(Migration)
    /\ \A r \in Runs : Waiver[r] \in {"no", "blank", "reason"}
    /\ MaxExportAge \in Nat /\ MaxTime \in Nat /\ MaxFaults \in Nat

(* A ledger row; export is None for a waived migration.  The waiver reason *)
(* is the run's own.                                                       *)
Row == [name : Names \cup {""}, appliedAt : Nat, export : Nat \cup {None}]
NoRow == [name |-> "", appliedAt |-> 0, export |-> None]

VARIABLES
    now,       \* the clock
    exists,    \* the ledger table has been created
    ledger,    \* version -> committed row, or NoRow
    ran,       \* version -> how often its SQL has been committed
    lock,      \* version -> the uncommitted INSERT of its row: see Lock
    run,       \* what each caller's Apply is doing
    faults     \* errors so far

db == <<exists, ledger, ran, lock>>
vars == <<now, db, run, faults>>

(* fate "open": the run still drives the transaction; "doubt": it is gone. *)
Lock == [fate : {"free", "open", "doubt"}, row : Row]
Free == [fate |-> "free", row |-> NoRow]

(* todo holds the indices of the pending migrations; err is what the last  *)
(* Apply of this caller returned, "nil" for success.                       *)
Run == [pc : {"idle", "read", "gate", "apply", "commit"},
        todo : SUBSET Nat, receipt : Nat \cup {None},
        err : {"none", "nil", "invalid", "drift", "refused", "failed"}]

Init ==
    /\ now = 0
    /\ exists = FALSE
    /\ ledger = [v \in Versions |-> NoRow]
    /\ ran = [v \in Versions |-> 0]
    /\ lock = [v \in Versions |-> Free]
    /\ run = [r \in Runs |-> [pc |-> "idle", todo |-> {}, receipt |-> None, err |-> "none"]]
    /\ faults = 0

Goto(r, pc) == run' = [run EXCEPT ![r].pc = pc]

Return(r, err) ==
    run' = [run EXCEPT ![r] = [pc |-> "idle", todo |-> {}, receipt |-> None, err |-> err]]

Applied(m) == ledger[m.version] # NoRow

-------------------------------------------------------------------------------
(* validateMigrations.                                                     *)
ValidList(list) ==
    /\ \A i \in DOMAIN list : list[i].version > 0 /\ list[i].name # ""
    /\ \A i, j \in DOMAIN list : i < j => list[i].version < list[j].version

(* CREATE TABLE IF NOT EXISTS is a no-op when another run was first.       *)
Start(r) ==
    /\ run[r].pc = "idle"
    /\ IF ValidList(List[r]) THEN exists' = TRUE /\ Goto(r, "read")
                             ELSE UNCHANGED exists /\ Return(r, "invalid")
    /\ UNCHANGED <<now, ledger, ran, lock, faults>>

(* Seeded fault: an applied version is skipped whatever its name.          *)
Drift_Ignored(r) == FALSE

Drift(r) ==
    \E i \in DOMAIN List[r] :
        Applied(List[r][i]) /\ ledger[List[r][i].version].name # List[r][i].name

Pending(r) == {i \in DOMAIN List[r] : ~Applied(List[r][i])}

(* One SELECT reads the ledger; the drift check and the pending list are   *)
(* computed from that snapshot and never looked at again.                  *)
ReadLedger(r) ==
    /\ run[r].pc = "read"
    /\ \/ Drift(r) /\ Return(r, "drift")
       \/ ~Drift(r) /\ Pending(r) = {} /\ Return(r, "nil")
       \/ /\ ~Drift(r) /\ Pending(r) # {}
          /\ run' = [run EXCEPT ![r].pc = "gate", ![r].todo = Pending(r)]
    /\ UNCHANGED <<now, db, faults>>

(* Seeded fault: an export from the future is accepted.                    *)
Acceptable_Future(createdAt, digest) ==
    createdAt # None /\ now - createdAt <= MaxExportAge /\ digest

(* validateExportReceipt: a timestamp, neither in the future nor too old,  *)
(* and a SHA-256 digest.                                                   *)
Acceptable(createdAt, digest) ==
    /\ createdAt # None
    /\ createdAt <= now
    /\ now - createdAt <= MaxExportAge
    /\ digest

PassWaiver(r) ==
    /\ run[r].pc = "gate"
    /\ Waiver[r] # "no"
    /\ IF Waiver[r] = "reason" THEN Goto(r, "apply") ELSE Return(r, "refused")
    /\ UNCHANGED <<now, db, faults>>

(* The export gate answers with any receipt, good or bad.                  *)
PassGate(r) ==
    /\ run[r].pc = "gate"
    /\ Waiver[r] = "no"
    /\ \E createdAt \in (0..now + 1) \cup {None}, digest \in BOOLEAN :
          /\ Acceptable(createdAt, digest)
          /\ run' = [run EXCEPT ![r].pc = "apply", ![r].receipt = createdAt]
    /\ UNCHANGED <<now, db, faults>>

RefuseReceipt(r) ==
    /\ run[r].pc = "gate"
    /\ Waiver[r] = "no"
    /\ faults < MaxFaults
    /\ faults' = faults + 1
    /\ Return(r, "refused")
    /\ UNCHANGED <<now, db>>

-------------------------------------------------------------------------------
(* The loop over the pending migrations, in list order.                    *)
Current(r, i) == i \in run[r].todo /\ \A j \in run[r].todo : i <= j

(* Seeded fault: ON CONFLICT DO UPDATE.                                    *)
KeyTaken_Upsert(v) == FALSE

KeyTaken(v) == ledger[v] # NoRow

(* BEGIN, the migration's own SQL and the INSERT of its row, invisible to  *)
(* the other runs until COMMIT but for the lock on the key.                *)
InsertRow(r, i) ==
    LET v == List[r][i].version IN
    /\ run[r].pc = "apply" /\ Current(r, i)
    /\ lock[v].fate = "free"
    /\ ~KeyTaken(v)
    /\ lock' = [lock EXCEPT ![v] = [fate |-> "open", row |->
          [name |-> List[r][i].name, appliedAt |-> now, export |-> run[r].receipt]]]
    /\ Goto(r, "commit")
    /\ UNCHANGED <<now, exists, ledger, ran, faults>>

(* Seeded fault: the conflicting INSERT is repeated, not returned.         *)
InsertConflict_Repeats(r, i) ==
    /\ run[r].pc = "apply" /\ Current(r, i)
    /\ lock[List[r][i].version].fate = "free"
    /\ KeyTaken(List[r][i].version)
    /\ UNCHANGED vars

(* Another run committed this version after the snapshot: the INSERT fails *)
(* and the whole transaction, SQL included, is rolled back.                *)
InsertConflict(r, i) ==
    /\ run[r].pc = "apply" /\ Current(r, i)
    /\ lock[List[r][i].version].fate = "free"
    /\ KeyTaken(List[r][i].version)
    /\ Return(r, "failed")
    /\ UNCHANGED <<now, db, faults>>

Persist(v) ==
    /\ ledger' = [ledger EXCEPT ![v] = lock[v].row]
    /\ ran' = [ran EXCEPT ![v] = @ + 1]
    /\ lock' = [lock EXCEPT ![v] = Free]

Commit(r, i) ==
    LET rest == run[r].todo \ {i} IN
    /\ run[r].pc = "commit" /\ Current(r, i)
    /\ Persist(List[r][i].version)
    /\ IF rest = {} THEN Return(r, "nil")
       ELSE run' = [run EXCEPT ![r].pc = "apply", ![r].todo = rest]
    /\ UNCHANGED <<now, exists, faults>>

(* Seeded fault: a failed COMMIT goes on with the next migration.          *)
Abandon_GoesOn(r) ==
    LET rest == {i \in run[r].todo : ~Current(r, i)} IN
    IF run[r].pc = "commit" /\ rest # {}
    THEN run' = [run EXCEPT ![r].pc = "apply", ![r].todo = rest]
    ELSE Return(r, "failed")

Abandon(r) == Return(r, "failed")

(* An error from the database, a cancelled context, a crash: Apply ends    *)
(* and what it had not committed is rolled back, at once or, when the      *)
(* connection is gone, whenever the server notices.  A COMMIT that was on  *)
(* its way may still take effect.                                          *)
Break(r) ==
    /\ run[r].pc # "idle"
    /\ faults < MaxFaults
    /\ faults' = faults + 1
    /\ Abandon(r)
    /\ IF run[r].pc = "commit"
       THEN \E i \in run[r].todo :
               Current(r, i) /\ lock' = [lock EXCEPT ![List[r][i].version].fate = "doubt"]
       ELSE UNCHANGED lock
    /\ UNCHANGED <<now, exists, ledger, ran>>

(* The server settles a transaction whose run is gone.                     *)
Settle(v) ==
    /\ lock[v].fate = "doubt"
    /\ \/ Persist(v)
       \/ lock' = [lock EXCEPT ![v] = Free] /\ UNCHANGED <<ledger, ran>>
    /\ UNCHANGED <<now, exists, run, faults>>

Tick ==
    /\ now < MaxTime
    /\ now' = now + 1
    /\ UNCHANGED <<db, run, faults>>

Proceed(r) ==
    \/ ReadLedger(r) \/ PassWaiver(r) \/ PassGate(r)
    \/ \E i \in run[r].todo : InsertRow(r, i) \/ InsertConflict(r, i) \/ Commit(r, i)

Next ==
    \/ \E r \in Runs : Start(r) \/ Proceed(r) \/ RefuseReceipt(r) \/ Break(r)
    \/ \E v \in Versions : Settle(v)
    \/ Tick

Spec == Init /\ [][Next]_vars

(* A run that is not cut short goes on (an INSERT waits only for a         *)
(* transaction that ends), a failed one is retried by its process manager, *)
(* and the server settles abandoned transactions.                          *)
FairSpec ==
    /\ Spec
    /\ \A r \in Runs : WF_vars(Start(r)) /\ SF_vars(Proceed(r))
    /\ \A v \in Versions : WF_vars(Settle(v))

-------------------------------------------------------------------------------
TypeOK ==
    /\ now \in Nat
    /\ exists \in BOOLEAN
    /\ ledger \in [Versions -> Row]
    /\ ran \in [Versions -> Nat]
    /\ lock \in [Versions -> Lock]
    /\ run \in [Runs -> Run]
    /\ \A r \in Runs : run[r].todo \subseteq DOMAIN List[r]
    /\ faults \in Nat

(* Whatever races, dies or loses a COMMIT's answer, what happens to the    *)
(* database is what the abstract Ledger allows: each migration once, its   *)
(* SQL and its row together, none before its predecessors, although no run *)
(* reads the ledger again (Apply, one transaction per pending migration).  *)
L == INSTANCE Ledger WITH
        name <- [v \in Versions |-> ledger[v].name],
        Lists <- {List[r] : r \in {q \in Runs : ValidList(List[q])}}

ImplementsLedger == L!Spec

(* When Apply has returned nil, every migration it was given is in the     *)
(* ledger under the name it was given, even if other runs applied part of  *)
(* it (Apply, the drift check against a snapshot).                         *)
SuccessMeansApplied ==
    \A r \in Runs : run[r].err = "nil" =>
        \A i \in DOMAIN List[r] : ledger[List[r][i].version].name = List[r][i].name

(* No row claims an export newer than the migration it protects (the       *)
(* receipt is checked once and recorded with every later row).             *)
ExportPredatesRow ==
    \A v \in Versions :
        ledger[v] # NoRow => ledger[v].export = None \/ ledger[v].export <= ledger[v].appliedAt

(* Every caller ends up with its whole list applied or with a ledger that  *)
(* contradicts it: no two runs hold each other up for ever.                *)
EventuallySettled ==
    \A r \in Runs :
        <>[](run[r].err \in {"nil", "drift", "invalid"})
=============================================================================
