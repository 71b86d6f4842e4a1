----------------------------- MODULE StorageProofs -----------------------------
(***************************************************************************)
(* What is proved of the packages that store data, pg (its migration       *)
(* runner) and s3 (PutStream); the two do not interact.                    *)
(*                                                                         *)
(* PgMigrate: type correctness, the refinement of Ledger and what nil      *)
(* means, for any runs, lists, waivers and clocks.  None of it is          *)
(* inductive: a COMMIT looks at nothing.  The strengthening says what a    *)
(* run may rely on since its snapshot (RunInv), that an uncommitted row is *)
(* one that the ledger lacks and whose predecessors it holds, whoever      *)
(* drives the transaction (LockInv), and that no two runs drive the same   *)
(* one (Apart).                                                            *)
(*                                                                         *)
(* S3PutStream: no torn object, no completion the bucket cannot assemble,  *)
(* no orphan without an error and no nil without the announced object, for *)
(* any calls, bodies, part limit, number of attempts and faults.           *)
(* From that: the refinement of AtomicObject, and the order in which every *)
(* call comes nearer to its end.                                           *)
(***************************************************************************)
EXTENDS PgMigrate, S3PutStream, TLAPS

USE DEF None

InLedger(m) == ledger[m.version] # NoRow /\ ledger[m.version].name = m.name

Sound(row) == row.name # "" /\ (row.export = None \/ row.export <= row.appliedAt)

RunInv(r) ==
    /\ run[r].pc # "idle" \/ run[r].err = "nil" => ValidList(List[r])
    /\ run[r].pc \in {"gate", "apply", "commit"} =>
          \A i \in DOMAIN List[r] : i \in run[r].todo \/ InLedger(List[r][i])
    /\ run[r].err = "nil" => \A i \in DOMAIN List[r] : InLedger(List[r][i])
    /\ run[r].receipt = None \/ run[r].receipt <= now
    /\ run[r].pc = "commit" => \A i \in run[r].todo :
          Current(r, i) => LET held == lock[List[r][i].version] IN
                              held.fate = "open" /\ held.row.name = List[r][i].name

LockInv(v) ==
    lock[v].fate # "free" =>
        /\ ledger[v] = NoRow
        /\ Sound(lock[v].row)
        /\ \E r \in Runs : \E i \in DOMAIN List[r] :
              /\ ValidList(List[r])
              /\ List[r][i].version = v
              /\ List[r][i].name = lock[v].row.name
              /\ \A j \in 1..(i - 1) : InLedger(List[r][j])

RowInv(v) ==
    /\ ledger[v] # NoRow => Sound(ledger[v])
    /\ ran[v] = IF ledger[v] = NoRow THEN 0 ELSE 1

Drives(r, v) ==
    run[r].pc = "commit" /\ \E i \in run[r].todo : Current(r, i) /\ List[r][i].version = v

Apart == \A r, q \in Runs, v \in Versions : Drives(r, v) /\ Drives(q, v) => r = q

Facts ==
    /\ \A r \in Runs : RunInv(r)
    /\ \A v \in Versions : LockInv(v) /\ RowInv(v)
    /\ Apart

Inv == TypeOK /\ Facts

-------------------------------------------------------------------------------
LEMMA ListType ==
  ASSUME NEW r \in Runs, NEW i \in DOMAIN List[r]
  PROVE  /\ List[r] \in Seq(Migration)
         /\ i \in 1..Len(List[r])
         /\ List[r][i] \in Migration
         /\ List[r][i].version \in Versions
         /\ List[r][i].name \in Names
  BY RunAssumption DEF Versions, Names

LEMMA NoRowName == NoRow.name = ""
  BY DEF NoRow

LEMMA NoRowType == NoRow \in Row /\ Free \in Lock
  BY DEF NoRow, Free, Row, Lock

LEMMA IdleType ==
  ASSUME NEW err \in {"none", "nil", "invalid", "drift", "refused", "failed"}
  PROVE  [pc |-> "idle", todo |-> {}, receipt |-> None, err |-> err] \in Run
  <1>1. {} \in SUBSET Nat
    OBVIOUS
  <1> QED
    BY <1>1 DEF Run

LEMMA InitType == Init => TypeOK
  <1> SUFFICES ASSUME Init PROVE TypeOK
    OBVIOUS
  <1>1. run \in [Runs -> Run] /\ \A r \in Runs : run[r].todo = {}
    BY IdleType DEF Init
  <1>2. ledger \in [Versions -> Row] /\ lock \in [Versions -> Lock] /\ ran \in [Versions -> Nat]
    BY NoRowType DEF Init
  <1> QED
    BY <1>1, <1>2 DEF Init, TypeOK

LEMMA ReturnType ==
  ASSUME TypeOK, NEW r \in Runs, NEW err \in {"none", "nil", "invalid", "drift", "refused", "failed"},
         Return(r, err)
  PROVE  run' \in [Runs -> Run] /\ \A q \in Runs : run'[q].todo \subseteq DOMAIN List[q]
  BY IdleType DEF TypeOK, Return

LEMMA GotoType ==
  ASSUME TypeOK, NEW r \in Runs, NEW pc \in {"idle", "read", "gate", "apply", "commit"},
         Goto(r, pc)
  PROVE  run' \in [Runs -> Run] /\ \A q \in Runs : run'[q].todo \subseteq DOMAIN List[q]
  <1>1. run[r] \in Run
    BY DEF TypeOK
  <1>2. [run[r] EXCEPT !.pc = pc] \in Run
    BY <1>1 DEF Run
  <1>3. run' = [run EXCEPT ![r] = [run[r] EXCEPT !.pc = pc]]
    BY DEF Goto
  <1> QED
    BY <1>1, <1>2, <1>3 DEF TypeOK, Run

LEMMA PersistType ==
  ASSUME TypeOK, NEW v \in Versions, Persist(v)
  PROVE  ledger' \in [Versions -> Row] /\ ran' \in [Versions -> Nat] /\ lock' \in [Versions -> Lock]
  <1>1. lock[v] \in Lock
    BY DEF TypeOK
  <1>2. lock[v].row \in Row
    BY <1>1 DEF Lock
  <1>3. ran[v] + 1 \in Nat
    BY DEF TypeOK
  <1> QED
    BY <1>2, <1>3, NoRowType DEF Persist, TypeOK

LEMMA TypeStep == TypeOK /\ [Next]_vars => TypeOK'
  <1> SUFFICES ASSUME TypeOK, [Next]_vars PROVE TypeOK'
    OBVIOUS
  <1> DEFINE RunOK == run' \in [Runs -> Run] /\ \A q \in Runs : run'[q].todo \subseteq DOMAIN List[q]
  <1>a. ASSUME NEW r \in Runs PROVE run[r] \in Run /\ run[r].todo \subseteq DOMAIN List[r]
    BY DEF TypeOK
  <1>1. ASSUME NEW r \in Runs, Start(r) PROVE TypeOK'
    <2>1. RunOK
      BY <1>1, ReturnType, GotoType DEF Start
    <2> QED
      BY <1>1, <2>1 DEF Start, TypeOK
  <1>2. ASSUME NEW r \in Runs, ReadLedger(r) PROVE TypeOK'
    <2>1. Pending(r) \in SUBSET Nat /\ Pending(r) \subseteq DOMAIN List[r]
      BY ListType DEF Pending
    <2>2. CASE \E err \in {"drift", "nil"} : Return(r, err)
      BY <1>2, <2>2, ReturnType DEF ReadLedger, TypeOK, db
    <2>3. CASE run' = [run EXCEPT ![r].pc = "gate", ![r].todo = Pending(r)]
      <3>1. [run[r] EXCEPT !.pc = "gate", !.todo = Pending(r)] \in Run
        BY <1>a, <2>1 DEF Run
      <3>2. run' = [run EXCEPT ![r] = [run[r] EXCEPT !.pc = "gate", !.todo = Pending(r)]]
        BY <2>3
      <3>3. RunOK
        BY <1>a, <2>1, <3>1, <3>2 DEF TypeOK, Run
      <3> QED
        BY <1>2, <3>3 DEF ReadLedger, TypeOK, db
    <2> QED
      BY <1>2, <2>2, <2>3 DEF ReadLedger
  <1>3. ASSUME NEW r \in Runs, PassWaiver(r) PROVE TypeOK'
    <2>1. RunOK
      BY <1>3, ReturnType, GotoType DEF PassWaiver
    <2> QED
      BY <1>3, <2>1 DEF PassWaiver, TypeOK, db
  <1>4. ASSUME NEW r \in Runs, PassGate(r) PROVE TypeOK'
    <2>1. PICK c \in (0..now + 1) \cup {None} :
             run' = [run EXCEPT ![r].pc = "apply", ![r].receipt = c]
      BY <1>4 DEF PassGate
    <2>2. c \in Nat \cup {None}
      BY <2>1 DEF TypeOK
    <2>3. [run[r] EXCEPT !.pc = "apply", !.receipt = c] \in Run
      BY <1>a, <2>2 DEF Run
    <2>4. run' = [run EXCEPT ![r] = [run[r] EXCEPT !.pc = "apply", !.receipt = c]]
      BY <2>1
    <2>5. RunOK
      BY <1>a, <2>3, <2>4 DEF TypeOK, Run
    <2> QED
      BY <1>4, <2>5 DEF PassGate, TypeOK, db
  <1>5. ASSUME NEW r \in Runs, RefuseReceipt(r) PROVE TypeOK'
    <2>1. RunOK
      BY <1>5, ReturnType DEF RefuseReceipt
    <2> QED
      BY <1>5, <2>1 DEF RefuseReceipt, TypeOK, db
  <1>6. ASSUME NEW r \in Runs, NEW i \in run[r].todo, InsertRow(r, i) PROVE TypeOK'
    <2> DEFINE v == List[r][i].version
               row == [name |-> List[r][i].name, appliedAt |-> now, export |-> run[r].receipt]
    <2>1. RunOK
      BY <1>6, GotoType DEF InsertRow
    <2>2. i \in DOMAIN List[r]
      BY <1>a
    <2>3. List[r][i].name \in Names \cup {""} /\ now \in Nat /\ run[r].receipt \in Nat \cup {None}
      BY <1>a, <2>2, ListType DEF TypeOK, Run
    <2>4. [fate |-> "open", row |-> row] \in Lock
      BY <2>3 DEF Lock, Row
    <2>5. lock' \in [Versions -> Lock]
      BY <1>6, <2>4 DEF InsertRow, TypeOK
    <2> QED
      BY <1>6, <2>1, <2>5 DEF InsertRow, TypeOK
  <1>7. ASSUME NEW r \in Runs, NEW i \in run[r].todo, InsertConflict(r, i) PROVE TypeOK'
    <2>1. RunOK
      BY <1>7, ReturnType DEF InsertConflict
    <2> QED
      BY <1>7, <2>1 DEF InsertConflict, TypeOK, db
  <1>8. ASSUME NEW r \in Runs, NEW i \in run[r].todo, Commit(r, i) PROVE TypeOK'
    <2> DEFINE rest == run[r].todo \ {i}
    <2>1. List[r][i].version \in Versions
      BY <1>a, ListType
    <2>2. RunOK
      <3>1. CASE Return(r, "nil")
        BY <3>1, ReturnType
      <3>2. CASE run' = [run EXCEPT ![r].pc = "apply", ![r].todo = rest]
        <4>1. [run[r] EXCEPT !.pc = "apply", !.todo = rest] \in Run
          BY <1>a DEF Run
        <4>2. run' = [run EXCEPT ![r] = [run[r] EXCEPT !.pc = "apply", !.todo = rest]]
          BY <3>2
        <4> QED
          BY <1>a, <4>1, <4>2 DEF TypeOK, Run
      <3> QED
        BY <1>8, <3>1, <3>2 DEF Commit
    <2> QED
      BY <1>8, <2>1, <2>2, PersistType DEF Commit, TypeOK
  <1>9. ASSUME NEW r \in Runs, Break(r) PROVE TypeOK'
    <2>1. RunOK
      BY <1>9, ReturnType DEF Break, Abandon
    <2>2. lock' \in [Versions -> Lock]
      <3>1. CASE UNCHANGED lock
        BY <3>1 DEF TypeOK
      <3>2. ASSUME NEW i \in run[r].todo,
                   lock' = [lock EXCEPT ![List[r][i].version].fate = "doubt"]
            PROVE  lock' \in [Versions -> Lock]
        <4>1. List[r][i].version \in Versions
          BY <1>a, ListType
        <4>2. lock[List[r][i].version] \in Lock
          BY <4>1 DEF TypeOK
        <4> QED
          BY <3>2, <4>2 DEF TypeOK, Lock
      <3> QED
        BY <1>9, <3>1, <3>2 DEF Break
    <2> QED
      BY <1>9, <2>1, <2>2 DEF Break, TypeOK
  <1>10. ASSUME NEW v \in Versions, Settle(v) PROVE TypeOK'
    <2>1. CASE Persist(v)
      BY <1>10, <2>1, PersistType DEF Settle, TypeOK
    <2>2. CASE lock' = [lock EXCEPT ![v] = Free] /\ UNCHANGED <<ledger, ran>>
      BY <1>10, <2>2, NoRowType DEF Settle, TypeOK
    <2> QED
      BY <1>10, <2>1, <2>2 DEF Settle
  <1>11. CASE Tick
    BY <1>11 DEF Tick, TypeOK, db
  <1>12. CASE UNCHANGED vars
    BY <1>12 DEF vars, db, TypeOK
  <1> QED
    BY <1>1, <1>2, <1>3, <1>4, <1>5, <1>6, <1>7, <1>8, <1>9, <1>10, <1>11, <1>12
       DEF Next, Proceed

(* All the state of the model has the types its declarations give.         *)
THEOREM TypeCorrect == Spec => []TypeOK
  BY InitType, TypeStep, PTL DEF Spec

-------------------------------------------------------------------------------
LEMMA InitFacts == Init => Facts
  BY ListType DEF Init, Facts, RunInv, LockInv, RowInv, Apart, Drives, Free

(* What the ledger holds it keeps.                                         *)
Grows == \A v \in Versions : ledger[v] # NoRow => ledger'[v] = ledger[v]

LEMMA KeptRun ==
  ASSUME NEW q \in Runs, RunInv(q), TypeOK, Grows, run'[q] = run[q], now' \in Nat, now <= now',
         \A i \in run[q].todo : run[q].pc = "commit" /\ Current(q, i) =>
            lock'[List[q][i].version] = lock[List[q][i].version]
  PROVE  RunInv(q)'
  <1>1. \A i \in DOMAIN List[q] : InLedger(List[q][i]) => InLedger(List[q][i])'
    BY ListType DEF InLedger, Grows
  <1>2. run[q].receipt = None \/ run[q].receipt <= now'
    <2>1. run[q] \in Run /\ now \in Nat
      BY DEF TypeOK
    <2>2. run[q].receipt \in Nat \cup {None}
      BY <2>1 DEF Run
    <2> QED
      BY <2>1, <2>2 DEF RunInv
  <1> QED
    BY <1>1, <1>2 DEF RunInv, Current

LEMMA KeptLock ==
  ASSUME NEW v \in Versions, LockInv(v), TypeOK, Grows,
         lock'[v].fate = "free" \/ (lock[v].fate # "free" /\ lock'[v].row = lock[v].row),
         lock'[v].fate # "free" => ledger'[v] = ledger[v]
  PROVE  LockInv(v)'
  <1>1. \A r \in Runs : \A j \in DOMAIN List[r] : InLedger(List[r][j]) => InLedger(List[r][j])'
    BY ListType DEF InLedger, Grows
  <1>2. \A r \in Runs : \A i \in DOMAIN List[r] : \A j \in 1..(i - 1) : j \in DOMAIN List[r]
    BY ListType
  <1> QED
    BY <1>1, <1>2 DEF LockInv

LEMMA KeptApart ==
  ASSUME Apart, NEW r \in Runs, \A q \in Runs \ {r} : run'[q] = run[q], run'[r].pc # "commit"
  PROVE  Apart'
  BY DEF Apart, Drives, Current

(* A step that leaves the database alone and does not begin a transaction. *)
LEMMA RunOnly ==
  ASSUME Inv, NEW r \in Runs, UNCHANGED <<ledger, ran, lock, now>>,
         \A q \in Runs \ {r} : run'[q] = run[q], RunInv(r)', run'[r].pc # "commit"
  PROVE  Facts'
  <1>1. Grows /\ now' \in Nat /\ now <= now'
    BY DEF Grows, Inv, TypeOK
  <1>2. ASSUME NEW q \in Runs PROVE RunInv(q)'
    BY <1>1, KeptRun DEF Inv, Facts, RunInv
  <1>3. ASSUME NEW v \in Versions PROVE LockInv(v)' /\ RowInv(v)'
    BY <1>1, KeptLock DEF Inv, Facts, RowInv
  <1> QED
    BY <1>2, <1>3, KeptApart DEF Inv, Facts

LEMMA OtherReturn ==
  ASSUME Inv, NEW r \in Runs, NEW err, Return(r, err), err # "nil"
  PROVE  RunInv(r)' /\ (\A q \in Runs \ {r} : run'[q] = run[q]) /\ run'[r].pc # "commit"
  BY DEF Inv, TypeOK, Return, RunInv

LEMMA OtherGoto ==
  ASSUME Inv, NEW r \in Runs, NEW pc, Goto(r, pc)
  PROVE  /\ \A q \in Runs \ {r} : run'[q] = run[q]
         /\ run'[r].pc = pc /\ run'[r].todo = run[r].todo
         /\ run'[r].receipt = run[r].receipt /\ run'[r].err = run[r].err
  <1>1. run[r] \in Run
    BY DEF Inv, TypeOK
  <1>2. run' = [run EXCEPT ![r] = [run[r] EXCEPT !.pc = pc]]
    BY DEF Goto
  <1> QED
    BY <1>1, <1>2 DEF Inv, TypeOK, Run

-------------------------------------------------------------------------------
LEMMA StartFacts == ASSUME Inv, NEW r \in Runs, Start(r) PROVE Facts'
  <1>1. CASE ValidList(List[r]) /\ Goto(r, "read")
    <2>1. RunInv(r)'
      BY <1>1, OtherGoto, Start(r) DEF Start, Inv, Facts, RunInv, InLedger
    <2> QED
      BY <1>1, <2>1, OtherGoto, RunOnly, Start(r) DEF Start
  <1>2. CASE Return(r, "invalid")
    BY <1>2, OtherReturn, RunOnly, Start(r) DEF Start
  <1> QED
    BY <1>1, <1>2, Start(r) DEF Start

(* The snapshot: what is not pending is in the ledger under its name.      *)
LEMMA ReadFacts == ASSUME Inv, NEW r \in Runs, ReadLedger(r) PROVE Facts'
  <1>1. ASSUME ~Drift(r), NEW i \in DOMAIN List[r]
        PROVE  i \in Pending(r) \/ InLedger(List[r][i])'
    BY <1>1, ReadLedger(r) DEF Drift, Pending, Applied, InLedger, ReadLedger, db
  <1>2. UNCHANGED <<ledger, ran, lock, now>>
    BY ReadLedger(r) DEF ReadLedger, db
  <1>3. ValidList(List[r])
    BY ReadLedger(r) DEF ReadLedger, Inv, Facts, RunInv
  <1>4. CASE Return(r, "drift")
    BY <1>2, <1>4, OtherReturn, RunOnly
  <1>5. CASE ~Drift(r) /\ Pending(r) = {} /\ Return(r, "nil")
    <2>1. RunInv(r)'
      BY <1>1, <1>3, <1>5 DEF Return, RunInv, Inv, TypeOK
    <2>2. run'[r].pc # "commit" /\ \A q \in Runs \ {r} : run'[q] = run[q]
      BY <1>5 DEF Return, Inv, TypeOK
    <2> QED
      BY <1>2, <2>1, <2>2, RunOnly
  <1>6. CASE ~Drift(r) /\ run' = [run EXCEPT ![r].pc = "gate", ![r].todo = Pending(r)]
    <2>1. run[r] \in Run
      BY DEF Inv, TypeOK
    <2>2. run' = [run EXCEPT ![r] = [run[r] EXCEPT !.pc = "gate", !.todo = Pending(r)]]
      BY <1>6
    <2>3. /\ run'[r].pc = "gate" /\ run'[r].todo = Pending(r)
          /\ run'[r].receipt = run[r].receipt /\ run'[r].err = run[r].err
          /\ \A q \in Runs \ {r} : run'[q] = run[q]
      BY <2>1, <2>2 DEF Run, Inv, TypeOK
    <2>4. RunInv(r)'
      BY <1>1, <1>2, <1>3, <1>6, <2>3 DEF RunInv, Inv, Facts, InLedger
    <2> QED
      BY <1>2, <2>3, <2>4, RunOnly
  <1> QED
    BY <1>4, <1>5, <1>6, ReadLedger(r) DEF ReadLedger

LEMMA WaiverFacts == ASSUME Inv, NEW r \in Runs, PassWaiver(r) PROVE Facts'
  <1>1. UNCHANGED <<ledger, ran, lock, now>>
    BY PassWaiver(r) DEF PassWaiver, db
  <1>2. CASE Goto(r, "apply")
    <2>1. RunInv(r)'
      BY <1>1, <1>2, OtherGoto, PassWaiver(r) DEF PassWaiver, Inv, Facts, RunInv, InLedger
    <2> QED
      BY <1>1, <1>2, <2>1, OtherGoto, RunOnly
  <1>3. CASE Return(r, "refused")
    BY <1>1, <1>3, OtherReturn, RunOnly
  <1> QED
    BY <1>2, <1>3, PassWaiver(r) DEF PassWaiver

LEMMA GateFacts == ASSUME Inv, NEW r \in Runs, PassGate(r) PROVE Facts'
  <1>1. UNCHANGED <<ledger, ran, lock, now>>
    BY PassGate(r) DEF PassGate, db
  <1>2. PICK c \in (0..now + 1) \cup {None} :
           c <= now /\ run' = [run EXCEPT ![r].pc = "apply", ![r].receipt = c]
    BY PassGate(r) DEF PassGate, Acceptable
  <1>3. run[r] \in Run
    BY DEF Inv, TypeOK
  <1>4. run' = [run EXCEPT ![r] = [run[r] EXCEPT !.pc = "apply", !.receipt = c]]
    BY <1>2
  <1>5. /\ run'[r].pc = "apply" /\ run'[r].todo = run[r].todo
        /\ run'[r].receipt = c /\ run'[r].err = run[r].err
        /\ \A q \in Runs \ {r} : run'[q] = run[q]
    BY <1>3, <1>4 DEF Run, Inv, TypeOK
  <1>6. RunInv(r)'
    BY <1>1, <1>2, <1>5, PassGate(r) DEF PassGate, RunInv, Inv, Facts, InLedger
  <1> QED
    BY <1>1, <1>5, <1>6, RunOnly

LEMMA RefuseFacts == ASSUME Inv, NEW r \in Runs, RefuseReceipt(r) PROVE Facts'
  BY OtherReturn, RunOnly, RefuseReceipt(r) DEF RefuseReceipt, db

LEMMA ConflictFacts ==
  ASSUME Inv, NEW r \in Runs, NEW i \in run[r].todo, InsertConflict(r, i) PROVE Facts'
  BY OtherReturn, RunOnly, InsertConflict(r, i) DEF InsertConflict, db

(* Two runs at the same migration: only one finds the key free.            *)
LEMMA InsertFacts ==
  ASSUME Inv, NEW r \in Runs, NEW i \in run[r].todo, InsertRow(r, i) PROVE Facts'
  <1> DEFINE v == List[r][i].version
  <1>1. i \in DOMAIN List[r] /\ v \in Versions /\ ValidList(List[r]) /\ run[r] \in Run
    BY ListType, InsertRow(r, i) DEF InsertRow, Inv, TypeOK, Facts, RunInv
  <1>2. /\ Grows /\ now' \in Nat /\ now <= now' /\ UNCHANGED <<ledger, ran, now>>
        /\ ledger[v] = NoRow /\ lock[v].fate = "free" /\ Current(r, i) /\ run[r].pc = "apply"
    BY InsertRow(r, i) DEF InsertRow, KeyTaken, Grows, Inv, TypeOK
  <1>3. /\ lock'[v].fate = "open" /\ lock'[v].row.name = List[r][i].name
        /\ lock'[v].row.appliedAt = now /\ lock'[v].row.export = run[r].receipt
        /\ \A w \in Versions \ {v} : lock'[w] = lock[w]
    BY <1>1, InsertRow(r, i) DEF InsertRow, Inv, TypeOK
  <1>4. /\ run'[r].pc = "commit" /\ run'[r].todo = run[r].todo
        /\ run'[r].receipt = run[r].receipt /\ run'[r].err = run[r].err
        /\ \A q \in Runs \ {r} : run'[q] = run[q]
    BY OtherGoto, InsertRow(r, i) DEF InsertRow
  <1>5. \A k \in run[r].todo : Current(r, k) => k = i
    <2>1. run[r].todo \subseteq Nat
      BY <1>1 DEF Run
    <2> QED
      BY <1>2, <2>1 DEF Current
  <1>6. RunInv(r)'
    BY <1>1, <1>2, <1>3, <1>4, <1>5 DEF RunInv, Inv, Facts, InLedger, Current
  <1>7. ASSUME NEW q \in Runs PROVE RunInv(q)'
    <2>1. CASE q = r
      BY <1>6, <2>1
    <2>2. CASE q # r
      <3>1. ASSUME NEW k \in run[q].todo, run[q].pc = "commit", Current(q, k)
            PROVE  lock'[List[q][k].version] = lock[List[q][k].version]
        <4>1. List[q][k].version \in Versions
          BY ListType DEF Inv, TypeOK
        <4>2. lock[List[q][k].version].fate = "open"
          BY <3>1 DEF Inv, Facts, RunInv
        <4> QED
          BY <1>2, <1>3, <4>1, <4>2
      <3> QED
        BY <1>2, <1>4, <2>2, <3>1, KeptRun DEF Inv, Facts
    <2> QED
      BY <2>1, <2>2
  <1>8. Sound(lock'[v].row)
    BY <1>1, <1>2, <1>3 DEF Sound, ValidList, Inv, Facts, RunInv
  <1>9. \A j \in 1..(i - 1) : InLedger(List[r][j])'
    <2>1. ASSUME NEW j \in 1..(i - 1) PROVE j \in DOMAIN List[r] /\ j \notin run[r].todo
      BY <1>1, <1>2, ListType DEF Current
    <2> QED
      BY <1>2, <2>1 DEF Inv, Facts, RunInv, InLedger
  <1>10. ASSUME NEW w \in Versions PROVE LockInv(w)' /\ RowInv(w)'
    <2>1. CASE w = v
      BY <1>1, <1>2, <1>3, <1>8, <1>9, <2>1 DEF LockInv, RowInv, Inv, Facts
    <2>2. CASE w # v
      BY <1>2, <1>3, <2>2, KeptLock DEF RowInv, Inv, Facts
    <2> QED
      BY <2>1, <2>2
  <1>11. Apart'
    <2>1. ASSUME NEW q \in Runs \ {r}, Drives(q, v) PROVE FALSE
      BY <1>2, <2>1 DEF Drives, Inv, Facts, RunInv
    <2>2. \A w \in Versions : Drives(r, w)' => w = v
      BY <1>4, <1>5 DEF Drives, Current
    <2>3. \A q \in Runs \ {r} : \A w \in Versions : Drives(q, w)' <=> Drives(q, w)
      BY <1>4 DEF Drives, Current
    <2> QED
      BY <2>1, <2>2, <2>3 DEF Apart, Inv, Facts
  <1> QED
    BY <1>7, <1>10, <1>11 DEF Facts

-------------------------------------------------------------------------------
(* A transaction commits, whoever drives it: its row was not there.        *)
LEMMA PersistFacts ==
  ASSUME Inv, NEW v \in Versions, Persist(v), lock[v].fate # "free"
  PROVE  /\ Grows /\ ledger[v] = NoRow /\ ledger'[v] = lock[v].row /\ ledger'[v] # NoRow
         /\ ran[v] = 0 /\ ran'[v] = 1
         /\ \A w \in Versions \ {v} : lock'[w] = lock[w] /\ ledger'[w] = ledger[w] /\ ran'[w] = ran[w]
         /\ \A w \in Versions : LockInv(w)' /\ RowInv(w)'
  <1>1. /\ ledger'[v] = lock[v].row /\ ran'[v] = ran[v] + 1 /\ lock'[v].fate = "free"
        /\ \A w \in Versions \ {v} : lock'[w] = lock[w] /\ ledger'[w] = ledger[w] /\ ran'[w] = ran[w]
    BY DEF Persist, Inv, TypeOK, Free
  <1>2. ledger[v] = NoRow /\ Sound(lock[v].row) /\ ran[v] = 0
    BY DEF Inv, Facts, LockInv, RowInv
  <1>3. lock[v].row # NoRow
    BY <1>2, NoRowName DEF Sound
  <1>4. Grows
    BY <1>1, <1>2 DEF Grows
  <1>5. ASSUME NEW w \in Versions PROVE LockInv(w)' /\ RowInv(w)'
    <2>1. LockInv(w)'
      BY <1>1, <1>4, KeptLock DEF Inv, Facts
    <2>2. RowInv(w)'
      BY <1>1, <1>2, <1>3 DEF RowInv, Inv, Facts
    <2> QED
      BY <2>1, <2>2
  <1> QED
    BY <1>1, <1>2, <1>3, <1>4, <1>5

(* Apart: the other runs' transactions are still theirs.                   *)
LEMMA CommitFacts ==
  ASSUME Inv, NEW r \in Runs, NEW i \in run[r].todo, Commit(r, i)
  PROVE  Facts'
  <1> DEFINE v == List[r][i].version
             rest == run[r].todo \ {i}
  <1>1. i \in DOMAIN List[r] /\ v \in Versions /\ ValidList(List[r]) /\ run[r] \in Run
    BY ListType, Commit(r, i) DEF Commit, Inv, TypeOK, Facts, RunInv
  <1>2. /\ run[r].pc = "commit" /\ Current(r, i) /\ Persist(v) /\ now' = now
        /\ lock[v].fate = "open" /\ lock[v].row.name = List[r][i].name
    BY Commit(r, i) DEF Commit, Inv, Facts, RunInv
  <1>3. /\ Grows /\ ledger'[v] = lock[v].row /\ ledger'[v] # NoRow
        /\ \A w \in Versions \ {v} : lock'[w] = lock[w]
        /\ \A w \in Versions : LockInv(w)' /\ RowInv(w)'
    BY <1>1, <1>2, PersistFacts
  <1>4. ASSUME NEW k \in DOMAIN List[r] PROVE k \in rest \/ InLedger(List[r][k])'
    <2>1. CASE k = i
      BY <1>2, <1>3, <2>1 DEF InLedger
    <2>2. CASE k # i
      <3>1. k \in run[r].todo \/ InLedger(List[r][k])
        BY <1>2 DEF Inv, Facts, RunInv
      <3>2. List[r][k].version \in Versions
        BY ListType
      <3> QED
        BY <1>3, <2>2, <3>1, <3>2 DEF InLedger, Grows
    <2> QED
      BY <2>1, <2>2
  <1>5. /\ \A q \in Runs \ {r} : run'[q] = run[q]
        /\ run'[r].pc # "commit" /\ RunInv(r)'
    <2>1. CASE rest = {} /\ Return(r, "nil")
      BY <1>1, <1>4, <2>1 DEF Return, RunInv, Inv, TypeOK
    <2>2. CASE run' = [run EXCEPT ![r].pc = "apply", ![r].todo = rest]
      <3>1. run' = [run EXCEPT ![r] = [run[r] EXCEPT !.pc = "apply", !.todo = rest]]
        BY <2>2
      <3>2. /\ run'[r].pc = "apply" /\ run'[r].todo = rest
            /\ run'[r].receipt = run[r].receipt /\ run'[r].err = run[r].err
            /\ \A q \in Runs \ {r} : run'[q] = run[q]
        BY <1>1, <3>1 DEF Run, Inv, TypeOK
      <3>3. run[r].err = "nil" => \A k \in DOMAIN List[r] : InLedger(List[r][k])'
        BY <1>3, ListType DEF Inv, Facts, RunInv, InLedger, Grows
      <3>4. run[r].receipt = None \/ run[r].receipt <= now
        BY DEF Inv, Facts, RunInv
      <3> QED
        BY <1>1, <1>2, <1>4, <3>2, <3>3, <3>4 DEF RunInv
    <2> QED
      BY <2>1, <2>2, Commit(r, i) DEF Commit
  <1>6. ASSUME NEW q \in Runs, q # r PROVE RunInv(q)'
    <2>1. ASSUME NEW k \in run[q].todo, run[q].pc = "commit", Current(q, k)
          PROVE  lock'[List[q][k].version] = lock[List[q][k].version]
      <3>1. List[q][k].version \in Versions
        BY ListType DEF Inv, TypeOK
      <3>2. Drives(q, List[q][k].version) /\ Drives(r, v)
        BY <1>2, <2>1 DEF Drives
      <3>3. List[q][k].version # v
        BY <1>1, <1>6, <3>1, <3>2 DEF Apart, Inv, Facts
      <3> QED
        BY <1>3, <3>1, <3>3
    <2>2. TypeOK /\ RunInv(q) /\ now' \in Nat /\ now <= now' /\ run'[q] = run[q]
      BY <1>2, <1>5, <1>6 DEF Inv, Facts, TypeOK
    <2> QED
      BY <1>3, <2>1, <2>2, KeptRun
  <1> QED
    BY <1>3, <1>5, <1>6, KeptApart DEF Facts, Inv

LEMMA SettleFacts == ASSUME Inv, NEW v \in Versions, Settle(v) PROVE Facts'
  <1>1. lock[v].fate = "doubt" /\ UNCHANGED <<now, run>>
    BY Settle(v) DEF Settle
  <1>2. /\ Grows /\ \A w \in Versions : LockInv(w)' /\ RowInv(w)'
        /\ \A w \in Versions \ {v} : lock'[w] = lock[w]
    <2>1. CASE Persist(v)
      BY <1>1, <2>1, PersistFacts
    <2>2. CASE lock' = [lock EXCEPT ![v] = Free] /\ UNCHANGED <<ledger, ran>>
      <3>1. lock'[v].fate = "free" /\ \A w \in Versions \ {v} : lock'[w] = lock[w]
        BY <2>2 DEF Inv, TypeOK, Free
      <3>2. Grows
        BY <2>2 DEF Grows
      <3> QED
        BY <2>2, <3>1, <3>2, KeptLock DEF Inv, Facts, RowInv
    <2> QED
      BY <2>1, <2>2, Settle(v) DEF Settle
  <1>3. ASSUME NEW q \in Runs PROVE RunInv(q)'
    <2>1. ASSUME NEW k \in run[q].todo, run[q].pc = "commit", Current(q, k)
          PROVE  lock'[List[q][k].version] = lock[List[q][k].version]
      <3>1. List[q][k].version \in Versions
        BY ListType DEF Inv, TypeOK
      <3>2. lock[List[q][k].version].fate = "open"
        BY <2>1 DEF Inv, Facts, RunInv
      <3> QED
        BY <1>1, <1>2, <3>1, <3>2
    <2> QED
      BY <1>1, <1>2, <2>1, KeptRun DEF Inv, Facts, TypeOK
  <1>4. Apart'
    BY <1>1 DEF Apart, Drives, Current, Inv, Facts
  <1> QED
    BY <1>2, <1>3, <1>4 DEF Facts

(* The transaction of a run that breaks off stays as it is, in doubt.      *)
LEMMA BreakFacts == ASSUME Inv, NEW r \in Runs, Break(r) PROVE Facts'
  <1>1. UNCHANGED <<ledger, ran, now>> /\ Return(r, "failed")
    BY Break(r) DEF Break, Abandon
  <1>2. RunInv(r)' /\ (\A q \in Runs \ {r} : run'[q] = run[q]) /\ run'[r].pc # "commit"
    BY <1>1, OtherReturn
  <1>3. CASE UNCHANGED lock
    BY <1>1, <1>2, <1>3, RunOnly
  <1>4. ASSUME run[r].pc = "commit", NEW i \in run[r].todo, Current(r, i),
               lock' = [lock EXCEPT ![List[r][i].version].fate = "doubt"]
        PROVE  Facts'
    <2> DEFINE v == List[r][i].version
    <2>1. v \in Versions /\ Drives(r, v) /\ lock[v].fate = "open"
      BY <1>4, ListType DEF Inv, TypeOK, Drives, Facts, RunInv
    <2>2. lock[v] \in Lock
      BY <2>1 DEF Inv, TypeOK
    <2>3. /\ lock'[v].fate = "doubt" /\ lock'[v].row = lock[v].row
          /\ \A w \in Versions \ {v} : lock'[w] = lock[w]
      BY <1>4, <2>1, <2>2 DEF Inv, TypeOK, Lock
    <2>4. Grows
      BY <1>1 DEF Grows
    <2>5. ASSUME NEW w \in Versions PROVE LockInv(w)' /\ RowInv(w)'
      BY <1>1, <2>1, <2>3, <2>4, KeptLock DEF RowInv, Inv, Facts
    <2>6. ASSUME NEW q \in Runs, q # r PROVE RunInv(q)'
      <3>1. ASSUME NEW k \in run[q].todo, run[q].pc = "commit", Current(q, k)
            PROVE  lock'[List[q][k].version] = lock[List[q][k].version]
        <4>1. List[q][k].version \in Versions /\ Drives(q, List[q][k].version)
          BY <3>1, ListType DEF Inv, TypeOK, Drives
        <4>2. List[q][k].version # v
          BY <2>1, <2>6, <4>1 DEF Apart, Inv, Facts
        <4> QED
          BY <2>3, <4>1, <4>2
      <3> QED
        BY <1>1, <1>2, <2>4, <2>6, <3>1, KeptRun DEF Inv, Facts, TypeOK
    <2> QED
      BY <1>2, <2>5, <2>6, KeptApart DEF Facts, Inv
  <1> QED
    BY <1>3, <1>4, Break(r) DEF Break

LEMMA TickFacts == ASSUME Inv, Tick PROVE Facts'
  <1>1. Grows /\ now' \in Nat /\ now <= now' /\ UNCHANGED <<ledger, ran, lock, run>>
    BY Tick DEF Tick, db, Grows, Inv, TypeOK
  <1>2. ASSUME NEW q \in Runs PROVE RunInv(q)'
    BY <1>1, KeptRun DEF Inv, Facts
  <1>3. ASSUME NEW v \in Versions PROVE LockInv(v)' /\ RowInv(v)'
    BY <1>1, KeptLock DEF RowInv, Inv, Facts
  <1>4. Apart'
    BY <1>1 DEF Apart, Drives, Current, Inv, Facts
  <1> QED
    BY <1>2, <1>3, <1>4 DEF Facts

LEMMA StutterFacts == ASSUME Inv, UNCHANGED vars PROVE Facts'
  <1>1. Grows /\ now' \in Nat /\ now <= now' /\ UNCHANGED <<ledger, ran, lock, run>>
    BY DEF vars, db, Grows, Inv, TypeOK
  <1>2. ASSUME NEW q \in Runs PROVE RunInv(q)'
    BY <1>1, KeptRun DEF Inv, Facts
  <1>3. ASSUME NEW v \in Versions PROVE LockInv(v)' /\ RowInv(v)'
    BY <1>1, KeptLock DEF RowInv, Inv, Facts
  <1>4. Apart'
    BY <1>1 DEF Apart, Drives, Current, Inv, Facts
  <1> QED
    BY <1>2, <1>3, <1>4 DEF Facts

LEMMA InvInductive == Inv /\ [Next]_vars => Inv'
  <1> SUFFICES ASSUME Inv, [Next]_vars PROVE Inv'
    OBVIOUS
  <1>1. TypeOK'
    BY TypeStep DEF Inv
  <1>2. Facts'
    BY StartFacts, ReadFacts, WaiverFacts, GateFacts, RefuseFacts, InsertFacts, ConflictFacts,
       CommitFacts, SettleFacts, BreakFacts, TickFacts, StutterFacts DEF Next, Proceed
  <1> QED
    BY <1>1, <1>2 DEF Inv

LEMMA InvCorrect == Spec => []Inv
  <1>1. Init => Inv
    BY InitType, InitFacts DEF Inv
  <1> QED
    BY <1>1, InvInductive, PTL DEF Spec

-------------------------------------------------------------------------------
(* When Apply has returned nil, its whole list is in the ledger.           *)
THEOREM SuccessCorrect == Spec => []SuccessMeansApplied
  <1>1. Inv => SuccessMeansApplied
    BY DEF Inv, Facts, RunInv, SuccessMeansApplied, InLedger
  <1> QED
    BY <1>1, InvCorrect, PTL

(* No row claims an export newer than the migration it protects.           *)
THEOREM ExportCorrect == Spec => []ExportPredatesRow
  <1>1. Inv => ExportPredatesRow
    BY DEF Inv, Facts, RowInv, Sound, ExportPredatesRow
  <1> QED
    BY <1>1, InvCorrect, PTL

(* A commit, by a run or by the server, is a step of the abstract ledger.  *)
LEMMA PersistTakes == ASSUME Inv, NEW v \in Versions, Persist(v), lock[v].fate # "free" PROVE L!Next
  <1>1. /\ ledger[v] = NoRow /\ ledger'[v] = lock[v].row
        /\ ran[v] = 0 /\ ran'[v] = 1
        /\ \A w \in Versions \ {v} : ledger'[w] = ledger[w] /\ ran'[w] = ran[w]
    BY PersistFacts
  <1>2. PICK r \in Runs : \E i \in DOMAIN List[r] :
           /\ ValidList(List[r])
           /\ List[r][i].version = v
           /\ List[r][i].name = lock[v].row.name
           /\ \A j \in 1..(i - 1) : InLedger(List[r][j])
    BY DEF Inv, Facts, LockInv
  <1>3. PICK i \in DOMAIN List[r] :
           /\ ValidList(List[r])
           /\ List[r][i].version = v
           /\ List[r][i].name = lock[v].row.name
           /\ \A j \in 1..(i - 1) : InLedger(List[r][j])
    BY <1>2
  <1> DEFINE name == [w \in Versions |-> ledger[w].name]
             name1 == [w \in Versions |-> ledger'[w].name]
  <1>4. \A j \in 1..(i - 1) : name[List[r][j].version] = List[r][j].name
    <2>1. \A j \in 1..(i - 1) : List[r][j].version \in Versions
      BY ListType
    <2> QED
      BY <1>3, <2>1 DEF InLedger
  <1>5. name[v] = "" /\ name1 = [name EXCEPT ![v] = List[r][i].name]
    <2>1. \A w \in Versions \ {v} : name1[w] = name[w]
      BY <1>1
    <2>2. name1[v] = List[r][i].name
      BY <1>1, <1>3
    <2> QED
      BY <1>1, <2>1, <2>2, NoRowName
  <1>6. ran' = [ran EXCEPT ![v] = 1]
    BY <1>1 DEF Persist, Inv, TypeOK
  <1>7. L!Take(List[r], i)
    BY <1>1, <1>3, <1>4, <1>5, <1>6 DEF L!Take
  <1> QED
    BY <1>3, <1>7 DEF L!Next

LEMMA StepTakes == Inv /\ [Next]_vars => [L!Next]_<<[v \in Versions |-> ledger[v].name], ran>>
  <1> SUFFICES ASSUME Inv, [Next]_vars, ~UNCHANGED <<ledger, ran>> PROVE L!Next
    OBVIOUS
  <1>1. ASSUME NEW r \in Runs, NEW i \in run[r].todo, Commit(r, i) PROVE L!Next
    <2>1. List[r][i].version \in Versions /\ lock[List[r][i].version].fate = "open"
      BY <1>1, ListType DEF Commit, Inv, TypeOK, Facts, RunInv
    <2> QED
      BY <1>1, <2>1, PersistTakes DEF Commit
  <1>2. ASSUME NEW v \in Versions, Settle(v) PROVE L!Next
    BY <1>2, PersistTakes DEF Settle
  <1> QED
    BY <1>1, <1>2 DEF Next, Proceed, Start, ReadLedger, PassWaiver, PassGate, RefuseReceipt,
       InsertRow, InsertConflict, Break, Tick, vars, db

(* What the runs do to the database is what the abstract ledger allows.    *)
THEOREM Refinement == Spec => ImplementsLedger
  <1>1. Init => L!Init
    BY NoRowName DEF Init, L!Init
  <1> QED
    BY <1>1, StepTakes, InvCorrect, PTL DEF Spec, ImplementsLedger, L!Spec

(* A row once there is never changed or taken away, so a run that is       *)
(* started again finds what the earlier ones have done (the INSERT of      *)
(* Apply has no ON CONFLICT).                                              *)
THEOREM RowsStay == Spec => [][Grows]_vars
  <1>1. ASSUME Inv, Next PROVE Grows
    <2>1. ASSUME NEW r \in Runs, NEW i \in run[r].todo, Commit(r, i) PROVE Grows
      <3>1. List[r][i].version \in Versions /\ lock[List[r][i].version].fate = "open"
        BY <1>1, <2>1, ListType DEF Commit, Inv, TypeOK, Facts, RunInv
      <3> QED
        BY <1>1, <2>1, <3>1, PersistFacts DEF Commit
    <2>2. ASSUME NEW v \in Versions, Settle(v) PROVE Grows
      <3>1. ledger' = ledger \/ (Persist(v) /\ lock[v].fate # "free")
        BY <2>2 DEF Settle
      <3> QED
        BY <1>1, <3>1, PersistFacts DEF Grows
    <2>3. ledger' = ledger => Grows
      BY DEF Grows
    <2> QED
      BY <1>1, <2>1, <2>2, <2>3 DEF Next, Proceed, Start, ReadLedger, PassWaiver, PassGate,
         RefuseReceipt, InsertRow, InsertConflict, Break, Tick, db
  <1>2. Inv /\ [Next]_vars => [Grows]_vars
    BY <1>1
  <1> QED
    BY <1>2, InvCorrect, PTL DEF Spec

(* A migration's SQL has taken effect exactly when its row is there.       *)
THEOREM OnceCorrect == Spec => [](\A v \in Versions : ran[v] = IF ledger[v] = NoRow THEN 0 ELSE 1)
  <1>1. Inv => \A v \in Versions : ran[v] = IF ledger[v] = NoRow THEN 0 ELSE 1
    BY DEF Inv, Facts, RowInv
  <1> QED
    BY <1>1, InvCorrect, PTL

-------------------------------------------------------------------------------
(* Client.PutStream.                                                       *)

(* The first bytes of a body, part by part.                                *)
Prefix(s, body) ==
    /\ s \in Seq(STRING) /\ Len(s) <= Len(body)
    /\ \A i \in 1..Len(s) : s[i] = body[i]

(* What holds of a call r of c, its upload u and the requests under way:   *)
(* the list of completed parts is the body as far as it was read, the      *)
(* bucket may be a part ahead, and a list on its way to the bucket is the  *)
(* whole body.                                                             *)
Consistent(c, r, u, requests) ==
    /\ r.pc \in {"idle", "create"} => r.k = 1 /\ r.etags = <<>>
    /\ r.pc \in {"idle", "put", "create"} => u.st = "none" /\ u.parts = <<>>
    /\ r.pc = "put" => Len(Want(c)) = 1
    /\ r.pc \in {"create", "part", "complete", "abort"} => Len(Want(c)) > 1
    /\ r.pc = "part" =>
          /\ Prefix(r.etags, Body(c)) /\ Len(r.etags) = r.k - 1
          /\ Prefix(u.parts, Body(c)) /\ Len(u.parts) \in {r.k - 1, r.k}
    /\ r.pc = "complete" => r.etags = Body(c) /\ u.parts = Body(c)
    /\ r.pc = "abort" => r.err = "failed"
    /\ r.pc \in {"verify", "return"} /\ u.st = "open" => u.parts = Body(c)
    /\ r.pc = "done" /\ u.st = "open" => r.err \in {"create", "abort"} \/ u.parts = Body(c)
    /\ c \in requests =>
          r.pc \in {"abort", "done"} /\ (Len(Want(c)) = 1 \/ r.etags = Body(c))

CallConsistent(c) == Consistent(c, call[c], up[c], late)

PutStreamInv ==
    /\ PutStreamTypeOK
    /\ ObjectWhole
    /\ \A c \in Calls : CallConsistent(c)

LEMMA PutStreamInitInv == PutStreamInit => PutStreamInv
  <1> SUFFICES ASSUME PutStreamInit PROVE PutStreamInv
    OBVIOUS
  <1> DEFINE r == [pc |-> "idle", k |-> 1, tries |-> 0, etags |-> <<>>, err |-> ""]
             u == [st |-> "none", parts |-> <<>>]
  <1>1. r \in Call /\ u \in Upload
    BY DEF Call, Upload
  <1>2. PutStreamTypeOK
    BY <1>1, JobAssumption DEF PutStreamInit, PutStreamTypeOK
  <1>3. ObjectWhole
    BY DEF PutStreamInit, ObjectWhole
  <1>4. ASSUME NEW c \in Calls PROVE CallConsistent(c)
    <2>1. /\ call[c].pc = "idle" /\ call[c].k = 1 /\ call[c].etags = <<>>
          /\ up[c].st = "none" /\ up[c].parts = <<>> /\ c \notin late
      BY DEF PutStreamInit
    <2> QED
      BY <2>1 DEF CallConsistent, Consistent
  <1> QED
    BY <1>2, <1>3, <1>4 DEF PutStreamInv

LEMMA JobTypes ==
  ASSUME PutStreamTypeOK, NEW c \in Calls
  PROVE  /\ Body(c) \in Seq(STRING) /\ Want(c) \in Seq(STRING)
         /\ call[c] \in Call /\ up[c] \in Upload
  BY JobAssumption DEF PutStreamTypeOK, Body, Want

(* Two sequences that agree in length and elements are the same.           *)
LEMMA PrefixWhole ==
  ASSUME NEW s, NEW body \in Seq(STRING), Prefix(s, body), Len(s) = Len(body)
  PROVE  s = body
  BY DEF Prefix

(* A step of one call: r and u are what becomes of it and its upload.      *)
LEMMA OneCall ==
  ASSUME PutStreamInv, NEW c \in Calls, NEW r \in Call, NEW u \in Upload,
         call' = [call EXCEPT ![c] = r], up' = [up EXCEPT ![c] = u], UNCHANGED job,
         object' \in {object, Body(c)}, errors' \in Nat, cancelled' \in SUBSET Calls,
         late' \in SUBSET Calls, \A d \in Calls \ {c} : d \in late' => d \in late,
         Consistent(c, r, u, late')
  PROVE  PutStreamInv'
  <1> USE DEF PutStreamInv
  <1>1. call'[c] = r /\ up'[c] = u /\ \A d \in Calls \ {c} : call'[d] = call[d] /\ up'[d] = up[d]
    BY DEF PutStreamTypeOK
  <1>2. \A d : Body(d)' = Body(d) /\ Want(d)' = Want(d)
    BY DEF Body, Want
  <1>3. PutStreamTypeOK'
    <2>1. object' \in Seq(STRING)
      BY JobTypes DEF PutStreamTypeOK
    <2> QED
      BY <2>1 DEF PutStreamTypeOK
  <1>4. ObjectWhole'
    BY <1>2 DEF ObjectWhole
  <1>5. ASSUME NEW d \in Calls PROVE CallConsistent(d)'
    <2>1. CASE d = c
      BY <1>1, <1>2, <2>1 DEF CallConsistent, Consistent
    <2>2. CASE d # c
      <3>1. CallConsistent(d)
        OBVIOUS
      <3>2. d \in late' => d \in late
        BY <2>2
      <3> QED
        BY <1>1, <1>2, <2>2, <3>1, <3>2 DEF CallConsistent, Consistent
    <2> QED
      BY <2>1, <2>2
  <1> QED
    BY <1>3, <1>4, <1>5

(* Steps that leave object, bucket and requests under way alone.           *)
LEMMA LocalCall ==
  ASSUME PutStreamInv, NEW c \in Calls, NEW r \in Call, call' = [call EXCEPT ![c] = r],
         UNCHANGED <<job, object, up, late, cancelled>>, errors' \in Nat,
         Consistent(c, r, up[c], late)
  PROVE  PutStreamInv'
  <1>1. up' = [up EXCEPT ![c] = up[c]] /\ up[c] \in Upload
    BY DEF PutStreamInv, PutStreamTypeOK
  <1>2. late' \in SUBSET Calls /\ cancelled' \in SUBSET Calls
    BY DEF PutStreamInv, PutStreamTypeOK
  <1> QED
    BY <1>1, <1>2, OneCall

LEMMA FaultType == PutStreamTypeOK => \A c : Fault(c) => errors' \in Nat
  BY DEF PutStreamTypeOK, Fault

-------------------------------------------------------------------------------
LEMMA BeginInv == ASSUME PutStreamInv, NEW c \in Calls, Begin(c) PROVE PutStreamInv'
  <1>0. UNCHANGED <<job, object, up, late, cancelled>> /\ errors' \in Nat
    BY DEF Begin, PutStreamInv, PutStreamTypeOK
  <1>1. CallConsistent(c) /\ call[c] \in Call /\ up[c] \in Upload /\ call[c].pc = "idle"
    BY JobTypes DEF PutStreamInv, Begin
  <1>2. Want(c) \in Seq(STRING) /\ Body(c) \in Seq(STRING)
    BY JobTypes DEF PutStreamInv
  <1>3. ASSUME NEW err \in {"invalid", "failed"}, Answer(c, err) PROVE PutStreamInv'
    <2> DEFINE r == [call[c] EXCEPT !.pc = "done", !.err = err]
    <2>1. call' = [call EXCEPT ![c] = r]
      BY <1>3 DEF Answer
    <2>2. r \in Call /\ r.pc = "done" /\ r.err = err /\ r.etags = call[c].etags
      BY <1>1 DEF Call
    <2>3. Consistent(c, r, up[c], late)
      BY <1>1, <2>2 DEF CallConsistent, Consistent
    <2> HIDE DEF r
    <2> QED
      BY <1>0, <2>1, <2>2, <2>3, LocalCall
  <1>4. ASSUME NEW pc \in {"put", "create"}, Step(c, pc),
               pc = "create" => Len(Want(c)) > 1, pc = "put" => Len(Want(c)) = 1
        PROVE  PutStreamInv'
    <2> DEFINE r == [call[c] EXCEPT !.pc = pc]
    <2>1. call' = [call EXCEPT ![c] = r]
      BY <1>4 DEF Step
    <2>2. r \in Call /\ r.pc = pc /\ r.etags = call[c].etags /\ r.k = call[c].k
      BY <1>1 DEF Call
    <2>3. Consistent(c, r, up[c], late)
      BY <1>1, <1>4, <2>2 DEF CallConsistent, Consistent
    <2> HIDE DEF r
    <2> QED
      BY <1>0, <2>1, <2>2, <2>3, LocalCall
  <1>5. Want(c) # <<>> /\ ~(Len(Want(c)) > 1) => Len(Want(c)) = 1
    BY <1>2
  <1>6. \/ Answer(c, "invalid") \/ Answer(c, "failed")
        \/ Step(c, "create") /\ Len(Want(c)) > 1
        \/ Step(c, "put") /\ Len(Want(c)) = 1
    BY <1>5 DEF Begin
  <1> QED
    BY <1>3, <1>4, <1>6

LEMMA PutInv == ASSUME PutStreamInv, NEW c \in Calls, Put(c) PROVE PutStreamInv'
  <1>1. CallConsistent(c) /\ call[c] \in Call /\ up[c] \in Upload /\ call[c].pc = "put"
    BY JobTypes DEF PutStreamInv, Put
  <1>2. ASSUME NEW pc \in {"verify", "done"}, NEW err \in {call[c].err, "failed"},
               call' = [call EXCEPT ![c] = [call[c] EXCEPT !.pc = pc, !.err = err]],
               pc = "verify" => late' = late,
               late' \in {late, late \cup {c}}, object' \in {object, Body(c)}, errors' \in Nat
        PROVE  PutStreamInv'
    <2> DEFINE r == [call[c] EXCEPT !.pc = pc, !.err = err]
    <2>1. call[c].err \in {"", "nil", "invalid", "create", "failed", "abort", "identity"}
      BY <1>1 DEF Call
    <2>2. r \in Call /\ r.pc = pc
      BY <1>1, <2>1 DEF Call
    <2>3. Consistent(c, r, up[c], late')
      BY <1>1, <1>2, <2>2 DEF CallConsistent, Consistent
    <2>4. up' = [up EXCEPT ![c] = up[c]] /\ job' = job /\ call' = [call EXCEPT ![c] = r]
      BY <1>2 DEF Put, PutStreamInv, PutStreamTypeOK
    <2>5. late' \in SUBSET Calls /\ cancelled' \in SUBSET Calls
      BY <1>2 DEF Put, PutStreamInv, PutStreamTypeOK
    <2> HIDE DEF r
    <2> QED
      BY <1>1, <1>2, <2>2, <2>3, <2>4, <2>5, OneCall
  <1>3. CASE c \notin cancelled /\ object' = Body(c) /\ Step(c, "verify") /\ UNCHANGED <<late, errors>>
    <2>1. call' = [call EXCEPT ![c] = [call[c] EXCEPT !.pc = "verify", !.err = call[c].err]]
      BY <1>1, <1>3 DEF Step, Call
    <2> QED
      BY <1>2, <1>3, <2>1 DEF PutStreamInv, PutStreamTypeOK
  <1>4. CASE /\ Fault(c) /\ Answer(c, "failed")
             /\ late' \in {late, late \cup {c}} /\ object' \in {object, Body(c)}
    <2>1. call' = [call EXCEPT ![c] = [call[c] EXCEPT !.pc = "done", !.err = "failed"]]
      BY <1>4 DEF Answer
    <2> QED
      BY <1>2, <1>4, <2>1, FaultType DEF PutStreamInv
  <1> QED
    BY <1>3, <1>4 DEF Put

LEMMA CreateInv == ASSUME PutStreamInv, NEW c \in Calls, CreateUpload(c) PROVE PutStreamInv'
  <1>1. CallConsistent(c) /\ call[c] \in Call /\ up[c] \in Upload /\ call[c].pc = "create"
    BY JobTypes DEF PutStreamInv, CreateUpload
  <1>2. /\ job' = job /\ object' = object /\ late' = late /\ cancelled' = cancelled
        /\ late \in SUBSET Calls /\ cancelled \in SUBSET Calls
    BY DEF CreateUpload, PutStreamInv, PutStreamTypeOK
  <1>3. ASSUME NEW r \in Call, NEW u \in Upload, call' = [call EXCEPT ![c] = r],
               up' = [up EXCEPT ![c] = u], errors' \in Nat, Consistent(c, r, u, late)
        PROVE  PutStreamInv'
    BY <1>2, <1>3, OneCall
  <1> DEFINE open == [up[c] EXCEPT !.st = "open"]
             goes == [call[c] EXCEPT !.pc = "part"]
             fails == [call[c] EXCEPT !.pc = "done", !.err = "create"]
  <1>4. /\ open \in Upload /\ open.st = "open" /\ open.parts = <<>>
        /\ up = [up EXCEPT ![c] = up[c]]
    BY <1>1 DEF Upload, CallConsistent, Consistent, PutStreamInv, PutStreamTypeOK
  <1>5. goes \in Call /\ goes.pc = "part" /\ goes.k = 1 /\ goes.etags = <<>>
    BY <1>1 DEF Call, CallConsistent, Consistent
  <1>6. fails \in Call /\ fails.pc = "done" /\ fails.err = "create"
    BY <1>1 DEF Call
  <1>7. c \notin late
    BY <1>1 DEF CallConsistent, Consistent
  <1>8. CASE up' = [up EXCEPT ![c].st = "open"] /\ Step(c, "part") /\ UNCHANGED errors
    <2>1. Prefix(<<>>, Body(c))
      BY JobTypes DEF Prefix, PutStreamInv
    <2>2. Consistent(c, goes, open, late)
      BY <1>1, <1>4, <1>5, <1>7, <2>1 DEF CallConsistent, Consistent
    <2>3. /\ call' = [call EXCEPT ![c] = goes] /\ up' = [up EXCEPT ![c] = open] /\ errors' \in Nat
      BY <1>8 DEF Step, PutStreamInv, PutStreamTypeOK
    <2> HIDE DEF goes, open
    <2> QED
      BY <1>3, <1>4, <1>5, <2>2, <2>3
  <1>9. CASE Fault(c) /\ Answer(c, "create") /\ (UNCHANGED up \/ up' = [up EXCEPT ![c].st = "open"])
    <2>1. Consistent(c, fails, open, late) /\ Consistent(c, fails, up[c], late)
      BY <1>6, <1>7 DEF Consistent
    <2>2. /\ call' = [call EXCEPT ![c] = fails] /\ errors' \in Nat
          /\ up' = [up EXCEPT ![c] = up[c]] \/ up' = [up EXCEPT ![c] = open]
      BY <1>4, <1>9, FaultType DEF Answer, PutStreamInv
    <2> HIDE DEF fails, open
    <2> QED
      BY <1>1, <1>3, <1>4, <1>6, <2>1, <2>2
  <1> QED
    BY <1>8, <1>9 DEF CreateUpload

(* Sending part k: the bucket and the list grow by the k-th chunk.         *)
LEMMA SendingFacts ==
  ASSUME PutStreamInv, NEW c \in Calls, Sending(c)
  PROVE  /\ c \notin late
         /\ Stored(c) \in Seq(STRING) /\ Prefix(Stored(c), Body(c)) /\ Len(Stored(c)) = call[c].k
         /\ Prefix(Acknowledged(c), Body(c)) /\ Len(Acknowledged(c)) = call[c].k
  <1> DEFINE k == call[c].k
             p == up[c].parts
             e == call[c].etags
             b == Body(c)
  <1>1. CallConsistent(c) /\ call[c] \in Call /\ up[c] \in Upload /\ b \in Seq(STRING)
    BY JobTypes DEF PutStreamInv
  <1>2. /\ c \notin late /\ k \in Nat /\ k <= Len(b)
        /\ e \in Seq(STRING) /\ Len(e) = k - 1 /\ \A i \in 1..Len(e) : e[i] = b[i]
        /\ p \in Seq(STRING) /\ Len(p) \in {k - 1, k} /\ \A i \in 1..Len(p) : p[i] = b[i]
    BY <1>1 DEF CallConsistent, Consistent, Sending, Prefix, Call
  <1> HIDE DEF k, p, e, b
  <1>3. k \in 1..Len(b) /\ b[k] \in STRING
    BY <1>1, <1>2
  <1>4. ASSUME NEW s \in Seq(STRING), Len(s) = k - 1, \A i \in 1..Len(s) : s[i] = b[i]
        PROVE  /\ Append(s, b[k]) \in Seq(STRING) /\ Len(Append(s, b[k])) = k
               /\ \A i \in 1..k : Append(s, b[k])[i] = b[i]
    BY <1>1, <1>3, <1>4
  <1>5. /\ Acknowledged(c) = Append(e, b[k])
        /\ Stored(c) = IF k <= Len(p) THEN [p EXCEPT ![k] = b[k]] ELSE Append(p, b[k])
    BY DEF Acknowledged, Stored, Content, k, p, e, b
  <1>6. Prefix(Acknowledged(c), b) /\ Len(Acknowledged(c)) = k
    BY <1>2, <1>3, <1>4, <1>5 DEF Prefix
  <1>7. Stored(c) \in Seq(STRING) /\ Prefix(Stored(c), b) /\ Len(Stored(c)) = k
    <2>1. CASE Len(p) = k
      <3>1. [p EXCEPT ![k] = b[k]] = p
        BY <1>2, <1>3, <2>1
      <3> QED
        BY <1>2, <1>3, <1>5, <2>1, <3>1 DEF Prefix
    <2>2. CASE Len(p) = k - 1
      <3>1. Stored(c) = Append(p, b[k])
        BY <1>2, <1>3, <1>5, <2>2
      <3>2. /\ Append(p, b[k]) \in Seq(STRING) /\ Len(Append(p, b[k])) = k
            /\ \A i \in 1..k : Append(p, b[k])[i] = b[i]
        BY <1>2, <1>4, <2>2
      <3> HIDE DEF Stored
      <3> QED
        BY <1>2, <3>1, <3>2 DEF Prefix
    <2> QED
      BY <1>2, <2>1, <2>2
  <1> QED
    BY <1>2, <1>6, <1>7 DEF k, b

LEMMA CallFields ==
  ASSUME NEW r \in Call
  PROVE  r.k \in Nat /\ r.tries \in Nat /\ r.etags \in Seq(STRING)
  BY DEF Call

LEMMA AcceptedInv == ASSUME PutStreamInv, NEW c \in Calls, PartAccepted(c) PROVE PutStreamInv'
  <1>1. CallConsistent(c) /\ call[c] \in Call /\ up[c] \in Upload /\ call[c].pc = "part"
    BY JobTypes DEF PutStreamInv, PartAccepted, Sending
  <1>2. /\ c \notin late
        /\ Stored(c) \in Seq(STRING) /\ Prefix(Stored(c), Body(c)) /\ Len(Stored(c)) = call[c].k
        /\ Prefix(Acknowledged(c), Body(c)) /\ Len(Acknowledged(c)) = call[c].k
    BY SendingFacts DEF PartAccepted
  <1>3. call[c].k \in Nat /\ Acknowledged(c) \in Seq(STRING)
    BY <1>1, <1>2, CallFields DEF Prefix
  <1>4. call[c].k + 1 \in Nat
    BY <1>3
  <1> DEFINE u == [up[c] EXCEPT !.parts = Stored(c)]
  <1>5. PICK r : r = [call[c] EXCEPT !.k = call[c].k + 1, !.tries = 0, !.etags = Acknowledged(c)]
    OBVIOUS
  <1>6. r \in Call /\ r.pc = "part" /\ r.k = call[c].k + 1 /\ r.etags = Acknowledged(c)
    <2> PICK old : old = call[c]
      OBVIOUS
    <2> PICK k : k = old.k + 1
      OBVIOUS
    <2> PICK e : e = Acknowledged(c)
      OBVIOUS
    <2>1. old \in Call /\ k \in Nat /\ e \in Seq(STRING)
      BY <1>1, <1>3, <1>4
    <2>2. r = [old EXCEPT !.k = k, !.tries = 0, !.etags = e]
      BY <1>5
    <2>3. r \in Call /\ r.pc = old.pc /\ r.k = k /\ r.etags = e
      BY ONLY <2>1, <2>2 DEF Call
    <2> QED
      BY <1>1, <2>3
  <1>7. u \in Upload /\ u.st = up[c].st /\ u.parts = Stored(c)
    BY <1>1, <1>2 DEF Upload
  <1>8. Consistent(c, r, u, late)
    BY <1>1, <1>2, <1>6, <1>7 DEF CallConsistent, Consistent
  <1>9. /\ call' = [call EXCEPT ![c] = r] /\ up' = [up EXCEPT ![c] = u]
        /\ job' = job /\ object' = object /\ late' = late /\ cancelled' \in SUBSET Calls
        /\ late \in SUBSET Calls /\ errors' \in Nat
    BY <1>5 DEF PartAccepted, PutStreamInv, PutStreamTypeOK
  <1> HIDE DEF u
  <1> QED
    BY <1>6, <1>7, <1>8, <1>9, OneCall

(* A failed multipart upload goes to its abort, whatever was stored.       *)
LEMMA FailInv ==
  ASSUME PutStreamInv, NEW c \in Calls, call[c].pc \in {"part", "complete"}, Fail(c),
         NEW u \in Upload, up' = [up EXCEPT ![c] = u], UNCHANGED job,
         object' \in {object, Body(c)}, errors' \in Nat, cancelled' = cancelled,
         \/ late' = late
         \/ late' = late \cup {c} /\ call[c].etags = Body(c)
  PROVE  PutStreamInv'
  <1>1. CallConsistent(c) /\ call[c] \in Call /\ late \in SUBSET Calls /\ cancelled \in SUBSET Calls
    BY JobTypes DEF PutStreamInv, PutStreamTypeOK
  <1> DEFINE r == [call[c] EXCEPT !.pc = "abort", !.err = "failed"]
  <1>2. call' = [call EXCEPT ![c] = r]
    BY DEF Fail
  <1>3. r \in Call /\ r.pc = "abort" /\ r.err = "failed" /\ r.etags = call[c].etags
    BY <1>1 DEF Call
  <1>4. c \in late' => call[c].etags = Body(c)
    BY <1>1 DEF CallConsistent, Consistent
  <1>5. Len(Want(c)) > 1
    BY <1>1 DEF CallConsistent, Consistent
  <1>6. Consistent(c, r, u, late')
    BY <1>3, <1>4, <1>5 DEF Consistent
  <1>7. /\ late' \in SUBSET Calls /\ cancelled' \in SUBSET Calls
        /\ \A d \in Calls \ {c} : d \in late' => d \in late
    BY <1>1
  <1> HIDE DEF r
  <1> QED
    BY <1>2, <1>3, <1>6, <1>7, OneCall

LEMMA StopInv ==
  ASSUME PutStreamInv, NEW c \in Calls, StopParts(c) \/ GiveUpWaiting(c) \/ PartRefused(c)
  PROVE  PutStreamInv'
  <1>1. /\ call[c].pc = "part" /\ Fail(c) /\ up[c] \in Upload /\ up' = [up EXCEPT ![c] = up[c]]
        /\ job' = job /\ object' = object /\ late' = late /\ cancelled' = cancelled
    BY JobTypes DEF StopParts, GiveUpWaiting, PartRefused, Sending, PutStreamInv, PutStreamTypeOK
  <1>2. errors' \in Nat
    BY DEF StopParts, GiveUpWaiting, PartRefused, PutStreamInv, PutStreamTypeOK
  <1> QED
    BY <1>1, <1>2, FailInv

LEMMA LostInv == ASSUME PutStreamInv, NEW c \in Calls, PartLost(c) PROVE PutStreamInv'
  <1>1. CallConsistent(c) /\ call[c] \in Call /\ up[c] \in Upload /\ call[c].pc = "part"
    BY JobTypes DEF PutStreamInv, PartLost, Sending
  <1>2. /\ c \notin late
        /\ Stored(c) \in Seq(STRING) /\ Prefix(Stored(c), Body(c)) /\ Len(Stored(c)) = call[c].k
    BY SendingFacts DEF PartLost
  <1>3. /\ job' = job /\ object' = object /\ late' = late /\ cancelled' = cancelled
        /\ late \in SUBSET Calls /\ cancelled \in SUBSET Calls
    BY DEF PartLost, PutStreamInv, PutStreamTypeOK
  <1>4. errors' \in Nat
    BY FaultType DEF PartLost, PutStreamInv
  <1> DEFINE stored == [up[c] EXCEPT !.parts = Stored(c)]
  <1>5. stored \in Upload /\ stored.parts = Stored(c)
    BY <1>1, <1>2 DEF Upload
  <1>6. up' = [up EXCEPT ![c] = up[c]] \/ up' = [up EXCEPT ![c] = stored]
    BY DEF PartLost, PutStreamInv, PutStreamTypeOK
  <1>7. PICK u \in {up[c], stored} : up' = [up EXCEPT ![c] = u]
    BY <1>6
  <1> HIDE DEF stored
  <1>8. /\ u \in Upload /\ Prefix(u.parts, Body(c))
        /\ Len(u.parts) \in {call[c].k - 1, call[c].k}
    BY <1>1, <1>2, <1>5 DEF CallConsistent, Consistent
  <1>9. CASE Fail(c)
    BY <1>1, <1>3, <1>4, <1>7, <1>8, <1>9, FailInv
  <1>10. CASE call' = [call EXCEPT ![c].tries = NextAttempt(c)]
    <2> DEFINE r == [call[c] EXCEPT !.tries = NextAttempt(c)]
    <2>1. NextAttempt(c) \in Nat
      BY <1>1, CallFields DEF NextAttempt
    <2>2. r \in Call /\ r.pc = "part" /\ r.k = call[c].k /\ r.etags = call[c].etags
      BY <1>1, <2>1 DEF Call
    <2>3. call' = [call EXCEPT ![c] = r]
      BY <1>10
    <2> HIDE DEF r
    <2>4. Consistent(c, r, u, late)
      BY <1>1, <1>2, <1>8, <2>2 DEF CallConsistent, Consistent
    <2> QED
      BY <1>3, <1>4, <1>7, <1>8, <2>2, <2>3, <2>4, OneCall
  <1> QED
    BY <1>9, <1>10 DEF PartLost

LEMMA EndInv == ASSUME PutStreamInv, NEW c \in Calls, EndOfBody(c) PROVE PutStreamInv'
  <1>1. CallConsistent(c) /\ call[c] \in Call /\ up[c] \in Upload /\ Body(c) \in Seq(STRING)
    BY JobTypes DEF PutStreamInv
  <1>2. call[c].pc = "part" /\ call[c].k > Len(Body(c))
    BY DEF EndOfBody
  <1>3. call[c].etags = Body(c) /\ up[c].parts = Body(c) /\ c \notin late
    <2>1. /\ c \notin late
          /\ Prefix(call[c].etags, Body(c)) /\ Len(call[c].etags) = call[c].k - 1
          /\ Prefix(up[c].parts, Body(c)) /\ Len(up[c].parts) \in {call[c].k - 1, call[c].k}
      BY <1>1, <1>2 DEF CallConsistent, Consistent
    <2>2. Len(call[c].etags) = Len(Body(c)) /\ Len(up[c].parts) = Len(Body(c))
      BY <1>1, <1>2, <2>1, CallFields DEF Prefix
    <2> QED
      BY <1>1, <2>1, <2>2, PrefixWhole
  <1> DEFINE r == [call[c] EXCEPT !.pc = "complete"]
  <1>4. r \in Call /\ r.pc = "complete" /\ r.etags = call[c].etags
    BY <1>1 DEF Call
  <1>5. Consistent(c, r, up[c], late)
    BY <1>1, <1>2, <1>3, <1>4 DEF CallConsistent, Consistent
  <1>6. /\ call' = [call EXCEPT ![c] = r] /\ errors' \in Nat
        /\ UNCHANGED <<job, object, up, late, cancelled>>
    BY DEF EndOfBody, Step, PutStreamInv, PutStreamTypeOK
  <1> HIDE DEF r
  <1> QED
    BY <1>4, <1>5, <1>6, LocalCall


LEMMA CompleteInv == ASSUME PutStreamInv, NEW c \in Calls, Complete(c) PROVE PutStreamInv'
  <1>1. CallConsistent(c) /\ call[c] \in Call /\ up[c] \in Upload /\ call[c].pc = "complete"
    BY JobTypes DEF PutStreamInv, Complete
  <1>2. /\ call[c].etags = Body(c) /\ up[c].parts = Body(c) /\ c \notin late
    BY <1>1 DEF CallConsistent, Consistent
  <1>3. /\ job' = job /\ cancelled' = cancelled /\ late \in SUBSET Calls /\ cancelled \in SUBSET Calls
    BY DEF Complete, PutStreamInv, PutStreamTypeOK
  <1> DEFINE gone == [up[c] EXCEPT !.st = "gone"]
             r == [call[c] EXCEPT !.pc = "verify"]
  <1>4. gone \in Upload /\ gone.st = "gone" /\ up = [up EXCEPT ![c] = up[c]]
    BY <1>1 DEF Upload, PutStreamInv, PutStreamTypeOK
  <1>5. Publish(c) => object' = Body(c) /\ up' = [up EXCEPT ![c] = gone]
    BY <1>2 DEF Publish
  <1>6. ASSUME Step(c, "verify"), NEW u \in {up[c], gone}, up' = [up EXCEPT ![c] = u],
               object' \in {object, Body(c)}, late' = late, errors' \in Nat
        PROVE  PutStreamInv'
    <2>1. r \in Call /\ r.pc = "verify" /\ call' = [call EXCEPT ![c] = r]
      BY <1>1, <1>6 DEF Call, Step
    <2> HIDE DEF r
    <2>2. u \in Upload /\ (u.st = "open" => u.parts = Body(c))
      BY <1>1, <1>2, <1>4
    <2> HIDE DEF gone
    <2>3. Consistent(c, r, u, late)
      BY <1>2, <2>1, <2>2 DEF Consistent
    <2> QED
      BY <1>3, <1>6, <2>1, <2>2, <2>3, OneCall
  <1>7. CASE c \notin cancelled /\ Publish(c) /\ Step(c, "verify") /\ UNCHANGED <<late, errors>>
    <2>1. errors' \in Nat
      BY <1>7 DEF PutStreamInv, PutStreamTypeOK
    <2> HIDE DEF gone
    <2> QED
      BY <1>5, <1>6, <1>7, <2>1
  <1>8. CASE Step(c, "verify") /\ errors < MaxErrors /\ errors' = errors + 1 /\ UNCHANGED <<object, up, late>>
    <2>1. errors' \in Nat
      BY <1>8 DEF PutStreamInv, PutStreamTypeOK
    <2> HIDE DEF gone
    <2> QED
      BY <1>4, <1>6, <1>8, <2>1
  <1>9. CASE /\ Fault(c) /\ Fail(c)
             /\ \/ UNCHANGED <<object, up, late>>
                \/ Publish(c) /\ UNCHANGED late
                \/ late' = late \cup {c} /\ UNCHANGED <<object, up>>
    <2>1. errors' \in Nat
      BY <1>9, FaultType DEF PutStreamInv
    <2>2. /\ object' \in {object, Body(c)}
          /\ up' = [up EXCEPT ![c] = up[c]] \/ up' = [up EXCEPT ![c] = gone]
      BY <1>4, <1>5, <1>9
    <2>3. PICK u \in {up[c], gone} : up' = [up EXCEPT ![c] = u]
      BY <2>2
    <2>4. u \in Upload
      BY <1>1, <1>4
    <2>5. \/ late' = late
          \/ late' = late \cup {c} /\ call[c].etags = Body(c)
      BY <1>2, <1>9
    <2> QED
      BY <1>1, <1>3, <1>9, <2>1, <2>2, <2>3, <2>4, <2>5, FailInv
  <1> QED
    BY <1>7, <1>8, <1>9 DEF Complete

(* A call that returns with err, its upload becoming u.                    *)
LEMMA AnswerInv ==
  ASSUME PutStreamInv, NEW c \in Calls, call[c].pc = "abort",
         NEW err \in {"", "nil", "invalid", "create", "failed", "abort", "identity"},
         Answer(c, err), NEW u \in Upload, up' = [up EXCEPT ![c] = u],
         UNCHANGED <<job, object, late, cancelled>>, errors' \in Nat,
         u.st = "open" => err = "abort" \/ u.parts = Body(c)
  PROVE  PutStreamInv'
  <1>1. CallConsistent(c) /\ call[c] \in Call /\ late \in SUBSET Calls /\ cancelled \in SUBSET Calls
    BY JobTypes DEF PutStreamInv, PutStreamTypeOK
  <1> DEFINE r == [call[c] EXCEPT !.pc = "done", !.err = err]
  <1>2. call' = [call EXCEPT ![c] = r]
    BY DEF Answer
  <1>3. r \in Call /\ r.pc = "done" /\ r.err = err /\ r.etags = call[c].etags
    BY <1>1 DEF Call
  <1>4. c \in late => Len(Want(c)) = 1 \/ call[c].etags = Body(c)
    BY <1>1 DEF CallConsistent, Consistent
  <1> HIDE DEF r
  <1>5. Consistent(c, r, u, late)
    BY <1>3, <1>4 DEF Consistent
  <1> QED
    BY <1>1, <1>2, <1>3, <1>5, OneCall

LEMMA AbortInv == ASSUME PutStreamInv, NEW c \in Calls, Abort(c) PROVE PutStreamInv'
  <1>1. call[c] \in Call /\ up[c] \in Upload /\ call[c].pc = "abort"
    BY JobTypes DEF PutStreamInv, Abort
  <1>2. UNCHANGED <<job, object, late, cancelled>> /\ errors' \in Nat
    BY FaultType DEF Abort, PutStreamInv, PutStreamTypeOK
  <1> DEFINE gone == [up[c] EXCEPT !.st = "gone"]
  <1>3. gone \in Upload /\ gone.st = "gone" /\ up = [up EXCEPT ![c] = up[c]]
    BY <1>1 DEF Upload, PutStreamInv, PutStreamTypeOK
  <1>4. call[c].err \in {"", "nil", "invalid", "create", "failed", "abort", "identity"}
    BY <1>1 DEF Call
  <1>5. CASE up' = [up EXCEPT ![c].st = "gone"] /\ Answer(c, call[c].err)
    <2>1. up' = [up EXCEPT ![c] = gone]
      BY <1>5
    <2> HIDE DEF gone
    <2>2. PICK err : err = call[c].err
      OBVIOUS
    <2>3. Answer(c, err) /\ err \in {"", "nil", "invalid", "create", "failed", "abort", "identity"}
      BY <1>4, <1>5, <2>2
    <2> QED
      BY <1>1, <1>2, <1>3, <2>1, <2>3, AnswerInv
  <1>6. CASE (UNCHANGED up \/ up' = [up EXCEPT ![c].st = "gone"]) /\ Answer(c, "abort")
    <2>1. up' = [up EXCEPT ![c] = gone] \/ up' = [up EXCEPT ![c] = up[c]]
      BY <1>3, <1>6
    <2> HIDE DEF gone
    <2> QED
      BY <1>1, <1>2, <1>3, <1>6, <2>1, AnswerInv
  <1> QED
    BY <1>5, <1>6 DEF Abort, AbortError

LEMMA InspectInv == ASSUME PutStreamInv, NEW c \in Calls, Inspect(c) PROVE PutStreamInv'
  <1>1. CallConsistent(c) /\ call[c] \in Call /\ call[c].pc = "verify"
    BY JobTypes DEF PutStreamInv, Inspect
  <1>2. UNCHANGED <<job, object, up, late, cancelled>> /\ errors' \in Nat
    BY FaultType DEF Inspect, PutStreamInv, PutStreamTypeOK
  <1>3. PICK verdict \in {"nil", "identity"} : Found(c, verdict)
    BY DEF Inspect
  <1> DEFINE r == [call[c] EXCEPT !.pc = "return", !.err = verdict]
  <1>4. call' = [call EXCEPT ![c] = r]
    BY <1>3 DEF Found
  <1>5. r \in Call /\ r.pc = "return" /\ r.etags = call[c].etags
    BY <1>1 DEF Call
  <1> HIDE DEF r
  <1>6. Consistent(c, r, up[c], late)
    BY <1>1, <1>5 DEF CallConsistent, Consistent
  <1> QED
    BY <1>2, <1>4, <1>5, <1>6, LocalCall

LEMMA ReturnInv == ASSUME PutStreamInv, NEW c \in Calls, ReturnVerdict(c) PROVE PutStreamInv'
  <1>1. CallConsistent(c) /\ call[c] \in Call /\ call[c].pc = "return"
    BY JobTypes DEF PutStreamInv, ReturnVerdict
  <1>2. UNCHANGED <<job, object, up, late, cancelled>> /\ errors' \in Nat
    BY DEF ReturnVerdict, PutStreamInv, PutStreamTypeOK
  <1> DEFINE r == [call[c] EXCEPT !.pc = "done"]
  <1>3. call' = [call EXCEPT ![c] = r]
    BY DEF ReturnVerdict, Step
  <1>4. r \in Call /\ r.pc = "done" /\ r.etags = call[c].etags
    BY <1>1 DEF Call
  <1> HIDE DEF r
  <1>5. Consistent(c, r, up[c], late)
    BY <1>1, <1>4 DEF CallConsistent, Consistent
  <1> QED
    BY <1>2, <1>3, <1>4, <1>5, LocalCall

LEMMA LateInv == ASSUME PutStreamInv, NEW c \in Calls, LateArrival(c) PROVE PutStreamInv'
  <1>1. CallConsistent(c) /\ call[c] \in Call /\ up[c] \in Upload /\ call = [call EXCEPT ![c] = call[c]]
    BY JobTypes DEF PutStreamInv, PutStreamTypeOK
  <1>2. call[c].pc \in {"abort", "done"} /\ (Len(Want(c)) = 1 \/ call[c].etags = Body(c))
    BY <1>1 DEF LateArrival, CallConsistent, Consistent
  <1>3. /\ job' = job /\ call' = [call EXCEPT ![c] = call[c]] /\ errors' \in Nat
        /\ cancelled' \in SUBSET Calls /\ late' \in SUBSET Calls
        /\ c \notin late' /\ \A d \in Calls \ {c} : d \in late' => d \in late
    BY <1>1 DEF LateArrival, PutStreamInv, PutStreamTypeOK
  <1> DEFINE gone == [up[c] EXCEPT !.st = "gone"]
  <1>4. gone \in Upload /\ gone.st = "gone" /\ up = [up EXCEPT ![c] = up[c]]
    BY <1>1 DEF Upload, PutStreamInv, PutStreamTypeOK
  <1>5. /\ up' = [up EXCEPT ![c] = up[c]] \/ up' = [up EXCEPT ![c] = gone]
        /\ object' \in {object, Body(c)}
    <2>0. Want(c) \in Seq(STRING)
      BY JobTypes DEF PutStreamInv
    <2>1. Len(Want(c)) > 1 => Len(Want(c)) # 1
      BY <2>0
    <2>2. Publish(c) => up' = [up EXCEPT ![c] = gone] /\ object' = call[c].etags
      BY DEF Publish
    <2>3. \/ object' = Body(c) /\ up' = up
          \/ object' = object /\ up' = up
          \/ Len(Want(c)) # 1 /\ Publish(c)
      BY <2>1 DEF LateArrival
    <2> HIDE DEF gone
    <2> QED
      BY <1>2, <1>4, <2>2, <2>3
  <1>6. Consistent(c, call[c], up[c], late') /\ Consistent(c, call[c], gone, late')
    BY <1>1, <1>2, <1>3, <1>4 DEF CallConsistent, Consistent
  <1> HIDE DEF gone
  <1> QED
    BY <1>1, <1>3, <1>4, <1>5, <1>6, OneCall

LEMMA CancelInv == ASSUME PutStreamInv, NEW c \in Calls, Cancel(c) PROVE PutStreamInv'
  <1>1. CallConsistent(c) /\ call[c] \in Call /\ up[c] \in Upload
    BY JobTypes DEF PutStreamInv
  <1>2. /\ call' = [call EXCEPT ![c] = call[c]] /\ up' = [up EXCEPT ![c] = up[c]]
        /\ job' = job /\ object' = object /\ late' = late
        /\ late' \in SUBSET Calls /\ errors' \in Nat
    BY DEF Cancel, PutStreamInv, PutStreamTypeOK
  <1>3. cancelled' \in SUBSET Calls
    BY DEF Cancel, PutStreamInv, PutStreamTypeOK
  <1>4. Consistent(c, call[c], up[c], late')
    BY <1>1, <1>2 DEF CallConsistent
  <1> QED
    BY <1>1, <1>2, <1>3, <1>4, OneCall

LEMMA PutStreamStepInv == PutStreamInv /\ [PutStreamNext]_putStreamVars => PutStreamInv'
  <1> SUFFICES ASSUME PutStreamInv, [PutStreamNext]_putStreamVars PROVE PutStreamInv'
    OBVIOUS
  <1>1. ASSUME NEW c \in Calls, Advance(c) PROVE PutStreamInv'
    BY <1>1, PutInv, CreateInv, StopInv, AcceptedInv, LostInv, EndInv, CompleteInv, AbortInv,
       InspectInv, ReturnInv
       DEF Advance
  <1>2. ASSUME NEW c \in Calls, Begin(c) \/ LateArrival(c) \/ Cancel(c) PROVE PutStreamInv'
    BY <1>2, BeginInv, LateInv, CancelInv
  <1>3. CASE UNCHANGED putStreamVars
    BY <1>3 DEF putStreamVars, PutStreamInv, PutStreamTypeOK, ObjectWhole, CallConsistent, Consistent, Body, Want
  <1> QED
    BY <1>1, <1>2, <1>3 DEF PutStreamNext

(* The types of PutStream's state, and what its calls and the bucket agree *)
(* on at every moment.                                                     *)
THEOREM PutStreamInvariant == PutStreamSpec => []PutStreamInv
  BY PutStreamInitInv, PutStreamStepInv, PTL DEF PutStreamSpec

(* The key never holds a torn object.                                      *)
THEOREM NeverTorn == PutStreamSpec => []ObjectWhole
  <1>1. PutStreamInv => ObjectWhole
    BY DEF PutStreamInv
  <1> QED
    BY <1>1, PutStreamInvariant, PTL

(* The completion asks for exactly what the bucket stored.                 *)
THEOREM CompletionMatchesBucket == PutStreamSpec => []ListedIsStored
  <1>1. PutStreamInv => ListedIsStored
    BY DEF PutStreamInv, ListedIsStored, CallConsistent, Consistent, Assembles
  <1> QED
    BY <1>1, PutStreamInvariant, PTL

(* An upload left open is reported, or holds the whole body.               *)
THEOREM OrphansReported == PutStreamSpec => []OrphanIsReported
  <1>1. PutStreamInv => OrphanIsReported
    BY DEF PutStreamInv, OrphanIsReported, CallConsistent, Consistent
  <1> QED
    BY <1>1, PutStreamInvariant, PTL

-------------------------------------------------------------------------------
(* PutStream implements AtomicObject.                                      *)

Outcomes == [c \in Calls |-> Outcome(call[c])]

Unsent == {"idle", "put", "create", "part", "complete"}

SamePart(c) == call'[c].k = call[c].k /\ call'[c].tries = call[c].tries

(* What a step of c makes of its record; the other calls stay as they are. *)
LEMMA CallMoves ==
  ASSUME PutStreamTypeOK, NEW c \in Calls
  PROVE  /\ \A err : Answer(c, err) =>
                call'[c].pc = "done" /\ call'[c].err = err /\ call'[c].tries = call[c].tries
         /\ \A err : Found(c, err) =>
                call'[c].pc = "return" /\ call'[c].err = err /\ call'[c].tries = call[c].tries
         /\ \A pc : Step(c, pc) =>
                call'[c].pc = pc /\ SamePart(c) /\ call'[c].err = call[c].err
         /\ Fail(c) => call'[c].pc = "abort" /\ call'[c].tries = call[c].tries
         /\ PartAccepted(c) =>
                call'[c].pc = "part" /\ call'[c].k = call[c].k + 1 /\ call'[c].tries = 0
         /\ \A n : call' = [call EXCEPT ![c].tries = n] =>
                call'[c].pc = call[c].pc /\ call'[c].k = call[c].k /\ call'[c].tries = n
  <1>1. call \in [Calls -> Call] /\ call[c] \in Call
    BY DEF PutStreamTypeOK
  <1>2. ASSUME NEW r, call' = [call EXCEPT ![c] = r] PROVE call'[c] = r
    BY <1>1, <1>2
  <1>3. ASSUME NEW err, Answer(c, err)
        PROVE  call'[c].pc = "done" /\ call'[c].err = err /\ call'[c].tries = call[c].tries
    <2>1. call' = [call EXCEPT ![c] = [call[c] EXCEPT !.pc = "done", !.err = err]]
      BY <1>3 DEF Answer
    <2>2. /\ [call[c] EXCEPT !.pc = "done", !.err = err].pc = "done"
          /\ [call[c] EXCEPT !.pc = "done", !.err = err].err = err
          /\ [call[c] EXCEPT !.pc = "done", !.err = err].tries = call[c].tries
      BY <1>1 DEF Call
    <2> QED
      BY <1>2, <2>1, <2>2
  <1>4. ASSUME NEW pc, Step(c, pc)
        PROVE  call'[c].pc = pc /\ SamePart(c) /\ call'[c].err = call[c].err
    <2>1. call' = [call EXCEPT ![c] = [call[c] EXCEPT !.pc = pc]]
      BY <1>4 DEF Step
    <2>2. /\ [call[c] EXCEPT !.pc = pc].pc = pc
          /\ [call[c] EXCEPT !.pc = pc].err = call[c].err
          /\ [call[c] EXCEPT !.pc = pc].k = call[c].k
          /\ [call[c] EXCEPT !.pc = pc].tries = call[c].tries
      BY <1>1 DEF Call
    <2> QED
      BY <1>2, <2>1, <2>2 DEF SamePart
  <1>5. ASSUME Fail(c) PROVE call'[c].pc = "abort" /\ call'[c].tries = call[c].tries
    <2>1. call' = [call EXCEPT ![c] = [call[c] EXCEPT !.pc = "abort", !.err = "failed"]]
      BY <1>5 DEF Fail
    <2>2. /\ [call[c] EXCEPT !.pc = "abort", !.err = "failed"].pc = "abort"
          /\ [call[c] EXCEPT !.pc = "abort", !.err = "failed"].tries = call[c].tries
      BY <1>1 DEF Call
    <2> QED
      BY <1>2, <2>1, <2>2
  <1>6. ASSUME PartAccepted(c)
        PROVE  call'[c].pc = "part" /\ call'[c].k = call[c].k + 1 /\ call'[c].tries = 0
    <2> PICK old : old = call[c]
      OBVIOUS
    <2> PICK k : k = old.k + 1
      OBVIOUS
    <2> PICK e : e = Acknowledged(c)
      OBVIOUS
    <2> PICK r : r = [old EXCEPT !.k = k, !.tries = 0, !.etags = e]
      OBVIOUS
    <2>1. call' = [call EXCEPT ![c] = r] /\ old.pc = "part"
      BY <1>6 DEF PartAccepted, Sending
    <2>2. r.pc = old.pc /\ r.k = k /\ r.tries = 0
      BY <1>1 DEF Call
    <2> QED
      BY <1>2, <2>1, <2>2
  <1>7. ASSUME NEW n, call' = [call EXCEPT ![c].tries = n]
        PROVE  call'[c].pc = call[c].pc /\ call'[c].k = call[c].k /\ call'[c].tries = n
    <2>1. call' = [call EXCEPT ![c] = [call[c] EXCEPT !.tries = n]]
      BY <1>7
    <2>2. /\ [call[c] EXCEPT !.tries = n].pc = call[c].pc
          /\ [call[c] EXCEPT !.tries = n].k = call[c].k
          /\ [call[c] EXCEPT !.tries = n].tries = n
      BY <1>1 DEF Call
    <2> QED
      BY <1>2, <2>1, <2>2
  <1>8. ASSUME NEW err, Found(c, err)
        PROVE  call'[c].pc = "return" /\ call'[c].err = err /\ call'[c].tries = call[c].tries
    <2>1. call' = [call EXCEPT ![c] = [call[c] EXCEPT !.pc = "return", !.err = err]]
      BY <1>8 DEF Found
    <2>2. /\ [call[c] EXCEPT !.pc = "return", !.err = err].pc = "return"
          /\ [call[c] EXCEPT !.pc = "return", !.err = err].err = err
          /\ [call[c] EXCEPT !.pc = "return", !.err = err].tries = call[c].tries
      BY <1>1 DEF Call
    <2> QED
      BY <1>2, <2>1, <2>2
  <1> QED
    BY <1>3, <1>4, <1>5, <1>6, <1>7, <1>8

(* Every step of c is one of c alone.                                      *)
LEMMA OnlyCall ==
  ASSUME PutStreamTypeOK, NEW c \in Calls, NEW d \in Calls \ {c},
         Begin(c) \/ Advance(c) \/ LateArrival(c) \/ Cancel(c)
  PROVE  call'[d] = call[d] /\ (d \in late' <=> d \in late)
  <1>1. call \in [Calls -> Call]
    BY DEF PutStreamTypeOK
  <1>2. \/ call' = call
        \/ \E r : call' = [call EXCEPT ![c] = r]
    BY DEF Begin, Advance, LateArrival, Cancel, Put, CreateUpload, StopParts, PartAccepted, PartLost,
           GiveUpWaiting, PartRefused, EndOfBody, Complete, Abort, Inspect, ReturnVerdict,
           Answer, Found, Step, Fail
  <1>3. late' \in {late, late \cup {c}, late \ {c}}
    BY DEF Begin, Advance, LateArrival, Cancel, Put, CreateUpload, StopParts, PartAccepted, PartLost,
           GiveUpWaiting, PartRefused, EndOfBody, Complete, Abort, Inspect, ReturnVerdict
  <1> QED
    BY <1>1, <1>2, <1>3

Moves(c) == Begin(c) \/ Advance(c) \/ LateArrival(c) \/ Cancel(c)

LEMMA MappedStep ==
  ASSUME PutStreamTypeOK, NEW c \in Calls, Moves(c)
  PROVE  /\ Outcomes' = [Outcomes EXCEPT ![c] = Outcome(call'[c])]
         /\ Outcomes[c] = Outcome(call[c])
         /\ MayStillWrite' \in {MayStillWrite \cup {c}, MayStillWrite \ {c}}
         /\ c \in MayStillWrite' <=> c \in late' \/ call'[c].pc \in Unsent
         /\ c \in MayStillWrite <=> c \in late \/ call[c].pc \in Unsent
  <1>1. ASSUME NEW d \in Calls \ {c} PROVE call'[d] = call[d] /\ (d \in late' <=> d \in late)
    BY OnlyCall DEF Moves
  <1>2. Outcomes' = [Outcomes EXCEPT ![c] = Outcome(call'[c])]
    BY <1>1 DEF Outcomes, Outcome
  <1>3. /\ c \in MayStillWrite' <=> c \in late' \/ call'[c].pc \in Unsent
        /\ c \in MayStillWrite <=> c \in late \/ call[c].pc \in Unsent
    BY DEF MayStillWrite, Unsent
  <1>4. late' \subseteq Calls /\ late \subseteq Calls
    BY DEF PutStreamTypeOK, Moves, Begin, Advance, LateArrival, Cancel, Put, CreateUpload, StopParts,
           PartAccepted, PartLost, GiveUpWaiting, PartRefused, EndOfBody, Complete, Abort, Inspect, ReturnVerdict
  <1>5. \A d : d # c => (d \in MayStillWrite' <=> d \in MayStillWrite)
    BY <1>1, <1>4 DEF MayStillWrite
  <1> QED
    BY <1>2, <1>3, <1>5 DEF Outcomes

(* A step that leaves the object alone: the call may stop being pending,   *)
(* and may answer with an error.                                           *)
LEMMA GivesUp ==
  ASSUME PutStreamTypeOK, NEW c \in Calls, Moves(c), UNCHANGED <<job, object>>,
         c \in late' \/ call'[c].pc \in Unsent => c \in late \/ call[c].pc \in Unsent,
         \/ Outcome(call'[c]) = Outcome(call[c])
         \/ Outcome(call[c]) = "none" /\ Outcome(call'[c]) = "error"
  PROVE  A!GiveUp(c)
  <1>1. MayStillWrite' \in {MayStillWrite, MayStillWrite \ {c}}
    BY MappedStep
  <1>2. \/ Outcomes' = Outcomes
        \/ Outcomes[c] = "none" /\ Outcomes' = [Outcomes EXCEPT ![c] = "error"]
    BY MappedStep DEF Outcomes
  <1> QED
    BY <1>1, <1>2 DEF A!GiveUp, A!MayFail, Outcomes

(* A step that publishes the body of c.                                    *)
LEMMA Replaces ==
  ASSUME PutStreamTypeOK, NEW c \in Calls, Moves(c), job' = job, object' = Body(c),
         c \in late \/ call[c].pc \in Unsent, c \notin late', call'[c].pc \notin Unsent,
         \/ Outcome(call'[c]) = Outcome(call[c])
         \/ Outcome(call[c]) = "none" /\ Outcome(call'[c]) = "error"
  PROVE  A!Replace(c)
  <1>1. MayStillWrite' = MayStillWrite \ {c} /\ c \in MayStillWrite
    BY MappedStep
  <1>2. \/ Outcomes' = Outcomes
        \/ Outcomes[c] = "none" /\ Outcomes' = [Outcomes EXCEPT ![c] = "error"]
    BY MappedStep DEF Outcomes
  <1> QED
    BY <1>1, <1>2 DEF A!Replace, A!MayFail, Outcomes, Body

LEMMA OutcomeValues ==
  ASSUME NEW r
  PROVE  /\ r.pc \notin {"return", "done"} => Outcome(r) = "none"
         /\ r.pc = "return" => Outcome(r) = IF r.err = "nil" THEN "seen" ELSE "none"
         /\ r.pc = "done" => Outcome(r) = IF r.err = "nil" THEN "nil" ELSE "error"
  BY DEF Outcome

LEMMA BeginMaps == ASSUME PutStreamInv, NEW c \in Calls, Begin(c) PROVE A!GiveUp(c)
  <1>1. PutStreamTypeOK /\ Moves(c) /\ UNCHANGED <<job, object, late>> /\ call[c].pc = "idle"
    BY DEF PutStreamInv, Moves, Begin
  <1>2. \/ call'[c].pc = "done" /\ call'[c].err # "nil"
        \/ call'[c].pc \in {"put", "create"}
    BY <1>1, CallMoves DEF Begin
  <1> QED
    BY <1>1, <1>2, GivesUp, OutcomeValues DEF Unsent

LEMMA PutMaps == ASSUME PutStreamInv, NEW c \in Calls, Put(c) PROVE A!GiveUp(c) \/ A!Replace(c)
  <1>1. PutStreamTypeOK /\ Moves(c) /\ job' = job /\ call[c].pc = "put" /\ c \notin late
    BY DEF PutStreamInv, CallConsistent, Consistent, Moves, Advance, Put
  <1>2. \/ call'[c].pc = "done" /\ call'[c].err # "nil"
        \/ call'[c].pc = "verify"
    BY <1>1, CallMoves DEF Put
  <1>3. \/ object' = object
        \/ object' = Body(c) /\ late' = late
    BY DEF Put
  <1> QED
    BY <1>1, <1>2, <1>3, GivesUp, Replaces, OutcomeValues DEF Unsent

(* Creating the upload, sending its parts, and all that stops them.        *)
LEMMA PartsMap ==
  ASSUME PutStreamInv, NEW c \in Calls,
         \/ CreateUpload(c) \/ StopParts(c) \/ PartAccepted(c) \/ PartLost(c) \/ GiveUpWaiting(c)
         \/ PartRefused(c) \/ EndOfBody(c)
  PROVE  A!GiveUp(c)
  <1>1. /\ PutStreamTypeOK /\ Moves(c) /\ UNCHANGED <<job, object, late>>
        /\ call[c].pc \in {"create", "part"}
    BY DEF PutStreamInv, Moves, Advance, CreateUpload, StopParts, PartAccepted, PartLost, GiveUpWaiting,
           PartRefused, EndOfBody, Sending
  <1>2. \/ call'[c].pc = "done" /\ call'[c].err # "nil"
        \/ call'[c].pc \in {"part", "complete", "abort"}
    BY <1>1, CallMoves DEF CreateUpload, StopParts, PartLost, GiveUpWaiting, PartRefused, EndOfBody, Sending
  <1> QED
    BY <1>1, <1>2, GivesUp, OutcomeValues DEF Unsent

LEMMA CompleteMaps ==
  ASSUME PutStreamInv, NEW c \in Calls, Complete(c) PROVE A!GiveUp(c) \/ A!Replace(c)
  <1>1. /\ PutStreamTypeOK /\ Moves(c) /\ job' = job /\ call[c].pc = "complete"
        /\ c \notin late /\ call[c].etags = Body(c)
    BY DEF PutStreamInv, CallConsistent, Consistent, Moves, Advance, Complete
  <1>2. call'[c].pc \in {"verify", "abort"}
    BY <1>1, CallMoves DEF Complete
  <1>3. \/ object' = object
        \/ object' = Body(c) /\ late' = late
    BY <1>1 DEF Complete, Publish
  <1> QED
    BY <1>1, <1>2, <1>3, GivesUp, Replaces, OutcomeValues DEF Unsent

LEMMA AbortMaps == ASSUME PutStreamInv, NEW c \in Calls, Abort(c) PROVE A!GiveUp(c)
  <1>1. /\ PutStreamTypeOK /\ Moves(c) /\ UNCHANGED <<job, object, late>>
        /\ call[c].pc = "abort" /\ call[c].err = "failed"
    BY DEF PutStreamInv, CallConsistent, Consistent, Moves, Advance, Abort
  <1>2. call'[c].pc = "done" /\ call'[c].err # "nil"
    BY <1>1, CallMoves DEF Abort, AbortError
  <1> QED
    BY <1>1, <1>2, GivesUp, OutcomeValues DEF Unsent

LEMMA InspectMaps ==
  ASSUME PutStreamInv, NEW c \in Calls, Inspect(c) PROVE A!GiveUp(c) \/ A!See(c)
  <1>1. /\ PutStreamTypeOK /\ Moves(c) /\ UNCHANGED <<job, object, late>>
        /\ call[c].pc = "verify" /\ c \notin late
    BY DEF PutStreamInv, CallConsistent, Consistent, Moves, Advance, Inspect
  <1>2. CASE Found(c, "identity")
    <2>1. call'[c].pc = "return" /\ call'[c].err = "identity"
      BY <1>1, <1>2, CallMoves
    <2> QED
      BY <1>1, <2>1, GivesUp, OutcomeValues DEF Unsent
  <1>3. CASE Found(c, "nil") /\ SameIdentity(c)
    <2>1. call'[c].pc = "return" /\ call'[c].err = "nil"
      BY <1>1, <1>3, CallMoves
    <2>2. c \notin MayStillWrite /\ MayStillWrite' = MayStillWrite
      BY <1>1, <2>1, MappedStep DEF Unsent
    <2>3. Outcomes[c] = "none" /\ Outcomes' = [Outcomes EXCEPT ![c] = "seen"]
      BY <1>1, <2>1, MappedStep, OutcomeValues
    <2> QED
      BY <1>1, <1>3, <2>2, <2>3 DEF A!See, Outcomes, SameIdentity, Want
  <1> QED
    BY <1>2, <1>3 DEF Inspect

LEMMA ReturnMaps ==
  ASSUME PutStreamInv, NEW c \in Calls, ReturnVerdict(c) PROVE A!GiveUp(c) \/ A!Confirm(c)
  <1>1. /\ PutStreamTypeOK /\ Moves(c) /\ UNCHANGED <<job, object, late>>
        /\ call[c].pc = "return" /\ c \notin late
    BY DEF PutStreamInv, CallConsistent, Consistent, Moves, Advance, ReturnVerdict
  <1>2. call'[c].pc = "done" /\ call'[c].err = call[c].err
    BY <1>1, CallMoves DEF ReturnVerdict
  <1>3. CASE call[c].err # "nil"
    BY <1>1, <1>2, <1>3, GivesUp, OutcomeValues DEF Unsent
  <1>4. CASE call[c].err = "nil"
    <2>1. MayStillWrite' = MayStillWrite
      BY <1>1, <1>2, MappedStep DEF Unsent
    <2>2. Outcomes[c] = "seen" /\ Outcomes' = [Outcomes EXCEPT ![c] = "nil"]
      BY <1>1, <1>2, <1>4, MappedStep, OutcomeValues
    <2> QED
      BY <1>1, <2>1, <2>2 DEF A!Confirm, Outcomes
  <1> QED
    BY <1>3, <1>4

LEMMA LateMaps ==
  ASSUME PutStreamInv, NEW c \in Calls, LateArrival(c) PROVE A!GiveUp(c) \/ A!Replace(c)
  <1>1. /\ PutStreamTypeOK /\ Moves(c) /\ job' = job /\ call' = call /\ c \in late /\ c \notin late'
        /\ call[c].pc \in {"abort", "done"} /\ (Len(Want(c)) = 1 \/ call[c].etags = Body(c))
    BY DEF PutStreamInv, CallConsistent, Consistent, Moves, LateArrival
  <1>2. Len(Want(c)) > 1 => Len(Want(c)) # 1
    <2>1. Want(c) \in Seq(STRING)
      BY <1>1, JobTypes
    <2> QED
      BY <2>1
  <1>3. object' = object \/ object' = Body(c)
    BY <1>1, <1>2 DEF LateArrival, Publish
  <1>4. Outcome(call'[c]) = Outcome(call[c]) /\ call'[c].pc \notin Unsent
    BY <1>1 DEF Unsent
  <1>5. CASE object' = object
    BY <1>1, <1>4, <1>5, GivesUp
  <1>6. CASE object' = Body(c)
    BY <1>1, <1>4, <1>6, Replaces
  <1> QED
    BY <1>3, <1>5, <1>6

LEMMA CancelMaps == ASSUME PutStreamInv, NEW c \in Calls, Cancel(c) PROVE A!GiveUp(c)
  <1>1. PutStreamTypeOK /\ Moves(c) /\ UNCHANGED <<job, object, call, late>>
    BY DEF PutStreamInv, Moves, Cancel
  <1> QED
    BY <1>1, GivesUp

LEMMA ObjectStep == PutStreamInv /\ [PutStreamNext]_putStreamVars => [A!Next]_(A!objectVars)
  <1> SUFFICES ASSUME PutStreamInv, [PutStreamNext]_putStreamVars PROVE [A!Next]_(A!objectVars)
    OBVIOUS
  <1>1. ASSUME NEW c \in Calls, Moves(c) PROVE A!Replace(c) \/ A!GiveUp(c) \/ A!See(c) \/ A!Confirm(c)
    BY <1>1, BeginMaps, PutMaps, PartsMap, CompleteMaps, AbortMaps, InspectMaps, ReturnMaps,
       LateMaps, CancelMaps
       DEF Moves, Advance
  <1>2. PutStreamNext => A!Next
    BY <1>1 DEF PutStreamNext, Moves, A!Next
  <1>3. UNCHANGED putStreamVars => UNCHANGED A!objectVars
    BY DEF putStreamVars, A!objectVars, MayStillWrite, Outcome
  <1> QED
    BY <1>2, <1>3

(* PutStream implements the abstract object: a body replaces what the key  *)
(* holds as a whole and at most once, never after its call saw the         *)
(* announced bytes, and nil is returned only after that.                   *)
THEOREM ObjectRefinement == PutStreamSpec => ImplementsAtomicObject
  <1>1. PutStreamInit => A!Init
    <2> SUFFICES ASSUME PutStreamInit PROVE A!Init
      OBVIOUS
    <2>1. \A c \in Calls : call[c].pc = "idle"
      BY DEF PutStreamInit
    <2>2. MayStillWrite = Calls
      BY <2>1 DEF PutStreamInit, MayStillWrite
    <2>3. \A c \in Calls : Outcome(call[c]) = "none"
      BY <2>1 DEF Outcome
    <2> QED
      BY <2>2, <2>3 DEF PutStreamInit, A!Init
  <1> QED
    BY <1>1, ObjectStep, PutStreamInvariant, PTL DEF PutStreamSpec, ImplementsAtomicObject, A!Spec

-------------------------------------------------------------------------------
(* What the termination of PutStream rests on, as far as it is safety.     *)

(* How many stages lie before a call at the latest.                        *)
Stage == [idle |-> 6, create |-> 5, part |-> 4, put |-> 4, complete |-> 3,
          abort |-> 2, verify |-> 2, return |-> 1, done |-> 0]

(* A step that brings c nearer to its end: to a later stage, to the next   *)
(* part, or to the next attempt at the same part.                          *)
Nearer(c) ==
    \/ Stage[call'[c].pc] < Stage[call[c].pc]
    \/ /\ call[c].pc = "part" /\ call'[c].pc = "part"
       /\ \/ call[c].k < call'[c].k
          \/ call[c].k = call'[c].k /\ call[c].tries < call'[c].tries

(* There is an end to the parts and to the attempts at each.               *)
Within ==
    \A c \in Calls :
        /\ call[c].tries < Tries
        /\ call[c].pc = "part" => call[c].k <= Len(Body(c)) + 1

TriesLeft == \A c \in Calls : call[c].tries < Tries

(* Every step of a call but Cancel and LateArrival brings it nearer.       *)
LEMMA CallNearer ==
  ASSUME PutStreamTypeOK, NEW c \in Calls, Begin(c) \/ Advance(c)
  PROVE  Nearer(c)
  <1>1. ASSUME call'[c].pc \in DOMAIN Stage, call[c].pc \in DOMAIN Stage,
               Stage[call'[c].pc] < Stage[call[c].pc]
        PROVE  Nearer(c)
    BY <1>1 DEF Nearer
  <1>2. CASE Begin(c)
    <2>1. call[c].pc = "idle" /\ call'[c].pc \in {"done", "put", "create"}
      BY <1>2, CallMoves DEF Begin
    <2> QED
      BY <2>1, <1>1 DEF Stage
  <1>3. CASE Put(c)
    <2>1. call[c].pc = "put" /\ call'[c].pc \in {"done", "verify"}
      BY <1>3, CallMoves DEF Put
    <2> QED
      BY <2>1, <1>1 DEF Stage
  <1>4. CASE CreateUpload(c)
    <2>1. call[c].pc = "create" /\ call'[c].pc \in {"done", "part"}
      BY <1>4, CallMoves DEF CreateUpload
    <2> QED
      BY <2>1, <1>1 DEF Stage
  <1>5. CASE /\ call[c].pc = "part"
             /\ Fail(c) \/ Step(c, "complete")
    <2>1. call'[c].pc \in {"abort", "complete"}
      BY <1>5, CallMoves
    <2> QED
      BY <2>1, <1>1, <1>5 DEF Stage
  <1>6. CASE PartAccepted(c)
    <2>1. /\ call[c].pc = "part" /\ call'[c].pc = "part"
          /\ call'[c].k = call[c].k + 1 /\ call[c].k \in Nat
      BY <1>6, CallMoves, JobTypes, CallFields DEF PartAccepted, Sending
    <2> QED
      BY <2>1 DEF Nearer
  <1>7. CASE call[c].pc = "part" /\ call' = [call EXCEPT ![c].tries = NextAttempt(c)]
    <2>1. PICK n : n = NextAttempt(c)
      OBVIOUS
    <2>2. call[c] \in Call /\ call'[c] = [call[c] EXCEPT !.tries = n]
      BY <1>7, <2>1, JobTypes DEF PutStreamTypeOK
    <2>3. call'[c].pc = "part" /\ call'[c].k = call[c].k /\ call'[c].tries = n
      BY <1>7, <2>2 DEF Call
    <2>4. call[c].tries < n
      BY <2>1, JobTypes, CallFields DEF NextAttempt
    <2> QED
      BY <1>7, <2>3, <2>4 DEF Nearer
  <1>8. CASE Complete(c)
    <2>1. call[c].pc = "complete" /\ call'[c].pc \in {"verify", "abort"}
      BY <1>8, CallMoves DEF Complete
    <2> QED
      BY <2>1, <1>1 DEF Stage
  <1>9. CASE Abort(c) \/ Inspect(c) \/ ReturnVerdict(c)
    <2>1. \/ call[c].pc \in {"abort", "return"} /\ call'[c].pc = "done"
          \/ call[c].pc = "verify" /\ call'[c].pc = "return"
      BY <1>9, CallMoves DEF Abort, Inspect, ReturnVerdict
    <2> QED
      BY <2>1, <1>1 DEF Stage
  <1>10. PartLost(c) =>
           /\ call[c].pc = "part"
           /\ Fail(c) \/ call' = [call EXCEPT ![c].tries = NextAttempt(c)]
    BY DEF PartLost, Sending
  <1>11. StopParts(c) \/ GiveUpWaiting(c) \/ PartRefused(c) \/ EndOfBody(c) =>
           /\ call[c].pc = "part"
           /\ Fail(c) \/ Step(c, "complete")
    BY DEF StopParts, GiveUpWaiting, PartRefused, EndOfBody, Sending
  <1> QED
    BY <1>2, <1>3, <1>4, <1>5, <1>6, <1>7, <1>8, <1>9, <1>10, <1>11 DEF Advance

LEMMA TriesKept ==
  ASSUME PutStreamTypeOK, TriesLeft, NEW c \in Calls, Moves(c)
  PROVE  TriesLeft'
  <1>1. ASSUME NEW d \in Calls \ {c} PROVE call'[d].tries < Tries
    BY OnlyCall DEF TriesLeft, Moves
  <1>2. call[c].tries < Tries /\ 0 < Tries
    BY JobAssumption DEF TriesLeft
  <1>3. ASSUME PartLost(c) PROVE call'[c].tries < Tries
    <2>1. CASE Fail(c)
      BY <1>2, <2>1, CallMoves
    <2>2. CASE NextAttempt(c) < Tries /\ call' = [call EXCEPT ![c].tries = NextAttempt(c)]
      BY <2>2, CallMoves
    <2> QED
      BY <1>3, <2>1, <2>2 DEF PartLost
  <1>4. ASSUME PartAccepted(c) PROVE call'[c].tries < Tries
    BY <1>2, <1>4, CallMoves
  <1>5. \/ PartLost(c) \/ PartAccepted(c)
        \/ \E err : Answer(c, err)
        \/ \E err : Found(c, err)
        \/ \E pc : Step(c, pc)
        \/ Fail(c) \/ call' = call
    BY DEF Moves, Begin, Advance, LateArrival, Cancel, Put, CreateUpload, StopParts,
           GiveUpWaiting, PartRefused, EndOfBody, Complete, Abort, Inspect, ReturnVerdict
  <1>6. call'[c].tries < Tries
    BY <1>2, <1>3, <1>4, <1>5, CallMoves DEF SamePart
  <1> QED
    BY <1>1, <1>6 DEF TriesLeft

(* A part is tried Tries times at most, and no part is begun beyond the    *)
(* end of the body.                                                        *)
THEOREM AttemptsBounded == PutStreamSpec => []Within
  <1>1. PutStreamInit => TriesLeft
    <2> SUFFICES ASSUME PutStreamInit, NEW c \in Calls PROVE call[c].tries < Tries
      BY DEF TriesLeft
    <2>1. call[c].tries = 0
      BY DEF PutStreamInit
    <2> QED
      BY <2>1, JobAssumption
  <1>2. PutStreamInv /\ TriesLeft /\ [PutStreamNext]_putStreamVars => TriesLeft'
    <2> SUFFICES ASSUME PutStreamInv, TriesLeft, [PutStreamNext]_putStreamVars PROVE TriesLeft'
      OBVIOUS
    <2>1. CASE UNCHANGED putStreamVars
      BY <2>1 DEF putStreamVars, TriesLeft
    <2>2. ASSUME NEW c \in Calls, Moves(c) PROVE TriesLeft'
      BY <2>2, TriesKept DEF PutStreamInv
    <2> QED
      BY <2>1, <2>2 DEF PutStreamNext, Moves
  <1>3. PutStreamInv /\ TriesLeft => Within
    <2> SUFFICES ASSUME PutStreamInv, TriesLeft, NEW c \in Calls, call[c].pc = "part"
                 PROVE  call[c].k <= Len(Body(c)) + 1
      BY DEF Within, TriesLeft
    <2>1. /\ Len(call[c].etags) <= Len(Body(c)) /\ Len(call[c].etags) = call[c].k - 1
      BY DEF PutStreamInv, CallConsistent, Consistent, Prefix
    <2>2. call[c].k \in Nat /\ call[c].etags \in Seq(STRING) /\ Body(c) \in Seq(STRING)
      BY JobTypes, CallFields DEF PutStreamInv
    <2>3. Len(call[c].etags) \in Nat /\ Len(Body(c)) \in Nat
      BY <2>2
    <2> QED
      BY <2>1, <2>2, <2>3
  <1> QED
    BY <1>1, <1>2, <1>3, PutStreamInvariant, PTL DEF PutStreamSpec

(* No loss, refusal, cancellation or late request and no step of another   *)
(* call ever sets a call back: its own steps bring it nearer to its end,   *)
(* all the others leave it where it is.                                    *)
THEOREM CallsShorten ==
  PutStreamSpec => [][\A c \in Calls : /\ Begin(c) \/ Advance(c) => Nearer(c)
                                       /\ call'[c] = call[c] \/ Nearer(c)]_putStreamVars
  <1> DEFINE Goes(c) == /\ Begin(c) \/ Advance(c) => Nearer(c)
                        /\ call'[c] = call[c] \/ Nearer(c)
  <1>1. ASSUME PutStreamInv, PutStreamNext, NEW c \in Calls PROVE Goes(c)
    <2>1. PutStreamTypeOK
      BY <1>1 DEF PutStreamInv
    <2>2. PICK d \in Calls : Begin(d) \/ Advance(d) \/ LateArrival(d) \/ Cancel(d)
      BY <1>1 DEF PutStreamNext
    <2>3. d # c => call'[c] = call[c]
      BY <2>1, <2>2, OnlyCall
    <2>4. LateArrival(d) \/ Cancel(d) => call'[c] = call[c]
      BY DEF LateArrival, Cancel
    <2>5. Begin(c) \/ Advance(c) => Nearer(c)
      BY <2>1, CallNearer
    <2> QED
      BY <2>2, <2>3, <2>4, <2>5
  <1>2. PutStreamInv /\ [PutStreamNext]_putStreamVars => [\A c \in Calls : Goes(c)]_putStreamVars
    BY <1>1
  <1> QED
    BY <1>2, PutStreamInvariant, PTL DEF PutStreamSpec
===============================================================================
