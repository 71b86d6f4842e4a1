---------------------------- MODULE LifecycleProofs ----------------------------
(***************************************************************************)
(* Proofs about Lifecycle, for every set of targets, every capacity of the *)
(* signals channel and any number of signals.                              *)
(*                                                                         *)
(* The inductive invariant adds three facts to the types.  Tallied: the    *)
(* counter of the WaitGroup is the number of targets that have still to    *)
(* run their Done, from before the first goroutine to the end.  Counted:   *)
(* the signals in the channel and the one the caller has taken were all    *)
(* raised, unless what it took was the zero value of a closed channel, and *)
(* then no signal follows.  Heard: a signal raised behind the caller's     *)
(* finds a watcher, or will.                                               *)
(***************************************************************************)
EXTENDS Lifecycle, FiniteSetTheorems, TLAPS

Unfinished == {t \in Targets : target[t] \notin {"done", "unwound"}}

Tallied ==
    /\ caller \in {"wait", "drain"} => drains = 0 /\ \A t \in Targets : target[t] = "off"
    /\ caller \in {"joining", "back"} => drains = Cardinality(Unfinished)
    /\ caller = "back" => Unfinished = {}

Counted ==
    /\ sent >= queue
    /\ caller # "wait" => sent >= queue + 1 \/ (closed /\ queue = 0)
    /\ watcher # "off" => caller # "wait"
    /\ watcher = "forcing" \/ process = "forced" => sent >= 2

Heard ==
    /\ again => caller # "wait"
    /\ watcher = "ended" /\ process = "up" => closed
    /\ again /\ config.force /\ process = "up" =>
           watcher = "forcing" \/ (watcher \in {"off", "armed"} /\ queue > 0)

IInv == TypeOK /\ Tallied /\ Counted /\ Heard

(* The counters start at zero and nobody has run yet.                      *)
LEMMA InitEstablishes == Init => IInv
<1> SUFFICES ASSUME Init PROVE IInv
    OBVIOUS
<1>1. queue \in 0..Cap /\ sent \in 0..MaxSignals
    BY CapAssumption DEF Init
<1>2. target \in [Targets -> {"off", "called", "returned", "reported", "done", "panicking", "unwound"}]
    BY DEF Init
<1>3. TypeOK
    BY <1>1, <1>2 DEF Init, TypeOK
<1>4. Tallied
    BY DEF Init, Tallied
<1>5. Counted /\ Heard
    BY DEF Init, Counted, Heard
<1> QED
    BY <1>3, <1>4, <1>5 DEF IInv

(* The number of targets that have not finished yet.                       *)
LEMMA Counting ==
  /\ Cardinality(Targets) \in Nat
  /\ Cardinality(Unfinished) \in Nat
  /\ Cardinality(Unfinished) = 0 <=> Unfinished = {}
  /\ \A t \in Unfinished : Cardinality(Unfinished \ {t}) = Cardinality(Unfinished) - 1
<1>1. IsFiniteSet(Unfinished)
    BY TargetAssumption, FS_Subset DEF Unfinished
<1> QED
    BY <1>1, TargetAssumption, FS_CardinalityType, FS_EmptySet, FS_RemoveElement

(* A Done that runs is one of those the counter stands for: it never       *)
(* becomes negative, which would be a panic of the WaitGroup.              *)
LEMMA DoneCounts ==
  ASSUME TypeOK, Tallied, NEW t \in Targets, Done(t)
  PROVE  drains' \in Nat /\ Unfinished' = Unfinished \ {t} /\ drains' = Cardinality(Unfinished')
<1>1. t \in Unfinished /\ target[t] # "off"
    BY DEF Done, Unfinished
<1>2. drains = Cardinality(Unfinished)
    BY <1>1 DEF Tallied, TypeOK
<1>3. Unfinished' = Unfinished \ {t}
    BY DEF Unfinished, Done, TypeOK
<1>4. drains' = Cardinality(Unfinished) - 1
    BY <1>2 DEF Done
<1>5. Cardinality(Unfinished) # 0
    BY <1>1, Counting
<1> QED
    BY <1>1, <1>3, <1>4, <1>5, Counting

(* Every step keeps each variable in its type.                             *)
LEMMA TypePreserved == TypeOK /\ Tallied /\ [Next]_vars => TypeOK'
<1> SUFFICES ASSUME TypeOK, Tallied, [Next]_vars PROVE TypeOK'
    OBVIOUS
<1> USE CapAssumption DEF TypeOK
<1>1. CASE Raise
    BY <1>1 DEF Raise
<1>2. CASE Close
    BY <1>2 DEF Close
<1>3. CASE Deadline
    BY <1>3 DEF Deadline, channel
<1>4. CASE WaitForSignal
    BY <1>4 DEF WaitForSignal, Taken
<1>5. CASE ArmSecondSignal
    BY <1>5 DEF ArmSecondSignal, channel
<1>6. CASE Drain
    BY <1>6, Counting DEF Drain, Added, channel
<1>7. CASE Wait
    BY <1>7 DEF Wait, channel
<1>8. CASE Exit
    BY <1>8 DEF Exit, channel
<1>9. CASE SecondSignal
    BY <1>9 DEF SecondSignal, Taken, Received
<1>10. CASE ForceExit
    BY <1>10 DEF ForceExit, channel
<1>11. ASSUME NEW t \in Targets, Goroutine(t) PROVE TypeOK'
    <2>1. CASE CallShutdown(t)
        BY <2>1 DEF CallShutdown, Added, channel
    <2>2. CASE ShutdownReturns(t)
        BY <2>2 DEF ShutdownReturns, channel
    <2>3. CASE Report(t)
        BY <2>3 DEF Report, channel
    <2>4. CASE Done(t)
        <3>1. drains' \in Nat
            BY <2>4, DoneCounts
        <3>2. target' \in [Targets -> {"off", "called", "returned", "reported", "done",
                                       "panicking", "unwound"}]
            BY <2>4 DEF Done
        <3> QED
            BY <2>4, <3>1, <3>2 DEF Done, channel
    <2>5. CASE Crash(t)
        BY <2>5 DEF Crash, channel
    <2> QED
        BY <1>11, <2>1, <2>2, <2>3, <2>4, <2>5 DEF Goroutine
<1>12. CASE UNCHANGED vars
    BY <1>12 DEF vars, channel
<1> QED
    BY <1>1, <1>2, <1>3, <1>4, <1>5, <1>6, <1>7, <1>8, <1>9, <1>10, <1>11, <1>12
    DEF Next, Caller, Watcher

(* Drain counts all its targets before the first goroutine starts, a Done  *)
(* takes one off as it finishes, and no other step finishes a target.      *)
LEMMA TalliedPreserved == TypeOK /\ Tallied /\ [Next]_vars => Tallied'
<1> SUFFICES ASSUME TypeOK, Tallied, [Next]_vars PROVE Tallied'
    OBVIOUS
<1>1. CASE Wait
    <2>1. Unfinished = {} /\ Unfinished' = Unfinished
        BY <1>1, Counting DEF Wait, Tallied, Unfinished
    <2> QED
        BY <1>1, <2>1 DEF Wait, Tallied
<1>2. CASE Drain
    <2>1. Unfinished' = Targets
        BY <1>2 DEF Drain, Tallied, Unfinished
    <2>2. drains' = Cardinality(Targets)
        BY <1>2, Counting DEF Drain, Tallied, Added
    <2> QED
        BY <1>2, <2>1, <2>2 DEF Drain, Tallied
<1>3. CASE Raise \/ Close \/ Deadline \/ WaitForSignal \/ ArmSecondSignal \/ Exit
            \/ SecondSignal \/ ForceExit \/ UNCHANGED vars
    <2>1. UNCHANGED <<drains, target>> /\ (caller' = caller \/ (caller = "wait" /\ caller' = "drain"))
        BY <1>3 DEF Raise, Close, Deadline, WaitForSignal, ArmSecondSignal, Exit,
           SecondSignal, ForceExit, vars
    <2>2. Unfinished' = Unfinished
        BY <2>1 DEF Unfinished
    <2> QED
        BY <2>1, <2>2 DEF Tallied
<1>4. ASSUME NEW t \in Targets, CallShutdown(t) \/ ShutdownReturns(t) \/ Report(t) \/ Crash(t)
      PROVE  Tallied'
    <2>1. caller \in {"joining", "back"} /\ caller' = caller
        BY <1>4 DEF CallShutdown, ShutdownReturns, Report, Crash, Tallied, TypeOK
    <2>2. drains' = drains
        BY <1>4 DEF CallShutdown, Added, ShutdownReturns, Report, Crash, TypeOK
    <2>3. Unfinished' = Unfinished
        BY <1>4 DEF CallShutdown, ShutdownReturns, Report, Crash, TypeOK, Unfinished
    <2> QED
        BY <2>1, <2>2, <2>3 DEF Tallied
<1>5. ASSUME NEW t \in Targets, Done(t) PROVE Tallied'
    <2>1. caller \in {"joining", "back"} /\ caller' = caller
        BY <1>5 DEF Done, Tallied, TypeOK
    <2>2. drains' = Cardinality(Unfinished') /\ (Unfinished = {} => Unfinished' = {})
        BY <1>5, DoneCounts
    <2> QED
        BY <2>1, <2>2 DEF Tallied
<1> QED
    BY <1>1, <1>2, <1>3, <1>4, <1>5 DEF Next, Caller, Watcher, Goroutine

(* A receive takes away what a raise has counted; the watcher is armed     *)
(* after the caller's receive, so what it finds queued is a second signal. *)
LEMMA CountedPreserved == TypeOK /\ Counted /\ [Next]_vars => Counted'
<1> SUFFICES ASSUME TypeOK, Counted, [Next]_vars PROVE Counted'
    OBVIOUS
<1> USE CapAssumption DEF TypeOK, Counted
<1>1. CASE Raise
    BY <1>1 DEF Raise
<1>2. CASE Close
    BY <1>2 DEF Close
<1>3. CASE WaitForSignal
    BY <1>3 DEF WaitForSignal, Taken
<1>4. CASE ArmSecondSignal
    BY <1>4 DEF ArmSecondSignal, channel
<1>5. CASE SecondSignal
    BY <1>5 DEF SecondSignal, Taken, Received
<1>6. CASE ForceExit
    BY <1>6 DEF ForceExit, channel
<1>7. CASE Drain \/ Wait \/ Exit \/ Deadline
    BY <1>7 DEF Drain, Wait, Exit, Deadline, channel
<1>8. ASSUME NEW t \in Targets, Goroutine(t) PROVE Counted'
    BY <1>8 DEF Goroutine, CallShutdown, ShutdownReturns, Report, Done, Crash, channel
<1>9. CASE UNCHANGED vars
    BY <1>9 DEF vars, channel
<1> QED
    BY <1>1, <1>2, <1>3, <1>4, <1>5, <1>6, <1>7, <1>8, <1>9 DEF Next, Caller, Watcher

(* Until the watcher receives, nobody but it takes a signal out of the     *)
(* channel, and a signal that finds the channel full leaves it full.       *)
LEMMA HeardPreserved == TypeOK /\ Counted /\ Heard /\ [Next]_vars => Heard'
<1> SUFFICES ASSUME TypeOK, Counted, Heard, [Next]_vars PROVE Heard'
    OBVIOUS
<1> USE CapAssumption DEF TypeOK, Counted, Heard
<1>1. CASE Raise
    BY <1>1 DEF Raise
<1>2. CASE Close
    BY <1>2 DEF Close
<1>3. CASE WaitForSignal
    BY <1>3 DEF WaitForSignal, Taken
<1>4. CASE ArmSecondSignal
    BY <1>4 DEF ArmSecondSignal, channel
<1>5. CASE SecondSignal
    BY <1>5 DEF SecondSignal, Taken, Received
<1>6. CASE ForceExit
    BY <1>6 DEF ForceExit, channel
<1>7. CASE Drain \/ Wait \/ Exit \/ Deadline
    BY <1>7 DEF Drain, Wait, Exit, Deadline, channel
<1>8. ASSUME NEW t \in Targets, Goroutine(t) PROVE Heard'
    <2>1. UNCHANGED <<config, channel, caller, watcher>> /\ (process' = "up" => process = "up")
        BY <1>8 DEF Goroutine, CallShutdown, ShutdownReturns, Report, Done, Crash
    <2> QED
        BY <2>1 DEF channel
<1>9. CASE UNCHANGED vars
    BY <1>9 DEF vars, channel
<1> QED
    BY <1>1, <1>2, <1>3, <1>4, <1>5, <1>6, <1>7, <1>8, <1>9 DEF Next, Caller, Watcher

(* The four parts together.                                                *)
LEMMA Invariant == Spec => []IInv
<1>1. IInv /\ [Next]_vars => IInv'
    BY TypePreserved, TalliedPreserved, CountedPreserved, HeardPreserved DEF IInv
<1> QED
    BY InitEstablishes, <1>1, PTL DEF Spec

(* The channel never holds more than its capacity, and every goroutine     *)
(* stays in one of its states (package lifecycle).                         *)
THEOREM TypeCorrect == Spec => []TypeOK
<1>1. IInv => TypeOK
    BY DEF IInv
<1> QED
    BY Invariant, <1>1, PTL

(* Drain returns only after every target's Shutdown and report, or its     *)
(* panic, whatever the number of targets and in whatever order their       *)
(* goroutines are scheduled: the counter is never zero while one of them   *)
(* has its Done ahead (drain.go, Add before the go statements).            *)
THEOREM JoinedCorrect == Spec => []JoinedAfterReports
<1>1. IInv => JoinedAfterReports
    BY DEF IInv, Tallied, Unfinished, JoinedAfterReports
<1> QED
    BY Invariant, <1>1, PTL

(* Neither the first signal nor a closed channel forces the process down,  *)
(* whatever the channel's capacity (ArmSecondSignal).                      *)
THEOREM ForcedCorrect == Spec => []ForcedOnlyByRepeat
<1>1. IInv => ForcedOnlyByRepeat
    BY DEF IInv, Counted, ForcedOnlyByRepeat
<1> QED
    BY Invariant, <1>1, PTL

-------------------------------------------------------------------------------
(* What the liveness of a drain rests on, as far as it is safety.          *)

(* The goroutine of t has a step to take.                                  *)
Ready(t) ==
    /\ process = "up"
    /\ \/ caller \in {"joining", "back"} /\ target[t] = "off" /\ Startable(t)
       \/ /\ target[t] = "called"
          /\ config.kind[t] = "prompt" \/ (config.kind[t] = "ctx" /\ ctxDone)
       \/ target[t] \in {"returned", "panicking", "unwound"}
       \/ target[t] = "reported" /\ config.report

Place == [off |-> 0, called |-> 1, panicking |-> 1, returned |-> 2, reported |-> 3,
          done |-> 4, unwound |-> 4]

ReportedIfAsked == \A t \in Targets : target[t] = "reported" => config.report

LEMMA GoroutineStep ==
  ASSUME TypeOK, NEW t \in Targets, Goroutine(t)
  PROVE  /\ Ready(t)
         /\ UNCHANGED <<config, channel, caller, watcher, ctxDone>>
         /\ \A u \in Targets \ {t} : target'[u] = target[u]
         /\ process' # "up" \/ Place[target[t]] < Place[target'[t]]
         /\ target'[t] = "reported" => config.report
<1> USE DEF TypeOK, Ready, Place
<1>1. CASE CallShutdown(t)
    BY <1>1 DEF CallShutdown
<1>2. CASE ShutdownReturns(t)
    BY <1>2 DEF ShutdownReturns
<1>3. CASE Report(t)
    BY <1>3 DEF Report
<1>4. CASE Done(t)
    BY <1>4 DEF Done
<1>5. CASE Crash(t)
    BY <1>5 DEF Crash
<1> QED
    BY <1>1, <1>2, <1>3, <1>4, <1>5 DEF Goroutine

LEMMA ReportedKept == TypeOK /\ ReportedIfAsked /\ [Next]_vars => ReportedIfAsked'
<1> SUFFICES ASSUME TypeOK, ReportedIfAsked, [Next]_vars PROVE ReportedIfAsked'
    OBVIOUS
<1>1. ASSUME NEW t \in Targets, Goroutine(t) PROVE ReportedIfAsked'
    BY <1>1, GoroutineStep DEF ReportedIfAsked
<1>2. CASE Raise \/ Close \/ Deadline \/ Caller \/ Watcher \/ UNCHANGED vars
    BY <1>2 DEF Raise, Close, Deadline, Caller, WaitForSignal, ArmSecondSignal, Drain, Wait, Exit,
       Watcher, SecondSignal, ForceExit, vars, ReportedIfAsked
<1> QED
    BY <1>1, <1>2 DEF Next

(* Once the deadline has passed, the goroutine of every target that heeds  *)
(* it has something to do until it is done, however the others behave.     *)
THEOREM AnsweringReady ==
  Spec => [](caller = "joining" /\ ctxDone /\ process = "up" =>
                \A t \in Targets : config.kind[t] \in {"prompt", "ctx"} =>
                    Ready(t) \/ target[t] = "done")
<1>1. Init => ReportedIfAsked
    BY DEF Init, ReportedIfAsked
<1>2. TypeOK /\ ReportedIfAsked =>
        (caller = "joining" /\ ctxDone /\ process = "up" =>
            \A t \in Targets : config.kind[t] \in {"prompt", "ctx"} => Ready(t) \/ target[t] = "done")
    BY DEF TypeOK, ReportedIfAsked, Ready, Startable
<1> QED
    BY <1>1, <1>2, ReportedKept, TypeCorrect, PTL DEF Spec

(* Nothing takes a step away from a target's goroutine while the process   *)
(* is up (the other targets, hung or not, the deadline, the signals), and  *)
(* each step it takes is forward: it has four at most (Drain, one          *)
(* goroutine per target).                                                  *)
THEOREM TargetsIndependent ==
  Spec => [][\A t \in Targets :
                /\ Goroutine(t) => /\ Ready(t)
                                   /\ Place[target[t]] < Place[target'[t]] \/ process' # "up"
                /\ target'[t] = target[t] \/ Place[target[t]] < Place[target'[t]]
                /\ Ready(t) => \/ Ready(t)'
                               \/ Place[target[t]] < Place[target'[t]]
                               \/ process' # "up"]_vars
<1> DEFINE Free(t) == /\ Goroutine(t) => /\ Ready(t)
                                         /\ Place[target[t]] < Place[target'[t]] \/ process' # "up"
                      /\ target'[t] = target[t] \/ Place[target[t]] < Place[target'[t]]
                      /\ Ready(t) => \/ Ready(t)'
                                     \/ Place[target[t]] < Place[target'[t]]
                                     \/ process' # "up"
<1>1. ASSUME TypeOK, NEW t \in Targets, Next PROVE Free(t)
    <2>1. CASE Goroutine(t)
        <3>1. target'[t] = target[t] \/ Place[target[t]] < Place[target'[t]]
            BY <1>1, <2>1 DEF TypeOK, Place, Goroutine, CallShutdown, ShutdownReturns, Report, Done, Crash
        <3> QED
            BY <1>1, <2>1, <3>1, GoroutineStep
    <2>2. ASSUME NEW u \in Targets \ {t}, Goroutine(u) PROVE Free(t)
        <3>1. UNCHANGED <<config, caller, ctxDone>> /\ target'[t] = target[t] /\ process' \in {process, "panicked"}
            BY <1>1, <2>2, GoroutineStep DEF Goroutine, CallShutdown, ShutdownReturns, Report, Done, Crash
        <3>2. Ready(t) => Ready(t)' \/ process' # "up"
            BY <3>1 DEF Ready, Startable
        <3>3. Goroutine(t) => Ready(t) /\ (Place[target[t]] < Place[target'[t]] \/ process' # "up")
            BY <1>1, GoroutineStep
        <3> QED
            BY <3>1, <3>2, <3>3
    <2>3. CASE Raise \/ Close \/ Deadline \/ Caller \/ Watcher
        <3>1. target' = target /\ config' = config
            BY <2>3 DEF Raise, Close, Deadline, Caller, WaitForSignal, ArmSecondSignal, Drain, Wait, Exit,
               Watcher, SecondSignal, ForceExit
        <3>2. ctxDone => ctxDone'
            BY <2>3 DEF Raise, Close, Deadline, Caller, WaitForSignal, ArmSecondSignal, Drain, Wait, Exit,
               Watcher, SecondSignal, ForceExit
        <3>3. Ready(t) /\ target[t] = "off" => caller' \in {"joining", "back"}
            BY <2>3 DEF Ready, Raise, Close, Deadline, Caller, WaitForSignal, ArmSecondSignal, Drain, Wait, Exit,
               Watcher, SecondSignal, ForceExit
        <3>4. Ready(t) /\ process' = "up" => Ready(t)'
            BY <3>1, <3>2, <3>3 DEF Ready, Startable
        <3>5. Goroutine(t) => Ready(t) /\ (Place[target[t]] < Place[target'[t]] \/ process' # "up")
            BY <1>1, GoroutineStep
        <3> QED
            BY <3>1, <3>4, <3>5
    <2> QED
        BY <1>1, <2>1, <2>2, <2>3 DEF Next
<1>2. TypeOK /\ [Next]_vars => [\A t \in Targets : Free(t)]_vars
    BY <1>1
<1> QED
    BY <1>2, TypeCorrect, PTL DEF Spec

(* A signal raised after the caller has received its own is never lost,    *)
(* although the channel may be full and drop it: until the process goes    *)
(* down the watcher is on its way to ForceExit, or is armed or still to be *)
(* armed with a signal in the channel (ArmSecondSignal).                   *)
THEOREM RepeatHeard ==
  Spec => [](again /\ config.force /\ process = "up" =>
                 watcher = "forcing" \/ (watcher \in {"off", "armed"} /\ queue > 0))
<1>1. IInv => (again /\ config.force /\ process = "up" =>
                   watcher = "forcing" \/ (watcher \in {"off", "armed"} /\ queue > 0))
    BY DEF IInv, Heard
<1> QED
    BY Invariant, <1>1, PTL

(* And it is for the armed watcher alone: no step takes it away but the    *)
(* one that leads to ForceExit, from which nothing turns back.             *)
THEOREM RepeatKept ==
  Spec => [][/\ watcher = "armed" /\ queue > 0 =>
                   \/ watcher' = "armed" /\ queue' > 0
                   \/ watcher' = "forcing"
                   \/ process' # "up"
             /\ watcher = "forcing" => watcher' = "forcing" \/ process' # "up"]_vars
<1> DEFINE Kept == /\ watcher = "armed" /\ queue > 0 =>
                          \/ watcher' = "armed" /\ queue' > 0
                          \/ watcher' = "forcing"
                          \/ process' # "up"
                   /\ watcher = "forcing" => watcher' = "forcing" \/ process' # "up"
<1>1. ASSUME IInv, Next PROVE Kept
    <2>1. queue \in Nat /\ Cap \in Nat \ {0} /\ (watcher # "off" => caller # "wait")
        BY <1>1, CapAssumption DEF IInv, TypeOK, Counted
    <2>2. CASE Raise
        BY <2>1, <2>2 DEF Raise
    <2>3. CASE SecondSignal \/ ForceExit
        BY <2>1, <2>3 DEF SecondSignal, Received, ForceExit
    <2>4. CASE WaitForSignal \/ ArmSecondSignal
        BY <2>1, <2>4 DEF WaitForSignal, ArmSecondSignal
    <2>5. CASE Close \/ Deadline \/ Drain \/ Wait \/ Exit
        BY <2>1, <2>5 DEF Close, Deadline, Drain, Wait, Exit, channel
    <2>6. ASSUME NEW t \in Targets, Goroutine(t) PROVE Kept
        <3>1. UNCHANGED <<queue, watcher>>
            BY <2>6 DEF Goroutine, CallShutdown, ShutdownReturns, Report, Done, Crash, channel
        <3> QED
            BY <2>1, <3>1
    <2> QED
        BY <1>1, <2>2, <2>3, <2>4, <2>5, <2>6 DEF Next, Caller, Watcher
<1>2. IInv /\ [Next]_vars => [Kept]_vars
    BY <1>1
<1> QED
    BY <1>2, Invariant, PTL DEF Spec
===============================================================================
