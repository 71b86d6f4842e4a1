------------------------------ MODULE Lifecycle -------------------------------
(***************************************************************************)
(* package lifecycle: a daemon waits for a signal (WaitForSignal), arms a  *)
(* watcher for a second one (ArmSecondSignal) and drains its targets       *)
(* (Drain), as the README of the package composes them.  Its goroutines    *)
(* are the caller, the watcher and one per target.                         *)
(*                                                                         *)
(* External: signal.Notify, which drops a signal the channel has no room   *)
(* for, the deadline of the drain context, the targets' Shutdown, and the  *)
(* Go runtime, which runs the deferred Done of a goroutine that panics     *)
(* before it ends the process.                                             *)
(***************************************************************************)
EXTENDS Integers, FiniteSets

CONSTANTS
    Targets,
    Kinds,         \* the Shutdown functions a target may have: "prompt", "ctx"
                   \* (returns once ctx is done), "hung" and "nil" (panics)
    Cap,           \* capacity of the signals channel
    MaxSignals     \* bound of the model: signals the OS raises

ASSUME CapAssumption == Cap \in Nat \ {0} /\ MaxSignals \in Nat
ASSUME TargetAssumption == IsFiniteSet(Targets)

VARIABLES
    config,        \* what the daemon passes: kind (of each target), force and
                   \* report (whether forceExit and report are not nil)
    queue,         \* signals in the channel
    sent,          \* signals the OS has raised
    again,         \* history: one of them after the caller had received its own
    closed,        \* the channel has been closed by its owner
    caller,        \* "wait", "drain" (has the signal), "joining", "back" (Drain returned)
    watcher,       \* "off", "armed", "forcing", "ended"
    drains,        \* the counter of the WaitGroup
    target,        \* "off", "called", "returned", "reported", "done" (WaitGroup.Done);
                   \* "panicking" in Shutdown, "unwound" once that ran Done
    ctxDone,
    process        \* "up", "exited", "forced", "panicked"

channel == <<queue, sent, again, closed>>
vars == <<config, channel, caller, watcher, drains, target, ctxDone, process>>

Init ==
    /\ config \in [kind : [Targets -> Kinds], force : BOOLEAN, report : BOOLEAN]
    /\ queue = 0 /\ sent = 0 /\ again = FALSE /\ closed = FALSE
    /\ caller = "wait"
    /\ watcher = "off"
    /\ drains = 0
    /\ target = [t \in Targets |-> "off"]
    /\ ctxDone = FALSE
    /\ process = "up"

-------------------------------------------------------------------------------
Raise ==
    /\ process = "up" /\ ~closed /\ sent < MaxSignals
    /\ sent' = sent + 1
    /\ again' = (again \/ caller # "wait")
    /\ queue' = IF queue < Cap THEN queue + 1 ELSE queue
    /\ UNCHANGED <<config, closed, caller, watcher, drains, target, ctxDone, process>>

Close ==
    /\ process = "up" /\ ~closed
    /\ closed' = TRUE
    /\ UNCHANGED <<config, queue, sent, again, caller, watcher, drains, target, ctxDone, process>>

(* A receive takes a queued signal, or the zero value of a closed channel. *)
Taken == IF queue > 0 THEN queue - 1 ELSE 0

WaitForSignal ==
    /\ process = "up" /\ caller = "wait"
    /\ queue > 0 \/ closed
    /\ queue' = Taken
    /\ caller' = "drain"
    /\ UNCHANGED <<config, sent, again, closed, watcher, drains, target, ctxDone, process>>

ArmSecondSignal ==
    /\ process = "up" /\ caller = "drain" /\ watcher = "off"
    /\ config.force
    /\ watcher' = "armed"
    /\ UNCHANGED <<config, channel, caller, drains, target, ctxDone, process>>

(* Seeded fault: the zero value of a closed channel counts as a signal.    *)
Received_Unchecked == "forcing"

(* Seeded fault: a repeated signal is ignored while the targets drain.     *)
Received_Patient == IF queue > 0 /\ caller # "joining" THEN "forcing" ELSE "ended"

Received == IF queue > 0 THEN "forcing" ELSE "ended"

SecondSignal ==
    /\ process = "up" /\ watcher = "armed"
    /\ queue > 0 \/ closed
    /\ watcher' = Received
    /\ queue' = Taken
    /\ UNCHANGED <<config, sent, again, closed, caller, drains, target, ctxDone, process>>

ForceExit ==
    /\ process = "up" /\ watcher = "forcing"
    /\ watcher' = "ended"
    /\ process' = "forced"
    /\ UNCHANGED <<config, channel, caller, drains, target, ctxDone>>

-------------------------------------------------------------------------------
(* Seeded fault: the targets are shut down one after the other.            *)
Startable_InTurn(t) == \A u \in Targets \ {t} : target[u] \in {"off", "done"}

(* Every goroutine is started at once and runs when it is scheduled.       *)
Startable(t) == TRUE

(* Seeded fault: every goroutine adds itself to the WaitGroup as it runs.  *)
Added_Inside(where) == IF where = "goroutine" THEN 1 ELSE 0

(* What Drain, or a goroutine as it begins, adds to the WaitGroup.         *)
Added(where) == IF where = "drain" THEN Cardinality(Targets) ELSE 0

Drain ==
    /\ process = "up" /\ caller = "drain"
    /\ watcher # "off" \/ ~config.force
    /\ drains' = drains + Added("drain")
    /\ caller' = "joining"
    /\ UNCHANGED <<config, channel, watcher, target, ctxDone, process>>

CallShutdown(t) ==
    /\ process = "up" /\ caller \in {"joining", "back"} /\ target[t] = "off" /\ Startable(t)
    /\ drains' = drains + Added("goroutine")
    /\ target' = [target EXCEPT ![t] = IF config.kind[t] = "nil" THEN "panicking" ELSE "called"]
    /\ UNCHANGED <<config, channel, caller, watcher, ctxDone, process>>

ShutdownReturns(t) ==
    /\ process = "up" /\ target[t] = "called"
    /\ config.kind[t] = "prompt" \/ (config.kind[t] = "ctx" /\ ctxDone)
    /\ target' = [target EXCEPT ![t] = "returned"]
    /\ UNCHANGED <<config, channel, caller, watcher, drains, ctxDone, process>>

Report(t) ==
    /\ process = "up" /\ target[t] = "returned" /\ config.report
    /\ target' = [target EXCEPT ![t] = "reported"]
    /\ UNCHANGED <<config, channel, caller, watcher, drains, ctxDone, process>>

(* Done is deferred: it follows the report, or the panic.                  *)
Done(t) ==
    /\ process = "up"
    /\ target[t] \in {"panicking", IF config.report THEN "reported" ELSE "returned"}
    /\ drains' = drains - 1
    /\ target' = [target EXCEPT ![t] = IF target[t] = "panicking" THEN "unwound" ELSE "done"]
    /\ UNCHANGED <<config, channel, caller, watcher, ctxDone, process>>

(* The other goroutines run on until the runtime gets here.                *)
Crash(t) ==
    /\ process = "up" /\ target[t] = "unwound"
    /\ process' = "panicked"
    /\ UNCHANGED <<config, channel, caller, watcher, drains, target, ctxDone>>

Wait ==
    /\ process = "up" /\ caller = "joining"
    /\ drains = 0
    /\ caller' = "back"
    /\ UNCHANGED <<config, channel, watcher, drains, target, ctxDone, process>>

(* After Drain the daemon returns from main.                               *)
Exit ==
    /\ process = "up" /\ caller = "back"
    /\ process' = "exited"
    /\ UNCHANGED <<config, channel, caller, watcher, drains, target, ctxDone>>

Deadline ==
    /\ process = "up" /\ caller = "joining" /\ ~ctxDone
    /\ ctxDone' = TRUE
    /\ UNCHANGED <<config, channel, caller, watcher, drains, target, process>>

Goroutine(t) == CallShutdown(t) \/ ShutdownReturns(t) \/ Report(t) \/ Done(t) \/ Crash(t)
Caller == WaitForSignal \/ ArmSecondSignal \/ Drain \/ Wait \/ Exit
Watcher == SecondSignal \/ ForceExit

Next ==
    \/ Raise \/ Close \/ Deadline
    \/ Caller \/ Watcher
    \/ \E t \in Targets : Goroutine(t)

Spec == Init /\ [][Next]_vars

(* The Go scheduler runs every goroutine that can go on, and the drain     *)
(* context has a deadline; nothing says that a signal ever comes.          *)
FairSpec ==
    /\ Spec
    /\ WF_vars(Caller) /\ WF_vars(Watcher) /\ WF_vars(Deadline)
    /\ \A t \in Targets : WF_vars(Goroutine(t))

-------------------------------------------------------------------------------
TypeOK ==
    /\ config \in [kind : [Targets -> Kinds], force : BOOLEAN, report : BOOLEAN]
    /\ queue \in 0..Cap /\ sent \in 0..MaxSignals /\ again \in BOOLEAN /\ closed \in BOOLEAN
    /\ caller \in {"wait", "drain", "joining", "back"}
    /\ watcher \in {"off", "armed", "forcing", "ended"}
    /\ drains \in Nat
    /\ target \in [Targets -> {"off", "called", "returned", "reported", "done",
                              "panicking", "unwound"}]
    /\ ctxDone \in BOOLEAN
    /\ process \in {"up", "exited", "forced", "panicked"}

(* When Drain returns, every target's Shutdown has returned and its report *)
(* call has been made, or its panic is about to end the process: neither a *)
(* goroutine that has not been scheduled yet nor one that is still at its  *)
(* report lets the counter be zero (drain.go, Add before the goroutines    *)
(* start and Done deferred around the report).                             *)
JoinedAfterReports ==
    caller = "back" => \A t \in Targets : target[t] \in {"done", "unwound"}

(* A process is forced down only after a second signal was raised: neither *)
(* the first one nor a closed channel does it (ArmSecondSignal).           *)
ForcedOnlyByRepeat == process = "forced" => sent >= 2

(* A target that answers is drained however the others behave, unless the  *)
(* process goes down first (Drain, one goroutine per target).              *)
HungBlocksNobody ==
    \A t \in Targets :
        (caller = "joining" /\ config.kind[t] \in {"prompt", "ctx"})
            ~> (target[t] = "done" \/ process # "up")

(* A signal raised after the caller has received its own brings the        *)
(* process down, even while a target hangs: whether the watcher is armed   *)
(* by then or not, whether the channel is closed behind it, and also when  *)
(* it is dropped because the channel is full (ArmSecondSignal).            *)
RepeatForces == (again /\ config.force) ~> (process # "up")
===============================================================================
