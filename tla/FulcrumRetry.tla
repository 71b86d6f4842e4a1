----------------------------- MODULE FulcrumRetry ------------------------------
(***************************************************************************)
(* fulcrumprojects/client.go: callers that write intents (mutations) to    *)
(* the project store through Client.Retry, and again through Client.Mutate *)
(* when they never learnt what became of a batch.  An intent creates a     *)
(* task of its own or updates the one task all of them can see.            *)
(*                                                                         *)
(* The store is external, as the package's README and fixture server       *)
(* describe it: the epoch moves with an admin import or rollback, a batch  *)
(* under another epoch is answered 409 and does nothing, and a receipt per *)
(* mutation id, with the epoch folded in, answers a repeated request.      *)
(* Requests and answers may be lost or come late.  Left out: queries,      *)
(* which persist nothing, and the read-only Changes and Me.                *)
(***************************************************************************)
EXTENDS Integers

CONSTANTS
    Callers,
    Intents,
    Owner,        \* Owner[i]: the caller that wants intent i
    Updates,      \* the intents that update the task, at most one per caller
    MaxEpoch,     \* bound of the model: imports and rollbacks
    MaxMints,     \* bound of the model: ids minted per intent
    MaxFaults     \* bound of the model: lost and refused calls, refused mutations

ASSUME IntentAssumption ==
    /\ Owner \in [Intents -> Callers]
    /\ Updates \subseteq Intents
    /\ \A i, j \in Updates : Owner[i] = Owner[j] => i = j
    /\ MaxEpoch \in Nat /\ MaxMints \in Nat /\ MaxFaults \in Nat

VARIABLES
    epoch,        \* the workspace epoch
    version,      \* the version of the task
    content,      \* counts every change of the task, rollbacks included
    receipts,     \* final outcomes by mutation id
    net,          \* batches on their way to the store
    reply,        \* the answer on its way to each caller
    call,         \* what each caller is doing: see Call
    minted,       \* ids minted for each intent
    todo,         \* intents not yet settled
    won,          \* ids whose entity Results.Applied has returned
    applied,      \* history: what took effect, on what the builder had seen
    lost,         \* history: ids of batches whose answer never came
    faults

store == <<epoch, version, content, receipts, applied>>
vars == <<store, net, reply, call, minted, todo, won, lost, faults>>

Id == [intent : Intents, n : Nat]
Snapshot == [epoch : Nat, version : Nat, content : Nat]
Batch == [from : Callers, post : Nat, seen : Snapshot, ids : SUBSET Id]
Status == {"applied", "conflict", "rejected", "retryable", "duplicate"}

(* original is the status of originalResult, meant for a duplicate only.   *)
Result == [id : Id, status : Status, original : Status]
Reply == [kind : {"none", "stale", "refused", "results"}, results : SUBSET Result]
Receipt == [id : Id, epoch : Nat, status : Status]
Effect == [id : Id, epoch : Nat, seen : Nat, onto : Nat]

NoReply == [kind |-> "none", results |-> {}]
NoSnapshot == [epoch |-> 0, version |-> 0, content |-> 0]

(* retry: inside Retry (else a Mutate of the caller's own); first: the     *)
(* epoch of its first snapshot; post numbers the requests of a caller.     *)
Call == [pc : {"idle", "snapshot", "build", "wait"}, retry : BOOLEAN, attempt : {0, 1},
         first : Nat, seen : Snapshot, ids : SUBSET Id, post : Nat,
         err : {"none", "nil", "sync_epoch_mismatch", "transport_unavailable",
                "unexpected_response", "refused"}]

Init ==
    /\ epoch = 0 /\ version = 0 /\ content = 0
    /\ receipts = {} /\ applied = {}
    /\ net = {}
    /\ reply = [c \in Callers |-> NoReply]
    /\ call = [c \in Callers |-> [pc |-> "idle", retry |-> FALSE, attempt |-> 0, first |-> 0,
                                  seen |-> NoSnapshot, ids |-> {}, post |-> 0, err |-> "none"]]
    /\ minted = [i \in Intents |-> 0]
    /\ todo = Intents
    /\ won = {} /\ lost = {}
    /\ faults = 0

Fault == faults < MaxFaults /\ faults' = faults + 1
Mine(c) == {i \in todo : Owner[i] = c}
Answered(c) == reply' = [reply EXCEPT ![c] = NoReply]
Return(c, err) == call' = [call EXCEPT ![c].pc = "idle", ![c].err = err]
-------------------------------------------------------------------------------
(* A caller starts Retry when nothing it sent is in doubt, or when the     *)
(* store says the epoch has moved: that error is retryable after a fresh   *)
(* snapshot, whatever became of an earlier post.                           *)
Begin(c) ==
    /\ call[c].pc = "idle"
    /\ call[c].err \in {"none", "nil", "sync_epoch_mismatch"} \/ call[c].ids = {}
    /\ call[c].err # "refused"
    /\ Mine(c) # {}
    /\ call' = [call EXCEPT ![c].pc = "snapshot", ![c].retry = TRUE, ![c].attempt = 0,
                            ![c].ids = {}]
    /\ UNCHANGED <<store, net, reply, minted, todo, won, lost, faults>>

(* A failed snapshot ends Retry with an empty one: no post is in doubt.    *)
ReadSnapshot(c) ==
    LET now == [epoch |-> epoch, version |-> version, content |-> content] IN
    /\ call[c].pc = "snapshot"
    /\ \/ /\ call' = [call EXCEPT ![c].pc = "build", ![c].seen = now,
                        ![c].first = IF call[c].attempt = 0 THEN epoch ELSE @]
          /\ UNCHANGED faults
       \/ /\ Fault
          /\ \E err \in {"transport_unavailable", "unexpected_response", "refused"} :
                call' = [call EXCEPT ![c].pc = "idle", ![c].err = err, ![c].ids = {}]
    /\ UNCHANGED <<store, net, reply, minted, todo, won, lost>>

(* Every builder mints a fresh id; an update carries the version of the    *)
(* snapshot, a create the version 0 and a target of its own.               *)
Built(c) == {[intent |-> i, n |-> minted[i] + 1] : i \in Mine(c)}

(* Seeded fault: versions read at one time are posted under the epoch of   *)
(* the moment.                                                             *)
BuiltFrom_Now(c) == [call[c].seen EXCEPT !.epoch = epoch]

BuiltFrom(c) == call[c].seen

(* The builders, then Mutate's own checks and the POST.                    *)
BuildAndPost(c) ==
    /\ call[c].pc = "build"
    /\ \A i \in Mine(c) : minted[i] < MaxMints
    /\ \/ /\ net' = net \cup {[from |-> c, post |-> call[c].post + 1, seen |-> BuiltFrom(c),
                               ids |-> Built(c)]}
          /\ call' = [call EXCEPT ![c].pc = "wait", ![c].post = @ + 1, ![c].ids = Built(c)]
          /\ UNCHANGED faults
       \/ Fault /\ UNCHANGED net
          /\ call' = [call EXCEPT ![c].pc = "idle", ![c].err = "refused", ![c].ids = {}]
    /\ minted' = [i \in Intents |-> IF i \in Mine(c) THEN minted[i] + 1 ELSE minted[i]]
    /\ UNCHANGED <<store, reply, todo, won, lost>>

(* A caller in doubt posts the same batch again: same ids, same epoch.     *)
Resend(c) ==
    /\ call[c].pc = "idle"
    /\ call[c].err \in {"transport_unavailable", "unexpected_response"}
    /\ call[c].ids # {}
    /\ net' = net \cup {[from |-> c, post |-> call[c].post + 1, seen |-> call[c].seen,
                         ids |-> call[c].ids]}
    /\ call' = [call EXCEPT ![c].pc = "wait", ![c].retry = FALSE, ![c].post = @ + 1]
    /\ UNCHANGED <<store, reply, minted, todo, won, lost, faults>>
-------------------------------------------------------------------------------
(* The store: one batch at a time; the answer is dropped when the caller   *)
(* no longer waits for it.                                                 *)
Answer(q, kind, results) ==
    /\ net' = net \ {q}
    /\ reply' = IF call[q.from].pc = "wait" /\ call[q.from].post = q.post
                THEN [reply EXCEPT ![q.from] = [kind |-> kind, results |-> results]]
                ELSE reply

Known(id) == {r \in receipts : r.id = id}
New(q) == {id \in q.ids : Known(id) = {}}

(* The outcome of each new mutation; balk are those refused for a reason   *)
(* of the store's own.                                                     *)
Outcome(q, id, balk, why) ==
    IF id \in balk THEN why
    ELSE IF id.intent \in Updates /\ q.seen.version # version THEN "conflict"
    ELSE "applied"

StoreApplies(q) ==
    /\ q \in net
    /\ q.seen.epoch = epoch
    /\ \E balk \in SUBSET New(q), why \in {"rejected", "retryable"} :
          LET new == New(q)
              done == {id \in new : Outcome(q, id, balk, why) = "applied"}
              final == {id \in new : Outcome(q, id, balk, why) # "retryable"}
              old == UNION {Known(id) : id \in q.ids} IN
          /\ IF balk = {} THEN UNCHANGED faults ELSE Fault
          /\ applied' = applied \cup {[id |-> id, epoch |-> epoch, onto |-> content,
                  seen |-> IF id.intent \in Updates THEN q.seen.content ELSE content]
                  : id \in done}
          /\ receipts' = receipts \cup
                {[id |-> id, epoch |-> epoch, status |-> Outcome(q, id, balk, why)] : id \in final}
          /\ IF \E id \in done : id.intent \in Updates
             THEN version' = version + 1 /\ content' = content + 1
             ELSE UNCHANGED <<version, content>>
          /\ Answer(q, "results",
                {[id |-> id, status |-> Outcome(q, id, balk, why), original |-> "rejected"]
                    : id \in new}
                \cup {[id |-> r.id, status |-> IF r.epoch = epoch THEN "duplicate" ELSE "rejected",
                       original |-> r.status] : r \in old})
    /\ UNCHANGED <<epoch, call, minted, todo, won, lost>>

StoreIsElsewhere(q) ==
    /\ q \in net
    /\ q.seen.epoch # epoch
    /\ Answer(q, "stale", {})
    /\ UNCHANGED <<store, call, minted, todo, won, lost, faults>>

(* 400, 401, 403, 404: nothing is done, and the caller gives up.           *)
StoreRefuses(q) ==
    /\ q \in net
    /\ Fault
    /\ Answer(q, "refused", {})
    /\ UNCHANGED <<store, call, minted, todo, won, lost>>

(* An admin import, or a rollback to an earlier version of everything.     *)
MoveEpoch ==
    /\ epoch < MaxEpoch
    /\ epoch' = epoch + 1
    /\ version' \in 0..version
    /\ content' = content + 1
    /\ UNCHANGED <<receipts, applied, net, reply, call, minted, todo, won, lost, faults>>
-------------------------------------------------------------------------------
(* Results.Applied: which results return the entity.                       *)
(* Seeded fault: any duplicate counts.                                     *)
HasEntity_AnyDuplicate(r) == r.status \in {"applied", "duplicate"}

HasEntity(r) ==
    \/ r.status = "applied"
    \/ r.status = "duplicate" /\ r.original = "applied"

(* Rejected for good; a conflict is built anew, a retryable refusal resent. *)
Hopeless(r) == r.status = "rejected" \/ (r.status = "duplicate" /\ r.original = "rejected")

(* Mutate's check of count, order and ids passes; the caller asks Applied  *)
(* about each mutation: a retryable one is CodeTransportUnavailable.       *)
ReceiveResults(c) ==
    LET results == reply[c].results IN
    /\ reply[c].kind = "results"
    /\ {r.id : r \in results} = call[c].ids
    /\ Return(c, IF \E r \in results : r.status = "retryable"
                 THEN "transport_unavailable" ELSE "nil")
    /\ won' = won \cup {r.id : r \in {s \in results : HasEntity(s)}}
    /\ todo' = todo \ {r.id.intent : r \in {s \in results : HasEntity(s) \/ Hopeless(s)}}
    /\ Answered(c)
    /\ UNCHANGED <<store, net, minted, lost, faults>>

Again(c) == call[c].retry /\ call[c].attempt = 0

(* 409 sync_epoch_mismatch: Retry takes a fresh snapshot, exactly once.    *)
ReceiveStale(c) ==
    /\ reply[c].kind = "stale"
    /\ IF Again(c) THEN call' = [call EXCEPT ![c].pc = "snapshot", ![c].attempt = 1]
                   ELSE Return(c, "sync_epoch_mismatch")
    /\ Answered(c)
    /\ UNCHANGED <<store, net, minted, todo, won, lost, faults>>

ReceiveRefused(c) ==
    /\ reply[c].kind = "refused"
    /\ Return(c, "refused")
    /\ Answered(c)
    /\ UNCHANGED <<store, net, minted, todo, won, lost, faults>>

(* Seeded fault: Retry goes round again after a failed transport.          *)
GivesUp_Again(c) ==
    IF Again(c) THEN call' = [call EXCEPT ![c].pc = "snapshot", ![c].attempt = 1]
    ELSE Return(c, "transport_unavailable")

GivesUp(c) == \E err \in {"transport_unavailable", "unexpected_response"} : Return(c, err)

(* A timeout, a 429, a 5xx of a gateway, a body cut off, oversized, not   *)
(* JSON or about other mutations: the batch may be applied, now or later.  *)
LoseAnswer(c) ==
    /\ call[c].pc = "wait"
    /\ Fault
    /\ GivesUp(c)
    /\ Answered(c)
    /\ lost' = lost \cup call[c].ids
    /\ UNCHANGED <<store, net, minted, todo, won>>
-------------------------------------------------------------------------------
Client(c) ==
    \/ Begin(c) \/ ReadSnapshot(c) \/ BuildAndPost(c) \/ Resend(c) \/ ReceiveResults(c)
    \/ ReceiveStale(c) \/ ReceiveRefused(c) \/ LoseAnswer(c)

Store(q) == StoreApplies(q) \/ StoreIsElsewhere(q) \/ StoreRefuses(q)

Next ==
    \/ \E c \in Callers : Client(c)
    \/ \E q \in net : Store(q)
    \/ MoveEpoch

Spec == Init /\ [][Next]_vars
-------------------------------------------------------------------------------
TypeOK ==
    /\ epoch \in Nat /\ version \in Nat /\ content \in Nat
    /\ receipts \in SUBSET Receipt
    /\ net \in SUBSET Batch
    /\ reply \in [Callers -> Reply]
    /\ call \in [Callers -> Call]
    /\ minted \in [Intents -> Nat]
    /\ todo \in SUBSET Intents
    /\ won \in SUBSET Id
    /\ applied \in SUBSET Effect
    /\ lost \in SUBSET Id
    /\ faults \in Nat

(* An update takes effect only on the very state of the task its builder   *)
(* was shown: not after another writer, and not on a state that a rollback *)
(* has given the same version number (Retry runs the builder anew for each *)
(* snapshot, and Mutate names the snapshot's epoch).                       *)
AppliedAsSeen == \A a \in applied : a.seen = a.onto

(* An intent takes effect twice only when the answer about the first time  *)
(* never came and the epoch moved before the second: no retry inside one   *)
(* epoch, whatever is lost, late or resent, repeats it (Retry goes round   *)
(* on CodeEpochMismatch only; NewMutationID, the receipts).                *)
AppliedOncePerEpoch ==
    \A a, b \in applied :
        a.id.intent = b.id.intent /\ a # b =>
            /\ a.epoch # b.epoch
            /\ a.epoch < b.epoch => a.id \in lost

(* When Results.Applied returns the entity of a mutation, that very        *)
(* mutation took effect, be it on an earlier post of the same batch.       *)
EntityMeansApplied == \A id \in won : \E a \in applied : a.id = id

(* Retry reports an epoch mismatch only when the epoch moved twice while   *)
(* it ran: a single import never reaches the caller (Retry, two attempts). *)
MismatchMeansMovedTwice ==
    \A c \in Callers :
        call[c].pc = "idle" /\ call[c].retry /\ call[c].err = "sync_epoch_mismatch"
            => epoch >= call[c].first + 2
================================================================================
