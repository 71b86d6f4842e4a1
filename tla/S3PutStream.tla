----------------------------- MODULE S3PutStream ------------------------------
(***************************************************************************)
(* Client.PutStream of s3/multipart.go: several calls write the same key.  *)
(* A body is a sequence of chunks of multipartPartSize bytes (the last one *)
(* may be shorter); MultipartThreshold is one chunk, as in the source.     *)
(*                                                                         *)
(* The bucket is external: a request is answered, refused, never reaches   *)
(* it, or takes effect although its answer is lost; a publishing request   *)
(* (PUT, CompleteMultipartUpload) may even take effect later.  S3 may      *)
(* answer a CompleteMultipartUpload 200 and not do it.                     *)
(***************************************************************************)
EXTENDS Integers, Sequences

CONSTANTS
    Calls,        \* calls of PutStream, one key
    Jobs,         \* what a call may be asked: [body |-> the chunks its reader
                  \* delivers, want |-> what sha256Hex and size stand for]
    Original,     \* the object the key holds at first, <<>> for none
    MaxParts,     \* maxMultipartParts
    Tries,        \* len(multipartPartRetries)
    MaxErrors     \* bound of the model: lost or refused requests, read errors

ASSUME JobAssumption ==
    /\ Jobs \subseteq [body : Seq(STRING), want : Seq(STRING)]
    /\ Original \in Seq(STRING)
    /\ MaxParts \in Nat \ {0} /\ Tries \in Nat \ {0} /\ MaxErrors \in Nat

VARIABLES
    job,          \* the job of each call
    object,       \* what the key holds
    up,           \* the multipart upload each call created: see Upload
    call,         \* what each call is doing: see Call
    late,         \* calls whose publishing request is still under way
    cancelled,    \* calls whose ctx is done
    errors

putStreamVars == <<job, object, up, call, late, cancelled, errors>>

Body(c) == job[c].body
Want(c) == job[c].want

Upload == [st : {"none", "open", "gone"}, parts : Seq(STRING)]

(* k is partNumber, tries the attempts already made at that part, etags    *)
(* the list of completed parts (an ETag stands for the bytes it hashes).   *)
(* err is what PutStream returns, or will return after the abort or after  *)
(* the read-back.                                                          *)
Call == [pc : {"idle", "put", "create", "part", "complete", "abort", "verify", "return", "done"},
         k : Nat, tries : Nat, etags : Seq(STRING),
         err : {"", "nil", "invalid", "create", "failed", "abort", "identity"}]

PutStreamInit ==
    /\ job \in [Calls -> Jobs]
    /\ object = Original
    /\ up = [c \in Calls |-> [st |-> "none", parts |-> <<>>]]
    /\ call = [c \in Calls |-> [pc |-> "idle", k |-> 1, tries |-> 0, etags |-> <<>>, err |-> ""]]
    /\ late = {}
    /\ cancelled = {}
    /\ errors = 0

Step(c, pc) == call' = [call EXCEPT ![c].pc = pc]
Answer(c, err) == call' = [call EXCEPT ![c].pc = "done", ![c].err = err]

(* A fault of the model; a request under a done ctx fails at no charge.    *)
Fault(c) == \/ c \in cancelled /\ UNCHANGED errors
            \/ errors < MaxErrors /\ errors' = errors + 1

-------------------------------------------------------------------------------
(* The checks on the arguments, then one PUT or a multipart upload by the  *)
(* declared size.  The short path reads the whole body before it sends any *)
(* of it and compares its length; the long one trusts size.                *)
Begin(c) ==
    /\ call[c].pc = "idle"
    /\ IF Want(c) = <<>> THEN Answer(c, "invalid")
       ELSE IF Len(Want(c)) > 1 THEN Step(c, "create")
       ELSE IF Len(Body(c)) # Len(Want(c)) THEN Answer(c, "failed")
       ELSE Step(c, "put")
    /\ UNCHANGED <<job, object, up, late, cancelled, errors>>

Put(c) ==
    /\ call[c].pc = "put"
    /\ UNCHANGED <<job, up, cancelled>>
    /\ \/ /\ c \notin cancelled
          /\ object' = Body(c)
          /\ Step(c, "verify")
          /\ UNCHANGED <<late, errors>>
       \/ /\ Fault(c)
          /\ Answer(c, "failed")
          /\ \/ UNCHANGED <<object, late>>
             \/ c \notin cancelled /\ object' = Body(c) /\ UNCHANGED late
             \/ c \notin cancelled /\ late' = late \cup {c} /\ UNCHANGED object

(* A create whose answer is lost leaves an upload nobody knows the id of.  *)
CreateUpload(c) ==
    /\ call[c].pc = "create"
    /\ UNCHANGED <<job, object, late, cancelled>>
    /\ \/ /\ c \notin cancelled
          /\ up' = [up EXCEPT ![c].st = "open"]
          /\ Step(c, "part")
          /\ UNCHANGED errors
       \/ /\ Fault(c)
          /\ Answer(c, "create")
          /\ \/ UNCHANGED up
             \/ c \notin cancelled /\ up' = [up EXCEPT ![c].st = "open"]

-------------------------------------------------------------------------------
(* putMultipart aborts after every failure of uploadParts or of the        *)
(* completion, with the same ctx.                                          *)
Fail(c) == call' = [call EXCEPT ![c].pc = "abort", ![c].err = "failed"]

TooManyParts(c) == Len(Want(c)) > MaxParts

(* What stops uploadParts before or between parts: too many parts by the   *)
(* declared size, a failing reader, an empty body.                         *)
StopParts(c) ==
    /\ call[c].pc = "part"
    /\ call[c].tries = 0
    /\ \/ call[c].k = 1 /\ TooManyParts(c) /\ UNCHANGED errors
       \/ Body(c) = <<>> /\ UNCHANGED errors
       \/ errors < MaxErrors /\ errors' = errors + 1
    /\ Fail(c)
    /\ UNCHANGED <<job, object, up, late, cancelled>>

(* Seeded fault: a retry reads the body again, from where it stands now.   *)
Content_Reread(c) ==
    LET i == call[c].k + call[c].tries IN Body(c)[IF i <= Len(Body(c)) THEN i ELSE call[c].k]

(* Every attempt at a part sends the same buffer.                          *)
Content(c) == Body(c)[call[c].k]

Sending(c) ==
    /\ call[c].pc = "part"
    /\ call[c].k <= Len(Body(c))
    /\ ~TooManyParts(c)

Stored(c) ==
    LET p == up[c].parts  k == call[c].k IN
    IF k <= Len(p) THEN [p EXCEPT ![k] = Content(c)] ELSE Append(p, Content(c))

(* Seeded fault: the part is listed at every attempt, not when stored.     *)
Acknowledged_PerAttempt(c) ==
    call[c].etags \o [i \in 1..call[c].tries + 1 |-> Content(c)]

Acknowledged(c) == Append(call[c].etags, Content(c))

PartAccepted(c) ==
    /\ Sending(c)
    /\ c \notin cancelled
    /\ up' = [up EXCEPT ![c].parts = Stored(c)]
    /\ call' = [call EXCEPT ![c].k = @ + 1, ![c].tries = 0, ![c].etags = Acknowledged(c)]
    /\ UNCHANGED <<job, object, late, cancelled, errors>>

(* Seeded fault: the attempts are never counted.                           *)
NextAttempt_Endless(c) == 0

NextAttempt(c) == call[c].tries + 1

(* A transport error, stored or not: every error of http.Do is transient.  *)
(* A retry waits for its delay, or sees that the ctx is done.              *)
PartLost(c) ==
    /\ Sending(c)
    /\ Fault(c)
    /\ \/ UNCHANGED up
       \/ c \notin cancelled /\ up' = [up EXCEPT ![c].parts = Stored(c)]
    /\ \/ NextAttempt(c) < Tries /\ call' = [call EXCEPT ![c].tries = NextAttempt(c)]
       \/ NextAttempt(c) = Tries /\ Fail(c)
    /\ UNCHANGED <<job, object, late, cancelled>>

GiveUpWaiting(c) ==
    /\ Sending(c)
    /\ call[c].tries > 0
    /\ c \in cancelled
    /\ Fail(c)
    /\ UNCHANGED <<job, object, up, late, cancelled, errors>>

(* A status outside 2xx, or a missing ETag, is not retried.                *)
PartRefused(c) ==
    /\ Sending(c)
    /\ c \notin cancelled
    /\ errors < MaxErrors
    /\ errors' = errors + 1
    /\ Fail(c)
    /\ UNCHANGED <<job, object, up, late, cancelled>>

(* The bytes run out: whatever their number, the parts are completed.      *)
EndOfBody(c) ==
    /\ call[c].pc = "part"
    /\ Body(c) # <<>>
    /\ call[c].k > Len(Body(c))
    /\ Step(c, "complete")
    /\ UNCHANGED <<job, object, up, late, cancelled, errors>>

-------------------------------------------------------------------------------
(* The bucket assembles the parts listed, in the order of the list.        *)
Assembles(c) == up[c].st = "open" /\ call[c].etags = up[c].parts

Publish(c) == object' = call[c].etags /\ up' = [up EXCEPT ![c].st = "gone"]

Complete(c) ==
    /\ call[c].pc = "complete"
    /\ UNCHANGED <<job, cancelled>>
    /\ \/ /\ c \notin cancelled /\ Assembles(c)
          /\ Publish(c) /\ Step(c, "verify")
          /\ UNCHANGED <<late, errors>>
       \/ /\ c \notin cancelled /\ errors < MaxErrors    \* 200, and not done
          /\ Step(c, "verify")
          /\ errors' = errors + 1
          /\ UNCHANGED <<object, up, late>>
       \/ /\ Fault(c)                                     \* refused or unanswered
          /\ Fail(c)
          /\ \/ UNCHANGED <<object, up, late>>
             \/ c \notin cancelled /\ Assembles(c) /\ Publish(c) /\ UNCHANGED late
             \/ c \notin cancelled /\ late' = late \cup {c} /\ UNCHANGED <<object, up>>

(* Seeded fault: the abort's own failure is not reported.                  *)
AbortError_Dropped == "failed"

AbortError == "abort"

(* Both errors are joined when the abort fails as well.                    *)
Abort(c) ==
    /\ call[c].pc = "abort"
    /\ UNCHANGED <<job, object, late, cancelled>>
    /\ \/ /\ c \notin cancelled /\ up[c].st = "open"
          /\ up' = [up EXCEPT ![c].st = "gone"]
          /\ Answer(c, call[c].err)
          /\ UNCHANGED errors
       \/ /\ up[c].st = "gone" /\ Answer(c, AbortError) /\ UNCHANGED <<up, errors>>
       \/ /\ Fault(c)
          /\ Answer(c, AbortError)
          /\ \/ UNCHANGED up
             \/ c \notin cancelled /\ up' = [up EXCEPT ![c].st = "gone"]

(* Seeded fault: the identity is the size alone.                           *)
SameIdentity_SizeOnly(c) == Len(object) = Len(Want(c))

SameIdentity(c) == object # <<>> /\ object = Want(c)

Found(c, verdict) == call' = [call EXCEPT ![c].pc = "return", ![c].err = verdict]

(* Inspect reads the object back, whoever wrote it last; PutStream compares *)
(* its hash and size with what the caller announced.                       *)
Inspect(c) ==
    /\ call[c].pc = "verify"
    /\ \/ /\ c \notin cancelled
          /\ Found(c, IF SameIdentity(c) THEN "nil" ELSE "identity")
          /\ UNCHANGED errors
       \/ Fault(c) /\ Found(c, "identity")
    /\ UNCHANGED <<job, object, up, late, cancelled>>

(* By the time the caller has the answer, others may have written the key. *)
ReturnVerdict(c) ==
    /\ call[c].pc = "return"
    /\ Step(c, "done")
    /\ UNCHANGED <<job, object, up, late, cancelled, errors>>

-------------------------------------------------------------------------------
(* A publishing request takes effect after its call has given up on it.    *)
LateArrival(c) ==
    /\ c \in late
    /\ late' = late \ {c}
    /\ \/ Len(Want(c)) = 1 /\ object' = Body(c) /\ UNCHANGED up
       \/ Len(Want(c)) > 1 /\ Assembles(c) /\ Publish(c)
       \/ Len(Want(c)) > 1 /\ ~Assembles(c) /\ UNCHANGED <<object, up>>
    /\ UNCHANGED <<job, call, cancelled, errors>>

Cancel(c) ==
    /\ call[c].pc # "done"
    /\ c \notin cancelled
    /\ cancelled' = cancelled \cup {c}
    /\ UNCHANGED <<job, object, up, call, late, errors>>

Advance(c) ==
    \/ Put(c) \/ CreateUpload(c) \/ StopParts(c) \/ PartAccepted(c) \/ PartLost(c)
    \/ GiveUpWaiting(c) \/ PartRefused(c) \/ EndOfBody(c) \/ Complete(c) \/ Abort(c)
    \/ Inspect(c) \/ ReturnVerdict(c)

PutStreamNext == \E c \in Calls : Begin(c) \/ Advance(c) \/ LateArrival(c) \/ Cancel(c)

PutStreamSpec == PutStreamInit /\ [][PutStreamNext]_putStreamVars

(* Every request is answered or fails: the http.Client and its ctx see to  *)
(* that, PutStream sets no timeout of its own.                             *)
FairPutStreamSpec == PutStreamSpec /\ \A c \in Calls : WF_putStreamVars(Advance(c))

-------------------------------------------------------------------------------
PutStreamTypeOK ==
    /\ job \in [Calls -> Jobs]
    /\ object \in Seq(STRING)
    /\ up \in [Calls -> Upload]
    /\ call \in [Calls -> Call]
    /\ late \in SUBSET Calls
    /\ cancelled \in SUBSET Calls
    /\ errors \in Nat

(* The abstract object: what a call may still write, what it returned.     *)
MayStillWrite ==
    late \cup {c \in Calls : call[c].pc \in {"idle", "put", "create", "part", "complete"}}

Outcome(r) ==
    CASE r.pc = "return" /\ r.err = "nil" -> "seen"
      [] r.pc = "done" -> IF r.err = "nil" THEN "nil" ELSE "error"
      [] OTHER -> "none"

A == INSTANCE AtomicObject WITH
    pending <- MayStillWrite,
    answer <- [c \in Calls |-> Outcome(call[c])]

(* Whatever is lost, retried, cancelled or late, the bucket goes through   *)
(* the states of the abstract object: a body replaces the object whole and *)
(* at most once, a call returns nil only after it has found the announced  *)
(* bytes under the key, and from that look on nothing of its own can write *)
(* the key any more; others may, before it returns (PutStream,             *)
(* putMultipart).                                                          *)
ImplementsAtomicObject == A!Spec

(* The key never holds a torn object: whatever is lost, retried or races,  *)
(* it is the original or one body, whole and in order (uploadParts, the    *)
(* shared buffer and its retries).                                         *)
ObjectWhole == object \in {Original} \cup {Body(c) : c \in Calls}

(* The list a call will complete with is what the bucket has stored: a     *)
(* lost answer to a part never makes the completion fail                   *)
(* (uploadPartWithRetry).                                                  *)
ListedIsStored ==
    \A c \in Calls : up[c].st = "open" /\ call[c].pc = "complete" => Assembles(c)

(* An upload that a finished call leaves open shows in the error: either   *)
(* its creation or its abort failed.  Only a CompleteMultipartUpload that   *)
(* was answered 200 and did nothing leaves one silently, and then all its  *)
(* parts are there (putMultipart).                                         *)
OrphanIsReported ==
    \A c \in Calls : call[c].pc = "done" /\ up[c].st = "open" =>
        \/ call[c].err \in {"create", "abort"}
        \/ up[c].parts = Body(c)

(* Every call returns: the retries of a part are bounded                   *)
(* (uploadPartWithRetry).                                                  *)
CallReturns == \A c \in Calls : (call[c].pc # "idle") ~> (call[c].pc = "done")

(* A failed PutStream never leaves an orphaned incomplete upload           *)
(* (multipart.go, the comment on PutStream).                               *)
FailedLeavesNoUpload ==
    \A c \in Calls : call[c].pc = "done" /\ call[c].err # "nil" => up[c].st # "open"
===============================================================================
