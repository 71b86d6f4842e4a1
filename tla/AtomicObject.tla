----------------------------- MODULE AtomicObject ------------------------------
(***************************************************************************)
(* What Client.PutStream of s3/multipart.go promises of a key, without     *)
(* requests, parts or uploads: the body of a call replaces the object as a *)
(* whole, at most once; a call that returns nil has seen the announced     *)
(* bytes under the key, with nothing of its own under way any more.        *)
(***************************************************************************)
CONSTANTS Calls, Jobs, Original

VARIABLES
    job,        \* what each call is asked to store
    object,     \* what the key holds
    pending,    \* calls whose body may still reach the key
    answer      \* what each call has returned, "nil" or "error"; before that
                \* "none", or "seen" once it has seen its announced bytes

objectVars == <<job, object, pending, answer>>

Init ==
    /\ job \in [Calls -> Jobs]
    /\ object = Original
    /\ pending = Calls
    /\ answer = [c \in Calls |-> "none"]

(* An error says nothing of the object: the body may arrive with it, may   *)
(* have arrived before it, or may arrive later.                            *)
MayFail(c) ==
    \/ UNCHANGED answer
    \/ answer[c] = "none" /\ answer' = [answer EXCEPT ![c] = "error"]

Replace(c) ==
    /\ c \in pending
    /\ object' = job[c].body
    /\ pending' = pending \ {c}
    /\ MayFail(c)
    /\ UNCHANGED job

GiveUp(c) ==
    /\ pending' \in {pending, pending \ {c}}
    /\ MayFail(c)
    /\ UNCHANGED <<job, object>>

See(c) ==
    /\ answer[c] = "none"
    /\ c \notin pending
    /\ object = job[c].want
    /\ answer' = [answer EXCEPT ![c] = "seen"]
    /\ UNCHANGED <<job, object, pending>>

Confirm(c) ==
    /\ answer[c] = "seen"
    /\ answer' = [answer EXCEPT ![c] = "nil"]
    /\ UNCHANGED <<job, object, pending>>

Next == \E c \in Calls : Replace(c) \/ GiveUp(c) \/ See(c) \/ Confirm(c)

Spec == Init /\ [][Next]_objectVars
================================================================================
