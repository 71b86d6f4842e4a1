------------------------------- MODULE EmailSend -------------------------------
(***************************************************************************)
(* email/client.go and delivery.go: one message to a list of recipients,   *)
(* submitted by SendWithMessageID, and a caller that submits again only    *)
(* what the error proves was not accepted: the whole list when             *)
(* IsUnsubmitted holds, the Unaccepted of a RecipientError otherwise.      *)
(*                                                                         *)
(* The provider is external.  It takes a submission, for any part of the   *)
(* list, at any time after it was sent, even when nobody waits any more;   *)
(* only a 429 and a success:false of the application itself mean that it   *)
(* took nothing.  Left out: the text of the message and the wait a 429     *)
(* asks for.                                                               *)
(***************************************************************************)
EXTENDS Integers

CONSTANTS
    Recipients,
    MaxSends          \* bound of the model: submissions of the message

ASSUME SendAssumption == MaxSends \in Nat

VARIABLES
    to,               \* recipients still to be reached: the next list
    pc,               \* "idle", or "wait" inside SendWithMessageID
    sends,            \* submissions so far
    net,              \* submissions on their way, [n, to]
    reply,            \* the response to the last submission: see Response
    err,              \* what the last call returned: see Outcome
    books,            \* what the caller knows of each recipient
    inbox,            \* copies the provider has accepted for each recipient
    unlisted          \* recipients it accepted without saying so

provider == <<inbox, unlisted>>
vars == <<to, pc, sends, net, reply, err, books, provider>>

(* success "none" is a missing or null verdict, "unreadable" a body that   *)
(* is cut off or not JSON.  A result that is absent lists nobody.          *)
Response == [status : {"200", "other", "429", "5xx", "waiting"},
             success : {"true", "false", "none", "unreadable"},
             accepted : SUBSET Recipients,      \* delivered and queued
             bounced : SUBSET Recipients, suppressed : SUBSET Recipients]

Waiting == [status |-> "waiting", success |-> "none", accepted |-> {}, bounced |-> {},
            suppressed |-> {}]

Kinds == {"none", "nil", "unsubmitted", "recipients", "ambiguous"}

Init ==
    /\ to = Recipients
    /\ pc = "idle"
    /\ sends = 0
    /\ net = {}
    /\ reply = Waiting
    /\ err = "none"
    /\ books = [r \in Recipients |-> "open"]
    /\ inbox = [r \in Recipients |-> 0]
    /\ unlisted = {}

Return(kind, list) ==
    /\ pc' = "idle"
    /\ err' = kind
    /\ to' = list
    /\ reply' = Waiting

Note(set, what) == [r \in Recipients |-> IF r \in set THEN what ELSE books[r]]
-------------------------------------------------------------------------------
(* IsUnsubmitted, or the Unaccepted of a RecipientError.                   *)
MayRetry == err \in {"none", "unsubmitted", "recipients"}

Submit ==
    /\ pc = "idle"
    /\ MayRetry
    /\ to # {}
    /\ sends < MaxSends
    /\ sends' = sends + 1
    /\ net' = net \cup {[n |-> sends + 1, to |-> to]}
    /\ pc' = "wait"
    /\ UNCHANGED <<to, reply, err, books, provider>>

(* Seeded fault: any error of the transport counts as a failed dial.       *)
TransportVerdict_Unsubmitted == "unsubmitted"

(* Once bytes went out, an error proves nothing.                           *)
TransportVerdict == "ambiguous"

(* A dial or DNS failure: no byte was sent.                                *)
DialFails ==
    /\ pc = "wait"
    /\ reply = Waiting
    /\ \E q \in net : q.n = sends /\ net' = net \ {q}
    /\ Return("unsubmitted", to)
    /\ UNCHANGED <<sends, books, provider>>

(* A timeout or a broken connection, before or after the provider acts.    *)
TransportFails ==
    /\ pc = "wait"
    /\ Return(TransportVerdict, to)
    /\ books' = IF TransportVerdict = "ambiguous" THEN Note(to, "unknown") ELSE books
    /\ UNCHANGED <<sends, net, provider>>
-------------------------------------------------------------------------------
(* The provider takes the message for some of the list and answers.        *)
Took(q, some, listed) ==
    /\ inbox' = [r \in Recipients |-> IF r \in some THEN inbox[r] + 1 ELSE inbox[r]]
    /\ unlisted' = unlisted \cup (some \ listed)

Respond(q, status, success, accepted, bounced, suppressed) ==
    /\ net' = net \ {q}
    /\ reply' = IF pc = "wait" /\ q.n = sends
                THEN [status |-> status, success |-> success, accepted |-> accepted,
                      bounced |-> bounced, suppressed |-> suppressed]
                ELSE reply
    /\ UNCHANGED <<to, pc, sends, err, books>>

(* 429, or an explicit rejection by the application.                       *)
Reject(q) ==
    /\ \/ \E success \in {"false", "none", "unreadable"} : Respond(q, "429", success, {}, {}, {})
       \/ \E status \in {"200", "other"} : Respond(q, status, "false", {}, {}, {})
    /\ UNCHANGED provider

(* A response without proof: a gateway's, one without a verdict, one cut   *)
(* off, or a success under a status that is not documented.                *)
Blur(q) ==
    /\ \/ \E success \in {"true", "false", "none", "unreadable"} :
             Respond(q, "5xx", success, {}, {}, {})
       \/ \E status \in {"200", "other"}, success \in {"none", "unreadable"} :
             Respond(q, status, success, {}, {}, {})
       \/ Respond(q, "other", "true", q.to, {}, {})
    /\ \E some \in SUBSET q.to : Took(q, some, q.to)

(* 200 and success:true, with the result lists: nobody is listed as        *)
(* accepted who was not, but some may be on no list at all, or on several. *)
Accept(q) ==
    \E some, bounced, suppressed \in SUBSET q.to :
        \E listed \in SUBSET some :
            /\ Respond(q, "200", "true", listed, bounced, suppressed)
            /\ Took(q, some, listed \cup bounced \cup suppressed)
-------------------------------------------------------------------------------
(* verifyAllRecipientsAccepted.                                            *)
Bounced == to \cap reply.bounced
Suppressed == (to \cap reply.suppressed) \ Bounced

(* Seeded fault: whoever is on no list is taken for accepted.              *)
Unaccepted_Nobody == {}

(* Seeded fault: the suppressed are unaccepted as well.                    *)
Unaccepted_Suppressed == to \ (reply.bounced \cup reply.accepted)

Unaccepted == to \ (reply.bounced \cup reply.suppressed \cup reply.accepted)

(* Seeded fault: the body is read before the status is looked at.          *)
Gateway_BodyFirst == reply.status = "5xx" /\ reply.success # "false"

Gateway == reply.status = "5xx"

RateLimited == reply.status = "429"
Readable == reply.success # "unreadable"
Rejected == Readable /\ reply.success = "false"
Confirmed == reply.status = "200" /\ reply.success = "true"

(* The order of the checks in SendWithMessageID.                           *)
Verdict ==
    IF RateLimited THEN "unsubmitted"
    ELSE IF Gateway THEN "ambiguous"
    ELSE IF Rejected THEN "unsubmitted"
    ELSE IF ~Confirmed THEN "ambiguous"
    ELSE IF Bounced \cup Suppressed \cup Unaccepted = {} THEN "nil"
    ELSE "recipients"

Receive ==
    /\ pc = "wait"
    /\ reply # Waiting
    /\ Return(Verdict, IF Verdict \in {"nil", "recipients"} THEN Unaccepted ELSE to)
    /\ books' = IF Verdict = "ambiguous" THEN Note(to, "unknown")
                ELSE IF Verdict = "unsubmitted" THEN books
                ELSE [r \in Recipients |->
                        IF r \in Bounced THEN "bounced"
                        ELSE IF r \in Suppressed THEN "suppressed"
                        ELSE IF r \in to \ Unaccepted THEN "accepted"
                        ELSE books[r]]
    /\ UNCHANGED <<sends, net, provider>>
-------------------------------------------------------------------------------
Next ==
    \/ Submit \/ DialFails \/ TransportFails \/ Receive
    \/ \E q \in net : Reject(q) \/ Blur(q) \/ Accept(q)

Spec == Init /\ [][Next]_vars
-------------------------------------------------------------------------------
TypeOK ==
    /\ to \in SUBSET Recipients
    /\ pc \in {"idle", "wait"}
    /\ sends \in Nat
    /\ net \in SUBSET [n : Nat, to : SUBSET Recipients]
    /\ reply \in Response
    /\ err \in Kinds
    /\ books \in [Recipients -> {"open", "accepted", "bounced", "suppressed", "unknown"}]
    /\ inbox \in [Recipients -> Nat]
    /\ unlisted \in SUBSET Recipients

(* Nobody gets the message twice, unless the provider accepted it for them *)
(* and left them out of its result: no lost, late, garbled or mixed answer *)
(* makes a second submission look safe (IsUnsubmitted, RecipientError).    *)
NoSecondCopy == \A r \in Recipients : inbox[r] > 1 => r \in unlisted

(* Whoever the caller believes reached has been accepted by the provider,  *)
(* in this submission or an earlier one (verifyAllRecipientsAccepted).     *)
BelievedIsAccepted == \A r \in Recipients : books[r] = "accepted" => inbox[r] > 0

(* A recipient whose fate is still open is on the list of the next         *)
(* submission, and only then: none is dropped between two partial          *)
(* outcomes, and none whose fate is settled or in doubt is mailed again.   *)
OpenIsRetried ==
    pc = "idle" => \A r \in Recipients :
        books[r] = "open" <=> r \in to /\ err # "ambiguous"
================================================================================
