---------------------------- MODULE EmailSendProofs ----------------------------
(***************************************************************************)
(* For any set of recipients and any number of submissions.  At most one   *)
(* submission is ever on its way (OneInFlight): a caller that may submit   *)
(* again knows that the last one is over, and the response that told it so *)
(* says of each recipient on the list whether a copy may exist (Told).     *)
(***************************************************************************)
EXTENDS EmailSend, TLAPS

Pending == pc = "wait" /\ reply # Waiting

OneInFlight ==
    /\ net \subseteq {[n |-> sends, to |-> to]}
    /\ pc = "idle" => reply = Waiting /\ (MayRetry => net = {})
    /\ pc = "wait" => MayRetry /\ (reply = Waiting => net # {})
    /\ Pending => net = {} /\ reply.status # "waiting"
    /\ err = "nil" => to = {}

NoneYet(set) == \A r \in set : r \notin unlisted => inbox[r] = 0

Told ==
    /\ \A r \in Recipients : r \notin unlisted => inbox[r] <= 1
    /\ net # {} \/ (pc = "idle" /\ MayRetry) => NoneYet(to)
    /\ Pending /\ Verdict = "unsubmitted" => NoneYet(to)
    /\ Pending /\ Verdict = "recipients" => NoneYet(Unaccepted)

Accepted ==
    /\ Pending /\ Confirmed => \A r \in to \cap reply.accepted : inbox[r] > 0
    /\ BelievedIsAccepted

OpenOnList ==
    /\ pc = "wait" => \A r \in Recipients : books[r] = "open" <=> r \in to
    /\ OpenIsRetried

IInv == TypeOK /\ OneInFlight /\ Told /\ Accepted /\ OpenOnList
-------------------------------------------------------------------------------
LEMMA WaitingType == Waiting \in Response
  BY DEF Waiting, Response

LEMMA VerdictType == Verdict \in {"unsubmitted", "ambiguous", "nil", "recipients"}
  BY DEF Verdict

LEMMA VerdictMeans ==
    /\ Verdict \in {"nil", "recipients"} => Confirmed
    /\ Verdict = "nil" => Bounced \cup Suppressed \cup Unaccepted = {}
  BY DEF Verdict

LEMMA InitInv == Init => IInv
<1> SUFFICES ASSUME Init PROVE IInv
  OBVIOUS
<1>1. TypeOK
  BY WaitingType DEF Init, TypeOK, Kinds
<1>2. OneInFlight /\ Told /\ Accepted /\ OpenOnList
  BY DEF Init, OneInFlight, Told, Accepted, OpenOnList, Pending, NoneYet, BelievedIsAccepted,
         OpenIsRetried, MayRetry
<1> QED BY <1>1, <1>2 DEF IInv

LEMMA SubmitInv == IInv /\ Submit => IInv'
<1> SUFFICES ASSUME IInv, Submit PROVE IInv'
  OBVIOUS
<1> USE DEF IInv
<1>1. TypeOK'
  BY DEF TypeOK, Submit, provider
<1>2. net = {} /\ net' = {[n |-> sends', to |-> to']}
  BY DEF OneInFlight, Submit
<1>3. OneInFlight'
  BY <1>2 DEF OneInFlight, Submit, Pending, MayRetry
<1>4. Told'
  BY <1>2 DEF Told, OneInFlight, Submit, Pending, NoneYet, provider
<1>5. Accepted' /\ OpenOnList'
  BY DEF Accepted, OpenOnList, OneInFlight, Submit, Pending, BelievedIsAccepted, OpenIsRetried,
         MayRetry, provider
<1> QED BY <1>1, <1>3, <1>4, <1>5

LEMMA DialFailsInv == IInv /\ DialFails => IInv'
<1> SUFFICES ASSUME IInv, DialFails PROVE IInv'
  OBVIOUS
<1> USE DEF IInv
<1>1. TypeOK'
  BY WaitingType DEF TypeOK, DialFails, Return, Kinds, provider
<1>2. net # {} /\ net' = {}
  BY DEF OneInFlight, DialFails
<1>3. OneInFlight'
  BY <1>2 DEF OneInFlight, DialFails, Return, Pending
<1>4. Told'
  BY <1>2 DEF Told, DialFails, Return, Pending, NoneYet, provider
<1>5. Accepted' /\ OpenOnList'
  BY DEF Accepted, OpenOnList, DialFails, Return, Pending, BelievedIsAccepted, OpenIsRetried,
         provider
<1> QED BY <1>1, <1>3, <1>4, <1>5

LEMMA TransportFailsInv == IInv /\ TransportFails => IInv'
<1> SUFFICES ASSUME IInv, TransportFails PROVE IInv'
  OBVIOUS
<1> USE DEF IInv
<1>1. TypeOK'
  BY WaitingType DEF TypeOK, TransportFails, TransportVerdict, Note, Return, Kinds, provider
<1>2. pc' = "idle" /\ err' = "ambiguous" /\ ~MayRetry'
  BY DEF TransportFails, TransportVerdict, Return, MayRetry
<1>3. OneInFlight'
  BY <1>2 DEF OneInFlight, TransportFails, Return, Pending
<1>4. Told'
  BY <1>2 DEF Told, OneInFlight, TransportFails, Return, Pending, NoneYet, provider
<1>5. Accepted' /\ OpenOnList'
  BY <1>2 DEF Accepted, OpenOnList, TransportFails, TransportVerdict, Note, Return, Pending,
         BelievedIsAccepted, OpenIsRetried, provider, TypeOK
<1> QED BY <1>1, <1>3, <1>4, <1>5

(* The answer of the provider to the one submission on its way.            *)
LEMMA RespondInv ==
  ASSUME IInv, NEW q \in net, NEW status \in {"200", "other", "429", "5xx"},
         NEW success \in {"true", "false", "none", "unreadable"},
         NEW accepted \in SUBSET Recipients, NEW bounced \in SUBSET Recipients,
         NEW suppressed \in SUBSET Recipients,
         Respond(q, status, success, accepted, bounced, suppressed)
  PROVE  /\ q = [n |-> sends, to |-> to] /\ net' = {}
         /\ pc = "wait" => reply' = [status |-> status, success |-> success,
                accepted |-> accepted, bounced |-> bounced, suppressed |-> suppressed]
         /\ reply' \in Response
         /\ OneInFlight' /\ OpenOnList'
<1> USE DEF IInv
<1>1. q = [n |-> sends, to |-> to] /\ net' = {}
  BY DEF OneInFlight, Respond
<1>2. ASSUME pc = "wait"
      PROVE  reply' = [status |-> status, success |-> success,
                accepted |-> accepted, bounced |-> bounced, suppressed |-> suppressed]
  BY <1>1, <1>2 DEF Respond
<1>3. reply' \in Response
  <2>1. CASE pc = "wait"
    BY <1>2, <2>1 DEF Response
  <2>2. CASE pc # "wait"
    BY <2>2 DEF Respond, TypeOK
  <2> QED BY <2>1, <2>2
<1>4. OneInFlight'
  <2>1. CASE pc = "wait"
    <3>1. reply' # Waiting /\ reply'.status # "waiting"
      BY <1>2, <2>1 DEF Waiting
    <3> QED BY <1>1, <2>1, <3>1 DEF OneInFlight, Respond, Pending, MayRetry
  <2>2. CASE pc = "idle"
    BY <1>1, <2>2 DEF OneInFlight, Respond, Pending, MayRetry
  <2> QED BY <2>1, <2>2 DEF TypeOK
<1>5. OpenOnList'
  BY DEF OpenOnList, OpenIsRetried, Respond
<1> QED BY <1>1, <1>2, <1>3, <1>4, <1>5

LEMMA RejectInv == ASSUME IInv, NEW q \in net, Reject(q) PROVE IInv'
<1> USE DEF IInv
<1>1. PICK status \in {"200", "other", "429", "5xx"}, success \in {"true", "false", "none", "unreadable"} :
        /\ Respond(q, status, success, {}, {}, {})
        /\ status = "429" \/ (status # "5xx" /\ success = "false")
  BY DEF Reject
<1>2. {} \in SUBSET Recipients
  OBVIOUS
<1>3. /\ q = [n |-> sends, to |-> to] /\ net' = {}
      /\ pc = "wait" => reply' = [status |-> status, success |-> success,
            accepted |-> {}, bounced |-> {}, suppressed |-> {}]
      /\ reply' \in Response
      /\ OneInFlight' /\ OpenOnList'
  BY <1>1, <1>2, RespondInv
<1>4. UNCHANGED <<to, pc, sends, err, books, inbox, unlisted>>
  BY <1>1 DEF Reject, Respond, provider
<1>5. NoneYet(to)
  BY DEF Told
<1>6. pc = "wait" => Verdict' = "unsubmitted"
  <2> SUFFICES ASSUME pc = "wait" PROVE Verdict' = "unsubmitted"
    OBVIOUS
  <2>1. reply'.status = status /\ reply'.success = success
    BY <1>3
  <2> QED BY <1>1, <2>1 DEF Verdict, RateLimited, Gateway, Rejected, Readable
<1>7. TypeOK'
  BY <1>3, <1>4 DEF TypeOK
<1>8. Told'
  <2>1. NoneYet(to)'
    BY <1>4, <1>5 DEF NoneYet
  <2> QED BY <1>3, <1>4, <1>6, <2>1 DEF Told, Pending
<1>9. Accepted'
  <2>1. pc = "wait" => reply'.accepted = {}
    BY <1>3
  <2> QED BY <1>4, <2>1 DEF Accepted, Pending, BelievedIsAccepted
<1> QED BY <1>3, <1>7, <1>8, <1>9

(* A copy for each of some recipients, none of whom had one before.        *)
LEMMA TookInv ==
  ASSUME IInv, NEW q \in net, q = [n |-> sends, to |-> to], NEW some \in SUBSET q.to,
         NEW listed, Took(q, some, listed), UNCHANGED to
  PROVE  /\ inbox' \in [Recipients -> Nat] /\ unlisted' \in SUBSET Recipients
         /\ \A r \in Recipients : r \notin unlisted' => inbox'[r] <= 1
         /\ \A r \in Recipients : inbox'[r] >= inbox[r]
         /\ \A r \in some : inbox'[r] > 0
         /\ \A r \in to : r \notin unlisted' /\ r \notin (some \cap listed) => inbox'[r] = 0
<1> USE DEF IInv
<1>1. some \subseteq to /\ to \subseteq Recipients
  BY DEF TypeOK
<1>2. inbox \in [Recipients -> Nat]
  BY DEF TypeOK
<1>3. NoneYet(to) /\ \A r \in Recipients : r \notin unlisted => inbox[r] <= 1
  BY DEF Told
<1>4. inbox' = [r \in Recipients |-> IF r \in some THEN inbox[r] + 1 ELSE inbox[r]]
      /\ unlisted' = unlisted \cup (some \ listed)
  BY DEF Took
<1>5. inbox' \in [Recipients -> Nat] /\ unlisted' \in SUBSET Recipients
  BY <1>1, <1>2, <1>4 DEF TypeOK
<1>6. \A r \in Recipients : r \notin unlisted' => inbox'[r] <= 1
  BY <1>1, <1>2, <1>3, <1>4 DEF NoneYet
<1>7. \A r \in Recipients : inbox'[r] >= inbox[r]
  BY <1>2, <1>4
<1>8. \A r \in some : inbox'[r] > 0
  BY <1>1, <1>2, <1>4
<1>9. \A r \in to : r \notin unlisted' /\ r \notin (some \cap listed) => inbox'[r] = 0
  BY <1>1, <1>2, <1>3, <1>4 DEF NoneYet
<1> QED BY <1>5, <1>6, <1>7, <1>8, <1>9

LEMMA StillBelieved ==
  ASSUME TypeOK, BelievedIsAccepted, UNCHANGED books, inbox' \in [Recipients -> Nat],
         \A r \in Recipients : inbox'[r] >= inbox[r]
  PROVE  BelievedIsAccepted'
  BY DEF TypeOK, BelievedIsAccepted

LEMMA BlurInv == ASSUME IInv, NEW q \in net, Blur(q) PROVE IInv'
<1> USE DEF IInv
<1>1. PICK status \in {"200", "other", "429", "5xx"},
           success \in {"true", "false", "none", "unreadable"},
           accepted \in SUBSET Recipients :
        /\ Respond(q, status, success, accepted, {}, {})
        /\ status = "5xx" \/ (status # "429" /\ success \in {"none", "unreadable"})
                \/ (status = "other" /\ success = "true")
  <2>1. {} \in SUBSET Recipients /\ q.to \in SUBSET Recipients
    BY DEF TypeOK
  <2> QED BY <2>1 DEF Blur
<1>2. PICK some \in SUBSET q.to : Took(q, some, q.to)
  BY DEF Blur
<1>3. {} \in SUBSET Recipients
  OBVIOUS
<1>4. /\ q = [n |-> sends, to |-> to] /\ net' = {}
      /\ pc = "wait" => reply' = [status |-> status, success |-> success,
            accepted |-> accepted, bounced |-> {}, suppressed |-> {}]
      /\ reply' \in Response
      /\ OneInFlight' /\ OpenOnList'
  BY <1>1, <1>3, RespondInv
<1>5. UNCHANGED <<to, pc, sends, err, books>>
  BY <1>1 DEF Respond
<1>6. pc = "wait" => Verdict' = "ambiguous" /\ ~Confirmed'
  <2> SUFFICES ASSUME pc = "wait" PROVE Verdict' = "ambiguous" /\ ~Confirmed'
    OBVIOUS
  <2>1. reply'.status = status /\ reply'.success = success
    BY <1>4
  <2> QED BY <1>1, <2>1 DEF Verdict, RateLimited, Gateway, Rejected, Readable, Confirmed
<1>7. /\ inbox' \in [Recipients -> Nat] /\ unlisted' \in SUBSET Recipients
      /\ \A r \in Recipients : r \notin unlisted' => inbox'[r] <= 1
      /\ \A r \in Recipients : inbox'[r] >= inbox[r]
  BY <1>2, <1>4, <1>5, TookInv
<1>8. TypeOK'
  BY <1>4, <1>5, <1>7 DEF TypeOK
<1>9. Told'
  <2>1. ~(pc = "idle" /\ MayRetry)'
    BY <1>5 DEF OneInFlight, MayRetry
  <2> QED BY <1>4, <1>5, <1>6, <1>7, <2>1 DEF Told, Pending
<1>10. Accepted'
  BY <1>5, <1>6, <1>7, StillBelieved DEF Accepted, Pending
<1> QED BY <1>4, <1>8, <1>9, <1>10

LEMMA AcceptInv == ASSUME IInv, NEW q \in net, Accept(q) PROVE IInv'
<1> USE DEF IInv
<1>1. PICK some \in SUBSET q.to, bounced \in SUBSET q.to, suppressed \in SUBSET q.to,
           listed \in SUBSET q.to :
        /\ listed \subseteq some
        /\ Respond(q, "200", "true", listed, bounced, suppressed)
        /\ Took(q, some, listed \cup bounced \cup suppressed)
  BY DEF Accept
<1>2. q.to \subseteq Recipients
  BY DEF TypeOK
<1>3. /\ q = [n |-> sends, to |-> to] /\ net' = {}
      /\ pc = "wait" => reply' = [status |-> "200", success |-> "true",
            accepted |-> listed, bounced |-> bounced, suppressed |-> suppressed]
      /\ reply' \in Response
      /\ OneInFlight' /\ OpenOnList'
  BY <1>1, <1>2, RespondInv
<1>4. UNCHANGED <<to, pc, sends, err, books>>
  BY <1>1 DEF Respond
<1>5. /\ inbox' \in [Recipients -> Nat] /\ unlisted' \in SUBSET Recipients
      /\ \A r \in Recipients : r \notin unlisted' => inbox'[r] <= 1
      /\ \A r \in Recipients : inbox'[r] >= inbox[r]
      /\ \A r \in some : inbox'[r] > 0
      /\ \A r \in to : /\ r \notin unlisted'
                       /\ r \notin (some \cap (listed \cup bounced \cup suppressed))
                       => inbox'[r] = 0
  BY <1>1, <1>3, <1>4, TookInv
<1>6. TypeOK'
  BY <1>3, <1>4, <1>5 DEF TypeOK
<1>7. pc = "wait" => Verdict' \in {"nil", "recipients"}
                     /\ Unaccepted' = to \ (bounced \cup suppressed \cup listed)
                     /\ reply'.accepted = listed
  <2> SUFFICES ASSUME pc = "wait"
               PROVE  /\ Verdict' \in {"nil", "recipients"}
                      /\ Unaccepted' = to \ (bounced \cup suppressed \cup listed)
                      /\ reply'.accepted = listed
    OBVIOUS
  <2>1. reply'.status = "200" /\ reply'.success = "true" /\ reply'.accepted = listed
        /\ reply'.bounced = bounced /\ reply'.suppressed = suppressed
    BY <1>3
  <2>2. Verdict' \in {"nil", "recipients"}
    BY <2>1 DEF Verdict, RateLimited, Gateway, Rejected, Readable, Confirmed
  <2> QED BY <1>4, <2>1, <2>2 DEF Unaccepted
<1>8. Told'
  <2>1. ~(pc = "idle" /\ MayRetry)'
    BY <1>4 DEF OneInFlight, MayRetry
  <2>2. pc = "wait" => NoneYet(Unaccepted)'
    BY <1>5, <1>7 DEF NoneYet
  <2> QED BY <1>3, <1>4, <1>5, <1>7, <2>1, <2>2 DEF Told, Pending
<1>9. Accepted'
  BY <1>1, <1>4, <1>5, <1>7, StillBelieved DEF Accepted, Pending
<1> QED BY <1>3, <1>6, <1>8, <1>9

LEMMA ReceiveInv == IInv /\ Receive => IInv'
<1> SUFFICES ASSUME IInv, Receive PROVE IInv'
  OBVIOUS
<1> USE DEF IInv
<1>1. Pending /\ net = {} /\ net' = {} /\ pc' = "idle" /\ reply' = Waiting /\ err' = Verdict
      /\ UNCHANGED <<sends, inbox, unlisted>>
  BY DEF Receive, Pending, OneInFlight, Return, provider
<1>2. to' = IF Verdict \in {"nil", "recipients"} THEN Unaccepted ELSE to
  BY DEF Receive, Return
<1>3. to' \subseteq to
  BY <1>2 DEF Unaccepted
<1>4. TypeOK'
  <2>1. books' \in [Recipients -> {"open", "accepted", "bounced", "suppressed", "unknown"}]
    BY DEF Receive, TypeOK, Note
  <2> QED BY <1>1, <1>3, <2>1, WaitingType, VerdictType DEF TypeOK, Kinds
<1>5. OneInFlight'
  BY <1>1, <1>2, VerdictMeans DEF OneInFlight, Pending
<1>6. Told'
  <2>1. MayRetry' => NoneYet(to')
    <3> SUFFICES ASSUME MayRetry' PROVE NoneYet(to')
      OBVIOUS
    <3>1. CASE Verdict = "unsubmitted"
      <4>1. to' = to
        BY <1>2, <3>1
      <4> QED BY <1>1, <3>1, <4>1 DEF Told
    <3>2. CASE Verdict = "recipients"
      <4>1. to' = Unaccepted
        BY <1>2, <3>2
      <4> QED BY <1>1, <3>2, <4>1 DEF Told
    <3> QED BY <1>1, <3>1, <3>2, VerdictType DEF MayRetry, Kinds
  <2>2. MayRetry' => NoneYet(to)'
    BY <1>1, <2>1 DEF NoneYet
  <2> QED BY <1>1, <2>2 DEF Told, Pending
<1>7. Accepted'
  <2>1. ASSUME NEW r \in Recipients, books'[r] = "accepted" PROVE inbox[r] > 0
    <3>1. CASE Verdict \in {"nil", "recipients"}
      <4>1. Confirmed
        BY <3>1, VerdictMeans
      <4>2. books[r] = "accepted" \/ r \in to \cap reply.accepted
        BY <2>1, <3>1 DEF Receive, Unaccepted, Bounced, Suppressed
      <4> QED BY <1>1, <4>1, <4>2 DEF Accepted, BelievedIsAccepted
    <3>2. CASE Verdict \in {"ambiguous", "unsubmitted"}
      <4>1. books[r] = "accepted"
        BY <2>1, <3>2 DEF Receive, Note, TypeOK
      <4> QED BY <4>1 DEF Accepted, BelievedIsAccepted
    <3> QED BY <3>1, <3>2, VerdictType
  <2> QED BY <1>1, <2>1 DEF Accepted, BelievedIsAccepted, Pending
<1>8. OpenOnList'
  <2>1. ASSUME NEW r \in Recipients
        PROVE  books'[r] = "open" <=> r \in to' /\ err' # "ambiguous"
    <3>1. books[r] = "open" <=> r \in to
      BY <1>1 DEF OpenOnList, Pending
    <3>2. CASE Verdict \in {"nil", "recipients"}
      BY <1>1, <1>2, <3>1, <3>2 DEF Receive, Unaccepted, Bounced, Suppressed
    <3>3. CASE Verdict = "ambiguous"
      BY <1>1, <1>2, <3>1, <3>3 DEF Receive, Note, TypeOK
    <3>4. CASE Verdict = "unsubmitted"
      BY <1>1, <1>2, <3>1, <3>4 DEF Receive
    <3> QED BY <3>2, <3>3, <3>4, VerdictType
  <2> QED BY <1>1, <2>1 DEF OpenOnList, OpenIsRetried
<1> QED BY <1>4, <1>5, <1>6, <1>7, <1>8
-------------------------------------------------------------------------------
LEMMA Inductive == IInv /\ [Next]_vars => IInv'
<1> SUFFICES ASSUME IInv, [Next]_vars PROVE IInv'
  OBVIOUS
<1>1. CASE UNCHANGED vars
  BY <1>1 DEF IInv, vars, provider, TypeOK, OneInFlight, Told, Accepted, OpenOnList, Pending,
       MayRetry, NoneYet, Verdict, RateLimited, Gateway, Rejected, Readable, Confirmed, Bounced,
       Suppressed, Unaccepted, BelievedIsAccepted, OpenIsRetried
<1>2. CASE Next
  BY <1>2, SubmitInv, DialFailsInv, TransportFailsInv, ReceiveInv, RejectInv, BlurInv, AcceptInv
     DEF Next
<1> QED BY <1>1, <1>2

LEMMA Invariance == Spec => []IInv
<1> QED BY InitInv, Inductive, PTL DEF Spec

(* Types are right in every reachable state.                               *)
THEOREM TypeCorrect == Spec => []TypeOK
<1>1. IInv => TypeOK
  BY DEF IInv
<1> QED BY <1>1, Invariance, PTL

(* No recipient gets a second copy unless the provider took the first one  *)
(* without listing it (SendWithMessageID with IsUnsubmitted and            *)
(* RecipientError.Unaccepted).                                             *)
THEOREM NoSecondCopyCorrect == Spec => []NoSecondCopy
<1>1. IInv => NoSecondCopy
  BY DEF IInv, Told, TypeOK, NoSecondCopy
<1> QED BY <1>1, Invariance, PTL

(* The caller counts nobody as reached whom the provider did not accept    *)
(* (verifyAllRecipientsAccepted).                                          *)
THEOREM BelievedCorrect == Spec => []BelievedIsAccepted
<1>1. IInv => BelievedIsAccepted
  BY DEF IInv, Accepted
<1> QED BY <1>1, Invariance, PTL

(* The next list is exactly the recipients whose fate is open (Unaccepted, *)
(* IsUnsubmitted).                                                         *)
THEOREM OpenCorrect == Spec => []OpenIsRetried
<1>1. IInv => OpenIsRetried
  BY DEF IInv, OpenOnList
<1> QED BY <1>1, Invariance, PTL
================================================================================
