--------------------------- MODULE GithubMintProofs ---------------------------
(***************************************************************************)
(* Type correctness, the call budget, the dedupe window, the order of the  *)
(* cached tokens and the spending below the rate-limit floor of            *)
(* GithubMint, for every finite set of callers, every set of keys and      *)
(* every configuration.                                                    *)
(*                                                                         *)
(* Spacing is not inductive: what a new attempt is compared with is the    *)
(* dedupe entry, not the attempts.  The strengthening says that the entry  *)
(* covers every attempt that has not failed (Covered), that each entry has *)
(* such an owner, and that calls in progress hold distinct open attempts.  *)
(* Nor is the overshoot: what may still be spent depends on how many       *)
(* callers hold a header that opens the floor again (SpendInv).            *)
(***************************************************************************)
EXTENDS GithubMint, SequenceTheorems, FiniteSetTheorems, TLAPS

USE DEF None, Time

(* New never yields a negative budget or a negative window.                *)
LEMMA ConfigTypes == CallBudget \in Nat /\ DedupeWindow \in Nat /\ RateLimitFloor \in Nat
  BY ConfigAssumption DEF CallBudget, DedupeWindow, RateLimitFloor

-------------------------------------------------------------------------------
LEMMA IdleType == NoReply \in Reply /\ Idle \in Call
  BY DEF Reply, NoReply, Call, Idle

LEMMA InitType == Init => TypeOK
  <1> SUFFICES ASSUME Init PROVE TypeOK
    OBVIOUS
  <1>1. call \in [Callers -> Call]
    BY IdleType DEF Init
  <1>2. attempts \in Seq(Attempt)
    BY DEF Init
  <1>3. remaining \in 0..Quota
    BY TimeAssumption DEF Init
  <1>4. dedupe \in [Keys -> Time \cup {None}] /\ tokens \in [Keys -> Time \cup {None}]
    BY DEF Init
  <1> QED
    BY <1>1, <1>2, <1>3, <1>4 DEF Init, TypeOK

(* A call stays well-typed when only its status and reply change.          *)
LEMMA CallUpdate ==
  ASSUME NEW r \in Call, NEW pc \in {"idle", "armed", "replied", "recorded"},
         NEW reply \in Reply
  PROVE  [r EXCEPT !.pc = pc, !.reply = reply] \in Call /\ [r EXCEPT !.pc = pc] \in Call
  BY DEF Call

(* The log of attempts keeps its length, and every field but the status.   *)
LEMMA EndedFacts ==
  ASSUME TypeOK, NEW n, NEW status \in {"open", "failed", "stored", "late"}
  PROVE  /\ Ended(n, status) \in Seq(Attempt)
         /\ Len(Ended(n, status)) = Len(attempts)
         /\ \A i \in 1..Len(attempts) :
               /\ Ended(n, status)[i].key = attempts[i].key
               /\ Ended(n, status)[i].at = attempts[i].at
               /\ i # n => Ended(n, status)[i].status = attempts[i].status
               /\ i = n => Ended(n, status)[i].status = status
  <1> DEFINE t == Ended(n, status)
  <1>1. attempts \in Seq(Attempt)
    BY DEF TypeOK
  <1>2. DOMAIN t = 1..Len(attempts)
    BY <1>1 DEF Ended
  <1>3. ASSUME NEW i \in 1..Len(attempts)
        PROVE  /\ t[i] \in Attempt
               /\ t[i].key = attempts[i].key /\ t[i].at = attempts[i].at
               /\ i # n => t[i].status = attempts[i].status
               /\ i = n => t[i].status = status
    <2>1. attempts[i] \in Attempt
      BY <1>1
    <2>2. t[i] = IF i = n THEN [attempts[i] EXCEPT !.status = status] ELSE attempts[i]
      BY <1>1 DEF Ended
    <2> QED
      BY <2>1, <2>2 DEF Attempt
  <1>4. t = [i \in 1..Len(attempts) |-> t[i]]
    BY <1>1, <1>2 DEF Ended
  <1> HIDE DEF t
  <1>5. t \in [1..Len(attempts) -> Attempt]
    BY <1>3, <1>4
  <1>6. t \in Seq(Attempt)
    BY <1>5, <1>1, SeqDef
  <1>7. Len(t) = Len(attempts)
    BY <1>1, <1>2, <1>6
  <1> QED
    BY <1>3, <1>6, <1>7 DEF t

LEMMA NextType == TypeOK /\ [Next]_vars => TypeOK'
  <1> SUFFICES ASSUME TypeOK, [Next]_vars PROVE TypeOK'
    OBVIOUS
  <1> USE DEF TypeOK, client, github
  <1>1. CASE UNCHANGED vars
    BY <1>1 DEF vars
  <1>2. ASSUME NEW c \in Callers, RefuseInvalid(c) PROVE TypeOK'
    BY <1>2 DEF RefuseInvalid, vars
  <1>3. ASSUME NEW c \in Callers, NEW k \in Keys, ServeCached(c, k) \/ Refuse(c, k)
        PROVE TypeOK'
    BY <1>3 DEF ServeCached, Refuse, vars
  <1>4. ASSUME NEW c \in Callers, NEW k \in Keys, Arm(c, k) PROVE TypeOK'
    <2>1. [key |-> k, at |-> now, status |-> "open"] \in Attempt
      BY DEF Attempt
    <2>2. [pc |-> "armed", key |-> k, armedAt |-> now, n |-> Len(attempts) + 1,
           reply |-> NoReply] \in Call
      BY IdleType DEF Call
    <2>3. call' \in [Callers -> Call]
      BY <1>4, <2>2 DEF Arm
    <2>4. attempts' \in Seq(Attempt)
      BY <1>4, <2>1 DEF Arm
    <2> QED
      BY <1>4, <2>3, <2>4 DEF Arm, ArmedEntry
  <1>5. ASSUME NEW c \in Callers, GithubServe(c) PROVE TypeOK'
    <2>1. PICK minted \in BOOLEAN, header \in {remaining - 1, None} :
            /\ call' = [call EXCEPT ![c].pc = "replied",
                   ![c].reply = [minted |-> minted, remaining |-> header,
                                 expires |-> IF minted THEN now + TokenLife ELSE None]]
            /\ blind' = IF header = None THEN blind + 1 ELSE blind
      BY <1>5 DEF GithubServe
    <2>2. remaining - 1 \in 0..Quota
      BY <1>5, TimeAssumption DEF GithubServe
    <2>3. [minted |-> minted, remaining |-> header,
           expires |-> IF minted THEN now + TokenLife ELSE None] \in Reply
      BY <2>2, TimeAssumption DEF Reply
    <2>4. call' \in [Callers -> Call]
      BY <2>1, <2>3, CallUpdate
    <2> QED
      BY <1>5, <2>1, <2>2, <2>4 DEF GithubServe
  <1>6. ASSUME NEW c \in Callers, GithubLimit(c) PROVE TypeOK'
    <2>1. [minted |-> FALSE, remaining |-> 0, expires |-> None] \in Reply
      BY DEF Reply
    <2>2. call' \in [Callers -> Call]
      BY <1>6, <2>1, CallUpdate DEF GithubLimit
    <2> QED
      BY <1>6, <2>2 DEF GithubLimit
  <1>7. ASSUME NEW c \in Callers, TransportFail(c) PROVE TypeOK'
    <2>1. call' \in [Callers -> Call]
      BY <1>7, IdleType, CallUpdate DEF TransportFail
    <2> QED
      BY <1>7, <2>1, TimeAssumption DEF TransportFail
  <1>8. ASSUME NEW c \in Callers, RecordRateLimit(c) PROVE TypeOK'
    <2>1. call' \in [Callers -> Call]
      BY <1>8, IdleType, CallUpdate DEF RecordRateLimit
    <2>2. call[c].reply.remaining \in Nat \cup {None}
      BY DEF Call, Reply
    <2> QED
      BY <1>8, <2>1, <2>2 DEF RecordRateLimit, HasHeader
  <1>9. ASSUME NEW c \in Callers, Fail(c) PROVE TypeOK'
    <2>1. call' \in [Callers -> Call]
      BY <1>9, IdleType DEF Fail
    <2>2. attempts' \in Seq(Attempt)
      BY <1>9, EndedFacts DEF Fail
    <2>3. dedupe' \in [Keys -> Time \cup {None}]
      BY <1>9 DEF Fail, ClearedEntry
    <2> QED
      BY <1>9, <2>1, <2>2, <2>3 DEF Fail
  <1>10. ASSUME NEW c \in Callers, StoreToken(c) PROVE TypeOK'
    <2>1. call' \in [Callers -> Call]
      BY <1>10, IdleType DEF StoreToken
    <2>2. attempts' \in Seq(Attempt)
      BY <1>10, EndedFacts DEF StoreToken
    <2>3. tokens' \in [Keys -> Time \cup {None}]
      BY <1>10 DEF StoreToken, Call, Reply
    <2> QED
      BY <1>10, <2>1, <2>2, <2>3 DEF StoreToken
  <1>11. CASE Tick
    BY <1>11 DEF Tick
  <1>12. CASE RateReset
    BY <1>12, TimeAssumption DEF RateReset
  <1> QED
    BY <1>1, <1>2, <1>3, <1>4, <1>5, <1>6, <1>7, <1>8, <1>9, <1>10, <1>11, <1>12
       DEF Next, Mint, Exchange, Proceed

(* Every variable keeps its type, whatever interleaves.                    *)
THEOREM TypeCorrect == Spec => []TypeOK
  BY InitType, NextType, PTL DEF Spec

-------------------------------------------------------------------------------
(* The attempts are logged in the order of the clock.                      *)
Chronological ==
    /\ \A i \in 1..Len(attempts) : attempts[i].at <= now
    /\ \A i, j \in 1..Len(attempts) : i < j => attempts[i].at <= attempts[j].at

(* A mint in progress holds an open attempt of its own.                    *)
Holds(c) ==
    /\ call[c].n \in 1..Len(attempts)
    /\ call[c].key = attempts[call[c].n].key
    /\ call[c].armedAt = attempts[call[c].n].at
    /\ Live(call[c].n)

OwnAttempt ==
    /\ \A c \in Callers : call[c].pc # "idle" => Holds(c)
    /\ \A c, d \in Callers :
          c # d /\ call[c].pc # "idle" /\ call[d].pc # "idle" => call[c].n # call[d].n

(* What has not failed is either covered by its key's entry or too old to  *)
(* refuse anything.                                                        *)
Covered ==
    \A i \in 1..Len(attempts) : Live(i) =>
        \/ dedupe[attempts[i].key] # None /\ dedupe[attempts[i].key] >= attempts[i].at
        \/ now - attempts[i].at >= DedupeWindow

DedupeInv ==
    /\ Len(attempts) = callsMade
    /\ callsMade <= CallBudget
    /\ Chronological
    /\ OwnAttempt
    /\ Covered
    /\ DedupeSpacing
    /\ FailureNeverPoisons

LEMMA InitDedupe == Init => DedupeInv
  <1> SUFFICES ASSUME Init PROVE DedupeInv
    OBVIOUS
  <1>1. Len(attempts) = 0 /\ callsMade = 0 /\ \A c \in Callers : call[c].pc = "idle"
    BY DEF Init, Idle
  <1>2. \A k \in Keys : dedupe[k] = None
    BY DEF Init
  <1> QED
    BY <1>1, <1>2, ConfigTypes
       DEF DedupeInv, Chronological, OwnAttempt, Covered, DedupeSpacing, FailureNeverPoisons

LEMMA AttemptType ==
  ASSUME TypeOK, NEW i \in 1..Len(attempts)
  PROVE  attempts[i].at \in Nat /\ attempts[i].key \in Keys
  <1>1. attempts[i] \in Attempt
    BY DEF TypeOK
  <1> QED
    BY <1>1 DEF Attempt

(* A step of the exchange touches nothing the invariant speaks of.         *)
LEMMA ExchangeKeeps ==
  ASSUME TypeOK, DedupeInv, UNCHANGED <<now, callsMade, dedupe, attempts>>,
         \A c \in Callers : /\ call'[c].pc # "idle" => call[c].pc # "idle"
                            /\ call'[c].n = call[c].n
                            /\ call'[c].key = call[c].key
                            /\ call'[c].armedAt = call[c].armedAt
  PROVE  DedupeInv'
  <1>1. \A i : Live(i)' <=> Live(i)
    BY DEF Live
  <1>2. \A c \in Callers : Holds(c)' <=> Holds(c)
    BY <1>1 DEF Holds
  <1>3. OwnAttempt'
    BY <1>2 DEF DedupeInv, OwnAttempt
  <1>4. Chronological'
    BY DEF DedupeInv, Chronological
  <1>5. Covered'
    BY <1>1 DEF DedupeInv, Covered
  <1>6. DedupeSpacing'
    BY <1>1 DEF DedupeInv, DedupeSpacing
  <1>7. FailureNeverPoisons'
    BY <1>1 DEF DedupeInv, FailureNeverPoisons
  <1> QED
    BY <1>3, <1>4, <1>5, <1>6, <1>7 DEF DedupeInv

(* Arming compares the clock with the entry, and the entry covers what is  *)
(* live: the new attempt is a window away from every live one of its key.  *)
LEMMA ArmKeeps ==
  ASSUME TypeOK, DedupeInv, NEW c \in Callers, NEW k \in Keys, Arm(c, k)
  PROVE  DedupeInv'
  <1> DEFINE n == Len(attempts) + 1
  <1>1. attempts \in Seq(Attempt) /\ Len(attempts) \in Nat /\ now \in Nat
    BY DEF TypeOK
  <1>2. /\ Len(attempts') = n
        /\ attempts'[n] = [key |-> k, at |-> now, status |-> "open"]
        /\ \A i \in 1..Len(attempts) : attempts'[i] = attempts[i]
        /\ now' = now
    BY <1>1 DEF Arm
  <1>3. \A i \in 1..Len(attempts) : attempts[i].at \in Nat /\ attempts[i].key \in Keys
    BY AttemptType
  <1>4. dedupe' = [dedupe EXCEPT ![k] = now] /\ dedupe \in [Keys -> Nat \cup {-1}]
    BY DEF Arm, ArmedEntry, TypeOK
  <1>5. Len(attempts') = callsMade' /\ callsMade' <= CallBudget
    BY <1>1, <1>2, ConfigTypes DEF Arm, DedupeInv, BudgetSpent, TypeOK
  <1>6. Chronological'
    BY <1>1, <1>2, <1>3 DEF DedupeInv, Chronological
  <1>7. OwnAttempt'
    <2>1. call \in [Callers -> Call] /\ call[c].pc = "idle"
      BY DEF TypeOK, Arm
    <2>2. /\ call'[c].n = n /\ call'[c].key = k /\ call'[c].armedAt = now
          /\ \A d \in Callers \ {c} : call'[d] = call[d]
      BY <2>1 DEF Arm
    <2>3. \A d \in Callers \ {c} : call[d].pc # "idle" => call[d].n \in 1..Len(attempts)
      BY DEF DedupeInv, OwnAttempt, Holds
    <2>4. Holds(c)'
      BY <1>1, <1>2, <2>2 DEF Holds, Live
    <2>5. ASSUME NEW d \in Callers \ {c}, call'[d].pc # "idle" PROVE Holds(d)'
      <3>1. Holds(d)
        BY <2>2, <2>5 DEF DedupeInv, OwnAttempt
      <3>2. attempts'[call[d].n] = attempts[call[d].n] /\ call'[d] = call[d]
        BY <1>2, <2>2, <3>1 DEF Holds
      <3> QED
        BY <1>1, <1>2, <3>1, <3>2 DEF Holds, Live
    <2>6. ASSUME NEW d \in Callers, NEW e \in Callers, d # e,
                 call'[d].pc # "idle", call'[e].pc # "idle"
          PROVE  call'[d].n # call'[e].n
      BY <1>1, <2>2, <2>3, <2>6 DEF DedupeInv, OwnAttempt
    <2> QED
      BY <2>4, <2>5, <2>6 DEF OwnAttempt
  <1>8. ASSUME NEW i \in 1..Len(attempts), Live(i), attempts[i].key = k
        PROVE  now - attempts[i].at >= DedupeWindow
    <2>1. ~Duplicate(k)
      BY DEF Arm
    <2>2. attempts[i].at <= now
      BY DEF DedupeInv, Chronological
    <2>3. dedupe[k] \in Nat \cup {-1}
      BY <1>4
    <2> QED
      BY <1>1, <1>3, <1>8, <2>1, <2>2, <2>3, ConfigTypes DEF DedupeInv, Covered, Duplicate
  <1>9. Covered'
    <2>1. ASSUME NEW i \in 1..n, Live(i)'
          PROVE  \/ dedupe'[attempts'[i].key] # None /\ dedupe'[attempts'[i].key] >= attempts'[i].at
                 \/ now - attempts'[i].at >= DedupeWindow
      <3>1. CASE i = n
        BY <1>1, <1>2, <1>4, <3>1
      <3>2. CASE i # n
        <4>1. i \in 1..Len(attempts) /\ attempts'[i] = attempts[i] /\ Live(i)
          BY <1>1, <1>2, <2>1, <3>2 DEF Live
        <4>2. CASE attempts[i].key = k
          BY <1>4, <1>1, <4>1, <4>2, <1>3 DEF DedupeInv, Chronological
        <4>3. CASE attempts[i].key # k
          BY <1>4, <4>1, <4>3, <1>3 DEF DedupeInv, Covered
        <4> QED
          BY <4>2, <4>3
      <3> QED
        BY <3>1, <3>2
    <2> QED
      BY <1>2, <2>1 DEF Covered
  <1>10. DedupeSpacing'
    <2>1. ASSUME NEW i \in 1..n, NEW j \in 1..n, i < j, attempts'[i].key = attempts'[j].key,
                 Live(i)', Live(j)'
          PROVE  attempts'[j].at - attempts'[i].at >= DedupeWindow
      <3>1. i \in 1..Len(attempts) /\ attempts'[i] = attempts[i] /\ Live(i)
        BY <1>1, <1>2, <2>1 DEF Live
      <3>2. CASE j = n
        BY <1>2, <1>8, <2>1, <3>1, <3>2
      <3>3. CASE j # n
        <4>1. j \in 1..Len(attempts) /\ attempts'[j] = attempts[j] /\ Live(j)
          BY <1>1, <1>2, <2>1, <3>3 DEF Live
        <4> QED
          BY <2>1, <3>1, <4>1 DEF DedupeInv, DedupeSpacing
      <3> QED
        BY <3>2, <3>3
    <2> QED
      BY <1>2, <2>1 DEF DedupeSpacing
  <1>11. FailureNeverPoisons'
    <2>1. ASSUME DedupeWindow > 0, NEW l \in Keys, dedupe'[l] # None
          PROVE  \E i \in 1..n : /\ attempts'[i].key = l /\ attempts'[i].at = dedupe'[l]
                                 /\ Live(i)'
      <3>1. CASE l = k
        BY <1>1, <1>2, <1>4, <3>1 DEF Live
      <3>2. CASE l # k
        <4>1. PICK i \in 1..Len(attempts) :
                attempts[i].key = l /\ attempts[i].at = dedupe[l] /\ Live(i)
          BY <1>4, <2>1, <3>2 DEF DedupeInv, FailureNeverPoisons
        <4>2. i \in 1..n /\ attempts'[i] = attempts[i] /\ dedupe'[l] = dedupe[l]
          BY <1>1, <1>2, <1>4, <3>2
        <4> QED
          BY <4>1, <4>2 DEF Live
      <3> QED
        BY <3>1, <3>2
    <2> QED
      BY <1>2, <2>1 DEF FailureNeverPoisons
  <1> QED
    BY <1>5, <1>6, <1>7, <1>9, <1>10, <1>11 DEF DedupeInv

(* The end of a call: its attempt takes its last status and the call goes  *)
(* idle; the other calls keep theirs.                                      *)
LEMMA EndKeepsOwnAttempt ==
  ASSUME TypeOK, DedupeInv, NEW c \in Callers, call[c].pc # "idle", UNCHANGED now,
         NEW status \in {"failed", "stored", "late"},
         attempts' = Ended(call[c].n, status), call' = [call EXCEPT ![c] = Idle]
  PROVE  /\ Len(attempts') = Len(attempts)
         /\ Chronological'
         /\ OwnAttempt'
         /\ \A i \in 1..Len(attempts) :
               /\ attempts'[i].key = attempts[i].key /\ attempts'[i].at = attempts[i].at
               /\ Live(i)' => Live(i)
               /\ i # call[c].n => (Live(i)' <=> Live(i))
         /\ attempts'[call[c].n].status = status
  <1>1. Holds(c)
    BY DEF DedupeInv, OwnAttempt
  <1>2. /\ Len(attempts') = Len(attempts)
        /\ \A i \in 1..Len(attempts) :
              /\ attempts'[i].key = attempts[i].key /\ attempts'[i].at = attempts[i].at
              /\ i # call[c].n => attempts'[i].status = attempts[i].status
    BY EndedFacts
  <1>3. \A i \in 1..Len(attempts) : /\ Live(i)' => Live(i)
                                    /\ i # call[c].n => (Live(i)' <=> Live(i))
    BY <1>1, <1>2 DEF Live, Holds
  <1>4. Chronological'
    BY <1>2 DEF DedupeInv, Chronological
  <1>5. call \in [Callers -> Call]
    BY DEF TypeOK
  <1>6. call'[c].pc = "idle" /\ \A d \in Callers \ {c} : call'[d] = call[d]
    BY <1>5 DEF Idle
  <1>7. ASSUME NEW d \in Callers, call'[d].pc # "idle" PROVE Holds(d)'
    <2>1. d # c /\ call'[d] = call[d] /\ Holds(d) /\ call[d].n # call[c].n
      BY <1>6, <1>7 DEF DedupeInv, OwnAttempt
    <2> QED
      BY <1>2, <1>3, <2>1 DEF Holds
  <1>8. OwnAttempt'
    BY <1>6, <1>7 DEF DedupeInv, OwnAttempt
  <1>9. attempts'[call[c].n].status = status
    <2>1. call[c].n \in 1..Len(attempts)
      BY <1>1 DEF Holds
    <2> QED
      BY <2>1, EndedFacts
  <1> QED
    BY <1>2, <1>3, <1>4, <1>8, <1>9

(* Storing a token leaves the entry in place: only the log changes.        *)
LEMMA StoreKeeps ==
  ASSUME TypeOK, DedupeInv, NEW c \in Callers, StoreToken(c)
  PROVE  DedupeInv'
  <1> DEFINE status == IF now - call[c].armedAt < DedupeWindow THEN "stored" ELSE "late"
  <1>1. /\ Len(attempts') = Len(attempts)
        /\ Chronological'
        /\ OwnAttempt'
        /\ \A i \in 1..Len(attempts) :
              /\ attempts'[i].key = attempts[i].key /\ attempts'[i].at = attempts[i].at
              /\ Live(i)' => Live(i)
              /\ i # call[c].n => (Live(i)' <=> Live(i))
        /\ attempts'[call[c].n].status = status
    <2>1. status \in {"failed", "stored", "late"}
      OBVIOUS
    <2>2. /\ call[c].pc # "idle" /\ UNCHANGED now
          /\ attempts' = Ended(call[c].n, status) /\ call' = [call EXCEPT ![c] = Idle]
      BY DEF StoreToken
    <2> HIDE DEF status
    <2> QED
      BY <2>1, <2>2, EndKeepsOwnAttempt
  <1>2. \A i \in 1..Len(attempts) : Live(i) => Live(i)'
    <2>1. ASSUME NEW i \in 1..Len(attempts), i = call[c].n PROVE Live(i)'
      BY <1>1, <2>1 DEF Live
    <2> QED
      BY <1>1, <2>1
  <1>3. now' = now /\ dedupe' = dedupe /\ callsMade' = callsMade
    BY DEF StoreToken
  <1>4. Covered'
    BY <1>1, <1>3 DEF DedupeInv, Covered
  <1>5. DedupeSpacing'
    BY <1>1, <1>3 DEF DedupeInv, DedupeSpacing
  <1>6. FailureNeverPoisons'
    BY <1>1, <1>2, <1>3 DEF DedupeInv, FailureNeverPoisons
  <1> QED
    BY <1>1, <1>3, <1>4, <1>5, <1>6 DEF DedupeInv

(* Clearing its own entry, a failed call uncovers only attempts a window   *)
(* older; the entry of another call never equals its armedAt.              *)
LEMMA FailKeeps ==
  ASSUME TypeOK, DedupeInv, NEW c \in Callers, Fail(c)
  PROVE  DedupeInv'
  <1>0. PICK n, k, at : n = call[c].n /\ k = call[c].key /\ at = call[c].armedAt
    OBVIOUS
  <1>1. /\ Len(attempts') = Len(attempts)
        /\ Chronological'
        /\ OwnAttempt'
        /\ \A i \in 1..Len(attempts) :
              /\ attempts'[i].key = attempts[i].key /\ attempts'[i].at = attempts[i].at
              /\ Live(i)' => Live(i)
              /\ i # n => (Live(i)' <=> Live(i))
        /\ attempts'[n].status = "failed"
    <2>1. /\ call[c].pc # "idle" /\ UNCHANGED now
          /\ attempts' = Ended(call[c].n, "failed") /\ call' = [call EXCEPT ![c] = Idle]
      BY DEF Fail
    <2> QED
      BY <1>0, <2>1, EndKeepsOwnAttempt
  <1>2. /\ n \in 1..Len(attempts) /\ Live(n)
        /\ attempts[n].key = k /\ attempts[n].at = at
    BY <1>0 DEF Fail, DedupeInv, OwnAttempt, Holds
  <1>3. ~Live(n)'
    BY <1>1 DEF Live
  <1>4. now' = now /\ callsMade' = callsMade /\ now \in Nat /\ Len(attempts) \in Nat
    BY DEF Fail, TypeOK
  <1>5. \A i \in 1..Len(attempts) : attempts[i].at \in Nat /\ attempts[i].key \in Keys
    BY AttemptType
  <1>6. dedupe \in [Keys -> Nat \cup {-1}] /\ k \in Keys /\ at \in Nat
    BY <1>2, <1>5 DEF TypeOK
  <1>7. /\ dedupe'[k] = IF dedupe[k] = at THEN -1 ELSE dedupe[k]
        /\ \A l \in Keys \ {k} : dedupe'[l] = dedupe[l]
    BY <1>0, <1>6 DEF Fail, ClearedEntry
  <1>8. DedupeSpacing'
    BY <1>1 DEF DedupeInv, DedupeSpacing
  <1>9. ASSUME NEW i \in 1..Len(attempts), Live(i)'
        PROVE  \/ dedupe'[attempts[i].key] # None /\ dedupe'[attempts[i].key] >= attempts[i].at
               \/ now - attempts[i].at >= DedupeWindow
    <2>1. i # n /\ Live(i)
      BY <1>1, <1>3, <1>9
    <2>2. \/ dedupe[attempts[i].key] # None /\ dedupe[attempts[i].key] >= attempts[i].at
          \/ now - attempts[i].at >= DedupeWindow
      BY <2>1 DEF DedupeInv, Covered
    <2>3. CASE attempts[i].key # k \/ dedupe[k] # at
      BY <1>5, <1>7, <2>2, <2>3
    <2>4. CASE attempts[i].key = k /\ dedupe[k] = at
      <3>1. attempts[i].at <= now /\ at <= now
        BY <1>2 DEF DedupeInv, Chronological
      <3>2. CASE i < n
        <4>1. at - attempts[i].at >= DedupeWindow
          BY <1>2, <2>1, <2>4, <3>2 DEF DedupeInv, DedupeSpacing
        <4> QED
          BY <1>4, <1>5, <1>6, <3>1, <4>1, ConfigTypes
      <3>3. CASE n < i
        <4>1. attempts[i].at - at >= DedupeWindow
          BY <1>2, <2>1, <2>4, <3>3 DEF DedupeInv, DedupeSpacing
        <4> QED
          BY <1>4, <1>5, <1>6, <2>2, <2>4, <3>1, <4>1, ConfigTypes
      <3> QED
        BY <1>2, <2>1, <3>2, <3>3
    <2> QED
      BY <2>3, <2>4
  <1>10. Covered'
    BY <1>1, <1>4, <1>9 DEF Covered
  <1>11. ASSUME DedupeWindow > 0, NEW l \in Keys, dedupe'[l] # None
         PROVE  \E i \in 1..Len(attempts) :
                   attempts'[i].key = l /\ attempts'[i].at = dedupe'[l] /\ Live(i)'
    <2>1. dedupe'[l] = dedupe[l] /\ (l # k \/ dedupe[l] # at)
      BY <1>6, <1>7, <1>11
    <2>2. PICK i \in 1..Len(attempts) :
            attempts[i].key = l /\ attempts[i].at = dedupe[l] /\ Live(i)
      BY <1>11, <2>1 DEF DedupeInv, FailureNeverPoisons
    <2>3. i # n
      BY <1>2, <2>1, <2>2
    <2> QED
      BY <1>1, <2>1, <2>2, <2>3
  <1>12. FailureNeverPoisons'
    BY <1>1, <1>11 DEF FailureNeverPoisons
  <1> QED
    BY <1>1, <1>4, <1>8, <1>10, <1>12 DEF DedupeInv

LEMMA TickKeeps ==
  ASSUME TypeOK, DedupeInv, Tick
  PROVE  DedupeInv'
  <1>1. /\ now' = now + 1 /\ now \in Nat
        /\ callsMade' = callsMade /\ dedupe' = dedupe /\ attempts' = attempts /\ call' = call
    BY DEF Tick, TypeOK, client
  <1>2. \A i \in 1..Len(attempts) : attempts[i].at \in Nat
    BY AttemptType
  <1>3. \A i : Live(i)' <=> Live(i)
    BY <1>1 DEF Live
  <1>4. Chronological'
    BY <1>1, <1>2 DEF DedupeInv, Chronological
  <1>5. Covered'
    <2> SUFFICES ASSUME NEW i \in 1..Len(attempts'), Live(i)'
                 PROVE  \/ /\ dedupe'[attempts'[i].key] # None
                           /\ dedupe'[attempts'[i].key] >= attempts'[i].at
                        \/ now' - attempts'[i].at >= DedupeWindow
      BY DEF Covered
    <2>1. i \in 1..Len(attempts) /\ Live(i) /\ attempts'[i] = attempts[i]
      BY <1>1, <1>3
    <2>2. CASE now - attempts[i].at >= DedupeWindow
      BY <1>1, <1>2, <2>1, <2>2, ConfigTypes
    <2>3. CASE ~(now - attempts[i].at >= DedupeWindow)
      BY <1>1, <2>1, <2>3 DEF DedupeInv, Covered
    <2> QED
      BY <2>2, <2>3
  <1>6. OwnAttempt'
    BY <1>1, <1>3 DEF DedupeInv, OwnAttempt, Holds
  <1>7. DedupeSpacing' /\ FailureNeverPoisons'
    BY <1>1, <1>3 DEF DedupeInv, DedupeSpacing, FailureNeverPoisons
  <1> QED
    BY <1>1, <1>4, <1>5, <1>6, <1>7 DEF DedupeInv

LEMMA NextDedupe == TypeOK /\ DedupeInv /\ [Next]_vars => DedupeInv'
  <1> SUFFICES ASSUME TypeOK, DedupeInv, [Next]_vars PROVE DedupeInv'
    OBVIOUS
  <1>1. call \in [Callers -> Call]
    BY DEF TypeOK
  <1>2. CASE UNCHANGED vars \/ RateReset
    BY <1>2, ExchangeKeeps DEF vars, RateReset, client
  <1>3. ASSUME NEW c \in Callers,
               RefuseInvalid(c) \/ \E k \in Keys : ServeCached(c, k) \/ Refuse(c, k)
        PROVE  DedupeInv'
    BY <1>3, ExchangeKeeps DEF RefuseInvalid, ServeCached, Refuse, vars, client
  <1>4. ASSUME NEW c \in Callers, GithubServe(c) \/ GithubLimit(c) \/ TransportFail(c)
        PROVE  DedupeInv'
    <2>1. UNCHANGED <<now, callsMade, dedupe, attempts>>
      BY <1>4 DEF GithubServe, GithubLimit, TransportFail, client
    <2>2. \A d \in Callers : /\ call'[d].pc # "idle" => call[d].pc # "idle"
                             /\ call'[d].n = call[d].n
                             /\ call'[d].key = call[d].key
                             /\ call'[d].armedAt = call[d].armedAt
      <3>1. CASE GithubServe(c)
        BY <1>1, <3>1 DEF GithubServe, Call
      <3>2. CASE GithubLimit(c)
        BY <1>1, <3>2 DEF GithubLimit, Call
      <3>3. CASE TransportFail(c)
        BY <1>1, <3>3 DEF TransportFail, Call
      <3> QED
        BY <1>4, <3>1, <3>2, <3>3
    <2> QED
      BY <2>1, <2>2, ExchangeKeeps
  <1>5. ASSUME NEW c \in Callers, RecordRateLimit(c) PROVE DedupeInv'
    <2>1. UNCHANGED <<now, callsMade, dedupe, attempts>>
      BY <1>5 DEF RecordRateLimit
    <2>2. \A d \in Callers : /\ call'[d].pc # "idle" => call[d].pc # "idle"
                             /\ call'[d].n = call[d].n
                             /\ call'[d].key = call[d].key
                             /\ call'[d].armedAt = call[d].armedAt
      BY <1>1, <1>5 DEF RecordRateLimit, Call
    <2> QED
      BY <2>1, <2>2, ExchangeKeeps
  <1> QED
    BY <1>2, <1>3, <1>4, <1>5, ArmKeeps, FailKeeps, StoreKeeps, TickKeeps
       DEF Next, Mint, Exchange, Proceed

(* The invariant that carries the three theorems below.                    *)
THEOREM DedupeInvariant == Spec => []DedupeInv
  BY InitDedupe, NextDedupe, TypeCorrect, PTL DEF Spec

(* However many callers pass the check together, no more requests leave    *)
(* the Client than its budget.                                             *)
THEOREM BudgetCorrect == Spec => []BudgetHeld
  <1>1. DedupeInv => BudgetHeld
    BY DEF DedupeInv, BudgetHeld
  <1> QED
    BY <1>1, DedupeInvariant, PTL

(* Two attempts for one key that did not both fail are a window apart.     *)
THEOREM SpacingCorrect == Spec => []DedupeSpacing
  <1>1. DedupeInv => DedupeSpacing
    BY DEF DedupeInv
  <1> QED
    BY <1>1, DedupeInvariant, PTL

(* A call that failed leaves no entry that could refuse its retry.         *)
THEOREM FailureCorrect == Spec => []FailureNeverPoisons
  <1>1. DedupeInv => FailureNeverPoisons
    BY DEF DedupeInv
  <1> QED
    BY <1>1, DedupeInvariant, PTL

-------------------------------------------------------------------------------
(* What the cache holds: a token's expiry counts from when GitHub served   *)
(* it, between the arming of its call and the answer.  A cached token came *)
(* from a call that returned inside the window it armed, or from a late    *)
(* one; and a call in progress is logged as open.                          *)
OpenCall(c) ==
    /\ attempts[call[c].n].status = "open"
    /\ call[c].reply.minted =>
          /\ call[c].reply.expires >= call[c].armedAt + TokenLife
          /\ call[c].reply.expires <= now + TokenLife

TokenFrom(k, i) ==
    /\ attempts[i].key = k
    /\ \/ attempts[i].status = "late"
       \/ /\ attempts[i].status = "stored"
          /\ tokens[k] < attempts[i].at + DedupeWindow + TokenLife

TokenInv ==
    /\ \A c \in Callers : call[c].pc # "idle" => OpenCall(c)
    /\ \A k \in Keys : tokens[k] # None => \E i \in 1..Len(attempts) : TokenFrom(k, i)

LEMMA InitToken == Init => TokenInv
  BY DEF Init, Idle, TokenInv

(* A step that touches neither the cache nor the log keeps every origin;   *)
(* what is left is the calls in progress.                                  *)
LEMMA OriginKept ==
  ASSUME TokenInv, UNCHANGED <<tokens, attempts>>,
         \A c \in Callers : call'[c].pc # "idle" => OpenCall(c)'
  PROVE  TokenInv'
  BY DEF TokenInv, TokenFrom

LEMMA ArmKeepsToken ==
  ASSUME TypeOK, DedupeInv, TokenInv, NEW c \in Callers, NEW k \in Keys, Arm(c, k)
  PROVE  TokenInv'
  <1> DEFINE n == Len(attempts) + 1
  <1>1. attempts \in Seq(Attempt) /\ Len(attempts) \in Nat /\ call \in [Callers -> Call]
    BY DEF TypeOK
  <1>2. /\ Len(attempts') = n
        /\ attempts'[n] = [key |-> k, at |-> now, status |-> "open"]
        /\ \A i \in 1..Len(attempts) : attempts'[i] = attempts[i]
        /\ now' = now /\ tokens' = tokens
    BY <1>1 DEF Arm
  <1>3. /\ call'[c].n = n /\ call'[c].reply = NoReply
        /\ \A d \in Callers \ {c} : call'[d] = call[d]
    BY <1>1 DEF Arm
  <1>4. OpenCall(c)'
    BY <1>2, <1>3 DEF OpenCall, NoReply
  <1>5. ASSUME NEW d \in Callers \ {c}, call'[d].pc # "idle" PROVE OpenCall(d)'
    <2>1. call'[d] = call[d] /\ OpenCall(d) /\ Holds(d)
      BY <1>3, <1>5 DEF TokenInv, DedupeInv, OwnAttempt
    <2>2. attempts'[call[d].n] = attempts[call[d].n]
      BY <1>2, <2>1 DEF Holds
    <2> QED
      BY <1>2, <2>1, <2>2 DEF OpenCall
  <1>6. ASSUME NEW l \in Keys, tokens'[l] # None
        PROVE  \E i \in 1..Len(attempts') : TokenFrom(l, i)'
    <2>1. PICK i \in 1..Len(attempts) : TokenFrom(l, i)
      BY <1>2, <1>6 DEF TokenInv
    <2>2. i \in 1..Len(attempts') /\ attempts'[i] = attempts[i]
      BY <1>1, <1>2
    <2> QED
      BY <1>2, <2>1, <2>2 DEF TokenFrom
  <1> QED
    BY <1>4, <1>5, <1>6 DEF TokenInv

(* The answer of GitHub is minted after the call was armed, and now.       *)
LEMMA ServeKeepsToken ==
  ASSUME TypeOK, DedupeInv, TokenInv, NEW c \in Callers, GithubServe(c)
  PROVE  TokenInv'
  <1>1. call \in [Callers -> Call] /\ now \in Nat /\ TokenLife \in Nat
    BY TimeAssumption DEF TypeOK
  <1>2. now' = now /\ tokens' = tokens /\ attempts' = attempts
    BY DEF GithubServe, client
  <1>3. /\ call'[c].n = call[c].n /\ call'[c].armedAt = call[c].armedAt
        /\ call'[c].reply.minted => call'[c].reply.expires = now + TokenLife
        /\ \A d \in Callers \ {c} : call'[d] = call[d]
    BY <1>1 DEF GithubServe, Call
  <1>4. OpenCall(c) /\ Holds(c)
    BY DEF GithubServe, TokenInv, DedupeInv, OwnAttempt
  <1>5. call[c].armedAt \in Nat /\ call[c].armedAt <= now
    BY <1>4, AttemptType DEF Holds, DedupeInv, Chronological
  <1>6. OpenCall(c)'
    BY <1>1, <1>2, <1>3, <1>4, <1>5 DEF OpenCall
  <1>7. ASSUME NEW d \in Callers \ {c}, call'[d].pc # "idle" PROVE OpenCall(d)'
    BY <1>2, <1>3, <1>7 DEF TokenInv, OpenCall
  <1> QED
    BY <1>2, <1>6, <1>7, OriginKept

(* An ending call leaves the other calls in progress open.                 *)
LEMMA EndKeepsOpen ==
  ASSUME TypeOK, DedupeInv, TokenInv, NEW c \in Callers, call[c].pc # "idle", UNCHANGED now,
         NEW status \in {"failed", "stored", "late"},
         attempts' = Ended(call[c].n, status), call' = [call EXCEPT ![c] = Idle]
  PROVE  \A d \in Callers : call'[d].pc # "idle" => OpenCall(d)'
  <1>1. call'[c].pc = "idle" /\ \A d \in Callers \ {c} : call'[d] = call[d]
    BY DEF TypeOK, Idle
  <1>2. ASSUME NEW d \in Callers, call'[d].pc # "idle" PROVE OpenCall(d)'
    <2>1. d # c /\ call'[d] = call[d] /\ OpenCall(d) /\ Holds(d) /\ call[d].n # call[c].n
      BY <1>1, <1>2 DEF TokenInv, DedupeInv, OwnAttempt
    <2>2. attempts'[call[d].n].status = attempts[call[d].n].status
      BY <2>1, EndedFacts DEF Holds
    <2> QED
      BY <2>1, <2>2 DEF OpenCall
  <1> QED
    BY <1>2

(* A failed call was open, so it is the origin of no cached token.         *)
LEMMA FailKeepsToken ==
  ASSUME TypeOK, DedupeInv, TokenInv, NEW c \in Callers, Fail(c)
  PROVE  TokenInv'
  <1>1. /\ call[c].pc # "idle" /\ now' = now /\ tokens' = tokens
        /\ attempts' = Ended(call[c].n, "failed") /\ call' = [call EXCEPT ![c] = Idle]
    BY DEF Fail
  <1>2. \A d \in Callers : call'[d].pc # "idle" => OpenCall(d)'
    BY <1>1, EndKeepsOpen
  <1>3. attempts[call[c].n].status = "open"
    BY <1>1 DEF TokenInv, OpenCall
  <1>4. ASSUME NEW l \in Keys, tokens'[l] # None
        PROVE  \E i \in 1..Len(attempts') : TokenFrom(l, i)'
    <2>1. PICK i \in 1..Len(attempts) : TokenFrom(l, i)
      BY <1>1, <1>4 DEF TokenInv
    <2>2. i # call[c].n
      BY <1>3, <2>1 DEF TokenFrom
    <2>3. /\ Len(attempts') = Len(attempts) /\ attempts'[i].key = attempts[i].key
          /\ attempts'[i].at = attempts[i].at /\ attempts'[i].status = attempts[i].status
      BY <1>1, <2>2, EndedFacts
    <2> QED
      BY <1>1, <2>1, <2>3 DEF TokenFrom
  <1> QED
    BY <1>2, <1>4 DEF TokenInv

(* The stored token comes from the call that just ended, in time or late.  *)
LEMMA StoreKeepsToken ==
  ASSUME TypeOK, DedupeInv, TokenInv, NEW c \in Callers, StoreToken(c)
  PROVE  TokenInv'
  <1>0. PICK n, k, at, status :
          /\ n = call[c].n /\ k = call[c].key /\ at = call[c].armedAt
          /\ status = IF now - at < DedupeWindow THEN "stored" ELSE "late"
    OBVIOUS
  <1>1. /\ call[c].pc # "idle" /\ now' = now /\ status \in {"failed", "stored", "late"}
        /\ attempts' = Ended(call[c].n, status) /\ call' = [call EXCEPT ![c] = Idle]
    BY <1>0 DEF StoreToken
  <1>2. \A d \in Callers : call'[d].pc # "idle" => OpenCall(d)'
    BY <1>1, EndKeepsOpen
  <1>3. OpenCall(c) /\ Holds(c) /\ call[c].reply.minted
    BY DEF StoreToken, TokenInv, DedupeInv, OwnAttempt
  <1>4. /\ n \in 1..Len(attempts) /\ attempts[n].key = k /\ attempts[n].at = at
        /\ attempts[n].status = "open" /\ k \in Keys /\ at \in Nat
    BY <1>0, <1>3, AttemptType DEF Holds, OpenCall
  <1>5. /\ Len(attempts') = Len(attempts)
        /\ \A i \in 1..Len(attempts) :
              /\ attempts'[i].key = attempts[i].key /\ attempts'[i].at = attempts[i].at
              /\ i # n => attempts'[i].status = attempts[i].status
              /\ i = n => attempts'[i].status = status
    BY <1>0, <1>1, EndedFacts
  <1>6. /\ tokens'[k] = call[c].reply.expires
        /\ \A l \in Keys \ {k} : tokens'[l] = tokens[l]
    BY <1>0, <1>4 DEF StoreToken, TypeOK
  <1>7. TokenFrom(k, n)'
    <2>1. call[c].reply.expires <= now + TokenLife
      BY <1>3 DEF OpenCall
    <2>2. call[c].reply.expires \in Nat \cup {-1} /\ now \in Nat /\ TokenLife \in Nat
      BY TimeAssumption DEF TypeOK, Call, Reply
    <2>3. attempts'[n].key = k /\ attempts'[n].at = at /\ attempts'[n].status = status
      BY <1>4, <1>5
    <2>4. status = "stored" => now < at + DedupeWindow
      BY <1>0, <1>4, <2>2, ConfigTypes
    <2>5. status = "stored" => tokens'[k] < at + DedupeWindow + TokenLife
      BY <1>4, <1>6, <2>1, <2>2, <2>4, ConfigTypes
    <2> QED
      BY <1>0, <2>3, <2>5 DEF TokenFrom
  <1>8. ASSUME NEW l \in Keys \ {k}, tokens'[l] # None
        PROVE  \E i \in 1..Len(attempts') : TokenFrom(l, i)'
    <2>1. PICK i \in 1..Len(attempts) : TokenFrom(l, i)
      BY <1>6, <1>8 DEF TokenInv
    <2>2. i # n
      BY <1>4, <2>1 DEF TokenFrom
    <2> QED
      BY <1>5, <1>6, <2>1, <2>2 DEF TokenFrom
  <1> QED
    BY <1>2, <1>4, <1>5, <1>7, <1>8 DEF TokenInv

LEMMA NextToken == TypeOK /\ DedupeInv /\ TokenInv /\ [Next]_vars => TokenInv'
  <1> SUFFICES ASSUME TypeOK, DedupeInv, TokenInv, [Next]_vars PROVE TokenInv'
    OBVIOUS
  <1>1. call \in [Callers -> Call] /\ now \in Nat /\ TokenLife \in Nat
    BY TimeAssumption DEF TypeOK
  <1>2. ASSUME UNCHANGED <<now, call, tokens, attempts>> PROVE TokenInv'
    BY <1>2, OriginKept DEF TokenInv, OpenCall
  <1>3. ASSUME NEW c \in Callers, GithubLimit(c) \/ TransportFail(c) \/ RecordRateLimit(c)
        PROVE  TokenInv'
    <2>1. UNCHANGED <<now, tokens, attempts>>
      BY <1>3 DEF GithubLimit, TransportFail, RecordRateLimit, client
    <2>2. \A d \in Callers :
            /\ call'[d].pc # "idle" => call[d].pc # "idle"
            /\ call'[d].n = call[d].n /\ call'[d].armedAt = call[d].armedAt
            /\ call'[d].reply.minted => call'[d].reply = call[d].reply
      <3>1. CASE GithubLimit(c)
        BY <1>1, <3>1 DEF GithubLimit, Call
      <3>2. CASE TransportFail(c)
        BY <1>1, <3>2 DEF TransportFail, Call
      <3>3. CASE RecordRateLimit(c)
        BY <1>1, <3>3 DEF RecordRateLimit, Call
      <3> QED
        BY <1>3, <3>1, <3>2, <3>3
    <2>3. ASSUME NEW d \in Callers, call'[d].pc # "idle" PROVE OpenCall(d)'
      <3>1. OpenCall(d)
        BY <2>2, <2>3 DEF TokenInv
      <3> QED
        BY <2>1, <2>2, <3>1 DEF OpenCall
    <2> QED
      BY <2>1, <2>3, OriginKept
  <1>4. ASSUME Tick PROVE TokenInv'
    <2>1. now' = now + 1 /\ call' = call /\ tokens' = tokens /\ attempts' = attempts
      BY <1>4 DEF Tick, client
    <2>2. ASSUME NEW d \in Callers, call'[d].pc # "idle" PROVE OpenCall(d)'
      <3>1. OpenCall(d) /\ call[d].reply.expires \in Nat \cup {-1}
        BY <1>1, <2>1, <2>2 DEF TokenInv, Call, Reply
      <3> QED
        BY <1>1, <2>1, <3>1 DEF OpenCall
    <2> QED
      BY <2>1, <2>2, OriginKept
  <1>5. ASSUME UNCHANGED vars \/ RateReset PROVE TokenInv'
    BY <1>2, <1>5 DEF vars, RateReset, client
  <1>6. ASSUME NEW c \in Callers,
               RefuseInvalid(c) \/ \E k \in Keys : ServeCached(c, k) \/ Refuse(c, k)
        PROVE  TokenInv'
    BY <1>5, <1>6 DEF RefuseInvalid, ServeCached, Refuse
  <1> QED
    BY <1>3, <1>4, <1>5, <1>6, ArmKeepsToken, ServeKeepsToken, FailKeepsToken, StoreKeepsToken
       DEF Next, Mint, Exchange, Proceed

(* Where the cached tokens come from.                                      *)
THEOREM TokenInvariant == Spec => []TokenInv
  BY InitToken, NextToken, TypeCorrect, DedupeInvariant, PTL DEF Spec

(* Two attempts whose tokens are stored in time are a window apart, so the *)
(* later one was served after the earlier one had already returned.        *)
LEMMA StoreForward ==
  ASSUME TypeOK, DedupeInv, TokenInv, NEW c \in Callers, StoreToken(c),
         NEW k \in Keys, tokens'[k] < tokens[k]
  PROVE  \E i \in 1..Len(attempts) : attempts[i].key = k /\ attempts'[i].status = "late"
  <1>0. PICK n, at : n = call[c].n /\ at = call[c].armedAt
    OBVIOUS
  <1>1. OpenCall(c) /\ Holds(c) /\ call[c].reply.minted
    BY DEF StoreToken, TokenInv, DedupeInv, OwnAttempt
  <1>2. tokens \in [Keys -> Nat \cup {-1}] /\ now \in Nat /\ TokenLife \in Nat
    BY TimeAssumption DEF TypeOK
  <1>3. call[c].reply.expires \in Nat \cup {-1}
    BY DEF TypeOK, Call, Reply
  <1>4. k = call[c].key /\ tokens'[k] = call[c].reply.expires
    BY <1>2 DEF StoreToken
  <1>5. /\ n \in 1..Len(attempts) /\ attempts[n].key = k /\ attempts[n].at = at
        /\ attempts[n].status = "open" /\ at \in Nat
    BY <1>0, <1>1, <1>4, AttemptType DEF Holds, OpenCall
  <1>6. tokens'[k] >= at + TokenLife
    BY <1>0, <1>1, <1>4 DEF OpenCall
  <1>7. tokens[k] # None
    BY <1>2, <1>3, <1>4
  <1>8. PICK i \in 1..Len(attempts) : TokenFrom(k, i)
    BY <1>7 DEF TokenInv
  <1>9. attempts[i].key = k /\ attempts[i].at \in Nat /\ i # n
    BY <1>5, <1>8, AttemptType DEF TokenFrom
  <1>10. /\ attempts'[i].status = attempts[i].status
         /\ attempts'[n].status = IF now - at < DedupeWindow THEN "stored" ELSE "late"
    BY <1>0, <1>5, <1>9, EndedFacts DEF StoreToken
  <1>11. CASE attempts[i].status = "late"
    BY <1>9, <1>10, <1>11
  <1>12. CASE now - at >= DedupeWindow
    <2>1. ~(now - at < DedupeWindow)
      BY <1>2, <1>5, <1>12, ConfigTypes
    <2> QED
      BY <1>5, <1>10, <2>1
  <1>13. CASE ~(now - at >= DedupeWindow) /\ attempts[i].status # "late"
    <2>1. attempts[i].status = "stored" /\ tokens[k] < attempts[i].at + DedupeWindow + TokenLife
      BY <1>8, <1>13 DEF TokenFrom
    <2>2. Live(i) /\ Live(n) /\ attempts[i].at <= now
      BY <1>5, <2>1 DEF Live, DedupeInv, Chronological
    <2>3. CASE i < n
      <3>1. at - attempts[i].at >= DedupeWindow
        BY <1>5, <1>9, <2>2, <2>3 DEF DedupeInv, DedupeSpacing
      <3>2. tokens[k] \in Int /\ tokens'[k] \in Int
        BY <1>2, <1>3, <1>4
      <3>3. attempts[i].at + DedupeWindow + TokenLife <= at + TokenLife
        BY <1>2, <1>5, <1>9, <3>1, ConfigTypes
      <3>4. tokens[k] < at + TokenLife
        BY <1>2, <1>5, <1>9, <2>1, <3>2, <3>3, ConfigTypes
      <3>5. FALSE
        BY <1>2, <1>5, <1>6, <3>2, <3>4
      <3> QED
        BY <3>5
    <2>4. CASE n < i
      <3>1. attempts[i].at - at >= DedupeWindow
        BY <1>5, <1>9, <2>2, <2>4 DEF DedupeInv, DedupeSpacing
      <3> QED
        BY <1>2, <1>5, <1>9, <1>13, <2>2, <3>1, ConfigTypes
    <2> QED
      BY <1>5, <1>9, <2>3, <2>4
  <1> QED
    BY <1>11, <1>12, <1>13

(* The cache goes back to a token that expires earlier only after a call   *)
(* for that key outlived the window it had armed.                          *)
THEOREM OldTokenCorrect == Spec => OldTokenOnlyFromLateCall
  <1> DEFINE Forward ==
        \A k \in Keys : tokens'[k] < tokens[k] =>
            \E i \in 1..Len(attempts) : attempts[i].key = k /\ attempts'[i].status = "late"
  <1>1. TypeOK /\ DedupeInv /\ TokenInv /\ [Next]_vars => [Forward]_vars
    <2> SUFFICES ASSUME TypeOK, DedupeInv, TokenInv, [Next]_vars PROVE Forward
      OBVIOUS
    <2>1. tokens \in [Keys -> Nat \cup {-1}]
      BY DEF TypeOK
    <2>2. ASSUME UNCHANGED tokens PROVE Forward
      BY <2>1, <2>2
    <2>3. ASSUME NEW c \in Callers, StoreToken(c) PROVE Forward
      BY <2>3, StoreForward
    <2>4. (\A c \in Callers : ~StoreToken(c)) => UNCHANGED tokens
      BY DEF Next, Mint, Exchange, Proceed, vars, client, RefuseInvalid, ServeCached, Refuse,
             Arm, GithubServe, GithubLimit, TransportFail, RecordRateLimit, Fail, Tick, RateReset
    <2> QED
      BY <2>2, <2>3, <2>4
  <1> QED
    BY <1>1, TypeCorrect, DedupeInvariant, TokenInvariant, PTL
       DEF Spec, OldTokenOnlyFromLateCall
-------------------------------------------------------------------------------
(* What may still be spent below the floor.  A caller may be about to      *)
(* record a header that is above the floor, and open it again, or one that *)
(* is below, and close it.                                                 *)
Target == IF RateLimitFloor < Quota THEN RateLimitFloor ELSE Quota

Opens(c) == call[c].pc = "replied" /\ call[c].reply.remaining >= RateLimitFloor

Closes(c) ==
    /\ call[c].pc = "replied" /\ call[c].reply.remaining # None
    /\ call[c].reply.remaining < RateLimitFloor

Others == {c \in Callers : ~Opens(c)}

(* Those of the others who spend a call before they close the floor.       *)
Ready == {c \in Others : ~Closes(c) /\ (call[c].pc = "armed" \/ ~BelowFloor)}

(* While k of n callers do not open the floor, there are n - k times to    *)
(* come when it opens, and k (k + 1) / 2 calls that cannot be made then.   *)
Spending(left, k, r) == 2 * left + k * (k + 1) >= 2 * (Target + r)

SpendInv == Spending(remaining + blind, Cardinality(Others), Cardinality(Ready))

LEMMA Triangle ==
  ASSUME NEW k \in Nat
  PROVE  /\ k * (k + 1) \in Nat /\ k * (k + 1) >= 2 * k
         /\ (k + 1) * (k + 2) = k * (k + 1) + 2 * (k + 1)
         /\ \A n \in Nat : k <= n => k * (k + 1) <= n * (n + 1)
  <1>1. k * (k + 1) \in Nat /\ (k + 1) * (k + 2) = k * (k + 1) + 2 * (k + 1)
    OBVIOUS
  <1>2. k * (k + 1) >= 2 * k
    <2>1. CASE k = 0
      BY <2>1
    <2>2. CASE k >= 1
      <3>1. PICK j \in Nat : k = j + 1
        BY <2>2
      <3>2. k * (k + 1) = j * j + 3 * j + 2 /\ j * j \in Nat
        BY <3>1
      <3> QED
        BY <3>1, <3>2
    <2> QED
      BY <2>1, <2>2
  <1>3. ASSUME NEW n \in Nat, k <= n PROVE k * (k + 1) <= n * (n + 1)
    <2>1. PICK j \in Nat : n = k + j
      BY <1>3
    <2>2. n * (n + 1) = k * (k + 1) + (2 * (k * j) + j * j + j) /\ k * j \in Nat /\ j * j \in Nat
      BY <2>1
    <2> QED
      BY <1>1, <2>2
  <1> QED
    BY <1>1, <1>2, <1>3

(* SMT loses the type of a sum of two primed variables; Zenon does not.    *)
LEMMA SumNat == ASSUME NEW x \in Nat, NEW y \in Nat PROVE x + y \in Nat
  OBVIOUS

LEMMA SpendTypes ==
  ASSUME TypeOK
  PROVE  /\ remaining \in Nat /\ blind \in Nat /\ Target \in Nat
         /\ RateLimitFloor \in Nat /\ Target <= RateLimitFloor
         /\ IsFiniteSet(Others) /\ IsFiniteSet(Ready)
         /\ Cardinality(Others) \in Nat /\ Cardinality(Ready) \in Nat
         /\ Cardinality(Ready) <= Cardinality(Others)
         /\ Cardinality(Callers) \in Nat /\ Cardinality(Others) <= Cardinality(Callers)
  <1>1. IsFiniteSet(Callers) /\ Others \in SUBSET Callers /\ Ready \in SUBSET Others
    BY CallersAssumption DEF Others, Ready
  <1>2. IsFiniteSet(Others) /\ Cardinality(Others) <= Cardinality(Callers)
    BY <1>1, FS_Subset
  <1>3. IsFiniteSet(Ready) /\ Cardinality(Ready) <= Cardinality(Others)
    BY <1>1, <1>2, FS_Subset
  <1>4. /\ Cardinality(Callers) \in Nat /\ Cardinality(Others) \in Nat
        /\ Cardinality(Ready) \in Nat
    BY <1>1, <1>2, <1>3, FS_CardinalityType
  <1>5. remaining \in Nat /\ blind \in Nat /\ Target \in Nat /\ RateLimitFloor \in Nat
        /\ Target <= RateLimitFloor
    BY ConfigTypes, TimeAssumption DEF TypeOK, Target
  <1> QED
    BY <1>2, <1>3, <1>4, <1>5

(* As long as what is left reaches the target there is nothing to show.    *)
LEMMA SpendAbove == TypeOK /\ remaining + blind >= Target => SpendInv
  <1> SUFFICES ASSUME TypeOK, remaining + blind >= Target PROVE SpendInv
    OBVIOUS
  <1>1. PICK k, r, l : k = Cardinality(Others) /\ r = Cardinality(Ready) /\ l = remaining + blind
    OBVIOUS
  <1>2. k \in Nat /\ r \in Nat /\ r <= k /\ l \in Nat /\ Target \in Nat /\ l >= Target
    BY <1>1, SpendTypes
  <1>3. k * (k + 1) >= 2 * k /\ k * (k + 1) \in Nat
    BY <1>2, Triangle
  <1>4. Spending(l, k, r)
    BY <1>2, <1>3 DEF Spending
  <1> QED
    BY <1>1, <1>4 DEF SpendInv

(* Nothing is spent and nobody becomes ready.                              *)
LEMMA SpendQuiet ==
  ASSUME TypeOK, TypeOK', SpendInv, remaining' + blind' >= remaining + blind,
         Others' = Others, Ready' \subseteq Ready
  PROVE  SpendInv'
  <1>1. PICK k, r, q, l, m :
          /\ k = Cardinality(Others) /\ r = Cardinality(Ready) /\ q = Cardinality(Ready')
          /\ l = remaining + blind /\ m = remaining' + blind'
    OBVIOUS
  <1>2. q <= r
    BY <1>1, SpendTypes, FS_Subset
  <1>3. k \in Nat /\ r \in Nat /\ l \in Nat /\ Target \in Nat /\ q \in Nat /\ m \in Nat /\ m >= l
    <2>0. IsFiniteSet(Ready')
      BY SpendTypes, FS_Subset
    <2>1. q \in Nat
      BY <1>1, <2>0, FS_CardinalityType
    <2>2. k \in Nat /\ r \in Nat /\ Target \in Nat /\ remaining \in Nat /\ blind \in Nat
      BY <1>1, SpendTypes
    <2>3. remaining' \in Nat /\ blind' \in Nat
      BY TimeAssumption DEF TypeOK
    <2>4. remaining + blind \in Nat /\ remaining' + blind' \in Nat
      BY <2>2, <2>3, SumNat, Zenon
    <2>5. l \in Nat /\ m \in Nat
      BY ONLY <1>1, <2>4
    <2> QED
      BY <1>1, <2>1, <2>2, <2>5
  <1>4. k * (k + 1) \in Nat
    BY <1>3, Triangle
  <1>5. Spending(l, k, r)
    BY <1>1 DEF SpendInv
  <1>6. Spending(m, k, q)
    BY <1>2, <1>3, <1>4, <1>5 DEF Spending
  <1>7. SpendInv' <=> Spending(m, k, q)
    BY <1>1 DEF SpendInv, Spending, Target
  <1> QED
    BY <1>6, <1>7

(* A ready caller spends one call, and will close the floor.               *)
LEMMA SpendOne ==
  ASSUME TypeOK, TypeOK', SpendInv, NEW c \in Ready, remaining' + blind' = remaining + blind - 1,
         Others' = Others, Ready' \subseteq Ready \ {c}
  PROVE  SpendInv'
  <1>1. PICK k, r, q, l, m :
          /\ k = Cardinality(Others) /\ r = Cardinality(Ready) /\ q = Cardinality(Ready')
          /\ l = remaining + blind /\ m = remaining' + blind'
    OBVIOUS
  <1>2. IsFiniteSet(Ready \ {c}) /\ Cardinality(Ready \ {c}) = r - 1
    BY <1>1, SpendTypes, FS_RemoveElement
  <1>3. k \in Nat /\ r \in Nat /\ l \in Nat /\ Target \in Nat /\ q \in Nat /\ m \in Nat /\ m = l - 1
    <2>0. IsFiniteSet(Ready')
      BY <1>2, FS_Subset
    <2>1. q \in Nat
      BY <1>1, <2>0, FS_CardinalityType
    <2>2. k \in Nat /\ r \in Nat /\ Target \in Nat /\ remaining \in Nat /\ blind \in Nat
      BY <1>1, SpendTypes
    <2>3. remaining' \in Nat /\ blind' \in Nat
      BY TimeAssumption DEF TypeOK
    <2>4. remaining + blind \in Nat /\ remaining' + blind' \in Nat
      BY <2>2, <2>3, SumNat, Zenon
    <2>5. l \in Nat /\ m \in Nat
      BY ONLY <1>1, <2>4
    <2> QED
      BY <1>1, <2>1, <2>2, <2>5
  <1>4. q <= r - 1
    BY <1>1, <1>2, FS_Subset
  <1>5. k * (k + 1) \in Nat
    BY <1>3, Triangle
  <1>6. Spending(l, k, r)
    BY <1>1 DEF SpendInv
  <1>7. Spending(m, k, q)
    BY <1>3, <1>4, <1>5, <1>6 DEF Spending
  <1>8. SpendInv' <=> Spending(m, k, q)
    BY <1>1 DEF SpendInv, Spending, Target
  <1> QED
    BY <1>7, <1>8

(* A caller opens the floor: whoever is ready now, it was its last time.   *)
LEMMA SpendOpen ==
  ASSUME TypeOK, TypeOK', SpendInv, NEW c \in Callers \ Others,
         UNCHANGED <<remaining, blind>>, Others' = Others \cup {c}
  PROVE  SpendInv'
  <1>1. PICK k, r, q, l :
          /\ k = Cardinality(Others) /\ r = Cardinality(Ready) /\ q = Cardinality(Ready')
          /\ l = remaining + blind
    OBVIOUS
  <1>2. Cardinality(Others') = k + 1 /\ IsFiniteSet(Others')
    BY <1>1, SpendTypes, FS_AddElement
  <1>3. Ready' \subseteq Others'
    BY DEF Ready
  <1>4. q <= k + 1
    BY <1>1, <1>2, <1>3, FS_Subset
  <1>5. k \in Nat /\ r \in Nat /\ l \in Nat /\ Target \in Nat /\ q \in Nat
    <2>0. IsFiniteSet(Ready')
      BY <1>2, <1>3, FS_Subset
    <2>1. q \in Nat
      BY <1>1, <2>0, FS_CardinalityType
    <2> QED
      BY <1>1, <2>1, SpendTypes
  <1>6. k * (k + 1) \in Nat /\ (k + 1) * (k + 2) = k * (k + 1) + 2 * (k + 1)
    BY <1>5, Triangle
  <1>7. 2 * l + k * (k + 1) >= 2 * (Target + r)
    BY <1>1 DEF SpendInv, Spending
  <1>8. 2 * l + (k + 1) * (k + 2) >= 2 * (Target + q)
    BY <1>4, <1>5, <1>6, <1>7
  <1>9. SpendInv' <=> 2 * l + (k + 1) * (k + 1 + 1) >= 2 * (Target + q)
    BY <1>1, <1>2 DEF SpendInv, Spending, Target
  <1>10. k + 1 + 1 = k + 2
    BY <1>5
  <1> QED
    BY <1>8, <1>9, <1>10

LEMMA InitSpend == Init => SpendInv
  <1> SUFFICES ASSUME Init PROVE SpendInv
    OBVIOUS
  <1>1. TypeOK
    BY InitType
  <1>2. remaining + blind >= Target
    BY TimeAssumption, ConfigTypes DEF Init, Target
  <1> QED
    BY <1>1, <1>2, SpendAbove

(* A caller that had no header to record, and has none, and is not closer  *)
(* to a call than it was.                                                  *)
LEMMA SpendOther ==
  ASSUME TypeOK, TypeOK', SpendInv, NEW c \in Callers,
         \A d \in Callers \ {c} : call'[d] = call[d],
         UNCHANGED <<rateRemaining, rateKnown>>, remaining' + blind' >= remaining + blind,
         ~Opens(c), ~Opens(c)', c \in Ready' => c \in Ready
  PROVE  SpendInv'
  <1>1. \A d \in Callers \ {c} : (Opens(d)' <=> Opens(d)) /\ (Closes(d)' <=> Closes(d))
    BY DEF Opens, Closes
  <1>2. Others' = Others
    BY <1>1 DEF Others
  <1>3. BelowFloor' <=> BelowFloor
    BY DEF BelowFloor
  <1>4. \A d \in Callers \ {c} : d \in Ready' <=> d \in Ready
    BY <1>1, <1>2, <1>3 DEF Ready
  <1>5. Ready' \subseteq Ready
    BY <1>4 DEF Ready, Others
  <1> QED
    BY <1>2, <1>5, SpendQuiet

LEMMA ArmSpend ==
  ASSUME TypeOK, TypeOK', SpendInv, NEW c \in Callers, NEW k \in Keys, Arm(c, k) PROVE SpendInv'
  <1>1. call \in [Callers -> Call] /\ remaining \in Nat /\ blind \in Nat
    BY SpendTypes DEF TypeOK
  <1>2. /\ call'[c].pc = "armed" /\ call[c].pc = "idle"
        /\ \A d \in Callers \ {c} : call'[d] = call[d]
        /\ UNCHANGED <<rateRemaining, rateKnown, remaining, blind>>
    BY <1>1 DEF Arm, github
  <1>3. ~Opens(c) /\ ~Opens(c)' /\ ~Closes(c)
    BY <1>2 DEF Opens, Closes
  <1>4. c \in Ready
    BY <1>3 DEF Ready, Others, Arm
  <1>5. remaining' + blind' >= remaining + blind
    BY <1>1, <1>2
  <1> QED
    BY <1>2, <1>3, <1>4, <1>5, SpendOther

LEMMA EndSpend ==
  ASSUME TypeOK, TypeOK', SpendInv, NEW c \in Callers, Fail(c) \/ StoreToken(c) PROVE SpendInv'
  <1>1. call \in [Callers -> Call] /\ remaining \in Nat /\ blind \in Nat
    BY SpendTypes DEF TypeOK
  <1>2. /\ call[c].pc = "recorded" /\ call' = [call EXCEPT ![c] = Idle]
        /\ UNCHANGED <<rateRemaining, rateKnown, remaining, blind>>
    BY DEF Fail, StoreToken, github
  <1>3. call'[c].pc = "idle" /\ \A d \in Callers \ {c} : call'[d] = call[d]
    BY <1>1, <1>2 DEF Idle
  <1>4. ~Opens(c) /\ ~Opens(c)' /\ ~Closes(c)
    BY <1>2, <1>3 DEF Opens, Closes
  <1>5. BelowFloor' <=> BelowFloor
    BY <1>2 DEF BelowFloor
  <1>6. c \in Ready' => c \in Ready
    BY <1>3, <1>4, <1>5 DEF Ready, Others
  <1>7. remaining' + blind' >= remaining + blind
    BY <1>1, <1>2
  <1> QED
    BY <1>2, <1>3, <1>4, <1>6, <1>7, SpendOther

(* A call that is on its way is ready.                                     *)
LEMMA ArmedReady == ASSUME NEW c \in Callers, call[c].pc = "armed" PROVE c \in Ready /\ ~Opens(c)
  BY DEF Ready, Others, Opens, Closes

LEMMA FailureSpend ==
  ASSUME TypeOK, TypeOK', SpendInv, NEW c \in Callers, TransportFail(c) PROVE SpendInv'
  <1>1. call \in [Callers -> Call] /\ call[c] \in Call /\ remaining \in Nat /\ blind \in Nat
    BY SpendTypes DEF TypeOK
  <1>2. /\ call'[c].pc = "recorded" /\ call[c].pc = "armed"
        /\ \A d \in Callers \ {c} : call'[d] = call[d]
        /\ UNCHANGED <<rateRemaining, rateKnown>>
    BY <1>1 DEF TransportFail, client, Call
  <1>3. ~Opens(c)'
    BY <1>2 DEF Opens
  <1>4. remaining' + blind' >= remaining + blind
    <2>1. CASE UNCHANGED github
      BY <1>1, <2>1 DEF github
    <2>2. CASE remaining > 0 /\ remaining' = remaining - 1 /\ blind' = blind + 1
      BY <1>1, <2>2
    <2> QED
      BY <2>1, <2>2 DEF TransportFail
  <1> QED
    BY <1>2, <1>3, <1>4, ArmedReady, SpendOther

LEMMA LimitSpend ==
  ASSUME TypeOK, TypeOK', SpendInv, NEW c \in Callers, GithubLimit(c) PROVE SpendInv'
  <1>1. call \in [Callers -> Call] /\ call[c] \in Call
    BY DEF TypeOK
  <1>2. /\ remaining \in Nat /\ blind \in Nat /\ Target \in Nat /\ Target <= RateLimitFloor
        /\ RateLimitFloor \in Nat
    BY SpendTypes
  <1>3. /\ call'[c].pc = "replied" /\ call[c].pc = "armed" /\ call'[c].reply.remaining = 0
        /\ \A d \in Callers \ {c} : call'[d] = call[d]
        /\ UNCHANGED <<rateRemaining, rateKnown, remaining, blind>>
    BY <1>1 DEF GithubLimit, client, github, Call
  <1>4. CASE RateLimitFloor = 0
    <2>1. Target = 0
      BY <1>2, <1>4
    <2>2. remaining' + blind' >= Target
      BY <1>2, <1>3, <2>1
    <2>3. (TypeOK /\ remaining + blind >= Target => SpendInv)'
      BY SpendAbove, PTL
    <2> QED
      BY <2>2, <2>3 DEF Target
  <1>5. CASE RateLimitFloor > 0
    <2>1. 0 # None /\ 0 < RateLimitFloor /\ ~(0 >= RateLimitFloor)
      BY <1>2, <1>5 DEF None
    <2>2. ~Opens(c)' /\ Closes(c)'
      BY <1>3, <2>1 DEF Opens, Closes
    <2>3. remaining' + blind' >= remaining + blind
      BY <1>2, <1>3
    <2> QED
      BY <1>3, <2>2, <2>3, ArmedReady, SpendOther
  <1> QED
    BY <1>2, <1>4, <1>5

LEMMA ServeSpend ==
  ASSUME TypeOK, TypeOK', SpendInv, NEW c \in Callers, GithubServe(c) PROVE SpendInv'
  <1>1. call \in [Callers -> Call] /\ call[c] \in Call
    BY DEF TypeOK
  <1>2. /\ remaining \in Nat /\ blind \in Nat /\ Target \in Nat /\ Target <= RateLimitFloor
        /\ RateLimitFloor \in Nat
    BY SpendTypes
  <1>3. PICK header \in {remaining - 1, None} :
          /\ call'[c].pc = "replied" /\ call'[c].reply.remaining = header
          /\ \A d \in Callers \ {c} : call'[d] = call[d]
          /\ blind' = IF header = None THEN blind + 1 ELSE blind
    BY <1>1 DEF GithubServe, Call
  <1>4. /\ call[c].pc = "armed" /\ remaining > 0 /\ remaining' = remaining - 1
        /\ UNCHANGED <<rateRemaining, rateKnown>>
    BY DEF GithubServe, client
  <1>5. CASE header = None
    <2>1. ~Opens(c)'
      <3>1. ~(header >= RateLimitFloor)
        BY <1>2, <1>5 DEF None
      <3> QED
        BY <1>3, <3>1 DEF Opens
    <2>2. remaining' + blind' >= remaining + blind
      BY <1>2, <1>3, <1>4, <1>5
    <2> QED
      BY <1>3, <1>4, <2>1, <2>2, ArmedReady, SpendOther
  <1>6. CASE header # None
    <2>1. header = remaining - 1 /\ blind' = blind /\ header \in Nat
      BY <1>2, <1>3, <1>4, <1>6
    <2>2. remaining' + blind' = remaining + blind - 1
      BY <1>2, <1>4, <2>1
    <2>3. CASE remaining + blind > Target
      <3>1. remaining' + blind' >= Target
        BY <1>2, <1>4, <2>1, <2>3
      <3>2. (TypeOK /\ remaining + blind >= Target => SpendInv)'
        BY SpendAbove, PTL
      <3> QED
        BY <3>1, <3>2 DEF Target
    <2>4. CASE ~(remaining + blind > Target)
      <3>1. header < RateLimitFloor
        BY <1>2, <2>1, <2>4
      <3>2. ~Opens(c)' /\ Closes(c)'
        BY <1>2, <1>3, <2>1, <3>1 DEF Opens, Closes
      <3>3. \A d \in Callers \ {c} : (Opens(d)' <=> Opens(d)) /\ (Closes(d)' <=> Closes(d))
        BY <1>3 DEF Opens, Closes
      <3>4. Others' = Others
        BY <1>4, <3>2, <3>3, ArmedReady DEF Others
      <3>5. BelowFloor' <=> BelowFloor
        BY <1>4 DEF BelowFloor
      <3>6. Ready' \subseteq Ready \ {c}
        <4>1. \A d \in Callers \ {c} : d \in Ready' <=> d \in Ready
          BY <1>3, <3>3, <3>4, <3>5 DEF Ready
        <4>2. c \notin Ready'
          BY <3>2 DEF Ready
        <4> QED
          BY <4>1, <4>2 DEF Ready, Others
      <3>7. c \in Ready
        BY <1>4, ArmedReady
      <3> QED
        BY <2>2, <3>4, <3>6, <3>7, SpendOne
    <2> QED
      BY <2>3, <2>4
  <1> QED
    BY <1>5, <1>6

LEMMA RecordSpend ==
  ASSUME TypeOK, TypeOK', SpendInv, NEW c \in Callers, RecordRateLimit(c) PROVE SpendInv'
  <1>1. call \in [Callers -> Call] /\ call[c] \in Call
    BY DEF TypeOK
  <1>2. remaining \in Nat /\ blind \in Nat /\ RateLimitFloor \in Nat
    BY SpendTypes
  <1>3. /\ call'[c].pc = "recorded" /\ call[c].pc = "replied"
        /\ \A d \in Callers \ {c} : call'[d] = call[d]
        /\ UNCHANGED <<remaining, blind>>
    BY <1>1 DEF RecordRateLimit, github, Call
  <1>4. PICK h \in Nat \cup {None} : h = call[c].reply.remaining
    BY <1>1 DEF Call, Reply
  <1>5. \A d \in Callers \ {c} : (Opens(d)' <=> Opens(d)) /\ (Closes(d)' <=> Closes(d))
    BY <1>3 DEF Opens, Closes
  <1>6. ~Opens(c)' /\ ~Closes(c)'
    BY <1>3 DEF Opens, Closes
  <1>7. remaining' + blind' >= remaining + blind
    BY <1>2, <1>3
  <1>8. CASE h = None
    <2>1. ~Opens(c) /\ ~Closes(c)
      <3>1. ~(h >= RateLimitFloor)
        BY <1>2, <1>8 DEF None
      <3> QED
        BY <1>4, <1>8, <3>1 DEF Opens, Closes
    <2>2. UNCHANGED <<rateRemaining, rateKnown>>
      <3>1. ~HasHeader(call[c].reply)
        BY <1>4, <1>8 DEF HasHeader
      <3>2. rateKnown \in BOOLEAN
        BY DEF TypeOK
      <3> QED
        BY <3>1, <3>2 DEF RecordRateLimit
    <2>3. BelowFloor' <=> BelowFloor
      BY <2>2 DEF BelowFloor
    <2>4. c \in Ready' => c \in Ready
      BY <1>3, <2>1, <2>3 DEF Ready, Others
    <2> QED
      BY <1>3, <1>6, <1>7, <2>1, <2>2, <2>4, SpendOther
  <1>9. CASE h # None /\ h < RateLimitFloor
    <2>1. ~Opens(c)
      BY <1>2, <1>4, <1>9 DEF Opens
    <2>2. Others' = Others
      BY <1>5, <1>6, <2>1 DEF Others
    <2>3. BelowFloor'
      <3>1. HasHeader(call[c].reply)
        BY <1>4, <1>9 DEF HasHeader
      <3>2. rateRemaining' = h /\ rateKnown'
        BY <1>4, <3>1 DEF RecordRateLimit
      <3> QED
        BY <1>9, <3>2 DEF BelowFloor
    <2>4. Ready' \subseteq Ready
      <3>1. \A d \in Ready' : d # c /\ call'[d].pc = "armed" /\ d \in Callers
        BY <1>3, <2>3 DEF Ready, Others
      <3> QED
        BY <1>3, <3>1, ArmedReady
    <2> QED
      BY <1>7, <2>2, <2>4, SpendQuiet
  <1>10. CASE h # None /\ ~(h < RateLimitFloor)
    <2>1. Opens(c)
      BY <1>2, <1>3, <1>4, <1>10 DEF Opens
    <2>2. c \in Callers \ Others /\ Others' = Others \cup {c}
      BY <1>5, <1>6, <2>1 DEF Others
    <2> QED
      BY <1>3, <2>2, SpendOpen
  <1> QED
    BY <1>8, <1>9, <1>10

LEMMA NextSpend == TypeOK /\ TypeOK' /\ SpendInv /\ [Next]_vars => SpendInv'
  <1> SUFFICES ASSUME TypeOK, TypeOK', SpendInv, [Next]_vars PROVE SpendInv'
    OBVIOUS
  <1>1. remaining \in Nat /\ blind \in Nat /\ Quota \in Nat
    BY SpendTypes, TimeAssumption
  <1>2. ASSUME UNCHANGED <<call, rateRemaining, rateKnown>>,
               remaining' + blind' >= remaining + blind
        PROVE  SpendInv'
    <2>1. Others' = Others /\ Ready' = Ready
      BY <1>2 DEF Others, Ready, Opens, Closes, BelowFloor
    <2> QED
      BY <1>2, <2>1, SpendQuiet
  <1>3. ASSUME UNCHANGED vars \/ Tick PROVE SpendInv'
    <2>1. UNCHANGED <<call, rateRemaining, rateKnown, remaining, blind>>
      BY <1>3 DEF vars, Tick, client, github
    <2>2. remaining' + blind' >= remaining + blind
      BY <1>1, <2>1
    <2> QED
      BY <1>2, <2>1, <2>2
  <1>4. ASSUME RateReset PROVE SpendInv'
    <2>1. /\ UNCHANGED <<call, rateRemaining, rateKnown, blind>>
          /\ remaining' = Quota /\ remaining < Quota
      BY <1>4 DEF RateReset, client
    <2>2. remaining' + blind' >= remaining + blind
      BY <1>1, <2>1
    <2> QED
      BY <1>2, <2>1, <2>2
  <1>5. ASSUME NEW c \in Callers,
               RefuseInvalid(c) \/ \E k \in Keys : ServeCached(c, k) \/ Refuse(c, k)
        PROVE  SpendInv'
    BY <1>3, <1>5 DEF RefuseInvalid, ServeCached, Refuse
  <1> QED
    BY <1>3, <1>4, <1>5, ArmSpend, EndSpend, FailureSpend, LimitSpend, ServeSpend, RecordSpend
       DEF Next, Mint, Exchange, Proceed

(* How the callers that may open the floor again limit what is spent.      *)
THEOREM SpendInvariant == Spec => []SpendInv
  BY InitSpend, NextSpend, TypeCorrect, PTL DEF Spec

(* OvershootBounded: every caller spends at most one call between two      *)
(* headers that open the floor, and each old header opens it only once     *)
(* (BelowFloor, recordRateLimit).                                          *)
THEOREM OvershootCorrect == Spec => []OvershootBounded
  <1>1. ASSUME TypeOK, SpendInv PROVE OvershootBounded
    <2>1. PICK k, r, l, n : /\ k = Cardinality(Others) /\ r = Cardinality(Ready)
                            /\ l = remaining + blind /\ n = Cardinality(Callers)
      OBVIOUS
    <2>2. /\ k \in Nat /\ r \in Nat /\ n \in Nat /\ k <= n /\ l \in Nat /\ Target \in Nat
      BY <1>1, <2>1, SpendTypes
    <2>3. k * (k + 1) <= n * (n + 1) /\ n * (n + 1) \in Nat /\ k * (k + 1) \in Nat
      BY <2>2, Triangle
    <2>4. 2 * l + k * (k + 1) >= 2 * (Target + r)
      BY <1>1, <2>1 DEF SpendInv, Spending
    <2>5. 2 * l + n * (n + 1) >= 2 * Target
      BY <2>2, <2>3, <2>4
    <2>6. PICK x \in Nat : x = n * (n + 1)
      BY <2>3
    <2>7. l + x \div 2 >= Target
      BY <2>2, <2>5, <2>6
    <2> QED
      BY <2>1, <2>6, <2>7 DEF OvershootBounded, Target
  <1> QED
    BY <1>1, SpendInvariant, TypeCorrect, PTL
=============================================================================
