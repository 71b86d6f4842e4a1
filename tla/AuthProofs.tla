------------------------------ MODULE AuthProofs ------------------------------
(***************************************************************************)
(* What is proved of package auth: the key cache, then the sessions; the   *)
(* two modules share no state.                                             *)
(*                                                                         *)
(* AuthKeys, for any number of requests, keys, tokens and failures and any *)
(* lifetime of the cache.  Only the holder of the mutex replaces the       *)
(* cache, and it read its clock after the cache was last dated (Dates); a  *)
(* withdrawal is dated after the fetch of every set that still holds the   *)
(* key (Ages).                                                             *)
(*                                                                         *)
(* AuthSession, for any number of requests, grants, logins and faults.     *)
(* That a session survives its own concurrent refreshes is not inductive:  *)
(* until a mishap, every refresh under way uses the same token (OneRoot),  *)
(* what answers carry has not been used yet (Carriers), and a used token   *)
(* in the jar has its successor on the way (OnItsWay).                     *)
(***************************************************************************)
EXTENDS AuthKeys, AuthSession, TLAPS

Fetching(r) == call[r].pc \in {"fetch", "answered"}

Mutex ==
    /\ \A r \in Requests : Fetching(r) <=> r \in holder
    /\ \A r, q \in holder : r = q

Dates ==
    /\ \A r \in Requests : call[r].asked <= now
    /\ \A r \in holder : fetchedAt <= call[r].asked

Ages ==
    /\ \A k \in Kids : withdrawnAt[k] <= now
    /\ \A k \in published : withdrawnAt[k] = None
    /\ \A k \in keys : withdrawnAt[k] # None => withdrawnAt[k] >= fetchedAt
    /\ \A r \in Requests : call[r].pc = "answered" => \A k \in call[r].answer :
          withdrawnAt[k] # None => withdrawnAt[k] >= call[r].asked

Knowledge ==
    \A r \in Requests : call[r].known =>
        /\ Kid(r) \in published \/ withdrawnAt[Kid(r)] # None
        /\ call[r].pc = "answered" => Kid(r) \in call[r].answer \/ withdrawnAt[Kid(r)] # None

Open == \A r \in Requests : Working(r) => call[r].err = "none"

IInv == TypeOK /\ Mutex /\ Dates /\ Ages /\ Knowledge /\ Open
-------------------------------------------------------------------------------
LEMMA EndedType ==
  ASSUME NEW err \in {"none", "accepted", "unknown_key", "mismatch", "jwks_unavailable", "token_expired"}
  PROVE  /\ Ended(err) \in Call /\ Ended(err).pc = "idle" /\ ~Ended(err).known
         /\ Ended(err).asked = 0 /\ Ended(err).err = err
<1>1. (CHOOSE t \in Tokens : TRUE) \in Tokens
  BY TTLAssumption
<1>2. {} \in SUBSET Kids
  OBVIOUS
<1> QED BY <1>1, <1>2 DEF Ended, Call

LEMMA FieldTypes ==
  ASSUME TypeOK
  PROVE  /\ \A r \in Requests : /\ call[r] \in Call /\ call[r].asked \in Nat
                                /\ call[r].answer \subseteq Kids /\ Kid(r) \in Kids
                                /\ call[r].token \in Tokens
         /\ \A k \in Kids : withdrawnAt[k] \in Nat \cup {None}
         /\ now \in Nat /\ fetchedAt \in Nat \cup {None} /\ fetchedAt <= now
<1>1. \A r \in Requests : call[r] \in Call
  BY DEF TypeOK
<1>2. \A r \in Requests : call[r].asked \in Nat /\ call[r].answer \subseteq Kids
                          /\ call[r].token \in Tokens
  BY <1>1 DEF Call
<1>3. \A r \in Requests : Kid(r) \in Kids
  BY <1>2, TTLAssumption DEF Kid
<1>4. \A k \in Kids : withdrawnAt[k] \in Nat \cup {None}
  BY DEF TypeOK
<1>5. now \in Nat /\ fetchedAt \in Nat \cup {None} /\ fetchedAt <= now
  BY TTLAssumption DEF TypeOK, None
<1> QED BY <1>1, <1>2, <1>3, <1>4, <1>5

LEMMA InitInv == Init => IInv
<1> SUFFICES ASSUME Init PROVE IInv
  OBVIOUS
<1>1. Idle \in Call /\ Idle.pc = "idle" /\ ~Idle.known /\ Idle.asked = 0
      /\ Idle.err = "none"
  BY EndedType DEF Idle
<1>2. \A r \in Requests : call[r] = Idle
  BY DEF Init
<1>3. TypeOK
  <2>1. call \in [Requests -> Call]
    BY <1>1 DEF Init
  <2>2. withdrawnAt \in [Kids -> Nat \cup {None}] /\ published \subseteq Kids
    BY DEF Init
  <2> QED BY <2>1, <2>2, TTLAssumption DEF Init, TypeOK
<1>4. Mutex /\ Dates /\ Knowledge /\ Open
  <2>1. \A r \in Requests : /\ call[r].pc = "idle" /\ ~call[r].known
                            /\ call[r].asked = 0 /\ call[r].err = "none"
    BY <1>1, <1>2
  <2>2. now = 0 /\ holder = {}
    BY DEF Init
  <2>3. Mutex
    BY <2>1, <2>2 DEF Mutex, Fetching
  <2>5. Dates
    BY <2>1, <2>2 DEF Dates
  <2>4. Knowledge /\ Open
    BY <2>1 DEF Knowledge, Open, Working
  <2> QED BY <2>3, <2>4, <2>5
<1>5. Ages
  <2>1. /\ now = 0 /\ keys = {} /\ published \subseteq Kids
        /\ \A k \in Kids : withdrawnAt[k] = None
    BY DEF Init
  <2>2. \A r \in Requests : call[r].pc # "answered"
    BY <1>1, <1>2
  <2> QED BY <2>1, <2>2 DEF Ages, None
<1> QED BY <1>3, <1>4, <1>5 DEF IInv

(* A step of one request that holds no fetched answer afterwards, and      *)
(* leaves the cache alone.                                                 *)
LEMMA LocalStep ==
  ASSUME IInv, NEW r \in Requests, NEW c \in Call, call' = [call EXCEPT ![r] = c],
         UNCHANGED <<now, issuer, cache>>, failures' \in Nat,
         c.pc # "answered", c.asked <= now,
         holder' = IF c.pc = "fetch" THEN holder \cup {r} ELSE holder \ {r},
         c.pc = "fetch" => \A q \in holder : q = r,
         c.pc = "fetch" => c.asked >= fetchedAt,
         c.known => c.token.kid \in published \/ withdrawnAt[c.token.kid] # None,
         c.pc # "idle" => c.err = "none"
  PROVE  IInv'
<1> USE DEF IInv
<1>1. UNCHANGED <<now, published, withdrawnAt, keys, fetchedAt>>
  BY DEF issuer, cache
<1>2. call'[r] = c /\ \A q \in Requests \ {r} : call'[q] = call[q]
  BY DEF TypeOK
<1>3. TypeOK'
  BY <1>1 DEF TypeOK
<1>4. Mutex'
  <2>1. ASSUME NEW q \in Requests PROVE Fetching(q)' <=> q \in holder'
    <3>1. CASE q = r
      BY <1>2, <3>1 DEF Fetching
    <3>2. CASE q # r
      BY <1>2, <3>2 DEF Mutex, Fetching
    <3> QED BY <3>1, <3>2
  <2>2. \A p, q \in holder' : p = q
    BY DEF Mutex
  <2> QED BY <2>1, <2>2 DEF Mutex
<1>5. Dates'
  <2>1. \A q \in holder' : q \in Requests
    BY DEF TypeOK
  <2> QED BY <1>1, <1>2, <2>1 DEF Dates
<1>6. Ages'
  BY <1>1, <1>2 DEF Ages
<1>7. Knowledge'
  <2>1. ASSUME NEW q \in Requests, call'[q].known
        PROVE  /\ Kid(q)' \in published \/ withdrawnAt[Kid(q)'] # None
               /\ call'[q].pc = "answered" =>
                    Kid(q)' \in call'[q].answer \/ withdrawnAt[Kid(q)'] # None
    <3>1. CASE q = r
      BY <1>2, <2>1, <3>1 DEF Kid
    <3>2. CASE q # r
      BY <1>2, <2>1, <3>2 DEF Kid, Knowledge
    <3> QED BY <3>1, <3>2
  <2> QED BY <1>1, <2>1 DEF Knowledge
<1>8. Open'
  BY <1>2 DEF Open, Working
<1> QED BY <1>3, <1>4, <1>5, <1>6, <1>7, <1>8

(* The step that ends a call.                                              *)
LEMMA ReturnStep ==
  ASSUME IInv, NEW r \in Requests,
         NEW err \in {"none", "accepted", "unknown_key", "mismatch", "jwks_unavailable", "token_expired"},
         Return(r, err), UNCHANGED <<now, issuer, cache>>, failures' \in Nat,
         holder' = holder \ {r}
  PROVE  IInv'
<1> DEFINE c == Ended(err)
<1>1. c \in Call /\ c.pc = "idle" /\ ~c.known /\ c.asked = 0
  BY EndedType
<1>2. call' = [call EXCEPT ![r] = c]
  BY DEF Return, Set
<1>3. now \in Nat
  BY TTLAssumption DEF IInv, TypeOK
<1> HIDE DEF c
<1>4. /\ c.pc # "answered" /\ c.pc # "fetch" /\ c.asked <= now
      /\ holder' = IF c.pc = "fetch" THEN holder \cup {r} ELSE holder \ {r}
  BY <1>1, <1>3
<1> QED BY <1>1, <1>2, <1>4, LocalStep

(* Any outcome of the lookup, with or without the mutex held before.       *)
LEMMA LookupStep ==
  ASSUME IInv, NEW r \in Requests, Working(r),
         NEW c \in Call, c.asked <= now, c.token = call[r].token, c.known = call[r].known,
         c.err = call[r].err,
         Use(r, c) \/ Return(r, "unknown_key") \/ Return(r, "jwks_unavailable"),
         UNCHANGED <<now, issuer, cache>>, failures' \in Nat, holder' = holder \ {r}
  PROVE  IInv'
<1>1. CASE call' = [call EXCEPT ![r] = [c EXCEPT !.pc = "claims"]]
  <2> DEFINE d == [c EXCEPT !.pc = "claims"]
  <2>1. d \in Call /\ d.pc = "claims" /\ d.asked <= now /\ d.token = call[r].token
        /\ d.known = call[r].known /\ d.err = call[r].err
    BY DEF Call
  <2>3. d.known => d.token.kid \in published \/ withdrawnAt[d.token.kid] # None
    BY <2>1 DEF IInv, Knowledge, Kid
  <2>4. d.err = "none"
    BY <2>1 DEF IInv, Open
  <2> HIDE DEF d
  <2>5. call' = [call EXCEPT ![r] = d]
    BY <1>1 DEF d
  <2>6. /\ d.pc # "answered" /\ d.pc # "fetch" /\ d.asked <= now
        /\ holder' = IF d.pc = "fetch" THEN holder \cup {r} ELSE holder \ {r}
    BY <2>1
  <2> QED BY <2>1, <2>3, <2>4, <2>5, <2>6, LocalStep
<1>2. CASE Return(r, "mismatch") \/ Return(r, "unknown_key") \/ Return(r, "jwks_unavailable")
  BY <1>2, ReturnStep
<1> QED BY <1>1, <1>2 DEF Use, Set

LEMMA StartInv == ASSUME IInv, NEW r \in Requests, Start(r) PROVE IInv'
<1>1. PICK t \in Tokens :
        call' = [call EXCEPT ![r] = [Idle EXCEPT !.pc = "lock", !.token = t,
                                                 !.known = t.kid \in published]]
  BY DEF Start, Set
<1> DEFINE c == [Idle EXCEPT !.pc = "lock", !.token = t, !.known = t.kid \in published]
<1>2. Idle \in Call /\ Idle.asked = 0 /\ Idle.err = "none"
  BY EndedType DEF Idle
<1>3. c \in Call /\ c.pc = "lock" /\ c.token = t /\ c.asked = 0 /\ c.err = "none"
  <2>1. (t.kid \in published) \in BOOLEAN
    OBVIOUS
  <2> QED BY <1>2, <2>1 DEF Call
<1>10. c.known => t.kid \in published
  BY <1>2 DEF Call
<1>4. 0 <= now /\ failures \in Nat
  BY FieldTypes DEF IInv, TypeOK
<1>5. r \notin holder
  BY DEF IInv, Mutex, Fetching, Start
<1> HIDE DEF c
<1>6. call' = [call EXCEPT ![r] = c]
  BY <1>1 DEF c
<1>7. holder' = holder \ {r} /\ failures' \in Nat /\ UNCHANGED <<now, issuer, cache>>
  BY <1>4, <1>5 DEF Start
<1>8. /\ c.pc # "answered" /\ c.pc # "fetch" /\ c.asked <= now
      /\ holder' = IF c.pc = "fetch" THEN holder \cup {r} ELSE holder \ {r}
  BY <1>3, <1>4, <1>7
<1>9. c.known => c.token.kid \in published \/ withdrawnAt[c.token.kid] # None
  BY <1>3, <1>10
<1> QED BY <1>3, <1>6, <1>7, <1>8, <1>9, LocalStep

LEMMA HitInv == ASSUME IInv, NEW r \in Requests, Hit(r) PROVE IInv'
<1>1. /\ call[r] \in Call /\ call[r].pc = "lock" /\ Working(r) /\ failures \in Nat
      /\ call[r].asked <= now
  BY FieldTypes DEF IInv, TypeOK, Dates, Hit, Working
<1>2. r \notin holder
  BY DEF IInv, Mutex, Fetching, Hit
<1>3. holder' = holder \ {r} /\ failures' \in Nat /\ UNCHANGED <<now, issuer, cache>>
  BY <1>1, <1>2 DEF Hit
<1>4. Use(r, call[r]) \/ Return(r, "unknown_key")
  BY DEF Hit, Lookup
<1> QED BY <1>1, <1>3, <1>4, LookupStep
LEMMA MissInv == ASSUME IInv, NEW r \in Requests, Miss(r) PROVE IInv'
<1> DEFINE c == [call[r] EXCEPT !.pc = "fetch", !.asked = now]
<1>1. /\ call[r] \in Call /\ now \in Nat /\ failures' \in Nat /\ fetchedAt <= now
      /\ UNCHANGED <<now, issuer, cache>>
  BY FieldTypes DEF IInv, TypeOK, Miss
<1>2. c \in Call /\ c.pc = "fetch" /\ c.asked = now /\ c.token = call[r].token
      /\ c.known = call[r].known /\ c.err = call[r].err
  BY <1>1 DEF Call
<1>3. call[r].err = "none" /\ holder = {} /\ holder' = holder \cup {r}
  BY DEF IInv, Open, Working, Miss, Lockable
<1>4. call[r].known => Kid(r) \in published \/ withdrawnAt[Kid(r)] # None
  BY DEF IInv, Knowledge
<1>5. call' = [call EXCEPT ![r] = c]
  BY DEF Miss, Set
<1> HIDE DEF c
<1>6. /\ c.pc # "answered" /\ c.asked <= now /\ c.asked >= fetchedAt
      /\ holder' = IF c.pc = "fetch" THEN holder \cup {r} ELSE holder \ {r}
      /\ \A q \in holder : q = r
  BY <1>1, <1>2, <1>3
<1>7. c.known => c.token.kid \in published \/ withdrawnAt[c.token.kid] # None
  BY <1>2, <1>4 DEF Kid
<1> QED BY <1>1, <1>2, <1>3, <1>5, <1>6, <1>7, LocalStep

LEMMA NotFetchedInv == ASSUME IInv, NEW r \in Requests, NotFetched(r) PROVE IInv'
<1> DEFINE c == [call[r] EXCEPT !.asked = 0]
<1>1. /\ call[r] \in Call /\ now \in Nat /\ failures' \in Nat /\ Working(r)
      /\ UNCHANGED <<now, issuer, cache>> /\ holder' = holder \ {r}
  BY FieldTypes DEF IInv, TypeOK, NotFetched, Working, Released
<1>2. c \in Call /\ c.asked <= now /\ c.token = call[r].token
      /\ c.known = call[r].known /\ c.err = call[r].err
  BY <1>1 DEF Call
<1>3. Use(r, c) \/ Return(r, "jwks_unavailable")
  BY DEF NotFetched
<1> HIDE DEF c
<1> QED BY <1>1, <1>2, <1>3, LookupStep

LEMMA ClaimsInv == ASSUME IInv, NEW r \in Requests, Claims(r) PROVE IInv'
<1>1. PICK err \in {"accepted", "token_expired"} : Return(r, err)
  BY DEF Claims
<1>2. /\ failures' \in Nat /\ UNCHANGED <<now, issuer, cache>> /\ r \notin holder
      /\ holder' = holder
  BY DEF IInv, TypeOK, Claims, Mutex, Fetching
<1>3. holder' = holder \ {r}
  BY <1>2
<1> QED BY <1>1, <1>2, <1>3, ReturnStep

LEMMA IssuerAnswersInv == ASSUME IInv, NEW r \in Requests, IssuerAnswers(r) PROVE IInv'
<1> USE DEF IInv
<1> DEFINE c == [call[r] EXCEPT !.pc = "answered", !.answer = published]
<1>1. call[r] \in Call /\ published \subseteq Kids /\ call[r].pc = "fetch"
  BY DEF TypeOK, IssuerAnswers
<1>2. c \in Call /\ c.pc = "answered" /\ c.answer = published /\ c.asked = call[r].asked
      /\ c.token = call[r].token /\ c.known = call[r].known /\ c.err = call[r].err
  BY <1>1 DEF Call
<1>3. call' = [call EXCEPT ![r] = c]
  BY DEF IssuerAnswers, Set
<1>4. UNCHANGED <<now, published, withdrawnAt, keys, fetchedAt, holder, failures>>
  BY DEF IssuerAnswers, issuer, cache
<1> HIDE DEF c
<1>5. call'[r] = c /\ \A q \in Requests \ {r} : call'[q] = call[q]
  BY <1>3 DEF TypeOK
<1>6. TypeOK'
  BY <1>2, <1>3, <1>4 DEF TypeOK
<1>7. Mutex'
  BY <1>1, <1>2, <1>4, <1>5 DEF Mutex, Fetching
<1>8. Dates'
  <2>1. holder \subseteq Requests
    BY DEF TypeOK
  <2>2. \A q \in Requests : call'[q].asked = call[q].asked
    BY <1>2, <1>5
  <2> QED BY <1>4, <2>1, <2>2 DEF Dates
<1>9. Ages'
  <2>1. ASSUME NEW q \in Requests, call'[q].pc = "answered", NEW k \in call'[q].answer,
               withdrawnAt[k] # None
        PROVE  withdrawnAt[k] >= call'[q].asked
    BY <1>2, <1>5, <2>1 DEF Ages
  <2> QED BY <1>4, <2>1 DEF Ages
<1>10. Knowledge'
  <2>1. ASSUME NEW q \in Requests, call'[q].known
        PROVE  /\ Kid(q)' \in published \/ withdrawnAt[Kid(q)'] # None
               /\ call'[q].pc = "answered" =>
                    Kid(q)' \in call'[q].answer \/ withdrawnAt[Kid(q)'] # None
    BY <1>2, <1>5, <2>1 DEF Kid, Knowledge
  <2> QED BY <1>4, <2>1 DEF Knowledge
<1>11. Open'
  BY <1>1, <1>2, <1>5 DEF Open, Working
<1> QED BY <1>6, <1>7, <1>8, <1>9, <1>10, <1>11
(* The cache after the fetch, whatever becomes of the call: the key set is *)
(* as old as the clock that dates it.                                      *)
LEMMA RefetchedInv == ASSUME IInv, NEW r \in Requests, Refetched(r) PROVE IInv'
<1> USE DEF IInv
<1> DEFINE b == [call[r] EXCEPT !.asked = 0, !.answer = {}]
<1>1. /\ call[r] \in Call /\ call[r].pc = "answered" /\ r \in holder
      /\ keys' = call[r].answer /\ fetchedAt' = call[r].asked
      /\ call[r].answer \subseteq Kids /\ call[r].asked \in Nat /\ call[r].asked <= now
  BY FieldTypes DEF Refetched, Cached, Dated, Mutex, Fetching, Dates
<1>2. UNCHANGED <<now, published, withdrawnAt, failures>>
  BY DEF Refetched, issuer
<1>3. holder' = {}
  BY <1>1 DEF Refetched, Released, Mutex
<1>4. PICK c \in Call :
        /\ call' = [call EXCEPT ![r] = c]
        /\ c.pc \notin {"fetch", "answered"} /\ c.asked = 0
        /\ c.known => call[r].known /\ c.token = call[r].token
        /\ c.pc # "idle" => c.err = "none"
  <2>1. /\ b \in Call /\ b.asked = 0 /\ b.token = call[r].token /\ b.known = call[r].known
        /\ b.err = call[r].err
    <3>1. {} \in SUBSET Kids
      OBVIOUS
    <3> QED BY <1>1, <3>1 DEF Call
  <2>2. Lookup(r, b, call[r].answer)
    BY DEF Refetched
  <2>3. call[r].err = "none"
    BY <1>1 DEF Open, Working
  <2>4. CASE Set(r, [b EXCEPT !.pc = "claims"])
    <3> DEFINE c == [b EXCEPT !.pc = "claims"]
    <3> HIDE DEF b
    <3>1. c \in Call /\ c.pc = "claims" /\ c.asked = 0 /\ c.token = call[r].token
          /\ c.known = call[r].known /\ c.err = "none"
      BY <2>1, <2>3 DEF Call
    <3>2. call' = [call EXCEPT ![r] = c]
      BY <2>4 DEF Set
    <3> HIDE DEF c
    <3> QED BY <3>1, <3>2
  <2>5. ASSUME NEW err \in {"mismatch", "unknown_key"}, Return(r, err)
        PROVE  \E c \in Call :
                 /\ call' = [call EXCEPT ![r] = c]
                 /\ c.pc \notin {"fetch", "answered"} /\ c.asked = 0
                 /\ c.known => call[r].known /\ c.token = call[r].token
                 /\ c.pc # "idle" => c.err = "none"
    <3> DEFINE c == Ended(err)
    <3>1. c \in Call /\ c.pc = "idle" /\ ~c.known /\ c.asked = 0
      BY EndedType
    <3>2. call' = [call EXCEPT ![r] = c]
      BY <2>5 DEF Return, Set
    <3> HIDE DEF c
    <3> QED BY <3>1, <3>2
  <2> HIDE DEF b
  <2> QED BY <2>2, <2>4, <2>5 DEF Lookup, Use
<1> HIDE DEF b
<1>5. call'[r] = c /\ \A q \in Requests \ {r} : call'[q] = call[q]
  BY <1>4 DEF TypeOK
<1>6. TypeOK'
  <2>1. call' \in [Requests -> Call]
    BY <1>4 DEF TypeOK
  <2>2. fetchedAt' \in 0..now
    BY <1>1, FieldTypes
  <2> QED BY <1>1, <1>2, <1>3, <2>1, <2>2 DEF TypeOK
<1>7. Mutex'
  <2>1. \A q \in Requests : call'[q].pc \notin {"fetch", "answered"}
    BY <1>1, <1>4, <1>5 DEF Mutex, Fetching
  <2> QED BY <1>3, <2>1 DEF Mutex, Fetching
<1>8. Dates'
  <2>1. \A q \in Requests : call'[q].asked <= now
    BY <1>4, <1>5, FieldTypes DEF Dates
  <2> QED BY <1>2, <1>3, <2>1 DEF Dates
<1>9. Ages'
  <2>1. \A q \in Requests : call'[q].pc # "answered"
    BY <1>3, <1>7 DEF Mutex, Fetching
  <2>2. \A k \in keys' : withdrawnAt[k] # None => withdrawnAt[k] >= fetchedAt'
    BY <1>1 DEF Ages
  <2> QED BY <1>2, <2>1, <2>2 DEF Ages
<1>10. Knowledge'
  <2>1. \A q \in Requests : call'[q].pc # "answered"
    BY <1>3, <1>7 DEF Mutex, Fetching
  <2>2. ASSUME NEW q \in Requests, call'[q].known
        PROVE  Kid(q)' \in published \/ withdrawnAt[Kid(q)'] # None
    <3>1. CASE q = r
      BY <1>4, <1>5, <2>2, <3>1 DEF Kid, Knowledge
    <3>2. CASE q # r
      BY <1>5, <2>2, <3>2 DEF Kid, Knowledge
    <3> QED BY <3>1, <3>2
  <2> QED BY <1>2, <2>1, <2>2 DEF Knowledge
<1>11. Open'
  BY <1>4, <1>5 DEF Open, Working
<1> QED BY <1>6, <1>7, <1>8, <1>9, <1>10, <1>11

(* Whatever the requests do not change of what they hold.                  *)
LEMMA PublishInv == ASSUME IInv, NEW k \in Kids, Publish(k) PROVE IInv'
<1> USE DEF IInv
<1>1. /\ published' = published \cup {k} /\ withdrawnAt[k] = None
      /\ UNCHANGED <<now, withdrawnAt, keys, fetchedAt, holder, call, failures>>
  BY DEF Publish, cache
<1>2. TypeOK' /\ Mutex' /\ Dates'
  BY <1>1 DEF TypeOK, Mutex, Fetching, Dates
<1>3. Ages'
  BY <1>1 DEF Ages
<1>4. Knowledge' /\ Open'
  BY <1>1 DEF Knowledge, Kid, Open, Working
<1> QED BY <1>2, <1>3, <1>4

LEMMA WithdrawInv == ASSUME IInv, NEW k \in Kids, Withdraw(k) PROVE IInv'
<1> USE DEF IInv
<1>1. /\ published' = published \ {k} /\ withdrawnAt' = [withdrawnAt EXCEPT ![k] = now]
      /\ UNCHANGED <<now, keys, fetchedAt, holder, call, failures>>
  BY DEF Withdraw, cache
<1>2. /\ now \in Nat /\ now # None /\ fetchedAt <= now
      /\ withdrawnAt'[k] = now /\ \A j \in Kids \ {k} : withdrawnAt'[j] = withdrawnAt[j]
  BY <1>1, FieldTypes DEF TypeOK, None
<1>3. TypeOK'
  BY <1>1, <1>2 DEF TypeOK
<1>4. Mutex' /\ Dates'
  BY <1>1 DEF Mutex, Fetching, Dates
<1>5. Ages'
  <2>1. \A j \in Kids : withdrawnAt'[j] <= now
    BY <1>2 DEF Ages
  <2>2. \A j \in published' : withdrawnAt'[j] = None
    BY <1>1, <1>2 DEF TypeOK, Ages
  <2>3. \A j \in keys : withdrawnAt'[j] # None => withdrawnAt'[j] >= fetchedAt
    BY <1>2 DEF TypeOK, Ages
  <2>4. ASSUME NEW r \in Requests, call[r].pc = "answered", NEW j \in call[r].answer,
               withdrawnAt'[j] # None
        PROVE  withdrawnAt'[j] >= call[r].asked
    BY <1>2, <2>4, FieldTypes DEF Ages, Dates
  <2> QED BY <1>1, <2>1, <2>2, <2>3, <2>4 DEF Ages
<1>6. Knowledge'
  <2>1. ASSUME NEW r \in Requests PROVE Kid(r) \in Kids
    BY FieldTypes
  <2> QED BY <1>1, <1>2, <2>1 DEF Knowledge, Kid
<1>7. Open'
  BY <1>1 DEF Open, Working
<1> QED BY <1>3, <1>4, <1>5, <1>6, <1>7

LEMMA TickInv == ASSUME IInv, Tick PROVE IInv'
<1> USE DEF IInv
<1>1. /\ now \in 0..MaxTime /\ now' \in 0..MaxTime /\ now' = now + 1 /\ now \in Nat
      /\ UNCHANGED <<published, withdrawnAt, keys, fetchedAt, holder, call, failures>>
  BY TTLAssumption DEF TypeOK, Tick, issuer, cache
<1>2. TypeOK'
  BY <1>1, FieldTypes DEF TypeOK
<1>3. Mutex'
  BY <1>1 DEF Mutex, Fetching
<1>4. Dates'
  BY <1>1, FieldTypes DEF Dates
<1>5. Ages'
  BY <1>1, FieldTypes DEF Ages, None
<1>6. Knowledge' /\ Open'
  BY <1>1 DEF Knowledge, Kid, Open, Working
<1> QED BY <1>2, <1>3, <1>4, <1>5, <1>6

LEMMA Inductive == IInv /\ [Next]_vars => IInv'
<1> SUFFICES ASSUME IInv, [Next]_vars PROVE IInv'
  OBVIOUS
<1>1. ASSUME NEW r \in Requests, Start(r) \/ Hit(r) \/ Miss(r) \/ Claims(r) PROVE IInv'
  BY <1>1, StartInv, HitInv, MissInv, ClaimsInv
<1>2. ASSUME NEW r \in Requests, Fetch(r) PROVE IInv'
  BY <1>2, IssuerAnswersInv, RefetchedInv, NotFetchedInv DEF Fetch
<1>3. ASSUME NEW k \in Kids, Publish(k) \/ Withdraw(k) PROVE IInv'
  BY <1>3, PublishInv, WithdrawInv
<1>4. CASE UNCHANGED vars
  BY <1>4 DEF vars, issuer, cache, IInv, TypeOK, Mutex, Fetching, Dates, Ages, Knowledge,
              Kid, Open, Working
<1> QED BY <1>1, <1>2, <1>3, <1>4, TickInv DEF Next

LEMMA Invariance == Spec => []IInv
<1> QED BY InitInv, Inductive, PTL DEF Spec
-------------------------------------------------------------------------------
(* The steps that change what the call of r says.                          *)
LEMMA Movers ==
  ASSUME IInv, Next, NEW r \in Requests, call'[r] # call[r]
  PROVE  Start(r) \/ Hit(r) \/ Miss(r) \/ Fetch(r) \/ Claims(r)
<1> USE DEF IInv
<1>1. call \in [Requests -> Call]
  BY DEF TypeOK
<1>2. ASSUME NEW q \in Requests, q # r, NEW c, call' = [call EXCEPT ![q] = c]
      PROVE  FALSE
  BY <1>1, <1>2
<1>3. ASSUME NEW q \in Requests, q # r PROVE ~(Start(q) \/ Miss(q) \/ IssuerAnswers(q))
  BY <1>2, <1>3 DEF Start, Miss, IssuerAnswers, Set
<1>4. ASSUME NEW q \in Requests, q # r PROVE ~(Hit(q) \/ Refetched(q))
  BY <1>2, <1>4 DEF Hit, Refetched, Lookup, Use, Return, Set
<1>5. ASSUME NEW q \in Requests, q # r PROVE ~(NotFetched(q) \/ Claims(q))
  BY <1>2, <1>5 DEF NotFetched, Claims, Use, Return, Set
<1>6. ~(Tick \/ \E k \in Kids : Publish(k) \/ Withdraw(k))
  BY DEF Tick, Publish, Withdraw
<1>7. PICK q \in Requests : Start(q) \/ Hit(q) \/ Miss(q) \/ Fetch(q) \/ Claims(q)
  BY <1>6 DEF Next
<1>8. q = r
  BY <1>3, <1>4, <1>5, <1>7 DEF Fetch
<1> QED BY <1>7, <1>8

(* The error or the pc a step of r can give its call.                      *)
LEMMA Outcomes ==
  ASSUME IInv, NEW r \in Requests
  PROVE  /\ Start(r) => call'[r].pc = "lock"
         /\ Miss(r) => call'[r].pc = "fetch" /\ call'[r].err = "none"
         /\ IssuerAnswers(r) => call'[r].pc = "answered" /\ call'[r].err = "none"
         /\ \A err \in {"accepted", "unknown_key", "mismatch", "jwks_unavailable", "token_expired"} :
               Return(r, err) => call'[r].pc = "idle" /\ call'[r].err = err
<1> USE DEF IInv
<1>1. call \in [Requests -> Call]
  BY DEF TypeOK
<1>2. Idle \in Call
  BY EndedType DEF Idle
<1>3. Start(r) => call'[r].pc = "lock"
  BY <1>1, <1>2 DEF Start, Set, Call
<1>4. Miss(r) => call'[r].pc = "fetch" /\ call'[r].err = "none"
  BY <1>1 DEF Miss, Set, Call, Open, Working
<1>5. IssuerAnswers(r) => call'[r].pc = "answered" /\ call'[r].err = "none"
  BY <1>1 DEF IssuerAnswers, Set, Call, Open, Working
<1>6. ASSUME NEW err \in {"accepted", "unknown_key", "mismatch", "jwks_unavailable", "token_expired"},
             Return(r, err)
      PROVE  call'[r].pc = "idle" /\ call'[r].err = err
  BY <1>1, <1>6, EndedType DEF Return, Set
<1> QED BY <1>3, <1>4, <1>5, <1>6
-------------------------------------------------------------------------------
(* The variables keep their types.                                         *)
THEOREM TypeCorrect == Spec => []TypeOK
<1>1. IInv => TypeOK
  BY DEF IInv
<1> QED BY <1>1, Invariance, PTL

(* CacheMovesForward: the holder of the mutex read its clock no earlier    *)
(* than the fetch that the cache holds (signingKey).                       *)
THEOREM ForwardCorrect == Spec => CacheMovesForward
<1>1. ASSUME IInv, Next PROVE fetchedAt' >= fetchedAt
  <2>1. fetchedAt \in Nat \cup {None} /\ fetchedAt >= fetchedAt
    BY <1>1, FieldTypes DEF IInv, None
  <2>2. ASSUME NEW r \in Requests, Refetched(r) PROVE fetchedAt' >= fetchedAt
    <3>1. r \in holder /\ fetchedAt' = call[r].asked
      BY <1>1, <2>2 DEF IInv, Mutex, Fetching, Refetched, Dated
    <3>2. call[r].asked \in Nat
      BY <1>1, FieldTypes DEF IInv
    <3> QED BY <1>1, <2>1, <3>1, <3>2 DEF IInv, Dates, None
  <2>3. ASSUME NEW r \in Requests, Start(r) \/ Hit(r) \/ Miss(r) \/ Claims(r)
                                   \/ IssuerAnswers(r) \/ NotFetched(r)
        PROVE  fetchedAt' = fetchedAt
    BY <2>3 DEF Start, Hit, Miss, Claims, IssuerAnswers, NotFetched, cache
  <2>4. ASSUME NEW k \in Kids, Publish(k) \/ Withdraw(k) PROVE fetchedAt' = fetchedAt
    BY <2>4 DEF Publish, Withdraw, cache
  <2>5. Tick => fetchedAt' = fetchedAt
    BY DEF Tick, cache
  <2> QED BY <1>1, <2>1, <2>2, <2>3, <2>4, <2>5 DEF Next, Fetch
<1>2. IInv /\ [Next]_vars => [fetchedAt' >= fetchedAt]_vars
  BY <1>1
<1>3. Spec => [][Next]_vars
  BY PTL DEF Spec
<1>4. []IInv /\ [][Next]_vars => [][fetchedAt' >= fetchedAt]_vars
  BY <1>2, PTL
<1> QED BY <1>3, <1>4, Invariance, PTL DEF CacheMovesForward

(* PublishedKeyFound: the answer holds every key that was published when   *)
(* the call began, unless it has been withdrawn (signingKey).              *)
THEOREM PublishedCorrect == Spec => PublishedKeyFound
<1> DEFINE A == \A r \in Requests :
          Working(r) /\ call'[r].err = "unknown_key" =>
              ~call[r].known \/ withdrawnAt[Kid(r)] # None
<1>1. ASSUME IInv, Next, NEW r \in Requests, Working(r), call'[r].err = "unknown_key",
             call[r].known
      PROVE  withdrawnAt[Kid(r)] # None
  <2>1. call'[r] # call[r]
    BY <1>1 DEF IInv, Open
  <2>2. ~Start(r) /\ ~Miss(r) /\ ~IssuerAnswers(r)
    BY <1>1, Outcomes DEF Start, Working
  <2>3. ~Claims(r)
    BY <1>1, Outcomes DEF Claims
  <2>4. call \in [Requests -> Call]
    BY <1>1 DEF IInv, TypeOK
  <2>5. ASSUME NEW c \in Call, c.err = "none", Use(r, c) PROVE FALSE
    <3>1. [c EXCEPT !.pc = "claims"].err = "none"
      BY <2>5 DEF Call
    <3>2. ~Set(r, [c EXCEPT !.pc = "claims"])
      BY <1>1, <2>4, <3>1 DEF Set
    <3> QED BY <1>1, <2>5, <3>2, Outcomes DEF Use
  <2>6. call[r] \in Call /\ call[r].err = "none"
    BY <1>1, <2>4 DEF IInv, Open
  <2>7. ~Hit(r)
    BY <1>1, <2>5, <2>6 DEF Hit, Fresh, Lookup
  <2>8. ~NotFetched(r)
    <3>1. [call[r] EXCEPT !.asked = 0] \in Call /\ [call[r] EXCEPT !.asked = 0].err = "none"
      BY <2>6 DEF Call
    <3> QED BY <1>1, <2>5, <3>1, Outcomes DEF NotFetched
  <2>9. Refetched(r)
    BY <1>1, <2>1, <2>2, <2>3, <2>7, <2>8, Movers DEF Fetch
  <2>10. Kid(r) \notin call[r].answer
    <3> DEFINE c == [call[r] EXCEPT !.asked = 0, !.answer = {}]
    <3>1. {} \in SUBSET Kids
      OBVIOUS
    <3>2. c \in Call /\ c.err = "none"
      BY <2>6, <3>1 DEF Call
    <3>3. Lookup(r, c, call[r].answer)
      BY <2>9 DEF Refetched
    <3> HIDE DEF c
    <3> QED BY <2>5, <3>2, <3>3 DEF Lookup
  <2> QED BY <1>1, <2>9, <2>10 DEF IInv, Knowledge, Refetched
<1>2. IInv /\ [Next]_vars => [A]_vars
  BY <1>1
<1>3. []IInv /\ [][Next]_vars => [][A]_vars
  BY <1>2, PTL
<1>4. PublishedKeyFound <=> [][A]_vars
  BY DEF PublishedKeyFound
<1> HIDE DEF A
<1> QED BY <1>3, <1>4, Invariance, PTL DEF Spec

(* WithdrawnKeyExpires: every set of keys is dated by a clock read before  *)
(* it was asked for, and a withdrawal that it missed came later            *)
(* (signingKey).                                                           *)
THEOREM WithdrawnCorrect == Spec => WithdrawnKeyExpires
<1> DEFINE A == \A r \in Requests :
          LET w == withdrawnAt[Kid(r)] IN
          w # None /\ call'[r].pc = "claims" =>
              /\ call[r].pc = "lock" => now - w <= JWKSCacheTTL
              /\ call[r].pc = "answered" => w >= call[r].asked
<1>1. ASSUME IInv, Next, NEW r \in Requests, withdrawnAt[Kid(r)] # None,
             call'[r].pc = "claims", call[r].pc = "lock"
      PROVE  now - withdrawnAt[Kid(r)] <= JWKSCacheTTL
  <2>1. ~Start(r) /\ ~Miss(r) /\ ~Fetch(r) /\ ~Claims(r)
    BY <1>1, Outcomes DEF Start, Claims, Fetch, IssuerAnswers, Refetched, NotFetched
  <2>2. Hit(r)
    BY <1>1, <2>1, Movers
  <2>3. Kid(r) \in keys /\ now - fetchedAt <= JWKSCacheTTL
    BY <2>2 DEF Hit, Fresh
  <2>4. withdrawnAt[Kid(r)] >= fetchedAt
    BY <1>1, <2>3 DEF IInv, Ages
  <2>5. /\ now \in Nat /\ fetchedAt \in Nat \cup {None}
        /\ withdrawnAt[Kid(r)] \in Nat \cup {None}
    BY <1>1, FieldTypes DEF IInv
  <2> QED BY <2>3, <2>4, <2>5, TTLAssumption DEF None
<1>2. ASSUME IInv, Next, NEW r \in Requests, withdrawnAt[Kid(r)] # None,
             call'[r].pc = "claims", call[r].pc = "answered"
      PROVE  withdrawnAt[Kid(r)] >= call[r].asked
  <2>1. ~Start(r) /\ ~Miss(r) /\ ~Hit(r) /\ ~IssuerAnswers(r) /\ ~NotFetched(r) /\ ~Claims(r)
    BY <1>1, <1>2 DEF Start, Miss, Hit, IssuerAnswers, NotFetched, Claims
  <2>2. Refetched(r)
    BY <1>2, <2>1, Movers DEF Fetch
  <2>3. Kid(r) \in call[r].answer
    BY <1>2, <2>2, Outcomes DEF Refetched, Lookup
  <2> QED BY <1>2, <2>3 DEF IInv, Ages
<1>3. IInv /\ [Next]_vars => [A]_vars
  BY <1>1, <1>2
<1>4. []IInv /\ [][Next]_vars => [][A]_vars
  BY <1>3, PTL
<1>5. WithdrawnKeyExpires <=> [][A]_vars
  BY DEF WithdrawnKeyExpires
<1> HIDE DEF A
<1> QED BY <1>4, <1>5, Invariance, PTL DEF Spec

(* FetchRetiresKey: no set of keys, cached or on its way, holds a key that *)
(* was withdrawn before that set was asked for, and the fallback of a      *)
(* failing fetch leaves the cache as it is (signingKey).                   *)
THEOREM RetiredCorrect == Spec => FetchRetiresKey
<1> DEFINE A == \A r \in Requests :
          LET w == withdrawnAt[Kid(r)] IN
          w # None /\ call[r].pc # "claims" /\ call'[r].pc = "claims" => fetchedAt' <= w
<1>1. ASSUME IInv, Next, NEW r \in Requests, withdrawnAt[Kid(r)] # None,
             call[r].pc # "claims", call'[r].pc = "claims"
      PROVE  fetchedAt' <= withdrawnAt[Kid(r)]
  <2>1. /\ fetchedAt \in Nat \cup {None} /\ call[r].asked \in Nat
        /\ withdrawnAt[Kid(r)] \in Nat
    BY <1>1, FieldTypes DEF IInv
  <2>2. ~Start(r) /\ ~Miss(r) /\ ~IssuerAnswers(r) /\ ~Claims(r)
    BY <1>1, Outcomes DEF Claims
  <2>3. Hit(r) \/ Refetched(r) \/ NotFetched(r)
    BY <1>1, <2>2, Movers DEF Fetch
  <2>4. ASSUME Hit(r) \/ NotFetched(r) PROVE fetchedAt' <= withdrawnAt[Kid(r)]
    <3>1. Kid(r) \in keys
      BY <1>1, <2>4, Outcomes DEF Hit, Fresh, NotFetched
    <3>2. fetchedAt' = fetchedAt
      BY <2>4 DEF Hit, NotFetched, cache
    <3> QED BY <1>1, <2>1, <3>1, <3>2 DEF IInv, Ages
  <2>5. ASSUME Refetched(r) PROVE fetchedAt' <= withdrawnAt[Kid(r)]
    <3>1. Kid(r) \in call[r].answer
      BY <1>1, <2>5, Outcomes DEF Refetched, Lookup
    <3>2. call[r].pc = "answered" /\ fetchedAt' = call[r].asked
      BY <2>5 DEF Refetched, Dated
    <3> QED BY <1>1, <2>1, <3>1, <3>2 DEF IInv, Ages
  <2> QED BY <2>3, <2>4, <2>5
<1>2. IInv /\ [Next]_vars => [A]_vars
  BY <1>1
<1>3. []IInv /\ [][Next]_vars => [][A]_vars
  BY <1>2, PTL
<1>4. FetchRetiresKey <=> [][A]_vars
  BY DEF FetchRetiresKey
<1> HIDE DEF A
<1> QED BY <1>3, <1>4, Invariance, PTL DEF Spec

-------------------------------------------------------------------------------
(* Sessions.                                                               *)

(* The grant that a request is bringing to the browser.                    *)
Carried(r) ==
    IF r.pc = "check" THEN r.got ELSE IF r.pc = "reply" THEN r.sets ELSE Missing

(* A page whose access token will not verify uses its refresh token.       *)
MayRefresh(r) ==
    \/ r.pc = "refresh"
    \/ r.kind = "page" /\ r.pc \in {"start", "verify"} /\ r.sent.rt # Missing /\ r.sent.at \notin live

JarStale == jar.rt # Missing /\ jar.at \notin live

Shape(r) ==
    /\ r.kind = "callback" \/ r.pc = "exchange" => r.state \in 1..begun
    /\ r.pc \in {"refresh", "revoke"} => r.sent.rt # Missing
    /\ r.sets # Missing => r.pc = "reply" /\ r.clears # "session"
    /\ r.sent.rt <= issued /\ r.got <= issued /\ r.sets <= issued

Grown ==
    /\ jar.rt <= issued
    /\ \A n \in Grants : successor[n] # Missing => n < successor[n] /\ successor[n] <= issued
    /\ \A n \in late : successor[n] # Missing

Newest(g) == g \in live /\ successor[g] = Missing

(* What is on its way is good and has not been used.                       *)
Carriers == \A q \in Visits : Carried(req[q]) # Missing => Newest(Carried(req[q]))

(* All refreshes under way use one token, and get its one successor.       *)
OneRoot ==
    \A q \in Visits : MayRefresh(req[q]) =>
        /\ JarStale => jar.rt = req[q].sent.rt
        /\ \A p \in Visits : MayRefresh(req[p]) => req[p].sent.rt = req[q].sent.rt
        /\ \A p \in Visits : Carried(req[p]) # req[q].sent.rt
        /\ successor[req[q].sent.rt] # Missing =>
              req[q].sent.rt \in revoked \/ Newest(successor[req[q].sent.rt])

JarApart == JarStale => \A q \in Visits : Carried(req[q]) # jar.rt

(* A token in the jar that has been used is revoked or about to be replaced. *)
OnItsWay ==
    jar.rt # Missing /\ successor[jar.rt] # Missing =>
        jar.rt \in revoked \/ \E q \in Visits : Carried(req[q]) = successor[jar.rt]

JarInTime == jar.rt \in late => jar.rt \in revoked

Calm == Carriers /\ OneRoot /\ JarApart /\ OnItsWay /\ JarInTime

(* The access cookie is of the same grant as the refresh cookie.           *)
Paired == jar.at \in {Missing, jar.rt}

SessionInv ==
    /\ SessionTypeOK
    /\ Paired
    /\ Grown
    /\ \A q \in Visits : Shape(req[q])
    /\ mishap \/ Calm

LEMMA GrantTypes ==
  /\ Missing \notin Grants /\ Grants \subseteq Nat /\ Token \subseteq Nat /\ Missing \in Token
  /\ Missing \notin Logins /\ Logins \subseteq Nat
  BY BoundAssumption DEF Missing, Grants, Logins, Token

LEMMA NoRequestType ==
  /\ NoCookies \in Jar /\ NoCookies.at = Missing /\ NoCookies.rt = Missing /\ NoCookies.login = Missing
  /\ NoRequest \in Request /\ NoRequest.kind = "page" /\ NoRequest.pc = "idle"
  /\ NoRequest.sent = NoCookies /\ NoRequest.state = Missing /\ NoRequest.got = Missing
  /\ NoRequest.sets = Missing /\ NoRequest.clears = "nothing"
  <1>1. NoCookies \in Jar /\ NoCookies.at = Missing /\ NoCookies.rt = Missing /\ NoCookies.login = Missing
    BY DEF NoCookies, Jar, Token
  <1>2. Missing \in Token
    BY DEF Token
  <1> QED
    BY <1>1, <1>2 DEF NoRequest, Request

LEMMA RequestFields ==
  ASSUME NEW r \in Request
  PROVE  /\ r.sent \in Jar /\ r.sent.at \in Token /\ r.sent.rt \in Token
         /\ r.got \in Token /\ r.sets \in Token /\ r.state \in Logins \cup {Missing}
  BY DEF Request, Jar

LEMMA RequestTypes ==
  ASSUME SessionTypeOK, NEW q \in Visits
  PROVE  /\ req[q] \in Request /\ req[q].sent.rt \in Token /\ req[q].got \in Token
         /\ req[q].sets \in Token
  BY RequestFields DEF SessionTypeOK

(* Fields of the updated requests.                                         *)
LEMMA MovedTo ==
  ASSUME NEW r \in Request,
         NEW pc \in {"idle", "start", "verify", "refresh", "exchange", "check", "revoke", "reply"},
         NEW s, s = [r EXCEPT !.pc = pc]
  PROVE  /\ s \in Request /\ s.kind = r.kind /\ s.pc = pc /\ s.sent = r.sent /\ s.state = r.state
         /\ s.got = r.got /\ s.sets = r.sets /\ s.clears = r.clears /\ s.out = r.out
  BY DEF Request

Outs == {"", "user", "anonymous", "unavailable", "forbidden", "failed", "done"}

LEMMA SessionInitInv == SessionInit => SessionInv
  <1> SUFFICES ASSUME SessionInit PROVE SessionInv
    OBVIOUS
  <1>1. issued \in 0..MaxGrants /\ 1 \in Grants
    BY BoundAssumption DEF SessionInit, Grants
  <1>2. /\ jar \in Jar /\ jar.at = jar.rt /\ jar.rt \in {Missing, 1} /\ jar.rt <= issued
        /\ jar.rt # Missing => issued = 1
    <2>1. CASE issued = 1
      <3>1. jar = [NoCookies EXCEPT !.at = 1, !.rt = 1]
        BY <2>1 DEF SessionInit
      <3>2. jar = [at |-> 1, rt |-> 1, login |-> Missing]
        BY <3>1 DEF NoCookies
      <3>3. 1 \in Token
        BY <1>1 DEF Token
      <3> QED
        BY <2>1, <3>2, <3>3 DEF Jar
    <2>2. CASE issued = 0
      <3>1. jar = NoCookies /\ issued # 1
        BY <2>2 DEF SessionInit
      <3> QED
        BY <2>2, <3>1, NoRequestType DEF Missing
    <2> QED
      BY <2>1, <2>2 DEF SessionInit
  <1>3. \A q \in Visits : req[q] = NoRequest
    BY DEF SessionInit
  <1>4. \A n \in Grants : successor[n] = Missing
    BY DEF SessionInit
  <1>5. SessionTypeOK
    <2>1. successor \in [Grants -> Token]
      BY GrantTypes DEF SessionInit
    <2>2. req \in [Visits -> Request]
      BY NoRequestType DEF SessionInit
    <2>3. begun = 0 /\ spent = {} /\ faults = 0 /\ mishap = FALSE
      BY DEF SessionInit
    <2>4. begun \in 0..MaxLogins
      BY <2>3, BoundAssumption
    <2>5. late = {} /\ revoked = {} /\ live = 1..issued
      BY DEF SessionInit
    <2>6. late \subseteq Grants /\ revoked \subseteq Grants /\ live \subseteq 1..issued /\ spent \subseteq 1..begun
      BY <2>3, <2>5
    <2>7. touched \subseteq Visits
      BY DEF SessionInit
    <2> QED
      BY <1>1, <1>2, <2>1, <2>2, <2>3, <2>4, <2>6, <2>7 DEF SessionTypeOK
  <1>6. Paired /\ Grown
    BY <1>2, <1>4 DEF Paired, Grown, SessionInit
  <1>7. \A q \in Visits : Shape(req[q])
    BY <1>1, <1>3, NoRequestType DEF Shape, Missing
  <1>8. \A q \in Visits : Carried(req[q]) = Missing /\ ~MayRefresh(req[q])
    BY <1>3, NoRequestType DEF Carried, MayRefresh
  <1>9. JarStale => FALSE
    BY <1>1, <1>2 DEF JarStale, SessionInit
  <1>10. Calm
    BY <1>1, <1>2, <1>4, <1>8, <1>9 DEF Calm, Carriers, OneRoot, JarApart, OnItsWay, JarInTime, SessionInit
  <1> QED
    BY <1>5, <1>6, <1>7, <1>10 DEF SessionInv

(* A step of request q, which becomes r, that brings it nothing new and    *)
(* leaves the tokens and the jar alone.                                    *)
LEMMA RequestStep ==
  ASSUME SessionInv, NEW q \in Visits, NEW r \in Request, Becomes(q, r),
         UNCHANGED <<jar, issued, successor, late, live, begun>>,
         revoked \subseteq revoked', revoked' \subseteq Grants, spent' \subseteq 1..begun,
         mishap' \in BOOLEAN, faults' \in Nat, touched' \subseteq Visits, Shape(r), mishap => mishap',
         ~mishap' => Carried(r) = Carried(req[q]),
         ~mishap' /\ MayRefresh(r) => MayRefresh(req[q]) /\ r.sent.rt = req[q].sent.rt
  PROVE  SessionInv'
  <1>1. /\ SessionTypeOK /\ Paired /\ Grown /\ \A p \in Visits : Shape(req[p])
        /\ mishap \/ Calm
    BY DEF SessionInv
  <1>2. req'[q] = r /\ \A p \in Visits \ {q} : req'[p] = req[p]
    BY <1>1 DEF Becomes, SessionTypeOK
  <1>3. SessionTypeOK'
    BY <1>1 DEF SessionTypeOK, Becomes
  <1>4. Paired' /\ Grown'
    BY <1>1 DEF Paired, Grown
  <1>5. \A p \in Visits : Shape(req[p])'
    BY <1>1, <1>2 DEF Shape
  <1>6. ASSUME ~mishap' PROVE Calm'
    <2>1. Calm
      BY <1>1, <1>6
    <2>2. \A p \in Visits : Carried(req[p])' = Carried(req[p])
      BY <1>2, <1>6 DEF Carried
    <2>3. \A p \in Visits : MayRefresh(req[p])' => MayRefresh(req[p]) /\ req'[p].sent.rt = req[p].sent.rt
      BY <1>2, <1>6 DEF MayRefresh
    <2>4. JarStale' = JarStale /\ \A g : Newest(g)' = Newest(g)
      BY DEF JarStale, Newest
    <2>5. Carriers' /\ JarApart' /\ OnItsWay' /\ JarInTime'
      BY <2>1, <2>2, <2>4 DEF Calm, Carriers, JarApart, OnItsWay, JarInTime
    <2>6. OneRoot'
      BY <2>1, <2>2, <2>3, <2>4 DEF Calm, OneRoot
    <2> QED
      BY <2>5, <2>6 DEF Calm
  <1> QED
    BY <1>3, <1>4, <1>5, <1>6 DEF SessionInv

(* What each request may be asked without looking further.                 *)
LEMMA InvFacts ==
  ASSUME SessionInv, NEW q \in Visits
  PROVE  /\ req[q] \in Request /\ Shape(req[q]) /\ req[q].sent.rt \in Token
         /\ req[q].got \in Token /\ req[q].sets \in Token
         /\ spent \subseteq 1..begun /\ revoked \subseteq Grants /\ faults \in Nat /\ mishap \in BOOLEAN
         /\ touched \subseteq Visits
         /\ issued \in Nat /\ begun \in Nat
  BY RequestTypes, BoundAssumption DEF SessionInv, SessionTypeOK

(* A reply that sets no cookie.                                            *)
LEMMA ReplyStep ==
  ASSUME SessionInv, NEW q \in Visits, NEW out \in Outs, Reply(q, out),
         req[q].pc \notin {"reply", "idle"}, req[q].pc = "check" => mishap',
         UNCHANGED <<jar, issued, successor, late, live, begun>>,
         revoked \subseteq revoked', revoked' \subseteq Grants, spent' \subseteq 1..begun,
         mishap' \in BOOLEAN, faults' \in Nat, touched' \subseteq Visits, mishap => mishap'
  PROVE  SessionInv'
  <1>1. req[q] \in Request /\ Shape(req[q])
    BY InvFacts
  <1>2. PICK r : r = [req[q] EXCEPT !.pc = "reply", !.out = out]
    OBVIOUS
  <1>3. /\ r \in Request /\ r.kind = req[q].kind /\ r.pc = "reply" /\ r.sent = req[q].sent
        /\ r.state = req[q].state /\ r.got = req[q].got /\ r.sets = req[q].sets
        /\ r.clears = req[q].clears
    <2> PICK old : old = req[q]
      OBVIOUS
    <2>1. r = [old EXCEPT !.pc = "reply", !.out = out] /\ old \in Request
      BY <1>1, <1>2
    <2>2. /\ r \in Request /\ r.kind = old.kind /\ r.pc = "reply" /\ r.sent = old.sent
          /\ r.state = old.state /\ r.got = old.got /\ r.sets = old.sets
          /\ r.clears = old.clears
      BY ONLY <2>1, out \in Outs DEF Request, Outs
    <2> QED
      BY <2>2
  <1>4. Becomes(q, r)
    BY <1>2 DEF Reply
  <1>5. req[q].sets = Missing
    BY <1>1 DEF Shape
  <1>6. Shape(r)
    BY <1>1, <1>3, <1>5 DEF Shape
  <1>7. ~mishap' => Carried(r) = Carried(req[q])
    BY <1>3, <1>5 DEF Carried
  <1>8. ~MayRefresh(r)
    BY <1>3 DEF MayRefresh
  <1> QED
    BY <1>3, <1>4, <1>6, <1>7, <1>8, RequestStep

(* A request that goes on within its handler.                              *)
LEMMA GotoStep ==
  ASSUME SessionInv, NEW q \in Visits, NEW pc \in {"verify", "refresh", "exchange"}, Goto(q, pc),
         req[q].pc \notin {"reply", "check"},
         UNCHANGED <<jar, tokenIssuer, begun>>, faults' \in Nat, touched' \subseteq Visits,
         mishap' \in BOOLEAN, mishap => mishap',
         pc = "verify" => req[q].kind = "page" /\ req[q].pc = "start",
         pc = "refresh" => req[q].sent.rt # Missing /\ (mishap' \/ MayRefresh(req[q])),
         pc = "exchange" => req[q].kind = "callback"
  PROVE  SessionInv'
  <1>1. req[q] \in Request /\ Shape(req[q])
    BY InvFacts
  <1>2. PICK r : r = [req[q] EXCEPT !.pc = pc]
    OBVIOUS
  <1>3. /\ r \in Request /\ r.kind = req[q].kind /\ r.pc = pc /\ r.sent = req[q].sent
        /\ r.state = req[q].state /\ r.got = req[q].got /\ r.sets = req[q].sets
        /\ r.clears = req[q].clears
    <2> PICK old : old = req[q]
      OBVIOUS
    <2>1. r = [old EXCEPT !.pc = pc] /\ old \in Request
      BY <1>1, <1>2
    <2> QED
      BY <2>1, MovedTo
  <1>4. Becomes(q, r)
    BY <1>2 DEF Goto
  <1>5. req[q].sets = Missing
    BY <1>1 DEF Shape
  <1>6. Shape(r)
    BY <1>1, <1>3, <1>5 DEF Shape
  <1>7. Carried(r) = Carried(req[q])
    BY <1>3, <1>5 DEF Carried
  <1>8. ~mishap' /\ MayRefresh(r) => MayRefresh(req[q]) /\ r.sent.rt = req[q].sent.rt
    BY <1>3 DEF MayRefresh
  <1>9. /\ UNCHANGED <<jar, issued, successor, late, live, begun>>
        /\ revoked \subseteq revoked' /\ revoked' \subseteq Grants /\ spent' \subseteq 1..begun
    BY InvFacts DEF tokenIssuer
  <1> QED
    BY <1>3, <1>4, <1>6, <1>7, <1>8, <1>9, RequestStep


LEMMA FaultCounted == SessionInv => faults \in Nat /\ (Fault => faults' \in Nat)
  BY DEF SessionInv, SessionTypeOK, Fault

LEMMA SecretInv == ASSUME SessionInv, NEW q \in Visits, MiddlewareSecret(q) PROVE SessionInv'
  <1>1. /\ req[q].kind = "page" /\ req[q].pc = "start" /\ UNCHANGED <<jar, tokenIssuer, begun>>
        /\ mishap' = mishap
    BY DEF MiddlewareSecret, At
  <1>2. /\ faults' \in Nat /\ mishap \in BOOLEAN /\ revoked \subseteq Grants /\ spent \subseteq 1..begun
        /\ touched' \subseteq Visits
    BY InvFacts, FaultCounted DEF MiddlewareSecret
  <1>3. CASE Goto(q, "verify")
    BY <1>1, <1>2, <1>3, GotoStep
  <1>4. CASE Reply(q, "unavailable")
    BY <1>1, <1>2, <1>4, ReplyStep DEF tokenIssuer, Outs
  <1> QED
    BY <1>3, <1>4 DEF MiddlewareSecret

LEMMA VerifyAccessInv == ASSUME SessionInv, NEW q \in Visits, VerifyAccess(q) PROVE SessionInv'
  <1>1. req[q].kind = "page" /\ req[q].pc = "verify" /\ UNCHANGED <<jar, tokenIssuer, begun>>
    BY DEF VerifyAccess, At
  <1>2. /\ faults' \in Nat /\ mishap' \in BOOLEAN /\ (mishap => mishap')
        /\ revoked \subseteq Grants /\ spent \subseteq 1..begun /\ touched' \subseteq Visits
    <2>1. mishap \in BOOLEAN /\ revoked \subseteq Grants /\ spent \subseteq 1..begun /\ faults \in Nat
      BY InvFacts
    <2>2. \/ mishap' = mishap /\ faults' = faults
          \/ mishap' = TRUE /\ Fault
      BY DEF VerifyAccess
    <2>3. touched' \subseteq Visits
      BY InvFacts DEF VerifyAccess
    <2> QED
      BY <2>1, <2>2, <2>3, FaultCounted
  <1>3. CASE Reply(q, "user") \/ Reply(q, "anonymous")
    BY <1>1, <1>2, <1>3, ReplyStep DEF tokenIssuer, Outs
  <1>4. CASE Goto(q, "refresh") /\ req[q].sent.rt # Missing /\ (req[q].sent.at \notin live \/ mishap')
    <2>1. mishap' \/ MayRefresh(req[q])
      BY <1>1, <1>4 DEF MayRefresh
    <2> QED
      BY <1>1, <1>2, <1>4, <2>1, GotoStep
  <1> QED
    BY <1>3, <1>4 DEF VerifyAccess, Unverified

(* A refresh that fails, at the issuer or on the way.                      *)
LEMMA RefreshFailedInv ==
  ASSUME SessionInv, NEW q \in Visits, At(q, "page", "refresh"), RefreshFailed(q),
         UNCHANGED <<jar, issued, successor, late, revoked, live, spent, begun>>,
         mishap' = mishap, faults' \in Nat, touched' \subseteq Visits
  PROVE  SessionInv'
  <1>1. revoked \subseteq Grants /\ spent \subseteq 1..begun /\ mishap \in BOOLEAN
    BY InvFacts
  <1> QED
    BY <1>1, ReplyStep DEF RefreshFailed, At, Outs

LEMMA LogoutInv == ASSUME SessionInv, NEW q \in Visits, Logout(q) PROVE SessionInv'
  <1>1. /\ req[q].kind = "logout" /\ req[q].pc = "start" /\ UNCHANGED <<jar, tokenIssuer, begun, mishap>>
        /\ faults' \in Nat /\ req[q] \in Request /\ Shape(req[q]) /\ touched' \subseteq Visits
    BY InvFacts, FaultCounted DEF Logout, At
  <1>2. ASSUME NEW pc \in {"reply", "revoke"}, NEW out \in Outs, NEW r, Becomes(q, r),
               pc = "revoke" => req[q].sent.rt # Missing,
               r = [req[q] EXCEPT !.clears = "session", !.pc = pc, !.out = out]
        PROVE  SessionInv'
    <2> PICK old : old = req[q]
      OBVIOUS
    <2>1. r = [old EXCEPT !.clears = "session", !.pc = pc, !.out = out] /\ old \in Request
      BY <1>1, <1>2
    <2>2. /\ r \in Request /\ r.kind = old.kind /\ r.pc = pc /\ r.sent = old.sent
          /\ r.state = old.state /\ r.got = old.got /\ r.sets = old.sets
      BY ONLY <2>1, out \in Outs, pc \in {"reply", "revoke"} DEF Request, Outs
    <2>3. old.sets = Missing
      BY <1>1 DEF Shape
    <2>4. Shape(r)
      BY <1>1, <1>2, <2>2, <2>3 DEF Shape
    <2>5. Carried(r) = Carried(req[q])
      BY <1>1, <1>2, <2>2, <2>3 DEF Carried
    <2>6. ~MayRefresh(r)
      BY <1>1, <1>2, <2>2 DEF MayRefresh
    <2>7. /\ UNCHANGED <<jar, issued, successor, late, live, begun>> /\ mishap' = mishap
          /\ revoked \subseteq revoked' /\ revoked' \subseteq Grants /\ spent' \subseteq 1..begun
          /\ mishap' \in BOOLEAN
      BY <1>1, InvFacts DEF tokenIssuer
    <2> QED
      BY <1>1, <1>2, <2>2, <2>4, <2>5, <2>6, <2>7, RequestStep
  <1>3. PICK r : r = [req[q] EXCEPT !.clears = "session"]
    OBVIOUS
  <1>4. req[q].out \in Outs /\ "done" \in Outs /\ "unavailable" \in Outs
    BY <1>1 DEF Request, Outs
  <1>5. CASE Becomes(q, [r EXCEPT !.pc = "reply", !.out = "done"])
    <2>1. [r EXCEPT !.pc = "reply", !.out = "done"]
             = [req[q] EXCEPT !.clears = "session", !.pc = "reply", !.out = "done"]
      BY <1>3
    <2> QED
      BY <1>2, <1>4, <1>5, <2>1
  <1>6. CASE Becomes(q, [r EXCEPT !.pc = "reply", !.out = "unavailable"])
    <2>1. [r EXCEPT !.pc = "reply", !.out = "unavailable"]
             = [req[q] EXCEPT !.clears = "session", !.pc = "reply", !.out = "unavailable"]
      BY <1>3
    <2> QED
      BY <1>2, <1>4, <1>6, <2>1
  <1>7. CASE Becomes(q, [r EXCEPT !.pc = "revoke"]) /\ r.sent.rt # Missing
    <2> PICK old : old = req[q]
      OBVIOUS
    <2>1. old \in Request /\ r = [old EXCEPT !.clears = "session"]
      BY <1>1, <1>3
    <2>2. [r EXCEPT !.pc = "revoke"] = [old EXCEPT !.clears = "session", !.pc = "revoke", !.out = old.out]
      BY <2>1 DEF Request
    <2>3. r.sent = old.sent
      BY <2>1 DEF Request
    <2> QED
      BY <1>2, <1>4, <1>7, <2>2, <2>3
  <1> QED
    BY <1>3, <1>5, <1>6, <1>7 DEF Logout

LEMMA RevokeInv == ASSUME SessionInv, NEW q \in Visits, Revoke(q) PROVE SessionInv'
  <1>1. /\ req[q].pc = "revoke" /\ Reply(q, "done")
        /\ UNCHANGED <<jar, issued, successor, late, live, begun, mishap, spent>>
    BY DEF Revoke
  <1>2. /\ faults' \in Nat /\ mishap \in BOOLEAN /\ spent \subseteq 1..begun
        /\ touched' \subseteq Visits
    BY InvFacts, FaultCounted DEF Revoke, Touch
  <1>3. revoked \subseteq revoked' /\ revoked' \subseteq Grants
    <2>1. revoked \subseteq Grants /\ req[q].sent.rt \in Token /\ req[q].sent.rt # Missing
      BY <1>1, InvFacts DEF Shape
    <2> QED
      BY <2>1 DEF Revoke, Token
  <1> QED
    BY <1>1, <1>2, <1>3, ReplyStep DEF Outs

LEMMA CallbackInv == ASSUME SessionInv, NEW q \in Visits, Callback(q) PROVE SessionInv'
  <1>1. req[q].kind = "callback" /\ req[q].pc = "start" /\ UNCHANGED <<jar, tokenIssuer, begun, mishap>>
    BY DEF Callback, At
  <1>2. /\ faults' \in Nat /\ mishap \in BOOLEAN /\ revoked \subseteq Grants /\ spent \subseteq 1..begun
        /\ touched' \subseteq Visits
    BY InvFacts, FaultCounted DEF Callback
  <1>3. ASSUME NEW out \in Outs, Reply(q, out) PROVE SessionInv'
    BY <1>1, <1>2, <1>3, ReplyStep DEF tokenIssuer
  <1>4. CASE Goto(q, "exchange")
    BY <1>1, <1>2, <1>4, GotoStep
  <1> QED
    BY <1>3, <1>4 DEF Callback, Outs


LEMMA CheckInv == ASSUME SessionInv, NEW q \in Visits, CheckTokens(q) PROVE SessionInv'
  <1>1. /\ req[q].pc = "check" /\ UNCHANGED <<jar, tokenIssuer, begun>>
        /\ req[q] \in Request /\ Shape(req[q]) /\ req[q].got \in Token
        /\ revoked \subseteq Grants /\ spent \subseteq 1..begun /\ touched' \subseteq Visits
    BY InvFacts DEF CheckTokens
  <1>2. CASE \E out \in {"anonymous", "failed"} : Reply(q, out) /\ Fault /\ mishap' = TRUE
    BY <1>1, <1>2, ReplyStep, FaultCounted DEF tokenIssuer, Outs
  <1>3. ASSUME NEW out \in {"user", "done"}, NEW clears \in {"nothing", "login"},
               Becomes(q, [req[q] EXCEPT !.pc = "reply", !.sets = Written(req[q]), !.out = out,
                                         !.clears = clears]),
               UNCHANGED <<mishap, faults>>
        PROVE  SessionInv'
    <2> PICK old : old = req[q]
      OBVIOUS
    <2> PICK g : g = old.got
      OBVIOUS
    <2> PICK r : r = [old EXCEPT !.pc = "reply", !.sets = g, !.out = out, !.clears = clears]
      OBVIOUS
    <2>1. old \in Request /\ g \in Token
      BY <1>1
    <2>2. /\ r \in Request /\ r.pc = "reply" /\ r.sets = g /\ r.clears = clears
          /\ r.kind = old.kind /\ r.sent = old.sent /\ r.state = old.state /\ r.got = old.got
      <3>1. out \in {"", "user", "anonymous", "unavailable", "forbidden", "failed", "done"}
        BY <1>3
      <3>2. clears \in {"nothing", "session", "login"}
        BY <1>3
      <3>3. "reply" \in {"idle", "start", "verify", "refresh", "exchange", "check", "revoke", "reply"}
        OBVIOUS
      <3>4. r = [old EXCEPT !.pc = "reply", !.sets = g, !.out = out, !.clears = clears]
        OBVIOUS
      <3> QED
        BY ONLY <2>1, <3>1, <3>2, <3>3, <3>4 DEF Request
    <2>3. Becomes(q, r)
      BY <1>3 DEF Written
    <2>4. Shape(r)
      BY <1>1, <1>3, <2>2 DEF Shape
    <2>5. Carried(r) = Carried(req[q]) /\ ~MayRefresh(r)
      BY <1>1, <2>2 DEF Carried, MayRefresh
    <2>6. faults' \in Nat /\ mishap' \in BOOLEAN /\ mishap' = mishap
      BY <1>3, InvFacts
    <2> QED
      BY <1>1, <2>2, <2>3, <2>4, <2>5, <2>6, RequestStep DEF tokenIssuer
  <1>4. CASE req[q].kind = "page"
    BY <1>2, <1>3, <1>4 DEF CheckTokens, Dropped
  <1>5. CASE req[q].kind # "page"
    BY <1>2, <1>3, <1>5 DEF CheckTokens, Dropped
  <1> QED
    BY <1>4, <1>5

LEMMA LoseInv == ASSUME SessionInv, NEW q \in Visits, LoseAnswer(q) PROVE SessionInv'
  <1>1. /\ req[q].pc = "reply" /\ UNCHANGED <<jar, tokenIssuer, begun>> /\ Becomes(q, NoRequest)
        /\ revoked \subseteq Grants /\ spent \subseteq 1..begun /\ mishap \in BOOLEAN
        /\ issued \in Nat /\ faults' \in Nat /\ touched' \subseteq Visits
    BY InvFacts, FaultCounted DEF LoseAnswer
  <1>2. mishap' = (mishap \/ req[q].sets # Missing)
    BY DEF LoseAnswer
  <1>3. Shape(NoRequest) /\ ~MayRefresh(NoRequest)
    BY <1>1, NoRequestType DEF Shape, MayRefresh, Missing
  <1>4. ~mishap' => Carried(NoRequest) = Carried(req[q])
    BY <1>1, <1>2, NoRequestType DEF Carried
  <1>5. mishap' \in BOOLEAN /\ (mishap => mishap')
    BY <1>1, <1>2
  <1> QED
    BY <1>1, <1>3, <1>4, <1>5, NoRequestType, RequestStep DEF tokenIssuer

(* The numbers of grants.                                                  *)
LEMMA Numbers ==
  ASSUME SessionInv
  PROVE  /\ issued \in Nat /\ MaxGrants \in Nat /\ issued <= MaxGrants
         /\ issued < MaxGrants => issued + 1 \in Grants /\ issued + 1 \in Token
         /\ live \subseteq 1..issued /\ successor \in [Grants -> Token]
         /\ \A n \in Grants : successor[n] # Missing => n < successor[n] /\ successor[n] <= issued
         /\ jar.rt \in Token /\ jar.rt <= issued
  <1>1. SessionTypeOK /\ Grown
    BY DEF SessionInv
  <1>2. issued \in Nat /\ MaxGrants \in Nat /\ issued <= MaxGrants
    BY <1>1, BoundAssumption DEF SessionTypeOK
  <1>3. issued < MaxGrants => issued + 1 \in Grants /\ issued + 1 \in Token
    BY <1>2 DEF Grants, Token
  <1> QED
    BY <1>1, <1>2, <1>3 DEF SessionTypeOK, Grown, Jar

(* Shapes and types when a request is answered by the issuer.              *)
LEMMA IssuerStep ==
  ASSUME SessionInv, NEW q \in Visits, NEW r \in Request, Becomes(q, r), Shape(r)',
         UNCHANGED <<jar, late, revoked, begun>>, spent' \subseteq 1..begun,
         faults' \in Nat, mishap' \in BOOLEAN, touched' \subseteq Visits,
         issued' \in issued..MaxGrants, successor' \in [Grants -> Token], live' \subseteq 1..issued',
         \A n \in Grants : successor'[n] # Missing => n < successor'[n] /\ successor'[n] <= issued',
         \A n \in Grants : successor[n] # Missing => successor'[n] = successor[n]
  PROVE  SessionTypeOK' /\ Paired' /\ Grown' /\ \A p \in Visits : Shape(req[p])'
  <1>1. SessionTypeOK /\ Paired /\ Grown /\ \A p \in Visits : Shape(req[p])
    BY DEF SessionInv
  <1>2. issued \in Nat /\ issued' \in Nat /\ issued <= issued' /\ issued' \in 0..MaxGrants
    BY Numbers
  <1>3. ASSUME NEW t \in Token, t <= issued PROVE t <= issued'
    <2>1. t \in Nat
      BY GrantTypes
    <2> QED
      BY <1>2, <1>3, <2>1
  <1>4. SessionTypeOK'
    BY <1>1, <1>2 DEF SessionTypeOK, Becomes
  <1>5. Paired'
    BY <1>1 DEF Paired
  <1>6. Grown'
    <2>1. jar'.rt <= issued'
      BY <1>3, Numbers
    <2>2. \A n \in late' : successor'[n] # Missing
      BY <1>1 DEF Grown, SessionTypeOK
    <2> QED
      BY <2>1, <2>2 DEF Grown
  <1>7. ASSUME NEW p \in Visits PROVE Shape(req[p])'
    <2>1. CASE p = q
      BY <1>1, <2>1 DEF Shape, SessionTypeOK, Becomes
    <2>2. CASE p # q
      <3>1. req'[p] = req[p] /\ Shape(req[p])
        BY <1>1, <2>2 DEF SessionTypeOK, Becomes
      <3>2. /\ req[p].sent.rt <= issued' /\ req[p].got <= issued' /\ req[p].sets <= issued'
        BY <1>3, <3>1, InvFacts DEF Shape
      <3> QED
        BY <3>1, <3>2 DEF Shape
    <2> QED
      BY <2>1, <2>2
  <1> QED
    BY <1>4, <1>5, <1>6, <1>7

(* Grant g is on its way, as the successor of n if n is not Missing.       *)
LEMMA ObtainCalm ==
  ASSUME SessionInv, Calm, NEW q \in Visits, NEW r \in Request, NEW g \in Grants, NEW n \in Token,
         Becomes(q, r), r.pc = "check", r.got = g, Carried(req[q]) = Missing,
         UNCHANGED <<jar, late, revoked>>, live' = live \cup {g},
         n # Missing => MayRefresh(req[q]) /\ n = req[q].sent.rt /\ successor'[n] = g,
         \A h \in Grants : h # n => successor'[h] = successor[h],
         successor'[g] = Missing,
         \A p \in Visits : MayRefresh(req[p]) => req[p].sent.rt # g,
         JarStale => jar.rt # g
  PROVE  Calm'
  <1>1. /\ Carriers /\ OneRoot /\ JarApart /\ OnItsWay /\ JarInTime
        /\ SessionTypeOK /\ \A p \in Visits : Shape(req[p])
    BY DEF Calm, SessionInv
  <1>2. req'[q] = r /\ \A p \in Visits \ {q} : req'[p] = req[p]
    BY <1>1 DEF Becomes, SessionTypeOK
  <1>3. g # Missing /\ live \subseteq Grants /\ jar.rt \in Token
    BY Numbers, GrantTypes DEF Grants
  <1>4. Carried(req[q])' = g /\ \A p \in Visits \ {q} : Carried(req[p])' = Carried(req[p])
    BY <1>2 DEF Carried
  <1>5. \A p \in Visits : MayRefresh(req[p])' => p # q /\ MayRefresh(req[p]) /\ req'[p] = req[p]
    BY <1>2 DEF MayRefresh
  <1>6. JarStale' => JarStale
    BY DEF JarStale
  <1>7. Newest(g)'
    BY DEF Newest
  <1>8. \A h \in Grants \ {n} : Newest(h) => Newest(h)'
    BY DEF Newest
  <1>9. \A p \in Visits : MayRefresh(req[p]) =>
           req[p].sent.rt \in Grants /\ (n # Missing => req[p].sent.rt = n)
    BY <1>1, InvFacts DEF Shape, MayRefresh, OneRoot, Token
  <1>10. \A p \in Visits : n # Missing => Carried(req[p]) # n
    BY <1>1 DEF OneRoot
  <1>11. Carriers'
    BY <1>1, <1>3, <1>4, <1>7, <1>8, <1>10 DEF Carriers, Newest
  <1>12. JarApart'
    BY <1>1, <1>4, <1>6 DEF JarApart
  <1>13. JarInTime'
    BY <1>1 DEF JarInTime
  <1>14. OnItsWay'
    <2>1. SUFFICES ASSUME jar.rt # Missing, successor'[jar.rt] # Missing, jar.rt \notin revoked
                   PROVE  \E p \in Visits : Carried(req[p])' = successor'[jar.rt]
      BY DEF OnItsWay
    <2>2. CASE jar.rt = n
      BY <1>4, <2>1, <2>2
    <2>3. CASE jar.rt # n
      <3>1. successor'[jar.rt] = successor[jar.rt]
        BY <1>3, <2>1, <2>3 DEF Token
      <3>2. PICK p \in Visits : Carried(req[p]) = successor[jar.rt]
        BY <1>1, <2>1, <3>1 DEF OnItsWay
      <3>3. p # q
        BY <2>1, <3>1, <3>2
      <3> QED
        BY <1>4, <3>1, <3>2, <3>3
    <2> QED
      BY <2>2, <2>3
  <1>15. OneRoot'
    <2>1. SUFFICES ASSUME NEW p \in Visits, MayRefresh(req[p])'
                   PROVE  /\ JarStale' => jar'.rt = req'[p].sent.rt
                          /\ \A o \in Visits : MayRefresh(req[o])' => req'[o].sent.rt = req'[p].sent.rt
                          /\ \A o \in Visits : Carried(req[o])' # req'[p].sent.rt
                          /\ successor'[req'[p].sent.rt] # Missing =>
                                req'[p].sent.rt \in revoked' \/ Newest(successor[req[p].sent.rt])'
      BY DEF OneRoot
    <2>2. p # q /\ MayRefresh(req[p]) /\ req'[p] = req[p]
      BY <1>5, <2>1
    <2>3. /\ JarStale => jar.rt = req[p].sent.rt
          /\ \A o \in Visits : MayRefresh(req[o]) => req[o].sent.rt = req[p].sent.rt
          /\ \A o \in Visits : Carried(req[o]) # req[p].sent.rt
          /\ successor[req[p].sent.rt] # Missing =>
                req[p].sent.rt \in revoked \/ Newest(successor[req[p].sent.rt])
      BY <1>1, <2>2 DEF OneRoot
    <2>4. JarStale' => jar'.rt = req'[p].sent.rt
      BY <1>6, <2>2, <2>3
    <2>5. \A o \in Visits : MayRefresh(req[o])' => req'[o].sent.rt = req'[p].sent.rt
      BY <1>5, <2>2, <2>3
    <2>6. \A o \in Visits : Carried(req[o])' # req'[p].sent.rt
      BY <1>4, <2>2, <2>3
    <2>7. ASSUME successor'[req'[p].sent.rt] # Missing
          PROVE  req'[p].sent.rt \in revoked' \/ Newest(successor[req[p].sent.rt])'
      <3>1. CASE n # Missing
        <4>1. successor'[req'[p].sent.rt] = g
          BY <1>9, <2>2, <3>1
        <4> QED
          BY <1>7, <4>1 DEF Newest
      <3>2. CASE n = Missing
        <4>1. successor'[req'[p].sent.rt] = successor[req[p].sent.rt]
          BY <1>9, <2>2, <3>2, GrantTypes
        <4>2. successor[req[p].sent.rt] \in Grants
          BY <1>9, <2>2, <2>7, <4>1, Numbers DEF Token
        <4>3. successor[req[p].sent.rt] # n
          BY <3>2, <4>2, GrantTypes
        <4> QED
          BY <1>8, <2>2, <2>3, <2>7, <4>1, <4>2, <4>3 DEF Newest
      <3> QED
        BY <3>1, <3>2
    <2> QED
      BY <2>4, <2>5, <2>6, <2>7
  <1> QED
    BY <1>11, <1>12, <1>13, <1>14, <1>15 DEF Calm


LEMMA RotateFacts ==
  ASSUME SessionInv, NEW n \in Grants, n <= issued, Rotate(n), NEW g, g = successor'[n]
  PROVE  /\ g \in Grants /\ g # Missing /\ g <= issued' /\ g # n
         /\ issued' \in issued..MaxGrants /\ successor' \in [Grants -> Token]
         /\ live' = live \cup {g} /\ live' \subseteq 1..issued'
         /\ \A m \in Grants : successor'[m] # Missing => m < successor'[m] /\ successor'[m] <= issued'
         /\ \A m \in Grants : successor[m] # Missing => successor'[m] = successor[m]
         /\ \A m \in Grants : m # n => successor'[m] = successor[m]
         /\ successor[n] # Missing => g = successor[n]
         /\ successor[n] = Missing => successor'[g] = Missing
  <1>1. CASE successor[n] # Missing
    <2>1. /\ g = successor[n] /\ issued' = issued /\ successor' = successor /\ live' = live \cup {g}
      BY <1>1 DEF Rotate
    <2>2. g \in Grants /\ n < g /\ g <= issued /\ g \in Nat /\ n \in Nat
      BY <1>1, <2>1, Numbers, GrantTypes DEF Token
    <2>3. g \in 1..issued /\ g # n
      BY <2>2, Numbers DEF Grants
    <2> QED
      BY <1>1, <2>1, <2>2, <2>3, Numbers
  <1>2. CASE successor[n] = Missing
    <2>1. /\ issued < MaxGrants /\ issued' = issued + 1 /\ live' = live \cup {issued + 1}
          /\ successor' = [successor EXCEPT ![n] = issued + 1]
      BY <1>2 DEF Rotate
    <2>2. g = issued + 1 /\ g \in Grants /\ g \in Token /\ g # Missing
      BY <2>1, Numbers, GrantTypes
    <2>3. n \in Nat /\ n < g /\ g # n
      BY <2>2, Numbers, GrantTypes
    <2>4. successor' \in [Grants -> Token] /\ \A m \in Grants : m # n => successor'[m] = successor[m]
      BY <2>1, <2>2, Numbers
    <2>5. successor[g] = Missing
      <3>1. ~(g < successor[g] /\ successor[g] <= issued)
        <4>1. successor[g] \in Nat
          BY <2>2, Numbers, GrantTypes
        <4> QED
          BY <2>2, <4>1, Numbers
      <3> QED
        BY <2>2, <3>1, Numbers
    <2>6. issued' \in issued..MaxGrants /\ live' \subseteq 1..issued' /\ g <= issued'
      BY <2>1, <2>2, Numbers
    <2>7. \A m \in Grants : successor'[m] # Missing => m < successor'[m] /\ successor'[m] <= issued'
      <3>1. \A m \in Grants : successor[m] \in Nat
        BY Numbers, GrantTypes
      <3> QED
        BY <2>1, <2>2, <2>3, <2>4, <3>1, Numbers
    <2> QED
      BY <1>2, <2>1, <2>2, <2>3, <2>4, <2>5, <2>6, <2>7
  <1> QED
    BY <1>1, <1>2

LEMMA RefreshInv == ASSUME SessionInv, NEW q \in Visits, Refresh(q) PROVE SessionInv'
  <1>1. /\ At(q, "page", "refresh") /\ UNCHANGED <<jar, late, revoked, spent, begun>>
    BY DEF Refresh
  <1>2. /\ req[q].kind = "page" /\ req[q].pc = "refresh" /\ req[q] \in Request /\ Shape(req[q])
        /\ req[q].sets = Missing /\ revoked \subseteq Grants /\ spent \subseteq 1..begun /\ mishap \in BOOLEAN
        /\ req[q].got \in Token
    BY <1>1, InvFacts DEF At, Shape
  <1>0. touched' \subseteq Visits
    BY InvFacts DEF Refresh, Touch
  <1>3. req[q].sent.rt \in Grants /\ req[q].sent.rt <= issued
    BY <1>2, InvFacts DEF Shape, Token
  <1> PICK n : n = req[q].sent.rt
    OBVIOUS
  <1>4. CASE RefreshFailed(q) /\ UNCHANGED <<issued, successor, live, mishap>> /\ faults' \in Nat
    BY <1>0, <1>1, <1>4, RefreshFailedInv
  <1>5. ASSUME Rotate(n), faults' \in Nat, mishap' \in BOOLEAN, NEW r \in Request, Becomes(q, r),
               r.kind = "page", r.pc # "exchange", r.sent = req[q].sent, r.sets = Missing,
               r.got \in {req[q].got, successor'[n]},
               r.pc = "check" => r.got = successor'[n],
               r.pc = "check" \/ mishap', ~mishap' => ~mishap, ~mishap' => n \notin revoked
        PROVE  SessionInv'
    <2> PICK g : g = successor'[n]
      OBVIOUS
    <2>1. /\ g \in Grants /\ g # Missing /\ g <= issued' /\ g # n
          /\ issued' \in issued..MaxGrants /\ successor' \in [Grants -> Token]
          /\ live' = live \cup {g} /\ live' \subseteq 1..issued'
          /\ \A m \in Grants : successor'[m] # Missing => m < successor'[m] /\ successor'[m] <= issued'
          /\ \A m \in Grants : successor[m] # Missing => successor'[m] = successor[m]
          /\ \A m \in Grants : m # n => successor'[m] = successor[m]
          /\ successor[n] # Missing => g = successor[n]
          /\ successor[n] = Missing => successor'[g] = Missing
      BY <1>3, <1>5, RotateFacts
    <2>2. r.sent.rt <= issued' /\ r.got <= issued' /\ r.sets <= issued'
      <3>1. \A t \in Token : t <= issued => t <= issued'
        <4>1. issued \in Nat /\ issued' \in Nat /\ issued <= issued'
          BY <2>1, Numbers
        <4> QED
          BY <4>1, GrantTypes
      <3>2. Missing \in Token /\ Missing <= issued /\ req[q].got <= issued /\ req[q].sent.rt \in Token
        BY <1>2, <1>3, Numbers, GrantTypes DEF Shape, Missing, Token
      <3> QED
        BY <1>2, <1>3, <1>5, <2>1, <3>1, <3>2
    <2>3. Shape(r)'
      BY <1>2, <1>3, <1>5, <2>2, GrantTypes DEF Shape
    <2>4. SessionTypeOK' /\ Paired' /\ Grown' /\ \A p \in Visits : Shape(req[p])'
      BY <1>0, <1>1, <1>2, <1>5, <2>1, <2>3, IssuerStep
    <2>5. ASSUME ~mishap' PROVE Calm'
      <3>1. Calm /\ r.pc = "check" /\ r.got = g /\ n \notin revoked
        BY <1>5, <2>5 DEF SessionInv
      <3>2. MayRefresh(req[q]) /\ Carried(req[q]) = Missing
        BY <1>2 DEF MayRefresh, Carried
      <3>3. \A p \in Visits : MayRefresh(req[p]) => req[p].sent.rt # g
        BY <2>1, <3>1, <3>2 DEF Calm, OneRoot
      <3>4. JarStale => jar.rt # g
        BY <2>1, <3>1, <3>2 DEF Calm, OneRoot
      <3>5. successor'[g] = Missing
        <4>1. CASE successor[n] # Missing
          <5>1. Newest(g)
            BY <2>1, <3>1, <3>2, <4>1 DEF Calm, OneRoot
          <5> QED
            BY <2>1, <5>1 DEF Newest
        <4> QED
          BY <2>1, <4>1
      <3>6. n \in Token /\ n # Missing
        BY <1>3, GrantTypes DEF Token
      <3> QED
        BY <1>1, <1>5, <2>1, <3>1, <3>2, <3>3, <3>4, <3>5, <3>6, ObtainCalm
    <2> QED
      BY <1>5, <2>4, <2>5 DEF SessionInv
  <1>6. CASE /\ n \notin revoked /\ Rotate(n) /\ UNCHANGED <<mishap, faults>>
             /\ Becomes(q, [req[q] EXCEPT !.pc = "check", !.got = successor'[n]])
    <2> PICK old : old = req[q]
      OBVIOUS
    <2> PICK g : g = successor'[n]
      OBVIOUS
    <2> PICK r : r = [old EXCEPT !.pc = "check", !.got = g]
      OBVIOUS
    <2>1. old \in Request /\ g \in Token
      BY <1>2, <1>3, <1>6, RotateFacts DEF Token
    <2>2. r = [old EXCEPT !.pc = "check", !.got = g]
      OBVIOUS
    <2>3. /\ r \in Request /\ r.kind = old.kind /\ r.pc = "check" /\ r.sent = old.sent
          /\ r.got = g /\ r.sets = old.sets
      BY ONLY <2>1, <2>2 DEF Request
    <2>4. Becomes(q, r)
      BY <1>6
    <2>5. faults' \in Nat
      BY <1>6, FaultCounted
    <2> QED
      BY <1>2, <1>5, <1>6, <2>3, <2>4, <2>5
  <1>7. CASE Rotate(n) /\ Fault /\ RefreshFailed(q) /\ mishap' = TRUE
    <2> PICK old : old = req[q]
      OBVIOUS
    <2> PICK r : r = [old EXCEPT !.pc = "reply", !.out = "anonymous"]
      OBVIOUS
    <2>1. old \in Request
      BY <1>2
    <2>2. r = [old EXCEPT !.pc = "reply", !.out = "anonymous"]
      OBVIOUS
    <2>3. /\ r \in Request /\ r.kind = old.kind /\ r.pc = "reply" /\ r.sent = old.sent
          /\ r.got = old.got /\ r.sets = old.sets
      BY ONLY <2>1, <2>2 DEF Request
    <2>4. Becomes(q, r)
      BY <1>7 DEF RefreshFailed, Reply
    <2>5. faults' \in Nat
      BY <1>7, FaultCounted
    <2> QED
      BY <1>2, <1>5, <1>7, <2>3, <2>4, <2>5
  <1>8. CASE Refusable(n) /\ RefreshFailed(q) /\ UNCHANGED <<issued, successor, live, mishap, faults>>
    BY <1>4, <1>8, FaultCounted
  <1>9. CASE Fault /\ RefreshFailed(q) /\ UNCHANGED <<issued, successor, live, mishap>>
    BY <1>4, <1>9, FaultCounted
  <1> QED
    BY <1>6, <1>7, <1>8, <1>9 DEF Refresh, Refusable


LEMMA ExchangeInv == ASSUME SessionInv, NEW q \in Visits, Exchange(q) PROVE SessionInv'
  <1>1. /\ req[q].pc = "exchange" /\ UNCHANGED <<jar, successor, late, revoked, begun, mishap>>
        /\ req[q] \in Request /\ Shape(req[q]) /\ req[q].sets = Missing
        /\ req[q].state \in 1..begun
        /\ revoked \subseteq Grants /\ spent \subseteq 1..begun /\ mishap \in BOOLEAN
        /\ touched' \subseteq Visits
    BY InvFacts DEF Exchange, Shape, Touch
  <1>2. CASE Reply(q, "failed") /\ UNCHANGED <<issued, live>> /\ spent' \subseteq 1..begun /\ faults' \in Nat
    BY <1>1, <1>2, ReplyStep DEF Outs
  <1>3. ASSUME issued < MaxGrants, issued' = issued + 1, live' = live \cup {issued + 1},
               spent' = spent \cup {req[q].state}, faults' \in Nat, NEW r \in Request, Becomes(q, r),
               r.kind = req[q].kind, r.pc \in {"check", "reply"}, r.sent = req[q].sent, r.sets = Missing,
               r.state = req[q].state,
               r.got = IF r.pc = "check" THEN issued + 1 ELSE req[q].got
        PROVE  SessionInv'
    <2> PICK g : g = issued + 1
      OBVIOUS
    <2>1. g \in Grants /\ g \in Token /\ g # Missing /\ issued \in Nat /\ issued' = g
      BY <1>3, Numbers, GrantTypes
    <2>2. /\ issued' \in issued..MaxGrants /\ g <= issued' /\ live' = live \cup {g}
          /\ live' \subseteq 1..issued'
      BY <1>3, <2>1, Numbers
    <2>3. \A t \in Token : t <= issued => t <= issued' /\ t # g
      BY <1>3, <2>1, GrantTypes
    <2>4. /\ req[q].got \in Token /\ req[q].got <= issued /\ Missing <= issued /\ Missing \in Token
          /\ req[q].sent.rt \in Token /\ req[q].sent.rt <= issued
      BY <1>1, <2>1, InvFacts, GrantTypes DEF Shape, Missing
    <2>5. r.sent.rt <= issued' /\ r.got <= issued' /\ r.sets <= issued'
      BY <1>3, <2>1, <2>2, <2>3, <2>4
    <2>6. Shape(r)'
      BY <1>1, <1>3, <2>5 DEF Shape
    <2>7. /\ successor' \in [Grants -> Token]
          /\ \A n \in Grants : successor'[n] # Missing => n < successor'[n] /\ successor'[n] <= issued'
      BY <1>1, <2>3, Numbers
    <2>8. spent' \subseteq 1..begun
      BY <1>1, <1>3
    <2>9. SessionTypeOK' /\ Paired' /\ Grown' /\ \A p \in Visits : Shape(req[p])'
      BY <1>1, <1>3, <2>2, <2>6, <2>7, <2>8, IssuerStep
    <2>10. CASE r.pc = "check"
      <3>1. ASSUME ~mishap' PROVE Calm'
        <4>1. Calm /\ r.got = g
          BY <1>1, <1>3, <2>10, <3>1 DEF SessionInv
        <4>2. Carried(req[q]) = Missing
          BY <1>1 DEF Carried
        <4>3. \A p \in Visits : req[p].sent.rt # g
          BY <2>3, InvFacts DEF Shape
        <4>4. jar.rt # g
          BY <2>3, Numbers
        <4>5. successor'[g] = Missing
          <5>1. ~(g < successor[g] /\ successor[g] <= issued)
            <6>1. successor[g] \in Nat
              BY <2>1, Numbers, GrantTypes
            <6> QED
              BY <2>1, <1>3, <6>1
          <5> QED
            BY <1>1, <2>1, <5>1, Numbers
        <4>6. \A h \in Grants : h # Missing => successor'[h] = successor[h]
          BY <1>1
        <4>7. Missing \in Token
          BY GrantTypes
        <4> QED
          BY <1>1, <1>3, <2>1, <2>2, <2>10, <4>1, <4>2, <4>3, <4>4, <4>5, <4>6, <4>7, ObtainCalm
      <3> QED
        BY <1>1, <2>9, <3>1 DEF SessionInv
    <2>11. CASE r.pc = "reply"
      <3>1. ASSUME ~mishap' PROVE Calm'
        <4>1. Calm
          BY <1>1, <3>1 DEF SessionInv
        <4>2. req'[q] = r /\ \A p \in Visits \ {q} : req'[p] = req[p]
          BY <1>3 DEF Becomes, SessionInv, SessionTypeOK
        <4>3. \A p \in Visits : Carried(req[p])' = Carried(req[p])
          BY <1>1, <1>3, <2>11, <4>2 DEF Carried
        <4>4. \A p \in Visits : MayRefresh(req[p])' => MayRefresh(req[p]) /\ req'[p].sent.rt = req[p].sent.rt
          BY <2>2, <2>11, <4>2 DEF MayRefresh
        <4>5. (JarStale' => JarStale) /\ \A h : Newest(h) => Newest(h)'
          BY <1>1, <2>2 DEF JarStale, Newest
        <4>6. Carriers' /\ JarApart' /\ OnItsWay' /\ JarInTime'
          BY <1>1, <4>1, <4>3, <4>5 DEF Calm, Carriers, JarApart, OnItsWay, JarInTime
        <4>7. OneRoot'
          BY <1>1, <4>1, <4>3, <4>4, <4>5 DEF Calm, OneRoot
        <4> QED
          BY <4>6, <4>7 DEF Calm
      <3> QED
        BY <1>1, <2>9, <3>1 DEF SessionInv
    <2> QED
      BY <1>3, <2>10, <2>11
  <1>4. CASE /\ issued < MaxGrants /\ issued' = issued + 1 /\ live' = live \cup {issued + 1}
             /\ spent' = spent \cup {req[q].state} /\ UNCHANGED faults
             /\ Becomes(q, [req[q] EXCEPT !.pc = "check", !.got = issued + 1])
    <2> PICK old : old = req[q]
      OBVIOUS
    <2> PICK g : g = issued + 1
      OBVIOUS
    <2> PICK r : r = [old EXCEPT !.pc = "check", !.got = g]
      OBVIOUS
    <2>1. old \in Request /\ g \in Token
      BY <1>1, <1>4, Numbers
    <2>2. r = [old EXCEPT !.pc = "check", !.got = g]
      OBVIOUS
    <2>3. /\ r \in Request /\ r.kind = old.kind /\ r.pc = "check" /\ r.sent = old.sent
          /\ r.state = old.state /\ r.got = g /\ r.sets = old.sets
      BY ONLY <2>1, <2>2 DEF Request
    <2>4. Becomes(q, r)
      BY <1>4
    <2>5. faults' \in Nat
      BY <1>4, FaultCounted
    <2> QED
      BY <1>1, <1>3, <1>4, <2>3, <2>4, <2>5
  <1>5. CASE /\ issued < MaxGrants /\ issued' = issued + 1 /\ live' = live \cup {issued + 1}
             /\ spent' = spent \cup {req[q].state} /\ Fault /\ Reply(q, "failed")
    <2> PICK old : old = req[q]
      OBVIOUS
    <2> PICK r : r = [old EXCEPT !.pc = "reply", !.out = "failed"]
      OBVIOUS
    <2>1. old \in Request
      BY <1>1
    <2>2. r = [old EXCEPT !.pc = "reply", !.out = "failed"]
      OBVIOUS
    <2>3. /\ r \in Request /\ r.kind = old.kind /\ r.pc = "reply" /\ r.sent = old.sent
          /\ r.state = old.state /\ r.got = old.got /\ r.sets = old.sets
      BY ONLY <2>1, <2>2 DEF Request
    <2>4. Becomes(q, r)
      BY <1>5 DEF Reply
    <2>5. faults' \in Nat
      BY <1>5, FaultCounted
    <2> QED
      BY <1>1, <1>3, <1>5, <2>3, <2>4, <2>5
  <1>6. CASE Reply(q, "failed") /\ UNCHANGED <<issued, live, spent>> /\ (Fault \/ UNCHANGED faults)
    BY <1>1, <1>2, <1>6, FaultCounted
  <1> QED
    BY <1>4, <1>5, <1>6 DEF Exchange


(* A new request carries the jar as it is.                                 *)
LEMMA NewRequest ==
  ASSUME SessionInv, NEW q \in Visits, req[q].pc = "idle", NEW r \in Request, Becomes(q, r),
         UNCHANGED <<jar, tokenIssuer, begun, mishap, faults, touched>>,
         r.pc = "start", r.sent = jar, r.got = Missing, r.sets = Missing,
         r.kind = "callback" => r.state \in 1..begun
  PROVE  SessionInv'
  <1>1. /\ SessionTypeOK /\ Paired /\ Grown /\ \A p \in Visits : Shape(req[p])
        /\ mishap \/ Calm
    BY DEF SessionInv
  <1>2. req'[q] = r /\ \A p \in Visits \ {q} : req'[p] = req[p]
    BY <1>1 DEF Becomes, SessionTypeOK
  <1>3. SessionTypeOK'
    BY <1>1 DEF SessionTypeOK, Becomes, tokenIssuer
  <1>4. Paired' /\ Grown'
    BY <1>1 DEF Paired, Grown, tokenIssuer
  <1>5. \A p \in Visits : Shape(req[p])'
    <2>1. r.sent.rt <= issued /\ Missing <= issued
      BY Numbers DEF Missing
    <2> QED
      BY <1>1, <1>2, <2>1 DEF Shape, tokenIssuer
  <1>6. ASSUME ~mishap' PROVE Calm'
    <2>1. Calm
      BY <1>1, <1>6
    <2>2. Carried(req[q])' = Missing /\ \A p \in Visits : Carried(req[p])' = Carried(req[p])
      BY <1>2 DEF Carried
    <2>3. JarStale' = JarStale /\ \A g : Newest(g)' = Newest(g)
      BY DEF JarStale, Newest, tokenIssuer
    <2>4. Carriers' /\ JarApart' /\ OnItsWay' /\ JarInTime'
      BY <2>1, <2>2, <2>3 DEF Calm, Carriers, JarApart, OnItsWay, JarInTime, tokenIssuer
    <2>5. MayRefresh(req[q])' => JarStale
      BY <1>2 DEF MayRefresh, JarStale, tokenIssuer
    <2>6. \A p \in Visits \ {q} : MayRefresh(req[p])' => MayRefresh(req[p])
      BY <1>2 DEF MayRefresh, tokenIssuer
    <2>7. \A p \in Visits : MayRefresh(req[p]) /\ JarStale => req[p].sent.rt = jar.rt
      BY <2>1 DEF Calm, OneRoot
    <2>8. JarStale /\ successor[jar.rt] # Missing => jar.rt \in revoked \/ Newest(successor[jar.rt])
      BY <2>1 DEF Calm, JarStale, OnItsWay, Carriers
    <2>9. JarStale => \A p \in Visits : Carried(req[p]) # jar.rt
      BY <2>1 DEF Calm, JarApart
    <2>10. OneRoot'
      <3>1. SUFFICES ASSUME NEW p \in Visits, MayRefresh(req[p])'
                     PROVE  /\ JarStale' => jar'.rt = req'[p].sent.rt
                            /\ \A o \in Visits : MayRefresh(req[o])' => req'[o].sent.rt = req'[p].sent.rt
                            /\ \A o \in Visits : Carried(req[o])' # req'[p].sent.rt
                            /\ successor'[req'[p].sent.rt] # Missing =>
                                  req'[p].sent.rt \in revoked' \/ Newest(successor[req[p].sent.rt])'
        BY DEF OneRoot
      <3>2. CASE p = q
        <4>1. JarStale /\ req'[p].sent.rt = jar.rt
          BY <1>2, <2>5, <3>1, <3>2
        <4>2. \A o \in Visits : MayRefresh(req[o])' => req'[o].sent.rt = jar.rt
          BY <1>2, <2>6, <2>7, <4>1
        <4> QED
          BY <2>2, <2>3, <2>8, <2>9, <4>1, <4>2 DEF tokenIssuer, Newest
      <3>3. CASE p # q
        <4>1. MayRefresh(req[p]) /\ req'[p] = req[p]
          BY <1>2, <2>6, <3>1, <3>3
        <4>2. /\ JarStale => jar.rt = req[p].sent.rt
              /\ \A o \in Visits : MayRefresh(req[o]) => req[o].sent.rt = req[p].sent.rt
              /\ \A o \in Visits : Carried(req[o]) # req[p].sent.rt
              /\ successor[req[p].sent.rt] # Missing =>
                    req[p].sent.rt \in revoked \/ Newest(successor[req[p].sent.rt])
          BY <2>1, <4>1 DEF Calm, OneRoot
        <4>3. \A o \in Visits : MayRefresh(req[o])' => req'[o].sent.rt = req[p].sent.rt
          BY <1>2, <2>5, <2>6, <4>2
        <4> QED
          BY <2>2, <2>3, <4>1, <4>2, <4>3 DEF tokenIssuer, Newest
      <3> QED
        BY <3>2, <3>3
    <2> QED
      BY <2>4, <2>10 DEF Calm
  <1> QED
    BY <1>3, <1>4, <1>5, <1>6 DEF SessionInv

LEMMA SendInv == ASSUME SessionInv, NEW q \in Visits, Send(q) \/ SendCallback(q) PROVE SessionInv'
  <1>1. req[q].pc = "idle" /\ UNCHANGED <<jar, tokenIssuer, begun, mishap, faults, touched>>
    BY DEF Send, SendCallback
  <1>2. jar \in Jar /\ begun \in Nat /\ 1..begun \subseteq Logins
    BY BoundAssumption DEF SessionInv, SessionTypeOK, Logins
  <1> PICK none : none = NoRequest
    OBVIOUS
  <1>3. none \in Request /\ none.got = Missing /\ none.sets = Missing
    BY NoRequestType
  <1> PICK j : j = jar
    OBVIOUS
  <1>4. j \in Jar
    BY <1>2
  <1>5. ASSUME NEW kind \in {"page", "logout"},
               Becomes(q, [NoRequest EXCEPT !.kind = kind, !.pc = "start", !.sent = jar])
        PROVE  SessionInv'
    <2> PICK r : r = [none EXCEPT !.kind = kind, !.pc = "start", !.sent = j]
      OBVIOUS
    <2>1. r = [none EXCEPT !.kind = kind, !.pc = "start", !.sent = j]
      OBVIOUS
    <2>2. /\ r \in Request /\ r.kind = kind /\ r.pc = "start" /\ r.sent = j
          /\ r.got = Missing /\ r.sets = Missing
      BY ONLY <1>3, <1>4, <2>1, kind \in {"page", "logout"} DEF Request
    <2>3. Becomes(q, r)
      BY <1>5
    <2> QED
      BY <1>1, <2>2, <2>3, NewRequest
  <1>6. ASSUME NEW s \in 1..begun,
               Becomes(q, [NoRequest EXCEPT !.kind = "callback", !.pc = "start", !.sent = jar, !.state = s])
        PROVE  SessionInv'
    <2> PICK r : r = [none EXCEPT !.kind = "callback", !.pc = "start", !.sent = j, !.state = s]
      OBVIOUS
    <2>1. r = [none EXCEPT !.kind = "callback", !.pc = "start", !.sent = j, !.state = s]
      OBVIOUS
    <2>2. s \in Logins \cup {Missing}
      BY <1>2
    <2>3. /\ r \in Request /\ r.kind = "callback" /\ r.pc = "start" /\ r.sent = j
          /\ r.got = Missing /\ r.sets = Missing /\ r.state = s
      BY ONLY <1>3, <1>4, <2>1, <2>2 DEF Request
    <2>4. Becomes(q, r)
      BY <1>6
    <2> QED
      BY <1>1, <2>3, <2>4, NewRequest
  <1> QED
    BY <1>5, <1>6 DEF Send, SendCallback


(* Nothing but the login attempts moves.                                   *)
LEMMA CalmKept ==
  ASSUME Calm, UNCHANGED <<tokenIssuer, req>>, jar'.at = jar.at, jar'.rt = jar.rt PROVE Calm'
  <1>1. UNCHANGED <<live, successor, revoked, late>>
    BY DEF tokenIssuer
  <1>2. \A p \in Visits : Carried(req[p])' = Carried(req[p])
    BY DEF Carried
  <1>3. \A p \in Visits : MayRefresh(req[p])' <=> MayRefresh(req[p])
    BY <1>1 DEF MayRefresh
  <1>4. (JarStale' <=> JarStale) /\ \A g : Newest(g)' <=> Newest(g)
    BY <1>1 DEF JarStale, Newest
  <1>5. Carriers'
    BY <1>2, <1>4 DEF Calm, Carriers
  <1>6. OneRoot'
    BY <1>1, <1>2, <1>3, <1>4 DEF Calm, OneRoot
  <1>7. JarApart' /\ OnItsWay' /\ JarInTime'
    BY <1>1, <1>2, <1>4 DEF Calm, JarApart, OnItsWay, JarInTime
  <1> QED
    BY <1>5, <1>6, <1>7 DEF Calm

LEMMA LoginInv == ASSUME SessionInv, BeginLogin PROVE SessionInv'
  <1>1. /\ SessionTypeOK /\ Paired /\ Grown /\ \A p \in Visits : Shape(req[p])
        /\ mishap \/ Calm
    BY DEF SessionInv
  <1>2. begun \in Nat /\ begun' = begun + 1 /\ begun' \in 0..MaxLogins /\ begun' \in Logins
    BY <1>1, BoundAssumption DEF BeginLogin, SessionTypeOK, Logins
  <1>3. jar' \in Jar /\ jar'.at = jar.at /\ jar'.rt = jar.rt
    BY <1>1, <1>2 DEF BeginLogin, Jar, SessionTypeOK
  <1>4. 1..begun \subseteq 1..begun'
    BY <1>2
  <1>5. SessionTypeOK'
    BY <1>1, <1>2, <1>3, <1>4 DEF BeginLogin, SessionTypeOK, tokenIssuer
  <1>6. Paired' /\ Grown'
    BY <1>1, <1>3 DEF Paired, Grown, BeginLogin, tokenIssuer
  <1>7. \A p \in Visits : Shape(req[p])'
    BY <1>1, <1>4 DEF Shape, BeginLogin, tokenIssuer
  <1>8. ASSUME ~mishap' PROVE Calm'
    BY <1>1, <1>3, <1>8, CalmKept DEF BeginLogin
  <1> QED
    BY <1>5, <1>6, <1>7, <1>8 DEF SessionInv

(* The tokens stay, go together or are replaced by those of the answer.    *)
LEMMA DeliverJar ==
  ASSUME SessionInv, NEW q \in Visits, Deliver(q)
  PROVE  /\ jar' \in Jar
         /\ \/ jar'.at = jar.at /\ jar'.rt = jar.rt /\ req[q].sets = Missing
            \/ jar'.at = Missing /\ jar'.rt = Missing /\ req[q].sets = Missing
            \/ jar'.at = req[q].sets /\ jar'.rt = req[q].sets /\ req[q].sets # Missing
  <1>1. /\ req[q] \in Request /\ Shape(req[q]) /\ req[q].sets \in Token /\ jar \in Jar
    BY InvFacts DEF SessionInv, SessionTypeOK
  <1> PICK g : g = req[q].sets
    OBVIOUS
  <1> PICK j : j = IF g # Missing THEN [jar EXCEPT !.at = g, !.rt = g] ELSE jar
    OBVIOUS
  <1>2. /\ j \in Jar
        /\ \/ g = Missing /\ j.at = jar.at /\ j.rt = jar.rt
           \/ g # Missing /\ j.at = g /\ j.rt = g
    <2> PICK old : old = jar
      OBVIOUS
    <2>1. CASE g = Missing
      BY <1>1, <2>1
    <2>2. CASE g # Missing
      <3>1. j = [old EXCEPT !.at = g, !.rt = g] /\ old \in Jar /\ g \in Token
        BY <1>1, <2>2
      <3>2. j \in Jar /\ j.at = g /\ j.rt = g
        BY ONLY <3>1 DEF Jar
      <3> QED
        BY <2>2, <3>2
    <2> QED
      BY <2>1, <2>2
  <1>3. jar' = CASE req[q].clears = "nothing" -> j
                 [] req[q].clears = "session" -> NoCookies
                 [] req[q].clears = "login" -> [j EXCEPT !.login = Missing]
    BY DEF Deliver, Stored
  <1>4. CASE req[q].clears = "nothing"
    BY <1>2, <1>3, <1>4
  <1>5. CASE req[q].clears = "session"
    <2>1. g = Missing /\ jar' = NoCookies
      BY <1>1, <1>3, <1>5 DEF Shape
    <2> QED
      BY <2>1, NoRequestType
  <1>6. CASE req[q].clears = "login"
    <2>1. jar' = [j EXCEPT !.login = Missing]
      BY <1>3, <1>6
    <2>2. jar' \in Jar /\ jar'.at = j.at /\ jar'.rt = j.rt
      BY <1>2, <2>1 DEF Jar
    <2> QED
      BY <1>2, <2>2
  <1>7. req[q].clears \in {"nothing", "session", "login"}
    BY <1>1 DEF Request
  <1> QED
    BY <1>4, <1>5, <1>6, <1>7

LEMMA DeliverInv == ASSUME SessionInv, NEW q \in Visits, Deliver(q) PROVE SessionInv'
  <1>1. /\ SessionTypeOK /\ Paired /\ Grown /\ \A p \in Visits : Shape(req[p])
        /\ mishap \/ Calm
    BY DEF SessionInv
  <1>2. /\ req[q].pc = "reply" /\ UNCHANGED <<tokenIssuer, begun, mishap, faults>>
        /\ Becomes(q, NoRequest) /\ touched' = touched \ {q}
    BY DEF Deliver
  <1>3. req'[q] = NoRequest /\ \A p \in Visits \ {q} : req'[p] = req[p]
    BY <1>1, <1>2 DEF Becomes, SessionTypeOK
  <1>4. SessionTypeOK'
    BY <1>1, <1>2, DeliverJar, NoRequestType DEF SessionTypeOK, Becomes, tokenIssuer
  <1>5. Paired'
    BY <1>1, DeliverJar DEF Paired
  <1>6. jar'.rt <= issued
    BY <1>1, InvFacts, Numbers, DeliverJar DEF Shape, Missing
  <1>7. Grown'
    BY <1>1, <1>2, <1>6 DEF Grown, tokenIssuer
  <1>8. \A p \in Visits : Shape(req[p])'
    <2>1. Missing <= issued
      BY Numbers DEF Missing
    <2> QED
      BY <1>1, <1>2, <1>3, <2>1, NoRequestType DEF Shape, tokenIssuer
  <1>9. ASSUME ~mishap' PROVE Calm'
    <2>1. Calm
      BY <1>1, <1>2, <1>9
    <2>2. \A p \in Visits : MayRefresh(req[p])' => p # q /\ MayRefresh(req[p]) /\ req'[p] = req[p]
      BY <1>2, <1>3, NoRequestType DEF MayRefresh, tokenIssuer
    <2>3. Carried(req[q])' = Missing /\ Carried(req[q]) = req[q].sets
          /\ \A p \in Visits \ {q} : Carried(req[p])' = Carried(req[p])
      BY <1>2, <1>3, NoRequestType DEF Carried
    <2>4. \A h : Newest(h)' = Newest(h)
      BY <1>2 DEF Newest, tokenIssuer
    <2>5. Carriers'
      BY <2>1, <2>3, <2>4 DEF Calm, Carriers
    <2>6. req[q].sets # Missing => Newest(req[q].sets) /\ req[q].sets \notin late
      <3>1. req[q].sets # Missing => Newest(req[q].sets)
        BY <2>1, <2>3 DEF Calm, Carriers
      <3> QED
        BY <1>1, <3>1 DEF Grown, Newest
    <2>7. \A p \in Visits : MayRefresh(req[p]) => req[p].sent.rt # Missing
      BY <1>1 DEF Shape, MayRefresh
    <2>8. CASE jar'.at = jar.at /\ jar'.rt = jar.rt /\ req[q].sets = Missing
      <3>1. \A p \in Visits : Carried(req[p])' = Carried(req[p])
        BY <2>3, <2>8
      <3>2. JarStale' = JarStale
        BY <1>2, <2>8 DEF JarStale, tokenIssuer
      <3>3. JarApart' /\ OnItsWay' /\ JarInTime'
        BY <1>2, <2>1, <2>8, <3>1, <3>2 DEF Calm, JarApart, OnItsWay, JarInTime, tokenIssuer
      <3>4. OneRoot'
        BY <1>2, <2>1, <2>2, <2>4, <2>8, <3>1, <3>2 DEF Calm, OneRoot, tokenIssuer
      <3> QED
        BY <2>5, <3>3, <3>4 DEF Calm
    <2>9. CASE ~JarStale' /\ (jar'.rt # Missing => successor'[jar'.rt] = Missing) /\ jar'.rt \notin late'
      <3>1. JarApart' /\ OnItsWay' /\ JarInTime'
        BY <2>9 DEF JarApart, OnItsWay, JarInTime
      <3>2. \A p \in Visits : MayRefresh(req[p]) =>
                /\ \A o \in Visits : MayRefresh(req[o]) => req[o].sent.rt = req[p].sent.rt
                /\ \A o \in Visits : Carried(req[o]) # req[p].sent.rt
                /\ successor[req[p].sent.rt] # Missing =>
                      req[p].sent.rt \in revoked \/ Newest(successor[req[p].sent.rt])
        BY <2>1 DEF Calm, OneRoot
      <3>3. \A o, p \in Visits : MayRefresh(req[p]) => Carried(req[o])' # req[p].sent.rt
        BY <2>3, <2>7, <3>2
      <3>4. OneRoot'
        BY <1>2, <2>2, <2>4, <2>9, <3>2, <3>3 DEF OneRoot, tokenIssuer
      <3> QED
        BY <2>5, <3>1, <3>4 DEF Calm
    <2>10. CASE jar'.at = Missing /\ jar'.rt = Missing
      <3>1. Missing \notin late
        BY <1>1, GrantTypes DEF SessionTypeOK
      <3> QED
        BY <1>2, <2>9, <2>10, <3>1 DEF JarStale, tokenIssuer
    <2>11. CASE jar'.at = req[q].sets /\ jar'.rt = req[q].sets /\ req[q].sets # Missing
      BY <1>2, <2>6, <2>9, <2>11 DEF JarStale, Newest, tokenIssuer
    <2> QED
      BY <2>8, <2>10, <2>11, DeliverJar
  <1> QED
    BY <1>4, <1>5, <1>7, <1>8, <1>9 DEF SessionInv

(* What only happens when the browser waits for nothing.                   *)
LEMMA QuietInv ==
  ASSUME SessionInv, Quiet, UNCHANGED <<issued, successor, revoked, spent, begun, req, mishap, faults, touched>>,
         jar' \in Jar, jar'.rt = jar.rt, jar'.at \in {jar.at, Missing}, live' \subseteq live,
         late \subseteq late', \A n \in late' : n \in Grants /\ successor[n] # Missing
  PROVE  SessionInv'
  <1>1. /\ SessionTypeOK /\ Paired /\ Grown /\ \A p \in Visits : Shape(req[p])
        /\ mishap \/ Calm
    BY DEF SessionInv
  <1>2. SessionTypeOK'
    BY <1>1 DEF SessionTypeOK
  <1>3. Paired' /\ Grown'
    BY <1>1 DEF Paired, Grown
  <1>4. \A p \in Visits : Shape(req[p])'
    BY <1>1 DEF Shape
  <1>5. \A p \in Visits : Carried(req[p]) = Missing /\ ~MayRefresh(req[p])
    BY DEF Quiet, Carried, MayRefresh
  <1>6. \A p \in Visits : Carried(req[p])' = Missing /\ ~MayRefresh(req[p])'
    BY DEF Quiet, Carried, MayRefresh
  <1>7. ASSUME ~mishap' PROVE Calm'
    <2>1. Carriers' /\ OneRoot'
      BY <1>6 DEF Carriers, OneRoot
    <2>2. JarApart'
      BY <1>6 DEF JarApart, JarStale
    <2>3. OnItsWay'
      BY <1>1, <1>5, <1>7 DEF Calm, OnItsWay
    <2>4. jar.rt # Missing /\ successor[jar.rt] # Missing => jar.rt \in revoked
      BY <1>1, <1>5, <1>7 DEF Calm, OnItsWay
    <2>5. JarInTime'
      BY <2>4, GrantTypes DEF JarInTime
    <2> QED
      BY <2>1, <2>2, <2>3, <2>5 DEF Calm
  <1> QED
    BY <1>2, <1>3, <1>4, <1>7 DEF SessionInv

LEMMA ExpiryInv ==
  ASSUME SessionInv,
         AccessCookieExpires \/ \E n \in Grants : AccessTokenExpires(n) \/ WindowCloses(n)
  PROVE  SessionInv'
  <1>1. jar \in Jar /\ late \subseteq Grants /\ \A n \in late : successor[n] # Missing
    BY DEF SessionInv, SessionTypeOK, Grown
  <1>2. CASE AccessCookieExpires
    <2>1. jar' \in Jar /\ jar'.rt = jar.rt /\ jar'.at = Missing
      BY <1>1, <1>2 DEF AccessCookieExpires, Jar, Token
    <2> QED
      BY <1>1, <1>2, <2>1, QuietInv DEF AccessCookieExpires, tokenIssuer
  <1>3. ASSUME NEW n \in Grants, AccessTokenExpires(n) PROVE SessionInv'
    BY <1>1, <1>3, QuietInv DEF AccessTokenExpires
  <1>4. ASSUME NEW n \in Grants, WindowCloses(n) PROVE SessionInv'
    BY <1>1, <1>4, QuietInv DEF WindowCloses
  <1> QED
    BY <1>2, <1>3, <1>4

LEMMA SessionStepInv == SessionInv /\ [SessionNext]_sessionVars => SessionInv'
  <1> SUFFICES ASSUME SessionInv, [SessionNext]_sessionVars PROVE SessionInv'
    OBVIOUS
  <1>1. ASSUME NEW q \in Visits, Handle(q) PROVE SessionInv'
    BY <1>1, SecretInv, VerifyAccessInv, RefreshInv, CheckInv, LogoutInv, RevokeInv, CallbackInv, ExchangeInv
       DEF Handle
  <1>2. ASSUME NEW q \in Visits, Send(q) \/ SendCallback(q) \/ Deliver(q) \/ LoseAnswer(q) PROVE SessionInv'
    BY <1>2, SendInv, DeliverInv, LoseInv
  <1>3. CASE UNCHANGED sessionVars
    <2>1. UNCHANGED <<tokenIssuer, jar, begun, req, mishap, faults, touched>>
      BY <1>3 DEF sessionVars
    <2>2. SessionTypeOK' /\ Paired' /\ Grown'
      BY <2>1 DEF tokenIssuer, SessionInv, SessionTypeOK, Paired, Grown
    <2>3. \A q \in Visits : Shape(req[q])'
      BY <2>1 DEF tokenIssuer, SessionInv, Shape
    <2>4. Calm => Calm'
      BY <2>1, CalmKept
    <2> QED
      BY <2>1, <2>2, <2>3, <2>4 DEF SessionInv
  <1> QED
    BY <1>1, <1>2, <1>3, LoginInv, ExpiryInv DEF SessionNext

(* What cookies, requests, answers and grants agree on, whatever overlaps  *)
(* (Middleware, SetSessionCookies).                                        *)
THEOREM SessionInvariant == SessionSpec => []SessionInv
  BY SessionInitInv, SessionStepInv, PTL DEF SessionSpec

(* Concurrent refreshes never leave the browser a token that is over.      *)
THEOREM SessionOutlivesRaces == SessionSpec => []SessionSurvives
  <1>1. SessionInv => SessionSurvives
    BY DEF SessionInv, Calm, JarInTime, SessionSurvives
  <1> QED
    BY <1>1, SessionInvariant, PTL


(* A request answered 503 has not used the issuer, and one that has is     *)
(* about to check what it got or to answer.                                *)
Harmless(q) ==
    /\ req[q].out = "unavailable" => req[q].pc = "reply" /\ q \notin touched
    /\ q \in touched => req[q].pc \in {"check", "reply"}

LEMMA NoOutcome == NoRequest \in Request /\ NoRequest.out = ""
  BY NoRequestType DEF NoRequest

(* Where a step of its handler leaves request p.                           *)
LEMMA Moves ==
  ASSUME SessionTypeOK, NEW p \in Visits
  PROVE  /\ \A out : Reply(p, out) => req'[p].pc = "reply" /\ req'[p].out = out
         /\ \A pc : Goto(p, pc) => req'[p].pc = pc /\ req'[p].out = req[p].out
         /\ \A g : Becomes(p, [req[p] EXCEPT !.pc = "check", !.got = g]) =>
                       req'[p].pc = "check" /\ req'[p].out = req[p].out
  <1> PICK old : old = req[p]
    OBVIOUS
  <1>1. req \in [Visits -> Request] /\ old \in Request
    BY DEF SessionTypeOK
  <1>2. ASSUME NEW r, Becomes(p, r) PROVE req'[p] = r
    BY <1>1, <1>2 DEF Becomes
  <1>3. ASSUME NEW out, Reply(p, out) PROVE req'[p].pc = "reply" /\ req'[p].out = out
    <2> PICK r : r = [old EXCEPT !.pc = "reply", !.out = out]
      OBVIOUS
    <2>1. r = [old EXCEPT !.pc = "reply", !.out = out]
      OBVIOUS
    <2>2. r.pc = "reply" /\ r.out = out
      BY ONLY <1>1, <2>1 DEF Request
    <2>3. Becomes(p, r)
      BY <1>3 DEF Reply
    <2> QED
      BY <1>2, <2>2, <2>3
  <1>4. ASSUME NEW pc, Goto(p, pc) PROVE req'[p].pc = pc /\ req'[p].out = req[p].out
    <2> PICK r : r = [old EXCEPT !.pc = pc]
      OBVIOUS
    <2>1. r = [old EXCEPT !.pc = pc]
      OBVIOUS
    <2>2. r.pc = pc /\ r.out = old.out
      BY ONLY <1>1, <2>1 DEF Request
    <2>3. Becomes(p, r)
      BY <1>4 DEF Goto
    <2> QED
      BY <1>2, <2>2, <2>3
  <1>5. ASSUME NEW g, Becomes(p, [req[p] EXCEPT !.pc = "check", !.got = g])
        PROVE  req'[p].pc = "check" /\ req'[p].out = req[p].out
    <2> PICK r : r = [old EXCEPT !.pc = "check", !.got = g]
      OBVIOUS
    <2>1. r = [old EXCEPT !.pc = "check", !.got = g]
      OBVIOUS
    <2>2. r.pc = "check" /\ r.out = old.out
      BY ONLY <1>1, <2>1 DEF Request
    <2>3. Becomes(p, r)
      BY <1>5
    <2> QED
      BY <1>2, <2>2, <2>3
  <1> QED
    BY <1>3, <1>4, <1>5

LEMMA HandleHarmless ==
  ASSUME SessionTypeOK, NEW p \in Visits, Harmless(p), Handle(p)
  PROVE  Harmless(p)' /\ touched' \ {p} = touched \ {p}
  <1>1. ASSUME touched' = touched, req[p].pc \in {"start", "verify", "exchange", "refresh", "revoke"},
               \/ \E out : Reply(p, out)
               \/ \E pc : Goto(p, pc)
        PROVE  Harmless(p)'
    <2>1. p \notin touched' /\ req[p].out # "unavailable"
      BY <1>1 DEF Harmless
    <2>2. req'[p].pc = "reply" \/ req'[p].out # "unavailable"
      BY <1>1, <2>1, Moves
    <2> QED
      BY <2>1, <2>2 DEF Harmless
  <1>2. ASSUME NEW out \in {"anonymous", "failed", "done"}, Reply(p, out) PROVE Harmless(p)'
    BY <1>2, Moves DEF Harmless
  <1>3. ASSUME NEW g, Becomes(p, [req[p] EXCEPT !.pc = "check", !.got = g]),
               req[p].pc \in {"refresh", "exchange"}
        PROVE  Harmless(p)'
    BY <1>3, Moves DEF Harmless
  <1>4. CASE MiddlewareSecret(p)
    BY <1>1, <1>4 DEF MiddlewareSecret, At
  <1>5. CASE VerifyAccess(p)
    BY <1>1, <1>5 DEF VerifyAccess, Unverified, At
  <1>6. CASE Callback(p)
    BY <1>1, <1>6 DEF Callback, At
  <1>7. CASE Refresh(p)
    <2>1. \/ Reply(p, "anonymous")
          \/ Becomes(p, [req[p] EXCEPT !.pc = "check", !.got = successor'[req[p].sent.rt]])
      BY <1>7 DEF Refresh, RefreshFailed
    <2>2. req[p].pc = "refresh" /\ touched' \in {touched, touched \cup {p}}
      BY <1>7 DEF Refresh, At, Touch
    <2>3. Harmless(p)'
      BY <1>2, <1>3, <2>1, <2>2
    <2> QED
      BY <2>2, <2>3
  <1>8. CASE Exchange(p)
    <2>1. \/ Reply(p, "failed")
          \/ Becomes(p, [req[p] EXCEPT !.pc = "check", !.got = issued + 1])
      BY <1>8 DEF Exchange
    <2>2. req[p].pc = "exchange" /\ touched' \in {touched, touched \cup {p}}
      BY <1>8 DEF Exchange, Touch
    <2>3. Harmless(p)'
      BY <1>2, <1>3, <2>1, <2>2
    <2> QED
      BY <2>2, <2>3
  <1>9. CASE Revoke(p)
    <2>1. Harmless(p)'
      BY <1>2, <1>9 DEF Revoke
    <2> QED
      BY <1>9, <2>1 DEF Revoke, Touch
  <1>10. CASE Logout(p)
    <2>1. req[p].pc = "start" /\ touched' = touched /\ p \notin touched /\ req[p].out # "unavailable"
      BY <1>10 DEF Logout, At, Harmless
    <2> PICK old : old = req[p]
      OBVIOUS
    <2>2. old \in Request
      BY DEF SessionTypeOK
    <2>3. req'[p].pc = "reply" \/ req'[p].out # "unavailable"
      <3> PICK r : r = [old EXCEPT !.clears = "session"]
        OBVIOUS
      <3>1. r = [old EXCEPT !.clears = "session"]
        OBVIOUS
      <3>2. r \in Request /\ r.out = old.out
        BY ONLY <2>2, <3>1 DEF Request
      <3>3. \/ Becomes(p, [r EXCEPT !.pc = "reply", !.out = "done"])
            \/ Becomes(p, [r EXCEPT !.pc = "revoke"])
            \/ Becomes(p, [r EXCEPT !.pc = "reply", !.out = "unavailable"])
        BY <1>10 DEF Logout
      <3>4. [r EXCEPT !.pc = "reply", !.out = "done"].pc = "reply"
        BY ONLY <3>2 DEF Request
      <3>5. [r EXCEPT !.pc = "reply", !.out = "unavailable"].pc = "reply"
        BY ONLY <3>2 DEF Request
      <3>6. [r EXCEPT !.pc = "revoke"].out = r.out
        BY ONLY <3>2 DEF Request
      <3>7. \A s : Becomes(p, s) => req'[p] = s
        BY DEF Becomes, SessionTypeOK
      <3> QED
        BY <2>1, <3>2, <3>3, <3>4, <3>5, <3>6, <3>7
    <2> QED
      BY <2>1, <2>3 DEF Harmless
  <1>11. CASE CheckTokens(p)
    <2>1. req[p].pc = "check" /\ touched' = touched
      BY <1>11 DEF CheckTokens
    <2>2. CASE Reply(p, Dropped(p))
      BY <1>2, <2>1, <2>2 DEF Dropped
    <2>3. ASSUME NEW out \in {"user", "done"}, NEW clears \in {"nothing", "login"},
                 Becomes(p, [req[p] EXCEPT !.pc = "reply", !.sets = Written(req[p]), !.out = out,
                                           !.clears = clears])
          PROVE  Harmless(p)'
      <3> PICK old : old = req[p]
        OBVIOUS
      <3> PICK g : g = Written(old)
        OBVIOUS
      <3> PICK r : r = [old EXCEPT !.pc = "reply", !.sets = g, !.out = out, !.clears = clears]
        OBVIOUS
      <3>1. old \in Request /\ r = [old EXCEPT !.pc = "reply", !.sets = g, !.out = out, !.clears = clears]
        BY DEF SessionTypeOK
      <3>2. r.pc = "reply" /\ r.out = out
        BY ONLY <3>1 DEF Request
      <3>3. req'[p] = r
        BY <2>3 DEF Becomes, SessionTypeOK
      <3> QED
        BY <2>3, <3>2, <3>3 DEF Harmless
    <2>4. CASE req[p].kind = "page"
      BY <1>11, <2>1, <2>2, <2>3, <2>4 DEF CheckTokens
    <2>5. CASE req[p].kind # "page"
      BY <1>11, <2>1, <2>2, <2>3, <2>5 DEF CheckTokens
    <2> QED
      BY <2>1, <2>4, <2>5
  <1> QED
    BY <1>4, <1>5, <1>6, <1>7, <1>8, <1>9, <1>10, <1>11 DEF Handle, MiddlewareSecret, VerifyAccess, Callback

AllHarmless == \A q \in Visits : Harmless(q)

LEMMA HarmlessStep == SessionTypeOK /\ AllHarmless /\ [SessionNext]_sessionVars => AllHarmless'
  <1> SUFFICES ASSUME SessionTypeOK, AllHarmless, [SessionNext]_sessionVars PROVE AllHarmless'
    OBVIOUS
  <1>1. ASSUME NEW p \in Visits, Harmless(p)', touched' \ {p} = touched \ {p},
               \A q \in Visits \ {p} : req'[q] = req[q]
        PROVE  AllHarmless'
    BY <1>1 DEF AllHarmless, Harmless
  <1>2. ASSUME NEW p \in Visits, NEW r, Becomes(p, r)
        PROVE  req'[p] = r /\ \A q \in Visits \ {p} : req'[q] = req[q]
    BY <1>2 DEF Becomes, SessionTypeOK
  <1>3. ASSUME NEW p \in Visits, Handle(p) PROVE AllHarmless'
    <2>1. Harmless(p)' /\ touched' \ {p} = touched \ {p}
      BY <1>3, HandleHarmless DEF AllHarmless
    <2>2. \E r : Becomes(p, r)
      BY <1>3 DEF Handle, MiddlewareSecret, VerifyAccess, Unverified, Refresh, RefreshFailed, CheckTokens,
                  Logout, Revoke, Callback, Exchange, Reply, Goto
    <2> QED
      BY <1>1, <1>2, <2>1, <2>2
  <1>4. ASSUME NEW p \in Visits, Deliver(p) \/ LoseAnswer(p) PROVE AllHarmless'
    <2>1. Becomes(p, NoRequest) /\ touched' = touched \ {p}
      BY <1>4 DEF Deliver, LoseAnswer
    <2>2. req'[p].out = "" /\ p \notin touched'
      BY <1>2, <2>1, NoOutcome
    <2>3. Harmless(p)'
      BY <2>2 DEF Harmless
    <2> QED
      BY <1>1, <1>2, <2>1, <2>3
  <1>5. ASSUME NEW p \in Visits, Send(p) \/ SendCallback(p) PROVE AllHarmless'
    <2>1. touched' = touched /\ p \notin touched
      BY <1>5 DEF Send, SendCallback, AllHarmless, Harmless
    <2>2. PICK r : Becomes(p, r) /\ r.out = ""
      <3> PICK none : none = NoRequest
        OBVIOUS
      <3> PICK j : j = jar
        OBVIOUS
      <3>0. none \in Request /\ none.out = ""
        BY NoOutcome
      <3>1. CASE Send(p)
        <4>1. PICK kind \in {"page", "logout"} :
                Becomes(p, [NoRequest EXCEPT !.kind = kind, !.pc = "start", !.sent = jar])
          BY <3>1 DEF Send
        <4> PICK r : r = [none EXCEPT !.kind = kind, !.pc = "start", !.sent = j]
          OBVIOUS
        <4>2. r = [none EXCEPT !.kind = kind, !.pc = "start", !.sent = j]
          OBVIOUS
        <4>3. r.out = ""
          BY ONLY <3>0, <4>2 DEF Request
        <4> QED
          BY <4>1, <4>3
      <3>2. CASE SendCallback(p)
        <4>1. PICK s \in 1..begun :
                Becomes(p, [NoRequest EXCEPT !.kind = "callback", !.pc = "start", !.sent = jar, !.state = s])
          BY <3>2 DEF SendCallback
        <4> PICK r : r = [none EXCEPT !.kind = "callback", !.pc = "start", !.sent = j, !.state = s]
          OBVIOUS
        <4>2. r = [none EXCEPT !.kind = "callback", !.pc = "start", !.sent = j, !.state = s]
          OBVIOUS
        <4>3. r.out = ""
          BY ONLY <3>0, <4>2 DEF Request
        <4> QED
          BY <4>1, <4>3
      <3> QED
        BY <1>5, <3>1, <3>2
    <2>3. Harmless(p)'
      BY <1>2, <2>1, <2>2 DEF Harmless
    <2> QED
      BY <1>1, <1>2, <2>1, <2>2, <2>3
  <1>6. CASE \/ BeginLogin \/ AccessCookieExpires \/ UNCHANGED sessionVars
             \/ \E n \in Grants : AccessTokenExpires(n) \/ WindowCloses(n)
    BY <1>6 DEF BeginLogin, AccessCookieExpires, AccessTokenExpires, WindowCloses, sessionVars,
                AllHarmless, Harmless
  <1> QED
    BY <1>3, <1>4, <1>5, <1>6 DEF SessionNext

(* UnavailableTouchesNothing: no request answered 503 has used or revoked  *)
(* a token or exchanged a code, at any of its steps.                       *)
THEOREM UnavailableHarmless == SessionSpec => []UnavailableTouchesNothing
  <1>1. SessionInit => AllHarmless
    BY NoOutcome DEF SessionInit, AllHarmless, Harmless
  <1>2. SessionInv => SessionTypeOK
    BY DEF SessionInv
  <1>3. AllHarmless => UnavailableTouchesNothing
    BY DEF AllHarmless, Harmless, UnavailableTouchesNothing
  <1> QED
    BY <1>1, <1>2, <1>3, HarmlessStep, SessionInvariant, PTL DEF SessionSpec
===============================================================================
