------------------------------- MODULE AuthKeys -------------------------------
(***************************************************************************)
(* Client.Verify of auth/verify.go over the key cache of auth/jwks.go:     *)
(* requests verify access tokens concurrently while the issuer rotates its *)
(* signing keys.  The mutex of the cache is held across the fetch.         *)
(*                                                                         *)
(* External: the issuer publishes a new key or withdraws an old one at any *)
(* time (a key ID is never reused); it answers a fetch with the set it     *)
(* publishes at that moment, the answer takes its time, or it fails.       *)
(***************************************************************************)
EXTENDS Integers, FiniteSets

CONSTANTS
    Requests,         \* requests at a time; each calls Verify again and again
    Kids,             \* key IDs
    Tokens,           \* [kid, exp]: the access tokens a request may carry
    JWKSCacheTTL,
    ClockSkew,
    MaxTime,          \* bound of the model: the clock stops here
    MaxFailures       \* bound of the model: failing fetches

ASSUME TTLAssumption ==
    /\ Tokens \subseteq [kid : Kids, exp : Nat] /\ Tokens # {}
    /\ JWKSCacheTTL \in Nat /\ ClockSkew \in Nat
    /\ MaxTime \in Nat /\ MaxFailures \in Nat

None == -1

VARIABLES
    now,
    published,        \* the key IDs in the issuer's key set
    withdrawnAt,      \* kid -> when the issuer withdrew it, or None
    keys,             \* jwks.keys: the cached key IDs
    fetchedAt,        \* jwks.fetchedAt, None at first
    holder,           \* the requests that hold jwks.mu
    call,             \* what each request is doing: see Call
    failures

issuer == <<published, withdrawnAt>>
cache == <<keys, fetchedAt>>
vars == <<now, issuer, cache, holder, call, failures>>

(* asked is the clock the holder of the mutex has read, answer the key set *)
(* on its way.  known is for the properties: whether the key was published *)
(* when the call began.                                                    *)
Call == [pc : {"idle", "lock", "fetch", "answered", "claims"}, token : Tokens,
         known : BOOLEAN, asked : Nat, answer : SUBSET Kids,
         err : {"none", "accepted", "unknown_key", "mismatch", "jwks_unavailable", "token_expired"}]

(* Between two calls, with what the last one returned; unknown_key and     *)
(* mismatch are both CodeInvalidSignature.                                 *)
Ended(err) == [pc |-> "idle", token |-> CHOOSE t \in Tokens : TRUE, known |-> FALSE,
               asked |-> 0, answer |-> {}, err |-> err]
Idle == Ended("none")

Init ==
    /\ now = 0
    /\ \E k \in Kids : published = {k}
    /\ withdrawnAt = [k \in Kids |-> None]
    /\ keys = {} /\ fetchedAt = None
    /\ holder = {}
    /\ call = [r \in Requests |-> Idle]
    /\ failures = 0

Kid(r) == call[r].token.kid
Working(r) == call[r].pc # "idle"
Set(r, c) == call' = [call EXCEPT ![r] = c]
Return(r, err) == Set(r, Ended(err))

-------------------------------------------------------------------------------
Start(r) ==
    /\ call[r].pc = "idle"
    /\ \E t \in Tokens :
          Set(r, [Idle EXCEPT !.pc = "lock", !.token = t, !.known = t.kid \in published])
    /\ UNCHANGED <<now, issuer, cache, holder, failures>>

(* Seeded fault: the mutex is not held while the keys are fetched.         *)
Lockable_Unshared == TRUE

Lockable == holder = {}

(* Seeded fault: a fresh cache is taken for complete.                      *)
Fresh_Complete(r) == fetchedAt # None /\ now - fetchedAt <= JWKSCacheTTL

Fresh(r) == Kid(r) \in keys /\ now - fetchedAt <= JWKSCacheTTL

(* The signature is verified with the key found.                           *)
Use(r, c) == Set(r, [c EXCEPT !.pc = "claims"]) \/ Return(r, "mismatch")

Lookup(r, c, set) == IF Kid(r) \in set THEN Use(r, c) ELSE Return(r, "unknown_key")

Hit(r) ==
    /\ call[r].pc = "lock" /\ Lockable
    /\ Fresh(r)
    /\ Lookup(r, call[r], keys)
    /\ UNCHANGED <<now, issuer, cache, holder, failures>>

Miss(r) ==
    /\ call[r].pc = "lock" /\ Lockable
    /\ ~Fresh(r)
    /\ holder' = holder \cup {r}
    /\ Set(r, [call[r] EXCEPT !.pc = "fetch", !.asked = now])
    /\ UNCHANGED <<now, issuer, cache, failures>>

IssuerAnswers(r) ==
    /\ call[r].pc = "fetch"
    /\ published # {}
    /\ Set(r, [call[r] EXCEPT !.pc = "answered", !.answer = published])
    /\ UNCHANGED <<now, issuer, cache, holder, failures>>

Released(r) == holder \ {r}

(* Seeded fault: the cache is dated by the arrival of the answer.          *)
Dated_OnArrival(r) == now

(* The age counts from the clock read before the fetch.                    *)
Dated(r) == call[r].asked

(* Seeded fault: a fetch adds to the cached keys and takes none away.      *)
Cached_Merged(r) == keys \cup call[r].answer

(* The cached set is replaced as a whole.                                  *)
Cached(r) == call[r].answer

Refetched(r) ==
    /\ call[r].pc = "answered"
    /\ keys' = Cached(r) /\ fetchedAt' = Dated(r)
    /\ Lookup(r, [call[r] EXCEPT !.asked = 0, !.answer = {}], call[r].answer)
    /\ holder' = Released(r)
    /\ UNCHANGED <<now, issuer, failures>>

(* No answer, a bad one, or one without an ES256 key: the cache stays, and *)
(* an old key of the right name still does.                                *)
NotFetched(r) ==
    /\ call[r].pc = "fetch"
    /\ \/ published = {} /\ UNCHANGED failures
       \/ failures < MaxFailures /\ failures' = failures + 1
    /\ IF Kid(r) \in keys THEN Use(r, [call[r] EXCEPT !.asked = 0])
                          ELSE Return(r, "jwks_unavailable")
    /\ holder' = Released(r)
    /\ UNCHANGED <<now, issuer, cache>>

(* validateClaims reads the clock again, after the fetch.                  *)
Claims(r) ==
    /\ call[r].pc = "claims"
    /\ Return(r, IF now > call[r].token.exp + ClockSkew THEN "token_expired"
                                                        ELSE "accepted")
    /\ UNCHANGED <<now, issuer, cache, holder, failures>>

-------------------------------------------------------------------------------
Publish(k) ==
    /\ k \notin published /\ withdrawnAt[k] = None
    /\ published' = published \cup {k}
    /\ UNCHANGED <<now, withdrawnAt, cache, holder, call, failures>>

Withdraw(k) ==
    /\ k \in published
    /\ published' = published \ {k}
    /\ withdrawnAt' = [withdrawnAt EXCEPT ![k] = now]
    /\ UNCHANGED <<now, cache, holder, call, failures>>

Tick ==
    /\ now < MaxTime
    /\ now' = now + 1
    /\ UNCHANGED <<issuer, cache, holder, call, failures>>

Fetch(r) == IssuerAnswers(r) \/ Refetched(r) \/ NotFetched(r)

Next ==
    \/ \E r \in Requests : Start(r) \/ Hit(r) \/ Miss(r) \/ Fetch(r) \/ Claims(r)
    \/ \E k \in Kids : Publish(k) \/ Withdraw(k)
    \/ Tick

Spec == Init /\ [][Next]_vars

-------------------------------------------------------------------------------
TypeOK ==
    /\ now \in 0..MaxTime
    /\ published \subseteq Kids
    /\ withdrawnAt \in [Kids -> Nat \cup {None}]
    /\ keys \subseteq Kids
    /\ fetchedAt \in 0..now \cup {None}
    /\ holder \subseteq Requests
    /\ call \in [Requests -> Call]
    /\ failures \in Nat

(* A withdrawn key is used from the cache only within JWKSCacheTTL of its  *)
(* withdrawal, and after a refetch only if it was withdrawn meanwhile;     *)
(* only a failing fetch prolongs its life (signingKey: the age of the      *)
(* cache, dated before the fetch).                                         *)
WithdrawnKeyExpires ==
    [][\A r \in Requests :
          LET w == withdrawnAt[Kid(r)] IN
          w # None /\ call'[r].pc = "claims" =>
              /\ call[r].pc = "lock" => now - w <= JWKSCacheTTL
              /\ call[r].pc = "answered" => w >= call[r].asked]_vars

(* A key that the issuer published before the call began, and has not      *)
(* withdrawn, is never reported as unknown: an unknown key ID causes a     *)
(* refetch however fresh the cache is (signingKey).                        *)
PublishedKeyFound ==
    [][\A r \in Requests :
          Working(r) /\ call'[r].err = "unknown_key" =>
              ~call[r].known \/ withdrawnAt[Kid(r)] # None]_vars

(* The cache never goes back: what an earlier fetch saw does not replace   *)
(* what a later one did (the mutex is held across the fetch).              *)
CacheMovesForward == [][fetchedAt' >= fetchedAt]_vars

(* A key stops being used as soon as one fetch begun after its withdrawal  *)
(* has succeeded, for whichever request: neither a hit nor an answer that  *)
(* was under way meanwhile brings it back, and a fetch that fails later    *)
(* falls back on the newer set only (signingKey: the cached set is         *)
(* replaced as a whole, and dated before it was asked for).                *)
FetchRetiresKey ==
    [][\A r \in Requests :
          LET w == withdrawnAt[Kid(r)] IN
          w # None /\ call[r].pc # "claims" /\ call'[r].pc = "claims" => fetchedAt' <= w]_vars
===============================================================================
