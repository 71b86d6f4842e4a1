------------------------------ MODULE GithubMint ------------------------------
(***************************************************************************)
(* The budgeted installation-token client of github/client.go.             *)
(*                                                                         *)
(* A Client is shared by concurrent callers.  mint takes the mutex once to *)
(* decide (cache, dedupe window, call budget, rate floor) and to arm the   *)
(* dedupe entry, releases it for the HTTP exchange, and takes it again to  *)
(* record the rate limit, to store the token, or to clear the entry it     *)
(* armed.  Every critical section is one action; what happens between two  *)
(* of them interleaves with the other callers.                             *)
(*                                                                         *)
(* GitHub is external: it serves a request, spends one unit of the         *)
(* installation's quota, and answers; an answer may be lost.               *)
(***************************************************************************)
EXTENDS Integers, Sequences, FiniteSets

CONSTANTS
    Callers,               \* goroutines that share the Client
    Keys,                  \* cache keys: installation | label | permissions
    CallBudgetConfig,      \* Config.CallBudget
    DedupeWindowConfig,    \* Config.DedupeWindow
    RateLimitFloorConfig,  \* Config.RateLimitFloor
    DefaultCallBudget,     \* the constants of client.go
    DefaultDedupeWindow,
    DefaultRateLimitFloor,
    Skew,                  \* the minute of slack a cached token must have left
    TokenLife,             \* how long GitHub's tokens live
    Quota,                 \* GitHub's calls per rate-limit period
    CallDeadline,          \* the HTTP client's timeout
    MaxTime                \* bound of the model: the clock stops here

(* New: zero or less picks the default budget and floor; a zero window     *)
(* picks the default one, and only a negative window disables the guard.   *)
CallBudget == IF CallBudgetConfig <= 0 THEN DefaultCallBudget ELSE CallBudgetConfig

DedupeWindow ==
    IF DedupeWindowConfig = 0 THEN DefaultDedupeWindow
    ELSE IF DedupeWindowConfig < 0 THEN 0
    ELSE DedupeWindowConfig

RateLimitFloor ==
    IF RateLimitFloorConfig <= 0 THEN DefaultRateLimitFloor ELSE RateLimitFloorConfig

ASSUME ConfigAssumption ==
    /\ CallBudgetConfig \in Int /\ DedupeWindowConfig \in Int /\ RateLimitFloorConfig \in Int
    /\ DefaultCallBudget \in Nat /\ DefaultRateLimitFloor \in Nat
    /\ DefaultDedupeWindow \in Nat \ {0}

ASSUME CallersAssumption == IsFiniteSet(Callers)

ASSUME TimeAssumption ==
    /\ Skew \in Nat /\ TokenLife \in Nat /\ Quota \in Nat
    /\ CallDeadline \in Nat /\ MaxTime \in Nat

None == -1
Time == Nat

(* A reply says whether mintFresh gets a token from it, carries the        *)
(* rate-limit header (None when missing or not a number) and the expiry of *)
(* the token.  The refusals (404, 422, 403, 429, another status, a garbled *)
(* 201) differ only in the error code mint returns.                        *)
Reply == [minted : BOOLEAN, remaining : Nat \cup {None}, expires : Time \cup {None}]
NoReply == [minted |-> FALSE, remaining |-> None, expires |-> None]

(* The locals of one mint in progress; n is the number of its attempt.     *)
Call == [pc : {"idle", "armed", "replied", "recorded"},
         key : Keys \cup {None}, armedAt : Time \cup {None}, n : Nat, reply : Reply]
Idle == [pc |-> "idle", key |-> None, armedAt |-> None, n |-> 0, reply |-> NoReply]

(* An attempt is open until its call returns; "late" is one whose token    *)
(* was stored after the dedupe window it had armed was over.               *)
Attempt == [key : Keys, at : Time, status : {"open", "failed", "stored", "late"}]

VARIABLES
    now,            \* the clock every caller reads
    callsMade,      \* Client.callsMade
    rateRemaining,  \* Client.rateRemaining
    rateKnown,      \* Client.rateKnown
    dedupe,         \* Client.dedupe: key -> armedAt, or None
    tokens,         \* Client.tokens: key -> expiry of the cached token, or None
    call,           \* the mint each caller is executing
    remaining,      \* GitHub: what is left of the installation's quota
    attempts,       \* history: every armed attempt [key, at, status]
    blind           \* history: replies whose remaining the client never learnt

client == <<callsMade, rateRemaining, rateKnown, dedupe, tokens>>
github == <<remaining, blind>>
vars == <<now, client, call, github, attempts>>

-------------------------------------------------------------------------------
(* The state of a Client that New just returned, before any call.          *)
Init ==
    /\ now = 0
    /\ callsMade = 0
    /\ rateRemaining = 0
    /\ rateKnown = FALSE
    /\ dedupe = [k \in Keys |-> None]
    /\ tokens = [k \in Keys |-> None]
    /\ call = [c \in Callers |-> Idle]
    /\ remaining = Quota
    /\ attempts = <<>>
    /\ blind = 0

(* Token.Expired with one minute of skew.                                  *)
Expired(expires) == now >= expires - Skew

CacheLive(k) == tokens[k] # None /\ ~Expired(tokens[k])

(* Seeded fault: the dedupe window is never consulted.                     *)
Duplicate_Ignored(k) == FALSE

Duplicate(k) ==
    /\ DedupeWindow > 0
    /\ dedupe[k] # None
    /\ now - dedupe[k] < DedupeWindow

(* Seeded fault: off by one.                                               *)
BudgetSpent_OffByOne == callsMade > CallBudget

BudgetSpent == callsMade >= CallBudget

BelowFloor == rateKnown /\ rateRemaining < RateLimitFloor

-------------------------------------------------------------------------------
(* The returns that change nothing: bad input, the cached token, and the   *)
(* refusals of the dedupe window, the call budget and the rate floor.      *)
RefuseInvalid(c) == call[c].pc = "idle" /\ UNCHANGED vars

ServeCached(c, k) == call[c].pc = "idle" /\ CacheLive(k) /\ UNCHANGED vars

Refuse(c, k) ==
    /\ call[c].pc = "idle"
    /\ ~CacheLive(k)
    /\ Duplicate(k) \/ BudgetSpent \/ BelowFloor
    /\ UNCHANGED vars

ArmedEntry(k) == now

(* Every check passed: arm the dedupe entry and spend one call, still in   *)
(* the critical section of the checks.                                     *)
Arm(c, k) ==
    /\ call[c].pc = "idle"
    /\ ~CacheLive(k) /\ ~Duplicate(k) /\ ~BudgetSpent /\ ~BelowFloor
    /\ dedupe' = [dedupe EXCEPT ![k] = ArmedEntry(k)]
    /\ callsMade' = callsMade + 1
    /\ attempts' = Append(attempts, [key |-> k, at |-> now, status |-> "open"])
    /\ call' = [call EXCEPT ![c] = [pc |-> "armed", key |-> k, armedAt |-> now,
                                    n |-> Len(attempts) + 1, reply |-> NoReply]]
    /\ UNCHANGED <<now, rateRemaining, rateKnown, tokens, github>>

-------------------------------------------------------------------------------
(* GitHub serves the request: it spends quota, mints a token or refuses,   *)
(* and its answer comes back.                                              *)
GithubServe(c) ==
    /\ call[c].pc = "armed"
    /\ remaining > 0
    /\ remaining' = remaining - 1
    /\ \E minted \in BOOLEAN, header \in {remaining - 1, None} :
          /\ call' = [call EXCEPT ![c].pc = "replied",
                 ![c].reply = [minted |-> minted, remaining |-> header,
                               expires |-> IF minted THEN now + TokenLife ELSE None]]
          /\ blind' = IF header = None THEN blind + 1 ELSE blind
    /\ UNCHANGED <<now, client, attempts>>

(* GitHub refuses outright once the quota is spent.                        *)
GithubLimit(c) ==
    /\ call[c].pc = "armed"
    /\ remaining = 0
    /\ call' = [call EXCEPT ![c].pc = "replied",
           ![c].reply = [minted |-> FALSE, remaining |-> 0, expires |-> None]]
    /\ UNCHANGED <<now, client, github, attempts>>

(* httpClient.Do fails: the request never arrived, or its answer was lost  *)
(* after GitHub spent quota on it.  mintFresh returns before               *)
(* recordRateLimit.                                                        *)
TransportFail(c) ==
    /\ call[c].pc = "armed"
    /\ call' = [call EXCEPT ![c].pc = "recorded"]
    /\ \/ UNCHANGED github
       \/ remaining > 0 /\ remaining' = remaining - 1 /\ blind' = blind + 1
    /\ UNCHANGED <<now, client, attempts>>

(* Seeded fault: only the header of a 201 counts.                          *)
HasHeader_SuccessOnly(reply) == reply.remaining # None /\ reply.minted

HasHeader(reply) == reply.remaining # None

(* recordRateLimit: whatever the status, the last header recorded wins,    *)
(* even if GitHub sent it before the one it overwrites.                    *)
RecordRateLimit(c) ==
    LET reply == call[c].reply IN
    /\ call[c].pc = "replied"
    /\ call' = [call EXCEPT ![c].pc = "recorded"]
    /\ rateRemaining' = IF HasHeader(reply) THEN reply.remaining ELSE rateRemaining
    /\ rateKnown' = (rateKnown \/ HasHeader(reply))
    /\ UNCHANGED <<now, callsMade, dedupe, tokens, github, attempts>>

(* History: attempt n returned to its caller.                              *)
Ended(n, status) == [attempts EXCEPT ![n].status = status]

(* Seeded faults: the failed call clears any entry of its key, or none.    *)
ClearedEntry_Any(c) == None
ClearedEntry_Keep(c) == dedupe[call[c].key]

(* The error path of mint clears the entry this very call armed, no other. *)
ClearedEntry(c) ==
    LET entry == dedupe[call[c].key] IN IF entry = call[c].armedAt THEN None ELSE entry

(* The body of a 201 can break off while it is read: any reply can fail.   *)
Fail(c) ==
    /\ call[c].pc = "recorded"
    /\ dedupe' = [dedupe EXCEPT ![call[c].key] = ClearedEntry(c)]
    /\ attempts' = Ended(call[c].n, "failed")
    /\ call' = [call EXCEPT ![c] = Idle]
    /\ UNCHANGED <<now, callsMade, rateRemaining, rateKnown, tokens, github>>

StoreToken(c) ==
    /\ call[c].pc = "recorded"
    /\ call[c].reply.minted
    /\ tokens' = [tokens EXCEPT ![call[c].key] = call[c].reply.expires]
    /\ attempts' = Ended(call[c].n,
                        IF now - call[c].armedAt < DedupeWindow THEN "stored" ELSE "late")
    /\ call' = [call EXCEPT ![c] = Idle]
    /\ UNCHANGED <<now, callsMade, rateRemaining, rateKnown, dedupe, github>>

-------------------------------------------------------------------------------
(* Time passes, but not past the deadline of an exchange in progress.      *)
Tick ==
    /\ now < MaxTime
    /\ \A c \in Callers : call[c].pc # "idle" => now - call[c].armedAt < CallDeadline
    /\ now' = now + 1
    /\ UNCHANGED <<client, call, github, attempts>>

(* GitHub starts a new rate-limit period.                                  *)
RateReset ==
    /\ remaining < Quota
    /\ remaining' = Quota
    /\ UNCHANGED <<now, client, call, blind, attempts>>

Mint(c) ==
    \/ RefuseInvalid(c)
    \/ \E k \in Keys : ServeCached(c, k) \/ Refuse(c, k) \/ Arm(c, k)

Exchange(c) == GithubServe(c) \/ GithubLimit(c) \/ TransportFail(c)

Proceed(c) == RecordRateLimit(c) \/ Fail(c) \/ StoreToken(c)

Next ==
    \/ \E c \in Callers : Mint(c) \/ Exchange(c) \/ Proceed(c)
    \/ Tick
    \/ RateReset

Spec == Init /\ [][Next]_vars

-------------------------------------------------------------------------------
TypeOK ==
    /\ now \in Time
    /\ callsMade \in Nat
    /\ rateRemaining \in Nat
    /\ rateKnown \in BOOLEAN
    /\ dedupe \in [Keys -> Time \cup {None}]
    /\ tokens \in [Keys -> Time \cup {None}]
    /\ call \in [Callers -> Call]
    /\ remaining \in 0..Quota
    /\ attempts \in Seq(Attempt)
    /\ blind \in Nat

(* The call budget bounds the outbound calls of the Client's whole life,   *)
(* however many callers pass the check together (mint, callsMade).         *)
BudgetHeld == Len(attempts) <= CallBudget

Live(i) == attempts[i].status # "failed"

(* Two attempts for one key that were not both undone by a failure are at  *)
(* least a dedupe window apart: an identical mint never goes out twice     *)
(* within the window, whatever overlaps (mint, the check and arming of     *)
(* dedupe, and the conditional delete on the error path).                  *)
DedupeSpacing ==
    \A i, j \in 1..Len(attempts) :
        /\ i < j
        /\ attempts[i].key = attempts[j].key
        /\ Live(i) /\ Live(j)
        => attempts[j].at - attempts[i].at >= DedupeWindow

(* A dedupe entry is always owned by an attempt that has not failed: once  *)
(* a failed mint has returned, a retry is never refused as a duplicate of  *)
(* it (mint, "lets an immediate legitimate retry reach mintFresh again").  *)
FailureNeverPoisons ==
    DedupeWindow > 0 =>
        \A k \in Keys : dedupe[k] # None =>
            \E i \in 1..Len(attempts) :
                attempts[i].key = k /\ attempts[i].at = dedupe[k] /\ Live(i)

(* The floor is checked against the last recorded header, so callers that  *)
(* passed it together, and every stale header that is recorded over a      *)
(* newer one, can spend the quota below it, but no more than this: of n    *)
(* callers, one call each while n - 1 old headers are still to be          *)
(* recorded, and for each of those one more of everybody who has none; and *)
(* the replies whose header never reached recordRateLimit (BelowFloor).    *)
OvershootBounded ==
    LET n == Cardinality(Callers)
        floor == IF RateLimitFloor < Quota THEN RateLimitFloor ELSE Quota
    IN  remaining + blind + (n * (n + 1)) \div 2 >= floor

(* A cached token is replaced by one that expires earlier only when a call *)
(* for that key outlived the dedupe window: with the default timeout well  *)
(* below the window the cache never goes back (mint, tokens[key] = token). *)
OldTokenOnlyFromLateCall ==
    [][\A k \in Keys :
          tokens'[k] < tokens[k] =>
              \E i \in 1..Len(attempts) : attempts[i].key = k /\ attempts'[i].status = "late"]_vars
=============================================================================
