------------------------------ MODULE AuthSession ------------------------------
(***************************************************************************)
(* Middleware, Logout and Callback of auth/http.go, with the token calls   *)
(* of auth/tokens.go, for one browser that has several requests under way: *)
(* their handlers run concurrently and their answers, which set or clear   *)
(* the session cookies, come back in any order.                            *)
(*                                                                         *)
(* A grant n stands for the pair of tokens issued together.  External: the *)
(* browser; the issuer, whose contract the README of the package gives     *)
(* (the first use of a refresh token creates its successor, a later use    *)
(* returns the same one for a while and is refused after that, while the   *)
(* successor lives on); the secret source.                                 *)
(***************************************************************************)
EXTENDS Integers, FiniteSets

CONSTANTS
    Visits,          \* requests the browser has under way at most
    Confidential,    \* TRUE if a ClientSecret is configured
    MaxGrants,       \* bound of the model: pairs of tokens issued
    MaxLogins,       \* bound of the model: login transactions begun
    MaxFaults        \* bound of the model: failures outside the browser

ASSUME BoundAssumption ==
    /\ Confidential \in BOOLEAN
    /\ MaxGrants \in Nat \ {0} /\ MaxLogins \in Nat /\ MaxFaults \in Nat

Missing == 0
Grants == 1..MaxGrants
Logins == 1..MaxLogins

VARIABLES
    jar,             \* the cookies: at and rt (grants) and the login transaction
    issued,          \* how many grants there are
    successor,       \* refresh token -> the grant its use has created, or Missing
    late,            \* refresh tokens whose time for repeated use is over
    revoked,         \* refresh tokens revoked
    live,            \* grants whose access token is valid
    begun,           \* login transactions begun
    spent,           \* transactions whose authorization code has been used
    req,             \* what each request is doing: see Request
    touched,         \* history: requests that have had a refresh token used or
                     \* revoked, or a code exchanged, at the issuer
    mishap,          \* TRUE once a rotation has not reached the browser, or an
                     \* access token that is good could not be verified
    faults

tokenIssuer == <<issued, successor, late, revoked, live, spent>>
sessionVars == <<jar, tokenIssuer, begun, req, touched, mishap, faults>>

Token == Grants \cup {Missing}
Jar == [at : Token, rt : Token, login : Logins \cup {Missing}]

(* Cookies as the request carried them; state is the one in the callback's *)
(* query; got the grant received; sets and clears what the answer does.    *)
Request == [kind : {"page", "logout", "callback"},
            pc : {"idle", "start", "verify", "refresh", "exchange", "check", "revoke", "reply"},
            sent : Jar, state : Logins \cup {Missing}, got : Token,
            sets : Token, clears : {"nothing", "session", "login"},
            out : {"", "user", "anonymous", "unavailable", "forbidden", "failed", "done"}]

NoCookies == [at |-> Missing, rt |-> Missing, login |-> Missing]
NoRequest == [kind |-> "page", pc |-> "idle", sent |-> NoCookies, state |-> Missing,
              got |-> Missing, sets |-> Missing, clears |-> "nothing", out |-> ""]

(* The browser starts with no session, or with the one of grant 1.         *)
SessionInit ==
    /\ issued \in {0, 1}
    /\ jar = IF issued = 1 THEN [NoCookies EXCEPT !.at = 1, !.rt = 1] ELSE NoCookies
    /\ successor = [n \in Grants |-> Missing]
    /\ late = {} /\ revoked = {} /\ spent = {}
    /\ live = 1..issued
    /\ begun = 0
    /\ req = [q \in Visits |-> NoRequest]
    /\ touched = {}
    /\ mishap = FALSE
    /\ faults = 0

Becomes(q, r) == req' = [req EXCEPT ![q] = r]
Goto(q, pc) == Becomes(q, [req[q] EXCEPT !.pc = pc])
Reply(q, out) == Becomes(q, [req[q] EXCEPT !.pc = "reply", !.out = out])
At(q, kind, pc) == req[q].kind = kind /\ req[q].pc = pc
Fault == faults < MaxFaults /\ faults' = faults + 1

-------------------------------------------------------------------------------
(* The browser.                                                            *)
Send(q) ==
    /\ req[q].pc = "idle"
    /\ \E kind \in {"page", "logout"} :
          Becomes(q, [NoRequest EXCEPT !.kind = kind, !.pc = "start", !.sent = jar])
    /\ UNCHANGED <<jar, tokenIssuer, begun, mishap, faults, touched>>

(* Authorize and SetTransactionCookies: the cookies of a later login       *)
(* replace those of an earlier one.                                        *)
BeginLogin ==
    /\ begun < MaxLogins
    /\ begun' = begun + 1
    /\ jar' = [jar EXCEPT !.login = begun + 1]
    /\ UNCHANGED <<tokenIssuer, req, mishap, faults, touched>>

SendCallback(q) ==
    /\ req[q].pc = "idle"
    /\ \E s \in 1..begun :
          Becomes(q, [NoRequest EXCEPT !.kind = "callback", !.pc = "start", !.sent = jar,
                                       !.state = s])
    /\ UNCHANGED <<jar, tokenIssuer, begun, mishap, faults, touched>>

(* SetSessionCookies writes both cookies.                                  *)
Stored(r) == [jar EXCEPT !.at = r.sets, !.rt = r.sets]

(* Set-Cookie takes effect when the answer arrives, whatever the jar holds *)
(* by then.                                                                *)
Deliver(q) ==
    /\ req[q].pc = "reply"
    /\ jar' = LET r == req[q] IN
              LET j == IF r.sets # Missing THEN Stored(r) ELSE jar IN
              CASE r.clears = "nothing" -> j
                [] r.clears = "session" -> NoCookies
                [] r.clears = "login" -> [j EXCEPT !.login = Missing]
    /\ Becomes(q, NoRequest)
    /\ touched' = touched \ {q}
    /\ UNCHANGED <<tokenIssuer, begun, mishap, faults>>

LoseAnswer(q) ==
    /\ req[q].pc = "reply"
    /\ Fault
    /\ mishap' = (mishap \/ req[q].sets # Missing)
    /\ Becomes(q, NoRequest)
    /\ touched' = touched \ {q}
    /\ UNCHANGED <<jar, tokenIssuer, begun>>

(* Requests take seconds; the lifetimes below are minutes.                 *)
Quiet == \A q \in Visits : req[q].pc = "idle"

AccessCookieExpires ==
    /\ Quiet /\ jar.at # Missing
    /\ jar' = [jar EXCEPT !.at = Missing]
    /\ UNCHANGED <<tokenIssuer, begun, req, mishap, faults, touched>>

AccessTokenExpires(n) ==
    /\ Quiet /\ n \in live
    /\ live' = live \ {n}
    /\ UNCHANGED <<jar, issued, successor, late, revoked, spent, begun, req, mishap, faults, touched>>

WindowCloses(n) ==
    /\ Quiet /\ successor[n] # Missing /\ n \notin late
    /\ late' = late \cup {n}
    /\ UNCHANGED <<jar, issued, successor, revoked, live, spent, begun, req, mishap, faults, touched>>

-------------------------------------------------------------------------------
(* The secret is resolved before any issuer I/O, by a request that carries *)
(* a refresh token.                                                        *)
NeedsSecret(q) == Confidential /\ req[q].sent.rt # Missing

MiddlewareSecret(q) ==
    /\ At(q, "page", "start")
    /\ \/ Goto(q, "verify") /\ UNCHANGED faults
       \/ NeedsSecret(q) /\ Fault /\ Reply(q, "unavailable")
    /\ UNCHANGED <<jar, tokenIssuer, begun, mishap, touched>>

(* Whatever Verify reports, an access token that does not verify counts as *)
(* none; without a refresh token either, the visitor is anonymous (and     *)
(* redirected to the login on a gated path).                               *)
Unverified(q) ==
    IF req[q].sent.rt # Missing THEN Goto(q, "refresh") ELSE Reply(q, "anonymous")

VerifyAccess(q) ==
    /\ At(q, "page", "verify")
    /\ \/ req[q].sent.at \in live /\ Reply(q, "user") /\ UNCHANGED <<mishap, faults>>
       \/ req[q].sent.at \notin live /\ Unverified(q) /\ UNCHANGED <<mishap, faults>>
       \/ req[q].sent.at \in live /\ Fault /\ mishap' = TRUE /\ Unverified(q)
    /\ UNCHANGED <<jar, tokenIssuer, begun, touched>>

Refusable(n) == n \in late \cup revoked

(* The issuer's side of a refresh.                                         *)
Rotate(n) ==
    IF successor[n] # Missing
    THEN /\ live' = live \cup {successor[n]}
         /\ UNCHANGED <<issued, successor>>
    ELSE /\ issued < MaxGrants
         /\ issued' = issued + 1
         /\ successor' = [successor EXCEPT ![n] = issued + 1]
         /\ live' = live \cup {issued + 1}

(* Seeded fault: whatever fails is answered 503.                           *)
RefreshFailed_Unavailable(q) == Reply(q, "unavailable")

(* A refresh that fails leaves the visitor anonymous and the cookies alone.*)
RefreshFailed(q) == Reply(q, "anonymous")

Touch(q) == touched' = touched \cup {q}

Refresh(q) ==
    LET n == req[q].sent.rt IN
    /\ At(q, "page", "refresh")
    /\ \/ /\ ~Refusable(n) /\ Rotate(n) /\ Touch(q)
          /\ Becomes(q, [req[q] EXCEPT !.pc = "check", !.got = successor'[n]])
          /\ UNCHANGED <<mishap, faults>>
       \/ /\ ~Refusable(n) /\ Rotate(n) /\ Touch(q) /\ Fault
          /\ RefreshFailed(q)
          /\ mishap' = TRUE
       \/ /\ Refusable(n) /\ RefreshFailed(q)
          /\ UNCHANGED <<issued, successor, live, mishap, faults, touched>>
       \/ /\ Fault /\ RefreshFailed(q)
          /\ UNCHANGED <<issued, successor, live, mishap, touched>>
    /\ UNCHANGED <<jar, late, revoked, spent, begun>>

(* Seeded fault: the tokens refreshed for a page are used and forgotten.   *)
Written_LoginOnly(r) == IF r.kind = "page" THEN Missing ELSE r.got

(* The tokens received go into cookies, of a page as of a callback.        *)
Written(r) == r.got

(* Seeded fault: tokens that cannot be verified are answered 503.          *)
Dropped_Unavailable(q) == "unavailable"

Dropped(q) == IF req[q].kind = "page" THEN "anonymous" ELSE "failed"

(* A new access token is verified before its cookies are written: one that *)
(* cannot be verified is dropped, with the refresh token beside it.        *)
CheckTokens(q) ==
    /\ req[q].pc = "check"
    /\ \/ /\ Becomes(q, [req[q] EXCEPT !.pc = "reply", !.sets = Written(req[q]),
                       !.out = IF req[q].kind = "page" THEN "user" ELSE "done",
                       !.clears = IF req[q].kind = "page" THEN "nothing" ELSE "login"])
          /\ UNCHANGED <<mishap, faults>>
       \/ /\ Fault
          /\ Reply(q, Dropped(q))
          /\ mishap' = TRUE
    /\ UNCHANGED <<jar, tokenIssuer, begun, touched>>

-------------------------------------------------------------------------------
(* The cookies are cleared whatever happens next.                          *)
Logout(q) ==
    /\ At(q, "logout", "start")
    /\ LET r == [req[q] EXCEPT !.clears = "session"] IN
       \/ /\ r.sent.rt = Missing
          /\ Becomes(q, [r EXCEPT !.pc = "reply", !.out = "done"]) /\ UNCHANGED faults
       \/ /\ r.sent.rt # Missing
          /\ Becomes(q, [r EXCEPT !.pc = "revoke"]) /\ UNCHANGED faults
       \/ /\ NeedsSecret(q) /\ Fault
          /\ Becomes(q, [r EXCEPT !.pc = "reply", !.out = "unavailable"])
    /\ UNCHANGED <<jar, tokenIssuer, begun, mishap, touched>>

(* Every failure of the revocation is passed over.                         *)
Revoke(q) ==
    /\ req[q].pc = "revoke"
    /\ Reply(q, "done")
    /\ \/ revoked' = revoked \cup {req[q].sent.rt} /\ Touch(q) /\ UNCHANGED faults
       \/ Fault /\ UNCHANGED <<revoked, touched>>
    /\ UNCHANGED <<jar, issued, successor, late, live, spent, begun, mishap>>

(* The state of the query must be the one in the cookie; a transaction may *)
(* also have expired, or come back without a code.                         *)
Callback(q) ==
    /\ At(q, "callback", "start")
    /\ \/ req[q].state # req[q].sent.login /\ Reply(q, "forbidden") /\ UNCHANGED faults
       \/ req[q].state = req[q].sent.login /\ Goto(q, "exchange") /\ UNCHANGED faults
       \/ /\ req[q].state = req[q].sent.login /\ Fault
          /\ \E out \in {"forbidden", "failed", "unavailable"} : Reply(q, out)
    /\ UNCHANGED <<jar, tokenIssuer, begun, mishap, touched>>

(* A code is good once.                                                    *)
Exchange(q) ==
    /\ req[q].pc = "exchange"
    /\ \/ /\ req[q].state \notin spent /\ issued < MaxGrants
          /\ spent' = spent \cup {req[q].state}
          /\ issued' = issued + 1
          /\ live' = live \cup {issued + 1}
          /\ Touch(q)
          /\ \/ /\ Becomes(q, [req[q] EXCEPT !.pc = "check", !.got = issued + 1])
                /\ UNCHANGED faults
             \/ Fault /\ Reply(q, "failed")
       \/ /\ req[q].state \in spent /\ Reply(q, "failed")
          /\ UNCHANGED <<issued, live, spent, faults, touched>>
       \/ /\ Fault /\ Reply(q, "failed")
          /\ UNCHANGED <<issued, live, spent, touched>>
    /\ UNCHANGED <<jar, successor, late, revoked, begun, mishap>>

-------------------------------------------------------------------------------
Handle(q) ==
    \/ MiddlewareSecret(q) \/ VerifyAccess(q) \/ Refresh(q) \/ CheckTokens(q)
    \/ Logout(q) \/ Revoke(q) \/ Callback(q) \/ Exchange(q)

SessionNext ==
    \/ \E q \in Visits : Send(q) \/ SendCallback(q) \/ Handle(q) \/ Deliver(q) \/ LoseAnswer(q)
    \/ BeginLogin \/ AccessCookieExpires
    \/ \E n \in Grants : AccessTokenExpires(n) \/ WindowCloses(n)

SessionSpec == SessionInit /\ [][SessionNext]_sessionVars

-------------------------------------------------------------------------------
SessionTypeOK ==
    /\ jar \in Jar
    /\ issued \in 0..MaxGrants
    /\ successor \in [Grants -> Token]
    /\ late \subseteq Grants /\ revoked \subseteq Grants /\ live \subseteq 1..issued
    /\ begun \in 0..MaxLogins /\ spent \subseteq 1..begun
    /\ req \in [Visits -> Request]
    /\ touched \subseteq Visits
    /\ mishap \in BOOLEAN
    /\ faults \in Nat

(* Concurrent refreshes of one token do not log the visitor out: a browser *)
(* ends up with a refresh token whose time is over only if the token was   *)
(* revoked, if a successor was lost on its way or thrown away unverified,  *)
(* or if a good access token could not be verified and was refreshed       *)
(* although an older answer was still to come (Middleware).                *)
SessionSurvives == jar.rt \in late => mishap \/ jar.rt \in revoked

(* A request answered 503 has left the issuer alone from its first step to *)
(* its last: no refresh token of it was used or revoked, and no code       *)
(* exchanged, so that it can be repeated (Middleware, Logout, Callback:    *)
(* the secret is resolved before any issuer I/O, and what fails after that *)
(* is not a 503).                                                          *)
UnavailableTouchesNothing ==
    \A q \in Visits : req[q].out = "unavailable" => q \notin touched
================================================================================
