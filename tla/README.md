# Formal models of growth-labs/packages-go

TLA+ models of the packages in this repository that have state, concurrency or
failures to deal with, TLC runs that check them on small instances, and proofs,
checked by TLAPS, for every instance, of every safety property the runs check.

## 1. The system

The repository is a set of small Go modules that services import, a deployment
script, and a Node.js script that finishes merged pull requests. The packages do
not call each other; what is shared is inside each one.

| Component | State | Operations | Interacts with |
|---|---|---|---|
| `github` | mutex-guarded `callsMade`, `dedupe`, `tokens`, last rate-limit header | `MintInstallationToken`, `MintInstallationTokenForOwner` | GitHub over HTTP; concurrent callers |
| `pg` runner | none of its own: the ledger table | `Apply` | PostgreSQL, an export gate, other processes |
| `pg` `WithTx` | a transaction | `WithTx` | PostgreSQL, a callback |
| `s3` | none of its own: objects and multipart uploads | `PutStream`, `Put`, `Get`, `List`, `Delete`, `Inspect` | a bucket over HTTP; other writers of the key |
| `lifecycle` | goroutines and a channel | `WaitForSignal`, `ArmSecondSignal`, `Drain` | the OS, `Shutdown` functions |
| `packaging` `deploy.sh` | release directories, the `current` link, the systemd unit | one run per release | systemd, the health endpoint, other runs |
| `packaging` manifest | `manifest.json`, `manifest.ed25519` beside the payload | `Seal`, `VerifyAny`, `Verify` | the pipeline that builds and ships; `deploy.sh` |
| `packaging` `build.sh` | files | one build | `go build` |
| `auth` keys | mutex-guarded key set and its age | `Verify`, `signingKey` | the issuer's JWKS endpoint |
| `auth` sessions | cookies of the browser, grants at the issuer | `Middleware`, `Callback`, `Logout`, `Authorize` | browser, issuer, secret source |
| `scripts/ci/pr-completion.mjs` | worktrees, branches, git's records | `completePullRequest` | git, GitHub, people at work |
| `email` | none of its own: what the provider accepted | `Send`, `SendWithMessageID`, `IsUnsubmitted` | the provider over HTTP; callers that retry |
| `fulcrumprojects` | none of its own: tasks, epoch and receipts of the store | `Snapshot`, `Mutate`, `Retry`, `Results.Applied` | the store over HTTP; other writers; admin imports |
| `foundryoperator`, `sidecar`, `synthetictraffic`, `testkit` | none | pure functions, test support | |

What is hard in each, and what makes it correct:

- **github.** Checks and their effects are separated by an HTTP exchange; answers
  come back out of order, late or not at all. The call budget, the dedupe window
  and the rate floor must hold all the same, and a failed call must not block its
  own retry.
- **pg.** `Apply` takes no lock; several processes run it together, and a COMMIT
  may be in doubt. Each migration must take effect once, in the order of one list.
- **s3.** Parts are retried although they may be stored, completion may be done
  late or answered 200 and not done, and the context may end at any point. The
  object must never be torn, and nil must mean that the announced bytes were seen under
  the key, with nothing of the call's own still to come.
- **lifecycle.** A hanging target must not hold up the others, no report may run
  after `Drain`, and exactly a *second* signal ends the process.
- **deploy.sh.** Nothing locks the release root; a run may be killed between any
  two commands; `rollback || true` switches `errexit` off. The link must resolve
  and the unit must run what the link names.
- **manifest.** `Seal` is two writes that may be cut off anywhere; the payload is
  read file by file while a pipeline may change it, and `deploy.sh` reads it again
  after the verification. What is installed must be what a trusted signer saw.
- **auth keys.** Keys rotate while fetches are slow or fail. A published key must
  be found, a withdrawn one must stop working.
- **auth sessions.** Answers that set cookies overtake each other while refresh
  tokens rotate. The visitor must stay logged in, and what is answered as worth
  repeating must not have spent anything.
- **pr-completion.** It deletes people's work spaces while they use them. No commit
  and no change may be lost that a check could have seen; "ok" must be exact.
- **email.** There is no deduplication at the provider, so a second submission is
  a second mail: only what proves that nothing was accepted may look retryable, and
  a partial acceptance must lose nobody.
- **fulcrumprojects.** The write may race an import that moves the epoch, another
  writer, and its own lost answer. It must land on what its builder saw and must
  not be applied twice.

`PROJECT.json` lists every hazard at its line, with the properties that cover it.

## 2. Modules

Each module models one component. One composition: `Release` joins `Manifest` and
`Deploy` (the script verifies, copies and installs the directory that `Seal`
signed). Two abstract specifications: `Ledger`, which `PgMigrate` implements, and
`AtomicObject`, which `S3PutStream` implements.
The other packages do not call each other.

`MC*.tla` with a `.cfg` instantiates a module for TLC, `*Proofs.tla` extends modules
with theorems: `StorageProofs` PgMigrate and S3PutStream, `AuthProofs` AuthKeys and
AuthSession, `ReleaseProofs` Release and with it Deploy and Manifest, the others the
module they are named after. Modules that are extended together share no names, hence
`PutStreamInit`, `SessionNext`, `ReleaseSpec` and so on. Definitions named `X_Word`,
commented as seeded faults, are plausible mistakes in `X`: replacing `X` by one of them
makes a property fail.

### GithubMint (`github/client.go`)
One action per critical section. `Arm` is everything `mint` does under its first
lock once all checks pass; `ServeCached`, `Refuse` and `RefuseInvalid` are the
returns that change nothing. `TransportFail` and the reply built by
`GithubServe`/`GithubLimit` are the outcomes of `mintFresh`; `RecordRateLimit`,
`StoreToken` and `Fail` are the later critical sections. `attempts` and `blind`
are history variables for the properties. Time is a clock; `Tick` respects the
HTTP client's timeout. All refusals of GitHub are one reply that mints nothing:
they differ only in the returned code. Permissions are part of the key.

### PgMigrate (`pg/runner.go`)
`ReadLedger` is the snapshot on which the drift check and the pending list rest;
`InsertRow`, `InsertConflict` and `Commit` are the loop over pending migrations.
`lock` is PostgreSQL's lock on an uncommitted key. `Break` is an error, a
cancellation or a crash; if a COMMIT was on its way its outcome is left to
`Settle`. The migration's SQL is `ran`, a count per version.

`Ledger` is what all this amounts to: `Take` adds one migration of a list, its SQL
and its row in one step, when its predecessors are there and it is not. `PgMigrate`
instantiates it with the names in its own ledger; most steps of a run are stutters.
It does not say that versions are taken in numerical order across lists, for the
runner compares names and not order: a new release fills in a version below the
highest one applied.

### S3PutStream (`s3/multipart.go`, `s3/s3.go`)
A body is a sequence of chunks of one part size. The single PUT, the create, each
attempt at a part, the completion, the abort and the read-back are actions, each
of them with the outcomes success, refusal, loss before and loss after the effect;
`MaxErrors` bounds the failures. `Inspect` is the read-back, `ReturnVerdict` the
return: other callers write in between, and what they write there is not seen.
The GET itself is one step, for S3 serves one version of an object to its end.
`LateArrival` lets a publishing request take effect after its call gave up.

`AtomicObject` is what remains of it for those who read the key: `Replace` puts the body
of a call in place at one moment, `GiveUp` is everything that leaves the object alone
(the call may stop being `pending`, and may answer with an error), `See` is a look, by a
call that is no longer pending, at an object equal to what was announced, and `Confirm`
the answer nil, which only a call that has seen that may give, later, whatever the key
holds by then. Mapping: a call is pending until its publishing request is answered or
given up, and as long as one is under way late. Each call replaces the object once at
most; an error leaves open whether and when it does, as it does in the code.

### Lifecycle (`lifecycle/`)
`config` holds what the daemon passes: the kinds of its `Shutdown` functions and
whether `forceExit` and `report` are nil. `drains` is the counter of the `WaitGroup`,
raised by `Drain` before it starts the goroutines and lowered by the deferred `Done`
of each. A nil `Shutdown` panics its goroutine: the deferred `Done` runs first, then
the runtime ends the process (`Crash`), and until it gets there `Drain` may return
and the daemon may leave main. The channel has a capacity and drops what does not
fit, as `signal.Notify` does; `again` is a history variable that remembers a signal
raised after the caller had received its own, a dropped one too.

### Deploy (`packaging/scripts/deploy.sh`)
One action per command that touches shared state. The file system's `mv` nests
into an existing directory; `Cleaned` is the EXIT trap, which does not run on
`Kill`. `serial` is TRUE in the behaviours in which a pipeline runs one deployment
at a time, FALSE where they overlap.

### Manifest (`packaging/manifest.go`)
A payload file is a path and a content; `SealList`, `SealHash` and the four steps
that open and write the two sealed files interleave with `VerifyRead`,
`VerifySignature`, `VerifyList`, `VerifyHash`, `VerifyCompare`. The two reads of
`VerifyAny` are separate, so it may see files of two seals. `Opened` is `O_TRUNC`,
`Written` a write after somebody else has written. `Build` and `Transport` are the
pipeline: it changes the payload and ships the sealed files, one of them perhaps
alone. `steady`, `due`, `signed` and `sealed` are history for the properties. A
name that is not UTF-8 is what `json.Marshal` makes of it, one replacement for all.

### Release (`packaging/scripts/deploy.sh` with `manifest.go`)
`Release` extends `Deploy` and takes `M == INSTANCE Manifest` with the runs as its
verifiers: `Verify` is line 28, `StartVerified` goes on only if it succeeded,
`StageCopy` begins the copy, `CopyFile` is `cp` coming to one file of the same
directory, `InstallCopy` gives the copy to the release directory. `MaxIOFaults` bounds
the interrupted `Seal` and `VerifyAny`, `MaxFaults` the faults of the script.

### FulcrumRetry (`fulcrumprojects/`)
`Begin`, `ReadSnapshot`, `BuildAndPost` and the `Receive...` actions are `Retry`
with its two attempts; `Resend` is the caller's own `Mutate` of a batch it is in
doubt about. The builders mint a fresh id each time and copy the version from the
snapshot. The store is external, as the README and the fixture server describe it:
epochs, receipts, versions. `MoveEpoch` is an import, or a rollback that may give
an older version number back. Validation of fields, queries and the change feed
are left out: they change nothing. `applied`, `won` and `lost` are history.

### EmailSend (`email/client.go`, `email/delivery.go`)
`Submit` is the call, `DialFails` and `TransportFails` the two classes of transport
errors, `Verdict` the order in which the answer is judged, `Receive` what the
caller makes of it: the whole list again when `IsUnsubmitted` holds, the
`Unaccepted` of a `RecipientError`, nobody otherwise. The provider takes a
submission for any part of the list at any time, even when nobody waits, unless it
answers 429 or `success:false` itself.

### AuthKeys (`auth/jwks.go`, `auth/verify.go`)
The mutex of the cache is `holder`, kept across the fetch. `Hit` and `Miss` are the
lookup under the lock, `Refetched` and `NotFetched` what follows the fetch, `Cached`
what a fetched set leaves in the cache. Of the
claims only the expiry is modelled: the others are functions of the token.

### AuthSession (`auth/http.go`, `auth/tokens.go`, `auth/cookies.go`)
Requests carry the cookies as they were when sent; what an answer sets takes effect
when it is delivered. A grant stands for a pair of tokens. `touched` is a history
variable: the requests that have used or revoked a refresh token or exchanged a code
at any of their steps so far. The issuer follows the
contract of the package's README: reuse of a refresh token returns the same
successor for a while and is refused later. Each lifetime passes only while no
request is under way: requests take seconds, the lifetimes minutes.

### PrCompletion (`scripts/ci/pr-completion.mjs`)
Every git or gh command is one step. A removal may be cut short, leaving part of a
directory, git's record, or both. People edit, commit and reuse branch names at any
time. `Stop` stands for every failing command, exception and kill. `since` is
bookkeeping for `WorkKept`: what people changed after the run last looked.

## 3. Runs

| Run | Instance | Shows |
|---|---|---|
| `github_mint` | 2 callers, 1 key, budget 6, window 2, floor 4 of quota 5, timeout 2, time to 4 | `BudgetHeld`, `DedupeSpacing`, `FailureNeverPoisons`, `OvershootBounded`, `OldTokenOnlyFromLateCall` |
| `pg_migrate` | 4 lists (old, new, fork, out of order), time to 1, 1 fault | `ImplementsLedger`, `SuccessMeansApplied`, `ExportPredatesRow`, `EventuallySettled` |
| `s3_put_stream` | 2 calls, 8 jobs, 4 tries, 5 faults | `ImplementsAtomicObject`, `ListedIsStored`, `OrphanIsReported`, `CallReturns` |
| `lifecycle` | 3 targets of 4 kinds, channel of 2, 4 signals | `JoinedAfterReports`, `ForcedOnlyByRepeat`, `HungBlocksNobody`, `RepeatForces` |
| `deploy` | 2 runs, 3 revisions, one contained in another, 2 attempts, 3 faults | `LinkResolves`, `RestServesCurrent`, `SerialOutcome` |
| `release` | 2 paths, 2 contents, 2 sealers of which one is trusted, 1 deployment, 1 change by the pipeline, 1 fault on each side | `SealThenVerify`, `InstalledAsSigned` |
| `auth_keys` | 2 requests, 2 keys, time to 3, TTL 1, 1 failing fetch | `PublishedKeyFound`, `WithdrawnKeyExpires`, `CacheMovesForward`, `FetchRetiresKey` |
| `auth_session` | 2 requests, 3 grants, 1 login, 1 fault | `SessionSurvives`, `UnavailableTouchesNothing` |
| `pr_completion` | 2 cleanups, 1 verification, an attached and a detached tree, 1 fault | `CommitsKept`, `WorkKept`, `BranchesGoLast`, `OkMeansExact` |
| `fulcrum_retry` | 2 writers, 3 intents (a create and an update in one batch, an update of the same task), 2 epoch moves, 3 ids each, 2 faults | `AppliedAsSeen`, `AppliedOncePerEpoch`, `EntityMeansApplied` |
| `email_send` | 3 recipients, 3 submissions | `NoSecondCopy`, `BelievedIsAccepted`, `OpenIsRetried` |
| `s3_orphan` | 1 call with a whole body, cancellation only | violates `FailedLeavesNoUpload` |

**Why the bounds are enough to be interesting.** Two actors are enough for every race
named in the hazards, since each is between a step and one step of somebody else. In
`github_mint` a call may take as long as the window, so its entry can be over while it
is still out; the budget is one more than the quota, so both run out; the quota is one
above the floor, so the one header above it can be recorded late and let both callers
pass once more. In `s3_put_stream` five faults exceed the four tries of one part, so a
part can fail for good and its abort be lost too. In `lifecycle` four signals fill the
channel of two and are dropped, before and after the caller has taken its own. In
`deploy` three faults allow a failing deployment, a failing rollback and a kill. In
`fulcrum_retry` two epoch moves are what it takes to exhaust both attempts of `Retry`,
and three ids let an intent be built a third time; two faults lose an answer and the
answer to its repetition. In `email_send` three recipients can be accepted, bounced and
left open by one answer, and three submissions follow a partial one with another. In
`release` one trusted and one untrusted sealer, one fault and one change suffice for
every mix of sealed files; two deployments overlap in `deploy`. `CHECK_DEADLOCK FALSE`
is said where the system ends: calls return, scripts exit, processes go down, the
model's clock stops.

**Fairness.** Liveness is checked in three runs. `pg_migrate`: a run that is not cut
short goes on (an INSERT waits only for a transaction that ends), a failed one is
started again by its process manager, and the server settles abandoned
transactions; strong fairness for `Proceed` because an INSERT's wait is interrupted
whenever another transaction takes the key. `s3_put_stream`: every request is
answered or fails; `PutStream` sets no timeout of its own, its `http.Client` and
context must. `lifecycle`: the Go scheduler runs every goroutine that can go on and
the drain context has a deadline; no signal is promised. The other runs check safety
and assume nothing. The `github` client's default timeout is 15 s, below the default
dedupe window; the run also covers a client whose timeout is as long as its window.

## 4. Where the code and its documents disagree

- **`s3_orphan`.** The comment on `PutStream` promises that a failure never leaves an
  incomplete upload. When the caller cancels while a part is on its way, the part
  fails, the abort runs under the same cancelled context (`multipart.go:101`) and
  fails too, and the upload stays open. The run has no other failure in it
  (`MaxErrors = 0`) and a body that is read to its end. The returned error tells of
  it: `OrphanIsReported` holds.

Seen while modelling, without a run of their own:

- `github/errors.go` and the README call a rate-limit refusal "retryable through a
  controlled remint". Below the floor the client makes no call, and only a call
  updates the number it compares with the floor (`client.go:187`, 295-308): it
  refuses until the process restarts.
- `github/client.go:26-29` says that a zero dedupe window disables the guard; `New`
  (105-110) takes the default for zero and disables it only for a negative value,
  which is what the model does.
- The packaging README says a failed health check restores the prior release. Of two
  overlapping runs, the second can restore the release that the first one has
  meanwhile rolled back (`deploy.sh:42`). One run at a time, `SerialOutcome` holds:
  without a deployment the link is back exactly where it was.
- When the answer to the create of an upload is lost there is no id to abort, so that
  such an upload stays open as well; its error is all that tells of it.
- `pr-completion.mjs:111-113` says that a record without its directory is reconciled
  by the prune; the preflight before the prune (957) refuses because of that same
  record, with a message that calls it unrelated.
- `manifest.go`: a payload with a name that is not UTF-8 can be sealed and is then
  always refused, for the JSON cannot hold the name. `SealThenVerify` excepts it.

## 5. What is proved

All theorems hold for every value of the constants under the assumptions named in
the modules: numbers have the right sign, a cleanup names at least one worktree
(the script insists), a writer updates a task at most once per batch
(`IntentAssumption`), there is something to deploy, a token to verify and `None` is
no revision, and the callers of `github` are finitely many.

**GithubMintProofs.** `TypeCorrect`, `BudgetCorrect`, `SpacingCorrect`,
`FailureCorrect`, `OldTokenCorrect`. The budget needs that the number of attempts equals
`callsMade`. Spacing is not inductive by itself, for a new attempt is compared with the
dedupe entry and not with the earlier attempts: `DedupeInv` adds that the entry covers
every attempt of its key that has not failed, that every entry is owned by such an
attempt, and that the calls in progress hold distinct open attempts. With it, `Fail` can
clear an entry only if it is its own, and an entry that is no longer its own belongs to
a later attempt. `TokenInv` gives every cached token its origin, a late call or one that
returned inside its window, and bounds the expiry of an answer by the times of arming
and of now; two calls that both returned in time are a window apart, so the later one
cannot store the earlier expiry.

`OvershootCorrect` says how far concurrent callers can spend below the rate floor. A
header recorded late may put an older, higher number back and open the floor again
(`Opens`); then everybody who is past the check or about to make it may spend one
call (`Ready`). While `k` of `n` callers hold no such header, it can be opened `n - k`
times more, and each time one caller who held an old header joins them:
`SpendInv`, `2 * (remaining + blind) + k (k + 1) >= 2 * (floor + |Ready|)`, which gives
`n (n + 1) / 2` calls in all. A bound that is linear in `n` does not hold: with three
callers, the dedupe guard off, floor 6 of a quota of 8, two old headers recorded one
after the other let six calls go out below the floor. For two callers it is three,
which the run reaches. The floor counts only up to the quota: a Client configured
with a higher one refuses as soon as it has seen any header.

**LifecycleProofs.** `TypeCorrect`, `JoinedCorrect`, `ForcedCorrect`. `JoinedCorrect`
needs `Tallied`: from the start of `Drain` the counter of the `WaitGroup` is the number
of targets that are `Unfinished`, those included whose goroutine has not been scheduled
yet, so that zero means none is left. `ForcedCorrect` needs `Counted`: the signals in
the channel, and the one the caller has received, were all raised, unless the caller
received the zero value of a closed channel, after which none can follow. Four more
theorems are the safety on which the liveness of a drain rests. `Ready(t)` is the guard
of the goroutine of `t`. `AnsweringReady`: once the deadline has passed, the goroutine
of a target that heeds it is ready until it is done. `TargetsIndependent`: nothing but
the end of the process takes a step away from it, and each of its steps is forward in
`Place`, of which there are five. What is left to fairness is that a goroutine that
stays ready is run. `RepeatHeard` says that a signal raised after the caller's own finds
a watcher that will receive it, itself or, where it was dropped, one of those that
filled the channel; `RepeatKept` that nobody but the watcher takes it out again.

**PrCompletionProofs.** `TypeCorrect`, `NoCommitLost`, `NoWorkLost`, `NoBranchFirst`,
`OkIsExact`, for any number of cleanups and verifications at once, any trees and any
number of interrupted commands. None of the properties is inductive: each speaks of
trees and branches, while what protects them is the place a run has reached. `RunInv`
says what a run may rely on at each command whatever the others do (the merge once
proven, every tree done gone, every record gone after the prune, the last look at the
tree in hand); `TreeInv` says where each tree's commits are. Lemmas: nothing a run
does brings a directory or record back (`StepOnward`), so the other runs' invariants
survive its steps (`OtherRuns`), and its own does (`OwnBeforeProof`, `OwnRemoving`,
`OwnAfterRemoving`). `Inv` was first checked with TLC on the instance of
`pr_completion`.

**StorageProofs: PgMigrate.** `TypeCorrect`, `SuccessCorrect`, `ExportCorrect`,
`OnceCorrect`, `RowsStay` (a row is never changed or taken away) and `Refinement` (`Spec
=> L!Spec`: the initial states map to initial states, and every step to a `Take` or a
stutter). A COMMIT looks at nothing, so nothing is inductive: `RunInv` says what a run
may still rely on since its snapshot, `LockInv` that an uncommitted row is one the
ledger lacks, whose predecessors it holds, whether its run is alive or in doubt, `Apart`
that no two runs drive the same one.

**StorageProofs: S3PutStream.** `NeverTorn`, `CompletionMatchesBucket`,
`OrphansReported`, `ObjectRefinement`, from `PutStreamInvariant`, for any number of
calls, bodies, parts, tries and failures. A completion publishes whatever the bucket
has, and a late one does it long after the call that sent it has gone, so `ObjectWhole`
(the object is the original or one whole body, `NeverTorn`) needs to know what each
place in the code has established (`Consistent`): the list of completed parts is the
body as far as it was read, the bucket may be one part ahead of it because an answer was
lost, a list on its way to be published is the whole body, and a call that has given up
on an upload it leaves open has said so.

`ObjectRefinement` (`PutStreamSpec => ImplementsAtomicObject`) maps every action to
`Replace`, `GiveUp`, `See`, `Confirm` or a stutter. The argument is about `late`: only a
call that has failed has a request left under way (`Consistent`), so a call that gets to
the read-back will not write again; and a call in its abort is bound to fail, so what
arrives meanwhile never arrives after nil. `AttemptsBounded` and `CallsShorten` are what
`CallReturns` rests on, as far as it is safety: the stages of a call come in one order,
within the parts their number or that of the attempts goes up, both are bounded by the
body and by the table of delays, and no failure, cancellation, late request or other
call sets a call back.

**FulcrumRetryProofs.** `TypeCorrect`, `AppliedAsSeenCorrect`, `AppliedOnceCorrect`,
`EntityCorrect`, and `MismatchCorrect` (an epoch mismatch is reported only after two
moves of the epoch). The heart is `Ordered`: of two ids minted for one intent, the
earlier one is `Over` by the epoch of the later one: a batch that still carries it is
of an earlier epoch or has a receipt, and what it did was done in an earlier epoch
and never reported. `Receipts`, `Replies` and `Posts` say why each kind of answer
proves that an id is over; `Latest` and `Attempts` tie a caller to its last post.
`Snapshots` is why versions suffice: within one epoch a version determines the content.

**EmailSendProofs.** `TypeCorrect`, `NoSecondCopyCorrect`, `BelievedCorrect`,
`OpenCorrect`. `OneInFlight`: a caller that may submit again knows that no earlier
submission is on its way. `Told`: the response that said so tells of each recipient
on the list whether a copy may exist.

**AuthProofs: AuthKeys.** `TypeCorrect`, `ForwardCorrect`, `PublishedCorrect`,
`WithdrawnCorrect`, `RetiredCorrect`. `Mutex` and `Dates`: only the holder replaces
the cache, and it read its clock after the cache was last dated. `Ages`: a withdrawal
is later than the fetch of every set that still holds the key. `Knowledge`: a key
known when the call began is in every answer unless it was withdrawn.
`RetiredCorrect` (a fetch begun after the withdrawal ends the use of a key, by hits and
by the fallback of later calls) rests on `Ages`.

**AuthProofs: AuthSession.** `SessionOutlivesRaces` and `UnavailableHarmless`, from
`SessionInvariant`. The jar may hold a used refresh token while its successor is still
on its way; that it gets there in time is not inductive. Until a mishap, `Calm` says:
all refreshes under way use one token and get its one successor (`OneRoot`), what
answers carry has not been used (`Carriers`) and is not the stale token in the jar
(`JarApart`), a used token in the jar is revoked or its successor is on its way
(`OnItsWay`), and so it is not over (`JarInTime`). `UnavailableHarmless` is about a whole
request: `Harmless` follows it from step to step and says that a request which has used
the issuer is checking what it got or answering, and none of these steps may answer 503
(`HandleHarmless`).

**ReleaseProofs: Deploy.** `TypeCorrect`, `LinkCorrect`, `RestCorrect`, `SerialCorrect`.
`Links`: a release is never taken away, so what exists when it is read still does when
it is used. `Owed`: if the unit does not run what the link names, some run still owes
a restart, was killed, or has reported the rollback incomplete. `Alone` and `Chains`:
a run that is alone knows the link it found and the one it has put in its place.

**ReleaseProofs: Manifest and Release.** `RefinesDeploy` and `RefinesManifest`: every
step of the composition is a step or a stutter of each component, with the runs as
verifiers, so the theorems above hold of the composition. `SealThenVerifyCorrect`
rests on `ManifestInv`: a signature is of a manifest somebody signed (`Signatures`),
an undisturbed `Seal` has read what is there (`Seals`) and leaves it so (`Holds`), and a
`VerifyAny` past the signature holds the manifest of a trusted signer and, undisturbed,
the files it has read so far (`Checks`). `InstalledCorrect` adds `Copies`: a run beyond
line 28 was accepted, and an undisturbed copy is the files of the manifest its
verification compared. `ReleaseTypeCorrect` is the type invariant of all of it.

Only model-checked: the liveness properties (`EventuallySettled`, `CallReturns`,
`HungBlocksNobody`, `RepeatForces`). Fairness and `ENABLED` are outside what the
provers can do; for the last three the theorems above prove what they need besides.
For `EventuallySettled` only a part is: a run that loses a conflict is started again,
and what the others have done stays (`RowsStay`).

## 6. What is not modelled

- `github/jwt.go`, request signing in `s3`, claims other than the expiry, redirects
  and routing in `auth`, configuration checks: functions of their arguments.
- `s3` `Get`, `List`, `Delete`: single requests. A truncated page without objects
  gives an empty continuation key (`s3.go:235`).
- `pg.WithTx`: one callback in one goroutine; a panic in it passes both rollback and
  commit.
- A multipart body that does not match its digest is published before the read-back
  rejects it (`multipart.go:80-88`); no document says otherwise, and
  `AtomicObject` excludes torn objects, not unannounced ones.
- A run of `deploy.sh` killed after its `mv` leaves a directory because of which the
  same revision is refused from then on; the directory test is also older than the
  `mv`, so an overlapping run of the same revision nests its staging directory.
- In `pr-completion.mjs`, paths, parsing and the linked-control option.
- `build.sh` and the version stamp; the credential file and the message text of
  `email`; `Changes`, `Me`, queries and field checks of `fulcrumprojects`.
- The parts of an S3 upload beyond the declared size: the limit is S3's.
- `foundryoperator`, `sidecar`, `synthetictraffic`, `testkit`, `mechanism-index.mjs`:
  no state.

## 7. Plan

Done, in this order: GithubMint with its proofs, PgMigrate, S3PutStream, Lifecycle
with its proofs, Deploy, AuthKeys, AuthSession, PrCompletion with its proofs,
FulcrumRetry and EmailSend with their proofs, Manifest, Release, Ledger with the
refinement, the proofs of PgMigrate, AuthKeys and Deploy, those of S3PutStream,
AuthSession, Manifest and Release, the bound on the overshoot, AtomicObject with its
refinement, and the measures of PutStream's and of a drain's steps.

Next:

1. The rest of what `EventuallySettled` rests on: a measure of a run of `Apply` in
   which a lost conflict counts the rows the others have added.
2. `pg.WithTx` as part of a caller that panics; `List` with a caller that pages on.
