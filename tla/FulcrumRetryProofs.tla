--------------------------- MODULE FulcrumRetryProofs ---------------------------
(***************************************************************************)
(* For any number of callers, intents and epochs, and any number of lost   *)
(* or refused calls.  The heart is Ordered: of two ids minted for one      *)
(* intent, the earlier one is over (Over) by the epoch under which the     *)
(* later one was built.  It holds because an id that is given up has a     *)
(* receipt that is final, or was posted under an epoch that has gone; the  *)
(* parts before it say why each kind of answer proves one or the other.    *)
(***************************************************************************)
EXTENDS FulcrumRetry, TLAPS

Lost == {"transport_unavailable", "unexpected_response"}

(* In doubt about the ids of its last post, or free to mint new ones.      *)
Busy(c) == call[c].pc = "wait" \/ (call[c].pc = "idle" /\ call[c].err \in Lost /\ call[c].ids # {})
Free(c) == \/ call[c].pc \in {"snapshot", "build"}
           \/ call[c].pc = "idle" /\ (call[c].err \notin Lost \cup {"refused"} \/ call[c].ids = {})

Effective(id) == \E a \in applied : a.id = id
Barred(id) == \E r \in receipts : r.id = id
Earlier(id, other) == id.intent = other.intent /\ id.n < other.n

(* By epoch e nothing more can come of id, and what came of it is unknown. *)
Over(id, e) ==
    /\ \A q \in net : id \in q.ids => q.seen.epoch < e \/ Barred(id)
    /\ \A a \in applied : a.id = id => a.epoch < e /\ id \in lost

(* Within one epoch the version of the task determines its content.        *)
Faithful(s) ==
    /\ s.epoch <= epoch
    /\ s.epoch = epoch =>
        s.version <= version /\ (s.version = version => s.content = content)

Snapshots ==
    /\ \A c \in Callers : Faithful(call[c].seen)
    /\ \A q \in net : Faithful(q.seen)
    /\ AppliedAsSeen

Receipts ==
    /\ \A r \in receipts : r.status = "applied" <=> Effective(r.id)
    /\ \A a \in applied : Barred(a.id) /\ a.epoch <= epoch
    /\ \A a, b \in applied : a.id = b.id => a = b

Undecided(r) == ~HasEntity(r) /\ ~Hopeless(r)

Replies ==
    /\ \A c \in Callers : reply[c].kind # "none" =>
          /\ call[c].pc = "wait"
          /\ \A q \in net : q.from = c => q.post # call[c].post
          /\ reply[c].kind = "stale" => call[c].seen.epoch < epoch
    /\ \A c \in Callers : \A r \in reply[c].results :
          /\ r.id \in call[c].ids /\ reply[c].kind = "results"
          /\ HasEntity(r) => Effective(r.id)
          /\ Undecided(r) /\ r.status # "retryable" => Barred(r.id) /\ ~Effective(r.id)
          /\ r.status = "retryable" /\ Effective(r.id) => r.id \in lost
    /\ EntityMeansApplied

Posts ==
    /\ \A q \in net : q.post <= call[q.from].post
    /\ \A q, p \in net : q.from = p.from /\ q.post = p.post => q = p
    /\ \A q \in net : \A id \in q.ids : Owner[id.intent] = q.from /\ id.n <= minted[id.intent]
    /\ \A a \in applied : a.id.n <= minted[a.id.intent]
    /\ \A q \in net : call[q.from].pc = "wait" /\ q.post = call[q.from].post =>
          q.seen = call[q.from].seen /\ q.ids = call[q.from].ids

LatestOf(c) ==
    Busy(c) =>
        /\ \A id \in call[c].ids : Owner[id.intent] = c /\ id.n = minted[id.intent]
        /\ \A i \in Mine(c) : [intent |-> i, n |-> minted[i]] \in call[c].ids
        /\ \A id \in call[c].ids, q \in net : id \in q.ids =>
              /\ q.seen = call[c].seen
              /\ id \in lost \/ (q.post = call[c].post /\ call[c].pc = "wait")
        /\ \A a \in applied : a.id \in call[c].ids => a.epoch = call[c].seen.epoch
        /\ \A a \in applied : a.id \in call[c].ids /\ a.id.intent \in todo =>
              a.id \in lost \/ reply[c].kind = "results"

Latest == \A c \in Callers : LatestOf(c)

(* What a caller is about to build comes after all it built before.        *)
InTurn(c) ==
    /\ Busy(c) => \A id \in Id, new \in call[c].ids :
          Earlier(id, new) => Over(id, call[c].seen.epoch)
    /\ Free(c) => \A id \in Id : id.intent \in Mine(c) =>
          Over(id, IF call[c].pc = "build" THEN call[c].seen.epoch ELSE epoch)

Ordered ==
    /\ \A id \in Id, a \in applied : Earlier(id, a.id) => Over(id, a.epoch)
    /\ \A id \in Id, q \in net : \A new \in q.ids : Earlier(id, new) => Over(id, q.seen.epoch)
    /\ \A c \in Callers : InTurn(c)

Attempt(c) ==
    /\ call[c].retry /\ call[c].attempt = 0 /\ call[c].pc \in {"build", "wait"} =>
          call[c].seen.epoch >= call[c].first
    /\ call[c].retry /\ call[c].attempt = 1 /\ call[c].pc = "snapshot" => epoch > call[c].first
    /\ call[c].retry /\ call[c].attempt = 1 /\ call[c].pc \in {"build", "wait"} =>
          call[c].seen.epoch > call[c].first
    /\ call[c].pc \in {"snapshot", "build"} => call[c].retry
    /\ call[c].pc = "idle" /\ call[c].retry /\ call[c].err = "sync_epoch_mismatch" =>
          epoch >= call[c].first + 2

Attempts == \A c \in Callers : Attempt(c)

IInv == TypeOK /\ Snapshots /\ Receipts /\ Replies /\ Posts /\ Latest /\ Ordered /\ Attempts
-------------------------------------------------------------------------------
(* The records of the model.                                               *)
LEMMA StartTypes == NoReply \in Reply /\ NoSnapshot \in Snapshot
<1>1. {} \in SUBSET Result
  OBVIOUS
<1> QED BY <1>1 DEF NoReply, Reply, NoSnapshot, Snapshot

LEMMA FieldTypes ==
  ASSUME TypeOK
  PROVE  /\ \A c \in Callers : call[c] \in Call /\ reply[c] \in Reply
         /\ \A c \in Callers : call[c].seen \in Snapshot /\ call[c].ids \in SUBSET Id
                /\ call[c].post \in Nat /\ call[c].first \in Nat
                /\ call[c].pc \in {"idle", "snapshot", "build", "wait"}
         /\ \A q \in net : q.from \in Callers /\ q.post \in Nat /\ q.seen \in Snapshot
                /\ q.ids \in SUBSET Id
         /\ \A a \in applied : a.id \in Id /\ a.epoch \in Nat
         /\ \A r \in receipts : r.id \in Id
         /\ \A i \in Intents : minted[i] \in Nat
<1>1. \A c \in Callers : call[c] \in Call /\ reply[c] \in Reply
  BY DEF TypeOK
<1>2. \A q \in net : q \in Batch
  BY DEF TypeOK
<1>3. \A a \in applied : a \in Effect
  BY DEF TypeOK
<1>4. \A r \in receipts : r \in Receipt
  BY DEF TypeOK
<1>5. \A i \in Intents : minted[i] \in Nat
  BY DEF TypeOK
<1> QED BY <1>1, <1>2, <1>3, <1>4, <1>5 DEF Call, Batch, Effect, Receipt

LEMMA NumberTypes == ASSUME NEW s \in Snapshot PROVE s.epoch \in Nat /\ s.version \in Nat /\ s.content \in Nat
  BY DEF Snapshot

LEMMA InitInv == Init => IInv
<1> SUFFICES ASSUME Init PROVE IInv
  OBVIOUS
<1>1. TypeOK
  <2>1. {} \in SUBSET Id
    OBVIOUS
  <2> QED BY <2>1, StartTypes DEF Init, TypeOK, Call
<1>2. Snapshots /\ Receipts /\ Posts
  BY DEF Init, Snapshots, Receipts, Posts, Faithful, NoSnapshot, AppliedAsSeen
<1>3. Replies
  BY DEF Init, Replies, NoReply, EntityMeansApplied
<1>4. Latest /\ Ordered /\ Attempts
  BY DEF Init, Latest, LatestOf, Ordered, InTurn, Attempts, Attempt, Busy, Over, NoSnapshot, Lost
<1> QED BY <1>1, <1>2, <1>3, <1>4 DEF IInv
-------------------------------------------------------------------------------
(* Only one caller mints ids, if any does.                                 *)
Mints(c) ==
    /\ minted' \in [Intents -> Nat]
    /\ \A i \in Intents : minted'[i] >= minted[i] /\ (Owner[i] # c => minted'[i] = minted[i])

LEMMA MintsNothing == ASSUME TypeOK, UNCHANGED minted, NEW c PROVE Mints(c)
  BY DEF TypeOK, Mints

LEMMA MintsLater ==
  ASSUME TypeOK, Posts, NEW c \in Callers, Mints(c)
  PROVE  /\ \A id \in Id : minted[id.intent] \in Nat /\ minted'[id.intent] >= minted[id.intent]
         /\ \A q \in net : \A id \in q.ids : id.n <= minted'[id.intent]
         /\ \A a \in applied : a.id.n <= minted'[a.id.intent]
<1>1. \A id \in Id : id.intent \in Intents /\ id.n \in Nat /\ minted[id.intent] \in Nat
        /\ minted'[id.intent] \in Nat /\ minted'[id.intent] >= minted[id.intent]
  BY DEF Id, TypeOK, Mints
<1>2. (\A q \in net : q.ids \subseteq Id) /\ \A a \in applied : a.id \in Id
  BY FieldTypes
<1>3. \A q \in net : \A id \in q.ids : id.n <= minted'[id.intent]
  BY <1>1, <1>2 DEF Posts
<1>4. \A a \in applied : a.id.n <= minted'[a.id.intent]
  BY <1>1, <1>2 DEF Posts
<1> QED BY <1>1, <1>3, <1>4

(* A step of one caller that posts nothing and leaves it without an answer *)
(* to wait for keeps the invariant if it does so for that caller.          *)
LEMMA LocalStep ==
  ASSUME IInv, NEW c \in Callers, NEW s \in Call, call' = [call EXCEPT ![c] = s],
         UNCHANGED <<store, net>>, Mints(c),
         (reply' = reply /\ call[c].pc # "wait") \/ Answered(c),
         todo' \subseteq todo, lost \subseteq lost', lost' \subseteq Id, won' \subseteq Id,
         faults' \in Nat, s.post = call[c].post, s.pc # "wait", Faithful(s.seen),
         LatestOf(c)', InTurn(c)', Attempt(c)', EntityMeansApplied'
  PROVE  IInv'
<1> USE DEF IInv
<1>1. UNCHANGED <<epoch, version, content, receipts, applied, net>>
  BY DEF store
<1>2. call'[c] = s /\ \A d \in Callers \ {c} : call'[d] = call[d]
  BY DEF TypeOK
<1>3. \A d \in Callers \ {c} : reply'[d] = reply[d]
  BY DEF TypeOK, Answered
<1>4. reply'[c].kind = "none" /\ reply'[c].results = {}
  <2>1. CASE Answered(c)
    BY <2>1 DEF TypeOK, Answered, NoReply
  <2>2. CASE reply' = reply /\ call[c].pc # "wait"
    <3>1. reply[c].kind = "none"
      BY <2>2 DEF Replies
    <3>2. \A r \in reply[c].results : FALSE
      BY <3>1 DEF Replies
    <3> QED BY <2>2, <3>1, <3>2
  <2> QED BY <2>1, <2>2
<1>5. TypeOK'
  <2>1. reply' \in [Callers -> Reply]
    BY StartTypes DEF TypeOK, Answered
  <2> QED BY <1>1, <2>1 DEF TypeOK, Mints
<1>6. Snapshots' /\ Receipts'
  BY <1>1, <1>2 DEF Snapshots, Receipts, Faithful, AppliedAsSeen, Effective, Barred
<1>7. Replies'
  <2>1. ASSUME NEW d \in Callers, reply'[d].kind # "none"
        PROVE  /\ call'[d].pc = "wait"
               /\ \A q \in net' : q.from = d => q.post # call'[d].post
               /\ reply'[d].kind = "stale" => call'[d].seen.epoch < epoch'
    BY <1>1, <1>2, <1>3, <1>4, <2>1 DEF Replies
  <2>2. ASSUME NEW d \in Callers, NEW r \in reply'[d].results
        PROVE  /\ r.id \in call'[d].ids /\ reply'[d].kind = "results"
               /\ HasEntity(r) => Effective(r.id)
               /\ Undecided(r) /\ r.status # "retryable" => Barred(r.id) /\ ~Effective(r.id)
               /\ r.status = "retryable" /\ Effective(r.id) => r.id \in lost
    <3>1. d # c
      BY <1>4, <2>2
    <3> QED BY <1>2, <1>3, <2>2, <3>1 DEF Replies
  <2>3. ASSUME NEW d \in Callers, NEW r \in reply'[d].results
        PROVE  /\ HasEntity(r) => Effective(r.id)'
               /\ Undecided(r) /\ r.status # "retryable" => Barred(r.id)' /\ ~Effective(r.id)'
               /\ r.status = "retryable" /\ Effective(r.id)' => r.id \in lost'
    BY <1>1, <2>2, <2>3 DEF Effective, Barred
  <2> QED BY <2>1, <2>2, <2>3 DEF Replies, HasEntity, Undecided, Hopeless
<1>8. Posts'
  BY <1>1, <1>2, MintsLater, FieldTypes DEF Posts
<1>9. Latest'
  <2> SUFFICES ASSUME NEW d \in Callers, d # c PROVE LatestOf(d)'
    BY DEF Latest
  <2>1. LatestOf(d) /\ call'[d] = call[d] /\ reply'[d] = reply[d]
    BY <1>2, <1>3 DEF Latest
  <2>2. SUFFICES ASSUME Busy(d) PROVE LatestOf(d)'
    BY <2>1 DEF LatestOf, Busy
  <2>3. call[d].ids \subseteq Id
    BY FieldTypes
  <2>4. \A id \in call[d].ids : Owner[id.intent] = d /\ id.n = minted'[id.intent]
    BY <2>1, <2>2, <2>3 DEF LatestOf, Mints, Id
  <2>5. \A i \in Mine(d)' : [intent |-> i, n |-> minted'[i]] \in call[d].ids
    BY <2>1, <2>2 DEF LatestOf, Mine, TypeOK, Mints
  <2> QED BY <1>1, <2>1, <2>2, <2>4, <2>5 DEF LatestOf
<1>10. Ordered'
  <2>1. ASSUME NEW d \in Callers, d # c PROVE InTurn(d)'
    <3>1. InTurn(d) /\ call'[d] = call[d]
      BY <1>2, <2>1 DEF Ordered
    <3> QED BY <1>1, <3>1 DEF InTurn, Busy, Free, Mine, Over, Barred
  <2>2. (\A id \in Id, a \in applied : Earlier(id, a.id) => Over(id, a.epoch))'
    BY <1>1 DEF Ordered, Over, Barred, Earlier
  <2>3. (\A id \in Id, q \in net : \A new \in q.ids :
            Earlier(id, new) => Over(id, q.seen.epoch))'
    BY <1>1 DEF Ordered, Over, Barred, Earlier
  <2> QED BY <2>1, <2>2, <2>3 DEF Ordered
<1>11. Attempts'
  BY <1>1, <1>2 DEF Attempts, Attempt
<1> QED BY <1>5, <1>6, <1>7, <1>8, <1>9, <1>10, <1>11
LEMMA BeginInv == ASSUME IInv, NEW c \in Callers, Begin(c) PROVE IInv'
<1> USE DEF IInv
<1> DEFINE s == [call[c] EXCEPT !.pc = "snapshot", !.retry = TRUE, !.attempt = 0, !.ids = {}]
<1>1. call[c] \in Call /\ {} \in SUBSET Id
  BY FieldTypes
<1>2. s \in Call /\ s.post = call[c].post /\ s.seen = call[c].seen /\ s.pc = "snapshot"
  BY <1>1 DEF Call
<1>3. call' = [call EXCEPT ![c] = s]
  BY DEF Begin
<1>4. call'[c] = s
  BY <1>3 DEF TypeOK
<1>5. UNCHANGED <<epoch, version, content, receipts, applied, net, reply, minted, todo, won, lost,
                  faults>> /\ call[c].pc = "idle"
  BY DEF Begin, store
<1>6. Faithful(s.seen)
  BY <1>2 DEF Snapshots
<1>7. LatestOf(c)'
  BY <1>2, <1>4 DEF LatestOf, Busy
<1>8. InTurn(c)'
  <2>1. Free(c)
    BY DEF Begin, Free, Lost
  <2>2. InTurn(c)
    BY DEF Ordered
  <2> QED BY <1>2, <1>4, <1>5, <2>1, <2>2 DEF InTurn, Busy, Mine, Over, Barred
<1>9. Attempt(c)'
  BY <1>1, <1>4 DEF Attempt, Call
<1>10. EntityMeansApplied'
  BY <1>5 DEF Replies, EntityMeansApplied
<1> HIDE DEF s
<1> QED BY <1>2, <1>3, <1>5, <1>6, <1>7, <1>8, <1>9, <1>10, LocalStep, MintsNothing DEF store, TypeOK

LEMMA ReadSnapshotInv == ASSUME IInv, NEW c \in Callers, ReadSnapshot(c) PROVE IInv'
<1> USE DEF IInv
<1> DEFINE now == [epoch |-> epoch, version |-> version, content |-> content]
           first == IF call[c].attempt = 0 THEN epoch ELSE call[c].first
<1>1. call[c] \in Call /\ {} \in SUBSET Id /\ now \in Snapshot
  BY FieldTypes DEF Snapshot, TypeOK
<1>2. PICK s \in Call :
        /\ call' = [call EXCEPT ![c] = s]
        /\ s.post = call[c].post /\ s.retry = call[c].retry /\ s.attempt = call[c].attempt
        /\ \/ s.pc = "build" /\ s.seen = now /\ s.first = first
           \/ s.pc = "idle" /\ s.seen = call[c].seen /\ s.ids = {}
              /\ s.err \in {"transport_unavailable", "unexpected_response", "refused"}
  <2>1. CASE call' = [call EXCEPT ![c].pc = "build", ![c].seen = now, ![c].first = first]
    <3> DEFINE s == [call[c] EXCEPT !.pc = "build", !.seen = now, !.first = first]
    <3>1. s \in Call
      BY <1>1 DEF Call, TypeOK
    <3>2. /\ call' = [call EXCEPT ![c] = s]
          /\ s.post = call[c].post /\ s.retry = call[c].retry /\ s.attempt = call[c].attempt
          /\ s.pc = "build" /\ s.seen = now /\ s.first = first
      BY <1>1, <2>1 DEF Call
    <3> HIDE DEF s, now, first
    <3> QED BY <3>1, <3>2
  <2>2. ASSUME NEW err \in {"transport_unavailable", "unexpected_response", "refused"},
               call' = [call EXCEPT ![c].pc = "idle", ![c].err = err, ![c].ids = {}]
        PROVE  \E s \in Call :
                 /\ call' = [call EXCEPT ![c] = s]
                 /\ s.post = call[c].post /\ s.retry = call[c].retry /\ s.attempt = call[c].attempt
                 /\ s.pc = "idle" /\ s.seen = call[c].seen /\ s.ids = {}
                 /\ s.err \in {"transport_unavailable", "unexpected_response", "refused"}
    <3> DEFINE s == [call[c] EXCEPT !.pc = "idle", !.err = err, !.ids = {}]
    <3>1. s \in Call
      BY <1>1 DEF Call
    <3>2. /\ call' = [call EXCEPT ![c] = s]
          /\ s.post = call[c].post /\ s.retry = call[c].retry /\ s.attempt = call[c].attempt
          /\ s.pc = "idle" /\ s.seen = call[c].seen /\ s.ids = {} /\ s.err = err
      BY <1>1, <2>2 DEF Call
    <3> HIDE DEF s
    <3> QED BY <3>1, <3>2
  <2> QED BY <2>1, <2>2 DEF ReadSnapshot
<1>3. call'[c] = s
  BY <1>2 DEF TypeOK
<1>4. UNCHANGED <<epoch, version, content, receipts, applied, net, reply, minted, todo, won, lost>>
      /\ call[c].pc = "snapshot" /\ faults' \in Nat
  BY DEF ReadSnapshot, store, Fault, TypeOK
<1>5. Faithful(s.seen)
  BY <1>2 DEF Snapshots, Faithful, TypeOK
<1>6. LatestOf(c)'
  BY <1>2, <1>3 DEF LatestOf, Busy
<1>7. InTurn(c)'
  <2>1. Free(c) /\ InTurn(c)
    BY <1>4 DEF Ordered, Free
  <2>2. \A id \in Id : id.intent \in Mine(c) => Over(id, epoch)
    BY <1>4, <2>1 DEF InTurn
  <2> QED BY <1>2, <1>3, <1>4, <2>2 DEF InTurn, Busy, Mine, Over, Barred
<1>8. Attempt(c)'
  <2>1. Attempt(c)
    BY DEF Attempts
  <2> QED BY <1>1, <1>2, <1>3, <1>4, <2>1 DEF Attempt, Call, TypeOK
<1>9. EntityMeansApplied'
  BY <1>4 DEF Replies, EntityMeansApplied
<1> QED BY <1>2, <1>4, <1>5, <1>6, <1>7, <1>8, <1>9, LocalStep, MintsNothing DEF store, TypeOK
-------------------------------------------------------------------------------
LEMMA OverLater ==
  ASSUME TypeOK, NEW id \in Id, NEW e \in Nat, NEW f \in Nat, e <= f, Over(id, e)
  PROVE  Over(id, f)
<1>1. \A q \in net : q.seen.epoch \in Nat
  BY FieldTypes, NumberTypes
<1>2. \A a \in applied : a.epoch \in Nat
  BY FieldTypes
<1> QED BY <1>1, <1>2 DEF Over

(* Nothing has come of an id that is not minted yet.                       *)
LEMMA OverFresh ==
  ASSUME TypeOK, Posts, NEW id \in Id, id.n > minted[id.intent], NEW e
  PROVE  Over(id, e)
<1>1. id.n \in Nat /\ minted[id.intent] \in Nat
  BY DEF Id, TypeOK
<1> QED BY <1>1 DEF Posts, Over

(* A caller that waits, or is in doubt, need only look at the latest ids.  *)
LEMMA OnlyLatest ==
  ASSUME IInv, NEW c \in Callers, Busy(c), NEW id \in Id, id.intent \in Mine(c),
         id \in call[c].ids => Over(id, epoch)
  PROVE  Over(id, epoch)
<1> USE DEF IInv
<1> DEFINE latest == [intent |-> id.intent, n |-> minted[id.intent]]
<1>1. id.n \in Nat /\ minted[id.intent] \in Nat /\ id = [intent |-> id.intent, n |-> id.n]
  BY DEF Id, TypeOK
<1>2. latest \in call[c].ids
  BY DEF Latest, LatestOf
<1>3. CASE id.n > minted[id.intent]
  BY <1>3, OverFresh
<1>4. CASE id.n = minted[id.intent]
  BY <1>1, <1>2, <1>4
<1>5. CASE id.n < minted[id.intent]
  <2>1. Earlier(id, latest)
    BY <1>5 DEF Earlier
  <2>2. Over(id, call[c].seen.epoch)
    BY <1>2, <2>1 DEF Ordered, InTurn
  <2>3. call[c].seen.epoch \in Nat /\ epoch \in Nat /\ call[c].seen.epoch <= epoch
    BY FieldTypes, NumberTypes DEF TypeOK, Snapshots, Faithful
  <2> QED BY <2>2, <2>3, OverLater
<1> QED BY <1>1, <1>3, <1>4, <1>5

LEMMA ReceiveResultsInv == ASSUME IInv, NEW c \in Callers, ReceiveResults(c) PROVE IInv'
<1> USE DEF IInv
<1> DEFINE results == reply[c].results
           err == IF \E r \in results : r.status = "retryable"
                  THEN "transport_unavailable" ELSE "nil"
           s == [call[c] EXCEPT !.pc = "idle", !.err = err]
<1>1. call[c] \in Call /\ call[c].pc = "wait" /\ {r.id : r \in results} = call[c].ids
  BY FieldTypes DEF ReceiveResults, Replies
<1>2. s \in Call /\ s.pc = "idle" /\ s.err = err /\ s.post = call[c].post /\ s.seen = call[c].seen
      /\ s.ids = call[c].ids /\ s.retry = call[c].retry
  BY <1>1 DEF Call
<1>3. call' = [call EXCEPT ![c] = s]
  BY DEF ReceiveResults, Return
<1>4. call'[c] = s
  BY <1>3 DEF TypeOK
<1>5. UNCHANGED <<epoch, version, content, receipts, applied, net, minted, lost, faults>>
  BY DEF ReceiveResults, store
<1>6. /\ won' = won \cup {r.id : r \in {x \in results : HasEntity(x)}}
      /\ todo' = todo \ {r.id.intent : r \in {x \in results : HasEntity(x) \/ Hopeless(x)}}
      /\ Answered(c)
  BY DEF ReceiveResults
<1>7. Busy(c) /\ LatestOf(c) /\ InTurn(c)
  BY <1>1 DEF Busy, Latest, Ordered
<1>8. \A r \in results : r.id \in call[c].ids
  BY <1>1
<1> HIDE DEF s
<1>9. Faithful(s.seen) /\ todo' \subseteq todo /\ won' \subseteq Id
  <2>1. call[c].ids \subseteq Id
    BY FieldTypes
  <2> QED BY <1>2, <1>6, <1>8, <2>1 DEF Snapshots, TypeOK
<1>10. ASSUME NEW r \in results, r.id.intent \in todo' PROVE Undecided(r)
  BY <1>6, <1>10 DEF Undecided
<1>11. LatestOf(c)'
  <2>1. ASSUME NEW a \in applied, a.id \in call[c].ids, a.id.intent \in todo' PROVE a.id \in lost
    <3>1. PICK r \in results : r.id = a.id
      BY <1>1, <2>1
    <3>2. Undecided(r)
      BY <1>10, <2>1, <3>1
    <3> QED BY <3>1, <3>2 DEF Replies, Effective
  <2>2. ASSUME NEW id \in call[c].ids, NEW q \in net, id \in q.ids PROVE id \in lost
    <3>1. q.from = c
      BY <1>7, <2>2 DEF LatestOf, Posts
    <3>2. q.post # call[c].post
      BY <3>1 DEF Replies, ReceiveResults
    <3> QED BY <1>7, <2>2, <3>2 DEF LatestOf
  <2> QED BY <1>2, <1>4, <1>5, <1>6, <1>7, <2>1, <2>2 DEF LatestOf, Mine
<1>12. InTurn(c)'
  <2>1. ASSUME NEW id \in Id, id.intent \in Mine(c)', err = "nil" \/ call[c].ids = {}
        PROVE  Over(id, epoch)
    <3>1. id.intent \in Mine(c)
      BY <1>9, <2>1 DEF Mine
    <3>2. ASSUME id \in call[c].ids PROVE Over(id, epoch)
      <4>1. PICK r \in results : r.id = id
        BY <1>1, <3>2
      <4>2. Undecided(r)
        BY <1>10, <2>1, <4>1 DEF Mine
      <4>3. r.status # "retryable"
        BY <2>1, <3>2
      <4>4. Barred(id) /\ ~Effective(id)
        BY <4>1, <4>2, <4>3 DEF Replies
      <4> QED BY <4>4 DEF Over, Effective
    <3> QED BY <1>7, <3>1, <3>2, OnlyLatest
  <2>2. Busy(c)' => err # "nil" /\ call[c].ids # {}
    BY <1>2, <1>4 DEF Busy, Lost
  <2>3. Free(c)' => err = "nil" \/ call[c].ids = {}
    BY <1>2, <1>4 DEF Free, Lost
  <2> HIDE DEF err
  <2> QED BY <1>2, <1>4, <1>5, <1>7, <2>1, <2>2, <2>3 DEF InTurn, Over, Barred
<1>13. Attempt(c)'
  <2>1. s.err # "sync_epoch_mismatch"
    BY <1>2
  <2> QED BY <1>2, <1>4, <2>1 DEF Attempt
<1>14. EntityMeansApplied'
  BY <1>5, <1>6 DEF Replies, EntityMeansApplied, Effective
<1>15. s.pc # "wait" /\ lost \subseteq lost' /\ lost' \subseteq Id /\ faults' \in Nat
  BY <1>2, <1>5 DEF TypeOK
<1>16. UNCHANGED <<store, net, minted>>
  BY <1>5 DEF store
<1> HIDE DEF results, err
<1> QED BY <1>2, <1>3, <1>6, <1>9, <1>11, <1>12, <1>13, <1>14, <1>15, <1>16, LocalStep,
       MintsNothing

LEMMA ReceiveStaleInv == ASSUME IInv, NEW c \in Callers, ReceiveStale(c) PROVE IInv'
<1> USE DEF IInv
<1> DEFINE s == IF Again(c) THEN [call[c] EXCEPT !.pc = "snapshot", !.attempt = 1]
                ELSE [call[c] EXCEPT !.pc = "idle", !.err = "sync_epoch_mismatch"]
<1>1. call[c] \in Call /\ call[c].pc = "wait" /\ call[c].seen.epoch < epoch
      /\ reply[c].kind = "stale"
  BY FieldTypes DEF ReceiveStale, Replies
<1>2. /\ s \in Call /\ s.post = call[c].post /\ s.seen = call[c].seen /\ s.ids = call[c].ids
      /\ s.retry = call[c].retry /\ s.first = call[c].first
      /\ Again(c) => s.pc = "snapshot" /\ s.attempt = 1
      /\ ~Again(c) => s.pc = "idle" /\ s.err = "sync_epoch_mismatch" /\ s.attempt = call[c].attempt
  BY <1>1 DEF Call
<1>3. call' = [call EXCEPT ![c] = s]
  BY DEF ReceiveStale, Return
<1>4. call'[c] = s
  BY <1>3 DEF TypeOK
<1>5. UNCHANGED <<epoch, version, content, receipts, applied, net, minted, lost, faults, todo, won>>
      /\ Answered(c)
  BY DEF ReceiveStale, store
<1>6. Busy(c) /\ LatestOf(c) /\ InTurn(c)
  BY <1>1 DEF Busy, Latest, Ordered
<1> HIDE DEF s
<1>7. Faithful(s.seen)
  BY <1>2 DEF Snapshots
<1>8. ~Busy(c)' /\ s.pc \in {"idle", "snapshot"}
  BY <1>2, <1>4 DEF Busy, Lost
<1>9. LatestOf(c)'
  BY <1>8 DEF LatestOf
<1>10. InTurn(c)'
  <2>1. ASSUME NEW id \in Id, id.intent \in Mine(c) PROVE Over(id, epoch)
    <3>1. ASSUME id \in call[c].ids PROVE Over(id, epoch)
      BY <1>1, <1>6, <2>1, <3>1 DEF LatestOf, Over, Mine
    <3> QED BY <1>6, <2>1, <3>1, OnlyLatest
  <2> QED BY <1>4, <1>5, <1>8, <2>1 DEF InTurn, Mine, Over, Barred
<1>11. Attempt(c)'
  <2>1. Attempt(c) /\ call[c].attempt \in {0, 1} /\ call[c].first \in Nat
        /\ call[c].seen.epoch \in Nat /\ epoch \in Nat
    BY <1>1, FieldTypes, NumberTypes DEF Attempts, Call, TypeOK
  <2> QED BY <1>1, <1>2, <1>4, <1>5, <2>1 DEF Attempt, Again
<1>12. EntityMeansApplied'
  BY <1>5 DEF Replies, EntityMeansApplied
<1>13. s.pc # "wait" /\ lost' \subseteq Id /\ won' \subseteq Id /\ faults' \in Nat
  BY <1>5, <1>8 DEF TypeOK
<1>14. UNCHANGED <<store, net, minted>>
  BY <1>5 DEF store
<1> QED BY <1>2, <1>3, <1>5, <1>7, <1>9, <1>10, <1>11, <1>12, <1>13, <1>14, LocalStep,
       MintsNothing

(* The caller gives up for good, or stays in doubt about its last post.    *)
LEMMA GiveUpInv ==
  ASSUME IInv, NEW c \in Callers, call[c].pc = "wait", NEW err \in Lost \cup {"refused"},
         Return(c, err), Answered(c), UNCHANGED <<store, net, minted, todo, won>>,
         lost \subseteq lost', lost' \subseteq Id, faults' \in Nat,
         err \in Lost => call[c].ids \subseteq lost'
  PROVE  IInv'
<1> USE DEF IInv
<1> DEFINE s == [call[c] EXCEPT !.pc = "idle", !.err = err]
<1>1. call[c] \in Call
  BY FieldTypes
<1>2. s \in Call /\ s.pc = "idle" /\ s.err = err /\ s.post = call[c].post /\ s.seen = call[c].seen
      /\ s.ids = call[c].ids
  BY <1>1 DEF Call, Lost
<1>3. call' = [call EXCEPT ![c] = s]
  BY DEF Return
<1>4. call'[c] = s
  BY <1>3 DEF TypeOK
<1>5. UNCHANGED <<epoch, version, content, receipts, applied, net, minted, todo, won>>
  BY DEF store
<1>6. Busy(c) /\ LatestOf(c) /\ InTurn(c)
  BY DEF Busy, Latest, Ordered
<1> HIDE DEF s
<1>7. Busy(c)' <=> err \in Lost /\ call[c].ids # {}
  BY <1>2, <1>4 DEF Busy
<1>8. LatestOf(c)'
  <2> SUFFICES ASSUME call[c].ids \subseteq lost' PROVE LatestOf(c)'
    BY <1>7 DEF LatestOf
  <2> QED BY <1>2, <1>4, <1>5, <1>6 DEF LatestOf, Mine
<1>9. InTurn(c)'
  <2>1. Free(c)' => Mine(c)' = {}
    BY <1>2, <1>4, <1>5, <1>6 DEF Free, LatestOf, Mine
  <2> QED BY <1>2, <1>4, <1>5, <1>6, <2>1 DEF InTurn, Over, Barred
<1>10. Attempt(c)'
  BY <1>2, <1>4 DEF Attempt, Lost
<1>11. EntityMeansApplied' /\ Faithful(s.seen)
  BY <1>2, <1>5 DEF Replies, EntityMeansApplied, Snapshots
<1>12. s.pc # "wait" /\ won' \subseteq Id /\ todo' \subseteq todo
  BY <1>2, <1>5 DEF TypeOK
<1> QED BY <1>2, <1>3, <1>8, <1>9, <1>10, <1>11, <1>12, LocalStep, MintsNothing

LEMMA ReceiveRefusedInv == ASSUME IInv, NEW c \in Callers, ReceiveRefused(c) PROVE IInv'
<1>1. call[c].pc = "wait"
  BY DEF IInv, Replies, ReceiveRefused
<1>2. UNCHANGED <<store, net, minted, todo, won>> /\ lost' = lost /\ lost' \subseteq Id
      /\ faults' \in Nat
  BY DEF IInv, TypeOK, ReceiveRefused
<1>3. Return(c, "refused") /\ Answered(c) /\ "refused" \in Lost \cup {"refused"}
      /\ "refused" \notin Lost
  BY DEF ReceiveRefused, Lost
<1> QED BY <1>1, <1>2, <1>3, GiveUpInv

LEMMA LoseAnswerInv == ASSUME IInv, NEW c \in Callers, LoseAnswer(c) PROVE IInv'
<1>1. PICK err \in Lost : Return(c, err)
  BY DEF LoseAnswer, GivesUp, Lost
<1>2. call[c].ids \subseteq Id
  BY FieldTypes DEF IInv
<1>3. call[c].pc = "wait" /\ UNCHANGED <<store, net, minted, todo, won>> /\ Answered(c)
      /\ lost \subseteq lost' /\ call[c].ids \subseteq lost' /\ lost' \subseteq Id
      /\ faults' \in Nat
  BY <1>2 DEF IInv, TypeOK, LoseAnswer, Fault
<1> QED BY <1>1, <1>3, GiveUpInv
-------------------------------------------------------------------------------
(* A step that posts the ids of one caller.                                *)
LEMMA PostStep ==
  ASSUME IInv, NEW c \in Callers, NEW s \in Call, NEW q, call' = [call EXCEPT ![c] = s],
         q = [from |-> c, post |-> call[c].post + 1, seen |-> call[c].seen, ids |-> s.ids],
         net' = net \cup {q}, call[c].pc # "wait",
         s.pc = "wait", s.post = call[c].post + 1, s.seen = call[c].seen,
         UNCHANGED <<store, reply, todo, won, lost>>, faults' \in Nat,
         Mints(c), \A id \in s.ids : Owner[id.intent] = c /\ id.n = minted'[id.intent],
         \A i \in Mine(c) : [intent |-> i, n |-> minted'[i]] \in s.ids,
         \A id \in Id, new \in s.ids : Earlier(id, new) => Over(id, call[c].seen.epoch),
         \A id \in s.ids, p \in net : id \in p.ids => p.seen = call[c].seen /\ id \in lost,
         \A a \in applied : a.id \in s.ids => a.epoch = call[c].seen.epoch
                                /\ (a.id.intent \in todo => a.id \in lost),
         Attempt(c)'
  PROVE  IInv'
<1> USE DEF IInv
<1>1. UNCHANGED <<epoch, version, content, receipts, applied, reply, todo, won, lost>>
  BY DEF store
<1>2. call'[c] = s /\ \A d \in Callers \ {c} : call'[d] = call[d]
  BY DEF TypeOK
<1>3. q \in Batch /\ q.ids = s.ids /\ s.ids \subseteq Id /\ q.from = c /\ q.seen = call[c].seen
      /\ q.post = call[c].post + 1 /\ call[c].post \in Nat
  <2>1. call[c].post \in Nat /\ call[c].seen \in Snapshot /\ s.ids \in SUBSET Id
    BY FieldTypes DEF Call
  <2> QED BY <2>1 DEF Batch
<1>4. TypeOK'
  BY <1>1, <1>3 DEF TypeOK, Mints
<1>5. \A id \in Id : id.intent \in Intents /\ id.n \in Nat /\ minted[id.intent] \in Nat
        /\ minted'[id.intent] \in Nat /\ minted'[id.intent] >= minted[id.intent]
  BY DEF Id, TypeOK, Mints
<1>6. (\A p \in net : p.ids \subseteq Id /\ p.from \in Callers /\ p.post \in Nat)
      /\ \A a \in applied : a.id \in Id
  BY FieldTypes
<1>7. Snapshots' /\ Receipts'
  BY <1>1, <1>2, <1>3 DEF Snapshots, Receipts, Faithful, AppliedAsSeen, Effective, Barred
<1>8. Replies'
  <2>1. reply[c].kind = "none" /\ reply[c].results = {}
    <3>1. reply[c].kind = "none"
      BY DEF Replies
    <3>2. \A r \in reply[c].results : FALSE
      BY <3>1 DEF Replies
    <3> QED BY <3>1, <3>2
  <2>2. ASSUME NEW d \in Callers, reply'[d].kind # "none"
        PROVE  /\ call'[d].pc = "wait"
               /\ \A p \in net' : p.from = d => p.post # call'[d].post
               /\ reply'[d].kind = "stale" => call'[d].seen.epoch < epoch'
    BY <1>1, <1>2, <1>3, <2>1, <2>2 DEF Replies
  <2>3. ASSUME NEW d \in Callers, NEW r \in reply'[d].results
        PROVE  /\ r.id \in call'[d].ids /\ reply'[d].kind = "results"
               /\ HasEntity(r) => Effective(r.id)
               /\ Undecided(r) /\ r.status # "retryable" => Barred(r.id) /\ ~Effective(r.id)
               /\ r.status = "retryable" /\ Effective(r.id) => r.id \in lost
    <3>1. d # c
      BY <1>1, <2>1, <2>3
    <3> QED BY <1>1, <1>2, <2>3, <3>1 DEF Replies
  <2>4. ASSUME NEW d \in Callers, NEW r \in reply'[d].results
        PROVE  /\ HasEntity(r) => Effective(r.id)'
               /\ Undecided(r) /\ r.status # "retryable" => Barred(r.id)' /\ ~Effective(r.id)'
               /\ r.status = "retryable" /\ Effective(r.id)' => r.id \in lost'
    BY <1>1, <2>3, <2>4 DEF Effective, Barred
  <2>5. EntityMeansApplied'
    BY <1>1 DEF Replies, EntityMeansApplied
  <2> QED BY <2>2, <2>3, <2>4, <2>5 DEF Replies, HasEntity, Undecided, Hopeless
<1>9. Posts'
  <2>1. \A p \in net : p.from = c => p.post < q.post
    BY <1>3, <1>6 DEF Posts
  <2>2. \A p \in net' : p.post <= call'[p.from].post
    BY <1>2, <1>3, <1>6, <2>1 DEF Posts
  <2>3. \A p, o \in net' : p.from = o.from /\ p.post = o.post => p = o
    BY <1>3, <1>6, <2>1 DEF Posts
  <2>4. \A p \in net' : \A id \in p.ids : Owner[id.intent] = p.from /\ id.n <= minted'[id.intent]
    BY <1>3, <1>5, <1>6 DEF Posts
  <2>5. \A a \in applied' : a.id.n <= minted'[a.id.intent]
    BY <1>1, <1>5, <1>6 DEF Posts
  <2>6. \A p \in net' : call'[p.from].pc = "wait" /\ p.post = call'[p.from].post =>
            p.seen = call'[p.from].seen /\ p.ids = call'[p.from].ids
    BY <1>2, <1>3, <1>6, <2>1 DEF Posts
  <2> QED BY <2>2, <2>3, <2>4, <2>5, <2>6 DEF Posts
<1>10. Latest'
  <2>1. LatestOf(c)'
    BY <1>1, <1>2, <1>3 DEF LatestOf, Mine
  <2>2. ASSUME NEW d \in Callers, d # c PROVE LatestOf(d)'
    <3>1. LatestOf(d) /\ call'[d] = call[d] /\ (Busy(d)' <=> Busy(d))
      BY <1>2, <2>2 DEF Latest, Busy
    <3>2. SUFFICES ASSUME Busy(d) PROVE LatestOf(d)'
      BY <3>1 DEF LatestOf
    <3>3. call[d].ids \subseteq Id
      BY FieldTypes
    <3>4. \A id \in call[d].ids : Owner[id.intent] = d /\ id.n = minted'[id.intent]
      BY <1>5, <2>2, <3>1, <3>2, <3>3 DEF LatestOf, Mints
    <3>5. \A i \in Mine(d) : [intent |-> i, n |-> minted'[i]] \in call[d].ids
      BY <2>2, <3>1, <3>2 DEF LatestOf, Mine, TypeOK, Mints
    <3>6. \A id \in call[d].ids : id \notin q.ids
      BY <1>3, <2>2, <3>4
    <3> QED BY <1>1, <3>1, <3>2, <3>4, <3>5, <3>6 DEF LatestOf, Mine
  <2> QED BY <2>1, <2>2 DEF Latest
<1>11. \A id \in Id, new \in Id : Earlier(id, new) /\ id \in q.ids => new.n > minted'[new.intent]
  BY <1>3, <1>5 DEF Earlier
<1>12. \A a \in applied : a.id.n <= minted'[a.id.intent]
  BY <1>5, <1>6 DEF Posts
<1>13. \A p \in net' : p.ids \subseteq Id /\ \A id \in p.ids : id.n <= minted'[id.intent]
  BY <1>3, <1>5, <1>6 DEF Posts
<1>14. Ordered'
  <2>1. ASSUME NEW id \in Id, NEW a \in applied, Earlier(id, a.id) PROVE Over(id, a.epoch)'
    <3>1. Over(id, a.epoch)
      BY <2>1 DEF Ordered
    <3>2. id \notin q.ids
      BY <1>5, <1>6, <1>11, <1>12, <2>1
    <3> QED BY <1>1, <3>1, <3>2 DEF Over, Barred
  <2>2. ASSUME NEW id \in Id, NEW p \in net', NEW new \in p.ids, Earlier(id, new)
        PROVE  Over(id, p.seen.epoch)'
    <3>1. Over(id, p.seen.epoch)
      BY <1>3, <2>2 DEF Ordered
    <3>2. id \notin q.ids
      BY <1>5, <1>11, <1>13, <2>2
    <3> QED BY <1>1, <3>1, <3>2 DEF Over, Barred
  <2>3. InTurn(c)'
    <3>1. Busy(c)' /\ ~Free(c)'
      BY <1>2 DEF Busy, Free
    <3>2. ASSUME NEW id \in Id, NEW new \in s.ids, Earlier(id, new)
          PROVE  Over(id, s.seen.epoch)'
      <4>1. Over(id, s.seen.epoch)
        BY <3>2
      <4>2. id \notin q.ids
        BY <1>3, <1>5, <1>11, <3>2
      <4> QED BY <1>1, <4>1, <4>2 DEF Over, Barred
    <3> QED BY <1>2, <3>1, <3>2 DEF InTurn, Earlier, Over, Barred
  <2>4. ASSUME NEW d \in Callers, d # c PROVE InTurn(d)'
    <3>1. InTurn(d) /\ LatestOf(d) /\ call'[d] = call[d] /\ (Busy(d)' <=> Busy(d))
          /\ (Free(d)' <=> Free(d))
      BY <1>2, <2>4 DEF Ordered, Latest, Busy, Free
    <3>2. \A id \in q.ids : Owner[id.intent] = c
      BY <1>3
    <3>3. ASSUME Busy(d), NEW id \in Id, NEW new \in call[d].ids, Earlier(id, new)
          PROVE  Over(id, call[d].seen.epoch) /\ id \notin q.ids
      BY <2>4, <3>1, <3>2, <3>3 DEF InTurn, LatestOf, Earlier
    <3>4. ASSUME Free(d), NEW id \in Id, id.intent \in Mine(d)
          PROVE  /\ id \notin q.ids
                 /\ Over(id, IF call[d].pc = "build" THEN call[d].seen.epoch ELSE epoch)
      BY <2>4, <3>1, <3>2, <3>4 DEF InTurn, Mine
    <3> QED BY <1>1, <3>1, <3>3, <3>4 DEF InTurn, Over, Barred, Mine, Earlier
  <2> QED BY <1>1, <2>1, <2>2, <2>3, <2>4 DEF Ordered, Earlier
<1>15. Attempts'
  BY <1>1, <1>2 DEF Attempts, Attempt
<1> QED BY <1>4, <1>7, <1>8, <1>9, <1>10, <1>14, <1>15
LEMMA BuiltIds ==
  ASSUME TypeOK, NEW c \in Callers
  PROVE  /\ Built(c) \subseteq Id
         /\ \A id \in Built(c) : id.intent \in Mine(c) /\ id.n = minted[id.intent] + 1
         /\ \A i \in Mine(c) : [intent |-> i, n |-> minted[i] + 1] \in Built(c)
<1>1. \A i \in Mine(c) : i \in Intents /\ minted[i] \in Nat
  BY DEF TypeOK, Mine
<1> QED BY <1>1 DEF Built, Id

LEMMA BuildAndPostInv == ASSUME IInv, NEW c \in Callers, BuildAndPost(c) PROVE IInv'
<1> USE DEF IInv
<1>1. call[c] \in Call /\ call[c].pc = "build" /\ Built(c) \subseteq Id
  BY FieldTypes, BuiltIds DEF BuildAndPost
<1>2. UNCHANGED <<epoch, version, content, receipts, applied, reply, todo, won, lost>>
  BY DEF BuildAndPost, store
<1>3. minted' = [i \in Intents |-> IF i \in Mine(c) THEN minted[i] + 1 ELSE minted[i]]
  BY DEF BuildAndPost
<1>4. Mints(c) /\ \A i \in Mine(c) : minted'[i] = minted[i] + 1
  BY <1>3 DEF TypeOK, Mine, Mints
<1>5. Mine(c) \subseteq Intents /\ \A i \in Mine(c) : Owner[i] = c
  BY DEF Mine, TypeOK
<1>6. Free(c) /\ InTurn(c) /\ Attempt(c)
  BY <1>1 DEF Free, Ordered, Attempts
<1>7. \A id \in Id : id.intent \in Mine(c) => Over(id, call[c].seen.epoch)
  BY <1>1, <1>6 DEF InTurn
<1>8. CASE net' = net \cup {[from |-> c, post |-> call[c].post + 1, seen |-> BuiltFrom(c),
                             ids |-> Built(c)]}
           /\ call' = [call EXCEPT ![c].pc = "wait", ![c].post = @ + 1, ![c].ids = Built(c)]
           /\ UNCHANGED faults
  <2>0. PICK next \in Nat : next = call[c].post + 1
    BY FieldTypes
  <2> DEFINE s == [call[c] EXCEPT !.pc = "wait", !.post = next, !.ids = Built(c)]
             q == [from |-> c, post |-> call[c].post + 1, seen |-> call[c].seen, ids |-> s.ids]
  <2>1. s \in Call /\ s.pc = "wait" /\ s.post = next /\ s.seen = call[c].seen
        /\ s.ids = Built(c) /\ s.retry = call[c].retry /\ s.attempt = call[c].attempt
        /\ s.first = call[c].first
    BY <1>1 DEF Call
  <2>2. call' = [call EXCEPT ![c] = s]
    BY <1>8, <2>0
  <2>3. call'[c] = s
    BY <2>2 DEF TypeOK
  <2>4. net' = net \cup {q}
    BY <1>8, <2>1 DEF BuiltFrom
  <2> HIDE DEF s
  <2>5. \A id \in s.ids : /\ Owner[id.intent] = c /\ id.n = minted'[id.intent]
                          /\ id.n > minted[id.intent]
    BY <1>4, <1>5, <2>1, BuiltIds DEF TypeOK
  <2>6. \A i \in Mine(c) : [intent |-> i, n |-> minted'[i]] \in s.ids
    BY <1>4, <1>5, <2>1, BuiltIds
  <2>7. \A id \in Id, new \in s.ids : Earlier(id, new) => Over(id, call[c].seen.epoch)
    BY <1>7, <2>1, BuiltIds DEF Earlier
  <2>8. \A id \in s.ids : (\A p \in net : id \notin p.ids) /\ \A a \in applied : a.id # id
    <3>1. \A id \in s.ids : ~(id.n <= minted[id.intent])
      BY <1>1, <2>1, <2>5 DEF Id, TypeOK
    <3> QED BY <3>1 DEF Posts
  <2>9. Attempt(c)'
    BY <1>1, <1>6, <2>1, <2>3 DEF Attempt
  <2>10. faults' \in Nat /\ UNCHANGED <<store, reply, todo, won, lost>>
    BY <1>2, <1>8 DEF store, TypeOK
  <2> HIDE DEF q
  <2>11. q = [from |-> c, post |-> call[c].post + 1, seen |-> call[c].seen, ids |-> s.ids]
    BY DEF q
  <2>12. /\ \A id \in s.ids : Owner[id.intent] = c /\ id.n = minted'[id.intent]
         /\ \A id \in s.ids, p \in net : id \in p.ids => p.seen = call[c].seen /\ id \in lost
         /\ \A a \in applied : a.id \in s.ids => a.epoch = call[c].seen.epoch
                                /\ (a.id.intent \in todo => a.id \in lost)
    BY <2>5, <2>8
  <2>13. call[c].pc # "wait" /\ s.post = call[c].post + 1
    BY <1>1, <2>0, <2>1
  <2> QED BY <1>4, <2>1, <2>2, <2>4, <2>6, <2>7, <2>9, <2>10, <2>11, <2>12, <2>13, PostStep
<1>9. CASE net' = net /\ faults' \in Nat
           /\ call' = [call EXCEPT ![c].pc = "idle", ![c].err = "refused", ![c].ids = {}]
  <2> DEFINE s == [call[c] EXCEPT !.pc = "idle", !.err = "refused", !.ids = {}]
  <2>1. s \in Call /\ s.pc = "idle" /\ s.post = call[c].post /\ s.seen = call[c].seen
        /\ s.ids = {} /\ s.err = "refused"
    <3>1. {} \in SUBSET Id
      OBVIOUS
    <3> QED BY <1>1, <3>1 DEF Call
  <2>2. call' = [call EXCEPT ![c] = s]
    BY <1>9
  <2>3. call'[c] = s
    BY <2>2 DEF TypeOK
  <2> HIDE DEF s
  <2>4. InTurn(c)'
    <3>1. ASSUME NEW id \in Id, id.intent \in Mine(c) PROVE Over(id, epoch)
      <4>1. call[c].seen.epoch \in Nat /\ epoch \in Nat /\ call[c].seen.epoch <= epoch
        BY FieldTypes, NumberTypes DEF TypeOK, Snapshots, Faithful
      <4> QED BY <1>7, <3>1, <4>1, OverLater
    <3> QED BY <1>2, <1>9, <2>1, <2>3, <3>1 DEF InTurn, Busy, Lost, Mine, Over, Barred
  <2>5. LatestOf(c)' /\ Attempt(c)'
    BY <2>1, <2>3 DEF LatestOf, Busy, Lost, Attempt
  <2>6. Faithful(s.seen) /\ EntityMeansApplied'
    BY <1>2, <2>1 DEF Snapshots, Replies, EntityMeansApplied
  <2>7. UNCHANGED <<store, net, reply, todo, won, lost>> /\ s.pc # "wait" /\ call[c].pc # "wait"
        /\ lost' \subseteq Id /\ won' \subseteq Id
    BY <1>1, <1>2, <1>9, <2>1 DEF store, TypeOK
  <2> QED BY <1>4, <1>9, <2>1, <2>2, <2>4, <2>5, <2>6, <2>7, LocalStep
<1> QED BY <1>8, <1>9 DEF BuildAndPost, Fault, TypeOK

LEMMA ResendInv == ASSUME IInv, NEW c \in Callers, Resend(c) PROVE IInv'
<1> USE DEF IInv
<1>0. PICK next \in Nat : next = call[c].post + 1
  BY FieldTypes
<1> DEFINE s == [call[c] EXCEPT !.pc = "wait", !.retry = FALSE, !.post = next]
           q == [from |-> c, post |-> call[c].post + 1, seen |-> call[c].seen, ids |-> s.ids]
<1>1. call[c] \in Call /\ call[c].pc = "idle" /\ Busy(c)
  BY FieldTypes DEF Resend, Busy, Lost
<1>2. s \in Call /\ s.pc = "wait" /\ s.post = next /\ s.seen = call[c].seen
      /\ s.ids = call[c].ids /\ s.retry = FALSE
  BY <1>1 DEF Call
<1>3. call' = [call EXCEPT ![c] = s] /\ net' = net \cup {q}
  BY <1>0, <1>2 DEF Resend
<1>4. call'[c] = s
  BY <1>3 DEF TypeOK
<1> HIDE DEF s
<1>5. LatestOf(c) /\ InTurn(c) /\ reply[c].kind # "results"
  BY <1>1 DEF Latest, Ordered, Replies
<1>6. minted' = minted /\ UNCHANGED <<store, reply, todo, won, lost>> /\ faults' \in Nat
  BY DEF Resend, TypeOK
<1>7. Mints(c)
  BY <1>6, MintsNothing
<1>8. /\ \A id \in s.ids : Owner[id.intent] = c /\ id.n = minted'[id.intent]
      /\ \A i \in Mine(c) : [intent |-> i, n |-> minted'[i]] \in s.ids
      /\ \A id \in Id, new \in s.ids : Earlier(id, new) => Over(id, call[c].seen.epoch)
      /\ \A id \in s.ids, p \in net : id \in p.ids => p.seen = call[c].seen /\ id \in lost
      /\ \A a \in applied : a.id \in s.ids => a.epoch = call[c].seen.epoch
                                /\ (a.id.intent \in todo => a.id \in lost)
  BY <1>1, <1>2, <1>5, <1>6 DEF LatestOf, InTurn
<1>9. Attempt(c)'
  BY <1>2, <1>4 DEF Attempt
<1> HIDE DEF q
<1>10. q = [from |-> c, post |-> call[c].post + 1, seen |-> call[c].seen, ids |-> s.ids]
  BY DEF q
<1>11. call[c].pc # "wait"
  BY <1>1
<1> QED BY <1>0, <1>2, <1>3, <1>6, <1>7, <1>8, <1>9, <1>10, <1>11, PostStep
-------------------------------------------------------------------------------
LEMMA MoveEpochInv == ASSUME IInv, MoveEpoch PROVE IInv'
<1> USE DEF IInv
<1>1. epoch' = epoch + 1 /\ epoch \in Nat /\ version' \in Nat /\ content' \in Nat
      /\ UNCHANGED <<receipts, applied, net, reply, call, minted, todo, won, lost, faults>>
  BY DEF MoveEpoch, TypeOK
<1>2. TypeOK'
  BY <1>1 DEF TypeOK
<1>3. \A s \in Snapshot : Faithful(s) => Faithful(s)' /\ s.epoch < epoch'
  BY <1>1 DEF Faithful, Snapshot
<1>4. Snapshots'
  BY <1>1, <1>3, FieldTypes DEF Snapshots, AppliedAsSeen, Faithful
<1>5. Receipts'
  BY <1>1, FieldTypes DEF Receipts, Effective, Barred
<1>6. Replies'
  <2>1. \A c \in Callers : reply[c].kind = "stale" => call[c].seen.epoch < epoch'
    BY <1>3, FieldTypes DEF Snapshots
  <2> QED BY <1>1, <2>1 DEF Replies, EntityMeansApplied, Effective, Barred, Undecided, HasEntity,
                            Hopeless
<1>7. Posts'
  BY <1>1 DEF Posts
<1>8. ASSUME NEW c \in Callers PROVE LatestOf(c)'
  BY <1>1 DEF Latest, LatestOf, Busy, Mine
<1>9. Ordered'
  <2>1. ASSUME NEW c \in Callers PROVE InTurn(c)'
    <3>1. InTurn(c)
      BY DEF Ordered
    <3>2. ASSUME Free(c), call[c].pc # "build", NEW id \in Id, id.intent \in Mine(c)
          PROVE  Over(id, epoch')
      <4>1. Over(id, epoch)
        BY <3>1, <3>2 DEF InTurn
      <4> QED BY <1>1, <4>1, OverLater
    <3> QED BY <1>1, <3>1, <3>2 DEF InTurn, Busy, Free, Mine, Over, Barred
  <2> QED BY <1>1, <2>1 DEF Ordered, Over, Barred, Earlier
<1>10. Attempts'
  <2>1. \A c \in Callers : call[c].first \in Nat
    BY FieldTypes
  <2> QED BY <1>1, <2>1 DEF Attempts, Attempt
<1> QED BY <1>2, <1>4, <1>5, <1>6, <1>7, <1>8, <1>9, <1>10 DEF Latest
-------------------------------------------------------------------------------
(* The answer to one batch reaches its caller, or nobody.                  *)
LEMMA AnswerMeans ==
  ASSUME IInv, NEW q \in net, NEW kind \in {"stale", "refused", "results"},
         NEW results \in SUBSET Result, Answer(q, kind, results)
  PROVE  /\ net' = net \ {q} /\ reply' \in [Callers -> Reply]
         /\ \A c \in Callers : \/ reply'[c] = reply[c]
                               \/ /\ c = q.from /\ call[c].pc = "wait" /\ call[c].post = q.post
                                  /\ q.seen = call[c].seen /\ q.ids = call[c].ids
                                  /\ reply[c].kind = "none"
                                  /\ reply'[c].kind = kind /\ reply'[c].results = results
         /\ call[q.from].pc = "wait" /\ call[q.from].post = q.post => reply'[q.from].kind = kind
<1> USE DEF IInv
<1>1. q.from \in Callers
  BY FieldTypes
<1>2. net' = net \ {q}
  BY DEF Answer
<1>3. [kind |-> kind, results |-> results] \in Reply
  BY DEF Reply
<1>4. CASE call[q.from].pc = "wait" /\ call[q.from].post = q.post
  <2>1. reply' = [reply EXCEPT ![q.from] = [kind |-> kind, results |-> results]]
    BY <1>4 DEF Answer
  <2>2. reply[q.from].kind = "none"
    BY <1>1, <1>4 DEF Replies
  <2>3. q.seen = call[q.from].seen /\ q.ids = call[q.from].ids
    BY <1>4 DEF Posts
  <2> QED BY <1>1, <1>2, <1>3, <1>4, <2>1, <2>2, <2>3 DEF TypeOK
<1>5. CASE ~(call[q.from].pc = "wait" /\ call[q.from].post = q.post)
  <2>1. reply' = reply
    BY <1>5 DEF Answer
  <2> QED BY <1>2, <1>5, <2>1 DEF TypeOK
<1> QED BY <1>4, <1>5

LEMMA FewerPosts ==
  ASSUME IInv, NEW q \in net, net' = net \ {q}, UNCHANGED <<call, minted, applied>>
  PROVE  Posts'
  BY DEF IInv, Posts

(* The store did nothing with the batch.                                   *)
LEMMA TurnedAwayInv ==
  ASSUME IInv, NEW q \in net, NEW kind \in {"stale", "refused"},
         kind = "stale" => q.seen.epoch # epoch,
         Answer(q, kind, {}), UNCHANGED <<store, call, minted, todo, won, lost>>, faults' \in Nat
  PROVE  IInv'
<1> USE DEF IInv
<1>1. UNCHANGED <<epoch, version, content, receipts, applied>>
  BY DEF store
<1>2. {} \in SUBSET Result
  OBVIOUS
<1>3. /\ net' = net \ {q} /\ reply' \in [Callers -> Reply]
      /\ \A c \in Callers : \/ reply'[c] = reply[c]
                            \/ /\ c = q.from /\ call[c].pc = "wait" /\ call[c].post = q.post
                               /\ q.seen = call[c].seen /\ q.ids = call[c].ids
                               /\ reply[c].kind = "none"
                               /\ reply'[c].kind = kind /\ reply'[c].results = {}
  BY <1>2, AnswerMeans
<1>4. TypeOK'
  BY <1>1, <1>3 DEF TypeOK
<1>5. Snapshots' /\ Receipts'
  BY <1>1, <1>3 DEF Snapshots, Receipts, Faithful, AppliedAsSeen, Effective, Barred
<1>6. Posts'
  BY <1>1, <1>3, FewerPosts
<1>7. Replies'
  <2>1. kind = "stale" => q.seen.epoch < epoch
    <3>1. q.seen \in Snapshot /\ q.seen.epoch <= epoch /\ epoch \in Nat
      BY FieldTypes DEF Snapshots, Faithful, TypeOK
    <3>2. q.seen.epoch \in Nat
      BY <3>1, NumberTypes
    <3> QED BY <3>1, <3>2
  <2>2. ASSUME NEW c \in Callers, reply'[c].kind # "none"
        PROVE  /\ call[c].pc = "wait"
               /\ \A p \in net' : p.from = c => p.post # call[c].post
               /\ reply'[c].kind = "stale" => call[c].seen.epoch < epoch
    BY <1>3, <2>1, <2>2 DEF Replies, Posts
  <2>3. ASSUME NEW c \in Callers, NEW r \in reply'[c].results
        PROVE  r \in reply[c].results /\ reply'[c] = reply[c]
    BY <1>3, <2>3
  <2> QED BY <1>1, <2>2, <2>3 DEF Replies, EntityMeansApplied, Effective, Barred, Undecided,
                                  HasEntity, Hopeless
<1>8. ASSUME NEW c \in Callers PROVE LatestOf(c)'
  <2>1. reply[c].kind = "results" => reply'[c].kind = "results"
    BY <1>3
  <2> QED BY <1>1, <1>3, <2>1 DEF Latest, LatestOf, Busy, Mine
<1>9. Ordered'
  BY <1>1, <1>3 DEF Ordered, InTurn, Busy, Free, Mine, Over, Barred, Earlier
<1>10. Attempts'
  BY <1>1 DEF Attempts, Attempt
<1> QED BY <1>4, <1>5, <1>6, <1>7, <1>8, <1>9, <1>10 DEF Latest

LEMMA StoreIsElsewhereInv == ASSUME IInv, NEW q, StoreIsElsewhere(q) PROVE IInv'
<1>1. q \in net /\ q.seen.epoch # epoch /\ Answer(q, "stale", {}) /\ faults' \in Nat
      /\ UNCHANGED <<store, call, minted, todo, won, lost>>
  BY DEF StoreIsElsewhere, IInv, TypeOK
<1> QED BY <1>1, TurnedAwayInv

LEMMA StoreRefusesInv == ASSUME IInv, NEW q, StoreRefuses(q) PROVE IInv'
<1>1. q \in net /\ Answer(q, "refused", {}) /\ faults' \in Nat
      /\ UNCHANGED <<store, call, minted, todo, won, lost>>
  BY DEF StoreRefuses, IInv, TypeOK, Fault
<1> QED BY <1>1, TurnedAwayInv

(* What the store does with a batch of its own epoch: done are the ids     *)
(* that take effect, final those that get a receipt.                       *)
Effects(q, done) ==
    {[id |-> id, epoch |-> epoch, onto |-> content,
      seen |-> IF id.intent \in Updates THEN q.seen.content ELSE content] : id \in done}

Applies(q, done, final, results) ==
    /\ done \subseteq final /\ Answer(q, "results", results)
    /\ \A id \in done : id.intent \in Updates => q.seen.version = version
    /\ applied' = applied \cup Effects(q, done)
    /\ receipts \subseteq receipts' /\ receipts' \subseteq Receipt
    /\ \A r \in receipts' : \/ r \in receipts
                            \/ r.id \in final /\ (r.status = "applied" <=> r.id \in done)
    /\ \A id \in final : \E r \in receipts' : r.id = id
    /\ \/ version' = version + 1 /\ content' = content + 1
       \/ UNCHANGED <<version, content>>
    /\ \A r \in results :
          \/ /\ r.id \in New(q)
             /\ HasEntity(r) => r.id \in done
             /\ Undecided(r) /\ r.status # "retryable" => r.id \in final \ done
             /\ r.status = "retryable" => r.id \notin final
          \/ /\ r.id \in q.ids /\ r.status # "retryable"
             /\ \E k \in receipts : /\ k.id = r.id
                                    /\ HasEntity(r) => k.status = "applied"
                                    /\ Undecided(r) => k.status # "applied"

LEMMA StoreAppliesMeans ==
  ASSUME TypeOK, NEW q, StoreApplies(q)
  PROVE  /\ q \in net /\ q.seen.epoch = epoch /\ faults' \in Nat
         /\ UNCHANGED <<epoch, call, minted, todo, won, lost>>
         /\ \E done \in SUBSET New(q), final \in SUBSET New(q), results \in SUBSET Result :
              Applies(q, done, final, results)
<1>1. q \in net /\ q.seen.epoch = epoch /\ UNCHANGED <<epoch, call, minted, todo, won, lost>>
  BY DEF StoreApplies
<1>2. PICK balk \in SUBSET New(q), why \in {"rejected", "retryable"} :
        LET new == New(q)
            done == {id \in new : Outcome(q, id, balk, why) = "applied"}
            final == {id \in new : Outcome(q, id, balk, why) # "retryable"}
            old == UNION {Known(id) : id \in q.ids} IN
          /\ IF balk = {} THEN UNCHANGED faults ELSE Fault
          /\ applied' = applied \cup {[id |-> id, epoch |-> epoch, onto |-> content,
                  seen |-> IF id.intent \in Updates THEN q.seen.content ELSE content]
                  : id \in done}
          /\ receipts' = receipts \cup
                {[id |-> id, epoch |-> epoch, status |-> Outcome(q, id, balk, why)] : id \in final}
          /\ IF \E id \in done : id.intent \in Updates
             THEN version' = version + 1 /\ content' = content + 1
             ELSE UNCHANGED <<version, content>>
          /\ Answer(q, "results",
                {[id |-> id, status |-> Outcome(q, id, balk, why), original |-> "rejected"]
                    : id \in new}
                \cup {[id |-> r.id, status |-> IF r.epoch = epoch THEN "duplicate" ELSE "rejected",
                       original |-> r.status] : r \in old})
  BY DEF StoreApplies
<1> DEFINE done == {id \in New(q) : Outcome(q, id, balk, why) = "applied"}
           final == {id \in New(q) : Outcome(q, id, balk, why) # "retryable"}
           old == UNION {Known(id) : id \in q.ids}
           fresh == {[id |-> id, status |-> Outcome(q, id, balk, why), original |-> "rejected"]
                        : id \in New(q)}
           again == {[id |-> r.id, status |-> IF r.epoch = epoch THEN "duplicate" ELSE "rejected",
                      original |-> r.status] : r \in old}
           rows == {[id |-> id, epoch |-> epoch, status |-> Outcome(q, id, balk, why)]
                        : id \in final}
<1>3. /\ applied' = applied \cup Effects(q, done) /\ receipts' = receipts \cup rows
      /\ Answer(q, "results", fresh \cup again)
      /\ \/ version' = version + 1 /\ content' = content + 1
         \/ UNCHANGED <<version, content>>
      /\ IF balk = {} THEN UNCHANGED faults ELSE Fault
  BY <1>2 DEF Effects
<1>4. \A id : Outcome(q, id, balk, why) \in {"applied", "conflict", "rejected", "retryable"}
  BY DEF Outcome
<1>5. q.ids \subseteq Id /\ receipts \subseteq Receipt /\ epoch \in Nat
  BY <1>1, FieldTypes DEF TypeOK
<1>6. New(q) \subseteq q.ids /\ old \subseteq receipts /\ \A r \in old : r.id \in q.ids
  BY DEF New, Known
<1>7. faults' \in Nat
  BY <1>3 DEF Fault, TypeOK
<1>8. done \subseteq New(q) /\ final \subseteq New(q) /\ done \subseteq final
  <2>1. \A id \in done : Outcome(q, id, balk, why) # "retryable"
    BY SMT
  <2> QED BY <2>1
<1>9. \A id \in done : id.intent \in Updates => q.seen.version = version
  BY DEF Outcome
<1>10. rows \subseteq Receipt
  BY <1>4, <1>5, <1>6 DEF Receipt, Status
<1>11. /\ \A r \in rows : r.id \in final /\ (r.status = "applied" <=> r.id \in done)
       /\ \A id \in final : \E r \in rows : r.id = id
  <2>1. \A id \in final : id \in done <=> Outcome(q, id, balk, why) = "applied"
    BY SMT
  <2>2. \A r \in rows : r.id \in final /\ r.status = Outcome(q, r.id, balk, why)
    BY SMT
  <2>3. ASSUME NEW id \in final PROVE \E r \in rows : r.id = id
    <3>1. [id |-> id, epoch |-> epoch, status |-> Outcome(q, id, balk, why)] \in rows
      OBVIOUS
    <3> HIDE DEF rows
    <3> QED BY <3>1
  <2> QED BY <2>1, <2>2, <2>3
<1>12. fresh \cup again \subseteq Result
  <2>1. fresh \subseteq Result
    BY <1>4, <1>5, <1>6 DEF Result, Status
  <2>2. \A r \in old : r.id \in Id /\ r.status \in Status
    BY <1>5, <1>6 DEF Receipt
  <2>3. again \subseteq Result
    BY <2>2 DEF Result, Status
  <2> QED BY <2>1, <2>3
<1>13. \A r \in fresh : /\ r.id \in New(q)
                        /\ HasEntity(r) => r.id \in done
                        /\ Undecided(r) /\ r.status # "retryable" => r.id \in final \ done
                        /\ r.status = "retryable" => r.id \notin final
  BY <1>4 DEF HasEntity, Undecided, Hopeless
<1>14. \A r \in again : /\ r.id \in q.ids /\ r.status # "retryable"
                        /\ \E k \in receipts : /\ k.id = r.id
                                               /\ HasEntity(r) => k.status = "applied"
                                               /\ Undecided(r) => k.status # "applied"
  BY <1>6 DEF HasEntity, Undecided, Hopeless
<1> HIDE DEF done, final, old, fresh, again, rows
<1> DEFINE results == fresh \cup again
<1>15. results \in SUBSET Result /\ Answer(q, "results", results)
       /\ \A r \in results : r \in fresh \/ r \in again
  BY <1>3, <1>12
<1> HIDE DEF results
<1>16. /\ receipts \subseteq receipts' /\ receipts' \subseteq Receipt
       /\ \A r \in receipts' : \/ r \in receipts
                               \/ r.id \in final /\ (r.status = "applied" <=> r.id \in done)
       /\ \A id \in final : \E r \in receipts' : r.id = id
  BY <1>3, <1>5, <1>10, <1>11
<1>17. \A r \in results :
          \/ /\ r.id \in New(q)
             /\ HasEntity(r) => r.id \in done
             /\ Undecided(r) /\ r.status # "retryable" => r.id \in final \ done
             /\ r.status = "retryable" => r.id \notin final
          \/ /\ r.id \in q.ids /\ r.status # "retryable"
             /\ \E k \in receipts : /\ k.id = r.id
                                    /\ HasEntity(r) => k.status = "applied"
                                    /\ Undecided(r) => k.status # "applied"
  BY <1>13, <1>14, <1>15
<1>18. Applies(q, done, final, results)
  BY <1>3, <1>8, <1>9, <1>15, <1>16, <1>17 DEF Applies
<1> QED BY <1>1, <1>7, <1>8, <1>15, <1>18
(* What the store applies was not over.                                    *)
LEMMA AppliesOver ==
  ASSUME IInv, NEW q \in net, q.seen.epoch = epoch, NEW done \in SUBSET New(q),
         NEW final \in SUBSET New(q), NEW results \in SUBSET Result,
         Applies(q, done, final, results), lost' = lost,
         NEW id \in Id, NEW e \in Nat, e <= epoch, Over(id, e)
  PROVE  /\ \A p \in net' : id \in p.ids => p.seen.epoch < e \/ \E r \in receipts' : r.id = id
         /\ \A a \in applied' : a.id = id => a.epoch < e /\ id \in lost'
<1>1. net' \subseteq net /\ receipts \subseteq receipts' /\ applied' = applied \cup Effects(q, done)
  BY DEF Applies, Answer
<1>2. \A a \in Effects(q, done) : a.id \in done
  BY DEF Effects
<1>3. id \notin done
  <2> SUFFICES ASSUME id \in done PROVE FALSE
    OBVIOUS
  <2>1. id \in q.ids /\ ~Barred(id)
    BY DEF New, Known, Barred
  <2>2. q.seen.epoch < e
    BY <2>1 DEF Over
  <2>3. epoch \in Nat
    BY DEF IInv, TypeOK
  <2> QED BY <2>2, <2>3
<1> QED BY <1>1, <1>2, <1>3 DEF Over, Barred

LEMMA StoreAppliesInv == ASSUME IInv, NEW q, StoreApplies(q) PROVE IInv'
<1> USE DEF IInv
<1>1. q \in net /\ q.seen.epoch = epoch /\ faults' \in Nat
      /\ UNCHANGED <<epoch, call, minted, todo, won, lost>>
  BY StoreAppliesMeans
<1>2. PICK done \in SUBSET New(q), final \in SUBSET New(q), results \in SUBSET Result :
        Applies(q, done, final, results)
  BY StoreAppliesMeans
<1>3. /\ done \subseteq final /\ applied' = applied \cup Effects(q, done)
      /\ receipts \subseteq receipts' /\ receipts' \subseteq Receipt
      /\ \A id \in final : \E r \in receipts' : r.id = id
  BY <1>2 DEF Applies
<1>4. \A id \in New(q) : id \in q.ids /\ ~Barred(id) /\ ~Effective(id) /\ id \in Id
  <2>1. \A id \in New(q) : id \in q.ids /\ ~Barred(id) /\ id \in Id
    BY <1>1, FieldTypes DEF New, Known, Barred
  <2> QED BY <2>1 DEF Receipts, Effective
<1>5. q.seen \in Snapshot /\ q.from \in Callers /\ q.ids \subseteq Id /\ epoch \in Nat
      /\ version \in Nat /\ content \in Nat
  BY <1>1, FieldTypes DEF TypeOK
<1>6. /\ \A a \in Effects(q, done) : a.id \in done /\ a.epoch = epoch /\ a \in Effect
                                     /\ a.onto = content
                                     /\ (a.seen = content \/ a.seen = q.seen.content)
      /\ \A a, b \in Effects(q, done) : a.id = b.id => a = b
      /\ \A id \in done : \E a \in Effects(q, done) : a.id = id
  <2>1. q.seen.content \in Nat
    BY <1>5, NumberTypes
  <2>2. ASSUME NEW a \in Effects(q, done)
        PROVE  a.id \in done /\ a.epoch = epoch /\ a \in Effect /\ a.onto = content
               /\ (a.seen = content \/ a.seen = q.seen.content)
    BY <1>4, <1>5, <2>1 DEF Effects, Effect
  <2>3. \A a, b \in Effects(q, done) : a.id = b.id => a = b
    BY DEF Effects
  <2>4. ASSUME NEW id \in done PROVE \E a \in Effects(q, done) : a.id = id
    <3> DEFINE a == [id |-> id, epoch |-> epoch, onto |-> content,
                     seen |-> IF id.intent \in Updates THEN q.seen.content ELSE content]
    <3>1. a \in Effects(q, done) /\ a.id = id
      BY DEF Effects
    <3> HIDE DEF a
    <3> QED BY <3>1
  <2> QED BY <2>2, <2>3, <2>4
<1>7. /\ net' = net \ {q} /\ reply' \in [Callers -> Reply]
      /\ \A c \in Callers : \/ reply'[c] = reply[c]
                            \/ /\ c = q.from /\ call[c].pc = "wait" /\ call[c].post = q.post
                               /\ q.seen = call[c].seen /\ q.ids = call[c].ids
                               /\ reply[c].kind = "none"
                               /\ reply'[c].kind = "results" /\ reply'[c].results = results
      /\ call[q.from].pc = "wait" /\ call[q.from].post = q.post => reply'[q.from].kind = "results"
  BY <1>1, <1>2, AnswerMeans DEF Applies
<1>8. \A id : Effective(id)' <=> Effective(id) \/ id \in done
  BY <1>3, <1>6 DEF Effective
<1>9. \A id : Barred(id) => \E r \in receipts' : r.id = id
  BY <1>3 DEF Barred
<1>10. TypeOK'
  <2>1. version' \in Nat /\ content' \in Nat
    BY <1>2, <1>5 DEF Applies
  <2> QED BY <1>1, <1>3, <1>6, <1>7, <2>1 DEF TypeOK
<1>11. Snapshots'
  <2>1. \A s \in Snapshot : Faithful(s) => Faithful(s)'
    <3>1. \A s \in Snapshot : s.version \in Nat
      BY NumberTypes
    <3> QED BY <1>1, <1>2, <1>5, <3>1 DEF Faithful, Applies
  <2>2. (\A c \in Callers : call[c].seen \in Snapshot) /\ \A p \in net : p.seen \in Snapshot
    BY FieldTypes
  <2>3. ASSUME NEW a \in Effects(q, done) PROVE a.seen = a.onto
    <3>1. q.seen.version = version => q.seen.content = content
      BY <1>1 DEF Snapshots, Faithful
    <3> QED BY <1>2, <3>1 DEF Effects, Applies
  <2> QED BY <1>1, <1>3, <1>7, <2>1, <2>2, <2>3 DEF Snapshots, AppliedAsSeen, Faithful
<1>12. Receipts'
  <2>1. ASSUME NEW r \in receipts' PROVE r.status = "applied" <=> Effective(r.id)'
    <3>1. CASE r \in receipts
      <4>1. r.id \notin done
        BY <1>4, <3>1 DEF Barred
      <4> QED BY <1>8, <3>1, <4>1 DEF Receipts
    <3>2. CASE r.id \in final /\ (r.status = "applied" <=> r.id \in done)
      BY <1>4, <1>8, <3>2
    <3> QED BY <1>2, <2>1, <3>1, <3>2 DEF Applies
  <2>2. ASSUME NEW a \in applied' PROVE a.epoch <= epoch /\ \E r \in receipts' : r.id = a.id
    <3>1. CASE a \in applied
      BY <1>9, <3>1 DEF Receipts
    <3>2. CASE a \in Effects(q, done)
      BY <1>3, <1>5, <1>6, <3>2
    <3> QED BY <1>3, <2>2, <3>1, <3>2
  <2>3. \A a, b \in applied' : a.id = b.id => a = b
    <3>1. \A a \in applied, b \in Effects(q, done) : a.id # b.id
      BY <1>4, <1>6 DEF Effective
    <3> QED BY <1>3, <1>6, <3>1 DEF Receipts
  <2> QED BY <1>1, <2>1, <2>2, <2>3 DEF Receipts, Effective, Barred
<1>13. Posts'
  <2>1. \A a \in applied' : a.id.n <= minted[a.id.intent]
    BY <1>1, <1>3, <1>4, <1>6 DEF Posts
  <2> QED BY <1>1, <1>7, <2>1 DEF Posts
<1>14. Replies'
  <2>1. ASSUME NEW c \in Callers, reply'[c].kind # "none"
        PROVE  /\ call[c].pc = "wait"
               /\ \A p \in net' : p.from = c => p.post # call[c].post
               /\ reply'[c].kind = "stale" => call[c].seen.epoch < epoch
    BY <1>1, <1>7, <2>1 DEF Replies, Posts
  <2>2. ASSUME NEW c \in Callers, NEW r \in reply'[c].results
        PROVE  /\ r.id \in call[c].ids /\ reply'[c].kind = "results"
               /\ HasEntity(r) => Effective(r.id) \/ r.id \in done
               /\ Undecided(r) /\ r.status # "retryable" =>
                    /\ ~Effective(r.id) /\ r.id \notin done
                    /\ \E k \in receipts' : k.id = r.id
               /\ r.status = "retryable" /\ (Effective(r.id) \/ r.id \in done) => r.id \in lost
    <3>1. CASE reply'[c] = reply[c]
      <4>1. /\ r.id \in call[c].ids /\ reply[c].kind = "results"
            /\ HasEntity(r) => Effective(r.id)
            /\ Undecided(r) /\ r.status # "retryable" => Barred(r.id) /\ ~Effective(r.id)
            /\ r.status = "retryable" /\ Effective(r.id) => r.id \in lost
        BY <2>2, <3>1 DEF Replies
      <4>2. ASSUME r.id \in done PROVE r.id \in lost
        <5>1. call[c].pc = "wait" /\ \A p \in net : p.from = c => p.post # call[c].post
          BY <4>1 DEF Replies
        <5>2. LatestOf(c) /\ Busy(c) /\ r.id \in q.ids
          BY <1>4, <4>2, <5>1 DEF Latest, Busy
        <5>3. q.from = c
          BY <1>1, <4>1, <5>2 DEF LatestOf, Posts
        <5> QED BY <1>1, <4>1, <5>1, <5>2, <5>3 DEF LatestOf
      <4>3. Barred(r.id) => r.id \notin done
        BY <1>4
      <4> QED BY <1>9, <3>1, <4>1, <4>2, <4>3
    <3>2. CASE c = q.from /\ q.ids = call[c].ids /\ reply'[c].kind = "results"
               /\ reply'[c].results = results
      <4>1. \/ /\ r.id \in New(q)
               /\ HasEntity(r) => r.id \in done
               /\ Undecided(r) /\ r.status # "retryable" => r.id \in final \ done
               /\ r.status = "retryable" => r.id \notin final
            \/ /\ r.id \in q.ids /\ r.status # "retryable"
               /\ \E k \in receipts : /\ k.id = r.id
                                      /\ HasEntity(r) => k.status = "applied"
                                      /\ Undecided(r) => k.status # "applied"
        BY <1>2, <2>2, <3>2 DEF Applies
      <4>2. CASE /\ r.id \in New(q)
                 /\ HasEntity(r) => r.id \in done
                 /\ Undecided(r) /\ r.status # "retryable" => r.id \in final \ done
                 /\ r.status = "retryable" => r.id \notin final
        BY <1>3, <1>4, <3>2, <4>2
      <4>3. ASSUME r.id \in q.ids, r.status # "retryable", NEW k \in receipts, k.id = r.id,
                   HasEntity(r) => k.status = "applied", Undecided(r) => k.status # "applied"
            PROVE  /\ r.id \in call[c].ids /\ r.id \notin done
                   /\ HasEntity(r) => Effective(r.id)
                   /\ Undecided(r) => ~Effective(r.id)
                   /\ \E j \in receipts' : j.id = r.id
        <5>1. Barred(r.id)
          BY <4>3 DEF Barred
        <5> QED BY <1>4, <1>9, <3>2, <4>3, <5>1 DEF Receipts
      <4> QED BY <3>2, <4>1, <4>2, <4>3
    <3> QED BY <1>7, <3>1, <3>2
  <2>3. ASSUME NEW c \in Callers, NEW r \in reply'[c].results
        PROVE  /\ HasEntity(r) => Effective(r.id)'
               /\ Undecided(r) /\ r.status # "retryable" =>
                    ~Effective(r.id)' /\ \E k \in receipts' : k.id = r.id
               /\ r.status = "retryable" /\ Effective(r.id)' => r.id \in lost
    BY <1>8, <2>2, <2>3
  <2>4. EntityMeansApplied'
    BY <1>1, <1>3 DEF Replies, EntityMeansApplied
  <2> QED BY <1>1, <2>1, <2>2, <2>3, <2>4 DEF Replies, Barred, Effective, HasEntity, Undecided,
                                              Hopeless
<1>15. ASSUME NEW c \in Callers PROVE LatestOf(c)'
  <2>1. SUFFICES ASSUME Busy(c) PROVE LatestOf(c)'
    BY <1>1 DEF LatestOf, Busy
  <2>2. LatestOf(c)
    BY DEF Latest
  <2>3. \A id \in call[c].ids : id \in q.ids =>
            /\ q.seen = call[c].seen
            /\ id \in lost \/ (q.post = call[c].post /\ call[c].pc = "wait" /\ q.from = c)
    BY <1>1, <2>1, <2>2 DEF LatestOf, Posts
  <2>4. ASSUME NEW a \in applied', a.id \in call[c].ids
        PROVE  /\ a.epoch = call[c].seen.epoch
               /\ a.id.intent \in todo => a.id \in lost \/ reply'[c].kind = "results"
    <3>1. CASE a \in applied
      <4>1. reply[c].kind = "results" => reply'[c].kind = "results"
        BY <1>7
      <4> QED BY <2>1, <2>2, <2>4, <3>1, <4>1 DEF LatestOf
    <3>2. CASE a \in Effects(q, done)
      <4>1. a.id \in q.ids /\ a.epoch = epoch
        BY <1>4, <1>6, <3>2
      <4> QED BY <1>1, <1>7, <2>3, <2>4, <4>1
    <3> QED BY <1>3, <2>4, <3>1, <3>2
  <2> QED BY <1>1, <1>7, <2>1, <2>2, <2>4 DEF LatestOf, Mine
<1>16. ASSUME NEW id \in Id, NEW e \in Nat, e <= epoch, Over(id, e)
       PROVE  /\ \A p \in net' : id \in p.ids => p.seen.epoch < e \/ \E r \in receipts' : r.id = id
              /\ \A a \in applied' : a.id = id => a.epoch < e /\ id \in lost'
  BY <1>1, <1>2, <1>16, AppliesOver
<1>17. /\ \A c \in Callers : call[c].seen.epoch \in Nat /\ call[c].seen.epoch <= epoch
       /\ \A p \in net : p.seen.epoch \in Nat /\ p.seen.epoch <= epoch
       /\ \A a \in applied : a.epoch \in Nat /\ a.epoch <= epoch
  <2>1. (\A c \in Callers : call[c].seen \in Snapshot) /\ (\A p \in net : p.seen \in Snapshot)
        /\ \A a \in applied : a.epoch \in Nat
    BY FieldTypes
  <2>2. (\A c \in Callers : call[c].seen.epoch \in Nat) /\ \A p \in net : p.seen.epoch \in Nat
    BY <2>1, NumberTypes
  <2> QED BY <2>1, <2>2 DEF Snapshots, Faithful, Receipts
<1>18. Ordered'
  <2>1. ASSUME NEW id \in Id, NEW a \in applied', Earlier(id, a.id)
        PROVE  a.epoch \in Nat /\ a.epoch <= epoch /\ Over(id, a.epoch)
    <3>1. CASE a \in applied
      BY <1>17, <2>1, <3>1 DEF Ordered
    <3>2. CASE a \in Effects(q, done)
      <4>1. a.id \in q.ids /\ a.epoch = epoch
        BY <1>4, <1>6, <3>2
      <4> QED BY <1>1, <1>5, <2>1, <4>1 DEF Ordered
    <3> QED BY <1>3, <2>1, <3>1, <3>2
  <2>2. ASSUME NEW c \in Callers PROVE InTurn(c)'
    <3>1. InTurn(c)
      BY DEF Ordered
    <3>2. ASSUME Busy(c), NEW id \in Id, NEW new \in call[c].ids, Earlier(id, new)
          PROVE  Over(id, call[c].seen.epoch)
      BY <3>1, <3>2 DEF InTurn
    <3>3. ASSUME Free(c), NEW id \in Id, id.intent \in Mine(c)
          PROVE  Over(id, IF call[c].pc = "build" THEN call[c].seen.epoch ELSE epoch)
      BY <3>1, <3>3 DEF InTurn
    <3>4. epoch <= epoch
      BY <1>5
    <3> QED BY <1>1, <1>5, <1>16, <1>17, <3>2, <3>3, <3>4
            DEF InTurn, Busy, Free, Mine, Over, Barred, Earlier
  <2>3. \A id \in Id, p \in net' : \A new \in p.ids : Earlier(id, new) => Over(id, p.seen.epoch)
    BY <1>7 DEF Ordered
  <2>4. (\A id \in Id, a \in applied : Earlier(id, a.id) => Over(id, a.epoch))'
    BY <1>1, <1>16, <2>1 DEF Over, Barred, Earlier
  <2>5. (\A id \in Id, p \in net : \A new \in p.ids :
            Earlier(id, new) => Over(id, p.seen.epoch))'
    BY <1>1, <1>7, <1>16, <1>17, <2>3 DEF Over, Barred, Earlier
  <2> QED BY <2>2, <2>4, <2>5 DEF Ordered
<1>19. Attempts'
  BY <1>1 DEF Attempts, Attempt
<1> QED BY <1>10, <1>11, <1>12, <1>13, <1>14, <1>15, <1>18, <1>19 DEF Latest
-------------------------------------------------------------------------------
LEMMA Inductive == IInv /\ [Next]_vars => IInv'
<1> SUFFICES ASSUME IInv, [Next]_vars PROVE IInv'
  OBVIOUS
<1>1. CASE UNCHANGED vars
  <2>1. /\ UNCHANGED <<epoch, version, content, receipts, applied>>
        /\ UNCHANGED <<net, reply, call, minted, todo, won, lost, faults>>
    BY <1>1 DEF vars, store
  <2>2. TypeOK' /\ Snapshots'
    BY <2>1 DEF IInv, TypeOK, Snapshots, Faithful, AppliedAsSeen
  <2>3. Receipts' /\ Replies'
    BY <2>1 DEF IInv, Receipts, Effective, Barred, Replies, EntityMeansApplied, HasEntity,
                Undecided, Hopeless
  <2>4. Posts' /\ Attempts'
    BY <2>1 DEF IInv, Posts, Attempts, Attempt
  <2>5. Latest'
    BY <2>1 DEF IInv, Latest, LatestOf, Busy, Mine
  <2>6. Ordered'
    BY <2>1 DEF IInv, Ordered, InTurn, Over, Barred, Earlier, Busy, Free, Mine
  <2> QED BY <2>2, <2>3, <2>4, <2>5, <2>6 DEF IInv
<1>2. CASE \E c \in Callers : Client(c)
  BY <1>2, BeginInv, ReadSnapshotInv, BuildAndPostInv, ResendInv, ReceiveResultsInv,
     ReceiveStaleInv, ReceiveRefusedInv, LoseAnswerInv DEF Client
<1>3. CASE \E q \in net : Store(q)
  BY <1>3, StoreAppliesInv, StoreIsElsewhereInv, StoreRefusesInv DEF Store
<1>4. CASE MoveEpoch
  BY <1>4, MoveEpochInv
<1> QED BY <1>1, <1>2, <1>3, <1>4 DEF Next

LEMMA Invariance == Spec => []IInv
<1> QED BY InitInv, Inductive, PTL DEF Spec

(* Types are right in every reachable state.                               *)
THEOREM TypeCorrect == Spec => []TypeOK
<1>1. IInv => TypeOK
  BY DEF IInv
<1> QED BY <1>1, Invariance, PTL

(* An update takes effect only on the content its builder was shown        *)
(* (Client.Retry, which reads a snapshot for every attempt).               *)
THEOREM AppliedAsSeenCorrect == Spec => []AppliedAsSeen
<1>1. IInv => AppliedAsSeen
  BY DEF IInv, Snapshots
<1> QED BY <1>1, Invariance, PTL

(* Nothing takes effect twice within one epoch, and across epochs only     *)
(* after a lost answer (Client.Retry on CodeEpochMismatch, NewMutationID). *)
THEOREM AppliedOnceCorrect == Spec => []AppliedOncePerEpoch
<1>1. IInv => AppliedOncePerEpoch
  <2> SUFFICES ASSUME IInv, NEW a \in applied, NEW b \in applied,
                      a.id.intent = b.id.intent, a # b
               PROVE  a.epoch # b.epoch /\ (a.epoch < b.epoch => a.id \in lost)
    BY DEF AppliedOncePerEpoch
  <2>1. a.id \in Id /\ b.id \in Id /\ a.epoch \in Nat /\ b.epoch \in Nat
    BY FieldTypes DEF IInv
  <2>2. a.id # b.id
    BY DEF IInv, Receipts
  <2>3. Earlier(a.id, b.id) \/ Earlier(b.id, a.id)
    BY <2>1, <2>2 DEF Id, Earlier
  <2>4. CASE Earlier(a.id, b.id)
    BY <2>1, <2>4 DEF IInv, Ordered, Over
  <2>5. CASE Earlier(b.id, a.id)
    BY <2>1, <2>5 DEF IInv, Ordered, Over
  <2> QED BY <2>3, <2>4, <2>5
<1> QED BY <1>1, Invariance, PTL

(* An entity comes only from a mutation that took effect (Results.Applied). *)
THEOREM EntityCorrect == Spec => []EntityMeansApplied
<1>1. IInv => EntityMeansApplied
  BY DEF IInv, Replies
<1> QED BY <1>1, Invariance, PTL

(* Retry hides a single import: it returns a mismatch only after two       *)
(* (Client.Retry, exactly two attempts).                                   *)
THEOREM MismatchCorrect == Spec => []MismatchMeansMovedTwice
<1>1. IInv => MismatchMeansMovedTwice
  BY DEF IInv, Attempts, Attempt, MismatchMeansMovedTwice
<1> QED BY <1>1, Invariance, PTL
================================================================================
