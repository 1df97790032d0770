------------------------------- MODULE Prekeys -------------------------------
(***************************************************************************)
(* The life of the one-time prekeys of one account: generated and uploaded *)
(* by its client (the owner), handed out once by the relay with a          *)
(* reservation for the requester, claimed by the requester's first message *)
(* and used by the owner when it opens that message.                       *)
(*                                                                         *)
(* Time counts days; a day passes only after the relay's hourly garbage    *)
(* collection.  A step is one database transaction with the code up to the *)
(* next one.  The delivery of a first message, once admitted, is the       *)
(* subject of Delivery and a single step here.                             *)
(***************************************************************************)
EXTENDS Integers, Sequences, FiniteSets, Outboxes

CONSTANTS
  Requesters,         \* accounts that start a conversation with the owner
  NoKey,              \* a bundle without a one-time prekey
  MaxKey,             \* largest identifier (u32::MAX)
  Batch,              \* PREKEY_TARGET
  MaxInventory,       \* MAX_PREKEYS_PER_USER
  LowThreshold,       \* PREKEY_LOW_THRESHOLD
  PerRequester,       \* FETCHES_PER_REQUESTER in one window
  PerTarget,          \* FETCHES_PER_TARGET in one window
  PublicRetention,    \* ONE_TIME_PREKEY_PUBLIC_RETENTION_SECS
  PrivateRetention,   \* ONE_TIME_PREKEY_PRIVATE_RETENTION_SECS
  Reservation,        \* ONE_TIME_PREKEY_RESERVATION_SECS
  QueueRetention,     \* GC_MAX_AGE_DAYS
  MaxTime,            \* bound: days
  MaxDrops,           \* bound: connections the owner loses
  MaxLows             \* bound: PreKeyLow notices, and uploads, on their way

Keys == 1..MaxKey
Absent == -1

\* How long after its generation a key may be uploaded so that its private key
\* outlives every first message that can use it.
Slack == PrivateRetention - (PublicRetention + Reservation + QueueRetention)

ASSUME PrekeyAssumption ==
  /\ {MaxKey, Batch, MaxInventory, LowThreshold, PerRequester, PerTarget,
      PublicRetention, PrivateRetention, Reservation, QueueRetention, MaxTime,
      MaxDrops, MaxLows} \subseteq Nat
  /\ NoKey \notin Keys
  /\ 0 < Batch /\ LowThreshold <= Batch /\ Batch + LowThreshold <= MaxInventory
  /\ Batch < MaxKey
  /\ Slack >= 0

VARIABLES
  priv,      \* the owner's stored_opks: creation day, or Absent
  nextId,    \* the owner's next_one_time_prekey_id
  outbox,    \* PreKeyUpload items of the owner's outbox (their first key)
  online,    \* the owner is connected
  greeted,   \* ... and was told the state of its inventory
  up,        \* uploads on the owner's connection
  reply,     \* the answer the relay's handler is about to send
  old,       \* uploads an abandoned connection still handles
  down,      \* answers and notices on their way to the owner
  pub,       \* prekeys table: creation day, or Absent
  highWater, \* prekey_inventory.high_water
  reserved,  \* prekey_reservations
  fetches,   \* prekey_fetch_events of each requester in the current window
  session,   \* each requester's way to its first message
  queue,     \* admitted first messages
  handed,    \* how often each key was handed out (history)
  late,      \* keys uploaded later than their retention allows (history)
  refused,   \* uploads refused before they were stored (history)
  now, drops

owner == <<priv, nextId, outbox>>
relay == <<pub, highWater, reserved, fetches>>
net   == <<online, greeted, up, reply, old, down, drops>>
ghost == <<handed, late, refused>>
vars  == <<owner, net, relay, session, queue, ghost, now>>

\* An upload is named by its first key.
KeysOf(u) == u..(u + Batch - 1)
MaxId(u)  == u + Batch - 1

Authed      == [type |-> "authed"]
Low         == [type |-> "low"]
Uploaded(u, ok, n) == [type |-> "uploaded", first |-> u, accepted |-> ok, remaining |-> n]

Idle        == [st |-> "idle"]
Asked(k)    == [st |-> "asked", key |-> k]
Counted(k, low) == [st |-> "counted", key |-> k, low |-> low]
Holding(k, t) == [st |-> "holding", key |-> k, until |-> t]
Sending(k)  == [st |-> "sending", key |-> k]
Admitted    == [st |-> "admitted"]

Lows == Cardinality({i \in DOMAIN down : down[i] = Low})

-----------------------------------------------------------------------------
\* The owner has just registered with its first batch.
Init ==
  /\ priv = [k \in Keys |-> IF k <= Batch THEN 0 ELSE Absent]
  /\ pub = priv
  /\ nextId = Batch + 1
  /\ highWater = Batch
  /\ outbox = <<>>
  /\ online = FALSE /\ greeted = FALSE
  /\ up = <<>> /\ reply = <<>> /\ old = <<>> /\ down = <<>>
  /\ reserved = {}
  /\ fetches = [r \in Requesters |-> 0]
  /\ session = [r \in Requesters |-> Idle]
  /\ queue = {}
  /\ handed = [k \in Keys |-> 0]
  /\ late = {} /\ refused = {}
  /\ now = 0 /\ drops = 0

-----------------------------------------------------------------------------
(* The owner's connection *)

\* The handshake succeeds.  A connection it displaces still finishes the frame
\* it has read.
Connect ==
  /\ ~online
  /\ online' = TRUE /\ greeted' = FALSE
  /\ down' = Append(down, Authed)
  /\ \E n \in 0..Len(old) : n <= 1 /\ old' = SubSeq(old, 1, n)
  /\ UNCHANGED <<owner, up, reply, drops, relay, session, queue, ghost, now>>

\* The owner leaves its connection; the relay still reads some of the frames.
Abandon ==
  /\ online
  /\ online' = FALSE /\ greeted' = FALSE
  /\ \E n \in 0..Len(up) : old' = old \o SubSeq(up, 1, n)
  /\ up' = <<>> /\ reply' = <<>>

\* The connection breaks, or the client dies: the application still handles
\* the answers that had arrived.
Disconnect ==
  /\ drops < MaxDrops /\ drops' = drops + 1
  /\ Abandon
  /\ \E n \in 0..Len(down) : down' = SubSeq(down, 1, n)
  /\ UNCHANGED <<owner, relay, session, queue, ghost, now>>

\* Rows younger than the public retention; the others are never handed out.
Fresh == {k \in Keys : pub[k] # Absent /\ pub[k] >= now - PublicRetention}
Remaining == Cardinality(Fresh)

\* deliver_prekey_status, after authentication.
Greet ==
  /\ online /\ ~greeted
  /\ greeted' = TRUE
  /\ down' = IF Remaining < LowThreshold THEN Append(down, Low) ELSE down
  /\ UNCHANGED <<owner, online, up, reply, old, drops, relay, session, queue, ghost, now>>

-----------------------------------------------------------------------------
(* The owner's client *)

\* Keys whose private part the owner has.
Held == {k \in Keys : priv[k] # Absent}

Emit(s) == up' = IF online THEN up \o s ELSE up

\* Mutant of Generated: private keys go on the last day of their retention.
GeneratedPruningEarly(u) ==
  [k \in Keys |-> IF k \in KeysOf(u) THEN now
                  ELSE IF priv[k] <= now - PrivateRetention THEN Absent ELSE priv[k]]

\* Private keys that are past their retention go when new ones are made.
Generated(u) ==
  [k \in Keys |-> IF k \in KeysOf(u) THEN now
                  ELSE IF priv[k] < now - PrivateRetention THEN Absent ELSE priv[k]]

\* generate_one_time_prekeys refuses a range whose end overflows.
Exhausted == nextId + Batch > MaxKey

\* Mutant of Replenish: the next batch starts at the last key of this one.
ReplenishOverlapping(s) ==
  IF s # <<>>
    THEN outbox' = s /\ Emit(<<Head(s)>>) /\ UNCHANGED <<priv, nextId>>
    ELSE IF Exhausted
      THEN UNCHANGED <<owner, up>>
      ELSE /\ outbox' = <<nextId>>
           /\ nextId' = MaxId(nextId)
           /\ priv' = Generated(nextId)
           /\ Emit(<<nextId>>)

\* Mutant of Replenish: the identifiers are not checked.
ReplenishUnbounded(s) ==
  IF s # <<>>
    THEN outbox' = s /\ Emit(<<Head(s)>>) /\ UNCHANGED <<priv, nextId>>
    ELSE /\ outbox' = <<nextId>>
         /\ nextId' = nextId + Batch
         /\ priv' = Generated(nextId)
         /\ Emit(<<nextId>>)

\* queue_prekey_replenishment on an outbox s: a pending upload is sent again;
\* otherwise a new batch is generated and saved with its upload, unless the
\* identifiers are exhausted.
Replenish(s) ==
  IF s # <<>>
    THEN outbox' = s /\ Emit(<<Head(s)>>) /\ UNCHANGED <<priv, nextId>>
    ELSE IF Exhausted
      THEN UNCHANGED <<owner, up>>
      ELSE /\ outbox' = <<nextId>>
           /\ nextId' = nextId + Batch
           /\ priv' = Generated(nextId)
           /\ Emit(<<nextId>>)

\* Authenticated: the outbox is sent again.
HandleAuthed ==
  /\ down # <<>> /\ Head(down) = Authed
  /\ down' = Tail(down)
  /\ Emit(outbox)
  /\ UNCHANGED <<owner, online, greeted, reply, old, drops, relay, session, queue,
                 ghost, now>>

\* Mutant of HandleLow: a new upload is saved for the next connection only.
HandleLowUnsent ==
  /\ down # <<>> /\ Head(down) = Low
  /\ down' = Tail(down)
  /\ IF outbox # <<>> \/ Exhausted
       THEN UNCHANGED owner
       ELSE /\ outbox' = <<nextId>>
            /\ nextId' = nextId + Batch
            /\ priv' = Generated(nextId)
  /\ UNCHANGED <<online, greeted, up, reply, old, drops, relay, session, queue, ghost, now>>

\* PreKeyLow.
HandleLow ==
  /\ down # <<>> /\ Head(down) = Low
  /\ down' = Tail(down)
  /\ Replenish(outbox)
  /\ UNCHANGED <<online, greeted, reply, old, drops, relay, session, queue, ghost, now>>

Answered(accepted) ==
  /\ down # <<>> /\ Head(down).type = "uploaded"
  /\ Head(down).accepted = accepted

\* confirm_prekeys_uploaded, accepted: the upload leaves the outbox, and a low
\* inventory is replenished at once.
ConfirmAccepted ==
  /\ Answered(TRUE)
  /\ down' = Tail(down)
  /\ LET u    == Head(down).first
         rest == Without(outbox, u) IN
       IF u \notin Range(outbox)
         THEN UNCHANGED <<owner, up>>
         ELSE IF Head(down).remaining < Batch
           THEN Replenish(rest)
           ELSE outbox' = rest /\ UNCHANGED <<priv, nextId, up>>
  /\ UNCHANGED <<online, greeted, reply, old, drops, relay, session, queue, ghost, now>>

\* The same, when the client dies between saving the new upload and deleting
\* the old one: both are in the outbox after the restart.  Every time uses up a
\* batch of identifiers, so that it needs no bound of its own.
ConfirmInterrupted ==
  /\ Answered(TRUE)
  /\ outbox = <<Head(down).first>> /\ Head(down).remaining < Batch
  /\ ~Exhausted
  /\ outbox' = Append(outbox, nextId)
  /\ nextId' = nextId + Batch
  /\ priv' = Generated(nextId)
  /\ Abandon
  /\ down' = <<>>
  /\ UNCHANGED <<drops, relay, session, queue, ghost, now>>

\* ... and rejected: the private keys of the upload are dropped.
ConfirmRejected ==
  /\ Answered(FALSE)
  /\ down' = Tail(down)
  /\ LET u == Head(down).first IN
       IF u \in Range(outbox)
         THEN /\ outbox' = Without(outbox, u)
              /\ priv' = [k \in Keys |-> IF k \in KeysOf(u) THEN Absent ELSE priv[k]]
         ELSE UNCHANGED <<outbox, priv>>
  /\ UNCHANGED <<nextId, online, greeted, up, reply, old, drops, relay, session, queue,
                 ghost, now>>

\* decrypt_prekey_envelope: a first message is opened with the private key its
\* header names, which is used up; it then leaves the queue.  Without the key
\* the message stays.
Open(m) ==
  /\ online /\ m \in queue
  /\ m.key # NoKey => priv[m.key] # Absent
  /\ priv' = [k \in Keys |-> IF k = m.key THEN Absent ELSE priv[k]]
  /\ queue' = queue \ {m}
  /\ UNCHANGED <<nextId, outbox, net, relay, session, ghost, now>>

-----------------------------------------------------------------------------
(* The relay: uploads *)

\* Mutant of Verdict: a batch is known by the rows that are still there.
VerdictByRows(u) ==
  IF KeysOf(u) \subseteq Fresh THEN "known"
  ELSE IF Remaining + Batch > MaxInventory THEN "full"
  ELSE "new"

\* Mutant of Verdict: the inventory is checked before the high-water mark.
VerdictCountingFirst(u) ==
  IF Remaining + Batch > MaxInventory THEN "full"
  ELSE IF MaxId(u) <= highWater THEN "known"
  ELSE IF u <= highWater THEN "sequence"
  ELSE "new"

\* upload_prekeys: a batch stored before is accepted again without being
\* stored, whatever has become of its keys since.
Verdict(u) ==
  IF MaxId(u) <= highWater THEN "known"
  ELSE IF u <= highWater THEN "sequence"
  ELSE IF Remaining + Batch > MaxInventory THEN "full"
  ELSE "new"

Store(u) ==
  IF Verdict(u) = "new"
    THEN /\ pub' = [k \in Keys |-> IF k \in KeysOf(u) THEN now
                                   ELSE IF k \in Fresh THEN pub[k] ELSE Absent]
         /\ highWater' = MaxId(u)
         /\ late' = late \cup {k \in KeysOf(u) \cap Held : now - priv[k] > Slack}
         /\ UNCHANGED refused
    ELSE /\ refused' = IF Verdict(u) = "full" /\ u > highWater THEN refused \cup {u}
                                                               ELSE refused
         /\ UNCHANGED <<pub, highWater, late>>

\* What handle_upload answers; an error is only shown to the user.
Reply(u) ==
  CASE Verdict(u) = "known" -> <<Uploaded(u, TRUE, Remaining)>>
    [] Verdict(u) = "sequence" -> <<>>
    [] Verdict(u) = "full" -> <<Uploaded(u, FALSE, Remaining)>>
    [] Verdict(u) = "new" -> <<Uploaded(u, TRUE, Remaining + Batch)>>

HandleUpload ==
  /\ online /\ greeted /\ up # <<>> /\ reply = <<>>
  /\ Store(Head(up))
  /\ reply' = Reply(Head(up))
  /\ up' = Tail(up)
  /\ UNCHANGED <<owner, online, greeted, old, down, drops, reserved, fetches, session,
                 queue, handed, now>>

\* The handler returned; notices of other handlers may have overtaken it.
SendReply ==
  /\ reply # <<>>
  /\ down' = down \o reply
  /\ reply' = <<>>
  /\ UNCHANGED <<owner, online, greeted, up, old, drops, relay, session, queue,
                 ghost, now>>

\* ... for an abandoned connection: nobody hears the answer.
HandleOldUpload ==
  /\ old # <<>>
  /\ Store(Head(old))
  /\ old' = Tail(old)
  /\ UNCHANGED <<owner, online, greeted, up, reply, down, drops, reserved, fetches,
                 session, queue, handed, now>>

-----------------------------------------------------------------------------
(* The relay and a requester: from the bundle to the first message *)

Valid == {x \in reserved : x.until >= now}
FetchCount == FoldFunction(+, 0, fetches)

\* fetch_for_requester: a key is taken from the inventory and reserved; the
\* bundle has none when the inventory is empty or the target's limit reached.
\* A requester over its own limit is refused and nothing changes.
Fetch(r) ==
  /\ session[r] = Idle
  /\ fetches[r] < PerRequester
  /\ \/ /\ FetchCount >= PerTarget
        /\ session' = [session EXCEPT ![r] = Asked(NoKey)]
        /\ UNCHANGED <<relay, handed>>
     \/ /\ FetchCount < PerTarget /\ Fresh = {}
        /\ session' = [session EXCEPT ![r] = Asked(NoKey)]
        /\ reserved' = Valid
        /\ pub' = [k \in Keys |-> Absent]
        /\ UNCHANGED <<highWater, fetches, handed>>
     \/ /\ FetchCount < PerTarget
        /\ \E k \in Fresh :
             /\ session' = [session EXCEPT ![r] = Asked(k)]
             /\ pub' = [x \in Keys |-> IF x \in Fresh \ {k} THEN pub[x] ELSE Absent]
             /\ reserved' = Valid \cup {[by |-> r, key |-> k, until |-> now + Reservation]}
             /\ handed' = [handed EXCEPT ![k] = @ + 1]
        /\ fetches' = [fetches EXCEPT ![r] = @ + 1]
        /\ UNCHANGED highWater
  /\ UNCHANGED <<owner, net, queue, late, refused, now>>

\* The rest of handle_fetch: the inventory is counted ...
Count(r) ==
  /\ session[r].st = "asked"
  /\ session' = [session EXCEPT ![r] = Counted(@.key, Remaining < LowThreshold)]
  /\ UNCHANGED <<owner, net, relay, queue, ghost, now>>

\* ... the owner is notified (if its channel has room), and the bundle is
\* sent; it may not arrive.
Answer(r) ==
  /\ session[r].st = "counted"
  /\ \E notified \in BOOLEAN :
       down' = IF session[r].low /\ notified /\ online /\ Lows + Len(up) < MaxLows
                 THEN Append(down, Low) ELSE down
  /\ \E arrives \in BOOLEAN :
       session' = [session EXCEPT ![r] =
         IF arrives THEN Holding(@.key, now + Reservation) ELSE Idle]
  /\ UNCHANGED <<owner, online, greeted, up, reply, old, drops, relay, queue, ghost, now>>

\* The first message is encrypted, or the session is dropped because its keys
\* are no longer reserved (expire_stale_prekey_session).
Encrypt(r) ==
  /\ session[r].st = "holding"
  /\ session' = [session EXCEPT ![r] =
       IF session[r].until < now THEN Idle ELSE Sending(session[r].key)]
  /\ UNCHANGED <<owner, net, relay, queue, ghost, now>>

\* claim_prekey_reservation: the message is admitted when the relay still has
\* the reservation; otherwise it is rejected and the session dropped.
Admit(r) ==
  /\ session[r].st = "sending"
  /\ LET k     == session[r].key
         claim == {x \in Valid : x.by = r /\ x.key = k} IN
       IF k # NoKey /\ claim = {}
         THEN /\ session' = [session EXCEPT ![r] = Idle]
              /\ UNCHANGED <<reserved, queue>>
         ELSE /\ session' = [session EXCEPT ![r] = Admitted]
              /\ reserved' = Valid \ claim
              /\ queue' = queue \cup {[from |-> r, key |-> k, at |-> now]}
  /\ UNCHANGED <<owner, net, pub, highWater, fetches, ghost, now>>

-----------------------------------------------------------------------------
(* Time *)

\* The window of the fetch limits has passed.
NextWindow ==
  /\ fetches' = [r \in Requesters |-> 0]
  /\ UNCHANGED <<owner, net, pub, highWater, reserved, session, queue, ghost, now>>

\* A day passes; the hourly gc_old_messages removes what is too old.
NextDay ==
  /\ now < MaxTime
  /\ now' = now + 1
  /\ queue' = {m \in queue : m.at >= now' - QueueRetention}
  /\ fetches' = [r \in Requesters |-> 0]
  /\ UNCHANGED <<owner, net, pub, highWater, reserved, session, ghost>>

-----------------------------------------------------------------------------
OwnerStep == HandleAuthed \/ HandleLow \/ ConfirmAccepted \/ ConfirmRejected
RelayStep == Greet \/ HandleUpload \/ SendReply \/ HandleOldUpload

Next ==
  \/ Connect \/ Disconnect \/ ConfirmInterrupted
  \/ OwnerStep \/ RelayStep
  \/ \E m \in queue : Open(m)
  \/ \E r \in Requesters : Fetch(r) \/ Count(r) \/ Answer(r) \/ Encrypt(r) \/ Admit(r)
  \/ NextWindow \/ NextDay

Spec == Init /\ [][Next]_vars

\* The owner's event loop and the relay's connection tasks keep running.
FairSpec == Spec /\ WF_vars(OwnerStep) /\ WF_vars(RelayStep)

-----------------------------------------------------------------------------
(* Properties *)

Days == {Absent} \cup 0..MaxTime

\* Every variable has its type.  In particular an upload is a whole batch of
\* identifiers within the 32-bit range (generate_one_time_prekeys).
TypeOK ==
  /\ priv \in [Keys -> Days] /\ pub \in [Keys -> Days]
  /\ nextId \in Keys /\ highWater \in 0..MaxKey
  /\ \A u \in Range(outbox) \cup Range(up) \cup Range(old) :
       u \in Keys /\ MaxId(u) \in Keys
  /\ online \in BOOLEAN /\ greeted \in BOOLEAN
  /\ \A e \in Range(down) \cup Range(reply) : e \notin {Authed, Low} =>
       e.type = "uploaded" /\ e.first \in Keys /\ e.accepted \in BOOLEAN
  /\ \A x \in reserved : x \in [by : Requesters, key : Keys, until : Nat]
  /\ fetches \in [Requesters -> 0..PerRequester]
  /\ \A r \in Requesters :
       session[r].st \in {"idle", "asked", "counted", "holding", "sending", "admitted"}
  /\ \A m \in queue : m \in [from : Requesters, key : Keys \cup {NoKey}, at : Nat]
  /\ handed \in [Keys -> Nat] /\ late \subseteq Keys /\ refused \subseteq Keys
  /\ now \in 0..MaxTime /\ drops \in 0..MaxDrops

\* No one-time prekey is handed out twice, however often its upload is
\* repeated after the key was taken (high_water).
HandedOutOnce == \A k \in Keys : handed[k] <= 1

\* Keys the owner may lack: their upload was delayed beyond the slack that the
\* retention periods leave, or a copy of it was refused before another one
\* was stored.
Excused == late \cup UNION {KeysOf(u) : u \in refused}

\* The owner can use every key the relay may still hand out: what a retried
\* upload is answered agrees with what the first attempt stored, and
\* keys are pruned only when they are no longer offered.
OfferedAreHeld == Fresh \subseteq Held \cup Excused

\* The private key of an admitted first message is kept for as long as the
\* message may be queued: the private retention covers the offer, the
\* reservation and the queue.
AdmittedCanBeOpened ==
  \A m \in queue : m.key \in Held \cup Excused \cup {NoKey}

\* "rejected_prekey_upload_discards_unpublished_private_keys"
\* (crypto_mgr_tests.rs): the keys a rejected upload makes the owner discard
\* are not offered by the relay.
DiscardedAreUnpublished ==
  \A u \in refused : Fresh \cap KeysOf(u) \subseteq Held

\* No upload of the outbox straddles the high-water mark: the relay would
\* answer every attempt with an error, the upload would stay pending, and
\* a pending upload prevents new ones.
NoUploadStuck ==
  \A u \in Range(outbox) : MaxId(u) <= highWater \/ u > highWater

\* An owner that is told its inventory is low, and stays connected, has it
\* replenished (as long as there are identifiers), unless the notice finds
\* an upload pending that the relay has already stored: that one is only sent
\* again, and the next fetch or connection has to repeat the notice.
Replenished ==
  (online /\ Low \in Range(down) /\ \A u \in Range(outbox) : u > highWater) ~>
    (Remaining >= LowThreshold \/ ~online \/ Exhausted)
=============================================================================
