---------------------------- MODULE SignedPrekeys ----------------------------
(***************************************************************************)
(* The signed prekeys of one account: its client (the owner) rotates them, *)
(* the relay keeps the two newest and hands out the newest, and a first    *)
(* message names one of them, so that the owner has to keep the private    *)
(* key for as long as that message may still come.                         *)
(*                                                                         *)
(* A key is its identifier together with a number that tells apart two     *)
(* keys generated for the same identifier.  Every change of the owner's    *)
(* keys is saved before it is used, so a restart only loses the            *)
(* connection; restoring a backup takes the owner back to an earlier set   *)
(* of keys.  Time counts units of which the rotation period and the queue  *)
(* retention are multiples.                                                *)
(***************************************************************************)
EXTENDS Integers, Sequences, FiniteSets, Functions, FiniteSetsExt

CONSTANTS
  NoKey,         \* no key
  MaxId,         \* largest identifier (u32::MAX)
  Period,        \* SIGNED_PREKEY_ROTATION_SECS
  History,       \* SIGNED_PREKEY_PRIVATE_HISTORY
  Reservation,   \* ONE_TIME_PREKEY_RESERVATION_SECS
  Retention,     \* GC_MAX_AGE_DAYS
  MaxTime,       \* bound: the last unit of time
  MaxDrops,      \* bound: connections the owner loses
  MaxRestores    \* bound: backups the owner restores

ASSUME SignedPrekeyAssumption ==
  /\ {MaxId, Period, History, Reservation, Retention, MaxTime, MaxDrops,
      MaxRestores} \subseteq Nat
  /\ 0 < MaxId /\ 0 < MaxTime
  /\ 3 <= History /\ Retention <= Period
  /\ NoKey \notin [id : Nat, gen : Nat]

VARIABLES
  spk,        \* stored_spk
  previous,   \* previous_spks, newest first
  nextId,     \* next_signed_prekey_id
  rotatedAt,  \* signed_prekey_rotated_at
  item,       \* the key of the SignedPreKeyRotation in the outbox, or NoKey
  made,       \* keys generated so far
  backup,     \* a copy of the owner's state
  online,     \* the owner's connection is authenticated
  authed,     \* the owner's application knows it (App.authenticated)
  up,         \* rotations on the owner's connection
  old,        \* rotations an abandoned connection still handles
  down,       \* events and answers on their way to the owner
  table,      \* signed_prekeys
  published,  \* every key the relay ever accepted (history)
  msg,        \* the way of one requester's first message
  now, drops, restores

owner == <<spk, previous, nextId, rotatedAt, item>>
net   == <<online, authed, up, old, down, drops>>
relay == <<table, published>>
vars  == <<owner, made, backup, net, relay, msg, now, restores>>

Key(id, gen) == [id |-> id, gen |-> gen]
Ids(S) == {k.id : k \in S}

\* The private keys the owner can still use.
Held == {spk} \cup Range(previous)

\* The row get_signed_prekey returns.
Current == CHOOSE k \in table : \A x \in table : x.id <= k.id

Authed == [type |-> "authed"]
Lost == [type |-> "lost"]
Rotated(k, accepted, known, current) ==
  [type |-> "rotated", key |-> k, accepted |-> accepted,
   previously_accepted |-> known, current |-> current]

-----------------------------------------------------------------------------
\* The owner has just registered with its first signed prekey.
Init ==
  /\ spk = Key(0, 0) /\ previous = <<>> /\ nextId = 1
  /\ rotatedAt = 1 /\ now = 1
  /\ item = NoKey /\ made = 1
  /\ backup = owner
  /\ online = FALSE /\ authed = FALSE /\ up = <<>> /\ old = <<>> /\ down = <<>>
  /\ table = {spk} /\ published = {spk}
  /\ msg = [st |-> "idle"]
  /\ drops = 0 /\ restores = 0

-----------------------------------------------------------------------------
(* The owner's connection *)

\* The handshake succeeds.  A connection it displaces still finishes the frame
\* it has read.
Connect ==
  /\ ~online
  /\ online' = TRUE
  /\ down' = Append(down, Authed)
  /\ \E n \in 0..Len(old) : n <= 1 /\ old' = SubSeq(old, 1, n)
  /\ UNCHANGED <<owner, made, backup, authed, up, drops, relay, msg, now, restores>>

\* The relay may still read what was sent on a connection that is gone.
Abandon ==
  /\ online' = FALSE
  /\ \E n \in 0..Len(up) : old' = old \o SubSeq(up, 1, n)
  /\ up' = <<>>

\* The connection breaks; the application still handles the answers that had
\* arrived, and then Disconnected.
Disconnect ==
  /\ online /\ Abandon
  /\ drops < MaxDrops /\ drops' = drops + 1
  /\ \E n \in 0..Len(down) : down' = Append(SubSeq(down, 1, n), Lost)
  /\ UNCHANGED <<owner, made, backup, authed, relay, msg, now, restores>>

\* The client dies and starts again with what it had saved.
Restart ==
  /\ online \/ down # <<>>
  /\ Abandon
  /\ drops < MaxDrops /\ drops' = drops + 1
  /\ down' = <<>> /\ authed' = FALSE
  /\ UNCHANGED <<owner, made, backup, relay, msg, now, restores>>

\* The owner copies its data directory ...
Backup ==
  /\ restores < MaxRestores /\ backup # owner
  /\ backup' = owner
  /\ UNCHANGED <<owner, made, net, relay, msg, now, restores>>

\* ... and comes back with the copy.  The first message is followed no further.
Restore ==
  /\ restores < MaxRestores /\ backup # owner
  /\ restores' = restores + 1
  /\ spk' = backup[1] /\ previous' = backup[2] /\ nextId' = backup[3]
  /\ rotatedAt' = backup[4] /\ item' = backup[5]
  /\ Abandon
  /\ down' = <<>> /\ authed' = FALSE
  /\ msg' = [st |-> "idle"]
  /\ UNCHANGED <<made, backup, drops, relay, now>>

-----------------------------------------------------------------------------
(* The owner's client *)

\* Mutant of Truncated: the history is one key shorter.
TruncatedShort(s) == SubSeq(s, 1, Min({Len(s), History - 1}))

Truncated(s) == SubSeq(s, 1, Min({Len(s), History}))

Emit(s) == up' = IF online THEN up \o s ELSE up

\* queue_signed_prekey_rotation: nothing while a rotation is pending or the key
\* is young; otherwise the new key and its rotation are saved together.  An
\* exhausted identifier is an error that leaves everything as it was.
RotationDue ==
  /\ item = NoKey
  /\ rotatedAt = 0 \/ now - rotatedAt >= Period
  /\ Max({nextId, spk.id + 1}) < MaxId

\* Mutant of Rotate: the next identifier is not advanced.
RotateSameNext ==
  /\ spk' = Key(nextId, made) /\ made' = made + 1
  /\ previous' = <<spk>> \o previous
  /\ rotatedAt' = now
  /\ item' = spk'
  /\ UNCHANGED nextId

Rotate ==
  LET id == Max({nextId, spk.id + 1}) IN
  /\ spk' = Key(id, made) /\ made' = made + 1
  /\ previous' = <<spk>> \o previous
  /\ nextId' = id + 1
  /\ rotatedAt' = now
  /\ item' = spk'

\* AppEvent::Authenticated: a due rotation is queued, then the outbox is sent.
HandleAuthed ==
  /\ down # <<>> /\ Head(down) = Authed
  /\ down' = Tail(down) /\ authed' = TRUE
  /\ IF RotationDue THEN Rotate ELSE UNCHANGED <<owner, made>>
  /\ Emit(IF item' = NoKey THEN <<>> ELSE <<item'>>)
  /\ UNCHANGED <<backup, online, old, drops, relay, msg, now, restores>>

\* AppEvent::Disconnected.
HandleLost ==
  /\ down # <<>> /\ Head(down) = Lost
  /\ down' = Tail(down) /\ authed' = FALSE
  /\ UNCHANGED <<owner, made, backup, online, up, old, drops, relay, msg, now, restores>>

\* handle_lifecycle_tick.
LifecycleTick ==
  /\ authed
  /\ RotationDue /\ Rotate
  /\ Emit(<<item'>>)
  /\ UNCHANGED <<backup, online, authed, old, down, drops, relay, msg, now, restores>>

Answered(k) == down # <<>> /\ Head(down).type = "rotated" /\ Head(down).key = k

\* The answer to a rotation that is no longer pending.
IgnoreAnswer ==
  /\ down # <<>> /\ Head(down).type = "rotated" /\ Head(down).key # item
  /\ down' = Tail(down)
  /\ UNCHANGED <<owner, made, backup, online, authed, up, old, drops, relay, msg, now, restores>>

\* confirm_accepted_signed_prekey_rotation: the keys beyond the history go.
ConfirmAccepted ==
  /\ Answered(item)
  /\ Head(down).accepted /\ Head(down).current = item.id
  /\ down' = Tail(down)
  /\ previous' = Truncated(previous)
  /\ item' = NoKey
  /\ UNCHANGED <<spk, nextId, rotatedAt, made, backup, online, authed, up, old, drops,
                 relay, msg, now, restores>>

\* The identifier of the key that replaces a refused one.
ReplacementId(current) == Max({nextId, previous[1].id + 1, current + 1})

\* Mutant of Reconcile: the refused key is dropped even if it was published.
ReconcileDropping ==
  /\ Answered(item)
  /\ ~(Head(down).accepted /\ Head(down).current = item.id)
  /\ down' = Tail(down)
  /\ LET id == ReplacementId(Head(down).current) IN
       IF previous = <<>> \/ id >= MaxId
         THEN UNCHANGED <<owner, made, up>>
         ELSE /\ spk' = Key(id, made) /\ made' = made + 1
              /\ previous' = Truncated(previous)
              /\ nextId' = id + 1
              /\ rotatedAt' = now
              /\ item' = spk'
              /\ Emit(<<item'>>)
  /\ UNCHANGED <<backup, online, authed, old, drops, relay, msg, now, restores>>

\* Mutant of Reconcile: a refusal is only logged.
ReconcileLogged ==
  /\ Answered(item)
  /\ ~(Head(down).accepted /\ Head(down).current = item.id)
  /\ down' = Tail(down)
  /\ UNCHANGED <<owner, made, backup, online, authed, up, old, drops, relay, msg, now,
                 restores>>

\* reconcile_rejected_signed_prekey_rotation: a new key takes the place of the
\* refused one, which is kept only if it had been published.
Reconcile ==
  /\ Answered(item)
  /\ ~(Head(down).accepted /\ Head(down).current = item.id)
  /\ down' = Tail(down)
  /\ LET id == ReplacementId(Head(down).current) IN
       IF previous = <<>> \/ id >= MaxId
         THEN UNCHANGED <<owner, made, up>>
         ELSE /\ spk' = Key(id, made) /\ made' = made + 1
              /\ previous' = Truncated(IF Head(down).previously_accepted
                                         THEN <<spk>> \o previous ELSE previous)
              /\ nextId' = id + 1
              /\ rotatedAt' = now
              /\ item' = spk'
              /\ Emit(<<item'>>)
  /\ UNCHANGED <<backup, online, authed, old, drops, relay, msg, now, restores>>

-----------------------------------------------------------------------------
(* The relay *)

\* Mutant of Insertable: an older key may be inserted.
InsertableAny(k) == k.id \notin Ids(table)

\* rotate_signed_prekey: a key is inserted if its identifier is above all.
Insertable(k) == k.id > Current.id

\* ... and the two newest rows are kept: those with at most one newer row.
Newest(S) ==
  {k \in S : \A x, y \in S : x.id > k.id /\ y.id > k.id => x = y}

Store(k) ==
  IF Insertable(k)
    THEN table' = Newest(table \cup {k}) /\ published' = published \cup {k}
    ELSE UNCHANGED relay

\* What store_signed_prekey_rotation answers: accepted, accepted before but no
\* longer the current key, or refused (an old identifier, or another key).
RotationAnswer(k) ==
  IF Insertable(k) THEN Rotated(k, TRUE, FALSE, k.id)
  ELSE IF k = Current THEN Rotated(k, TRUE, FALSE, Current.id)
  ELSE Rotated(k, FALSE, k \in table, Current.id)

\* handle_signed_prekey_rotation.
HandleRotation ==
  /\ online /\ up # <<>>
  /\ Store(Head(up))
  /\ down' = Append(down, RotationAnswer(Head(up)))
  /\ up' = Tail(up)
  /\ UNCHANGED <<owner, made, backup, online, authed, old, drops, msg, now, restores>>

\* ... for an abandoned connection: nobody hears the answer.
HandleOldRotation ==
  /\ old # <<>>
  /\ Store(Head(old))
  /\ old' = Tail(old)
  /\ UNCHANGED <<owner, made, backup, online, authed, up, down, drops, msg, now, restores>>

-----------------------------------------------------------------------------
(* A requester's first message *)

\* handle_fetch reads the signed prekey, and in another transaction takes a
\* one-time prekey or finds none.
Fetch ==
  /\ msg.st = "idle" /\ restores = 0
  /\ msg' = [st |-> "fetching", key |-> Current]
  /\ UNCHANGED <<owner, made, backup, net, relay, now, restores>>

Bundle ==
  /\ msg.st = "fetching"
  /\ \E otk \in BOOLEAN :
       msg' = [st |-> "holding", key |-> msg.key, otk |-> otk, until |-> now + Reservation]
  /\ UNCHANGED <<owner, made, backup, net, relay, now, restores>>

\* The first message is encrypted and saved in the requester's outbox, or the
\* session is given up because it is stale (expire_stale_prekey_session).
Encrypt ==
  /\ msg.st = "holding"
  /\ msg' = IF msg.until < now THEN [st |-> "idle"]
            ELSE [st |-> "sending", key |-> msg.key, otk |-> msg.otk, until |-> msg.until]
  /\ UNCHANGED <<owner, made, backup, net, relay, now, restores>>

\* claim_prekey_reservation: the relay still lists the signed prekey (by its
\* identifier) and the one-time prekey, if there is one, is still reserved.
Admissible(m) == m.key.id \in Ids(table) /\ (m.otk => now <= m.until)

\* The requester's outbox gets through, however late; a refused message takes
\* the session with it.
Admit ==
  /\ msg.st = "sending"
  /\ msg' = IF Admissible(msg) THEN [st |-> "queued", key |-> msg.key, at |-> now]
            ELSE [st |-> "idle"]
  /\ UNCHANGED <<owner, made, backup, net, relay, now, restores>>

\* create_bob_session looks the key up by its identifier; with another key, or
\* none, the message does not open and stays in the queue.
Lookup(id) ==
  LET keys == SelectSeq(<<spk>> \o previous, LAMBDA k : k.id = id)
  IN IF keys = <<>> THEN NoKey ELSE keys[1]

Open ==
  /\ authed /\ msg.st = "queued"
  /\ Lookup(msg.key.id) = msg.key
  /\ msg' = [st |-> "opened"]
  /\ UNCHANGED <<owner, made, backup, net, relay, now, restores>>

\* Time passes; the relay's hourly collection removes an old message.
NextTime ==
  /\ now < MaxTime
  /\ now' = now + 1
  /\ msg' = IF msg.st = "queued" /\ msg.at < now' - Retention THEN [st |-> "expired"] ELSE msg
  /\ UNCHANGED <<owner, made, backup, net, relay, restores>>

-----------------------------------------------------------------------------
OwnerStep == HandleAuthed \/ HandleLost \/ IgnoreAnswer \/ ConfirmAccepted \/ Reconcile

Next ==
  \/ Connect \/ Disconnect \/ Restart \/ Backup \/ Restore
  \/ OwnerStep \/ LifecycleTick
  \/ HandleRotation \/ HandleOldRotation
  \/ Fetch \/ Bundle \/ Encrypt \/ Admit \/ Open
  \/ NextTime

Spec == Init /\ [][Next]_vars

\* The client reconnects for ever, its event loop and the relay's connection
\* task keep running.
FairSpec == Spec /\ WF_vars(Connect) /\ WF_vars(OwnerStep) /\ WF_vars(HandleRotation)

-----------------------------------------------------------------------------
Keys == [id : 0..MaxId, gen : 0..(made - 1)]

Events == {Authed, Lost} \cup
  [type : {"rotated"}, key : Keys, accepted : BOOLEAN,
   previously_accepted : BOOLEAN, current : 0..MaxId]

Messages ==
  [st : {"idle", "opened", "expired"}]
    \cup [st : {"fetching"}, key : Keys]
    \cup [st : {"holding", "sending"}, key : Keys, otk : BOOLEAN, until : Nat]
    \cup [st : {"queued"}, key : Keys, at : 1..now]

\* Types and bounds: the private history (previous_spks) is at most one key
\* longer than SIGNED_PREKEY_PRIVATE_HISTORY, while a rotation is pending.
TypeOK ==
  /\ made \in Nat /\ now \in 1..MaxTime
  /\ spk \in Keys /\ item \in {NoKey, spk}
  /\ previous \in Seq(Keys)
  /\ Len(previous) <= History + (IF item = NoKey THEN 0 ELSE 1)
  /\ nextId \in 1..MaxId /\ spk.id < nextId
  /\ rotatedAt \in 1..now
  /\ online \in BOOLEAN /\ authed \in BOOLEAN
  /\ up \in Seq(Keys) /\ old \in Seq(Keys) /\ down \in Seq(Events)
  /\ table \subseteq published /\ published \subseteq Keys
  /\ \E j, k \in table : table = {j, k}
  /\ msg \in Messages
  /\ drops \in 0..MaxDrops /\ restores \in 0..MaxRestores

\* An owner that never restored a backup holds the private key of every key
\* the relay lists, and of every first message in its queue that is younger
\* than GC_MAX_AGE_DAYS: truncating previous_spks to
\* SIGNED_PREKEY_PRIVATE_HISTORY never outruns the queue, however late a
\* message or a rotation gets through.
AcceptedCanBeOpened ==
  restores = 0 =>
    /\ table \subseteq Held
    /\ msg.st = "queued" /\ now - msg.at < Retention => msg.key \in Held

\* The lookup by identifier in create_bob_session is unambiguous: no two
\* private keys of the owner have the same identifier, whatever was refused,
\* replaced or restored.
HeldIdsUnique ==
  \A i, j \in 1..(Len(previous) + 1) :
    (<<spk>> \o previous)[i].id = (<<spk>> \o previous)[j].id => i = j

\* The relay never lists two different keys under one identifier, also not
\* one after the other: late copies of a rotation and rotations of an owner
\* that lost its newest keys are refused (rotate_signed_prekey).
PublishedOncePerId ==
  \A j, k \in published : j.id = k.id => j = k

\* No step but restoring a backup discards the private key of a key the relay
\* lists: the refused candidate of reconcile_rejected_signed_prekey_rotation
\* is kept when it had been published, and truncation drops older keys.
ListedNotDiscarded ==
  [][restores' = restores => Held \cap table \subseteq Held']_vars

\* Every key a rotation puts in the outbox leaves it: it is accepted, or a
\* replacement is, unless the identifiers are used up.
RotationSettles ==
  item # NoKey ~> item = NoKey \/ nextId >= MaxId
=============================================================================
