--------------------------- MODULE PrekeysSafety ---------------------------
(***************************************************************************)
(* Prekeys, for every value of its constants: no one-time prekey is handed *)
(* out twice, no upload gets stuck at the high-water mark, and the owner   *)
(* has the private key of everything that is offered or admitted.          *)
(***************************************************************************)
EXTENDS Prekeys, ChannelLemmas

\* The uploads that are saved or on their way.
Uploads == Range(outbox) \cup Range(up) \cup Range(old)

\* Types, as far as the argument needs them.
Types ==
  /\ outbox \in Seq(Nat) /\ up \in Seq(Nat) /\ old \in Seq(Nat)
  /\ nextId \in Nat /\ highWater \in Nat /\ now \in Nat
  /\ pub \in [Keys -> Int] /\ handed \in [Keys -> Nat]

\* A key above the high-water mark is new to the relay; one that it still
\* offers was not handed out; none was handed out twice.
Inventory ==
  /\ \A k \in Keys : k > highWater => pub[k] = Absent /\ handed[k] = 0
  /\ \A k \in Keys : pub[k] # Absent => handed[k] = 0
  /\ HandedOutOnce

\* Uploads do not overlap each other, the next batch or the high-water mark.
Aligned ==
  /\ \A u, v \in Uploads : u = v \/ u + Batch <= v \/ v + Batch <= u
  /\ \A u \in Uploads : u + Batch <= nextId
  /\ \A u \in Uploads : MaxId(u) <= highWater \/ u > highWater
  /\ highWater < nextId

\* The inductive invariant of the relay's inventory.
PInv == Types /\ Inventory /\ Aligned

-----------------------------------------------------------------------------
(* How long private keys are kept *)

KeyOrNone == Keys \cup {NoKey}

\* What an answer says is left of the inventory.
Counts == {Cardinality(S) : S \in SUBSET Keys} \cup
          {Cardinality(S) + Batch : S \in SUBSET Keys}

Notices == {Authed, Low} \cup
  [type : {"uploaded"}, first : Keys, accepted : BOOLEAN, remaining : Counts]

Sessions == {Idle, Admitted} \cup [st : {"asked", "sending"}, key : KeyOrNone]
  \cup [st : {"counted"}, key : KeyOrNone, low : BOOLEAN]
  \cup [st : {"holding"}, key : KeyOrNone, until : Nat]

\* The types of the variables that Types leaves out.
MoreTypes ==
  /\ priv \in [Keys -> Days] /\ pub \in [Keys -> Days]
  /\ nextId \in Keys /\ Uploads \subseteq Keys
  /\ online \in BOOLEAN /\ greeted \in BOOLEAN
  /\ down \in Seq(Notices) /\ reply \in Seq(Notices)
  /\ reserved \subseteq [by : Requesters, key : Keys, until : Nat]
  /\ fetches \in [Requesters -> 0..PerRequester]
  /\ session \in [Requesters -> Sessions]
  /\ queue \subseteq [from : Requesters, key : KeyOrNone, at : Nat]
  /\ late \subseteq Keys /\ refused \subseteq Keys
  /\ now \in 0..MaxTime /\ drops \in 0..MaxDrops

\* An upload answered with "accepted" was stored, one answered with "rejected"
\* was refused.
AnswersTrue ==
  \A e \in Range(down) \cup Range(reply) : e.type = "uploaded" =>
    IF e.accepted THEN MaxId(e.first) <= highWater ELSE e.first \in refused

\* An upload the relay may still store is in the outbox, with its private keys,
\* unless a copy of it was refused.
PendingHeld ==
  \A u \in Uploads : u > highWater /\ u \notin refused =>
    u \in Range(outbox) /\ KeysOf(u) \subseteq Held

\* The owner has the private key of k, generated at day t or later.
Kept(k, t) == k \in Excused \/ (priv[k] # Absent /\ priv[k] >= t)

\* How old a key may be when a message that uses it is admitted.
Age == Reservation + PublicRetention + Slack

\* Offered keys, reserved keys and keys of queued messages are young enough
\* not to be pruned before they can no longer be used.
OfferedKept  == \A k \in Fresh : Kept(k, pub[k] - Slack)
ReservedKept == \A x \in Valid : Kept(x.key, x.until - Age)
QueuedKept   == \A m \in queue : /\ m.at >= now - QueueRetention
                                 /\ m.key # NoKey => Kept(m.key, m.at - Age)

\* A key is in one reservation or in one message only, once it was handed out.
UsedOnce ==
  /\ \A x \in reserved : handed[x.key] = 1
  /\ \A m \in queue : m.key # NoKey => handed[m.key] = 1
  /\ \A x, y \in reserved : x.key = y.key => x = y
  /\ \A m, n \in queue : m.key = n.key /\ m.key # NoKey => m = n
  /\ \A x \in reserved, m \in queue : x.key # m.key

\* The inductive invariant of the owner's private keys.
RInv ==
  /\ MoreTypes /\ AnswersTrue /\ PendingHeld
  /\ OfferedKept /\ ReservedKept /\ QueuedKept /\ UsedOnce

-----------------------------------------------------------------------------
\* The states a requester's session goes through.
States == {"idle", "asked", "counted", "holding", "sending", "admitted"}

\* A session that waits for something names the key it is about.
LEMMA SessionShape ==
  ASSUME NEW s \in Sessions
  PROVE  s.st \in States /\ (s.st \notin {"idle", "admitted"} => s.key \in KeyOrNone)
<1>1. CASE s \in {Idle, Admitted}
  BY <1>1 DEF Idle, Admitted, States
<1>2. CASE s \in [st : {"asked", "sending"}, key : KeyOrNone]
  BY <1>2 DEF States
<1>3. CASE s \in [st : {"counted"}, key : KeyOrNone, low : BOOLEAN]
  BY <1>3 DEF States
<1>4. CASE s \in [st : {"holding"}, key : KeyOrNone, until : Nat]
  BY <1>4 DEF States
<1> QED BY <1>1, <1>2, <1>3, <1>4, Zenon DEF Sessions

\* Arithmetic of the constants.
LEMMA Constants == /\ Batch \in Nat /\ Batch > 0 /\ MaxKey \in Nat
                   /\ \A k \in Keys : k \in Nat /\ k # Absent
                   /\ Absent \in Int
  BY PrekeyAssumption DEF Keys, Absent

\* Init.
LEMMA InitPInv == Init => PInv
<1> SUFFICES ASSUME Init PROVE PInv
  OBVIOUS
<1>1. Uploads = {}
  BY RangeEmpty DEF Init, Uploads
<1>2. outbox \in Seq(Nat) /\ up \in Seq(Nat) /\ old \in Seq(Nat)
  BY DEF Init
<1>3. Types
  BY <1>2, Constants DEF Init, Types
<1>4. Inventory
  BY Constants DEF Init, Inventory, HandedOutOnce
<1>5. Aligned
  BY <1>1, Constants DEF Init, Aligned
<1> QED BY <1>3, <1>4, <1>5 DEF PInv

\* A step that leaves the relay's inventory alone and sends no new upload.
LEMMA NoNewUpload ==
  ASSUME PInv, UNCHANGED <<pub, highWater, handed, nextId>>, now' \in Nat,
         outbox' \in Seq(Nat), up' \in Seq(Nat), old' \in Seq(Nat),
         Uploads' \subseteq Uploads
  PROVE  PInv'
<1>1. Types'
  BY DEF PInv, Types
<1>2. Inventory'
  BY DEF PInv, Inventory, HandedOutOnce
<1>3. Aligned'
  BY DEF PInv, Aligned, MaxId
<1> QED BY <1>1, <1>2, <1>3 DEF PInv

\* A step that makes the next batch.
LEMMA NewBatch ==
  ASSUME PInv, UNCHANGED <<pub, highWater, handed, now>>, nextId' = nextId + Batch,
         outbox' \in Seq(Nat), up' \in Seq(Nat), old' \in Seq(Nat),
         Uploads' \subseteq Uploads \cup {nextId}
  PROVE  PInv'
<1>0. nextId \in Nat /\ highWater \in Nat /\ Uploads \subseteq Nat
  <2>1. Uploads \subseteq Nat
    BY RangeElem, Zenon DEF PInv, Types, Uploads
  <2> QED BY <2>1 DEF PInv, Types
<1>1. Types'
  BY <1>0, Constants DEF PInv, Types
<1>2. Inventory'
  BY DEF PInv, Inventory, HandedOutOnce
<1>3. Aligned'
  <2>1. ASSUME NEW u \in Uploads', NEW v \in Uploads'
        PROVE  u = v \/ u + Batch <= v \/ v + Batch <= u
    <3>1. CASE u \in Uploads /\ v \in Uploads
      BY <3>1 DEF PInv, Aligned
    <3>2. CASE u = nextId \/ v = nextId
      BY <3>2, <1>0 DEF PInv, Aligned
    <3> QED BY <3>1, <3>2
  <2>2. ASSUME NEW u \in Uploads'
        PROVE  /\ u + Batch <= nextId'
               /\ MaxId(u) <= highWater \/ u > highWater
    <3>1. CASE u \in Uploads
      <4>1. u + Batch <= nextId /\ (MaxId(u) <= highWater \/ u > highWater) /\ u \in Nat
        BY <3>1, <1>0 DEF PInv, Aligned
      <4> QED BY <4>1, <1>0, Constants
    <3>2. CASE u = nextId
      BY <3>2, <1>0, Constants DEF PInv, Aligned
    <3> QED BY <3>1, <3>2
  <2>3. highWater' < nextId'
    BY <1>0, Constants DEF PInv, Aligned
  <2> QED BY <2>1, <2>2, <2>3 DEF Aligned, MaxId
<1> QED BY <1>1, <1>2, <1>3 DEF PInv

\* Frames the owner sends are uploads it has.
LEMMA EmitRange ==
  ASSUME PInv, NEW s \in Seq(Nat), Emit(s)
  PROVE  up' \in Seq(Nat) /\ Range(up') \subseteq Range(up) \cup Range(s)
<1>1. up \in Seq(Nat)
  BY DEF PInv, Types
<1>2. up \o s \in Seq(Nat) /\ Range(up \o s) = Range(up) \cup Range(s)
  BY <1>1, RangeConcat
<1> QED BY <1>1, <1>2 DEF Emit

\* queue_prekey_replenishment sends a pending upload again or makes a batch.
LEMMA ReplenishStep ==
  ASSUME PInv, NEW s \in Seq(Nat), Range(s) \subseteq Range(outbox), Replenish(s),
         UNCHANGED <<pub, highWater, handed, now, old>>
  PROVE  PInv'
<1>0. outbox \in Seq(Nat) /\ old \in Seq(Nat) /\ up \in Seq(Nat) /\ nextId \in Nat
      /\ now \in Nat
  BY DEF PInv, Types
<1>1. CASE s # <<>>
  <2>1. outbox' = s /\ Emit(<<Head(s)>>) /\ nextId' = nextId
    BY <1>1 DEF Replenish
  <2>2. Head(s) \in Range(s) /\ Head(s) \in Nat
    BY <1>1, RangeTail, RangeElem
  <2>3. <<Head(s)>> \in Seq(Nat) /\ Range(<<Head(s)>>) = {Head(s)}
    BY <2>2, RangeSingle
  <2>4. up' \in Seq(Nat) /\ Range(up') \subseteq Range(up) \cup {Head(s)}
    BY <2>1, <2>3, EmitRange, Zenon
  <2>5. Uploads' \subseteq Uploads
    BY <2>1, <2>2, <2>4 DEF Uploads
  <2> QED BY <1>0, <2>1, <2>4, <2>5, NoNewUpload
<1>2. CASE s = <<>> /\ Exhausted
  <2>1. UNCHANGED <<outbox, nextId, up>>
    BY <1>2 DEF Replenish, owner
  <2>2. Uploads' \subseteq Uploads
    BY <2>1 DEF Uploads
  <2> QED BY <1>0, <2>1, <2>2, NoNewUpload
<1>3. CASE s = <<>> /\ ~Exhausted
  <2>1. outbox' = <<nextId>> /\ Emit(<<nextId>>) /\ nextId' = nextId + Batch
    BY <1>3 DEF Replenish
  <2>2. <<nextId>> \in Seq(Nat) /\ Range(<<nextId>>) = {nextId}
    BY <1>0, RangeSingle
  <2>3. up' \in Seq(Nat) /\ Range(up') \subseteq Range(up) \cup {nextId}
    BY <2>1, <2>2, EmitRange, Zenon
  <2>4. Uploads' \subseteq Uploads \cup {nextId}
    BY <2>1, <2>2, <2>3, Zenon DEF Uploads
  <2> QED BY <1>0, <2>1, <2>2, <2>3, <2>4, NewBatch
<1> QED BY <1>1, <1>2, <1>3

\* A batch is stored only above the high-water mark.
LEMMA NewIsAbove ==
  ASSUME PInv, NEW u \in Uploads, Verdict(u) = "new"
  PROVE  u > highWater
<1>0. u \in Nat /\ highWater \in Nat
  BY RangeElem, Zenon DEF PInv, Types, Uploads
<1>1. ~(u <= highWater)
  BY DEF Verdict
<1> QED BY <1>0, <1>1

\* upload_prekeys stores only keys above the high-water mark.
LEMMA StoreStep ==
  ASSUME PInv, NEW u \in Uploads, Store(u), UNCHANGED <<nextId, handed, now, outbox>>,
         up' \in Seq(Nat), old' \in Seq(Nat), Uploads' \subseteq Uploads
  PROVE  PInv'
<1>0. /\ Uploads \subseteq Nat /\ u \in Nat /\ highWater \in Nat /\ nextId \in Nat
      /\ now \in Nat /\ outbox \in Seq(Nat)
  <2>1. Uploads \subseteq Nat
    BY RangeElem, Zenon DEF PInv, Types, Uploads
  <2> QED BY <2>1 DEF PInv, Types
<1>1. CASE Verdict(u) = "new"
  <2>1. u > highWater
    BY <1>1, NewIsAbove, Zenon
  <2>2. /\ pub' = [k \in Keys |-> IF k \in KeysOf(u) THEN now
                                  ELSE IF k \in Fresh THEN pub[k] ELSE Absent]
        /\ highWater' = u + Batch - 1
    BY <1>1 DEF Store, MaxId
  <2>3. highWater' \in Nat /\ highWater' > highWater /\ \A k \in KeysOf(u) : k > highWater
    BY <1>0, <2>1, <2>2, Constants DEF KeysOf
  <2>4. Types'
    <3>1. pub' \in [Keys -> Int]
      BY <1>0, <2>2, Constants DEF PInv, Types
    <3> QED BY <1>0, <2>3, <3>1 DEF PInv, Types
  <2>5. Inventory'
    <3>1. ASSUME NEW k \in Keys, k > highWater' PROVE pub'[k] = Absent /\ handed'[k] = 0
      <4>1. k > highWater /\ k \notin KeysOf(u)
        BY <1>0, <2>2, <2>3, <3>1, Constants DEF KeysOf
      <4>2. pub[k] = Absent /\ handed[k] = 0
        BY <4>1 DEF PInv, Inventory
      <4> QED BY <2>2, <4>1, <4>2 DEF Fresh
    <3>2. ASSUME NEW k \in Keys, pub'[k] # Absent PROVE handed'[k] = 0
      <4>1. k \in KeysOf(u) \/ pub[k] # Absent
        BY <2>2, <3>2
      <4> QED BY <2>3, <4>1 DEF PInv, Inventory
    <3> QED BY <3>1, <3>2 DEF PInv, Inventory, HandedOutOnce
  <2>6. Aligned'
    <3>1. ASSUME NEW v \in Uploads' PROVE MaxId(v) <= highWater' \/ v > highWater'
      <4>1. v \in Uploads /\ v \in Nat /\ (u = v \/ u + Batch <= v \/ v + Batch <= u)
        BY <1>0 DEF PInv, Aligned
      <4> QED BY <1>0, <2>2, <4>1, Constants DEF MaxId
    <3>2. u + Batch <= nextId
      BY DEF PInv, Aligned
    <3>3. highWater' < nextId'
      BY <1>0, <2>2, <3>2, Constants
    <3> QED BY <3>1, <3>3 DEF PInv, Aligned, MaxId
  <2> QED BY <2>4, <2>5, <2>6 DEF PInv
<1>2. CASE Verdict(u) # "new"
  BY <1>0, <1>2, NoNewUpload DEF Store
<1> QED BY <1>1, <1>2

\* What an abandoned connection still handles was on it.
LEMMA AbandonRange ==
  ASSUME PInv, Abandon
  PROVE  /\ old' \in Seq(Nat) /\ up' \in Seq(Nat)
         /\ Range(old') \cup Range(up') \subseteq Range(old) \cup Range(up)
<1>0. old \in Seq(Nat) /\ up \in Seq(Nat)
  BY DEF PInv, Types
<1>1. PICK n \in 0..Len(up) : old' = old \o SubSeq(up, 1, n)
  BY Zenon DEF Abandon
<1> DEFINE read == SubSeq(up, 1, n)
<1>2. read \in Seq(Nat) /\ Range(read) \subseteq Range(up) /\ old' = old \o read
  BY <1>0, <1>1, RangePrefix
<1> HIDE DEF read
<1>3. old' \in Seq(Nat) /\ Range(old') = Range(old) \cup Range(read)
  BY <1>0, <1>2, RangeConcat
<1>4. up' = <<>> /\ up' \in Seq(Nat)
  BY DEF Abandon
<1> QED BY <1>2, <1>3, <1>4, RangeEmpty

\* The owner's steps.
LEMMA OwnerSteps ==
  ASSUME PInv, OwnerStep \/ Connect \/ Disconnect \/ ConfirmInterrupted
               \/ \E m \in queue : Open(m)
  PROVE  PInv'
<1>0. outbox \in Seq(Nat) /\ old \in Seq(Nat) /\ up \in Seq(Nat) /\ nextId \in Nat
      /\ now \in Nat
  BY DEF PInv, Types
<1>1. CASE HandleAuthed
  <2>1. /\ Emit(outbox)
        /\ UNCHANGED <<pub, highWater, handed, nextId, now, outbox, old>>
    BY <1>1 DEF HandleAuthed, owner, relay, ghost
  <2>2. up' \in Seq(Nat) /\ Range(up') \subseteq Range(up) \cup Range(outbox)
    BY <1>0, <2>1, EmitRange
  <2>3. Uploads' \subseteq Uploads
    BY <2>1, <2>2 DEF Uploads
  <2> QED BY <1>0, <2>1, <2>2, <2>3, NoNewUpload
<1>2. CASE HandleLow
  BY <1>0, <1>2, ReplenishStep DEF HandleLow, relay, ghost
<1>3. CASE ConfirmAccepted
  <2> DEFINE u == Head(down).first
  <2>1. Without(outbox, u) \in Seq(Nat) /\ Range(Without(outbox, u)) \subseteq Range(outbox)
    BY <1>0, WithoutElem
  <2>2. UNCHANGED <<pub, highWater, handed, now, old>>
    BY <1>3 DEF ConfirmAccepted, relay, ghost
  <2>3. CASE Replenish(Without(outbox, u))
    BY <2>1, <2>2, <2>3, ReplenishStep
  <2>4. CASE outbox' \in {outbox, Without(outbox, u)} /\ UNCHANGED <<nextId, up>>
    <3>1. Uploads' \subseteq Uploads
      BY <2>1, <2>2, <2>4 DEF Uploads
    <3> QED BY <1>0, <2>1, <2>2, <2>4, <3>1, NoNewUpload
  <2> QED BY <1>3, <2>3, <2>4 DEF ConfirmAccepted, owner
<1>4. CASE ConfirmRejected
  <2> DEFINE u == Head(down).first
  <2>1. Without(outbox, u) \in Seq(Nat) /\ Range(Without(outbox, u)) \subseteq Range(outbox)
    BY <1>0, WithoutElem
  <2>2. /\ outbox' \in {outbox, Without(outbox, u)}
        /\ UNCHANGED <<pub, highWater, handed, nextId, now, up, old>>
    BY <1>4 DEF ConfirmRejected, relay, ghost
  <2>3. Uploads' \subseteq Uploads
    BY <2>1, <2>2 DEF Uploads
  <2> QED BY <1>0, <2>1, <2>2, <2>3, NoNewUpload
<1>5. CASE Connect
  <2>1. PICK n \in 0..Len(old) : old' = SubSeq(old, 1, n)
    BY <1>5, Zenon DEF Connect
  <2>2. old' \in Seq(Nat) /\ Range(old') \subseteq Range(old)
    BY <1>0, <2>1, RangePrefix
  <2>3. UNCHANGED <<pub, highWater, handed, nextId, now, outbox, up>>
    BY <1>5 DEF Connect, owner, relay, ghost
  <2>4. Uploads' \subseteq Uploads
    BY <2>2, <2>3 DEF Uploads
  <2> QED BY <1>0, <2>2, <2>3, <2>4, NoNewUpload
<1>6. Abandon => /\ old' \in Seq(Nat) /\ up' \in Seq(Nat)
                 /\ Range(old') \cup Range(up') \subseteq Range(old) \cup Range(up)
  BY AbandonRange, Zenon
<1>7. CASE Disconnect
  <2>1. UNCHANGED <<pub, highWater, handed, nextId, now, outbox>> /\ Abandon
    BY <1>7 DEF Disconnect, owner, relay, ghost
  <2>2. Uploads' \subseteq Uploads
    BY <1>6, <2>1 DEF Uploads
  <2> QED BY <1>0, <1>6, <2>1, <2>2, NoNewUpload
<1>8. CASE ConfirmInterrupted
  <2>1. /\ outbox' = Append(outbox, nextId) /\ nextId' = nextId + Batch /\ Abandon
        /\ UNCHANGED <<pub, highWater, handed, now>>
    BY <1>8 DEF ConfirmInterrupted, relay, ghost
  <2>a. /\ Append(outbox, nextId) \in Seq(Nat)
        /\ Range(Append(outbox, nextId)) = Range(outbox) \cup {nextId}
    BY <1>0, RangeAppend
  <2>2. outbox' \in Seq(Nat) /\ Range(outbox') = Range(outbox) \cup {nextId}
    BY <2>1, <2>a, Zenon
  <2>3. Uploads' \subseteq Uploads \cup {nextId}
    BY <1>6, <2>1, <2>2 DEF Uploads
  <2> QED BY <1>0, <1>6, <2>1, <2>2, <2>3, NewBatch
<1>9. CASE \E m \in queue : Open(m)
  <2>1. UNCHANGED <<pub, highWater, handed, nextId, now, outbox, up, old>>
    BY <1>9 DEF Open, relay, ghost, net
  <2>2. Uploads' \subseteq Uploads
    BY <2>1 DEF Uploads
  <2> QED BY <1>0, <2>1, <2>2, NoNewUpload
<1> QED BY <1>1, <1>2, <1>3, <1>4, <1>5, <1>7, <1>8, <1>9 DEF OwnerStep

\* The relay's steps, the requesters' and time.
LEMMA OtherSteps ==
  ASSUME PInv, RelayStep \/ NextWindow \/ NextDay
               \/ \E r \in Requesters : Fetch(r) \/ Count(r) \/ Answer(r) \/ Encrypt(r)
                                          \/ Admit(r)
  PROVE  PInv'
<1>0. outbox \in Seq(Nat) /\ old \in Seq(Nat) /\ up \in Seq(Nat) /\ nextId \in Nat
      /\ now \in Nat
  BY DEF PInv, Types
<1>1. ASSUME UNCHANGED <<pub, highWater, handed, nextId, outbox, up, old>>, now' \in Nat
      PROVE  PInv'
  <2>1. Uploads' \subseteq Uploads
    BY <1>1 DEF Uploads
  <2> QED BY <1>0, <1>1, <2>1, NoNewUpload
<1>2. CASE Greet \/ SendReply
  BY <1>0, <1>1, <1>2 DEF Greet, SendReply, owner, relay, ghost
<1>3. CASE HandleUpload
  <2>1. /\ up # <<>> /\ Store(Head(up)) /\ up' = Tail(up)
        /\ UNCHANGED <<nextId, handed, now, outbox, old>>
    BY <1>3 DEF HandleUpload, owner
  <2>2. Head(up) \in Range(up) /\ up' \in Seq(Nat) /\ Range(up') \subseteq Range(up)
    BY <1>0, <2>1, RangeTail
  <2>3. Head(up) \in Uploads /\ Uploads' \subseteq Uploads
    BY <2>1, <2>2 DEF Uploads
  <2> QED BY <1>0, <2>1, <2>2, <2>3, StoreStep
<1>4. CASE HandleOldUpload
  <2>1. /\ old # <<>> /\ Store(Head(old)) /\ old' = Tail(old)
        /\ UNCHANGED <<nextId, handed, now, outbox, up>>
    BY <1>4 DEF HandleOldUpload, owner
  <2>2. Head(old) \in Range(old) /\ old' \in Seq(Nat) /\ Range(old') \subseteq Range(old)
    BY <1>0, <2>1, RangeTail
  <2>3. Head(old) \in Uploads /\ Uploads' \subseteq Uploads
    BY <2>1, <2>2 DEF Uploads
  <2> QED BY <1>0, <2>1, <2>2, <2>3, StoreStep
<1>5. CASE NextWindow
  BY <1>0, <1>1, <1>5 DEF NextWindow, owner, net, ghost
<1>6. CASE NextDay
  BY <1>0, <1>1, <1>6 DEF NextDay, owner, net, ghost
<1>7. ASSUME NEW r \in Requesters, Count(r) \/ Answer(r) \/ Encrypt(r) \/ Admit(r)
      PROVE  PInv'
  BY <1>0, <1>1, <1>7 DEF Count, Answer, Encrypt, Admit, owner, net, relay, ghost
<1>8. ASSUME NEW r \in Requesters, Fetch(r) PROVE PInv'
  <2>0. /\ UNCHANGED <<outbox, up, old, nextId, now, highWater>>
        /\ pub \in [Keys -> Int] /\ handed \in [Keys -> Nat]
    BY <1>8 DEF Fetch, owner, net, relay, PInv, Types
  <2>1. Uploads' = Uploads
    BY <2>0 DEF Uploads
  <2>2. Aligned'
    BY <2>0, <2>1 DEF PInv, Aligned, MaxId
  <2>3. CASE UNCHANGED <<pub, handed>>
    BY <1>0, <1>1, <2>0, <2>3
  <2>4. CASE pub' = [k \in Keys |-> Absent] /\ UNCHANGED handed
    <3>1. Types'
      BY <1>0, <2>0, <2>4, Constants DEF PInv, Types
    <3>2. Inventory'
      BY <2>0, <2>4 DEF PInv, Inventory, HandedOutOnce
    <3> QED BY <2>2, <3>1, <3>2 DEF PInv
  <2>5. CASE \E k \in Fresh :
               /\ pub' = [x \in Keys |-> IF x \in Fresh \ {k} THEN pub[x] ELSE Absent]
               /\ handed' = [handed EXCEPT ![k] = @ + 1]
    <3>1. PICK k \in Fresh :
            /\ pub' = [x \in Keys |-> IF x \in Fresh \ {k} THEN pub[x] ELSE Absent]
            /\ handed' = [handed EXCEPT ![k] = @ + 1]
      BY <2>5, Zenon
    <3>2. k \in Keys /\ pub[k] # Absent
      BY DEF Fresh
    <3>3. handed[k] = 0 /\ ~(k > highWater)
      BY <3>2 DEF PInv, Inventory
    <3>4. Types'
      BY <1>0, <2>0, <3>1, <3>2, Constants DEF PInv, Types
    <3>5. /\ handed'[k] = 1 /\ pub'[k] = Absent
          /\ \A x \in Keys \ {k} : handed'[x] = handed[x] /\ pub'[x] \in {pub[x], Absent}
      BY <2>0, <3>1, <3>2, <3>3
    <3>6. Inventory'
      BY <2>0, <3>2, <3>3, <3>5 DEF PInv, Inventory, HandedOutOnce
    <3> QED BY <2>2, <3>4, <3>6 DEF PInv
  <2> QED BY <1>8, <2>3, <2>4, <2>5, Zenon DEF Fetch, relay
<1> QED BY <1>2, <1>3, <1>4, <1>5, <1>6, <1>7, <1>8 DEF RelayStep

-----------------------------------------------------------------------------
(* The owner's private keys *)

\* Arithmetic of the retention periods.
LEMMA Periods ==
  /\ Slack \in Nat /\ Age \in Nat /\ PrivateRetention = Age + QueueRetention
  /\ Age = Reservation + PublicRetention + Slack
  /\ Reservation \in Nat /\ PublicRetention \in Nat /\ QueueRetention \in Nat
  /\ PrivateRetention \in Nat /\ MaxTime \in Nat /\ MaxDrops \in Nat
  BY PrekeyAssumption DEF Slack, Age

\* A handed out key is below the high-water mark and no longer offered.
LEMMA HandedBelow ==
  ASSUME PInv, NEW k \in Keys
  PROVE  /\ handed[k] = 1 => k <= highWater /\ pub[k] = Absent
         /\ pub[k] # Absent => k <= highWater /\ handed[k] = 0
<1>1. k \in Nat /\ highWater \in Nat
  BY Constants, Zenon DEF PInv, Types
<1>2. /\ k > highWater => pub[k] = Absent /\ handed[k] = 0
      /\ pub[k] # Absent => handed[k] = 0
  BY Zenon DEF PInv, Inventory
<1> QED BY <1>1, <1>2

\* The keys whose private part is still needed.
InUse(k) == pub[k] # Absent \/ (\E x \in Valid : x.key = k) \/ (\E m \in queue : m.key = k)

\* What the invariant says of the keys in use.
Retention == OfferedKept /\ ReservedKept /\ QueuedKept /\ UsedOnce

\* A step that only discards private keys that are not in use.
LEMMA KeysKept ==
  ASSUME PInv, RInv, UNCHANGED <<pub, reserved, handed, now, late, refused>>,
         queue' \subseteq queue,
         \A k \in Keys \ Excused :
           /\ k <= highWater /\ priv[k] # Absent /\ priv[k] >= now - PrivateRetention
           /\ InUse(k)'
           => priv'[k] = priv[k]
  PROVE  Retention'
<1>0. /\ Excused' = Excused /\ Valid' = Valid /\ Fresh' = Fresh
      /\ UNCHANGED <<pub, reserved, handed, now>>
  BY Zenon DEF Excused, Valid, Fresh
<1>1. ASSUME NEW k \in Keys, NEW t \in Int, k <= highWater, t >= now - PrivateRetention,
             Kept(k, t), InUse(k)'
      PROVE  Kept(k, t)'
  <2>1. CASE k \in Excused
    BY <1>0, <2>1, Zenon DEF Kept
  <2>2. CASE k \notin Excused
    <3>1. priv[k] # Absent /\ priv[k] >= t
      BY <1>1, <2>2, Zenon DEF Kept
    <3>2. priv[k] \in Int /\ now \in Int /\ PrivateRetention \in Int
      <4>1. priv[k] \in Days /\ now \in Nat
        BY Zenon DEF RInv, MoreTypes, PInv, Types
      <4> QED BY <4>1, Periods DEF Days, Absent
    <3>3. priv[k] >= now - PrivateRetention
      BY <1>1, <3>1, <3>2
    <3>4. priv'[k] = priv[k]
      BY <1>1, <2>2, <3>1, <3>3, Zenon
    <3> QED BY <3>1, <3>4, Zenon DEF Kept
  <2> QED BY <2>1, <2>2, Zenon
<1>2. OfferedKept'
  <2> SUFFICES ASSUME NEW k \in Fresh PROVE Kept(k, pub[k] - Slack)'
    BY <1>0, Zenon DEF OfferedKept
  <2>1. /\ k \in Keys /\ pub[k] # Absent /\ pub[k] >= now - PublicRetention
        /\ Kept(k, pub[k] - Slack)
    BY Zenon DEF Fresh, RInv, OfferedKept
  <2>2. k <= highWater
    BY <2>1, HandedBelow, Zenon
  <2>3. pub[k] \in Int /\ now \in Nat
    BY <2>1, Zenon DEF PInv, Types
  <2>4. pub[k] - Slack \in Int /\ pub[k] - Slack >= now - PrivateRetention
    BY <2>1, <2>3, Periods
  <2>5. InUse(k)'
    BY <1>0, <2>1, Zenon DEF InUse
  <2>6. ASSUME NEW t \in Int, t = pub[k] - Slack PROVE Kept(k, t)'
    BY <1>1, <2>1, <2>2, <2>4, <2>5, <2>6, Zenon
  <2>7. pub'[k] - Slack = pub[k] - Slack
    BY <1>0, Zenon
  <2> QED BY <2>4, <2>6, <2>7, Zenon DEF Kept
<1>3. ReservedKept'
  <2> SUFFICES ASSUME NEW x \in Valid PROVE Kept(x.key, x.until - Age)'
    BY <1>0, Zenon DEF ReservedKept
  <2>1. /\ x \in reserved /\ x.until >= now /\ x.key \in Keys /\ x.until \in Nat
        /\ Kept(x.key, x.until - Age) /\ handed[x.key] = 1
    BY Zenon DEF Valid, RInv, ReservedKept, UsedOnce, MoreTypes
  <2>2. x.key <= highWater
    BY <2>1, HandedBelow, Zenon
  <2>3. now \in Nat
    BY Zenon DEF PInv, Types
  <2>4. x.until - Age \in Int /\ x.until - Age >= now - PrivateRetention
    BY <2>1, <2>3, Periods
  <2>5. InUse(x.key)'
    BY <1>0, <2>1, Zenon DEF InUse
  <2> QED BY <1>1, <2>1, <2>2, <2>4, <2>5, Zenon
<1>4. QueuedKept'
  <2> SUFFICES ASSUME NEW m \in queue'
               PROVE  m.at >= now' - QueueRetention /\ (m.key # NoKey => Kept(m.key, m.at - Age)')
    BY Zenon DEF QueuedKept
  <2>1. m \in queue /\ m.at >= now - QueueRetention /\ m.key \in KeyOrNone /\ m.at \in Nat
    BY Zenon DEF RInv, QueuedKept, MoreTypes
  <2>2. ASSUME m.key # NoKey PROVE Kept(m.key, m.at - Age)'
    <3>1. m.key \in Keys /\ Kept(m.key, m.at - Age) /\ handed[m.key] = 1
      BY <2>1, <2>2, Zenon DEF KeyOrNone, RInv, QueuedKept, UsedOnce
    <3>2. m.key <= highWater
      BY <3>1, HandedBelow, Zenon
    <3>3. now \in Nat
      BY Zenon DEF PInv, Types
    <3>4. m.at - Age \in Int /\ m.at - Age >= now - PrivateRetention
      BY <2>1, <3>3, Periods
    <3>5. InUse(m.key)'
      BY Zenon DEF InUse
    <3> QED BY <1>1, <3>1, <3>2, <3>4, <3>5, Zenon
  <2> QED BY <1>0, <2>1, <2>2, Zenon
<1>5. UsedOnce'
  BY <1>0, Zenon DEF RInv, UsedOnce
<1> QED BY <1>2, <1>3, <1>4, <1>5, Zenon DEF Retention

\* Making a batch prunes no key in use (generate_one_time_prekeys).
LEMMA GeneratedKeeps ==
  ASSUME PInv, RInv, priv' = Generated(nextId),
         UNCHANGED <<pub, reserved, queue, handed, now, late, refused>>
  PROVE  Retention'
<1>1. ASSUME NEW k \in Keys, k <= highWater, priv[k] >= now - PrivateRetention
      PROVE  priv'[k] = priv[k]
  <2>1. /\ k \in Nat /\ highWater \in Nat /\ nextId \in Nat /\ highWater < nextId
        /\ now \in Nat
    BY Constants, Zenon DEF PInv, Types, Aligned
  <2>2. priv[k] \in Int
    <3>1. priv[k] \in Days
      BY Zenon DEF RInv, MoreTypes
    <3> QED BY <3>1 DEF Days, Absent
  <2>3. k \notin KeysOf(nextId)
    BY <1>1, <2>1 DEF KeysOf
  <2>4. ~(priv[k] < now - PrivateRetention)
    BY <1>1, <2>1, <2>2, Periods
  <2> QED BY <2>3, <2>4, Zenon DEF Generated
<1> QED BY <1>1, KeysKept, Zenon

\* A rejected upload only costs keys that were refused (discard of the private
\* keys in confirm_prekeys_uploaded).
LEMMA RejectedKeeps ==
  ASSUME PInv, RInv, NEW u \in refused,
         priv' = [k \in Keys |-> IF k \in KeysOf(u) THEN Absent ELSE priv[k]],
         UNCHANGED <<pub, reserved, queue, handed, now, late, refused>>
  PROVE  Retention'
<1>1. KeysOf(u) \subseteq Excused
  BY Zenon DEF Excused
<1> QED BY <1>1, KeysKept, Zenon

\* Opening a message uses up a key that nothing else uses.
LEMMA OpenKeeps ==
  ASSUME PInv, RInv, NEW m \in queue, Open(m)
  PROVE  Retention'
<1>1. /\ priv' = [k \in Keys |-> IF k = m.key THEN Absent ELSE priv[k]]
      /\ queue' = queue \ {m}
      /\ UNCHANGED <<pub, reserved, handed, now, late, refused>>
  BY Zenon DEF Open, relay, ghost
<1>2. ASSUME NEW k \in Keys, InUse(k)' PROVE k # m.key
  <2>1. SUFFICES ASSUME k = m.key PROVE FALSE
    OBVIOUS
  <2>2. m.key # NoKey
    BY <2>1, PrekeyAssumption, Zenon
  <2>3. handed[k] = 1
    BY <2>1, <2>2, Zenon DEF RInv, UsedOnce
  <2>4. pub[k] = Absent
    BY <2>3, HandedBelow, Zenon
  <2>5. CASE \E x \in Valid' : x.key = k
    BY <1>1, <2>1, <2>5, Zenon DEF Valid, RInv, UsedOnce
  <2>6. CASE \E n \in queue' : n.key = k
    BY <1>1, <2>1, <2>2, <2>6, Zenon DEF RInv, UsedOnce
  <2> QED BY <1>1, <1>2, <2>4, <2>5, <2>6, Zenon DEF InUse
<1>3. queue' \subseteq queue
  BY <1>1, Zenon
<1>4. \A k \in Keys : InUse(k)' => priv'[k] = priv[k]
  BY <1>1, <1>2, Zenon
<1> QED BY <1>1, <1>3, <1>4, KeysKept, Zenon

\* Storing an upload offers keys the owner has, unless they are excused.
LEMMA StoreKeeps ==
  ASSUME PInv, RInv, NEW u \in Uploads, Store(u),
         UNCHANGED <<priv, reserved, queue, handed, now>>
  PROVE  Retention'
<1>1. Excused \subseteq Excused' /\ late \subseteq late' /\ refused \subseteq refused'
  <2>1. late \subseteq late' /\ refused \subseteq refused'
    BY Zenon DEF Store
  <2> QED BY <2>1, Zenon DEF Excused
<1>2. \A k \in Keys, t \in Int : Kept(k, t) => Kept(k, t)'
  BY <1>1, Zenon DEF Kept
<1>3. OfferedKept'
  <2> SUFFICES ASSUME NEW k \in Fresh' PROVE Kept(k, pub[k] - Slack)'
    BY Zenon DEF OfferedKept
  <2>0. /\ k \in Keys /\ pub'[k] # Absent /\ pub'[k] >= now - PublicRetention
        /\ pub[k] \in Int /\ priv[k] \in Days
    BY Zenon DEF Fresh, PInv, Types, RInv, MoreTypes
  <2>1. CASE pub'[k] = pub[k]
    <3>1. k \in Fresh
      BY <2>0, <2>1, Zenon DEF Fresh
    <3>2. Kept(k, pub[k] - Slack)
      BY <3>1, Zenon DEF RInv, OfferedKept
    <3>3. pub[k] - Slack \in Int
      BY <2>0, Periods
    <3>4. ASSUME NEW t \in Int, t = pub[k] - Slack PROVE Kept(k, t)'
      BY <1>2, <2>0, <3>2, <3>4, Zenon
    <3> QED BY <2>1, <3>3, <3>4, Zenon DEF Kept
  <2>2. CASE pub'[k] # pub[k]
    <3>1. Verdict(u) = "new"
      BY <2>2, Zenon DEF Store
    <3>2. /\ pub' = [x \in Keys |-> IF x \in KeysOf(u) THEN now
                                    ELSE IF x \in Fresh THEN pub[x] ELSE Absent]
          /\ late' = late \cup {x \in KeysOf(u) \cap Held : now - priv[x] > Slack}
          /\ refused' = refused
      BY <3>1, Zenon DEF Store
    <3>3. k \in KeysOf(u) /\ pub'[k] = now
      BY <2>0, <2>2, <3>2, Zenon
    <3>4. u > highWater
      BY <3>1, NewIsAbove, Zenon
    <3>5. CASE u \in refused
      <4>1. k \in Excused'
        BY <3>2, <3>3, <3>5, Zenon DEF Excused
      <4> QED BY <4>1, Zenon DEF Kept
    <3>6. CASE u \notin refused
      <4>1. k \in Held
        BY <3>3, <3>4, <3>6, Zenon DEF RInv, PendingHeld
      <4>2. CASE now - priv[k] > Slack
        <5>1. k \in Excused'
          BY <3>2, <3>3, <4>1, <4>2, Zenon DEF Excused
        <5> QED BY <5>1, Zenon DEF Kept
      <4>3. CASE ~(now - priv[k] > Slack)
        <5>1. priv[k] \in Int /\ now \in Nat
          <6>1. now \in Nat
            BY Zenon DEF PInv, Types
          <6> QED BY <2>0, <6>1 DEF Days, Absent
        <5>2. priv[k] >= now - Slack
          BY <4>3, <5>1, Periods
        <5>3. priv[k] # Absent
          BY <4>1, Zenon DEF Held
        <5> QED BY <3>3, <5>2, <5>3, Zenon DEF Kept
      <4> QED BY <4>2, <4>3, Zenon
    <3> QED BY <3>5, <3>6, Zenon
  <2> QED BY <2>1, <2>2, Zenon
<1>4. ReservedKept'
  <2> SUFFICES ASSUME NEW x \in Valid PROVE Kept(x.key, x.until - Age)'
    BY Zenon DEF ReservedKept, Valid
  <2>1. Kept(x.key, x.until - Age)
    BY Zenon DEF RInv, ReservedKept
  <2> QED BY <1>1, <2>1, Zenon DEF Kept
<1>5. QueuedKept'
  <2> SUFFICES ASSUME NEW m \in queue, m.key # NoKey PROVE Kept(m.key, m.at - Age)'
    BY Zenon DEF QueuedKept, RInv
  <2>1. Kept(m.key, m.at - Age)
    BY Zenon DEF RInv, QueuedKept
  <2> QED BY <1>1, <2>1, Zenon DEF Kept
<1>6. UsedOnce'
  BY Zenon DEF RInv, UsedOnce
<1> QED BY <1>3, <1>4, <1>5, <1>6, Zenon DEF Retention

\* What is reserved, or queued, and stays so, keeps its keys.
LEMMA SameKeys ==
  ASSUME RInv, UNCHANGED <<priv, late, refused>>
  PROVE  /\ \A k \in Fresh : pub'[k] = pub[k] => Kept(k, pub[k] - Slack)'
         /\ \A x \in Valid : Kept(x.key, x.until - Age)'
         /\ \A m \in queue : m.key # NoKey => Kept(m.key, m.at - Age)'
<1>1. Excused' = Excused
  BY Zenon DEF Excused
<1> QED BY <1>1, Zenon DEF RInv, OfferedKept, ReservedKept, QueuedKept, Kept

\* Handing out a key: what is reserved is young enough.
LEMMA FetchKeeps ==
  ASSUME PInv, RInv, NEW r \in Requesters, Fetch(r)
  PROVE  Retention'
<1>0. /\ UNCHANGED <<priv, late, refused, queue, now>> /\ now \in Nat
      /\ pub \in [Keys -> Int] /\ handed \in [Keys -> Nat]
  BY Zenon DEF Fetch, owner, PInv, Types
<1>1. QueuedKept'
  BY <1>0, SameKeys, Zenon DEF QueuedKept, RInv
<1>2. ASSUME UNCHANGED handed, Fresh' \subseteq Fresh, \A k \in Fresh' : pub'[k] = pub[k],
             reserved' \subseteq reserved
      PROVE  Retention'
  <2>1. OfferedKept'
    BY <1>0, <1>2, SameKeys, Zenon DEF OfferedKept
  <2>2. Valid' \subseteq Valid
    BY <1>0, <1>2, Zenon DEF Valid
  <2>3. ReservedKept'
    BY <1>0, <2>2, SameKeys, Zenon DEF ReservedKept
  <2>4. UsedOnce'
    BY <1>0, <1>2, Zenon DEF UsedOnce, RInv
  <2> QED BY <1>1, <2>1, <2>3, <2>4, Zenon DEF Retention
<1>3. CASE UNCHANGED <<relay, handed>>
  BY <1>0, <1>2, <1>3, Zenon DEF relay, Fresh
<1>4. CASE reserved' = Valid /\ pub' = [k \in Keys |-> Absent] /\ UNCHANGED handed
  <2>1. Fresh' = {}
    BY <1>4, Zenon DEF Fresh
  <2> QED BY <1>2, <1>4, <2>1, Zenon DEF Valid
<1>5. ASSUME NEW k \in Fresh,
             pub' = [x \in Keys |-> IF x \in Fresh \ {k} THEN pub[x] ELSE Absent],
             reserved' = Valid \cup {[by |-> r, key |-> k, until |-> now + Reservation]},
             handed' = [handed EXCEPT ![k] = @ + 1]
      PROVE  Retention'
  <2>1. /\ k \in Keys /\ pub[k] # Absent /\ pub[k] >= now - PublicRetention
        /\ Kept(k, pub[k] - Slack)
    BY Zenon DEF Fresh, RInv, OfferedKept
  <2>2. handed[k] = 0 /\ handed[k] # 1
    BY <2>1, HandedBelow
  <2>3. handed'[k] = 1 /\ \A x \in Keys \ {k} : handed'[x] = handed[x]
    BY <1>0, <1>5, <2>1, <2>2
  <2>4. OfferedKept'
    <3>1. \A x \in Fresh' : x \in Fresh /\ pub'[x] = pub[x]
      BY <1>0, <1>5, Zenon DEF Fresh
    <3> QED BY <1>0, <3>1, SameKeys, Zenon DEF OfferedKept
  <2>5. PICK new : /\ new.key = k /\ new.until = now + Reservation
                   /\ reserved' = Valid \cup {new}
    BY <1>5, Zenon
  <2>6. ASSUME NEW t, t = (now + Reservation) - Age PROVE Kept(k, t)'
    <3>1. CASE k \in Excused
      BY <1>0, <3>1, Zenon DEF Kept, Excused
    <3>2. CASE k \notin Excused
      <4>1. priv[k] # Absent /\ priv[k] >= pub[k] - Slack
        BY <2>1, <3>2, Zenon DEF Kept
      <4>2. priv[k] \in Int
        <5>1. priv[k] \in Days
          BY <2>1, Zenon DEF RInv, MoreTypes
        <5> QED BY <5>1 DEF Days, Absent
      <4>3. pub[k] \in Int
        BY <1>0, <2>1, Zenon
      <4>4. priv[k] >= (now + Reservation) - Age
        BY <1>0, <2>1, <4>1, <4>2, <4>3, Periods
      <4> QED BY <1>0, <2>6, <4>1, <4>4, Zenon DEF Kept
    <3> QED BY <3>1, <3>2, Zenon
  <2>7. ReservedKept'
    <3> SUFFICES ASSUME NEW x \in Valid' PROVE Kept(x.key, x.until - Age)'
      BY Zenon DEF ReservedKept
    <3>1. x \in Valid \/ x = new
      BY <2>5, Zenon DEF Valid
    <3>2. CASE x \in Valid
      BY <1>0, <3>2, SameKeys, Zenon
    <3>3. CASE x = new
      <4>1. x.key = k /\ x.until - Age = (now + Reservation) - Age
        BY <2>5, <3>3, Zenon
      <4>2. Kept(k, x.until - Age)'
        BY <2>6, <4>1, Zenon
      <4> QED BY <4>1, <4>2, Zenon DEF Kept
    <3> QED BY <3>1, <3>2, <3>3, Zenon
  <2>8. UsedOnce'
    <3>1. \A x \in reserved : x.key \in Keys \ {k} /\ handed'[x.key] = 1
      BY <2>2, <2>3, Zenon DEF RInv, UsedOnce, MoreTypes
    <3>2. ASSUME NEW m \in queue, m.key # NoKey PROVE m.key # k /\ handed'[m.key] = 1
      BY <2>2, <2>3, <3>2, Zenon DEF RInv, UsedOnce, MoreTypes, KeyOrNone
    <3>3. \A m \in queue : m.key # k
      BY <2>1, <3>2, PrekeyAssumption, Zenon
    <3>4. \A x \in reserved' : x \in reserved \/ x = new
      BY <2>5, Zenon DEF Valid
    <3>5. \A x, y \in reserved' : x.key = y.key => x = y
      BY <2>5, <3>1, <3>4, Zenon DEF RInv, UsedOnce
    <3>6. \A x \in reserved' : handed'[x.key] = 1
      BY <2>3, <2>5, <3>1, <3>4, Zenon
    <3>7. \A x \in reserved', m \in queue : x.key # m.key
      BY <2>5, <3>3, <3>4, Zenon DEF RInv, UsedOnce
    <3> QED BY <1>0, <3>2, <3>5, <3>6, <3>7, Zenon DEF RInv, UsedOnce
  <2> QED BY <1>1, <2>4, <2>7, <2>8, Zenon DEF Retention
<1> QED BY <1>3, <1>4, <1>5, Zenon DEF Fetch

\* Admitting a message: it takes over the key of the claimed reservation.
LEMMA AdmitKeeps ==
  ASSUME PInv, RInv, NEW r \in Requesters, Admit(r)
  PROVE  Retention'
<1>k. PICK k : k = session[r].key
  OBVIOUS
<1> DEFINE claim == {x \in Valid : x.by = r /\ x.key = k}
           new == [from |-> r, key |-> k, at |-> now]
<1>0. /\ UNCHANGED <<priv, pub, late, refused, handed, now>> /\ now \in Nat
  BY Zenon DEF Admit, owner, ghost, PInv, Types
<1>1. OfferedKept'
  BY <1>0, SameKeys, Zenon DEF OfferedKept, Fresh
<1>2. CASE UNCHANGED <<reserved, queue>>
  BY <1>0, <1>1, <1>2, SameKeys, Zenon DEF Retention, ReservedKept, QueuedKept, UsedOnce,
     Valid, RInv
<1>3. CASE /\ k = NoKey \/ claim # {}
           /\ reserved' = Valid \ claim /\ queue' = queue \cup {new}
  <2>0. new.key = k /\ new.at = now
    OBVIOUS
  <2> HIDE DEF new
  <2>1. ReservedKept'
    BY <1>0, <1>3, SameKeys, Zenon DEF ReservedKept, Valid
  <2>2. ASSUME k # NoKey
        PROVE  /\ \A t : t = now - Age => Kept(k, t)'
               /\ handed[k] = 1
               /\ \A x \in reserved' : x.key # k
               /\ \A m \in queue : m.key # k
    <3>1. PICK x \in Valid : x.by = r /\ x.key = k
      BY <1>3, <2>2, Zenon
    <3>2. x \in reserved /\ x.until >= now /\ x.until \in Nat /\ k \in Keys
      BY <3>1, Zenon DEF Valid, RInv, MoreTypes
    <3>3. Kept(k, x.until - Age)'
      BY <1>0, <3>1, SameKeys, Zenon
    <3>4. ASSUME NEW t, t = now - Age PROVE Kept(k, t)'
      <4>1. priv[k] \in Int
        <5>1. priv[k] \in Days
          BY <3>2, Zenon DEF RInv, MoreTypes
        <5> QED BY <5>1 DEF Days, Absent
      <4>2. ASSUME priv[k] >= x.until - Age PROVE priv[k] >= now - Age
        BY <1>0, <3>2, <4>1, <4>2, Periods
      <4> QED BY <1>0, <3>3, <3>4, <4>2, Zenon DEF Kept
    <3>5. handed[k] = 1 /\ \A m \in queue : m.key # k
      BY <3>1, <3>2, Zenon DEF RInv, UsedOnce
    <3>6. ASSUME NEW y \in reserved' PROVE y.key # k
      <4>1. y \in Valid /\ y \notin claim
        BY <1>3, Zenon
      <4>2. y.key = k => y = x
        BY <3>1, <3>2, <4>1, Zenon DEF RInv, UsedOnce, Valid
      <4> QED BY <3>1, <4>1, <4>2, Zenon
    <3> QED BY <3>4, <3>5, <3>6, Zenon
  <2>3. QueuedKept'
    <3> SUFFICES ASSUME NEW m \in queue'
                 PROVE  m.at >= now - QueueRetention /\ (m.key # NoKey => Kept(m.key, m.at - Age)')
      BY <1>0, Zenon DEF QueuedKept
    <3>1. CASE m \in queue
      BY <1>0, <3>1, SameKeys, Zenon DEF RInv, QueuedKept
    <3>2. CASE m = new
      <4>1. now >= now - QueueRetention
        BY <1>0, Periods
      <4> QED BY <2>0, <2>2, <3>2, <4>1, Zenon
    <3> QED BY <1>3, <3>1, <3>2, Zenon
  <2>4. UsedOnce'
    <3>1. reserved' \subseteq reserved
      BY <1>3, Zenon DEF Valid
    <3>2. \A m, n \in queue' : m.key = n.key /\ m.key # NoKey => m = n
      BY <1>3, <2>0, <2>2, Zenon DEF RInv, UsedOnce
    <3>3. \A m \in queue' : m.key # NoKey => handed'[m.key] = 1
      BY <1>0, <1>3, <2>0, <2>2, Zenon DEF RInv, UsedOnce
    <3>4. \A x \in reserved' : x.key # NoKey
      BY <3>1, PrekeyAssumption, Zenon DEF RInv, MoreTypes
    <3>5. \A x \in reserved', m \in queue' : x.key # m.key
      BY <1>3, <2>0, <2>2, <3>1, <3>4, Zenon DEF RInv, UsedOnce
    <3> QED BY <1>0, <3>1, <3>2, <3>3, <3>5, Zenon DEF RInv, UsedOnce
  <2> QED BY <1>1, <2>1, <2>3, <2>4, Zenon DEF Retention
<1> QED BY <1>k, <1>2, <1>3, Zenon DEF Admit

\* A day passes: offers and reservations end, old messages are collected.
LEMMA NextDayKeeps ==
  ASSUME PInv, RInv, NextDay
  PROVE  Retention'
<1>0. /\ UNCHANGED <<priv, pub, reserved, handed, late, refused>> /\ now \in Nat
      /\ now' = now + 1 /\ queue' = {m \in queue : m.at >= now' - QueueRetention}
      /\ pub \in [Keys -> Int]
  BY Zenon DEF NextDay, owner, ghost, PInv, Types
<1>1. Fresh' \subseteq Fresh
  <2> SUFFICES ASSUME NEW k \in Keys, pub[k] >= now' - PublicRetention
               PROVE  pub[k] >= now - PublicRetention
    BY <1>0, Zenon DEF Fresh
  <2> QED BY <1>0, Periods
<1>2. Valid' \subseteq Valid
  <2> SUFFICES ASSUME NEW x \in reserved, x.until >= now' PROVE x.until >= now
    BY <1>0, Zenon DEF Valid
  <2>1. x.until \in Nat
    BY Zenon DEF RInv, MoreTypes
  <2> QED BY <1>0, <2>1
<1>3. OfferedKept' /\ ReservedKept' /\ QueuedKept'
  BY <1>0, <1>1, <1>2, SameKeys, Zenon DEF OfferedKept, ReservedKept, QueuedKept
<1>4. UsedOnce'
  BY <1>0, Zenon DEF UsedOnce, RInv
<1> QED BY <1>3, <1>4, Zenon DEF Retention

\* Answers stay true: the high-water mark only rises and refusals are final.
LEMMA AnswersKept ==
  ASSUME PInv, RInv, highWater' \in Nat, highWater <= highWater', refused \subseteq refused',
         Range(down') \cup Range(reply') \subseteq
           Range(down) \cup Range(reply) \cup {Authed, Low}
  PROVE  AnswersTrue'
<1> SUFFICES ASSUME NEW e \in Range(down') \cup Range(reply'), e.type = "uploaded"
             PROVE  IF e.accepted THEN MaxId(e.first) <= highWater' ELSE e.first \in refused'
  BY Zenon DEF AnswersTrue, MaxId
<1>1. e # Authed /\ e # Low
  BY DEF Authed, Low
<1>2. e \in Range(down) \cup Range(reply)
  BY <1>1, Zenon
<1>3. IF e.accepted THEN MaxId(e.first) <= highWater ELSE e.first \in refused
  BY <1>2, Zenon DEF RInv, AnswersTrue
<1>4. e \in Notices
  BY <1>2, RangeElem, Zenon DEF RInv, MoreTypes
<1>5. e.first \in Keys
  BY <1>1, <1>4, Zenon DEF Notices
<1>6. MaxId(e.first) \in Int /\ highWater \in Nat
  <2>1. highWater \in Nat
    BY Zenon DEF PInv, Types
  <2> QED BY <1>5, <2>1, Constants DEF MaxId
<1>7. MaxId(e.first) <= highWater => MaxId(e.first) <= highWater'
  BY <1>6
<1> QED BY <1>3, <1>7, Zenon

\* An upload that may still be stored stays in the outbox with its keys.
LEMMA PendingKept ==
  ASSUME PInv, RInv, highWater' \in Nat, highWater <= highWater', refused \subseteq refused',
         Uploads' \subseteq Uploads,
         \A u \in Range(outbox) : u > highWater /\ u \notin refused =>
           /\ u \in Range(outbox')
           /\ \A k \in KeysOf(u) \cap Keys : priv[k] # Absent => priv'[k] # Absent
  PROVE  PendingHeld'
<1> SUFFICES ASSUME NEW u \in Uploads', u > highWater', u \notin refused'
             PROVE  u \in Range(outbox') /\ KeysOf(u) \subseteq Held'
  BY Zenon DEF PendingHeld, KeysOf
<1>1. u \in Uploads /\ u \notin refused /\ u \in Nat /\ highWater \in Nat
  BY Constants, Zenon DEF RInv, MoreTypes, PInv, Types
<1>2. u > highWater
  BY <1>1
<1>3. u \in Range(outbox) /\ KeysOf(u) \subseteq Held
  BY <1>1, <1>2, Zenon DEF RInv, PendingHeld
<1> QED BY <1>1, <1>2, <1>3, Zenon DEF Held

\* A step that changes no key, no row and no message.
LEMMA QuietStep ==
  ASSUME PInv, RInv, MoreTypes',
         UNCHANGED <<priv, pub, reserved, handed, now, late, refused, queue, highWater>>,
         Uploads' \subseteq Uploads,
         \A u \in Range(outbox) : u > highWater /\ u \notin refused => u \in Range(outbox'),
         Range(down') \cup Range(reply') \subseteq
           Range(down) \cup Range(reply) \cup {Authed, Low}
  PROVE  RInv'
<1>1. highWater' \in Nat /\ highWater <= highWater' /\ refused \subseteq refused'
  <2>1. highWater \in Nat
    BY Zenon DEF PInv, Types
  <2> QED BY <2>1
<1>2. AnswersTrue'
  BY <1>1, AnswersKept, Zenon
<1>3. PendingHeld'
  BY <1>1, PendingKept, Zenon
<1>4. Retention'
  BY KeysKept, Zenon
<1> QED BY <1>2, <1>3, <1>4, Zenon DEF RInv, Retention

\* A step that makes the next batch: no other upload is pending.
LEMMA BatchStep ==
  ASSUME PInv, RInv, ~Exhausted, nextId' = nextId + Batch, priv' = Generated(nextId),
         nextId \in Range(outbox'),
         Uploads' \subseteq Uploads \cup {nextId},
         \A u \in Range(outbox) : u > highWater => u \in refused,
         UNCHANGED <<relay, session, queue, ghost, now>>,
         down' \in Seq(Notices), Range(down') \subseteq Range(down),
         reply' \in Seq(Notices), Range(reply') \subseteq Range(reply),
         online' \in BOOLEAN, greeted' \in BOOLEAN, drops' \in 0..MaxDrops
  PROVE  RInv'
<1>0. /\ nextId \in Keys /\ highWater \in Nat /\ Uploads \subseteq Keys
      /\ now \in 0..MaxTime /\ priv \in [Keys -> Days]
  BY Zenon DEF RInv, MoreTypes, PInv, Types
<1>1. nextId + Batch \in Keys /\ KeysOf(nextId) \subseteq Keys
  BY <1>0, Constants DEF Exhausted, Keys, KeysOf
<1>2. now \in Days /\ now # Absent /\ Absent \in Days
  BY <1>0, Periods DEF Days, Absent
<1>3. priv' \in [Keys -> Days]
  BY <1>0, <1>2, Zenon DEF Generated
<1>4. MoreTypes'
  BY <1>0, <1>1, <1>3, Zenon DEF RInv, MoreTypes, relay, ghost
<1>5. highWater' \in Nat /\ highWater <= highWater' /\ refused \subseteq refused'
  BY <1>0 DEF relay, ghost
<1>6. AnswersTrue'
  BY <1>5, AnswersKept, Zenon
<1>7. PendingHeld'
  <2> SUFFICES ASSUME NEW u \in Uploads', u > highWater, u \notin refused
               PROVE  u \in Range(outbox') /\ KeysOf(u) \subseteq Held'
    BY Zenon DEF PendingHeld, KeysOf, relay, ghost
  <2>1. u = nextId
    BY Zenon DEF RInv, PendingHeld
  <2>2. KeysOf(nextId) \subseteq Held'
    BY <1>1, <1>2, Zenon DEF Held, Generated
  <2> QED BY <2>1, <2>2, Zenon
<1>8. Retention'
  BY GeneratedKeeps, Zenon DEF relay, ghost
<1> QED BY <1>4, <1>6, <1>7, <1>8, Zenon DEF RInv, Retention

\* The owner takes the first event from its channel.
LEMMA TakeNotice ==
  ASSUME RInv, down # <<>>
  PROVE  /\ Tail(down) \in Seq(Notices) /\ Range(Tail(down)) \subseteq Range(down)
         /\ Head(down) \in Range(down) /\ Head(down) \in Notices
<1>1. down \in Seq(Notices)
  BY Zenon DEF RInv, MoreTypes
<1>2. /\ Tail(down) \in Seq(Notices) /\ Range(Tail(down)) \subseteq Range(down)
      /\ Head(down) \in Range(down)
  BY <1>1, RangeTail, Zenon
<1> QED BY <1>1, <1>2, RangeElem, Zenon

\* An upload that was answered: accepted means stored, rejected means refused.
LEMMA AnswerMeans ==
  ASSUME PInv, RInv, NEW ok \in BOOLEAN, Answered(ok)
  PROVE  /\ Head(down).first \in Keys
         /\ ok => ~(Head(down).first > highWater)
         /\ ~ok => Head(down).first \in refused
<1> DEFINE e == Head(down)
<1>1. e \in Range(down) /\ e \in Notices /\ e.type = "uploaded" /\ e.accepted = ok
  BY TakeNotice, Zenon DEF Answered
<1>2. e # Authed /\ e # Low
  BY <1>1 DEF Authed, Low
<1>3. e.first \in Keys
  BY <1>1, <1>2, Zenon DEF Notices
<1>4. IF ok THEN MaxId(e.first) <= highWater ELSE e.first \in refused
  BY <1>1, Zenon DEF RInv, AnswersTrue
<1>5. highWater \in Nat
  BY Zenon DEF PInv, Types
<1>6. MaxId(e.first) <= highWater => ~(e.first > highWater)
  BY <1>3, <1>5, Constants DEF MaxId
<1> QED BY <1>3, <1>4, <1>6, Zenon

\* queue_prekey_replenishment, on an outbox that has all pending uploads.
LEMMA ReplenishKeeps ==
  ASSUME PInv, RInv, NEW s \in Seq(Nat), Range(s) \subseteq Range(outbox), Replenish(s),
         \A u \in Range(outbox) : u > highWater /\ u \notin refused => u \in Range(s),
         down # <<>>, down' = Tail(down),
         UNCHANGED <<online, greeted, reply, old, drops, relay, session, queue, ghost, now>>
  PROVE  RInv'
<1>0. /\ down' \in Seq(Notices) /\ Range(down') \subseteq Range(down)
      /\ nextId \in Nat /\ highWater \in Nat
  BY TakeNotice, Zenon DEF PInv, Types
<1>1. CASE s # <<>>
  <2>1. outbox' = s /\ Emit(<<Head(s)>>) /\ UNCHANGED <<priv, nextId>>
    BY <1>1, Zenon DEF Replenish
  <2>2. Head(s) \in Range(s) /\ Head(s) \in Nat
    <3>1. Head(s) \in Range(s)
      BY <1>1, RangeTail, Zenon
    <3> QED BY <3>1, RangeElem, Zenon
  <2>3. <<Head(s)>> \in Seq(Nat) /\ Range(<<Head(s)>>) = {Head(s)}
    BY <2>2, RangeSingle
  <2>4. up' \in Seq(Nat) /\ Range(up') \subseteq Range(up) \cup {Head(s)}
    BY <2>1, <2>3, EmitRange, Zenon
  <2>5. Uploads' \subseteq Uploads
    BY <2>1, <2>2, <2>4, Zenon DEF Uploads
  <2>6. MoreTypes'
    BY <1>0, <2>1, <2>5, Zenon DEF RInv, MoreTypes, relay, ghost
  <2> QED BY <1>0, <2>1, <2>5, <2>6, QuietStep, Zenon DEF relay, ghost
<1>2. CASE s = <<>> /\ Exhausted
  <2>1. UNCHANGED <<outbox, nextId, up, priv>>
    BY <1>2, Zenon DEF Replenish, owner
  <2>2. Uploads' \subseteq Uploads
    BY <2>1, Zenon DEF Uploads
  <2>3. MoreTypes'
    BY <1>0, <2>1, <2>2, Zenon DEF RInv, MoreTypes, relay, ghost
  <2> QED BY <1>0, <2>1, <2>2, <2>3, QuietStep, Zenon DEF relay, ghost
<1>3. CASE s = <<>> /\ ~Exhausted
  <2>1. /\ outbox' = <<nextId>> /\ Emit(<<nextId>>) /\ nextId' = nextId + Batch
        /\ priv' = Generated(nextId)
    BY <1>3, Zenon DEF Replenish
  <2>2. <<nextId>> \in Seq(Nat) /\ Range(<<nextId>>) = {nextId}
    BY <1>0, RangeSingle
  <2>3. up' \in Seq(Nat) /\ Range(up') \subseteq Range(up) \cup {nextId}
    BY <2>1, <2>2, EmitRange, Zenon
  <2>4. Uploads' \subseteq Uploads \cup {nextId} /\ nextId \in Range(outbox')
    BY <2>1, <2>2, <2>3, Zenon DEF Uploads
  <2>5. \A u \in Range(outbox) : u > highWater => u \in refused
    BY <1>3, RangeEmpty, Zenon
  <2>6. /\ online' \in BOOLEAN /\ greeted' \in BOOLEAN /\ drops' \in 0..MaxDrops
        /\ reply' \in Seq(Notices) /\ Range(reply') \subseteq Range(reply)
    BY Zenon DEF RInv, MoreTypes
  <2> QED BY <1>0, <1>3, <2>1, <2>4, <2>5, <2>6, BatchStep, Zenon
<1> QED BY <1>1, <1>2, <1>3, Zenon

\* The owner's steps.
LEMMA OwnerKeeps ==
  ASSUME PInv, RInv, OwnerStep \/ Connect \/ Disconnect \/ ConfirmInterrupted
                     \/ \E m \in queue : Open(m)
  PROVE  RInv'
<1>0. /\ outbox \in Seq(Nat) /\ old \in Seq(Nat) /\ up \in Seq(Nat) /\ nextId \in Nat
      /\ highWater \in Nat
  BY Zenon DEF PInv, Types
<1>t. Authed \in Notices /\ down \in Seq(Notices)
  BY Zenon DEF Notices, RInv, MoreTypes
<1>1. CASE HandleAuthed
  <2>1. /\ Emit(outbox) /\ down # <<>> /\ down' = Tail(down)
        /\ UNCHANGED <<owner, online, greeted, reply, old, drops, relay, session, queue,
                       ghost, now>>
    BY <1>1, Zenon DEF HandleAuthed
  <2>2. up' \in Seq(Nat) /\ Range(up') \subseteq Range(up) \cup Range(outbox)
    BY <1>0, <2>1, EmitRange, Zenon
  <2>3. Uploads' \subseteq Uploads
    BY <2>1, <2>2, Zenon DEF Uploads, owner
  <2>4. down' \in Seq(Notices) /\ Range(down') \subseteq Range(down)
    BY <2>1, TakeNotice, Zenon
  <2>5. MoreTypes'
    BY <2>1, <2>3, <2>4, Zenon DEF RInv, MoreTypes, owner, relay, ghost
  <2> QED BY <2>1, <2>3, <2>4, <2>5, QuietStep, Zenon DEF owner, relay, ghost
<1>2. CASE HandleLow
  BY <1>0, <1>2, ReplenishKeeps, Zenon DEF HandleLow
<1>3. CASE ConfirmAccepted
  <2>1. PICK u : u = Head(down).first
    BY Zenon
  <2>2. /\ Without(outbox, u) \in Seq(Nat) /\ Range(Without(outbox, u)) \subseteq Range(outbox)
        /\ \A v \in Range(outbox) : v # u => v \in Range(Without(outbox, u))
    BY <1>0, WithoutElem, Zenon
  <2>3. Answered(TRUE) /\ down # <<>> /\ down' = Tail(down)
        /\ UNCHANGED <<online, greeted, reply, old, drops, relay, session, queue, ghost, now>>
    BY <1>3, Zenon DEF ConfirmAccepted, Answered
  <2>4. ~(u > highWater)
    BY <2>1, <2>3, AnswerMeans, Zenon
  <2>5. \A v \in Range(outbox) : v > highWater /\ v \notin refused =>
          v \in Range(Without(outbox, u))
    BY <2>2, <2>4, Zenon
  <2>6. CASE Replenish(Without(outbox, u))
    BY <2>2, <2>3, <2>5, <2>6, ReplenishKeeps, Zenon
  <2>7. CASE /\ outbox' = outbox \/ outbox' = Without(outbox, u)
             /\ UNCHANGED <<priv, nextId, up>>
    <3>1. Uploads' \subseteq Uploads
      BY <2>2, <2>3, <2>7, Zenon DEF Uploads
    <3>2. down' \in Seq(Notices) /\ Range(down') \subseteq Range(down)
      BY <2>3, TakeNotice, Zenon
    <3>3. MoreTypes'
      BY <2>3, <2>7, <3>1, <3>2, Zenon DEF RInv, MoreTypes, relay, ghost
    <3>4. \A v \in Range(outbox) : v > highWater /\ v \notin refused => v \in Range(outbox')
      BY <2>5, <2>7, Zenon
    <3> QED BY <2>3, <2>7, <3>1, <3>2, <3>3, <3>4, QuietStep, Zenon DEF relay, ghost
  <2> QED BY <1>3, <2>1, <2>6, <2>7, Zenon DEF ConfirmAccepted, owner
<1>4. CASE ConfirmRejected
  <2>1. PICK u : u = Head(down).first
    BY Zenon
  <2>2. /\ Without(outbox, u) \in Seq(Nat) /\ Range(Without(outbox, u)) \subseteq Range(outbox)
        /\ \A v \in Range(outbox) : v # u => v \in Range(Without(outbox, u))
    BY <1>0, WithoutElem, Zenon
  <2>3. /\ Answered(FALSE) /\ down # <<>> /\ down' = Tail(down)
        /\ UNCHANGED <<nextId, online, greeted, up, reply, old, drops, relay, session,
                       queue, ghost, now>>
    BY <1>4, Zenon DEF ConfirmRejected, Answered
  <2>4. u \in refused
    BY <2>1, <2>3, AnswerMeans, Zenon
  <2>5. down' \in Seq(Notices) /\ Range(down') \subseteq Range(down)
    BY <2>3, TakeNotice, Zenon
  <2>6. CASE UNCHANGED <<outbox, priv>>
    <3>1. Uploads' \subseteq Uploads
      BY <2>3, <2>6, Zenon DEF Uploads
    <3>2. MoreTypes'
      BY <2>3, <2>5, <2>6, <3>1, Zenon DEF RInv, MoreTypes, relay, ghost
    <3> QED BY <2>3, <2>5, <2>6, <3>1, <3>2, QuietStep, Zenon DEF relay, ghost
  <2>7. CASE /\ u \in Range(outbox) /\ outbox' = Without(outbox, u)
             /\ priv' = [k \in Keys |-> IF k \in KeysOf(u) THEN Absent ELSE priv[k]]
    <3>1. Uploads' \subseteq Uploads
      BY <2>2, <2>3, <2>7, Zenon DEF Uploads
    <3>2. priv' \in [Keys -> Days]
      BY <2>7, Zenon DEF RInv, MoreTypes, Days
    <3>3. MoreTypes'
      BY <2>3, <2>5, <3>1, <3>2, Zenon DEF RInv, MoreTypes, relay, ghost
    <3>4. highWater' \in Nat /\ highWater <= highWater' /\ refused \subseteq refused'
      BY <1>0, <2>3 DEF relay, ghost
    <3>5. AnswersTrue'
      BY <2>3, <2>5, <3>4, AnswersKept, Zenon
    <3>6. ASSUME NEW v \in Range(outbox), v \notin refused,
                 NEW k \in KeysOf(v) \cap Keys, priv[k] # Absent
          PROVE  priv'[k] # Absent
      <4>1. u # v /\ u \in Uploads /\ v \in Uploads
        BY <2>4, <2>7, <3>6, Zenon DEF Uploads
      <4>2. u + Batch <= v \/ v + Batch <= u
        BY <4>1, Zenon DEF PInv, Aligned
      <4>3. u \in Nat /\ v \in Nat
        BY <4>1, Constants, Zenon DEF RInv, MoreTypes
      <4>4. k \notin KeysOf(u)
        BY <4>2, <4>3, Constants DEF KeysOf
      <4> QED BY <2>7, <3>6, <4>4, Zenon
    <3>7. PendingHeld'
      BY <2>2, <2>4, <2>7, <3>1, <3>4, <3>6, PendingKept, Zenon
    <3>8. Retention'
      BY <2>3, <2>4, <2>7, RejectedKeeps, Zenon DEF relay, ghost
    <3> QED BY <3>3, <3>5, <3>7, <3>8, Zenon DEF RInv, Retention
  <2> QED BY <1>4, <2>1, <2>6, <2>7, Zenon DEF ConfirmRejected
<1>5. CASE Connect
  <2>1. PICK n \in 0..Len(old) : old' = SubSeq(old, 1, n)
    BY <1>5, Zenon DEF Connect
  <2>2. old' \in Seq(Nat) /\ Range(old') \subseteq Range(old)
    BY <1>0, <2>1, RangePrefix, Zenon
  <2>3. /\ online' = TRUE /\ greeted' = FALSE /\ down' = Append(down, Authed)
        /\ UNCHANGED <<owner, up, reply, drops, relay, session, queue, ghost, now>>
    BY <1>5, Zenon DEF Connect
  <2>4. Uploads' \subseteq Uploads
    BY <2>2, <2>3, Zenon DEF Uploads, owner
  <2>5. /\ Append(down, Authed) \in Seq(Notices)
        /\ Range(Append(down, Authed)) = Range(down) \cup {Authed}
    BY <1>t, RangeAppend
  <2>6. MoreTypes'
    BY <2>3, <2>4, <2>5, Zenon DEF RInv, MoreTypes, owner, relay, ghost
  <2> QED BY <2>3, <2>4, <2>5, <2>6, QuietStep, Zenon DEF owner, relay, ghost
<1>6. CASE Disconnect
  <2>1. PICK n \in 0..Len(down) : down' = SubSeq(down, 1, n)
    BY <1>6, Zenon DEF Disconnect
  <2>2. down' \in Seq(Notices) /\ Range(down') \subseteq Range(down)
    BY <1>t, <2>1, RangePrefix, Zenon
  <2>3. /\ Abandon /\ drops < MaxDrops /\ drops' = drops + 1
        /\ UNCHANGED <<owner, relay, session, queue, ghost, now>>
    BY <1>6, Zenon DEF Disconnect
  <2>4. Uploads' \subseteq Uploads
    BY <2>3, AbandonRange, Zenon DEF Uploads, owner
  <2>5. online' = FALSE /\ greeted' = FALSE /\ reply' = <<>> /\ Range(reply') = {}
        /\ reply' \in Seq(Notices)
    BY <2>3, RangeEmpty DEF Abandon
  <2>6. drops' \in 0..MaxDrops
    <3>1. drops \in 0..MaxDrops
      BY Zenon DEF RInv, MoreTypes
    <3> QED BY <2>3, <3>1, Periods
  <2>7. MoreTypes'
    BY <2>2, <2>3, <2>4, <2>5, <2>6, Zenon DEF RInv, MoreTypes, owner, relay, ghost
  <2> QED BY <2>2, <2>3, <2>4, <2>5, <2>7, QuietStep, Zenon DEF owner, relay, ghost
<1>7. CASE ConfirmInterrupted
  <2>1. PICK u : u = Head(down).first
    BY Zenon
  <2>2. /\ Answered(TRUE) /\ outbox = <<u>> /\ ~Exhausted /\ outbox' = Append(outbox, nextId)
        /\ nextId' = nextId + Batch /\ priv' = Generated(nextId) /\ Abandon /\ down' = <<>>
        /\ UNCHANGED <<drops, relay, session, queue, ghost, now>>
    BY <1>7, <2>1, Zenon DEF ConfirmInterrupted
  <2>3. ~(u > highWater)
    BY <2>1, <2>2, AnswerMeans, Zenon
  <2>4. \A v \in Range(outbox) : v > highWater => v \in refused
    BY <2>2, <2>3, RangeSingle, Zenon
  <2>5. Range(outbox') = Range(outbox) \cup {nextId}
    <3>1. Range(Append(outbox, nextId)) = Range(outbox) \cup {nextId}
      BY <1>0, RangeAppend
    <3> QED BY <2>2, <3>1, Zenon
  <2>6. Uploads' \subseteq Uploads \cup {nextId} /\ nextId \in Range(outbox')
    BY <2>2, <2>5, AbandonRange, Zenon DEF Uploads
  <2>7. /\ online' = FALSE /\ greeted' = FALSE /\ reply' = <<>> /\ Range(reply') = {}
        /\ reply' \in Seq(Notices) /\ down' \in Seq(Notices) /\ Range(down') = {}
    BY <2>2, RangeEmpty DEF Abandon
  <2>8. drops' \in 0..MaxDrops
    BY <2>2, Zenon DEF RInv, MoreTypes
  <2> QED BY <2>2, <2>4, <2>6, <2>7, <2>8, BatchStep, Zenon
<1>8. ASSUME NEW m \in queue, Open(m) PROVE RInv'
  <2>1. /\ priv' = [k \in Keys |-> IF k = m.key THEN Absent ELSE priv[k]]
        /\ queue' = queue \ {m}
        /\ UNCHANGED <<nextId, outbox, net, relay, session, ghost, now>>
    BY <1>8, Zenon DEF Open
  <2>2. Uploads' \subseteq Uploads
    BY <2>1, Zenon DEF Uploads, net
  <2>3. priv' \in [Keys -> Days]
    BY <2>1, Zenon DEF RInv, MoreTypes, Days
  <2>4. MoreTypes'
    BY <2>1, <2>2, <2>3, Zenon DEF RInv, MoreTypes, net, relay, ghost
  <2>5. highWater' \in Nat /\ highWater <= highWater' /\ refused \subseteq refused'
    BY <1>0, <2>1 DEF relay, ghost
  <2>6. AnswersTrue'
    BY <2>1, <2>5, AnswersKept, Zenon DEF net
  <2>7. ASSUME NEW v \in Range(outbox), v > highWater, NEW k \in KeysOf(v) \cap Keys
        PROVE  priv'[k] = priv[k]
    <3>1. v \in Nat /\ k \in Nat
      BY Constants, RangeElem, <1>0, Zenon
    <3>2. ~(k <= highWater)
      BY <1>0, <2>7, <3>1, Constants DEF KeysOf
    <3>3. m.key = k => handed[k] = 1
      BY PrekeyAssumption, Zenon DEF RInv, UsedOnce
    <3>4. k # m.key
      BY <3>2, <3>3, HandedBelow, Zenon
    <3> QED BY <2>1, <3>4, Zenon
  <2>8. PendingHeld'
    BY <2>1, <2>2, <2>5, <2>7, PendingKept, Zenon
  <2>9. Retention'
    BY <1>8, OpenKeeps, Zenon
  <2> QED BY <2>4, <2>6, <2>8, <2>9, Zenon DEF RInv, Retention
<1> QED BY <1>1, <1>2, <1>3, <1>4, <1>5, <1>6, <1>7, <1>8, Zenon DEF OwnerStep

\* upload_prekeys, for either connection: a stored batch was pending, and the
\* mark rises to its end.
LEMMA StoreAll ==
  ASSUME PInv, RInv, NEW u \in Uploads, Store(u), Uploads' \subseteq Uploads,
         UNCHANGED <<owner, online, greeted, drops, reserved, fetches, session, queue,
                     handed, now>>,
         down' \in Seq(Notices), reply' \in Seq(Notices)
  PROVE  /\ MoreTypes' /\ PendingHeld' /\ Retention'
         /\ highWater' \in Nat /\ highWater <= highWater' /\ refused \subseteq refused'
<1>0. /\ u \in Nat /\ highWater \in Nat /\ u \in Keys
      /\ now \in 0..MaxTime /\ pub \in [Keys -> Days] /\ late \subseteq Keys
  BY Constants, Zenon DEF RInv, MoreTypes, PInv, Types
<1>1. highWater' \in Nat /\ highWater <= highWater'
  <2>1. CASE Verdict(u) = "new"
    <3>1. u > highWater /\ highWater' = MaxId(u)
      BY <2>1, NewIsAbove, Zenon DEF Store
    <3> QED BY <1>0, <3>1, Constants DEF MaxId
  <2>2. CASE Verdict(u) # "new"
    <3>1. highWater' = highWater
      BY <2>2, Zenon DEF Store
    <3> QED BY <1>0, <3>1
  <2> QED BY <2>1, <2>2, Zenon
<1>2. /\ refused \subseteq refused' /\ refused' \subseteq Keys
  BY <1>0, Zenon DEF Store, RInv, MoreTypes
<1>3. late' \subseteq Keys
  BY <1>0, Zenon DEF Store, Held
<1>4. pub' \in [Keys -> Days]
  <2>1. now \in Days /\ Absent \in Days
    BY <1>0 DEF Days
  <2> QED BY <1>0, <2>1, Zenon DEF Store
<1>5. MoreTypes'
  BY <1>2, <1>3, <1>4, Zenon DEF RInv, MoreTypes, owner
<1>6. PendingHeld'
  BY <1>1, <1>2, PendingKept, Zenon DEF owner
<1>7. Retention'
  BY StoreKeeps, Zenon DEF owner
<1> QED BY <1>1, <1>2, <1>5, <1>6, <1>7, Zenon

\* The answer to an upload is true when it is given.
LEMMA ReplyTrue ==
  ASSUME PInv, RInv, NEW u \in Uploads, Store(u)
  PROVE  /\ Reply(u) \in Seq(Notices)
         /\ \A e \in Range(Reply(u)) :
              e.type = "uploaded" =>
                IF e.accepted THEN MaxId(e.first) <= highWater' ELSE e.first \in refused'
<1>0. u \in Nat /\ highWater \in Nat /\ u \in Keys
  BY Constants, Zenon DEF RInv, MoreTypes, PInv, Types
<1>1. ASSUME NEW n \in Counts, NEW ok \in BOOLEAN
      PROVE  /\ Uploaded(u, ok, n) \in Notices
             /\ Uploaded(u, ok, n).first = u /\ Uploaded(u, ok, n).accepted = ok
             /\ <<Uploaded(u, ok, n)>> \in Seq(Notices)
             /\ Range(<<Uploaded(u, ok, n)>>) = {Uploaded(u, ok, n)}
  <2>1. /\ Uploaded(u, ok, n) \in Notices
        /\ Uploaded(u, ok, n).first = u /\ Uploaded(u, ok, n).accepted = ok
    BY <1>0 DEF Uploaded, Notices
  <2>2. ASSUME NEW e \in Notices PROVE <<e>> \in Seq(Notices)
    OBVIOUS
  <2> QED BY <2>1, <2>2, RangeSingle, Zenon
<1>2. Remaining \in Counts /\ Remaining + Batch \in Counts
  BY Zenon DEF Remaining, Counts, Fresh
<1>3. ASSUME NEW n \in Counts, NEW ok \in BOOLEAN, Reply(u) = <<Uploaded(u, ok, n)>>,
             IF ok THEN MaxId(u) <= highWater' ELSE u \in refused'
      PROVE  /\ Reply(u) \in Seq(Notices)
             /\ \A e \in Range(Reply(u)) :
                  IF e.accepted THEN MaxId(e.first) <= highWater' ELSE e.first \in refused'
  BY <1>1, <1>3, Zenon
<1>4. CASE Verdict(u) = "known"
  <2>1. Reply(u) = <<Uploaded(u, TRUE, Remaining)>>
    BY <1>4, Zenon DEF Reply
  <2>2. MaxId(u) <= highWater /\ highWater' = highWater
    BY <1>4 DEF Verdict, Store
  <2> QED BY <1>2, <1>3, <2>1, <2>2, Zenon
<1>5. CASE Verdict(u) = "sequence"
  <2>1. Reply(u) = <<>>
    BY <1>5 DEF Reply
  <2>2. <<>> \in Seq(Notices)
    OBVIOUS
  <2> QED BY <2>1, <2>2, RangeEmpty, Zenon
<1>6. CASE Verdict(u) = "full"
  <2>1. Reply(u) = <<Uploaded(u, FALSE, Remaining)>>
    BY <1>6, Zenon DEF Reply
  <2>2. ~(u <= highWater)
    BY <1>6 DEF Verdict
  <2>3. u > highWater
    BY <1>0, <2>2
  <2>4. u \in refused'
    BY <1>6, <2>3 DEF Store
  <2> QED BY <1>2, <1>3, <2>1, <2>4, Zenon
<1>7. CASE Verdict(u) = "new"
  <2>1. Reply(u) = <<Uploaded(u, TRUE, Remaining + Batch)>>
    BY <1>7, Zenon DEF Reply
  <2>2. highWater' = MaxId(u) /\ MaxId(u) \in Int
    BY <1>0, <1>7, Constants DEF Store, MaxId
  <2>3. MaxId(u) <= highWater'
    BY <2>2
  <2> QED BY <1>2, <1>3, <2>1, <2>3, Zenon
<1> QED BY <1>4, <1>5, <1>6, <1>7, Zenon DEF Verdict

\* The relay's steps with the owner's connection and uploads.
LEMMA RelayKeeps ==
  ASSUME PInv, RInv, RelayStep
  PROVE  RInv'
<1>0. /\ old \in Seq(Nat) /\ up \in Seq(Nat)
      /\ down \in Seq(Notices) /\ reply \in Seq(Notices)
      /\ Authed \in Notices /\ Low \in Notices
  BY Zenon DEF RInv, MoreTypes, PInv, Types, Notices
<1>1. CASE Greet
  <2>1. /\ UNCHANGED <<priv, pub, reserved, handed, now, late, refused, queue, highWater,
                       nextId, outbox, up, old, online, reply, drops, session, fetches>>
        /\ greeted' \in BOOLEAN /\ down' \in {down, Append(down, Low)}
    BY <1>1, Zenon DEF Greet, owner, relay, ghost
  <2>2. down' \in Seq(Notices) /\ Range(down') \subseteq Range(down) \cup {Low}
    <3>1. CASE down' = down
      BY <1>0, <3>1, Zenon
    <3>2. CASE down' = Append(down, Low)
      <4>1. Append(down, Low) \in Seq(Notices) /\ Range(Append(down, Low)) = Range(down) \cup {Low}
        BY <1>0, RangeAppend
      <4> QED BY <3>2, <4>1, Zenon
    <3> QED BY <2>1, <3>1, <3>2, Zenon
  <2>3. Uploads' = Uploads
    BY <2>1, Zenon DEF Uploads
  <2>4. MoreTypes'
    BY <2>1, <2>2, <2>3, Zenon DEF RInv, MoreTypes
  <2> QED BY <2>1, <2>2, <2>3, <2>4, QuietStep, Zenon
<1>2. CASE SendReply
  <2>1. /\ UNCHANGED <<priv, pub, reserved, handed, now, late, refused, queue, highWater,
                       nextId, outbox, up, old, online, greeted, drops, session, fetches>>
        /\ reply' = <<>> /\ down' = down \o reply
    BY <1>2, Zenon DEF SendReply, owner, relay, ghost
  <2>2. /\ down' \in Seq(Notices) /\ reply' \in Seq(Notices)
        /\ Range(down') = Range(down) \cup Range(reply)
    BY <1>0, <2>1, RangeConcat
  <2>3. Uploads' = Uploads /\ Range(reply') = {}
    BY <2>1, RangeEmpty, Zenon DEF Uploads
  <2>4. MoreTypes'
    BY <2>1, <2>2, <2>3, Zenon DEF RInv, MoreTypes
  <2> QED BY <2>1, <2>2, <2>3, <2>4, QuietStep, Zenon
<1>3. CASE HandleUpload
  <2>1. /\ up # <<>> /\ Store(Head(up)) /\ up' = Tail(up) /\ reply' = Reply(Head(up))
        /\ UNCHANGED <<owner, online, greeted, drops, reserved, fetches, session, queue,
                       handed, now, old, down>>
    BY <1>3, Zenon DEF HandleUpload
  <2>2. Head(up) \in Range(up) /\ Range(up') \subseteq Range(up)
    BY <1>0, <2>1, RangeTail
  <2>3. Head(up) \in Uploads /\ Uploads' \subseteq Uploads
    BY <2>1, <2>2, Zenon DEF Uploads, owner
  <2>4. /\ reply' \in Seq(Notices) /\ down' \in Seq(Notices)
        /\ \A e \in Range(reply') : e.type = "uploaded" =>
             IF e.accepted THEN MaxId(e.first) <= highWater' ELSE e.first \in refused'
    BY <1>0, <2>1, <2>3, ReplyTrue, Zenon
  <2>5. /\ MoreTypes' /\ PendingHeld' /\ Retention'
        /\ highWater' \in Nat /\ highWater <= highWater' /\ refused \subseteq refused'
    BY <2>1, <2>3, <2>4, StoreAll, Zenon
  <2>6. \A e \in Range(down') : e.type = "uploaded" =>
          IF e.accepted THEN MaxId(e.first) <= highWater' ELSE e.first \in refused'
    <3>1. SUFFICES ASSUME NEW e \in Range(down), e.type = "uploaded"
                   PROVE  IF e.accepted THEN MaxId(e.first) <= highWater'
                                        ELSE e.first \in refused'
      BY <2>1, Zenon
    <3>2. IF e.accepted THEN MaxId(e.first) <= highWater ELSE e.first \in refused
      BY <3>1, Zenon DEF RInv, AnswersTrue
    <3>3. e \in Notices
      BY <1>0, <3>1, RangeElem, Zenon
    <3>4. e.first \in Keys
      BY <3>1, <3>3 DEF Notices, Authed, Low
    <3>5. MaxId(e.first) \in Int /\ highWater \in Int
      BY <3>4, Constants DEF MaxId, PInv, Types
    <3> QED BY <2>5, <3>2, <3>5
  <2>7. AnswersTrue'
    BY <2>4, <2>6, Zenon DEF AnswersTrue, MaxId
  <2> QED BY <2>5, <2>7, Zenon DEF RInv, Retention
<1>4. CASE HandleOldUpload
  <2>1. /\ old # <<>> /\ Store(Head(old)) /\ old' = Tail(old)
        /\ UNCHANGED <<owner, online, greeted, drops, reserved, fetches, session, queue,
                       handed, now, up, down, reply>>
    BY <1>4, Zenon DEF HandleOldUpload
  <2>2. Head(old) \in Range(old) /\ Range(old') \subseteq Range(old)
    BY <1>0, <2>1, RangeTail
  <2>3. Head(old) \in Uploads /\ Uploads' \subseteq Uploads
    BY <2>1, <2>2, Zenon DEF Uploads, owner
  <2>4. reply' \in Seq(Notices) /\ down' \in Seq(Notices)
    BY <1>0, <2>1, Zenon
  <2>5. /\ MoreTypes' /\ PendingHeld' /\ Retention'
        /\ highWater' \in Nat /\ highWater <= highWater' /\ refused \subseteq refused'
    BY <2>1, <2>3, <2>4, StoreAll, Zenon
  <2>6. AnswersTrue'
    BY <2>1, <2>5, AnswersKept, Zenon
  <2> QED BY <2>5, <2>6, Zenon DEF RInv, Retention
<1> QED BY <1>1, <1>2, <1>3, <1>4, Zenon DEF RelayStep

\* What a requester does, and the passing of time.
LEMMA RequesterKeeps ==
  ASSUME PInv, RInv, NextWindow \/ NextDay
               \/ \E r \in Requesters : Fetch(r) \/ Count(r) \/ Answer(r) \/ Encrypt(r)
                                          \/ Admit(r)
  PROVE  RInv'
<1>0. /\ down \in Seq(Notices) /\ Low \in Notices /\ now \in Nat /\ highWater \in Nat
      /\ session \in [Requesters -> Sessions] /\ fetches \in [Requesters -> 0..PerRequester]
  BY Zenon DEF RInv, MoreTypes, PInv, Types, Notices
<1>p. PerRequester \in Nat /\ MaxTime \in Nat /\ Reservation \in Nat
  BY PrekeyAssumption
<1>1. ASSUME NEW r \in Requesters, NEW s \in Sessions,
             session' = [session EXCEPT ![r] = s]
      PROVE  session' \in [Requesters -> Sessions]
  BY <1>0, <1>1, Zenon
<1>2. ASSUME UNCHANGED <<priv, nextId, outbox, up, old, online, greeted, reply, drops,
                         highWater, late, refused>>,
             down' = down, Retention', now' \in 0..MaxTime,
             pub' \in [Keys -> Days],
             reserved' \subseteq [by : Requesters, key : Keys, until : Nat],
             fetches' \in [Requesters -> 0..PerRequester],
             session' \in [Requesters -> Sessions],
             queue' \subseteq [from : Requesters, key : KeyOrNone, at : Nat]
      PROVE  RInv'
  <2>1. Uploads' = Uploads
    BY <1>2, Zenon DEF Uploads
  <2>2. MoreTypes'
    BY <1>2, <2>1, Zenon DEF RInv, MoreTypes
  <2>3. AnswersTrue'
    BY <1>2, Zenon DEF RInv, AnswersTrue
  <2>4. PendingHeld'
    BY <1>2, <2>1, Zenon DEF RInv, PendingHeld, Held
  <2> QED BY <1>2, <2>2, <2>3, <2>4, Zenon DEF RInv, Retention
<1>3. ASSUME UNCHANGED <<priv, nextId, outbox, up, old, online, greeted, reply, drops,
                         highWater, late, refused, pub, reserved, handed, now, queue>>,
             down' \in {down, Append(down, Low)},
             fetches' \in [Requesters -> 0..PerRequester],
             session' \in [Requesters -> Sessions]
      PROVE  RInv'
  <2>1. Uploads' = Uploads
    BY <1>3, Zenon DEF Uploads
  <2>2. down' \in Seq(Notices) /\ Range(down') \subseteq Range(down) \cup {Low}
    <3>1. CASE down' = down
      BY <1>0, <3>1, Zenon
    <3>2. CASE down' = Append(down, Low)
      <4>1. Append(down, Low) \in Seq(Notices) /\ Range(Append(down, Low)) = Range(down) \cup {Low}
        BY <1>0, RangeAppend
      <4> QED BY <3>2, <4>1, Zenon
    <3> QED BY <1>3, <3>1, <3>2, Zenon
  <2>3. MoreTypes'
    BY <1>3, <2>1, <2>2, Zenon DEF RInv, MoreTypes
  <2> QED BY <1>3, <2>1, <2>2, <2>3, QuietStep, Zenon
<1>4. CASE NextWindow
  <2>1. fetches' \in [Requesters -> 0..PerRequester]
    <3>1. 0 \in 0..PerRequester
      BY <1>p
    <3> QED BY <1>4, <3>1, Zenon DEF NextWindow
  <2> QED BY <1>0, <1>3, <1>4, <2>1, Zenon DEF NextWindow, owner, net, ghost
<1>5. CASE NextDay
  <2>1. fetches' \in [Requesters -> 0..PerRequester] /\ now' \in 0..MaxTime
    <3>1. now < MaxTime /\ now' = now + 1
      BY <1>5, Zenon DEF NextDay
    <3>2. now' \in 0..MaxTime
      BY <1>0, <1>p, <3>1
    <3>3. 0 \in 0..PerRequester
      BY <1>p
    <3>4. fetches' = [r \in Requesters |-> 0]
      BY <1>5, Zenon DEF NextDay
    <3> QED BY <3>2, <3>3, <3>4, Zenon
  <2>2. Retention'
    BY <1>5, NextDayKeeps, Zenon
  <2>3. queue' \subseteq queue
    BY <1>5, Zenon DEF NextDay
  <2>4. /\ pub \in [Keys -> Days] /\ queue \subseteq [from : Requesters, key : KeyOrNone, at : Nat]
        /\ reserved \subseteq [by : Requesters, key : Keys, until : Nat]
    BY Zenon DEF RInv, MoreTypes
  <2>5. UNCHANGED <<priv, nextId, outbox, up, old, online, greeted, reply, drops,
                    highWater, late, refused, pub, reserved, session, down>>
    BY <1>5, Zenon DEF NextDay, owner, net, ghost
  <2> QED BY <1>0, <1>2, <2>1, <2>2, <2>3, <2>4, <2>5, Zenon
<1>6. ASSUME NEW r \in Requesters, Count(r) PROVE RInv'
  <2>0. session[r] \in Sessions /\ session[r].st \notin {"idle", "admitted"}
    <3>1. session[r].st = "asked"
      BY <1>6, Zenon DEF Count
    <3>2. "asked" \notin {"idle", "admitted"}
      BY Zenon
    <3> QED BY <1>0, <3>1, <3>2, Zenon
  <2>1. session[r].key \in KeyOrNone
    BY <2>0, SessionShape, Zenon
  <2>2. (Remaining < LowThreshold) \in BOOLEAN
    OBVIOUS
  <2>3. Counted(session[r].key, Remaining < LowThreshold) \in Sessions
    BY <2>1, <2>2, Zenon DEF Counted, Sessions
  <2>4. session' = [session EXCEPT ![r] = Counted(session[r].key, Remaining < LowThreshold)]
    BY <1>6, Zenon DEF Count
  <2>5. session' \in [Requesters -> Sessions]
    BY <1>1, <2>3, <2>4, Zenon
  <2> QED BY <1>0, <1>3, <1>6, <2>5, Zenon DEF Count, owner, net, relay, ghost
<1>7. ASSUME NEW r \in Requesters, Answer(r) PROVE RInv'
  <2>0. session[r] \in Sessions /\ session[r].st \notin {"idle", "admitted"}
    <3>1. session[r].st = "counted"
      BY <1>7, Zenon DEF Answer
    <3>2. "counted" \notin {"idle", "admitted"}
      BY Zenon
    <3> QED BY <1>0, <3>1, <3>2, Zenon
  <2>1. session[r].key \in KeyOrNone
    BY <2>0, SessionShape, Zenon
  <2>2. now + Reservation \in Nat
    BY <1>0, <1>p
  <2>3. Holding(session[r].key, now + Reservation) \in Sessions /\ Idle \in Sessions
    BY <2>1, <2>2, Zenon DEF Holding, Sessions
  <2>4. \E s \in Sessions : session' = [session EXCEPT ![r] = s]
    BY <1>7, <2>3, Zenon DEF Answer
  <2>5. session' \in [Requesters -> Sessions]
    BY <1>1, <2>4, Zenon
  <2>6. down' \in {down, Append(down, Low)}
    BY <1>7, Zenon DEF Answer
  <2> QED BY <1>0, <1>3, <1>7, <2>5, <2>6, Zenon DEF Answer, owner, relay, ghost
<1>8. ASSUME NEW r \in Requesters, Encrypt(r) PROVE RInv'
  <2>0. session[r] \in Sessions /\ session[r].st \notin {"idle", "admitted"}
    <3>1. session[r].st = "holding"
      BY <1>8, Zenon DEF Encrypt
    <3>2. "holding" \notin {"idle", "admitted"}
      BY Zenon
    <3> QED BY <1>0, <3>1, <3>2, Zenon
  <2>1. session[r].key \in KeyOrNone
    BY <2>0, SessionShape, Zenon
  <2>2. Sending(session[r].key) \in Sessions /\ Idle \in Sessions
    BY <2>1, Zenon DEF Sending, Sessions
  <2>3. \E s \in Sessions : session' = [session EXCEPT ![r] = s]
    BY <1>8, <2>2, Zenon DEF Encrypt
  <2>4. session' \in [Requesters -> Sessions]
    BY <1>1, <2>3, Zenon
  <2> QED BY <1>0, <1>3, <1>8, <2>4, Zenon DEF Encrypt, owner, net, relay, ghost
<1>9. ASSUME NEW r \in Requesters, Admit(r) PROVE RInv'
  <2>0. session[r] \in Sessions /\ session[r].st \notin {"idle", "admitted"}
    <3>1. session[r].st = "sending"
      BY <1>9, Zenon DEF Admit
    <3>2. "sending" \notin {"idle", "admitted"}
      BY Zenon
    <3> QED BY <1>0, <3>1, <3>2, Zenon
  <2>1. session[r].key \in KeyOrNone
    BY <2>0, SessionShape, Zenon
  <2>2. Admitted \in Sessions /\ Idle \in Sessions
    BY Zenon DEF Sessions
  <2>3. \E s \in Sessions : session' = [session EXCEPT ![r] = s]
    BY <1>9, <2>2, Zenon DEF Admit
  <2>4. session' \in [Requesters -> Sessions]
    BY <1>1, <2>3, Zenon
  <2>5. reserved' \subseteq reserved
    BY <1>9, Zenon DEF Admit, Valid
  <2>6. queue' \subseteq queue \cup {[from |-> r, key |-> session[r].key, at |-> now]}
    BY <1>9, Zenon DEF Admit
  <2>7. [from |-> r, key |-> session[r].key, at |-> now]
          \in [from : Requesters, key : KeyOrNone, at : Nat]
    BY <1>0, <2>1, Zenon
  <2>8. /\ pub \in [Keys -> Days] /\ queue \subseteq [from : Requesters, key : KeyOrNone, at : Nat]
        /\ reserved \subseteq [by : Requesters, key : Keys, until : Nat] /\ now \in 0..MaxTime
    BY Zenon DEF RInv, MoreTypes
  <2>9. UNCHANGED <<priv, nextId, outbox, up, old, online, greeted, reply, drops,
                    highWater, late, refused, pub, down, now, fetches>>
    BY <1>9, Zenon DEF Admit, owner, net, ghost
  <2>10. Retention'
    BY <1>9, AdmitKeeps, Zenon
  <2>11. queue' \subseteq [from : Requesters, key : KeyOrNone, at : Nat]
    BY <2>6, <2>7, <2>8, Zenon
  <2> QED BY <1>0, <1>2, <2>4, <2>5, <2>8, <2>9, <2>10, <2>11, Zenon
<1>10. ASSUME NEW r \in Requesters, Fetch(r) PROVE RInv'
  <2>1. /\ pub \in [Keys -> Days] /\ queue \subseteq [from : Requesters, key : KeyOrNone, at : Nat]
        /\ reserved \subseteq [by : Requesters, key : Keys, until : Nat] /\ now \in 0..MaxTime
        /\ Absent \in Days /\ Fresh \subseteq Keys /\ Valid \subseteq reserved
    BY Zenon DEF RInv, MoreTypes, Days, Fresh, Valid
  <2>2. UNCHANGED <<priv, nextId, outbox, up, old, online, greeted, reply, drops,
                    highWater, late, refused, down, now, queue>>
    BY <1>10, Zenon DEF Fetch, owner, net, relay
  <2>3. Retention'
    BY <1>10, FetchKeeps, Zenon
  <2>4. \A k \in KeyOrNone : Asked(k) \in Sessions
    BY Zenon DEF Asked, Sessions
  <2>5. \E k \in KeyOrNone : session' = [session EXCEPT ![r] = Asked(k)]
    BY <1>10, <2>1, Zenon DEF Fetch, KeyOrNone
  <2>6. session' \in [Requesters -> Sessions]
    BY <1>1, <2>4, <2>5, Zenon
  <2>7. pub' \in [Keys -> Days]
    <3>1. ASSUME NEW k, pub' = [x \in Keys |-> IF x \in Fresh \ {k} THEN pub[x] ELSE Absent]
          PROVE  pub' \in [Keys -> Days]
      BY <2>1, <3>1, Zenon
    <3>2. ASSUME pub' = [k \in Keys |-> Absent] PROVE pub' \in [Keys -> Days]
      BY <2>1, <3>2, Zenon
    <3> QED BY <1>10, <2>1, <3>1, <3>2, Zenon DEF Fetch, relay
  <2>8. fetches' \in [Requesters -> 0..PerRequester]
    <3>1. fetches[r] < PerRequester /\ fetches' \in {fetches, [fetches EXCEPT ![r] = @ + 1]}
      BY <1>10, Zenon DEF Fetch, relay
    <3>2. fetches[r] + 1 \in 0..PerRequester
      BY <1>0, <1>p, <3>1
    <3> QED BY <1>0, <3>1, <3>2, Zenon
  <2>9. reserved' \subseteq [by : Requesters, key : Keys, until : Nat]
    <3>1. now + Reservation \in Nat
      BY <1>0, <1>p
    <3>2. \A k \in Fresh : [by |-> r, key |-> k, until |-> now + Reservation]
                             \in [by : Requesters, key : Keys, until : Nat]
      BY <2>1, <3>1, Zenon
    <3>3. \/ reserved' \subseteq reserved
          \/ \E k \in Fresh :
               reserved' = Valid \cup {[by |-> r, key |-> k, until |-> now + Reservation]}
      BY <1>10, <2>1, Zenon DEF Fetch, relay
    <3> QED BY <2>1, <3>2, <3>3, Zenon
  <2> QED BY <1>2, <2>1, <2>2, <2>3, <2>6, <2>7, <2>8, <2>9, Zenon
<1> QED BY <1>4, <1>5, <1>6, <1>7, <1>8, <1>9, <1>10, Zenon

-----------------------------------------------------------------------------
(* The theorems *)

\* Every step keeps the invariant.
LEMMA NextPInv == PInv /\ [Next]_vars => PInv'
<1> SUFFICES ASSUME PInv, [Next]_vars PROVE PInv'
  OBVIOUS
<1>1. CASE UNCHANGED vars
  BY <1>1 DEF vars, owner, net, relay, ghost, PInv, Types, Inventory, Aligned, Uploads,
     HandedOutOnce, MaxId
<1>2. CASE Next
  BY <1>2, OwnerSteps, OtherSteps DEF Next
<1> QED BY <1>1, <1>2

\* Registration: the first batch is offered, and nothing else is there.
LEMMA InitRInv == Init => RInv
<1> SUFFICES ASSUME Init PROVE RInv
  OBVIOUS
<1>1. /\ Range(outbox) = {} /\ Range(up) = {} /\ Range(old) = {}
      /\ Range(down) = {} /\ Range(reply) = {}
  BY RangeEmpty, Zenon DEF Init
<1>2. MoreTypes
  <2>1. 0 \in Days /\ Absent \in Days /\ Batch + 1 \in Keys /\ 0 \in 0..PerRequester
        /\ 0 \in 0..MaxTime /\ 0 \in 0..MaxDrops
    BY PrekeyAssumption DEF Days, Keys
  <2>a. <<>> \in Seq(Notices)
    OBVIOUS
  <2>2. down \in Seq(Notices) /\ reply \in Seq(Notices)
    BY <2>a, Zenon DEF Init
  <2>3. Uploads = {}
    BY <1>1, Zenon DEF Uploads
  <2>4. Idle \in Sessions
    BY Zenon DEF Sessions
  <2> QED BY <2>1, <2>2, <2>3, <2>4, Zenon DEF Init, MoreTypes
<1>3. AnswersTrue /\ PendingHeld
  BY <1>1, Zenon DEF AnswersTrue, PendingHeld, Uploads
<1>4. OfferedKept
  <2>1. SUFFICES ASSUME NEW k \in Fresh PROVE priv[k] # Absent /\ priv[k] >= pub[k] - Slack
    BY Zenon DEF OfferedKept, Kept
  <2>2. k \in Keys /\ pub[k] # Absent
    BY Zenon DEF Fresh
  <2>3. priv[k] = 0 /\ pub[k] = 0
    BY <2>2, Zenon DEF Init
  <2> QED BY <2>3, Periods DEF Absent
<1>5. ReservedKept /\ QueuedKept /\ UsedOnce
  BY Zenon DEF Init, ReservedKept, QueuedKept, UsedOnce, Valid
<1> QED BY <1>2, <1>3, <1>4, <1>5, Zenon DEF RInv

\* Every step keeps it.
LEMMA NextRInv == PInv /\ RInv /\ [Next]_vars => RInv'
<1> SUFFICES ASSUME PInv, RInv, [Next]_vars PROVE RInv'
  OBVIOUS
<1>1. CASE UNCHANGED vars
  <2>1. UNCHANGED <<priv, pub, reserved, handed, now, late, refused, queue, highWater,
                    nextId, outbox, up, old, online, greeted, reply, drops, session,
                    fetches, down>>
    BY <1>1, Zenon DEF vars, owner, net, relay, ghost
  <2>2. Uploads' = Uploads
    BY <2>1, Zenon DEF Uploads
  <2>3. MoreTypes'
    BY <2>1, <2>2, Zenon DEF RInv, MoreTypes
  <2> QED BY <2>1, <2>2, <2>3, QuietStep, Zenon
<1>2. CASE Next
  BY <1>2, OwnerKeeps, RelayKeeps, RequesterKeeps, Zenon DEF Next
<1> QED BY <1>1, <1>2, Zenon

\* The inductive invariant holds in every reachable state.
THEOREM PInvHolds == Spec => []PInv
<1>1. Init => PInv
  BY InitPInv
<1>2. PInv /\ [Next]_vars => PInv'
  BY NextPInv
<1> QED BY <1>1, <1>2, PTL DEF Spec

\* upload_prekeys and fetch_for_requester hand out every one-time prekey at
\* most once, however often and late its upload is repeated.
THEOREM PrekeyHandedOutOnce == Spec => []HandedOutOnce
<1>1. PInv => HandedOutOnce
  BY DEF PInv, Inventory
<1> QED BY <1>1, PInvHolds, PTL

\* No upload in the owner's outbox straddles the relay's high-water mark, so
\* that every one of them can be answered.
THEOREM UploadNeverStuck == Spec => []NoUploadStuck
<1>1. PInv => NoUploadStuck
  BY DEF PInv, Aligned, Uploads, NoUploadStuck
<1> QED BY <1>1, PInvHolds, PTL

\* The two inductive invariants hold in every reachable state.
THEOREM RInvHolds == Spec => [](PInv /\ RInv)
<1>1. Init => PInv /\ RInv
  BY InitPInv, InitRInv
<1>2. PInv /\ RInv /\ [Next]_vars => PInv' /\ RInv'
  BY NextPInv, NextRInv
<1> QED BY <1>1, <1>2, PTL DEF Spec

\* Every variable has its type: in particular every upload is a whole batch of
\* 32-bit identifiers (generate_one_time_prekeys).
THEOREM TypeCorrect == Spec => []TypeOK
<1>1. ASSUME PInv, RInv PROVE TypeOK
  <2>1. \A u \in Uploads : u \in Keys /\ MaxId(u) \in Keys
    <3>1. SUFFICES ASSUME NEW u \in Uploads PROVE u \in Keys /\ MaxId(u) \in Keys
      OBVIOUS
    <3>2. u \in Keys /\ nextId \in Keys
      BY <1>1, Zenon DEF RInv, MoreTypes
    <3>3. u + Batch <= nextId
      BY <1>1, Zenon DEF PInv, Aligned
    <3> QED BY <3>2, <3>3, Constants DEF Keys, MaxId
  <2>2. highWater \in 0..MaxKey
    <3>1. nextId \in Keys /\ highWater < nextId /\ highWater \in Nat
      BY <1>1, Zenon DEF RInv, MoreTypes, PInv, Aligned, Types
    <3> QED BY <3>1, Constants DEF Keys
  <2>3. \A e \in Range(down) \cup Range(reply) : e \notin {Authed, Low} =>
          e.type = "uploaded" /\ e.first \in Keys /\ e.accepted \in BOOLEAN
    <3>1. SUFFICES ASSUME NEW e \in Range(down) \cup Range(reply), e \notin {Authed, Low}
                   PROVE  e.type = "uploaded" /\ e.first \in Keys /\ e.accepted \in BOOLEAN
      OBVIOUS
    <3>2. down \in Seq(Notices) /\ reply \in Seq(Notices)
      BY <1>1, Zenon DEF RInv, MoreTypes
    <3>3. e \in Notices
      BY <3>2, RangeElem, Zenon
    <3> QED BY <3>1, <3>3 DEF Notices
  <2>4. \A r \in Requesters :
          session[r].st \in {"idle", "asked", "counted", "holding", "sending", "admitted"}
    <3>1. SUFFICES ASSUME NEW r \in Requesters
                   PROVE  session[r].st \in {"idle", "asked", "counted", "holding", "sending",
                                             "admitted"}
      OBVIOUS
    <3>2. session[r] \in Sessions
      BY <1>1, Zenon DEF RInv, MoreTypes
    <3> QED BY <3>2, SessionShape, Zenon DEF States
  <2> QED BY <1>1, <2>1, <2>2, <2>3, <2>4, Zenon
             DEF TypeOK, RInv, MoreTypes, PInv, Types, Uploads, KeyOrNone
<1>2. PInv /\ RInv => TypeOK
  BY <1>1
<1> QED BY <1>2, RInvHolds, PTL

\* The owner has the private key of every prekey the relay may still hand out,
\* unless its upload was late or refused before: a retried upload is answered
\* as the first attempt was stored (upload_prekeys, confirm_outbox_item), and
\* generate_one_time_prekeys prunes a private key only when it is no longer
\* offered.
THEOREM OwnerHoldsOfferedKeys == Spec => []OfferedAreHeld
<1>1. ASSUME RInv PROVE OfferedAreHeld
  BY <1>1, Zenon DEF RInv, OfferedKept, OfferedAreHeld, Kept, Held, Fresh
<1>2. PInv /\ RInv => OfferedAreHeld
  BY <1>1
<1> QED BY <1>2, RInvHolds, PTL

\* The private key of every admitted first message is there for as long as the
\* message may be queued: ONE_TIME_PREKEY_PRIVATE_RETENTION_SECS covers the
\* offer, the reservation and the queue, and claim_prekey_reservation admits
\* one message for a key.
THEOREM FirstMessagesCanBeOpened == Spec => []AdmittedCanBeOpened
<1>1. ASSUME RInv PROVE AdmittedCanBeOpened
  <2>1. SUFFICES ASSUME NEW m \in queue, m.key # NoKey PROVE m.key \in Held \cup Excused
    BY Zenon DEF AdmittedCanBeOpened
  <2>2. m.key \in Keys
    BY <1>1, <2>1, Zenon DEF RInv, MoreTypes, KeyOrNone
  <2> QED BY <1>1, <2>1, <2>2, Zenon DEF RInv, QueuedKept, Kept, Held
<1>2. PInv /\ RInv => AdmittedCanBeOpened
  BY <1>1
<1> QED BY <1>2, RInvHolds, PTL

=============================================================================
