------------------------ MODULE SignedPrekeysSafety ------------------------
(***************************************************************************)
(* SignedPrekeys, for every value of its constants: the relay never lists  *)
(* two keys under one identifier, the owner never holds two, and it does   *)
(* not discard a key that is listed or that a queued message needs.        *)
(***************************************************************************)
EXTENDS SignedPrekeys, ChannelLemmas

KeyRecords == [id : Nat, gen : Nat]

\* Newest first.
Ordered(s) == \A i, j \in 1..Len(s) : i < j => s[j].id < s[i].id

\* The owner's keys: the current one is the newest, the next one newer still.
OwnerKeys(k, p, n, it) ==
  /\ k \in KeyRecords /\ p \in Seq(KeyRecords) /\ n \in Nat
  /\ it \in KeyRecords \cup {NoKey}
  /\ k.id < n /\ Ordered(p) /\ \A i \in 1..Len(p) : p[i].id < k.id

AllEvents == {Authed, Lost} \cup
  [type : {"rotated"}, key : KeyRecords, accepted : BOOLEAN,
   previously_accepted : BOOLEAN, current : Nat]

\* What is on its way.
Transit ==
  /\ made \in Nat /\ up \in Seq(KeyRecords) /\ old \in Seq(KeyRecords)
  /\ down \in Seq(AllEvents)

\* The newest key ever published is still listed.
Listing ==
  /\ table \subseteq published /\ published \subseteq KeyRecords
  /\ \E top \in table : \A k \in published : k.id <= top.id
  /\ PublishedOncePerId

\* The inductive invariant.
SInv ==
  /\ OwnerKeys(spk, previous, nextId, item)
  /\ OwnerKeys(backup[1], backup[2], backup[3], backup[5])
  /\ Transit /\ Listing

-----------------------------------------------------------------------------
(* What was published, and what is kept of it *)

\* Every key of the owner was published, except one whose rotation is pending.
Confirmed(k, p, it) ==
  /\ it \in {NoKey, k} /\ Range(p) \subseteq published
  /\ it = NoKey => k \in published

\* What an answer says of its key stays true.
AnswerTrue(e) ==
  /\ e.accepted => e.current = e.key.id /\ e.key \in published
  /\ e.previously_accepted => e.key \in published
  /\ ~e.accepted /\ ~e.previously_accepted => e.key \notin table /\ e.key.id <= Current.id

\* The relay lists the two newest of the published keys.
PubInv ==
  /\ Confirmed(spk, previous, item) /\ Confirmed(backup[1], backup[2], backup[5])
  /\ table = Newest(published)
  /\ \A e \in Range(down) : e.type = "rotated" => AnswerTrue(e)

\* The owner's key is the newest, and the only one that is still to be published.
NoneNewer ==
  /\ Range(up) \cup Range(old) \subseteq published \cup {spk}
  /\ \A k \in published : k.id <= spk.id /\ (k.id = spk.id => k = spk)

\* Only an older key is refused.
RefusedOlder ==
  \A e \in Range(down) : e.type = "rotated" /\ ~e.accepted => e.key.id < spk.id

\* A published key that was discarded is older than the whole history.
DiscardedOlder ==
  \A k \in published \ Held :
    Len(previous) >= History /\ \A i \in 1..Len(previous) : k.id < previous[i].id

\* The n newest keys of the history.
Recent(n) == {previous[i] : i \in 1..Len(previous) \cap 1..n}

\* The key of a queued message is young enough to be kept until the message is
\* collected.
QueuedKept ==
  msg.st = "queued" => /\ msg.at \in Nat /\ msg.at <= now
                       /\ \/ now - msg.at >= Retention
                          \/ msg.key \in {spk} \cup Recent(2)
                          \/ msg.key \in Recent(3) /\ rotatedAt >= msg.at

\* Messages use published keys; time.
Usage ==
  /\ msg.st \in {"fetching", "holding", "sending", "queued"} => msg.key \in published
  /\ now \in Nat /\ rotatedAt \in Nat /\ 1 <= rotatedAt /\ rotatedAt <= now

\* As long as no backup was restored.
UInv ==
  /\ restores \in Nat
  /\ restores = 0 => NoneNewer /\ RefusedOlder /\ DiscardedOlder /\ QueuedKept /\ Usage

-----------------------------------------------------------------------------
(* Types and bounds *)

\* Identifiers below u32::MAX, of keys that were generated.
Bounded(k) == k.id < MaxId /\ k.gen < made

\* Every key there is, but those of answers and of the message.
Known == Held \cup published \cup Range(up) \cup Range(old) \cup {backup[1]} \cup Range(backup[2])

KeyStates == {"fetching", "holding", "sending", "queued"}

KeyBounds ==
  /\ \A k \in Known : Bounded(k)
  /\ \A e \in Range(down) : e.type = "rotated" => Bounded(e.key) /\ e.current < MaxId
  /\ msg.st \in KeyStates => Bounded(msg.key)

\* The length of a history p, the next identifier, and when the key was made.
OwnerBounds(p, n, r, it) ==
  /\ Len(p) <= History + (IF it = NoKey THEN 0 ELSE 1)
  /\ n \in 1..MaxId /\ r \in 1..now

MessageTypes ==
  /\ msg \in [st : {"idle", "opened", "expired"}]
       \cup [st : {"fetching"}, key : KeyRecords]
       \cup [st : {"holding", "sending"}, key : KeyRecords, otk : BOOLEAN, until : Nat]
       \cup [st : {"queued"}, key : KeyRecords, at : Nat]
  /\ msg.st = "queued" => msg.at \in 1..now

\* The bounds of the model and the flags.
Rest ==
  /\ now \in 1..MaxTime /\ drops \in 0..MaxDrops /\ restores \in 0..MaxRestores
  /\ online \in BOOLEAN /\ authed \in BOOLEAN

Bounds ==
  /\ KeyBounds /\ MessageTypes /\ Rest
  /\ OwnerBounds(previous, nextId, rotatedAt, item)
  /\ OwnerBounds(backup[2], backup[3], backup[4], backup[5])

-----------------------------------------------------------------------------
(* Maximum, minimum, truncation *)

\* The maximum of two or three numbers.
LEMMA MaxOf ==
  /\ \A a, b \in Nat : Max({a, b}) \in Nat /\ Max({a, b}) >= a /\ Max({a, b}) >= b
  /\ \A a, b, c \in Nat : /\ Max({a, b, c}) \in Nat
                          /\ Max({a, b, c}) >= a /\ Max({a, b, c}) >= b
<1>1. ASSUME NEW a \in Nat, NEW b \in Nat
      PROVE  Max({a, b}) \in Nat /\ Max({a, b}) >= a /\ Max({a, b}) >= b
  <2>1. \E x \in {a, b} : \A y \in {a, b} : x >= y
    OBVIOUS
  <2>2. Max({a, b}) \in {a, b} /\ \A y \in {a, b} : Max({a, b}) >= y
    BY <2>1 DEF Max
  <2> QED BY <2>2
<1>2. ASSUME NEW a \in Nat, NEW b \in Nat, NEW c \in Nat
      PROVE  Max({a, b, c}) \in Nat /\ Max({a, b, c}) >= a /\ Max({a, b, c}) >= b
  <2>1. \E x \in {a, b, c} : \A y \in {a, b, c} : x >= y
    OBVIOUS
  <2>2. Max({a, b, c}) \in {a, b, c} /\ \A y \in {a, b, c} : Max({a, b, c}) >= y
    BY <2>1 DEF Max
  <2> QED BY <2>2
<1> QED BY <1>1, <1>2

\* The minimum of two.
LEMMA MinOf ==
  ASSUME NEW a \in Nat, NEW b \in Nat
  PROVE  Min({a, b}) \in 0..a /\ Min({a, b}) = IF a <= b THEN a ELSE b
<1>1. \E x \in {a, b} : \A y \in {a, b} : x <= y
  OBVIOUS
<1>2. Min({a, b}) \in {a, b} /\ \A y \in {a, b} : Min({a, b}) <= y
  BY <1>1 DEF Min
<1> QED BY <1>2

\* Putting a newer key in front of an ordered history.
LEMMA FrontOrdered ==
  ASSUME NEW k \in KeyRecords, NEW p \in Seq(KeyRecords), Ordered(p),
         \A i \in 1..Len(p) : p[i].id < k.id
  PROVE  /\ <<k>> \o p \in Seq(KeyRecords) /\ Ordered(<<k>> \o p)
         /\ Len(<<k>> \o p) = Len(p) + 1
         /\ \A i \in 1..(Len(p) + 1) :
              (<<k>> \o p)[i] = IF i = 1 THEN k ELSE p[i - 1]
<1> DEFINE s == <<k>> \o p
<1>1. s \in Seq(KeyRecords) /\ Len(s) = Len(p) + 1 /\ Len(p) \in Nat
  OBVIOUS
<1>2. \A i \in 1..(Len(p) + 1) : s[i] = IF i = 1 THEN k ELSE p[i - 1]
  OBVIOUS
<1> HIDE DEF s
<1>3. ASSUME NEW i \in 1..Len(s), NEW j \in 1..Len(s), i < j PROVE s[j].id < s[i].id
  <2>1. j # 1 /\ j - 1 \in 1..Len(p) /\ s[j] = p[j - 1]
    BY <1>1, <1>2, <1>3
  <2>2. CASE i = 1
    BY <1>1, <1>2, <2>1, <2>2
  <2>3. CASE i # 1
    <3>1. i - 1 \in 1..Len(p) /\ s[i] = p[i - 1] /\ i - 1 < j - 1
      BY <1>1, <1>2, <1>3, <2>3
    <3> QED BY <2>1, <3>1 DEF Ordered
  <2> QED BY <2>2, <2>3
<1> QED BY <1>1, <1>2, <1>3 DEF Ordered, s

\* Truncating a history keeps its order and adds no key.
LEMMA TruncatedOrdered ==
  ASSUME NEW p \in Seq(KeyRecords), Ordered(p)
  PROVE  /\ Truncated(p) \in Seq(KeyRecords) /\ Ordered(Truncated(p))
         /\ Len(Truncated(p)) <= Len(p)
         /\ Len(Truncated(p)) = IF Len(p) <= History THEN Len(p) ELSE History
         /\ \A i \in 1..Len(Truncated(p)) : Truncated(p)[i] = p[i]
<1> DEFINE n == Min({Len(p), History})
           t == SubSeq(p, 1, n)
<1>1. /\ n \in 0..Len(p) /\ Len(p) \in Nat
      /\ n = IF Len(p) <= History THEN Len(p) ELSE History
  <2>1. Len(p) \in Nat
    OBVIOUS
  <2>2. History \in Nat
    BY SignedPrekeyAssumption, Zenon
  <2> QED BY <2>1, <2>2, MinOf, Zenon
<1> HIDE DEF n
<1>2. t \in Seq(KeyRecords) /\ Len(t) = n /\ \A i \in 1..n : t[i] = p[i]
  BY <1>1
<1>3. t = Truncated(p)
  BY DEF Truncated, n
<1> HIDE DEF t
<1>4. Ordered(t)
  <2> SUFFICES ASSUME NEW i \in 1..Len(t), NEW j \in 1..Len(t), i < j
               PROVE  t[j].id < t[i].id
    BY DEF Ordered
  <2>1. i \in 1..Len(p) /\ j \in 1..Len(p) /\ t[i] = p[i] /\ t[j] = p[j]
    BY <1>1, <1>2
  <2> QED BY <2>1 DEF Ordered
<1> QED BY <1>1, <1>2, <1>3, <1>4

-----------------------------------------------------------------------------
(* The relay *)

\* The newest row of a listing T of which the newest key of P is part.
LEMMA NewestRow ==
  ASSUME NEW P, P \subseteq KeyRecords, NEW T, T \subseteq P,
         \E top \in T : \A k \in P : k.id <= top.id,
         NEW c, c = CHOOSE k \in T : \A x \in T : x.id <= k.id
  PROVE  c \in T /\ c \in KeyRecords /\ \A k \in P : k.id <= c.id
<1>1. PICK top \in T : \A k \in P : k.id <= top.id
  OBVIOUS
<1>2. \E k \in T : \A x \in T : x.id <= k.id
  BY <1>1, Zenon
<1>3. c \in T /\ \A x \in T : x.id <= c.id
  BY <1>2, Zenon
<1>4. top \in KeyRecords /\ c \in KeyRecords
  BY <1>1, <1>3, Zenon
<1>5. ASSUME NEW k \in P PROVE k.id <= c.id
  <2>1. k \in KeyRecords /\ k.id <= top.id /\ top.id <= c.id
    BY <1>1, <1>3, Zenon
  <2> QED BY <1>4, <2>1 DEF KeyRecords
<1> QED BY <1>3, <1>4, <1>5, Zenon

\* The row the relay hands out is the newest key ever published.
LEMMA CurrentNewest ==
  ASSUME Listing
  PROVE  Current \in table /\ Current \in KeyRecords
         /\ \A k \in published : k.id <= Current.id
<1>1. /\ table \subseteq published /\ published \subseteq KeyRecords
      /\ \E top \in table : \A k \in published : k.id <= top.id
  BY Zenon DEF Listing
<1>2. PICK c : c = Current
  OBVIOUS
<1>3. c = CHOOSE k \in table : \A x \in table : x.id <= k.id
  BY <1>2, Zenon DEF Current
<1> QED BY <1>1, <1>2, <1>3, NewestRow, Zenon

\* ... also after a step.
LEMMA CurrentNewestNext ==
  ASSUME Listing'
  PROVE  Current' \in table' /\ Current' \in KeyRecords
         /\ \A k \in published' : k.id <= Current'.id
<1>1. /\ table' \subseteq published' /\ published' \subseteq KeyRecords
      /\ \E top \in table' : \A k \in published' : k.id <= top.id
  BY Zenon DEF Listing
<1>2. PICK c : c = Current'
  OBVIOUS
<1>3. c = CHOOSE k \in table' : \A x \in table' : x.id <= k.id
  BY <1>2, Zenon DEF Current
<1> QED BY <1>1, <1>2, <1>3, NewestRow, Zenon

\* rotate_signed_prekey keeps the listing.
LEMMA StoreKeeps ==
  ASSUME Listing, NEW k \in KeyRecords, Store(k)
  PROVE  Listing'
<1>0. /\ Current \in KeyRecords /\ Current \in table
      /\ \A x \in published : x \in KeyRecords /\ x.id <= Current.id
  BY CurrentNewest DEF Listing
<1>1. CASE Insertable(k)
  <2>1. /\ table' = Newest(table \cup {k}) /\ published' = published \cup {k}
        /\ k.id > Current.id
    BY <1>1 DEF Store, Insertable
  <2>2. \A x \in published : x.id < k.id
    BY <1>0, <2>1 DEF KeyRecords
  <2>3. {x \in table \cup {k} : x.id > k.id} = {}
    BY <2>2 DEF Listing, KeyRecords
  <2>4. k \in table'
    BY <2>1, <2>3, Zenon DEF Newest
  <2>5. table' \subseteq published' /\ published' \subseteq KeyRecords
    BY <2>1 DEF Newest, Listing
  <2>6. \A x \in published' : x.id <= k.id
    BY <2>1, <2>2, <1>0 DEF KeyRecords
  <2>7. PublishedOncePerId'
    BY <2>1, <2>2, <1>0 DEF PublishedOncePerId, Listing, KeyRecords
  <2> QED BY <2>4, <2>5, <2>6, <2>7 DEF Listing
<1>2. CASE ~Insertable(k)
  BY <1>2 DEF Store, relay, Listing, PublishedOncePerId
<1> QED BY <1>1, <1>2

-----------------------------------------------------------------------------
(* The owner *)

\* Every key of the history is older than the current one.
LEMMA HistoryOlder ==
  ASSUME NEW k, NEW p, NEW n, NEW it, OwnerKeys(k, p, n, it), NEW i \in 1..Len(p)
  PROVE  p[i] \in KeyRecords /\ p[i].id \in Nat /\ p[i].id < k.id /\ k.id \in Nat
<1>1. p[i] \in KeyRecords /\ k \in KeyRecords
  BY DEF OwnerKeys
<1>2. p[i].id < k.id
  BY DEF OwnerKeys
<1> QED BY <1>1, <1>2 DEF KeyRecords

\* queue_signed_prekey_rotation makes a newer key and keeps the others.
LEMMA RotateKeeps ==
  ASSUME OwnerKeys(spk, previous, nextId, item), made \in Nat, Rotate
  PROVE  /\ OwnerKeys(spk, previous, nextId, item)' /\ made' \in Nat
         /\ item' \in KeyRecords
<1> DEFINE id == Max({nextId, spk.id + 1})
<1>1. spk \in KeyRecords /\ spk.id \in Nat /\ nextId \in Nat /\ spk.id + 1 \in Nat
  BY DEF OwnerKeys, KeyRecords
<1>2. id \in Nat /\ id >= spk.id + 1
  BY <1>1, MaxOf
<1>3. /\ spk' = Key(id, made) /\ made' = made + 1 /\ previous' = <<spk>> \o previous
      /\ nextId' = id + 1 /\ item' = spk'
  BY DEF Rotate
<1> HIDE DEF id
<1>4. spk' \in KeyRecords /\ spk'.id = id
  BY <1>2, <1>3 DEF Key, KeyRecords
<1>5. /\ previous' \in Seq(KeyRecords) /\ Ordered(previous')
      /\ Len(previous') = Len(previous) + 1 /\ Len(previous) \in Nat
      /\ \A i \in 1..(Len(previous) + 1) :
           previous'[i] = IF i = 1 THEN spk ELSE previous[i - 1]
  BY <1>1, <1>3, FrontOrdered DEF OwnerKeys
<1>6. ASSUME NEW i \in 1..Len(previous') PROVE previous'[i].id < id
  <2>1. CASE i = 1
    BY <1>1, <1>2, <1>5, <2>1
  <2>2. CASE i # 1
    <3>1. i - 1 \in 1..Len(previous) /\ previous'[i] = previous[i - 1]
      BY <1>5, <2>2
    <3>2. previous[i - 1].id < spk.id /\ previous[i - 1].id \in Nat
      BY <3>1, HistoryOlder
    <3>3. previous[i - 1].id < id
      BY <1>1, <1>2, <3>2
    <3> QED BY <3>1, <3>3, Zenon
  <2> QED BY <2>1, <2>2, Zenon
<1>7. nextId' \in Nat /\ id < nextId' /\ made' \in Nat
  BY <1>2, <1>3
<1> QED BY <1>3, <1>4, <1>5, <1>6, <1>7 DEF OwnerKeys

\* confirm_accepted_signed_prekey_rotation only truncates.
LEMMA ConfirmKeeps ==
  ASSUME OwnerKeys(spk, previous, nextId, item), previous' = Truncated(previous),
         item' = NoKey, UNCHANGED <<spk, nextId>>
  PROVE  OwnerKeys(spk, previous, nextId, item)'
<1>1. /\ previous' \in Seq(KeyRecords) /\ Ordered(previous')
      /\ Len(previous') <= Len(previous)
      /\ \A i \in 1..Len(previous') : previous'[i] = previous[i]
  BY TruncatedOrdered DEF OwnerKeys
<1>2. \A i \in 1..Len(previous') : i \in 1..Len(previous)
  BY <1>1 DEF OwnerKeys
<1> QED BY <1>1, <1>2 DEF OwnerKeys

\* reconcile_rejected_signed_prekey_rotation: the replacement is newer than
\* every key that is kept, the refused one included.
LEMMA ReconcileKeeps ==
  ASSUME OwnerKeys(spk, previous, nextId, item), made \in Nat, Reconcile,
         Head(down).current \in Nat,
         NEW id, id = ReplacementId(Head(down).current), previous # <<>>,
         spk' = Key(id, made), made' = made + 1,
         previous' = Truncated(IF Head(down).previously_accepted
                                 THEN <<spk>> \o previous ELSE previous),
         nextId' = id + 1, item' = spk'
  PROVE  OwnerKeys(spk, previous, nextId, item)' /\ made' \in Nat /\ item' \in KeyRecords
<1>1. /\ spk \in KeyRecords /\ spk.id \in Nat /\ nextId \in Nat /\ spk.id < nextId
      /\ previous \in Seq(KeyRecords) /\ Len(previous) \in Nat /\ 1 \in 1..Len(previous)
  <2>1. spk \in KeyRecords /\ nextId \in Nat /\ spk.id < nextId
        /\ previous \in Seq(KeyRecords)
    BY DEF OwnerKeys
  <2>2. Len(previous) \in Nat /\ 1 \in 1..Len(previous)
    BY <2>1
  <2> QED BY <2>1, <2>2 DEF KeyRecords
<1>2. previous[1].id + 1 \in Nat /\ Head(down).current + 1 \in Nat
  <2>1. previous[1].id \in Nat
    BY <1>1, HistoryOlder
  <2> QED BY <2>1
<1>3. id \in Nat /\ id >= nextId
  <2> DEFINE a == previous[1].id + 1
             b == Head(down).current + 1
  <2>1. id = Max({nextId, a, b})
    BY DEF ReplacementId
  <2>2. a \in Nat /\ b \in Nat
    BY <1>2
  <2> HIDE DEF a, b
  <2> QED BY <1>1, <2>1, <2>2, MaxOf
<1>4. spk' \in KeyRecords /\ spk'.id = id
  BY <1>3 DEF Key, KeyRecords
<1> DEFINE h == IF Head(down).previously_accepted THEN <<spk>> \o previous ELSE previous
<1>5. h \in Seq(KeyRecords) /\ Ordered(h) /\ \A i \in 1..Len(h) : h[i].id < id
  <2>1. \A i \in 1..Len(previous) : previous[i].id < id
    <3> SUFFICES ASSUME NEW i \in 1..Len(previous) PROVE previous[i].id < id
      OBVIOUS
    <3>1. previous[i].id \in Nat /\ previous[i].id < spk.id
      BY HistoryOlder
    <3> QED BY <1>1, <1>3, <3>1
  <2> DEFINE g == <<spk>> \o previous
  <2>2. /\ g \in Seq(KeyRecords) /\ Ordered(g) /\ Len(g) = Len(previous) + 1
        /\ \A i \in 1..(Len(previous) + 1) : g[i] = IF i = 1 THEN spk ELSE previous[i - 1]
    BY <1>1, FrontOrdered DEF OwnerKeys
  <2> HIDE DEF g
  <2>3. ASSUME NEW i \in 1..Len(g) PROVE g[i].id < id
    <3>1. CASE i = 1
      BY <1>1, <1>3, <2>2, <3>1
    <3>2. CASE i # 1
      <4>1. i - 1 \in 1..Len(previous) /\ g[i] = previous[i - 1]
        BY <1>1, <2>2, <3>2
      <4> QED BY <2>1, <4>1
    <3> QED BY <3>1, <3>2
  <2>4. CASE Head(down).previously_accepted
    BY <2>2, <2>3, <2>4 DEF g
  <2>5. CASE ~Head(down).previously_accepted
    BY <1>1, <2>1, <2>5 DEF OwnerKeys
  <2> QED BY <2>4, <2>5, Zenon
<1> HIDE DEF h
<1>6. previous' = Truncated(h)
  BY DEF h
<1>7. /\ previous' \in Seq(KeyRecords) /\ Ordered(previous')
      /\ Len(previous') <= Len(h) /\ Len(h) \in Nat /\ Len(previous') \in Nat
      /\ \A i \in 1..Len(previous') : previous'[i] = h[i]
  <2>1. /\ previous' \in Seq(KeyRecords) /\ Ordered(previous')
        /\ Len(previous') <= Len(h)
        /\ \A i \in 1..Len(previous') : previous'[i] = h[i]
    BY <1>5, <1>6, TruncatedOrdered, Zenon
  <2>2. Len(h) \in Nat /\ Len(previous') \in Nat
    BY <1>5, <2>1
  <2> QED BY <2>1, <2>2, Zenon
<1>8. \A i \in 1..Len(previous') : previous'[i].id < id
  BY <1>5, <1>7
<1>9. nextId' \in Nat /\ id < nextId' /\ made' \in Nat
  BY <1>3
<1> QED BY <1>4, <1>7, <1>8, <1>9, Zenon DEF OwnerKeys

-----------------------------------------------------------------------------
(* Steps *)

\* Rotations the owner sends are keys it made.
LEMMA EmitKeys ==
  ASSUME up \in Seq(KeyRecords), NEW s \in Seq(KeyRecords), Emit(s)
  PROVE  up' \in Seq(KeyRecords)
  BY DEF Emit

\* What the relay still reads of an abandoned connection.
LEMMA AbandonKeys ==
  ASSUME Transit, Abandon
  PROVE  up' \in Seq(KeyRecords) /\ old' \in Seq(KeyRecords)
<1>0. up \in Seq(KeyRecords) /\ old \in Seq(KeyRecords)
  BY DEF Transit
<1>1. PICK n \in 0..Len(up) : old' = old \o SubSeq(up, 1, n)
  BY Zenon DEF Abandon
<1> DEFINE read == SubSeq(up, 1, n)
<1>2. read \in Seq(KeyRecords) /\ old' = old \o read
  BY <1>0, <1>1, RangePrefix
<1> HIDE DEF read
<1>3. old' \in Seq(KeyRecords)
  BY <1>0, <1>2, RangeConcat
<1>4. up' \in Seq(KeyRecords)
  BY DEF Abandon
<1> QED BY <1>3, <1>4

\* What happens to the answers and events the owner has not handled.
LEMMA DownKeeps ==
  ASSUME Transit
  PROVE  /\ down # <<>> => Tail(down) \in Seq(AllEvents) /\ Head(down) \in AllEvents
         /\ Append(down, Authed) \in Seq(AllEvents)
         /\ \A n \in 0..Len(down) : Append(SubSeq(down, 1, n), Lost) \in Seq(AllEvents)
<1>0. down \in Seq(AllEvents) /\ Authed \in AllEvents /\ Lost \in AllEvents
  BY DEF Transit, AllEvents
<1>1. ASSUME NEW n \in 0..Len(down) PROVE Append(SubSeq(down, 1, n), Lost) \in Seq(AllEvents)
  <2> DEFINE t == SubSeq(down, 1, n)
  <2>1. t \in Seq(AllEvents)
    BY <1>0, RangePrefix
  <2> HIDE DEF t
  <2>2. Append(t, Lost) \in Seq(AllEvents)
    BY <1>0, <2>1
  <2> QED BY <2>2 DEF t
<1>2. down # <<>> => Tail(down) \in Seq(AllEvents) /\ Head(down) \in AllEvents
  BY <1>0
<1>3. Append(down, Authed) \in Seq(AllEvents)
  BY <1>0
<1> QED BY <1>1, <1>2, <1>3

\* What the relay answers to a rotation.
LEMMA AnswerTypes ==
  ASSUME Listing, NEW k \in KeyRecords
  PROVE  RotationAnswer(k) \in AllEvents
<1>1. Current.id \in Nat /\ k.id \in Nat
  BY CurrentNewest DEF KeyRecords
<1>2. ASSUME NEW a \in BOOLEAN, NEW b \in BOOLEAN, NEW c \in Nat
      PROVE  Rotated(k, a, b, c) \in AllEvents
  BY DEF Rotated, AllEvents
<1>3. (k \in table) \in BOOLEAN
  OBVIOUS
<1>4. CASE Insertable(k)
  BY <1>1, <1>2, <1>4, Zenon DEF RotationAnswer
<1>5. CASE ~Insertable(k) /\ k = Current
  BY <1>1, <1>2, <1>5, Zenon DEF RotationAnswer
<1>6. CASE ~Insertable(k) /\ k # Current
  <2>1. Rotated(k, FALSE, k \in table, Current.id) \in AllEvents
    BY <1>1, <1>2, <1>3, Zenon
  <2> QED BY <1>6, <2>1, Zenon DEF RotationAnswer
<1> QED BY <1>4, <1>5, <1>6

\* The initial state.
LEMMA InitSInv == Init => SInv
<1> SUFFICES ASSUME Init PROVE SInv
  OBVIOUS
<1>1. spk \in KeyRecords /\ spk.id = 0
  BY DEF Init, Key, KeyRecords
<1>2. previous = <<>> /\ nextId = 1 /\ item = NoKey
  BY DEF Init
<1>3. OwnerKeys(spk, previous, nextId, item)
  BY <1>1, <1>2 DEF OwnerKeys, Ordered
<1>4. backup[1] = spk /\ backup[2] = previous /\ backup[3] = nextId /\ backup[5] = item
  BY DEF Init, owner
<1>5. Transit
  BY DEF Init, Transit
<1>6. Listing
  BY <1>1 DEF Init, Listing, PublishedOncePerId
<1> QED BY <1>3, <1>4, <1>5, <1>6 DEF SInv

\* A step that leaves the owner's keys and the listing alone.
LEMMA ElsewhereStep ==
  ASSUME SInv, UNCHANGED <<owner, made, relay>>, UNCHANGED backup \/ backup' = owner,
         up' \in Seq(KeyRecords), old' \in Seq(KeyRecords), down' \in Seq(AllEvents)
  PROVE  SInv'
<1>1. OwnerKeys(spk, previous, nextId, item)'
  BY DEF SInv, OwnerKeys, owner, Ordered
<1>2. OwnerKeys(backup[1], backup[2], backup[3], backup[5])'
  <2>1. CASE UNCHANGED backup
    BY <2>1 DEF SInv, OwnerKeys, Ordered
  <2>2. CASE backup' = owner
    <3>1. /\ backup'[1] = spk /\ backup'[2] = previous /\ backup'[3] = nextId
          /\ backup'[5] = item
      BY <2>2 DEF owner
    <3> QED BY <3>1 DEF SInv, OwnerKeys, Ordered
  <2> QED BY <2>1, <2>2
<1>3. Transit' /\ Listing'
  BY DEF SInv, Transit, Listing, relay, PublishedOncePerId
<1> QED BY <1>1, <1>2, <1>3 DEF SInv

\* A step of the owner's that changes its keys.
LEMMA OwnerMoves ==
  ASSUME SInv, OwnerKeys(spk, previous, nextId, item)', made' \in Nat,
         UNCHANGED <<backup, relay>>,
         up' \in Seq(KeyRecords), old' \in Seq(KeyRecords), down' \in Seq(AllEvents)
  PROVE  SInv'
<1>1. OwnerKeys(backup[1], backup[2], backup[3], backup[5])'
  BY DEF SInv, OwnerKeys, Ordered
<1>2. Transit' /\ Listing'
  BY DEF SInv, Transit, Listing, relay, PublishedOncePerId
<1> QED BY <1>1, <1>2 DEF SInv

\* The owner's steps.
LEMMA OwnerSteps ==
  ASSUME SInv, OwnerStep \/ LifecycleTick
  PROVE  SInv'
<1>0. /\ up \in Seq(KeyRecords) /\ old \in Seq(KeyRecords) /\ down \in Seq(AllEvents)
      /\ made \in Nat /\ Transit /\ Listing
      /\ OwnerKeys(spk, previous, nextId, item)
  BY DEF SInv, Transit
<1>d. down # <<>> => Tail(down) \in Seq(AllEvents) /\ Head(down) \in AllEvents
  BY <1>0, DownKeeps
<1>e. \A k \in KeyRecords : <<k>> \in Seq(KeyRecords)
  OBVIOUS
<1>1. CASE HandleAuthed
  <2>1. /\ down' \in Seq(AllEvents) /\ UNCHANGED <<backup, old, relay>>
        /\ Emit(IF item' = NoKey THEN <<>> ELSE <<item'>>)
    BY <1>1, <1>d DEF HandleAuthed
  <2>2. OwnerKeys(spk, previous, nextId, item)' /\ made' \in Nat
        /\ item' \in KeyRecords \cup {NoKey}
    <3>1. CASE RotationDue
      BY <1>0, <1>1, <3>1, RotateKeeps DEF HandleAuthed
    <3>2. CASE ~RotationDue
      BY <1>0, <1>1, <3>2 DEF HandleAuthed, owner, OwnerKeys, Ordered
    <3> QED BY <3>1, <3>2
  <2>3. (IF item' = NoKey THEN <<>> ELSE <<item'>>) \in Seq(KeyRecords)
    BY <2>2, <1>e
  <2>4. up' \in Seq(KeyRecords)
    BY <1>0, <2>1, <2>3, EmitKeys, Zenon
  <2> QED BY <1>0, <2>1, <2>2, <2>4, OwnerMoves
<1>2. CASE HandleLost \/ IgnoreAnswer
  BY <1>0, <1>d, <1>2, ElsewhereStep, Zenon DEF HandleLost, IgnoreAnswer
<1>3. CASE ConfirmAccepted
  <2>1. /\ down' \in Seq(AllEvents) /\ UNCHANGED <<backup, up, old, relay, made>>
        /\ previous' = Truncated(previous) /\ item' = NoKey /\ UNCHANGED <<spk, nextId>>
    BY <1>3, <1>d DEF ConfirmAccepted, Answered
  <2>2. OwnerKeys(spk, previous, nextId, item)'
    BY <1>0, <2>1, ConfirmKeeps
  <2> QED BY <1>0, <2>1, <2>2, OwnerMoves
<1>4. CASE Reconcile
  <2>1. /\ down # <<>> /\ Head(down).type = "rotated"
        /\ down' = Tail(down) /\ UNCHANGED <<backup, old, relay>>
    BY <1>4 DEF Reconcile, Answered
  <2>2. Head(down).current \in Nat
    BY <1>d, <2>1 DEF AllEvents, Authed, Lost
  <2> DEFINE id == ReplacementId(Head(down).current)
  <2>3. CASE UNCHANGED <<owner, made, up>>
    BY <1>0, <1>d, <2>1, <2>3, ElsewhereStep
  <2>4. CASE /\ previous # <<>> /\ spk' = Key(id, made) /\ made' = made + 1
             /\ previous' = Truncated(IF Head(down).previously_accepted
                                        THEN <<spk>> \o previous ELSE previous)
             /\ nextId' = id + 1 /\ item' = spk' /\ Emit(<<item'>>)
    <3>1. /\ OwnerKeys(spk, previous, nextId, item)' /\ made' \in Nat
          /\ item' \in KeyRecords
      <4> HIDE DEF id
      <4>1. id = ReplacementId(Head(down).current)
        BY DEF id
      <4> QED BY <1>0, <1>4, <2>2, <2>4, <4>1, ReconcileKeeps
    <3>2. up' \in Seq(KeyRecords)
      BY <1>0, <1>e, <2>4, <3>1, EmitKeys, Zenon
    <3> QED BY <1>0, <1>d, <2>1, <3>1, <3>2, OwnerMoves, Zenon
  <2> QED BY <1>4, <2>3, <2>4 DEF Reconcile
<1>5. CASE LifecycleTick
  <2>1. /\ Rotate /\ Emit(<<item'>>) /\ UNCHANGED <<backup, old, down, relay>>
    BY <1>5 DEF LifecycleTick
  <2>2. /\ OwnerKeys(spk, previous, nextId, item)' /\ made' \in Nat
        /\ item' \in KeyRecords
    BY <1>0, <2>1, RotateKeeps
  <2>3. up' \in Seq(KeyRecords)
    BY <1>0, <1>e, <2>1, <2>2, EmitKeys, Zenon
  <2> QED BY <1>0, <2>1, <2>2, <2>3, OwnerMoves
<1> QED BY <1>1, <1>2, <1>3, <1>4, <1>5 DEF OwnerStep

\* Connections, restarts and backups.
LEMMA ConnectionSteps ==
  ASSUME SInv, Connect \/ Disconnect \/ Restart \/ Backup \/ Restore
  PROVE  SInv'
<1>0. /\ up \in Seq(KeyRecords) /\ old \in Seq(KeyRecords) /\ down \in Seq(AllEvents)
      /\ made \in Nat /\ Transit
      /\ <<>> \in Seq(AllEvents)
  BY DEF SInv, Transit
<1>1. CASE Connect
  <2>1. PICK n \in 0..Len(old) : old' = SubSeq(old, 1, n)
    BY <1>1, Zenon DEF Connect
  <2>2. old' \in Seq(KeyRecords)
    BY <1>0, <2>1, RangePrefix
  <2>3. down' \in Seq(AllEvents)
    BY <1>0, <1>1, DownKeeps DEF Connect
  <2> QED BY <1>0, <1>1, <2>2, <2>3, ElsewhereStep DEF Connect
<1>2. CASE Disconnect
  <2>1. PICK n \in 0..Len(down) : down' = Append(SubSeq(down, 1, n), Lost)
    BY <1>2, Zenon DEF Disconnect
  <2>2. down' \in Seq(AllEvents)
    BY <1>0, <2>1, DownKeeps
  <2>3. Abandon /\ UNCHANGED <<owner, made, backup, relay>>
    BY <1>2 DEF Disconnect
  <2> QED BY <1>0, <2>2, <2>3, AbandonKeys, ElsewhereStep
<1>3. CASE Restart
  <2>1. Abandon /\ down' = <<>> /\ UNCHANGED <<owner, made, backup, relay>>
    BY <1>3 DEF Restart
  <2> QED BY <1>0, <2>1, AbandonKeys, ElsewhereStep
<1>4. CASE Backup
  BY <1>0, <1>4, ElsewhereStep DEF Backup, net
<1>5. CASE Restore
  <2>1. /\ Abandon /\ down' = <<>> /\ UNCHANGED <<made, backup, relay>>
        /\ spk' = backup[1] /\ previous' = backup[2] /\ nextId' = backup[3]
        /\ item' = backup[5]
    BY <1>5 DEF Restore
  <2>2. OwnerKeys(spk, previous, nextId, item)'
    BY <2>1 DEF SInv, OwnerKeys, Ordered
  <2> QED BY <1>0, <2>1, <2>2, AbandonKeys, OwnerMoves
<1> QED BY <1>1, <1>2, <1>3, <1>4, <1>5

\* The relay's steps, the requester's and time.
LEMMA OtherSteps ==
  ASSUME SInv, HandleRotation \/ HandleOldRotation \/ Fetch \/ Bundle \/ Encrypt \/ Admit
               \/ Open \/ NextTime
  PROVE  SInv'
<1>0. /\ up \in Seq(KeyRecords) /\ old \in Seq(KeyRecords) /\ down \in Seq(AllEvents)
      /\ made \in Nat /\ Transit /\ Listing
  BY DEF SInv, Transit
<1>1. ASSUME Listing', UNCHANGED <<owner, made, backup>>,
             up' \in Seq(KeyRecords), old' \in Seq(KeyRecords), down' \in Seq(AllEvents)
      PROVE  SInv'
  <2>1. OwnerKeys(spk, previous, nextId, item)'
    BY <1>1 DEF SInv, OwnerKeys, owner, Ordered
  <2>2. OwnerKeys(backup[1], backup[2], backup[3], backup[5])'
    BY <1>1 DEF SInv, OwnerKeys, Ordered
  <2>3. Transit'
    BY <1>0, <1>1 DEF Transit
  <2> QED BY <1>1, <2>1, <2>2, <2>3, Zenon DEF SInv
<1>2. CASE HandleRotation
  <2>1. /\ up # <<>> /\ Store(Head(up)) /\ up' = Tail(up)
        /\ down' = Append(down, RotationAnswer(Head(up)))
        /\ UNCHANGED <<owner, made, backup, old>>
    BY <1>2 DEF HandleRotation
  <2>2. Head(up) \in KeyRecords /\ up' \in Seq(KeyRecords)
    BY <1>0, <2>1
  <2>3. Listing' /\ RotationAnswer(Head(up)) \in AllEvents
    BY <1>0, <2>1, <2>2, StoreKeeps, AnswerTypes
  <2>4. down' \in Seq(AllEvents)
    BY <1>0, <2>1, <2>3
  <2> QED BY <1>0, <1>1, <2>1, <2>2, <2>3, <2>4, Zenon
<1>3. CASE HandleOldRotation
  <2>1. /\ old # <<>> /\ Store(Head(old)) /\ old' = Tail(old)
        /\ UNCHANGED <<owner, made, backup, up, down>>
    BY <1>3 DEF HandleOldRotation
  <2>2. Head(old) \in KeyRecords /\ old' \in Seq(KeyRecords)
    BY <1>0, <2>1
  <2>3. Listing'
    BY <1>0, <2>1, <2>2, StoreKeeps
  <2> QED BY <1>0, <1>1, <2>1, <2>2, <2>3
<1>4. CASE Fetch \/ Bundle \/ Encrypt \/ Admit \/ Open \/ NextTime
  <2>1. UNCHANGED <<owner, made, backup, relay, net>>
    BY <1>4 DEF Fetch, Bundle, Encrypt, Admit, Open, NextTime
  <2>2. UNCHANGED <<up, old, down>>
    BY <2>1 DEF net
  <2> QED BY <1>0, <2>1, <2>2, ElsewhereStep, Zenon
<1> QED BY <1>2, <1>3, <1>4

-----------------------------------------------------------------------------
(* What was published *)

\* The identifiers of keys are numbers.
LEMMA IdsNat == \A k \in KeyRecords : k.id \in Nat /\ k.gen \in Nat /\ k # NoKey
  BY SignedPrekeyAssumption DEF KeyRecords

\* Keeping the two newest of a set, then of it and a newer key, keeps the two
\* newest of all.
LEMMA NewestGrows ==
  ASSUME NEW P, P \subseteq KeyRecords, NEW k \in KeyRecords, \A x \in P : x.id < k.id
  PROVE  Newest(Newest(P) \cup {k}) = Newest(P \cup {k})
<1>0. \A x, y, z \in P : z.id < y.id /\ y.id < x.id => z.id < x.id
  BY IdsNat
<1>k. \A x \in P : ~(x.id > k.id) /\ x.id < k.id /\ k.id > x.id /\ x # k
  BY IdsNat
<1>g. \A x, y \in P : x.id > y.id <=> y.id < x.id
  BY IdsNat
<1>s. ~(k.id > k.id)
  BY IdsNat
<1>1. ASSUME NEW z \in Newest(Newest(P) \cup {k}) PROVE z \in Newest(P \cup {k})
  <2>1. z \in P \cup {k}
    BY Zenon DEF Newest
  <2>2. SUFFICES ASSUME NEW x \in P \cup {k}, NEW y \in P \cup {k}, x.id > z.id, y.id > z.id
                 PROVE  x = y
    BY <2>1, Zenon DEF Newest
  <2>3. z # k
    BY <2>2, <1>k, <1>s, Zenon
  <2>4. z \in Newest(P) /\ z \in P
    BY <2>3, Zenon DEF Newest
  <2>5. ASSUME NEW a \in P, a.id > z.id PROVE a \in Newest(P)
    <3>1. SUFFICES ASSUME NEW u \in P, NEW v \in P, u.id > a.id, v.id > a.id PROVE u = v
      BY Zenon DEF Newest
    <3>2. u.id > z.id /\ v.id > z.id
      BY <1>0, <1>g, <2>4, <2>5, <3>1, Zenon
    <3> QED BY <2>4, <3>2, Zenon DEF Newest
  <2>6. \A a, b \in Newest(P) \cup {k} : a.id > z.id /\ b.id > z.id => a = b
    BY Zenon DEF Newest
  <2> QED BY <2>2, <2>5, <2>6, Zenon
<1>2. ASSUME NEW z \in Newest(P \cup {k}) PROVE z \in Newest(Newest(P) \cup {k})
  <2>1. z \in P \cup {k} /\ \A x, y \in P \cup {k} : x.id > z.id /\ y.id > z.id => x = y
    BY Zenon DEF Newest
  <2>2. z \in Newest(P) \cup {k}
    BY <2>1, Zenon DEF Newest
  <2>3. Newest(P) \cup {k} \subseteq P \cup {k}
    BY Zenon DEF Newest
  <2> QED BY <2>1, <2>2, <2>3, Zenon DEF Newest
<1> QED BY <1>1, <1>2, Zenon

\* A listed key is one of the two newest of a published history.
LEMMA ListedRecent ==
  ASSUME NEW P, NEW h \in Seq(KeyRecords), Ordered(h), Range(h) \subseteq P,
         NEW i \in 1..Len(h), h[i] \in Newest(P)
  PROVE  i <= 2
<1>0. Len(h) \in Nat
  OBVIOUS
<1>1. SUFFICES ASSUME i > 2 PROVE FALSE
  BY <1>0
<1>2. 1 \in 1..Len(h) /\ 2 \in 1..Len(h) /\ 1 < i /\ 2 < i
  BY <1>0, <1>1
<1>3. h[1] \in P /\ h[2] \in P /\ h[1] \in KeyRecords /\ h[2] \in KeyRecords /\ h[i] \in KeyRecords
  BY <1>2, RangeElem
<1>4. h[i].id < h[1].id /\ h[i].id < h[2].id /\ h[2].id < h[1].id
  BY <1>2 DEF Ordered
<1>5. h[1].id > h[i].id /\ h[2].id > h[i].id /\ h[1] # h[2]
  BY <1>3, <1>4, IdsNat
<1> QED BY <1>3, <1>5, Zenon DEF Newest

\* What rotate_signed_prekey does to the listing and to what was answered.
LEMMA StorePublishes ==
  ASSUME SInv, PubInv, NEW k \in KeyRecords, Store(k)
  PROVE  /\ published \subseteq published' /\ published' \subseteq published \cup {k}
         /\ table' = Newest(published')
         /\ \A e : e.key \in KeyRecords /\ AnswerTrue(e) => AnswerTrue(e)'
<1>0. /\ Listing /\ Listing' /\ table = Newest(published)
      /\ published \subseteq KeyRecords
  BY StoreKeeps, Zenon DEF SInv, PubInv, Listing
<1>c. /\ Current \in table /\ Current \in KeyRecords
      /\ \A x \in published : x.id <= Current.id
  BY <1>0, CurrentNewest
<1>n. Current' \in KeyRecords /\ \A x \in published' : x.id <= Current'.id
  BY <1>0, CurrentNewestNext
<1>1. CASE Insertable(k)
  <2>1. /\ table' = Newest(table \cup {k}) /\ published' = published \cup {k}
        /\ k.id > Current.id
    BY <1>1, Zenon DEF Store, Insertable
  <2>2. \A x \in published : x.id < k.id
    BY <1>0, <1>c, <2>1, IdsNat
  <2>3. table' = Newest(published')
    BY <1>0, <2>1, <2>2, NewestGrows, Zenon
  <2>4. ASSUME NEW e, e.key \in KeyRecords, AnswerTrue(e) PROVE AnswerTrue(e)'
    <3>1. e.key \in published => e.key \in published'
      BY <2>1, Zenon
    <3>2. ASSUME e.key \notin table, e.key.id <= Current.id
          PROVE  e.key \notin table' /\ e.key.id <= Current'.id
      <4>1. k \in published' /\ k.id <= Current'.id /\ table' \subseteq table \cup {k}
        BY <1>n, <2>1, Zenon DEF Newest
      <4>2. e.key # k /\ e.key.id <= Current'.id
        BY <1>c, <1>n, <2>1, <2>4, <3>2, <4>1, IdsNat
      <4> QED BY <3>2, <4>1, <4>2, Zenon
    <3> QED BY <2>4, <3>1, <3>2, Zenon DEF AnswerTrue
  <2> QED BY <2>1, <2>3, <2>4, Zenon
<1>2. CASE ~Insertable(k)
  <2>1. UNCHANGED <<table, published>>
    BY <1>2, Zenon DEF Store, relay
  <2>2. Current' = Current
    BY <2>1, Zenon DEF Current
  <2> QED BY <1>0, <2>1, <2>2, Zenon DEF AnswerTrue
<1> QED BY <1>1, <1>2, Zenon

\* The answer to a rotation is true when it is given.
LEMMA AnswerGiven ==
  ASSUME SInv, PubInv, NEW k \in KeyRecords, Store(k), NEW e, e = RotationAnswer(k)
  PROVE  AnswerTrue(e)' /\ e.key = k
<1>0. /\ Listing /\ table \subseteq published
  BY Zenon DEF SInv, Listing
<1>c. /\ Current \in table /\ Current \in KeyRecords /\ Current \in published
  BY <1>0, CurrentNewest, Zenon
<1>r. ASSUME NEW a, NEW b, NEW c, e = Rotated(k, a, b, c)
      PROVE  e.key = k /\ e.accepted = a /\ e.previously_accepted = b /\ e.current = c
  BY <1>r DEF Rotated
<1>1. CASE Insertable(k)
  <2>1. e = Rotated(k, TRUE, FALSE, k.id) /\ k \in published'
    BY <1>1, Zenon DEF RotationAnswer, Store
  <2>2. e.key = k /\ e.accepted /\ ~e.previously_accepted /\ e.current = k.id
    BY <1>r, <2>1, Zenon
  <2> QED BY <2>1, <2>2, Zenon DEF AnswerTrue
<1>2. CASE ~Insertable(k)
  <2>1. UNCHANGED <<table, published>>
    BY <1>2, Zenon DEF Store, relay
  <2>2. Current' = Current
    BY <2>1, Zenon DEF Current
  <2>3. CASE k = Current
    <3>1. e = Rotated(k, TRUE, FALSE, Current.id)
      BY <1>2, <2>3, Zenon DEF RotationAnswer
    <3>2. e.key = k /\ e.accepted /\ ~e.previously_accepted /\ e.current = k.id
      BY <1>r, <2>3, <3>1, Zenon
    <3> QED BY <1>c, <2>1, <2>3, <3>2, Zenon DEF AnswerTrue
  <2>4. CASE k # Current
    <3>1. e = Rotated(k, FALSE, k \in table, Current.id)
      BY <1>2, <2>4, Zenon DEF RotationAnswer
    <3>2. e.key = k /\ ~e.accepted /\ e.previously_accepted = (k \in table)
      BY <1>r, <3>1, Zenon
    <3>3. k.id <= Current.id
      BY <1>2, <1>c, IdsNat DEF Insertable
    <3> QED BY <1>0, <2>1, <2>2, <3>2, <3>3, Zenon DEF AnswerTrue
  <2> QED BY <2>3, <2>4, Zenon
<1> QED BY <1>1, <1>2, Zenon

\* A step that leaves the relay's tables alone.
LEMMA PubMoves ==
  ASSUME PubInv, UNCHANGED relay, Confirmed(spk, previous, item)',
         Confirmed(backup[1], backup[2], backup[5])',
         Range(down') \subseteq Range(down) \cup {Authed, Lost}
  PROVE  PubInv'
<1>1. UNCHANGED <<table, published>>
  BY Zenon DEF relay
<1>2. table' = Newest(published')
  BY <1>1, Zenon DEF PubInv
<1>3. ASSUME NEW e \in Range(down'), e.type = "rotated" PROVE AnswerTrue(e)'
  <2>1. e \notin {Authed, Lost}
    BY <1>3 DEF Authed, Lost
  <2>2. AnswerTrue(e)
    BY <1>3, <2>1, Zenon DEF PubInv
  <2>3. Current' = Current
    BY <1>1, Zenon DEF Current
  <2> QED BY <1>1, <2>2, <2>3, Zenon DEF AnswerTrue
<1> QED BY <1>2, <1>3, Zenon DEF PubInv

\* Confirmed depends on the owner's keys and the published ones.
LEMMA ConfirmedSame ==
  ASSUME NEW k, NEW p, NEW it, Confirmed(k, p, it), published \subseteq published'
  PROVE  Confirmed(k, p, it)'
  BY Zenon DEF Confirmed

\* The keys of a history with one more in front, and of a truncated one.
LEMMA HistoryRange ==
  ASSUME NEW k \in KeyRecords, NEW p \in Seq(KeyRecords), Ordered(p)
  PROVE  /\ Range(<<k>> \o p) = {k} \cup Range(p)
         /\ Range(Truncated(p)) \subseteq Range(p)
<1>1. <<k>> \in Seq(KeyRecords)
  OBVIOUS
<1>2. Range(<<k>> \o p) = Range(<<k>>) \cup Range(p)
  BY <1>1, RangeConcat
<1>3. ASSUME NEW x \in Range(Truncated(p)) PROVE x \in Range(p)
  <2>1. /\ Truncated(p) \in Seq(KeyRecords) /\ Len(Truncated(p)) <= Len(p)
        /\ \A i \in 1..Len(Truncated(p)) : Truncated(p)[i] = p[i]
    BY TruncatedOrdered, Zenon
  <2>2. PICK i \in 1..Len(Truncated(p)) : Truncated(p)[i] = x
    BY <2>1, RangeElem, Zenon
  <2>3. Len(p) \in Nat /\ Len(Truncated(p)) \in Nat
    BY <2>1
  <2>4. i \in 1..Len(p)
    BY <2>1, <2>3
  <2> QED BY <2>1, <2>2, <2>4, RangeElem, Zenon
<1> QED BY <1>2, <1>3, RangeSingle, Zenon

\* The answer the owner is about to handle.
LEMMA FirstAnswer ==
  ASSUME SInv, PubInv, Answered(item)
  PROVE  /\ item = spk /\ Head(down).key = spk /\ spk \in KeyRecords
         /\ Head(down) \in Range(down) /\ Head(down).type = "rotated"
         /\ AnswerTrue(Head(down)) /\ Head(down) \in AllEvents
<1>1. down # <<>> /\ Head(down).type = "rotated" /\ Head(down).key = item
      /\ down \in Seq(AllEvents) /\ spk \in KeyRecords
  BY Zenon DEF Answered, SInv, Transit, OwnerKeys
<1>2. Head(down) \in Range(down) /\ Head(down) \in AllEvents
  BY <1>1, RangeTail, RangeElem
<1>3. Head(down).key \in KeyRecords
  BY <1>1, <1>2 DEF AllEvents, Authed, Lost
<1>4. item # NoKey
  BY <1>1, <1>3, IdsNat, Zenon
<1>5. item = spk
  BY <1>4, Zenon DEF PubInv, Confirmed
<1> QED BY <1>1, <1>2, <1>5, Zenon DEF PubInv

\* A rotation is started when the last one was confirmed.
LEMMA RotateConfirmed ==
  ASSUME SInv, PubInv, RotationDue, Rotate, UNCHANGED relay
  PROVE  Confirmed(spk, previous, item)'
<1>1. /\ spk \in published /\ Range(previous) \subseteq published
      /\ spk \in KeyRecords /\ previous \in Seq(KeyRecords) /\ Ordered(previous)
  BY Zenon DEF PubInv, Confirmed, RotationDue, SInv, OwnerKeys
<1>2. previous' = <<spk>> \o previous /\ item' = spk' /\ published' = published
  BY Zenon DEF Rotate, relay
<1>3. Range(previous') = {spk} \cup Range(previous)
  BY <1>1, <1>2, HistoryRange, Zenon
<1>4. OwnerKeys(spk, previous, nextId, item)'
  BY RotateKeeps, Zenon DEF SInv, Transit
<1>5. spk' \in KeyRecords
  BY <1>4, Zenon DEF OwnerKeys
<1>6. item' # NoKey
  BY <1>2, <1>5, IdsNat, Zenon
<1> QED BY <1>1, <1>2, <1>3, <1>6, Zenon DEF Confirmed

\* The owner's steps.
LEMMA OwnerPub ==
  ASSUME SInv, PubInv, OwnerStep \/ LifecycleTick
  PROVE  PubInv'
<1>0. /\ down \in Seq(AllEvents) /\ spk \in KeyRecords
      /\ previous \in Seq(KeyRecords) /\ Ordered(previous)
      /\ Range(previous) \subseteq published
  BY Zenon DEF SInv, Transit, OwnerKeys, PubInv, Confirmed
<1>d. down # <<>> => Range(Tail(down)) \subseteq Range(down)
  BY <1>0, RangeTail
<1>b. UNCHANGED <<backup, published>> => Confirmed(backup[1], backup[2], backup[5])'
  BY Zenon DEF PubInv, Confirmed
<1>1. CASE HandleAuthed
  <2>1. /\ down # <<>> /\ down' = Tail(down) /\ UNCHANGED <<backup, relay, published>>
    BY <1>1, Zenon DEF HandleAuthed, relay
  <2>2. Confirmed(spk, previous, item)'
    <3>1. CASE RotationDue
      BY <1>1, <3>1, <2>1, RotateConfirmed, Zenon DEF HandleAuthed
    <3>2. CASE ~RotationDue
      BY <1>1, <2>1, <3>2, Zenon DEF HandleAuthed, owner, PubInv, Confirmed
    <3> QED BY <3>1, <3>2, Zenon
  <2> QED BY <1>b, <1>d, <2>1, <2>2, PubMoves, Zenon
<1>2. CASE HandleLost \/ IgnoreAnswer
  <2>1. /\ down # <<>> /\ down' = Tail(down)
        /\ UNCHANGED <<backup, relay, published, spk, previous, item>>
    BY <1>2, Zenon DEF HandleLost, IgnoreAnswer, relay, owner
  <2>2. Confirmed(spk, previous, item)'
    BY <2>1, Zenon DEF PubInv, Confirmed
  <2> QED BY <1>b, <1>d, <2>1, <2>2, PubMoves, Zenon
<1>3. CASE ConfirmAccepted
  <2>1. /\ Answered(item) /\ Head(down).accepted /\ down # <<>> /\ down' = Tail(down)
        /\ previous' = Truncated(previous) /\ item' = NoKey
        /\ UNCHANGED <<spk, backup, relay, published>>
    BY <1>3, Zenon DEF ConfirmAccepted, relay, Answered
  <2>2. spk \in published
    BY <2>1, FirstAnswer, Zenon DEF AnswerTrue
  <2>3. Range(previous') \subseteq published
    BY <1>0, <2>1, HistoryRange, Zenon
  <2>4. Confirmed(spk, previous, item)'
    BY <2>1, <2>2, <2>3, Zenon DEF Confirmed
  <2> QED BY <1>b, <1>d, <2>1, <2>4, PubMoves, Zenon
<1>4. CASE Reconcile
  <2>1. /\ Answered(item) /\ down # <<>> /\ down' = Tail(down)
        /\ UNCHANGED <<backup, relay, published>>
    BY <1>4, Zenon DEF Reconcile, relay, Answered
  <2>2. CASE UNCHANGED owner
    <3>1. Confirmed(spk, previous, item)'
      BY <2>1, <2>2, Zenon DEF PubInv, Confirmed, owner
    <3> QED BY <1>b, <1>d, <2>1, <3>1, PubMoves, Zenon
  <2>3. CASE /\ item' = spk'
             /\ previous' = Truncated(IF Head(down).previously_accepted
                                        THEN <<spk>> \o previous ELSE previous)
             /\ \E id : spk' = Key(id, made)
    <3>1. PICK h : h = IF Head(down).previously_accepted THEN <<spk>> \o previous ELSE previous
      OBVIOUS
    <3>2. h \in Seq(KeyRecords) /\ Ordered(h)
      <4>1. <<spk>> \o previous \in Seq(KeyRecords) /\ Ordered(<<spk>> \o previous)
        BY <1>0, FrontOrdered, Zenon DEF SInv, OwnerKeys
      <4> QED BY <1>0, <3>1, <4>1, Zenon
    <3>3. Range(h) \subseteq published
      <4>1. Head(down).previously_accepted => spk \in published
        BY <2>1, FirstAnswer, Zenon DEF AnswerTrue
      <4>2. Range(<<spk>> \o previous) = {spk} \cup Range(previous)
        BY <1>0, HistoryRange, Zenon
      <4>3. CASE Head(down).previously_accepted
        BY <1>0, <3>1, <4>1, <4>2, <4>3, Zenon
      <4>4. CASE ~Head(down).previously_accepted
        BY <1>0, <3>1, <4>4, Zenon
      <4> QED BY <4>3, <4>4, Zenon
    <3>4. Range(previous') \subseteq published
      BY <1>0, <2>3, <3>1, <3>2, <3>3, HistoryRange, Zenon
    <3>5. item' # NoKey
      <4>1. OwnerKeys(spk, previous, nextId, item)'
        BY <1>4, OwnerSteps, Zenon DEF OwnerStep, SInv
      <4>2. spk' \in KeyRecords
        BY <4>1, Zenon DEF OwnerKeys
      <4> QED BY <2>3, <4>2, IdsNat, Zenon
    <3>6. Confirmed(spk, previous, item)'
      BY <2>1, <2>3, <3>4, <3>5, Zenon DEF Confirmed
    <3> QED BY <1>b, <1>d, <2>1, <3>6, PubMoves, Zenon
  <2> QED BY <1>4, <2>2, <2>3, Zenon DEF Reconcile
<1>5. CASE LifecycleTick
  <2>1. RotationDue /\ Rotate /\ UNCHANGED <<backup, down, relay, published>>
    BY <1>5, Zenon DEF LifecycleTick, relay
  <2> QED BY <1>b, <2>1, RotateConfirmed, PubMoves, Zenon
<1> QED BY <1>1, <1>2, <1>3, <1>4, <1>5, Zenon DEF OwnerStep

\* All other steps.
LEMMA OtherPub ==
  ASSUME SInv, PubInv, \/ Connect \/ Disconnect \/ Restart \/ Backup \/ Restore
                       \/ HandleRotation \/ HandleOldRotation
                       \/ Fetch \/ Bundle \/ Encrypt \/ Admit \/ Open \/ NextTime
  PROVE  PubInv'
<1>0. /\ up \in Seq(KeyRecords) /\ old \in Seq(KeyRecords) /\ down \in Seq(AllEvents)
      /\ Authed \in AllEvents /\ Lost \in AllEvents
  BY Zenon DEF SInv, Transit, AllEvents
<1>c. UNCHANGED <<owner, published>> => Confirmed(spk, previous, item)'
  BY Zenon DEF PubInv, Confirmed, owner
<1>b. UNCHANGED <<backup, published>> => Confirmed(backup[1], backup[2], backup[5])'
  BY Zenon DEF PubInv, Confirmed
<1>1. CASE Connect
  <2>1. down' = Append(down, Authed) /\ UNCHANGED <<owner, backup, relay, published>>
    BY <1>1, Zenon DEF Connect, relay
  <2>2. Range(down') = Range(down) \cup {Authed}
    BY <1>0, <2>1, RangeAppend
  <2> QED BY <1>b, <1>c, <2>1, <2>2, PubMoves, Zenon
<1>2. CASE Disconnect
  <2>1. UNCHANGED <<owner, backup, relay, published>>
    BY <1>2, Zenon DEF Disconnect, relay
  <2>2. PICK n \in 0..Len(down) : down' = Append(SubSeq(down, 1, n), Lost)
    BY <1>2, Zenon DEF Disconnect
  <2>3. PICK t : t = SubSeq(down, 1, n)
    OBVIOUS
  <2>4. t \in Seq(AllEvents) /\ Range(t) \subseteq Range(down)
    BY <1>0, <2>3, RangePrefix
  <2>5. Range(Append(t, Lost)) = Range(t) \cup {Lost}
    BY <1>0, <2>4, RangeAppend
  <2>6. Range(down') \subseteq Range(down) \cup {Authed, Lost}
    BY <2>2, <2>3, <2>4, <2>5, Zenon
  <2> QED BY <1>b, <1>c, <2>1, <2>6, PubMoves, Zenon
<1>3. CASE Restart
  BY <1>3, <1>b, <1>c, PubMoves, RangeEmpty, Zenon DEF Restart, relay
<1>4. CASE Backup
  <2>1. backup' = owner /\ UNCHANGED <<owner, relay, published, down>>
    BY <1>4, Zenon DEF Backup, relay, net
  <2>2. backup'[1] = spk /\ backup'[2] = previous /\ backup'[5] = item
    BY <2>1 DEF owner
  <2>3. Confirmed(backup[1], backup[2], backup[5])'
    BY <2>1, <2>2, Zenon DEF PubInv, Confirmed
  <2> QED BY <1>c, <2>1, <2>3, PubMoves, Zenon
<1>5. CASE Restore
  <2>1. /\ down' = <<>> /\ UNCHANGED <<backup, relay, published>>
        /\ spk' = backup[1] /\ previous' = backup[2] /\ item' = backup[5]
    BY <1>5, Zenon DEF Restore, relay
  <2>2. Confirmed(spk, previous, item)'
    BY <2>1, Zenon DEF PubInv, Confirmed
  <2> QED BY <1>b, <2>1, <2>2, PubMoves, RangeEmpty, Zenon
<1>6. ASSUME NEW k \in KeyRecords, Store(k), UNCHANGED <<owner, backup>>,
             \A e \in Range(down') : e \in Range(down) \/ e = RotationAnswer(k)
      PROVE  PubInv'
  <2>1. /\ published \subseteq published' /\ table' = Newest(published')
        /\ \A e : e.key \in KeyRecords /\ AnswerTrue(e) => AnswerTrue(e)'
    BY <1>6, StorePublishes, Zenon
  <2>2. Confirmed(spk, previous, item)' /\ Confirmed(backup[1], backup[2], backup[5])'
    BY <1>6, <2>1, Zenon DEF PubInv, Confirmed, owner
  <2>3. ASSUME NEW e \in Range(down'), e.type = "rotated" PROVE AnswerTrue(e)'
    <3>1. CASE e \in Range(down)
      <4>1. e \in AllEvents
        BY <1>0, <3>1, RangeElem, Zenon
      <4>2. e.key \in KeyRecords
        BY <2>3, <4>1 DEF AllEvents, Authed, Lost
      <4> QED BY <2>1, <2>3, <3>1, <4>2, Zenon DEF PubInv
    <3>2. CASE e = RotationAnswer(k)
      BY <1>6, <3>2, AnswerGiven, Zenon
    <3> QED BY <1>6, <3>1, <3>2, Zenon
  <2> QED BY <2>1, <2>2, <2>3, Zenon DEF PubInv
<1>7. CASE HandleRotation
  <2>1. /\ up # <<>> /\ Store(Head(up)) /\ down' = Append(down, RotationAnswer(Head(up)))
        /\ UNCHANGED <<owner, backup>>
    BY <1>7, Zenon DEF HandleRotation
  <2>2. Head(up) \in KeyRecords
    BY <1>0, <2>1
  <2>3. RotationAnswer(Head(up)) \in AllEvents
    BY <2>2, AnswerTypes, Zenon DEF SInv
  <2>4. Range(down') = Range(down) \cup {RotationAnswer(Head(up))}
    BY <1>0, <2>1, <2>3, RangeAppend
  <2> QED BY <1>6, <2>1, <2>2, <2>4, Zenon
<1>8. CASE HandleOldRotation
  <2>1. /\ old # <<>> /\ Store(Head(old)) /\ UNCHANGED <<owner, backup, down>>
    BY <1>8, Zenon DEF HandleOldRotation
  <2>2. Head(old) \in KeyRecords
    BY <1>0, <2>1
  <2> QED BY <1>6, <2>1, <2>2, Zenon
<1>9. CASE Fetch \/ Bundle \/ Encrypt \/ Admit \/ Open \/ NextTime
  <2>1. UNCHANGED <<owner, backup, relay, published, down>>
    BY <1>9, Zenon DEF Fetch, Bundle, Encrypt, Admit, Open, NextTime, net, relay
  <2> QED BY <1>b, <1>c, <2>1, PubMoves, Zenon
<1> QED BY <1>1, <1>2, <1>3, <1>4, <1>5, <1>7, <1>8, <1>9, Zenon

-----------------------------------------------------------------------------
(* What is kept, as long as no backup was restored *)

\* The owner's history.
LEMMA History3 == History \in Nat /\ 3 <= History /\ Retention \in Nat /\ Period \in Nat
                  /\ Retention <= Period /\ Reservation \in Nat
  BY SignedPrekeyAssumption

\* The newest n keys are part of the history, and of a longer part of it.
LEMMA RecentKeys ==
  ASSUME previous \in Seq(KeyRecords), NEW n \in Nat
  PROVE  /\ Recent(n) \subseteq Range(previous)
         /\ Recent(n) \subseteq Recent(n + 1)
<1>1. ASSUME NEW x \in Recent(n) PROVE x \in Range(previous) /\ x \in Recent(n + 1)
  <2>1. PICK i \in 1..Len(previous) \cap 1..n : x = previous[i]
    BY Zenon DEF Recent
  <2>2. i \in 1..Len(previous) \cap 1..(n + 1)
    BY <2>1
  <2> QED BY <2>1, <2>2, RangeElem, Zenon DEF Recent
<1> QED BY <1>1, Zenon

\* A rotation puts the current key in front of the history.
LEMMA RotatedRecent ==
  ASSUME SInv, previous' = <<spk>> \o previous
  PROVE  /\ \A n \in Nat : {spk} \cup Recent(n) \subseteq Recent(n + 1)'
         /\ Len(previous') = Len(previous) + 1
         /\ Range(previous') = {spk} \cup Range(previous)
         /\ \A i \in 1..Len(previous') :
              previous'[i] = IF i = 1 THEN spk ELSE previous[i - 1]
<1>0. /\ spk \in KeyRecords /\ previous \in Seq(KeyRecords) /\ Ordered(previous)
      /\ \A i \in 1..Len(previous) : previous[i].id < spk.id
  BY Zenon DEF SInv, OwnerKeys
<1>1. /\ Len(previous') = Len(previous) + 1
      /\ \A i \in 1..(Len(previous) + 1) :
           previous'[i] = IF i = 1 THEN spk ELSE previous[i - 1]
  BY <1>0, FrontOrdered, Zenon
<1>2. Len(previous) \in Nat
  BY <1>0
<1>3. ASSUME NEW n \in Nat, NEW x \in {spk} \cup Recent(n) PROVE x \in Recent(n + 1)'
  <2>1. CASE x = spk
    <3>1. 1 \in 1..Len(previous') \cap 1..(n + 1) /\ previous'[1] = spk
      BY <1>1, <1>2
    <3> QED BY <2>1, <3>1, Zenon DEF Recent
  <2>2. CASE x \in Recent(n)
    <3>1. PICK i \in 1..Len(previous) \cap 1..n : x = previous[i]
      BY <2>2, Zenon DEF Recent
    <3>2. i + 1 \in 1..Len(previous') \cap 1..(n + 1) /\ previous'[i + 1] = previous[i]
      BY <1>1, <1>2, <3>1
    <3> QED BY <3>1, <3>2, Zenon DEF Recent
  <2> QED BY <1>3, <2>1, <2>2, Zenon
<1>4. Range(previous') = {spk} \cup Range(previous)
  BY <1>0, HistoryRange, Zenon
<1> QED BY <1>1, <1>3, <1>4, Zenon

\* Truncation keeps the newest keys, and discards only older ones.
LEMMA TruncatedRecent ==
  ASSUME SInv, previous' = Truncated(previous)
  PROVE  /\ Recent(2) \subseteq Recent(2)' /\ Recent(3) \subseteq Recent(3)'
         /\ \A i \in 1..Len(previous') : previous'[i] = previous[i] /\ i \in 1..Len(previous)
         /\ \A x \in Range(previous) \ Range(previous') :
              Len(previous') = History /\ \A i \in 1..History : x.id < previous[i].id
         /\ Len(previous) >= History => Len(previous') = History
<1>0. previous \in Seq(KeyRecords) /\ Ordered(previous)
  BY Zenon DEF SInv, OwnerKeys
<1>1. /\ previous' \in Seq(KeyRecords)
      /\ Len(previous') = IF Len(previous) <= History THEN Len(previous) ELSE History
      /\ \A i \in 1..Len(previous') : previous'[i] = previous[i]
  BY <1>0, TruncatedOrdered, Zenon
<1>2. Len(previous) \in Nat /\ Len(previous') \in Nat
  BY <1>0, <1>1
<1>3. ASSUME NEW n \in {2, 3}, NEW x \in Recent(n) PROVE x \in Recent(n)'
  <2>1. PICK i \in 1..Len(previous) \cap 1..n : x = previous[i]
    BY Zenon DEF Recent
  <2>2. i \in 1..Len(previous') \cap 1..n
    BY <1>1, <1>2, <2>1, History3
  <2> QED BY <1>1, <2>1, <2>2, Zenon DEF Recent
<1>4. ASSUME NEW x \in Range(previous) \ Range(previous')
      PROVE  Len(previous') = History /\ \A i \in 1..History : x.id < previous[i].id
  <2>1. PICK j \in 1..Len(previous) : previous[j] = x
    BY <1>0, RangeElem, Zenon
  <2>2. j \notin 1..Len(previous')
    BY <1>1, <2>1, RangeElem, Zenon
  <2>3. Len(previous') = History /\ j > History /\ Len(previous) > History
    BY <1>1, <1>2, <2>1, <2>2, History3
  <2>4. \A i \in 1..History : i \in 1..Len(previous) /\ i < j
    BY <1>2, <2>3, History3
  <2> QED BY <1>0, <2>1, <2>3, <2>4, Zenon DEF Ordered
<1>5. \A i \in 1..Len(previous') : i \in 1..Len(previous)
  BY <1>1, <1>2, History3
<1>6. Len(previous) >= History => Len(previous') = History
  BY <1>1, <1>2, History3
<1> QED BY <1>1, <1>3, <1>4, <1>5, <1>6, Zenon

\* Types of what the invariant speaks of.
LEMMA KeyTypes ==
  ASSUME SInv
  PROVE  /\ spk \in KeyRecords /\ previous \in Seq(KeyRecords) /\ Ordered(previous)
         /\ published \subseteq KeyRecords /\ table \subseteq published
         /\ up \in Seq(KeyRecords) /\ old \in Seq(KeyRecords) /\ down \in Seq(AllEvents)
         /\ Range(previous) \subseteq KeyRecords
         /\ \A e \in Range(down) : e.type = "rotated" => e.key \in KeyRecords
         /\ \A i \in 1..Len(previous) : previous[i].id < spk.id
<1>1. /\ spk \in KeyRecords /\ previous \in Seq(KeyRecords) /\ Ordered(previous)
      /\ published \subseteq KeyRecords /\ table \subseteq published
      /\ up \in Seq(KeyRecords) /\ old \in Seq(KeyRecords) /\ down \in Seq(AllEvents)
      /\ \A i \in 1..Len(previous) : previous[i].id < spk.id
  BY Zenon DEF SInv, OwnerKeys, Transit, Listing
<1>2. Range(previous) \subseteq KeyRecords
  BY <1>1, RangeElem, Zenon
<1>3. ASSUME NEW e \in Range(down), e.type = "rotated" PROVE e.key \in KeyRecords
  <2>1. e \in AllEvents
    BY <1>1, RangeElem, Zenon
  <2> QED BY <1>3, <2>1 DEF AllEvents, Authed, Lost
<1> QED BY <1>1, <1>2, <1>3, Zenon

\* Every listed key is the owner's current one or one of the two before it.
LEMMA ListedHeld ==
  ASSUME SInv, PubInv, UInv, restores = 0, NEW x \in table
  PROVE  x \in {spk} \cup Recent(2)
<1>0. /\ x \in published /\ x \in KeyRecords /\ x \in Newest(published)
      /\ previous \in Seq(KeyRecords) /\ Ordered(previous) /\ Range(previous) \subseteq published
      /\ Len(previous) \in Nat
  <2>1. /\ x \in published /\ x \in KeyRecords /\ x \in Newest(published)
        /\ previous \in Seq(KeyRecords) /\ Ordered(previous)
        /\ Range(previous) \subseteq published
    BY KeyTypes, Zenon DEF PubInv, Confirmed
  <2> QED BY <2>1
<1>1. CASE x \notin Held
  <2>1. Len(previous) >= History /\ \A i \in 1..Len(previous) : x.id < previous[i].id
    BY <1>0, <1>1, Zenon DEF UInv, DiscardedOlder
  <2>2. 1 \in 1..Len(previous) /\ 2 \in 1..Len(previous) /\ 1 < 2
    BY <1>0, <2>1, History3
  <2>3. /\ x.id < previous[1].id /\ x.id < previous[2].id /\ previous[2].id < previous[1].id
        /\ previous[1] \in published /\ previous[2] \in published
        /\ previous[1] \in KeyRecords /\ previous[2] \in KeyRecords
    BY <1>0, <2>1, <2>2, RangeElem, Zenon DEF Ordered
  <2>4. previous[1].id > x.id /\ previous[2].id > x.id /\ previous[1] # previous[2]
    BY <1>0, <2>3, IdsNat
  <2> QED BY <1>0, <2>3, <2>4, Zenon DEF Newest
<1>2. CASE x \in Range(previous)
  <2>1. PICK i \in 1..Len(previous) : previous[i] = x
    BY <1>0, <1>2, RangeElem, Zenon
  <2>2. i <= 2
    BY <1>0, <2>1, ListedRecent, Zenon
  <2>3. i \in 1..Len(previous) \cap 1..2
    BY <1>0, <2>2
  <2> QED BY <2>1, <2>3, Zenon DEF Recent
<1> QED BY <1>1, <1>2, Zenon DEF Held

\* A step that leaves the owner's keys, the published ones and the message alone.
LEMMA UQuiet ==
  ASSUME SInv, UInv, UNCHANGED <<spk, previous, rotatedAt, published, msg, now, restores>>,
         Range(up') \cup Range(old') \subseteq Range(up) \cup Range(old) \cup {spk},
         Range(down') \subseteq Range(down) \cup {Authed, Lost}
  PROVE  UInv'
<1>1. SUFFICES ASSUME restores = 0
               PROVE  NoneNewer' /\ RefusedOlder' /\ DiscardedOlder' /\ QueuedKept' /\ Usage'
  BY Zenon DEF UInv
<1>2. NoneNewer /\ RefusedOlder /\ DiscardedOlder /\ QueuedKept /\ Usage
  BY <1>1, Zenon DEF UInv
<1>3. NoneNewer'
  BY <1>2, Zenon DEF NoneNewer
<1>4. RefusedOlder'
  <2>1. SUFFICES ASSUME NEW e \in Range(down'), e.type = "rotated", ~e.accepted
                 PROVE  e.key.id < spk.id
    BY Zenon DEF RefusedOlder
  <2>2. e \notin {Authed, Lost}
    BY <2>1 DEF Authed, Lost
  <2> QED BY <1>2, <2>1, <2>2, Zenon DEF RefusedOlder
<1>5. DiscardedOlder' /\ Recent(2)' = Recent(2) /\ Recent(3)' = Recent(3)
  BY <1>2, Zenon DEF DiscardedOlder, Held, Recent
<1> QED BY <1>2, <1>3, <1>4, <1>5, Zenon DEF QueuedKept, Usage

\* queue_signed_prekey_rotation: the key of a queued message moves back in the
\* history, but not before the message has aged by a rotation period.
LEMMA URotate ==
  ASSUME SInv, PubInv, UInv, RotationDue, Rotate, UNCHANGED <<published, msg, now, restores>>,
         Range(up') \cup Range(old') \subseteq Range(up) \cup Range(old) \cup {spk'},
         Range(down') \subseteq Range(down) \cup {Authed, Lost}
  PROVE  UInv'
<1>1. SUFFICES ASSUME restores = 0
               PROVE  NoneNewer' /\ RefusedOlder' /\ DiscardedOlder' /\ QueuedKept' /\ Usage'
  BY Zenon DEF UInv
<1>2. /\ NoneNewer /\ RefusedOlder /\ DiscardedOlder /\ QueuedKept /\ Usage
      /\ spk \in published /\ rotatedAt' = now /\ previous' = <<spk>> \o previous
  BY <1>1, Zenon DEF UInv, PubInv, Confirmed, RotationDue, Rotate
<1>t. /\ spk \in KeyRecords /\ previous \in Seq(KeyRecords) /\ published \subseteq KeyRecords
      /\ \A e \in Range(down) : e.type = "rotated" => e.key \in KeyRecords
      /\ \A i \in 1..Len(previous) : previous[i].id < spk.id
      /\ Range(previous) \subseteq KeyRecords
  BY KeyTypes, Zenon
<1>h. /\ \A n \in Nat : {spk} \cup Recent(n) \subseteq Recent(n + 1)'
      /\ Len(previous') = Len(previous) + 1 /\ Len(previous) \in Nat
      /\ Range(previous') = {spk} \cup Range(previous)
      /\ \A i \in 1..Len(previous') :
           previous'[i] = IF i = 1 THEN spk ELSE previous[i - 1]
  <2>1. Len(previous) \in Nat
    BY <1>t
  <2> QED BY <1>2, <2>1, RotatedRecent, Zenon
<1>3. spk' \in KeyRecords /\ spk.id < spk'.id
  <2>1. OwnerKeys(spk, previous, nextId, item)'
    BY RotateKeeps, Zenon DEF SInv, Transit
  <2>2. spk' \in KeyRecords /\ \A i \in 1..Len(previous') : previous'[i].id < spk'.id
    BY <2>1, Zenon DEF OwnerKeys
  <2>3. 1 \in 1..Len(previous') /\ previous'[1] = spk
    BY <1>h
  <2> QED BY <2>2, <2>3, Zenon
<1>4. NoneNewer'
  <2>1. \A k \in published : k.id <= spk'.id /\ k.id # spk'.id
    BY <1>2, <1>t, <1>3, IdsNat DEF NoneNewer
  <2> QED BY <1>2, <2>1, Zenon DEF NoneNewer
<1>5. RefusedOlder'
  <2>1. SUFFICES ASSUME NEW e \in Range(down'), e.type = "rotated", ~e.accepted
                 PROVE  e.key.id < spk'.id
    BY Zenon DEF RefusedOlder
  <2>2. e \notin {Authed, Lost}
    BY <2>1 DEF Authed, Lost
  <2>3. e.key.id < spk.id /\ e.key \in KeyRecords
    BY <1>2, <1>t, <2>1, <2>2, Zenon DEF RefusedOlder
  <2> QED BY <1>3, <1>t, <2>3, IdsNat
<1>6. DiscardedOlder'
  <2>1. SUFFICES ASSUME NEW k \in published, k \notin Held'
                 PROVE  Len(previous') >= History
                        /\ \A i \in 1..Len(previous') : k.id < previous'[i].id
    BY Zenon DEF DiscardedOlder
  <2>2. k \notin Held
    BY <1>h, <2>1, Zenon DEF Held
  <2>3. Len(previous) >= History /\ \A i \in 1..Len(previous) : k.id < previous[i].id
    BY <1>2, <2>2, Zenon DEF DiscardedOlder
  <2>4. Len(previous') >= History /\ 1 \in 1..Len(previous)
    BY <1>h, <2>3, History3
  <2>5. k.id < spk.id
    <3>1. k.id < previous[1].id /\ previous[1].id < spk.id /\ previous[1] \in KeyRecords
      BY <1>t, <2>3, <2>4, RangeElem, Zenon
    <3> QED BY <1>t, <3>1, IdsNat
  <2>6. ASSUME NEW i \in 1..Len(previous') PROVE k.id < previous'[i].id
    <3>1. CASE i = 1
      BY <1>h, <2>5, <3>1, Zenon
    <3>2. CASE i # 1
      <4>1. i - 1 \in 1..Len(previous)
        BY <1>h, <3>2
      <4> QED BY <1>h, <2>3, <3>2, <4>1, Zenon
    <3> QED BY <3>1, <3>2, Zenon
  <2> QED BY <2>4, <2>6, Zenon
<1>7. QueuedKept'
  <2>1. SUFFICES ASSUME msg.st = "queued"
                 PROVE  /\ msg.at \in Nat /\ msg.at <= now
                        /\ \/ now - msg.at >= Retention
                           \/ msg.key \in Recent(3)' /\ now >= msg.at
    BY <1>2, Zenon DEF QueuedKept
  <2>2. msg.at \in Nat /\ msg.at <= now /\ now \in Nat /\ rotatedAt \in Nat /\ 1 <= rotatedAt
    BY <1>2, <2>1, Zenon DEF QueuedKept, Usage
  <2>3. now - rotatedAt >= Period
    BY <2>2 DEF RotationDue
  <2>4. CASE msg.key \in {spk} \cup Recent(2)
    <3>1. msg.key \in Recent(2 + 1)'
      BY <1>h, <2>4
    <3>2. 2 + 1 = 3 /\ now >= msg.at
      BY <2>2
    <3> QED BY <2>2, <3>1, <3>2
  <2>5. CASE msg.key \in Recent(3) /\ rotatedAt >= msg.at
    BY <2>2, <2>3, <2>5, History3
  <2>6. CASE now - msg.at >= Retention
    BY <2>2, <2>6, Zenon
  <2> QED BY <1>2, <2>1, <2>4, <2>5, <2>6, Zenon DEF QueuedKept
<1>8. Usage'
  <2>1. now \in Nat /\ rotatedAt \in Nat /\ 1 <= rotatedAt /\ rotatedAt <= now
    BY <1>2, Zenon DEF Usage
  <2>2. 1 <= now /\ now <= now
    BY <2>1
  <2> QED BY <1>2, <2>1, <2>2, Zenon DEF Usage
<1> QED BY <1>4, <1>5, <1>6, <1>7, <1>8, Zenon

\* confirm_accepted_signed_prekey_rotation: only older keys are discarded.
LEMMA UConfirm ==
  ASSUME SInv, PubInv, UInv, ConfirmAccepted
  PROVE  UInv'
<1>1. /\ previous' = Truncated(previous) /\ down' = Tail(down) /\ down # <<>>
      /\ UNCHANGED <<spk, rotatedAt, up, old, published, msg, now, restores>>
  BY Zenon DEF ConfirmAccepted, Answered, relay
<1>2. SUFFICES ASSUME restores = 0
               PROVE  NoneNewer' /\ RefusedOlder' /\ DiscardedOlder' /\ QueuedKept' /\ Usage'
  BY <1>1, Zenon DEF UInv
<1>3. NoneNewer /\ RefusedOlder /\ DiscardedOlder /\ QueuedKept /\ Usage
  BY <1>2, Zenon DEF UInv
<1>4. Range(down') \subseteq Range(down)
  BY <1>1, KeyTypes, RangeTail
<1>5. /\ Recent(2) \subseteq Recent(2)' /\ Recent(3) \subseteq Recent(3)'
      /\ \A i \in 1..Len(previous') : previous'[i] = previous[i] /\ i \in 1..Len(previous)
      /\ \A x \in Range(previous) \ Range(previous') :
           Len(previous') = History /\ \A i \in 1..History : x.id < previous[i].id
      /\ Len(previous) >= History => Len(previous') = History
  BY <1>1, TruncatedRecent, Zenon
<1>6. DiscardedOlder'
  <2>1. SUFFICES ASSUME NEW k \in published, k \notin Held'
                 PROVE  Len(previous') = History
                        /\ \A i \in 1..Len(previous') : k.id < previous'[i].id
    <3>1. Len(previous') = History => Len(previous') >= History
      BY History3
    <3> QED BY <1>1, <2>1, <3>1, Zenon DEF DiscardedOlder
  <2>2. CASE k \in Held
    <3>1. k \in Range(previous) \ Range(previous')
      BY <1>1, <2>1, <2>2, Zenon DEF Held
    <3> QED BY <1>5, <3>1, Zenon
  <2>3. CASE k \notin Held
    BY <1>3, <1>5, <2>3, Zenon DEF DiscardedOlder
  <2> QED BY <2>2, <2>3, Zenon
<1> QED BY <1>1, <1>3, <1>4, <1>5, <1>6, Zenon
           DEF NoneNewer, RefusedOlder, QueuedKept, Usage

\* reconcile_rejected_signed_prekey_rotation has nothing to do.
LEMMA NotReconciled ==
  ASSUME SInv, PubInv, UInv, Reconcile
  PROVE  restores # 0
<1>1. SUFFICES ASSUME restores = 0 PROVE FALSE
  OBVIOUS
<1>2. /\ Answered(item) /\ ~(Head(down).accepted /\ Head(down).current = item.id)
  BY Zenon DEF Reconcile
<1>3. /\ item = spk /\ Head(down).key = spk /\ spk \in KeyRecords
      /\ Head(down) \in Range(down) /\ Head(down).type = "rotated"
      /\ AnswerTrue(Head(down))
  BY <1>2, FirstAnswer, Zenon
<1>4. ~Head(down).accepted
  BY <1>2, <1>3, Zenon DEF AnswerTrue
<1>5. spk.id < spk.id
  BY <1>1, <1>3, <1>4, Zenon DEF UInv, RefusedOlder
<1> QED BY <1>3, <1>5, IdsNat

\* rotate_signed_prekey: only the owner's current key is new to the relay, and
\* it is not refused.
LEMMA UStore ==
  ASSUME SInv, PubInv, UInv, NEW k \in Range(up) \cup Range(old), k \in KeyRecords, Store(k),
         UNCHANGED <<spk, previous, rotatedAt, msg, now, restores>>,
         Range(up') \cup Range(old') \subseteq Range(up) \cup Range(old),
         \A e \in Range(down') : e \in Range(down) \/ e = RotationAnswer(k)
  PROVE  UInv'
<1>1. SUFFICES ASSUME restores = 0
               PROVE  NoneNewer' /\ RefusedOlder' /\ DiscardedOlder' /\ QueuedKept' /\ Usage'
  BY Zenon DEF UInv
<1>2. NoneNewer /\ RefusedOlder /\ DiscardedOlder /\ QueuedKept /\ Usage
  BY <1>1, Zenon DEF UInv
<1>3. /\ published \subseteq published' /\ spk \in KeyRecords /\ published \subseteq KeyRecords
  BY StorePublishes, KeyTypes, Zenon
<1>c. /\ Current \in published /\ Current \in KeyRecords
      /\ \A x \in published : x.id <= Current.id
  BY CurrentNewest, KeyTypes, Zenon DEF SInv
<1>4. published' \subseteq published \cup {spk}
  <2>1. CASE Insertable(k)
    <3>1. k.id > Current.id
      BY <2>1, Zenon DEF Insertable
    <3>2. k \notin published
      BY <1>c, <3>1, IdsNat
    <3>3. k = spk
      BY <1>2, <3>2, Zenon DEF NoneNewer
    <3> QED BY <3>3, StorePublishes, Zenon
  <2>2. CASE ~Insertable(k)
    BY <2>2, Zenon DEF Store, relay
  <2> QED BY <2>1, <2>2, Zenon
<1>5. NoneNewer'
  <2>1. spk.id <= spk.id
    BY <1>3, IdsNat
  <2> QED BY <1>2, <1>3, <1>4, <2>1, Zenon DEF NoneNewer
<1>6. RefusedOlder'
  <2>1. SUFFICES ASSUME NEW e \in Range(down'), e.type = "rotated", ~e.accepted
                 PROVE  e.key.id < spk.id
    BY Zenon DEF RefusedOlder
  <2>2. CASE e \in Range(down)
    BY <1>2, <2>1, <2>2, Zenon DEF RefusedOlder
  <2>3. CASE e = RotationAnswer(k)
    <3>1. e.key = k
      BY <2>3, AnswerGiven, Zenon
    <3>2. ASSUME NEW b, NEW c PROVE Rotated(k, TRUE, b, c).accepted
      BY DEF Rotated
    <3>3. ~Insertable(k) /\ k # Current
      BY <2>1, <2>3, <3>2, Zenon DEF RotationAnswer
    <3>4. k.id <= Current.id /\ Current.id <= spk.id /\ (Current.id = spk.id => Current = spk)
      BY <1>2, <1>c, <3>3, IdsNat DEF NoneNewer, Insertable
    <3>5. k = spk \/ (k.id <= spk.id /\ (k.id = spk.id => k = spk))
      BY <1>2, Zenon DEF NoneNewer
    <3>6. k # spk
      BY <1>c, <1>3, <3>3, <3>4, IdsNat
    <3>7. k.id < spk.id
      BY <1>3, <3>5, <3>6, IdsNat
    <3> QED BY <3>1, <3>7, Zenon
  <2> QED BY <2>2, <2>3, Zenon
<1>7. DiscardedOlder'
  BY <1>2, <1>4, Zenon DEF DiscardedOlder, Held
<1>8. Recent(2)' = Recent(2) /\ Recent(3)' = Recent(3)
  BY Zenon DEF Recent
<1> QED BY <1>2, <1>3, <1>5, <1>6, <1>7, <1>8, Zenon DEF QueuedKept, Usage

\* The requester's steps and time.
LEMMA UMessage ==
  ASSUME SInv, PubInv, UInv, Fetch \/ Bundle \/ Encrypt \/ Admit \/ Open \/ NextTime
  PROVE  UInv'
<1>1. UNCHANGED <<spk, previous, rotatedAt, up, old, down, published, restores>>
  BY Zenon DEF Fetch, Bundle, Encrypt, Admit, Open, NextTime, owner, net, relay
<1>2. SUFFICES ASSUME restores = 0
               PROVE  NoneNewer' /\ RefusedOlder' /\ DiscardedOlder' /\ QueuedKept' /\ Usage'
  BY <1>1, Zenon DEF UInv
<1>3. NoneNewer /\ RefusedOlder /\ DiscardedOlder /\ QueuedKept /\ Usage
  BY <1>2, Zenon DEF UInv
<1>4. NoneNewer' /\ RefusedOlder' /\ DiscardedOlder'
  BY <1>1, <1>3, Zenon DEF NoneNewer, RefusedOlder, DiscardedOlder, Held
<1>5. Recent(2)' = Recent(2) /\ Recent(3)' = Recent(3)
  BY <1>1, Zenon DEF Recent
<1>u. now \in Nat /\ rotatedAt \in Nat /\ 1 <= rotatedAt /\ rotatedAt <= now
  BY <1>3, Zenon DEF Usage
<1>6. CASE Fetch
  <2>1. msg' = [st |-> "fetching", key |-> Current] /\ now' = now
    BY <1>6, Zenon DEF Fetch
  <2>2. msg'.st = "fetching" /\ msg'.key = Current
    BY <2>1
  <2>3. Current \in published
    BY CurrentNewest, KeyTypes, Zenon DEF SInv
  <2>4. QueuedKept'
    BY <2>2 DEF QueuedKept
  <2> QED BY <1>1, <1>4, <1>u, <2>1, <2>2, <2>3, <2>4, Zenon DEF Usage
<1>7. CASE Bundle \/ Encrypt
  <2>1. now' = now /\ msg.st \in {"fetching", "holding"}
        /\ \/ msg'.st \in {"holding", "sending"} /\ msg'.key = msg.key
           \/ msg'.st = "idle"
    BY <1>7 DEF Bundle, Encrypt
  <2>2. msg.key \in published
    BY <1>3, <2>1, Zenon DEF Usage
  <2>3. QueuedKept'
    BY <2>1 DEF QueuedKept
  <2>4. msg'.st \in {"fetching", "holding", "sending", "queued"} => msg'.key \in published
    BY <2>1, <2>2
  <2> QED BY <1>1, <1>4, <1>u, <2>1, <2>3, <2>4, Zenon DEF Usage
<1>8. CASE Admit
  <2>1. /\ now' = now /\ msg.st = "sending"
        /\ msg' = IF Admissible(msg) THEN [st |-> "queued", key |-> msg.key, at |-> now]
                  ELSE [st |-> "idle"]
    BY <1>8, Zenon DEF Admit
  <2>2. msg.key \in published
    BY <1>3, <2>1, Zenon DEF Usage
  <2>3. CASE Admissible(msg)
    <3>1. msg'.st = "queued" /\ msg'.key = msg.key /\ msg'.at = now
      BY <2>1, <2>3
    <3>2. PICK x \in table : x.id = msg.key.id
      BY <2>3, Zenon DEF Admissible, Ids
    <3>3. x = msg.key
      BY <2>2, <3>2, KeyTypes, Zenon DEF SInv, Listing, PublishedOncePerId
    <3>4. msg.key \in {spk} \cup Recent(2)
      BY <1>2, <3>2, <3>3, ListedHeld, Zenon
    <3>5. now <= now
      BY <1>u
    <3>6. QueuedKept'
      BY <1>1, <1>5, <1>u, <2>1, <3>1, <3>4, <3>5, Zenon DEF QueuedKept
    <3> QED BY <1>1, <1>4, <1>u, <2>1, <2>2, <3>1, <3>6, Zenon DEF Usage
  <2>4. CASE ~Admissible(msg)
    <3>1. msg'.st = "idle"
      BY <2>1, <2>4
    <3>2. QueuedKept' /\ msg'.st \notin {"fetching", "holding", "sending", "queued"}
      BY <3>1 DEF QueuedKept
    <3> QED BY <1>1, <1>4, <1>u, <2>1, <3>2, Zenon DEF Usage
  <2> QED BY <2>3, <2>4, Zenon
<1>9. CASE Open
  <2>1. now' = now /\ msg'.st = "opened"
    BY <1>9 DEF Open
  <2>2. QueuedKept' /\ msg'.st \notin {"fetching", "holding", "sending", "queued"}
    BY <2>1 DEF QueuedKept
  <2> QED BY <1>1, <1>4, <1>u, <2>1, <2>2, Zenon DEF Usage
<1>10. CASE NextTime
  <2>1. now' = now + 1 /\ msg' \in {msg, [st |-> "expired"]}
    BY <1>10, Zenon DEF NextTime
  <2>2. now' \in Nat /\ now <= now' /\ rotatedAt <= now'
    BY <1>u, <2>1
  <2>3. CASE msg' = msg
    <3>1. QueuedKept'
      <4>1. SUFFICES ASSUME msg.st = "queued"
                     PROVE  /\ msg.at \in Nat /\ msg.at <= now'
                            /\ \/ now' - msg.at >= Retention
                               \/ msg.key \in {spk} \cup Recent(2)
                               \/ msg.key \in Recent(3) /\ rotatedAt >= msg.at
        BY <1>1, <1>5, <2>3, Zenon DEF QueuedKept
      <4>2. /\ msg.at \in Nat /\ msg.at <= now
            /\ \/ now - msg.at >= Retention
               \/ msg.key \in {spk} \cup Recent(2)
               \/ msg.key \in Recent(3) /\ rotatedAt >= msg.at
        BY <1>3, <4>1, Zenon DEF QueuedKept
      <4>3. msg.at <= now' /\ (now - msg.at >= Retention => now' - msg.at >= Retention)
        BY <1>u, <2>1, <4>2, History3
      <4> QED BY <4>2, <4>3, Zenon
    <3> QED BY <1>1, <1>3, <1>4, <1>u, <2>2, <2>3, <3>1, Zenon DEF Usage
  <2>4. CASE msg' = [st |-> "expired"]
    <3>1. QueuedKept' /\ msg'.st \notin {"fetching", "holding", "sending", "queued"}
      BY <2>4 DEF QueuedKept
    <3> QED BY <1>1, <1>4, <1>u, <2>2, <3>1, Zenon DEF Usage
  <2> QED BY <2>1, <2>3, <2>4, Zenon
<1> QED BY <1>6, <1>7, <1>8, <1>9, <1>10, Zenon

\* The owner's steps.
LEMMA UOwner ==
  ASSUME SInv, PubInv, UInv, OwnerStep \/ LifecycleTick
  PROVE  UInv'
<1>0. up \in Seq(KeyRecords) /\ down \in Seq(AllEvents)
  BY KeyTypes, Zenon
<1>d. down # <<>> => Range(Tail(down)) \subseteq Range(down)
  BY <1>0, RangeTail
<1>e. ASSUME NEW k \in KeyRecords, Emit(<<k>>) \/ Emit(<<>>)
      PROVE  Range(up') \subseteq Range(up) \cup {k}
  <2>1. <<k>> \in Seq(KeyRecords) /\ <<>> \in Seq(KeyRecords)
    OBVIOUS
  <2>2. Range(up \o <<k>>) = Range(up) \cup Range(<<k>>) /\ Range(up \o <<>>) = Range(up) \cup Range(<<>>)
    BY <1>0, <2>1, RangeConcat
  <2>3. up' \in {up, up \o <<k>>, up \o <<>>}
    BY <1>e, Zenon DEF Emit
  <2> QED BY <2>2, <2>3, RangeSingle, RangeEmpty, Zenon
<1>k. spk \in KeyRecords /\ (OwnerStep \/ LifecycleTick => spk' \in KeyRecords)
  <2>1. OwnerKeys(spk, previous, nextId, item)'
    BY OwnerSteps, Zenon DEF SInv
  <2> QED BY <2>1, KeyTypes, Zenon DEF OwnerKeys
<1>1. CASE HandleAuthed
  <2>1. /\ down # <<>> /\ down' = Tail(down)
        /\ UNCHANGED <<old, published, msg, now, restores>>
        /\ Emit(IF item' = NoKey THEN <<>> ELSE <<item'>>)
        /\ IF RotationDue THEN Rotate ELSE UNCHANGED owner
    BY <1>1, Zenon DEF HandleAuthed, relay
  <2>2. item' \in {NoKey, spk'}
    BY <2>1, Zenon DEF PubInv, Confirmed, Rotate, owner
  <2>3. spk' \in KeyRecords
    BY <1>1, <1>k, Zenon DEF OwnerStep
  <2>4. Range(up') \subseteq Range(up) \cup {spk'}
    BY <1>e, <2>1, <2>2, <2>3, Zenon
  <2>5. CASE RotationDue
    BY <1>d, <2>1, <2>4, <2>5, URotate, Zenon
  <2>6. CASE ~RotationDue
    BY <1>d, <2>1, <2>4, <2>6, UQuiet, Zenon DEF owner
  <2> QED BY <2>5, <2>6, Zenon
<1>2. CASE HandleLost \/ IgnoreAnswer
  <2>1. /\ down # <<>> /\ down' = Tail(down)
        /\ UNCHANGED <<spk, previous, rotatedAt, published, msg, now, restores, up, old>>
    BY <1>2, Zenon DEF HandleLost, IgnoreAnswer, relay, owner
  <2> QED BY <1>d, <2>1, UQuiet, Zenon
<1>3. CASE ConfirmAccepted
  BY <1>3, UConfirm, Zenon
<1>4. CASE Reconcile
  BY <1>4, NotReconciled, Zenon DEF Reconcile, UInv
<1>5. CASE LifecycleTick
  <2>1. /\ RotationDue /\ Rotate /\ Emit(<<item'>>) /\ item' = spk'
        /\ UNCHANGED <<down, old, published, msg, now, restores>>
    BY <1>5, Zenon DEF LifecycleTick, relay, Rotate
  <2>2. Range(up') \subseteq Range(up) \cup {spk'}
    BY <1>5, <1>e, <1>k, <2>1, Zenon
  <2> QED BY <2>1, <2>2, URotate, Zenon
<1> QED BY <1>1, <1>2, <1>3, <1>4, <1>5, Zenon DEF OwnerStep

\* What the relay still reads of an abandoned connection was sent on it.
LEMMA AbandonRange ==
  ASSUME SInv, Abandon
  PROVE  Range(up') \cup Range(old') \subseteq Range(up) \cup Range(old)
<1>0. up \in Seq(KeyRecords) /\ old \in Seq(KeyRecords)
  BY KeyTypes, Zenon
<1>1. PICK n \in 0..Len(up) : old' = old \o SubSeq(up, 1, n)
  BY Zenon DEF Abandon
<1>2. PICK t : t = SubSeq(up, 1, n)
  OBVIOUS
<1>3. t \in Seq(KeyRecords) /\ Range(t) \subseteq Range(up)
  BY <1>0, <1>2, RangePrefix
<1>4. Range(old \o t) = Range(old) \cup Range(t)
  BY <1>0, <1>3, RangeConcat
<1> QED BY <1>1, <1>2, <1>3, <1>4, RangeEmpty, Zenon DEF Abandon

\* All other steps.
LEMMA UOther ==
  ASSUME SInv, PubInv, UInv,
         \/ Connect \/ Disconnect \/ Restart \/ Backup \/ Restore
         \/ HandleRotation \/ HandleOldRotation
         \/ Fetch \/ Bundle \/ Encrypt \/ Admit \/ Open \/ NextTime
  PROVE  UInv'
<1>0. /\ up \in Seq(KeyRecords) /\ old \in Seq(KeyRecords) /\ down \in Seq(AllEvents)
      /\ Authed \in AllEvents /\ Lost \in AllEvents
  BY KeyTypes, Zenon DEF AllEvents
<1>1. CASE Connect
  <2>1. /\ down' = Append(down, Authed)
        /\ UNCHANGED <<spk, previous, rotatedAt, published, msg, now, restores, up>>
    BY <1>1, Zenon DEF Connect, owner, relay
  <2>2. Range(down') = Range(down) \cup {Authed}
    BY <1>0, <2>1, RangeAppend
  <2>3. PICK n \in 0..Len(old) : old' = SubSeq(old, 1, n)
    BY <1>1, Zenon DEF Connect
  <2>4. Range(old') \subseteq Range(old)
    BY <1>0, <2>3, RangePrefix
  <2> QED BY <2>1, <2>2, <2>4, UQuiet, Zenon
<1>2. CASE Disconnect
  <2>1. /\ Abandon
        /\ UNCHANGED <<spk, previous, rotatedAt, published, msg, now, restores>>
    BY <1>2, Zenon DEF Disconnect, owner, relay
  <2>2. PICK n \in 0..Len(down) : down' = Append(SubSeq(down, 1, n), Lost)
    BY <1>2, Zenon DEF Disconnect
  <2>3. PICK t : t = SubSeq(down, 1, n)
    OBVIOUS
  <2>4. t \in Seq(AllEvents) /\ Range(t) \subseteq Range(down)
    BY <1>0, <2>3, RangePrefix
  <2>5. Range(Append(t, Lost)) = Range(t) \cup {Lost}
    BY <1>0, <2>4, RangeAppend
  <2>6. Range(down') \subseteq Range(down) \cup {Authed, Lost}
    BY <2>2, <2>3, <2>4, <2>5, Zenon
  <2>7. Range(up') \cup Range(old') \subseteq Range(up) \cup Range(old)
    BY <2>1, AbandonRange, Zenon
  <2> QED BY <2>1, <2>6, <2>7, UQuiet, Zenon
<1>3. CASE Restart
  <2>1. /\ Abandon /\ down' = <<>>
        /\ UNCHANGED <<spk, previous, rotatedAt, published, msg, now, restores>>
    BY <1>3, Zenon DEF Restart, owner, relay
  <2>2. Range(up') \cup Range(old') \subseteq Range(up) \cup Range(old)
    BY <2>1, AbandonRange, Zenon
  <2> QED BY <2>1, <2>2, UQuiet, RangeEmpty, Zenon
<1>4. CASE Backup
  <2>1. UNCHANGED <<spk, previous, rotatedAt, published, msg, now, restores, up, old, down>>
    BY <1>4, Zenon DEF Backup, owner, relay, net
  <2> QED BY <2>1, UQuiet, Zenon
<1>5. CASE Restore
  <2>1. restores' = restores + 1 /\ restores \in Nat
    BY <1>5, Zenon DEF Restore, UInv
  <2>2. restores' \in Nat /\ restores' # 0
    BY <2>1
  <2> QED BY <2>2, Zenon DEF UInv
<1>6. CASE HandleRotation
  <2>1. /\ up # <<>> /\ Store(Head(up)) /\ down' = Append(down, RotationAnswer(Head(up)))
        /\ up' = Tail(up)
        /\ UNCHANGED <<spk, previous, rotatedAt, msg, now, restores, old>>
    BY <1>6, Zenon DEF HandleRotation, owner
  <2>2. Head(up) \in KeyRecords /\ Head(up) \in Range(up) /\ Range(up') \subseteq Range(up)
    BY <1>0, <2>1, RangeTail
  <2>3. RotationAnswer(Head(up)) \in AllEvents
    BY <2>2, AnswerTypes, Zenon DEF SInv
  <2>4. Range(down') = Range(down) \cup {RotationAnswer(Head(up))}
    BY <1>0, <2>1, <2>3, RangeAppend
  <2> QED BY <2>1, <2>2, <2>4, UStore, Zenon
<1>7. CASE HandleOldRotation
  <2>1. /\ old # <<>> /\ Store(Head(old)) /\ old' = Tail(old)
        /\ UNCHANGED <<spk, previous, rotatedAt, msg, now, restores, up, down>>
    BY <1>7, Zenon DEF HandleOldRotation, owner
  <2>2. Head(old) \in KeyRecords /\ Head(old) \in Range(old) /\ Range(old') \subseteq Range(old)
    BY <1>0, <2>1, RangeTail
  <2> QED BY <2>1, <2>2, UStore, Zenon
<1>8. CASE Fetch \/ Bundle \/ Encrypt \/ Admit \/ Open \/ NextTime
  BY <1>8, UMessage, Zenon
<1> QED BY <1>1, <1>2, <1>3, <1>4, <1>5, <1>6, <1>7, <1>8, Zenon

\* A published history is truncated without losing a listed key.
LEMMA ListedStays ==
  ASSUME NEW h \in Seq(KeyRecords), Ordered(h), Range(h) \subseteq published,
         NEW x \in Range(h), x \in Newest(published)
  PROVE  x \in Range(Truncated(h))
<1>1. PICK i \in 1..Len(h) : h[i] = x
  BY RangeElem, Zenon
<1>2. i <= 2
  BY <1>1, ListedRecent, Zenon
<1>3. /\ Truncated(h) \in Seq(KeyRecords)
      /\ Len(Truncated(h)) = IF Len(h) <= History THEN Len(h) ELSE History
      /\ \A j \in 1..Len(Truncated(h)) : Truncated(h)[j] = h[j]
  BY TruncatedOrdered, Zenon
<1>4. i \in 1..Len(Truncated(h))
  <2>1. Len(h) \in Nat
    OBVIOUS
  <2> QED BY <1>2, <1>3, <2>1, History3
<1> QED BY <1>1, <1>3, <1>4, RangeElem, Zenon

\* No step but Restore discards a listed key.
LEMMA ListedKept ==
  ASSUME SInv, PubInv, UInv, [Next]_vars, restores' = restores
  PROVE  Held \cap table \subseteq Held'
<1>0. /\ spk \in KeyRecords /\ previous \in Seq(KeyRecords) /\ Ordered(previous)
      /\ Range(previous) \subseteq published /\ table = Newest(published)
      /\ \A i \in 1..Len(previous) : previous[i].id < spk.id
  BY KeyTypes, Zenon DEF PubInv, Confirmed
<1>1. CASE UNCHANGED <<spk, previous>>
  BY <1>1, Zenon DEF Held
<1>2. CASE Rotate
  <2>1. Range(previous') = {spk} \cup Range(previous)
    BY <1>2, RotatedRecent, Zenon DEF Rotate
  <2> QED BY <2>1, Zenon DEF Held
<1>3. CASE ConfirmAccepted
  BY <1>0, <1>3, ListedStays, Zenon DEF ConfirmAccepted, Held
<1>4. CASE Reconcile
  <2>1. /\ Answered(item) /\ ~(Head(down).accepted /\ Head(down).current = item.id)
        /\ \/ UNCHANGED owner
           \/ previous' = Truncated(IF Head(down).previously_accepted
                                      THEN <<spk>> \o previous ELSE previous)
    BY <1>4, Zenon DEF Reconcile
  <2>2. Head(down).key = spk /\ item = spk /\ AnswerTrue(Head(down))
    BY <2>1, FirstAnswer, Zenon
  <2>3. ~Head(down).accepted
    BY <2>1, <2>2, Zenon DEF AnswerTrue
  <2>4. CASE UNCHANGED owner
    BY <1>1, <2>4, Zenon DEF owner
  <2>5. CASE Head(down).previously_accepted /\ previous' = Truncated(<<spk>> \o previous)
    <3>1. PICK h : h = <<spk>> \o previous
      OBVIOUS
    <3>2. h \in Seq(KeyRecords) /\ Ordered(h) /\ Range(h) = {spk} \cup Range(previous)
      BY <1>0, <3>1, FrontOrdered, HistoryRange, Zenon
    <3>3. spk \in published
      BY <2>2, <2>5, Zenon DEF AnswerTrue
    <3>4. \A x \in Held \cap table : x \in Range(Truncated(h))
      BY <1>0, <3>2, <3>3, ListedStays, Zenon DEF Held
    <3> QED BY <2>5, <3>1, <3>4, Zenon DEF Held
  <2>6. CASE ~Head(down).previously_accepted /\ previous' = Truncated(previous)
    <3>1. spk \notin table
      BY <2>2, <2>3, <2>6, Zenon DEF AnswerTrue
    <3>2. \A x \in Held \cap table : x \in Range(Truncated(previous))
      BY <1>0, <3>1, ListedStays, Zenon DEF Held
    <3> QED BY <2>6, <3>2, Zenon DEF Held
  <2> QED BY <2>1, <2>4, <2>5, <2>6, Zenon
<1>5. CASE Restore
  <2>1. restores' = restores + 1 /\ restores \in Nat
    BY <1>5, Zenon DEF Restore, UInv
  <2>2. restores' # restores
    BY <2>1
  <2> QED BY <2>2, Zenon
<1>6. CASE HandleAuthed \/ LifecycleTick
  BY <1>1, <1>2, <1>6, Zenon DEF HandleAuthed, LifecycleTick, owner
<1>7. CASE HandleLost \/ IgnoreAnswer \/ Connect \/ Disconnect \/ Restart \/ Backup
           \/ HandleRotation \/ HandleOldRotation
  BY <1>1, <1>7, Zenon DEF HandleLost, IgnoreAnswer, Connect, Disconnect, Restart, Backup,
     HandleRotation, HandleOldRotation, owner
<1>8. CASE Fetch \/ Bundle \/ Encrypt \/ Admit \/ Open \/ NextTime
  BY <1>1, <1>8, Zenon DEF Fetch, Bundle, Encrypt, Admit, Open, NextTime, owner
<1>9. CASE UNCHANGED vars
  BY <1>1, <1>9, Zenon DEF vars, owner
<1> QED BY <1>3, <1>4, <1>5, <1>6, <1>7, <1>8, <1>9, Zenon DEF Next, OwnerStep

-----------------------------------------------------------------------------
(* Types and bounds *)

\* Arithmetic of the bounds.
LEMMA BoundsNat == MaxId \in Nat /\ 0 < MaxId /\ MaxTime \in Nat /\ 0 < MaxTime /\ MaxDrops \in Nat
                   /\ MaxRestores \in Nat
  BY SignedPrekeyAssumption

\* All keys are keys.
LEMMA KnownKeys == ASSUME SInv PROVE Known \subseteq KeyRecords
<1>1. /\ backup[1] \in KeyRecords /\ backup[2] \in Seq(KeyRecords)
  BY Zenon DEF SInv, OwnerKeys
<1>2. Range(backup[2]) \subseteq KeyRecords
  BY <1>1, RangeElem, Zenon
<1>3. Range(up) \subseteq KeyRecords /\ Range(old) \subseteq KeyRecords
  BY KeyTypes, RangeElem, Zenon
<1> QED BY <1>1, <1>2, <1>3, KeyTypes, Zenon DEF Known, Held

\* A key stays within the bounds.
LEMMA BoundedStays ==
  ASSUME SInv, SInv', made' \in {made, made + 1}, NEW k \in KeyRecords, Bounded(k)
  PROVE  Bounded(k)'
<1>1. made \in Nat /\ made' \in Nat
  BY Zenon DEF SInv, Transit
<1> QED BY <1>1, IdsNat DEF Bounded

\* No step makes a key but the owner's current one.
LEMMA KeyBoundsStep ==
  ASSUME SInv, SInv', Bounds, MessageTypes, made' \in {made, made + 1}, Bounded(spk)',
         Known' \subseteq Known \cup {spk'},
         \A e \in Range(down') : e.type = "rotated" =>
           e \in Range(down) \/ (e.key \in Known /\ e.current < MaxId),
         msg'.st \in KeyStates =>
           (msg.st \in KeyStates /\ msg'.key = msg.key) \/ msg'.key \in Known
  PROVE  KeyBounds'
<1>1. Known \subseteq KeyRecords /\ KeyBounds
  BY KnownKeys, Zenon DEF Bounds
<1>2. ASSUME NEW k \in Known PROVE Bounded(k)'
  BY <1>1, <1>2, BoundedStays, Zenon DEF KeyBounds
<1>3. ASSUME NEW e \in Range(down'), e.type = "rotated"
      PROVE  Bounded(e.key)' /\ e.current < MaxId
  <2>1. CASE e \in Range(down)
    <3>1. e.key \in KeyRecords
      BY <1>3, <2>1, KeyTypes, Zenon
    <3> QED BY <1>1, <1>3, <2>1, <3>1, BoundedStays, Zenon DEF KeyBounds
  <2>2. CASE e.key \in Known /\ e.current < MaxId
    BY <1>2, <2>2, Zenon
  <2> QED BY <1>3, <2>1, <2>2, Zenon
<1>4. ASSUME msg'.st \in KeyStates PROVE Bounded(msg.key)'
  <2>1. CASE msg'.key \in Known
    <3>1. PICK k \in Known : k = msg'.key
      BY <2>1, Zenon
    <3> QED BY <1>2, <3>1 DEF Bounded
  <2>2. CASE msg.st \in KeyStates /\ msg'.key = msg.key
    <3>1. msg.key \in KeyRecords
      BY <2>2 DEF MessageTypes, KeyStates
    <3>2. Bounded(msg.key)
      BY <1>1, <2>2, Zenon DEF KeyBounds
    <3>3. PICK k \in KeyRecords : k = msg.key
      BY <3>1, Zenon
    <3>4. Bounded(k)'
      BY <3>2, <3>3, BoundedStays, Zenon
    <3> QED BY <2>2, <3>3, <3>4 DEF Bounded
  <2> QED BY <1>4, <2>1, <2>2, Zenon
<1>5. ASSUME NEW k \in Known' PROVE Bounded(k)'
  <2>1. CASE k = spk'
    BY <2>1 DEF Bounded
  <2> QED BY <1>2, <1>5, <2>1, Zenon
<1> QED BY <1>3, <1>4, <1>5, Zenon DEF KeyBounds

\* The message does not change.
LEMMA SameMessage ==
  ASSUME Bounds, UNCHANGED <<msg, now>>
  PROVE  MessageTypes'
  BY Zenon DEF Bounds, MessageTypes

\* queue_signed_prekey_rotation stays within the bounds.
LEMMA RotateBounds ==
  ASSUME SInv, SInv', Bounds, RotationDue, Rotate, UNCHANGED now
  PROVE  /\ Bounded(spk)' /\ OwnerBounds(previous, nextId, rotatedAt, item)'
         /\ Held' \subseteq Held \cup {spk'} /\ made' = made + 1
<1>0. /\ spk \in KeyRecords /\ nextId \in Nat /\ item = NoKey /\ made \in Nat
      /\ previous \in Seq(KeyRecords) /\ now \in 1..MaxTime
      /\ Len(previous) <= History + (IF item = NoKey THEN 0 ELSE 1)
  BY Zenon DEF SInv, OwnerKeys, Transit, RotationDue, Bounds, OwnerBounds, Rest
<1>1. PICK id : id = Max({nextId, spk.id + 1})
  OBVIOUS
<1>2. /\ id < MaxId /\ spk' = Key(id, made) /\ made' = made + 1 /\ nextId' = id + 1
      /\ previous' = <<spk>> \o previous /\ rotatedAt' = now /\ item' = spk'
  BY <1>1, Zenon DEF RotationDue, Rotate
<1>3. id \in Nat
  <2>1. spk.id + 1 \in Nat
    BY <1>0, IdsNat
  <2> QED BY <1>0, <1>1, <2>1, MaxOf, Zenon
<1>4. spk'.id = id /\ spk'.gen = made
  BY <1>2 DEF Key
<1>5. Bounded(spk)'
  BY <1>0, <1>2, <1>4 DEF Bounded
<1>6. Len(previous') = Len(previous) + 1 /\ Range(previous') = {spk} \cup Range(previous)
  BY <1>2, RotatedRecent, Zenon
<1>7. item' # NoKey
  <2>1. spk' \in KeyRecords
    BY Zenon DEF SInv, OwnerKeys
  <2> QED BY <1>2, <2>1, IdsNat, Zenon
<1>8. Len(previous) \in Nat
  BY <1>0
<1>9. Len(previous') <= History + 1
  BY <1>0, <1>6, <1>8, History3
<1>10. nextId' \in 1..MaxId /\ rotatedAt' \in 1..now'
  BY <1>0, <1>2, <1>3, BoundsNat
<1>11. OwnerBounds(previous, nextId, rotatedAt, item)'
  BY <1>7, <1>9, <1>10, Zenon DEF OwnerBounds
<1> QED BY <1>2, <1>5, <1>6, <1>11, Zenon DEF Held

\* reconcile_rejected_signed_prekey_rotation, too.
LEMMA ReconcileBounds ==
  ASSUME SInv, SInv', PubInv, Bounds, Reconcile
  PROVE  \/ UNCHANGED <<owner, made, up>>
         \/ /\ Bounded(spk)' /\ OwnerBounds(previous, nextId, rotatedAt, item)'
            /\ Held' \subseteq Held \cup {spk'} /\ made' = made + 1
            /\ item' = spk' /\ Emit(<<item'>>)
<1>0. /\ spk \in KeyRecords /\ nextId \in Nat /\ made \in Nat /\ Answered(item)
      /\ previous \in Seq(KeyRecords) /\ Ordered(previous) /\ now \in 1..MaxTime /\ now' = now
      /\ \A i \in 1..Len(previous) : previous[i].id < spk.id
  BY Zenon DEF SInv, OwnerKeys, Transit, Reconcile, Bounds, Rest
<1>1. PICK id : id = ReplacementId(Head(down).current)
  OBVIOUS
<1>2. SUFFICES ASSUME /\ ~(previous = <<>> \/ id >= MaxId)
                      /\ spk' = Key(id, made) /\ made' = made + 1
                      /\ previous' = Truncated(IF Head(down).previously_accepted
                                                 THEN <<spk>> \o previous ELSE previous)
                      /\ nextId' = id + 1 /\ rotatedAt' = now /\ item' = spk'
                      /\ Emit(<<item'>>)
               PROVE  /\ Bounded(spk)' /\ OwnerBounds(previous, nextId, rotatedAt, item)'
                      /\ Held' \subseteq Held \cup {spk'}
  BY <1>1, Zenon DEF Reconcile
<1>3. spk' \in KeyRecords /\ spk'.id = id /\ spk'.gen = made
  <2>1. spk'.id = id /\ spk'.gen = made
    BY <1>2 DEF Key
  <2> QED BY <2>1, Zenon DEF SInv, OwnerKeys
<1>4. id \in Nat /\ id < MaxId /\ item' # NoKey
  BY <1>2, <1>3, IdsNat, BoundsNat
<1>5. Bounded(spk)'
  BY <1>0, <1>2, <1>3, <1>4 DEF Bounded
<1>6. PICK h : h = IF Head(down).previously_accepted THEN <<spk>> \o previous ELSE previous
  OBVIOUS
<1>7. h \in Seq(KeyRecords) /\ Ordered(h) /\ Range(h) \subseteq Held
  <2>1. /\ <<spk>> \o previous \in Seq(KeyRecords) /\ Ordered(<<spk>> \o previous)
        /\ Range(<<spk>> \o previous) = {spk} \cup Range(previous)
    BY <1>0, FrontOrdered, HistoryRange, Zenon
  <2>2. CASE Head(down).previously_accepted
    BY <1>6, <2>1, <2>2, Zenon DEF Held
  <2>3. CASE ~Head(down).previously_accepted
    BY <1>0, <1>6, <2>3, Zenon DEF Held
  <2> QED BY <2>2, <2>3, Zenon
<1>8. /\ Len(previous') = IF Len(h) <= History THEN Len(h) ELSE History
      /\ Range(previous') \subseteq Held
  BY <1>0, <1>2, <1>6, <1>7, TruncatedOrdered, HistoryRange, Zenon
<1>9. Len(previous') <= History + 1
  <2>1. Len(h) \in Nat
    BY <1>7
  <2> QED BY <1>8, <2>1, History3
<1>10. nextId' \in 1..MaxId /\ rotatedAt' \in 1..now'
  BY <1>0, <1>2, <1>4, BoundsNat
<1>11. OwnerBounds(previous, nextId, rotatedAt, item)'
  BY <1>4, <1>9, <1>10, Zenon DEF OwnerBounds
<1> QED BY <1>5, <1>8, <1>11, Zenon DEF Held

\* confirm_accepted_signed_prekey_rotation ends the extra key of the history.
LEMMA ConfirmBounds ==
  ASSUME SInv, Bounds, ConfirmAccepted
  PROVE  OwnerBounds(previous, nextId, rotatedAt, item)' /\ Held' \subseteq Held
<1>0. /\ spk \in KeyRecords /\ previous \in Seq(KeyRecords) /\ Ordered(previous)
      /\ nextId \in 1..MaxId /\ rotatedAt \in 1..now
  BY KeyTypes, Zenon DEF Bounds, OwnerBounds
<1>1. previous' = Truncated(previous) /\ item' = NoKey /\ UNCHANGED <<spk, nextId, rotatedAt, now>>
  BY Zenon DEF ConfirmAccepted
<1>2. /\ Len(previous') = IF Len(previous) <= History THEN Len(previous) ELSE History
      /\ Range(previous') \subseteq Range(previous)
  BY <1>0, <1>1, TruncatedOrdered, HistoryRange, Zenon
<1>3. Len(previous') <= History + (IF item' = NoKey THEN 0 ELSE 1)
  <2>1. Len(previous) \in Nat
    BY <1>0
  <2> QED BY <1>1, <1>2, <2>1, History3
<1> QED BY <1>0, <1>1, <1>2, <1>3, Zenon DEF OwnerBounds, Held

\* A step that keeps the bounds of the owner's state and of its copy.
LEMMA BoundsStep ==
  ASSUME SInv, SInv', Bounds, MessageTypes', Rest', made' \in {made, made + 1}, Bounded(spk)',
         Known' \subseteq Known \cup {spk'},
         \A e \in Range(down') : e.type = "rotated" =>
           e \in Range(down) \/ (e.key \in Known /\ e.current < MaxId),
         msg'.st \in KeyStates =>
           (msg.st \in KeyStates /\ msg'.key = msg.key) \/ msg'.key \in Known,
         OwnerBounds(previous, nextId, rotatedAt, item)',
         OwnerBounds(backup[2], backup[3], backup[4], backup[5])'
  PROVE  Bounds'
<1>1. KeyBounds'
  BY KeyBoundsStep, Zenon DEF Bounds
<1> QED BY <1>1, Zenon DEF Bounds

\* What is sent.
LEMMA EmitRange ==
  ASSUME SInv, NEW k \in KeyRecords, Emit(<<k>>) \/ Emit(<<>>)
  PROVE  Range(up') \subseteq Range(up) \cup {k}
<1>0. up \in Seq(KeyRecords)
  BY KeyTypes, Zenon
<1>1. <<k>> \in Seq(KeyRecords) /\ <<>> \in Seq(KeyRecords)
  OBVIOUS
<1>2. Range(up \o <<k>>) = Range(up) \cup Range(<<k>>) /\ Range(up \o <<>>) = Range(up) \cup Range(<<>>)
  BY <1>0, <1>1, RangeConcat
<1>3. up' \in {up, up \o <<k>>, up \o <<>>}
  BY Zenon DEF Emit
<1> QED BY <1>2, <1>3, RangeSingle, RangeEmpty, Zenon

\* The owner's steps stay within the bounds.
LEMMA OwnerStepBounds ==
  ASSUME SInv, SInv', PubInv, Bounds, OwnerStep \/ LifecycleTick
  PROVE  Bounds'
<1>k. spk \in KeyRecords /\ spk' \in KeyRecords /\ Bounded(spk)
      /\ down \in Seq(AllEvents)
      /\ OwnerBounds(previous, nextId, rotatedAt, item)
  BY KeyTypes, Zenon DEF SInv, OwnerKeys, Bounds, KeyBounds, Known, Held
<1>d. down # <<>> => Range(Tail(down)) \subseteq Range(down)
  BY <1>k, RangeTail
<1>c. ASSUME made' \in {made, made + 1}, Bounded(spk)', OwnerBounds(previous, nextId, rotatedAt, item)',
             Held' \subseteq Held \cup {spk'}, Range(up') \subseteq Range(up) \cup {spk'},
             Range(down') \subseteq Range(down), authed' \in BOOLEAN,
             UNCHANGED <<backup, online, old, drops, published, msg, now, restores>>
      PROVE  Bounds'
  <2>1. MessageTypes'
    BY <1>c, SameMessage, Zenon
  <2>2. Rest'
    BY <1>c, Zenon DEF Bounds, Rest
  <2>3. OwnerBounds(backup[2], backup[3], backup[4], backup[5])'
    BY <1>c, Zenon DEF Bounds, OwnerBounds
  <2>4. Known' \subseteq Known \cup {spk'}
    BY <1>c, Zenon DEF Known
  <2> QED BY <1>c, <2>1, <2>2, <2>3, <2>4, BoundsStep, Zenon
<1>s. ASSUME UNCHANGED <<spk, made>> PROVE Bounded(spk)'
  BY <1>k, <1>s, Zenon DEF Bounded
<1>o. ASSUME UNCHANGED <<owner, made, now>>
      PROVE  Bounded(spk)' /\ OwnerBounds(previous, nextId, rotatedAt, item)' /\ Held' = Held
  BY <1>k, <1>o, Zenon DEF Bounded, owner, OwnerBounds, Held
<1>1. CASE HandleAuthed
  <2>1. /\ down # <<>> /\ down' = Tail(down) /\ authed' = TRUE
        /\ UNCHANGED <<backup, online, old, drops, published, msg, now, restores>>
        /\ Emit(IF item' = NoKey THEN <<>> ELSE <<item'>>)
        /\ IF RotationDue THEN Rotate ELSE UNCHANGED <<owner, made>>
    BY <1>1, Zenon DEF HandleAuthed, relay
  <2>2. item' \in {NoKey, spk'}
    BY <2>1, Zenon DEF PubInv, Confirmed, Rotate, owner
  <2>3. Range(up') \subseteq Range(up) \cup {spk'}
    BY <1>k, <2>1, <2>2, EmitRange, Zenon
  <2>4. CASE RotationDue
    BY <1>c, <1>d, <2>1, <2>3, <2>4, RotateBounds, Zenon
  <2>5. CASE ~RotationDue
    BY <1>c, <1>d, <1>o, <2>1, <2>3, <2>5, Zenon
  <2> QED BY <2>4, <2>5, Zenon
<1>2. CASE HandleLost \/ IgnoreAnswer
  <2>1. /\ down # <<>> /\ down' = Tail(down) /\ authed' \in {authed, FALSE}
        /\ UNCHANGED <<owner, made, backup, online, old, drops, published, msg, now, restores, up>>
    BY <1>2, Zenon DEF HandleLost, IgnoreAnswer, relay
  <2>2. authed' \in BOOLEAN
    BY <2>1, Zenon DEF Bounds, Rest
  <2> QED BY <1>c, <1>d, <1>o, <2>1, <2>2, Zenon
<1>3. CASE ConfirmAccepted
  <2>1. /\ down # <<>> /\ down' = Tail(down)
        /\ UNCHANGED <<spk, made, backup, online, authed, old, drops, published, msg, now, restores, up>>
    BY <1>3, Zenon DEF ConfirmAccepted, Answered, relay
  <2>2. authed' \in BOOLEAN
    BY <2>1, Zenon DEF Bounds, Rest
  <2> QED BY <1>3, <1>c, <1>d, <1>s, <2>1, <2>2, ConfirmBounds, Zenon
<1>4. CASE Reconcile
  <2>1. /\ down # <<>> /\ down' = Tail(down)
        /\ UNCHANGED <<backup, online, authed, old, drops, published, msg, now, restores>>
    BY <1>4, Zenon DEF Reconcile, Answered, relay
  <2>2. authed' \in BOOLEAN
    BY <2>1, Zenon DEF Bounds, Rest
  <2>3. CASE UNCHANGED <<owner, made, up>>
    BY <1>c, <1>d, <1>o, <2>1, <2>2, <2>3, Zenon
  <2>4. CASE item' = spk' /\ Emit(<<item'>>)
    <3>1. Range(up') \subseteq Range(up) \cup {spk'}
      BY <1>k, <2>4, EmitRange, Zenon
    <3> QED BY <1>4, <1>c, <1>d, <2>1, <2>2, <2>3, <3>1, ReconcileBounds, Zenon
  <2> QED BY <1>4, <2>3, <2>4, ReconcileBounds, Zenon
<1>5. CASE LifecycleTick
  <2>1. /\ RotationDue /\ Rotate /\ Emit(<<item'>>) /\ item' = spk'
        /\ UNCHANGED <<backup, online, authed, old, down, drops, published, msg, now, restores>>
    BY <1>5, Zenon DEF LifecycleTick, relay, Rotate
  <2>2. Range(up') \subseteq Range(up) \cup {spk'}
    BY <1>k, <2>1, EmitRange, Zenon
  <2>3. authed' \in BOOLEAN
    BY <2>1, Zenon DEF Bounds, Rest
  <2> QED BY <1>c, <2>1, <2>2, <2>3, RotateBounds, Zenon
<1> QED BY <1>1, <1>2, <1>3, <1>4, <1>5, Zenon DEF OwnerStep

\* The steps that leave the owner's keys alone.
LEMMA OwnerAlone ==
  ASSUME SInv, SInv', Bounds, MessageTypes', Rest', UNCHANGED <<owner, made, backup>>,
         now' \in {now, now + 1},
         Range(up') \cup Range(old') \cup published' \subseteq Range(up) \cup Range(old) \cup published,
         \A e \in Range(down') : e.type = "rotated" =>
           e \in Range(down) \/ (e.key \in Known /\ e.current < MaxId),
         msg'.st \in KeyStates =>
           (msg.st \in KeyStates /\ msg'.key = msg.key) \/ msg'.key \in Known
  PROVE  Bounds'
<1>1. /\ Bounded(spk) /\ OwnerBounds(previous, nextId, rotatedAt, item)
      /\ OwnerBounds(backup[2], backup[3], backup[4], backup[5]) /\ now \in Nat
      /\ UNCHANGED <<spk, previous, nextId, rotatedAt, item, backup, made>>
  <2>1. now \in Nat
    BY BoundsNat DEF Bounds, Rest
  <2> QED BY <2>1, Zenon DEF Bounds, KeyBounds, Known, Held, owner
<1>2. ASSUME NEW p, NEW n, NEW r, NEW i, OwnerBounds(p, n, r, i)
      PROVE  OwnerBounds(p, n, r, i)'
  <2>1. r \in 1..now'
    BY <1>1, <1>2 DEF OwnerBounds
  <2> QED BY <1>2, <2>1, Zenon DEF OwnerBounds
<1>3. Bounded(spk)'
  BY <1>1, Zenon DEF Bounded
<1>4. OwnerBounds(previous, nextId, rotatedAt, item)'
  BY <1>1, <1>2, Zenon DEF OwnerBounds
<1>5. OwnerBounds(backup[2], backup[3], backup[4], backup[5])'
  BY <1>1, <1>2, Zenon DEF OwnerBounds
<1>6. Known' \subseteq Known \cup {spk'}
  BY <1>1, Zenon DEF Known, Held
<1> QED BY <1>1, <1>3, <1>4, <1>5, <1>6, BoundsStep, Zenon

\* The relay's answer stays within the bounds.
LEMMA AnswerBounds ==
  ASSUME SInv, Bounds, NEW k \in Known
  PROVE  RotationAnswer(k).key \in Known /\ RotationAnswer(k).current < MaxId
<1>1. k \in KeyRecords /\ Current \in published /\ Current \in Known
  BY KnownKeys, CurrentNewest, Zenon DEF SInv, Listing, Known
<1>2. k.id < MaxId /\ Current.id < MaxId
  BY <1>1, Zenon DEF Bounds, KeyBounds, Bounded
<1>3. \E a, b, c : RotationAnswer(k) = Rotated(k, a, b, c) /\ c \in {k.id, Current.id}
  BY Zenon DEF RotationAnswer
<1>4. PICK a, b, c : RotationAnswer(k) = Rotated(k, a, b, c) /\ c \in {k.id, Current.id}
  BY <1>3, Zenon
<1>5. Rotated(k, a, b, c).key = k /\ Rotated(k, a, b, c).current = c
  BY DEF Rotated
<1> QED BY <1>2, <1>4, <1>5, Zenon

\* The owner's connection and the relay stay within the bounds.
LEMMA RelayBounds ==
  ASSUME SInv, SInv', PubInv, Bounds,
         Connect \/ Disconnect \/ Restart \/ HandleRotation \/ HandleOldRotation
  PROVE  Bounds'
<1>0. /\ up \in Seq(KeyRecords) /\ old \in Seq(KeyRecords) /\ down \in Seq(AllEvents)
      /\ Authed \in AllEvents /\ Lost \in AllEvents
      /\ Authed.type # "rotated" /\ Lost.type # "rotated"
  BY KeyTypes DEF AllEvents, Authed, Lost
<1>m. ASSUME UNCHANGED <<msg, now>>
      PROVE  /\ MessageTypes'
             /\ msg'.st \in KeyStates =>
                  (msg.st \in KeyStates /\ msg'.key = msg.key) \/ msg'.key \in Known
  BY <1>m, SameMessage, Zenon
<1>r. Rest
  BY Zenon DEF Bounds
<1>d. drops < MaxDrops /\ drops' = drops + 1 => drops' \in 0..MaxDrops
  BY <1>r, BoundsNat DEF Rest
<1>1. CASE Connect
  <2>1. /\ down' = Append(down, Authed) /\ online' = TRUE
        /\ UNCHANGED <<owner, made, backup, authed, published, msg, now, restores, drops, up>>
    BY <1>1, Zenon DEF Connect, relay
  <2>2. Range(down') = Range(down) \cup {Authed}
    BY <1>0, <2>1, RangeAppend
  <2>3. PICK n \in 0..Len(old) : old' = SubSeq(old, 1, n)
    BY <1>1, Zenon DEF Connect
  <2>4. Range(old') \subseteq Range(old)
    BY <1>0, <2>3, RangePrefix
  <2>5. Rest'
    BY <1>r, <2>1, Zenon DEF Rest
  <2> QED BY <1>0, <1>m, <2>1, <2>2, <2>4, <2>5, OwnerAlone, Zenon
<1>2. CASE Disconnect
  <2>1. /\ Abandon /\ drops < MaxDrops /\ drops' = drops + 1 /\ online' = FALSE
        /\ UNCHANGED <<owner, made, backup, authed, published, msg, now, restores>>
    BY <1>2, Zenon DEF Disconnect, relay, Abandon
  <2>2. PICK n \in 0..Len(down) : down' = Append(SubSeq(down, 1, n), Lost)
    BY <1>2, Zenon DEF Disconnect
  <2>3. PICK t : t = SubSeq(down, 1, n)
    OBVIOUS
  <2>4. t \in Seq(AllEvents) /\ Range(t) \subseteq Range(down)
    BY <1>0, <2>3, RangePrefix
  <2>5. Range(Append(t, Lost)) = Range(t) \cup {Lost}
    BY <1>0, <2>4, RangeAppend
  <2>6. Range(down') \subseteq Range(down) \cup {Lost}
    BY <2>2, <2>3, <2>4, <2>5, Zenon
  <2>7. Range(up') \cup Range(old') \subseteq Range(up) \cup Range(old)
    BY <2>1, AbandonRange, Zenon
  <2>8. Rest'
    BY <1>d, <1>r, <2>1, Zenon DEF Rest
  <2> QED BY <1>0, <1>m, <2>1, <2>6, <2>7, <2>8, OwnerAlone, Zenon
<1>3. CASE Restart
  <2>1. /\ Abandon /\ down' = <<>> /\ drops < MaxDrops /\ drops' = drops + 1
        /\ online' = FALSE /\ authed' = FALSE
        /\ UNCHANGED <<owner, made, backup, published, msg, now, restores>>
    BY <1>3, Zenon DEF Restart, relay, Abandon
  <2>2. Range(up') \cup Range(old') \subseteq Range(up) \cup Range(old)
    BY <2>1, AbandonRange, Zenon
  <2>3. Rest'
    BY <1>d, <1>r, <2>1, Zenon DEF Rest
  <2> QED BY <1>m, <2>1, <2>2, <2>3, RangeEmpty, OwnerAlone, Zenon
<1>4. CASE HandleRotation
  <2>1. /\ up # <<>> /\ Store(Head(up)) /\ down' = Append(down, RotationAnswer(Head(up)))
        /\ up' = Tail(up)
        /\ UNCHANGED <<owner, made, backup, online, authed, old, drops, msg, now, restores>>
    BY <1>4, Zenon DEF HandleRotation
  <2>2. Head(up) \in KeyRecords /\ Head(up) \in Range(up) /\ Range(up') \subseteq Range(up)
    BY <1>0, <2>1, RangeTail
  <2>3. RotationAnswer(Head(up)) \in AllEvents
    BY <2>2, AnswerTypes, Zenon DEF SInv
  <2>4. Range(down') = Range(down) \cup {RotationAnswer(Head(up))}
    BY <1>0, <2>1, <2>3, RangeAppend
  <2>5. RotationAnswer(Head(up)).key \in Known /\ RotationAnswer(Head(up)).current < MaxId
    BY <2>2, AnswerBounds, Zenon DEF Known
  <2>6. published' \subseteq published \cup {Head(up)}
    BY <2>1, <2>2, StorePublishes, Zenon
  <2>7. Rest'
    BY <1>r, <2>1, Zenon DEF Rest
  <2>8. \A e \in Range(down') : e.type = "rotated" =>
           e \in Range(down) \/ (e.key \in Known /\ e.current < MaxId)
    BY <2>4, <2>5, Zenon
  <2>9. Range(up') \cup Range(old') \cup published' \subseteq Range(up) \cup Range(old) \cup published
    BY <2>1, <2>2, <2>6, Zenon
  <2> QED BY <1>m, <2>1, <2>7, <2>8, <2>9, OwnerAlone, Zenon
<1>5. CASE HandleOldRotation
  <2>1. /\ old # <<>> /\ Store(Head(old)) /\ old' = Tail(old)
        /\ UNCHANGED <<owner, made, backup, online, authed, up, down, drops, msg, now, restores>>
    BY <1>5, Zenon DEF HandleOldRotation
  <2>2. Head(old) \in KeyRecords /\ Head(old) \in Range(old) /\ Range(old') \subseteq Range(old)
    BY <1>0, <2>1, RangeTail
  <2>3. published' \subseteq published \cup {Head(old)}
    BY <2>1, <2>2, StorePublishes, Zenon
  <2>4. Rest'
    BY <1>r, <2>1, Zenon DEF Rest
  <2>5. Range(up') \cup Range(old') \cup published' \subseteq Range(up) \cup Range(old) \cup published
    BY <2>1, <2>2, <2>3, Zenon
  <2> QED BY <1>m, <2>1, <2>4, <2>5, OwnerAlone, Zenon
<1> QED BY <1>1, <1>2, <1>3, <1>4, <1>5, Zenon

\* Copying the owner's state, and coming back with the copy.
LEMMA CopyBounds ==
  ASSUME SInv, SInv', Bounds, Backup \/ Restore
  PROVE  Bounds'
<1>r. /\ Rest /\ Bounded(spk) /\ Bounded(backup[1])
      /\ OwnerBounds(previous, nextId, rotatedAt, item)
      /\ OwnerBounds(backup[2], backup[3], backup[4], backup[5])
  BY Zenon DEF Bounds, KeyBounds, Known, Held
<1>1. CASE Backup
  <2>1. /\ backup' = <<spk, previous, nextId, rotatedAt, item>>
        /\ UNCHANGED <<spk, previous, nextId, rotatedAt, item, made, online, authed, up, old,
                       down, drops, published, msg, now, restores>>
    BY <1>1, Zenon DEF Backup, owner, net, relay
  <2>2. /\ backup'[1] = spk /\ backup'[2] = previous /\ backup'[3] = nextId
        /\ backup'[4] = rotatedAt /\ backup'[5] = item
    BY <2>1
  <2>3. OwnerBounds(backup[2], backup[3], backup[4], backup[5])'
    BY <1>r, <2>1, <2>2, Zenon DEF OwnerBounds
  <2>4. OwnerBounds(previous, nextId, rotatedAt, item)'
    BY <1>r, <2>1, Zenon DEF OwnerBounds
  <2>5. Rest' /\ MessageTypes' /\ Bounded(spk)'
    BY <1>r, <2>1, SameMessage, Zenon DEF Rest, Bounded
  <2>6. Known' \subseteq Known \cup {spk'}
    BY <2>1, <2>2, Zenon DEF Known, Held
  <2> QED BY <2>1, <2>3, <2>4, <2>5, <2>6, BoundsStep, Zenon
<1>2. CASE Restore
  <2>1. /\ spk' = backup[1] /\ previous' = backup[2] /\ nextId' = backup[3]
        /\ rotatedAt' = backup[4] /\ item' = backup[5] /\ msg' = [st |-> "idle"]
        /\ restores < MaxRestores /\ restores' = restores + 1
        /\ Abandon /\ down' = <<>> /\ authed' = FALSE /\ online' = FALSE
        /\ UNCHANGED <<made, backup, drops, published, now>>
    BY <1>2, Zenon DEF Restore, Abandon, relay
  <2>2. OwnerBounds(backup[2], backup[3], backup[4], backup[5])'
    BY <1>r, <2>1, Zenon DEF OwnerBounds
  <2>3. OwnerBounds(previous, nextId, rotatedAt, item)'
    BY <1>r, <2>1, Zenon DEF OwnerBounds
  <2>4. restores' \in 0..MaxRestores
    BY <1>r, <2>1, BoundsNat DEF Rest
  <2>5. Rest' /\ Bounded(spk)'
    BY <1>r, <2>1, <2>4, Zenon DEF Rest, Bounded
  <2>6. MessageTypes' /\ msg'.st \notin KeyStates
    BY <2>1 DEF MessageTypes, KeyStates
  <2>7. Range(up') \cup Range(old') \subseteq Range(up) \cup Range(old)
    BY <2>1, AbandonRange, Zenon
  <2>8. Known' \subseteq Known \cup {spk'}
    BY <2>1, <2>7, Zenon DEF Known, Held
  <2> QED BY <2>1, <2>2, <2>3, <2>5, <2>6, <2>8, RangeEmpty, BoundsStep, Zenon
<1> QED BY <1>1, <1>2, Zenon

\* The first message stays what it is.
LEMMA MessageBounds ==
  ASSUME SInv, SInv', Bounds, Fetch \/ Bundle \/ Encrypt \/ Admit \/ Open \/ NextTime
  PROVE  Bounds'
<1>r. Rest /\ MessageTypes /\ now \in Nat
  BY BoundsNat DEF Bounds, Rest
<1>i. [st |-> "idle"].st = "idle" /\ [st |-> "opened"].st = "opened" /\ [st |-> "expired"].st = "expired"
  OBVIOUS
<1>n. ASSUME msg' \in {[st |-> "idle"], [st |-> "opened"], [st |-> "expired"]}
      PROVE  MessageTypes' /\ msg'.st \notin KeyStates
  BY <1>n DEF MessageTypes, KeyStates
<1>c. ASSUME UNCHANGED <<owner, made, backup, online, authed, up, old, down, drops, published, restores>>,
             now' \in {now, now + 1}, now' \in 1..MaxTime, MessageTypes',
             msg'.st \in KeyStates =>
               (msg.st \in KeyStates /\ msg'.key = msg.key) \/ msg'.key \in Known
      PROVE  Bounds'
  <2>1. Rest'
    BY <1>c, <1>r, Zenon DEF Rest
  <2> QED BY <1>c, <2>1, OwnerAlone, Zenon
<1>u. ASSUME UNCHANGED <<owner, made, backup, net, relay, now, restores>>, MessageTypes',
             msg'.st \in KeyStates =>
               (msg.st \in KeyStates /\ msg'.key = msg.key) \/ msg'.key \in Known
      PROVE  Bounds'
  <2>1. /\ UNCHANGED <<online, authed, up, old, down, drops, published>>
        /\ now' = now /\ now \in 1..MaxTime
    BY <1>u, <1>r, Zenon DEF net, relay, Rest
  <2> QED BY <1>u, <1>c, <2>1, Zenon
<1>1. CASE Fetch
  <2>1. msg' = [st |-> "fetching", key |-> Current] /\ UNCHANGED <<owner, made, backup, net, relay, now, restores>>
    BY <1>1, Zenon DEF Fetch
  <2>2. Current \in Known /\ Current \in KeyRecords
    BY CurrentNewest, Zenon DEF SInv, Listing, Known
  <2>3. MessageTypes' /\ msg'.key \in Known
    BY <2>1, <2>2 DEF MessageTypes
  <2> QED BY <1>u, <2>1, <2>3, Zenon
<1>2. CASE Bundle
  <2>1. PICK otk \in BOOLEAN :
          msg' = [st |-> "holding", key |-> msg.key, otk |-> otk, until |-> now + Reservation]
    BY <1>2, Zenon DEF Bundle
  <2>2. msg.st = "fetching" /\ UNCHANGED <<owner, made, backup, net, relay, now, restores>>
    BY <1>2, Zenon DEF Bundle
  <2>3. msg.key \in KeyRecords
    BY <1>r, <2>2 DEF MessageTypes
  <2>4. now + Reservation \in Nat
    BY <1>r, SignedPrekeyAssumption
  <2>5. MessageTypes' /\ msg'.key = msg.key
    BY <2>1, <2>3, <2>4 DEF MessageTypes
  <2> QED BY <1>u, <2>2, <2>5, Zenon DEF KeyStates
<1>3. CASE Encrypt
  <2>1. /\ msg.st = "holding" /\ UNCHANGED <<owner, made, backup, net, relay, now, restores>>
        /\ msg' = IF msg.until < now THEN [st |-> "idle"]
                  ELSE [st |-> "sending", key |-> msg.key, otk |-> msg.otk, until |-> msg.until]
    BY <1>3, Zenon DEF Encrypt
  <2>2. CASE msg' = [st |-> "idle"]
    BY <1>n, <1>u, <2>1, <2>2, Zenon
  <2>3. CASE msg' = [st |-> "sending", key |-> msg.key, otk |-> msg.otk, until |-> msg.until]
    <3>1. msg.key \in KeyRecords /\ msg.otk \in BOOLEAN /\ msg.until \in Nat
      BY <1>r, <2>1 DEF MessageTypes
    <3>2. MessageTypes' /\ msg'.key = msg.key
      BY <2>3, <3>1 DEF MessageTypes
    <3> QED BY <1>u, <2>1, <3>2, Zenon DEF KeyStates
  <2> QED BY <2>1, <2>2, <2>3, Zenon
<1>4. CASE Admit
  <2>1. /\ msg.st = "sending" /\ UNCHANGED <<owner, made, backup, net, relay, now, restores>>
        /\ msg' = IF Admissible(msg) THEN [st |-> "queued", key |-> msg.key, at |-> now]
                  ELSE [st |-> "idle"]
    BY <1>4, Zenon DEF Admit
  <2>2. CASE msg' = [st |-> "idle"]
    BY <1>n, <1>u, <2>1, <2>2, Zenon
  <2>3. CASE msg' = [st |-> "queued", key |-> msg.key, at |-> now]
    <3>1. msg.key \in KeyRecords
      BY <1>r, <2>1 DEF MessageTypes
    <3>2. now' = now /\ now \in 1..now
      BY <1>r, <2>1 DEF Rest
    <3>3. MessageTypes' /\ msg'.key = msg.key
      BY <1>r, <2>3, <3>1, <3>2 DEF MessageTypes
    <3> QED BY <1>u, <2>1, <3>3, Zenon DEF KeyStates
  <2> QED BY <2>1, <2>2, <2>3, Zenon
<1>5. CASE Open
  BY <1>5, <1>n, <1>u, Zenon DEF Open
<1>6. CASE NextTime
  <2>1. /\ now < MaxTime /\ now' = now + 1 /\ UNCHANGED <<owner, made, backup, net, relay, restores>>
        /\ \/ msg' = [st |-> "expired"]
           \/ msg' = msg
    BY <1>6, Zenon DEF NextTime
  <2>2. now' \in 1..MaxTime
    BY <1>r, <2>1, BoundsNat
  <2>3. UNCHANGED <<online, authed, up, old, down, drops, published>>
    BY <2>1, Zenon DEF net, relay
  <2>4. CASE msg' = [st |-> "expired"]
    BY <1>c, <1>n, <2>1, <2>2, <2>3, <2>4, Zenon
  <2>5. CASE msg' = msg
    <3>1. msg.st = "queued" => msg.at \in 1..now'
      BY <1>r, <2>1 DEF MessageTypes
    <3>2. MessageTypes'
      BY <1>r, <2>5, <3>1, Zenon DEF MessageTypes
    <3> QED BY <1>c, <2>1, <2>2, <2>3, <2>5, <3>2, Zenon
  <2> QED BY <2>1, <2>4, <2>5, Zenon
<1> QED BY <1>1, <1>2, <1>3, <1>4, <1>5, <1>6, Zenon

\* The bounds hold initially.
LEMMA InitBounds == Init => Bounds
<1> SUFFICES ASSUME Init PROVE Bounds
  OBVIOUS
<1>1. /\ Range(previous) = {} /\ Range(up) = {} /\ Range(old) = {} /\ Range(down) = {}
      /\ previous = <<>> /\ item = NoKey /\ published = {spk} /\ nextId = 1 /\ rotatedAt = 1
      /\ now = 1 /\ made = 1 /\ drops = 0 /\ restores = 0 /\ online = FALSE /\ authed = FALSE
      /\ msg = [st |-> "idle"]
  BY RangeEmpty, Zenon DEF Init
<1>2. backup[1] = spk /\ backup[2] = previous /\ backup[3] = nextId /\ backup[4] = rotatedAt /\ backup[5] = item
  BY DEF Init, owner
<1>3. Bounded(spk)
  BY <1>1, BoundsNat DEF Init, Key, Bounded
<1>4. MessageTypes /\ msg.st \notin KeyStates
  BY <1>1 DEF MessageTypes, KeyStates
<1>5. KeyBounds
  BY <1>1, <1>2, <1>3, <1>4, Zenon DEF KeyBounds, Known, Held
<1>6. OwnerBounds(previous, nextId, rotatedAt, item)
  BY <1>1, BoundsNat, History3 DEF OwnerBounds
<1>7. Rest
  <2>1. 1 \in 1..MaxTime /\ 0 \in 0..MaxDrops /\ 0 \in 0..MaxRestores
    BY BoundsNat
  <2> QED BY <1>1, <2>1, Zenon DEF Rest
<1> QED BY <1>2, <1>4, <1>5, <1>6, <1>7, Zenon DEF Bounds

\* Every step keeps the bounds.
LEMMA NextBounds == SInv /\ SInv' /\ PubInv /\ Bounds /\ [Next]_vars => Bounds'
<1> SUFFICES ASSUME SInv, SInv', PubInv, Bounds, [Next]_vars PROVE Bounds'
  OBVIOUS
<1>1. CASE UNCHANGED vars
  <2>1. UNCHANGED <<owner, made, backup, online, authed, up, old, down, drops, published, msg,
                    now, restores>>
    BY <1>1, Zenon DEF vars, net, relay
  <2>2. Rest' /\ MessageTypes'
    BY <2>1, SameMessage, Zenon DEF Bounds, Rest
  <2> QED BY <2>1, <2>2, OwnerAlone, Zenon
<1>2. CASE Next
  BY <1>2, OwnerStepBounds, RelayBounds, CopyBounds, MessageBounds, Zenon DEF Next
<1> QED BY <1>1, <1>2, Zenon

\* A sequence of keys that are all within the bounds.
LEMMA BoundedKeys ==
  ASSUME SInv, Bounds
  PROVE  /\ \A k \in KeyRecords : Bounded(k) => k \in Keys
         /\ \A s \in Seq(KeyRecords) : Range(s) \subseteq Known => s \in Seq(Keys)
<1>1. made \in Nat /\ Known \subseteq KeyRecords /\ \A k \in Known : Bounded(k)
  BY KnownKeys, Zenon DEF SInv, Transit, Bounds, KeyBounds
<1>2. ASSUME NEW k \in KeyRecords, Bounded(k) PROVE k \in Keys
  BY <1>1, <1>2, BoundsNat DEF KeyRecords, Keys, Bounded
<1>3. Known \subseteq Keys
  BY <1>1, <1>2, Zenon
<1>4. ASSUME NEW s \in Seq(KeyRecords), Range(s) \subseteq Keys PROVE s \in Seq(Keys)
  <2>1. \A i \in 1..Len(s) : s[i] \in Keys
    BY <1>4, RangeElem, Zenon
  <2> QED BY <2>1
<1> QED BY <1>2, <1>3, <1>4, Zenon

\* The relay lists one or two keys.
LEMMA TwoListed ==
  ASSUME SInv, PubInv
  PROVE  \E j, k \in table : table = {j, k}
<1>1. /\ Current \in table /\ \A x \in published : x.id <= Current.id
      /\ published \subseteq KeyRecords /\ table \subseteq published /\ table = Newest(published)
      /\ \A j, k \in published : j.id = k.id => j = k
  BY CurrentNewest, Zenon DEF SInv, Listing, PubInv, PublishedOncePerId
<1>2. CASE table = {Current}
  BY <1>1, <1>2, Zenon
<1>3. CASE table # {Current}
  <2>1. PICK k \in table : k # Current
    BY <1>1, <1>3, Zenon
  <2>2. ASSUME NEW j \in table PROVE j \in {Current, k}
    <3>1. /\ j \in published /\ k \in published /\ Current \in published
          /\ j.id \in Nat /\ k.id \in Nat /\ Current.id \in Nat
      BY <1>1, IdsNat, Zenon
    <3>2. SUFFICES ASSUME j # Current, j # k PROVE FALSE
      BY Zenon
    <3>3. j.id # k.id /\ j.id # Current.id /\ k.id # Current.id
      BY <1>1, <2>1, <3>1, <3>2, Zenon
    <3>4. j.id < Current.id /\ k.id < Current.id
      BY <1>1, <3>1, <3>3
    <3>5. CASE j.id < k.id
      <4>1. Current.id > j.id /\ k.id > j.id
        BY <3>1, <3>4, <3>5
      <4>2. \A x, y \in published : x.id > j.id /\ y.id > j.id => x = y
        BY <1>1, Zenon DEF Newest
      <4> QED BY <2>1, <3>1, <4>1, <4>2, Zenon
    <3>6. CASE k.id < j.id
      <4>1. Current.id > k.id /\ j.id > k.id
        BY <3>1, <3>4, <3>6
      <4>2. \A x, y \in published : x.id > k.id /\ y.id > k.id => x = y
        BY <1>1, Zenon DEF Newest
      <4> QED BY <3>1, <3>2, <4>1, <4>2, Zenon
    <3> QED BY <3>1, <3>3, <3>5, <3>6
  <2>3. table = {Current, k}
    BY <1>1, <2>1, <2>2, Zenon
  <2> QED BY <1>1, <2>1, <2>3, Zenon
<1> QED BY <1>2, <1>3, Zenon

\* The types follow from the invariants.
LEMMA TypesFollow ==
  ASSUME SInv, PubInv, Bounds
  PROVE  TypeOK
<1>k. /\ spk \in KeyRecords /\ previous \in Seq(KeyRecords) /\ up \in Seq(KeyRecords)
      /\ old \in Seq(KeyRecords) /\ down \in Seq(AllEvents) /\ made \in Nat
      /\ published \subseteq KeyRecords /\ table \subseteq published
      /\ spk.id < nextId
  BY KeyTypes, Zenon DEF SInv, OwnerKeys, Transit
<1>r. Rest /\ KeyBounds /\ MessageTypes /\ OwnerBounds(previous, nextId, rotatedAt, item)
  BY Zenon DEF Bounds
<1>1. spk \in Keys /\ previous \in Seq(Keys) /\ up \in Seq(Keys) /\ old \in Seq(Keys)
  BY <1>k, <1>r, BoundedKeys, Zenon DEF KeyBounds, Known, Held
<1>2. published \subseteq Keys
  BY <1>k, <1>r, BoundedKeys, Zenon DEF KeyBounds, Known
<1>3. down \in Seq(Events)
  <2>1. ASSUME NEW i \in 1..Len(down) PROVE down[i] \in Events
    <3>1. PICK e : e = down[i]
      OBVIOUS
    <3>2. e \in AllEvents /\ e \in Range(down)
      BY <1>k, <2>1, <3>1, RangeElem, Zenon
    <3>3. CASE e \in {Authed, Lost}
      BY <3>1, <3>3, Zenon DEF Events
    <3>4. CASE e \notin {Authed, Lost}
      <4>1. /\ e \in [type : {"rotated"}, key : KeyRecords, accepted : BOOLEAN,
                       previously_accepted : BOOLEAN, current : Nat]
        BY <3>2, <3>4, Zenon DEF AllEvents
      <4>2. e.type = "rotated" /\ e.key \in KeyRecords /\ e.current \in Nat
        BY <4>1
      <4>3. e.key \in Keys /\ e.current < MaxId
        BY <1>r, <3>2, <4>2, BoundedKeys, Zenon DEF KeyBounds
      <4>4. e.current \in 0..MaxId
        BY <4>2, <4>3, BoundsNat
      <4>5. e \in [type : {"rotated"}, key : Keys, accepted : BOOLEAN,
                   previously_accepted : BOOLEAN, current : 0..MaxId]
        BY <4>1, <4>3, <4>4
      <4> QED BY <3>1, <4>5, Zenon DEF Events
    <3> QED BY <3>3, <3>4, Zenon
  <2> QED BY <1>k, <2>1
<1>4. msg \in Messages
  <2>1. msg.st \in KeyStates => msg.key \in Keys
    <3>1. msg.st \in KeyStates => msg.key \in KeyRecords
      BY <1>r DEF MessageTypes, KeyStates
    <3> QED BY <1>r, <3>1, BoundedKeys, Zenon DEF KeyBounds
  <2>2. CASE msg.st \in {"idle", "opened", "expired"}
    BY <1>r, <2>2 DEF MessageTypes, Messages
  <2>3. CASE msg.st = "fetching"
    BY <1>r, <2>1, <2>3 DEF MessageTypes, Messages, KeyStates
  <2>4. CASE msg.st \in {"holding", "sending"}
    BY <1>r, <2>1, <2>4 DEF MessageTypes, Messages, KeyStates
  <2>5. CASE msg.st = "queued"
    BY <1>r, <2>1, <2>5 DEF MessageTypes, Messages, KeyStates
  <2> QED BY <1>r, <2>2, <2>3, <2>4, <2>5 DEF MessageTypes
<1>5. item \in {NoKey, spk}
  BY Zenon DEF PubInv, Confirmed
<1> QED BY <1>k, <1>r, <1>1, <1>2, <1>3, <1>4, <1>5, TwoListed, Zenon DEF TypeOK, Rest, OwnerBounds

-----------------------------------------------------------------------------
(* The theorems *)

\* Every step keeps the invariant.
LEMMA NextSInv == SInv /\ [Next]_vars => SInv'
<1> SUFFICES ASSUME SInv, [Next]_vars PROVE SInv'
  OBVIOUS
<1>1. CASE UNCHANGED vars
  <2>1. UNCHANGED <<owner, made, backup, relay, up, old, down>>
    BY <1>1 DEF vars, net
  <2>2. up \in Seq(KeyRecords) /\ old \in Seq(KeyRecords) /\ down \in Seq(AllEvents)
    BY DEF SInv, Transit
  <2> QED BY <2>1, <2>2, ElsewhereStep
<1>2. CASE Next
  BY <1>2, OwnerSteps, ConnectionSteps, OtherSteps DEF Next
<1> QED BY <1>1, <1>2

\* Registration.
LEMMA InitUInv == Init => PubInv /\ UInv
<1> SUFFICES ASSUME Init PROVE PubInv /\ UInv
  OBVIOUS
<1>0. SInv
  BY InitSInv
<1>1. /\ Range(previous) = {} /\ Range(up) = {} /\ Range(old) = {} /\ Range(down) = {}
      /\ previous = <<>> /\ item = NoKey /\ published = {spk} /\ table = {spk}
      /\ spk \in KeyRecords
  BY <1>0, KeyTypes, RangeEmpty, Zenon DEF Init
<1>2. backup[1] = spk /\ backup[2] = previous /\ backup[5] = item
  BY DEF Init, owner
<1>3. table = Newest(published)
  BY <1>1, Zenon DEF Newest
<1>4. PubInv
  BY <1>1, <1>2, <1>3, Zenon DEF PubInv, Confirmed
<1>5. NoneNewer /\ RefusedOlder /\ DiscardedOlder
  <2>1. spk.id <= spk.id
    BY <1>1, IdsNat
  <2> QED BY <1>1, <2>1, Zenon DEF NoneNewer, RefusedOlder, DiscardedOlder, Held
<1>6. msg.st = "idle" /\ rotatedAt = 1 /\ now = 1 /\ restores = 0
  BY DEF Init
<1>7. QueuedKept /\ Usage /\ restores \in Nat
  BY <1>6 DEF QueuedKept, Usage
<1> QED BY <1>4, <1>5, <1>7, Zenon DEF UInv

\* Every step keeps what is published and what is kept.
LEMMA NextUInv == SInv /\ PubInv /\ UInv /\ [Next]_vars => PubInv' /\ UInv'
<1> SUFFICES ASSUME SInv, PubInv, UInv, [Next]_vars PROVE PubInv' /\ UInv'
  OBVIOUS
<1>1. CASE UNCHANGED vars
  <2>1. UNCHANGED <<spk, previous, rotatedAt, item, published, table, msg, now, restores,
                    up, old, down, backup, relay>>
    BY <1>1, Zenon DEF vars, owner, net, relay
  <2>2. PubInv'
    BY <2>1, PubMoves, Zenon DEF PubInv, Confirmed
  <2> QED BY <2>1, <2>2, UQuiet, Zenon
<1>2. CASE Next
  BY <1>2, OwnerPub, OtherPub, UOwner, UOther, Zenon DEF Next
<1> QED BY <1>1, <1>2, Zenon

\* The inductive invariant holds in every reachable state.
THEOREM SInvHolds == Spec => []SInv
<1>1. Init => SInv
  BY InitSInv
<1>2. SInv /\ [Next]_vars => SInv'
  BY NextSInv
<1> QED BY <1>1, <1>2, PTL DEF Spec

\* rotate_signed_prekey never lists two keys under one identifier, whatever
\* rotations arrive late, twice or from a restored backup.
THEOREM KeyPublishedOncePerId == Spec => []PublishedOncePerId
<1>1. SInv => PublishedOncePerId
  BY DEF SInv, Listing
<1> QED BY <1>1, SInvHolds, PTL

\* The lookup by identifier in create_bob_session is unambiguous.
THEOREM HeldKeysDistinct == Spec => []HeldIdsUnique
<1>1. ASSUME SInv PROVE HeldIdsUnique
  <2> DEFINE s == <<spk>> \o previous
  <2>1. /\ s \in Seq(KeyRecords) /\ Ordered(s) /\ Len(s) = Len(previous) + 1
    BY <1>1, FrontOrdered DEF SInv, OwnerKeys
  <2> HIDE DEF s
  <2>2. ASSUME NEW i \in 1..Len(s), NEW j \in 1..Len(s), s[i].id = s[j].id
        PROVE  i = j
    <3>1. s[i] \in KeyRecords /\ s[j] \in KeyRecords
      BY <2>1
    <3>2. s[i].id \in Nat /\ s[j].id \in Nat
      BY <3>1 DEF KeyRecords
    <3>3. ~(i < j)
      <4>1. i < j => s[j].id < s[i].id
        BY <2>1 DEF Ordered
      <4> QED BY <2>2, <3>2, <4>1
    <3>4. ~(j < i)
      <4>1. j < i => s[i].id < s[j].id
        BY <2>1 DEF Ordered
      <4> QED BY <2>2, <3>2, <4>1
    <3> QED BY <2>1, <3>3, <3>4
  <2>3. \A i, j \in 1..(Len(previous) + 1) : s[i].id = s[j].id => i = j
    BY <2>1, <2>2
  <2> QED BY <2>3 DEF HeldIdsUnique, s
<1>2. SInv => HeldIdsUnique
  BY <1>1
<1> QED BY <1>2, SInvHolds, PTL

\* The relay's listing, what the answers say of it, and what the owner keeps.
THEOREM UInvHolds == Spec => [](SInv /\ PubInv /\ UInv)
<1>1. Init => SInv /\ PubInv /\ UInv
  BY InitSInv, InitUInv
<1>2. SInv /\ PubInv /\ UInv /\ [Next]_vars => SInv' /\ PubInv' /\ UInv'
  BY NextSInv, NextUInv
<1> QED BY <1>1, <1>2, PTL DEF Spec

\* An owner that never restored a backup has the private key of every key the
\* relay lists, and of every first message in its queue: with the history of
\* three keys (SIGNED_PREKEY_PRIVATE_HISTORY), and a rotation period that is
\* at least the retention of the queue, truncation comes too late to matter.
THEOREM AcceptedKeysKept == Spec => []AcceptedCanBeOpened
<1>1. ASSUME SInv, PubInv, UInv PROVE AcceptedCanBeOpened
  <2>1. SUFFICES ASSUME restores = 0
                 PROVE  /\ table \subseteq Held
                        /\ msg.st = "queued" /\ now - msg.at < Retention => msg.key \in Held
    BY Zenon DEF AcceptedCanBeOpened
  <2>2. Recent(2) \subseteq Range(previous) /\ Recent(3) \subseteq Range(previous)
    <3>1. previous \in Seq(KeyRecords) /\ 2 \in Nat /\ 3 \in Nat
      BY <1>1, KeyTypes
    <3> QED BY <3>1, RecentKeys, Zenon
  <2>3. table \subseteq Held
    BY <1>1, <2>1, <2>2, ListedHeld, Zenon DEF Held
  <2>4. ASSUME msg.st = "queued", now - msg.at < Retention PROVE msg.key \in Held
    <3>1. /\ msg.at \in Nat /\ now \in Nat
          /\ \/ now - msg.at >= Retention
             \/ msg.key \in {spk} \cup Recent(2)
             \/ msg.key \in Recent(3) /\ rotatedAt >= msg.at
      BY <1>1, <2>1, <2>4, Zenon DEF UInv, QueuedKept, Usage
    <3>2. ~(now - msg.at >= Retention)
      BY <2>4, <3>1, History3
    <3> QED BY <2>2, <3>1, <3>2, Zenon DEF Held
  <2> QED BY <2>3, <2>4, Zenon
<1>2. SInv /\ PubInv /\ UInv => AcceptedCanBeOpened
  BY <1>1
<1> QED BY <1>2, UInvHolds, PTL

\* Only restoring a backup discards the private key of a key the relay lists,
\* also when the owner's keys are not the ones the relay has: a listed key is
\* among the two newest of the published ones, and a refused candidate is
\* kept when it had been published (reconcile_rejected_signed_prekey_rotation).
THEOREM ListedKeysKept == Spec => ListedNotDiscarded
<1>1. SInv /\ PubInv /\ UInv /\ [Next]_vars =>
        [restores' = restores => Held \cap table \subseteq Held']_vars
  BY ListedKept, Zenon
<1> QED BY <1>1, UInvHolds, PTL DEF Spec, ListedNotDiscarded

\* Types and bounds: the history of private keys is at most one key longer
\* than SIGNED_PREKEY_PRIVATE_HISTORY, and only while a rotation is pending,
\* identifiers stay below u32::MAX, and the relay lists one or two keys.
THEOREM TypeCorrect == Spec => []TypeOK
<1>1. Init => Bounds
  BY InitBounds
<1>2. SInv /\ SInv' /\ PubInv /\ Bounds /\ [Next]_vars => Bounds'
  BY NextBounds
<1>3. SInv /\ PubInv /\ Bounds => TypeOK
  BY TypesFollow, Zenon
<1> QED BY <1>1, <1>2, <1>3, UInvHolds, PTL DEF Spec

=============================================================================
