--------------------------- MODULE SessionsSafety ---------------------------
(***************************************************************************)
(* Sessions, for any two clients, any number of messages and any limits: no *)
(* message key is used twice, and none can be computed again from a session *)
(* once its message was sent or opened.                                    *)
(***************************************************************************)
EXTENDS Sessions, ChannelLemmas

-----------------------------------------------------------------------------
(* The inductive invariant *)

IsSeq(s) == Len(s) \in Nat /\ s = [i \in 1..Len(s) |-> s[i]]

\* What was mixed into a root key last: the Diffie-Hellman output of a key of
\* each client.
Top(root) == root[Len(root)]

\* The key pairs of p, and the ratchet keys among its first n + 3.
Mine(p)    == [of : {p}, n : Nat]
Ours(p, n) == [of : {p}, n : 3..(2 + n)]
Past(p, n) == [of : {p}, n : 0..(2 + n)]

\* The keys of messages p has sent, and the keys of the other client it knows.
Used(p)  == {sent[p][i].header.key : i \in DOMAIN sent[p]}
Known(p) == {SignedPrekey(Other(p))} \cup Used(Other(p))

\* A message of p: its key is the one of a chain between the ratchet key in its
\* header and a key of the other client; an opener is the first of a chain with
\* the signed prekey.
EnvelopeOK(p, e) ==
  /\ e.header.key \in Ours(p, made[p]) /\ e.header.n \in Nat /\ e.header.previous \in Nat
  /\ e.box.mk.n = e.header.n
  /\ \E k \in Known(p) : Top(e.box.mk.root) = DH(e.header.key, k)
  /\ e.prekey # None => /\ e.header.n = 0
                        /\ Top(e.box.mk.root) = DH(e.header.key, SignedPrekey(Other(p)))

\* Messages with the same ratchet key are of one chain and have different numbers.
OneChain(s) ==
  \A i, j \in DOMAIN s : s[i].header.key = s[j].header.key =>
    /\ Top(s[i].box.mk.root) = Top(s[j].box.mk.root)
    /\ s[i].header.n = s[j].header.n => i = j

SentOK(p) ==
  /\ IsSeq(sent[p]) /\ OneChain(sent[p])
  /\ \A i \in DOMAIN sent[p] : EnvelopeOK(p, sent[p][i])

\* A chain p receives with, made by a key of its own it does not send with any
\* more and the key t of the other client.
Retired(p, n, our, root, t) ==
  /\ \E k \in Past(p, n) \ {our} : Top(root) = DH(k, t)
  /\ \A i \in DOMAIN sent[p] : Top(sent[p][i].box.mk.root) # Top(root)

IsChain(c) == c = [root |-> c.root, at |-> c.at] /\ c.at \in Nat

IsSession(s) ==
  s = [root |-> s.root, our |-> s.our, their |-> s.their, sending |-> s.sending,
       receiving |-> s.receiving, send |-> s.send, recv |-> s.recv,
       previousSend |-> s.previousSend, skipped |-> s.skipped]

\* The chains of session s of client p, which has generated n ratchet keys.
ChainsOK(p, s, n) ==
  /\ IsSession(s) /\ IsSeq(s.root)
  /\ s.our \in Ours(p, n) /\ s.their \in Known(p)
  /\ s.send \in Nat /\ s.recv \in Nat /\ s.previousSend \in Nat
  /\ IsChain(s.sending) /\ s.sending.at = s.send /\ Top(s.sending.root) = DH(s.our, s.their)
  /\ s.receiving # None =>
       IsChain(s.receiving) /\ Retired(p, n, s.our, s.receiving.root, s.their)

\* The position of the receiving chain is the counter.
Aligned(s) == s.receiving # None => s.receiving.at = s.recv

\* Stored keys are of chains p does not send with, and behind the current one.
SkippedOK(p, s, n) ==
  \A k \in s.skipped :
    /\ k.key \in Known(p) /\ k.mk.n = k.n /\ k.n \in Nat
    /\ Retired(p, n, s.our, k.mk.root, k.key)
    /\ s.receiving # None /\ s.receiving.root = k.mk.root => k.n < s.receiving.at

\* What was sent in the current chain is behind it.
SendingOK(p, s) ==
  \A i \in DOMAIN sent[p] : sent[p][i].header.key = s.our =>
    sent[p][i].header.n < s.send /\ Top(sent[p][i].box.mk.root) = DH(s.our, s.their)

\* The message with key mk was opened: it is of an earlier chain, or behind the
\* current one and not among the stored keys.
Behind(p, s, n, mk) ==
  /\ \E k \in Past(p, n) \ {s.our}, t \in Known(p) : Top(mk.root) = DH(k, t)
  /\ mk.n \in Nat /\ \A k \in s.skipped : k.mk # mk
  /\ s.receiving # None /\ s.receiving.root = mk.root => mk.n < s.receiving.at

SessionOK(p, s, n) ==
  /\ ChainsOK(p, s, n) /\ SkippedOK(p, s, n) /\ SendingOK(p, s)
  /\ \A m \in Range(opened[p]) : Behind(p, s, n, Envelope(m).box.mk)

\* An opener whose ratchet key the session knows was opened.
OpenersOpened(p, s) ==
  \A j \in DOMAIN sent[Other(p)] :
    LET e == sent[Other(p)][j] IN
    /\ e.prekey # None
    /\ e.header.key = s.their \/ \E k \in s.skipped : k.key = e.header.key
    => <<Other(p), j>> \in Range(opened[p])

\* A session that has not sent its X3DH header has not received either.
Unsent(p, s) ==
  /\ s.their = SignedPrekey(Other(p)) /\ s.send = 0
  /\ s.receiving = None /\ s.skipped = {}

\* What p has opened: messages of the other client, each once, an opener before
\* anything else with its ratchet key.
OpenedOK(p) ==
  /\ IsSeq(opened[p])
  /\ Range(opened[p]) \subseteq ({Other(p)} \X DOMAIN sent[Other(p)]) \cap accepted
  /\ \A m \in Range(opened[p]) :
       \E k \in Past(p, made[p]), t \in Known(p) : Top(Envelope(m).box.mk.root) = DH(k, t)
  /\ \A j \in DOMAIN sent[Other(p)], m \in Range(opened[p]) :
       /\ sent[Other(p)][j].prekey # None
       /\ Envelope(m).header.key = sent[Other(p)][j].header.key
       => <<Other(p), j>> \in Range(opened[p])

\* What is on its way.
TransitOK(p) ==
  /\ IsSeq(outbox[p]) /\ Range(outbox[p]) \subseteq {p} \X DOMAIN sent[p]
  /\ queue[p] \subseteq (({Other(p)} \X DOMAIN sent[Other(p)]) \cap accepted) \ Range(opened[p])

Base ==
  /\ DOMAIN sess = Parties /\ DOMAIN sent = Parties /\ DOMAIN opened = Parties
  /\ DOMAIN outbox = Parties /\ DOMAIN queue = Parties /\ made \in [Parties -> Nat]
  /\ \A p \in Parties : SentOK(p)

\* The session p holds.
HeldOK(p, x) ==
  x # None =>
    /\ SessionOK(p, x.ratchet, made[p]) /\ Aligned(x.ratchet) /\ OpenersOpened(p, x.ratchet)
    /\ x.prekey # None => Unsent(p, x.ratchet)

FInv == Base /\ \A p \in Parties : OpenedOK(p) /\ TransitOK(p) /\ HeldOK(p, sess[p])

-----------------------------------------------------------------------------
(* Sequences, key pairs and the two clients *)

LEMMA SeqOf ==
  ASSUME NEW s, IsSeq(s), NEW T, Range(s) \subseteq T
  PROVE  s \in Seq(T) /\ DOMAIN s = 1..Len(s)
<1>1. DOMAIN s = 1..Len(s) /\ Len(s) \in Nat
  BY DEF IsSeq
<1>2. \A i \in 1..Len(s) : s[i] \in T
  BY <1>1 DEF Range
<1>3. s \in [1..Len(s) -> T]
  BY <1>1, <1>2 DEF IsSeq
<1> QED BY <1>1, <1>3

LEMMA IsSeqOf ==
  ASSUME NEW T, NEW s \in Seq(T)
  PROVE  IsSeq(s)
  BY DEF IsSeq

\* Appending an element, for sequences of anything.
Appended(s, e, t) ==
  /\ DOMAIN s = 1..Len(s) /\ Len(s) \in Nat /\ DOMAIN t = 1..(Len(s) + 1)
  /\ \A i \in DOMAIN s : t[i] = s[i]
  /\ t[Len(s) + 1] = e

LEMMA SeqAppend ==
  ASSUME NEW s, IsSeq(s), NEW e
  PROVE  /\ IsSeq(Append(s, e)) /\ Top(Append(s, e)) = e
         /\ Range(Append(s, e)) = Range(s) \cup {e}
         /\ Appended(s, e, Append(s, e))
<1>1. PICK T : T = Range(s) \cup {e}
  BY Zenon
<1>2. s \in Seq(T) /\ e \in T /\ DOMAIN s = 1..Len(s)
  BY <1>1, SeqOf, Zenon
<1>3. Append(s, e) \in Seq(T) /\ Range(Append(s, e)) = Range(s) \cup {e}
  BY <1>2, RangeAppend
<1>4. Len(Append(s, e)) = Len(s) + 1 /\ Append(s, e)[Len(s) + 1] = e /\ Len(s) \in Nat
  BY <1>2
<1>5. \A i \in DOMAIN s : Append(s, e)[i] = s[i]
  BY <1>2
<1>6. DOMAIN Append(s, e) = 1..(Len(s) + 1)
  BY <1>3, <1>4
<1>7. IsSeq(Append(s, e))
  BY <1>3, IsSeqOf, Zenon
<1> QED BY <1>2, <1>3, <1>4, <1>5, <1>6, <1>7, Zenon DEF Top, Appended

\* A settled item leaves the outbox.
LEMMA SeqWithout ==
  ASSUME NEW s, IsSeq(s), NEW f
  PROVE  IsSeq(Without(s, f)) /\ Range(Without(s, f)) \subseteq Range(s)
<1>1. s \in Seq(Range(s))
  BY SeqOf, Zenon
<1> QED BY <1>1, WithoutElem, IsSeqOf, Zenon

LEMMA OtherParty ==
  ASSUME NEW p \in Parties
  PROVE  /\ Other(p) \in Parties /\ Other(p) # p /\ Other(Other(p)) = p
         /\ \A q \in Parties : q = p \/ q = Other(p)
<1>1. PICK a \in Parties, b \in Parties : a # b /\ Parties = {a, b}
  BY SessionsAssumption, Zenon
<1>2. \A x \in Parties : Other(x) \in Parties /\ Other(x) # x
  <2>1. SUFFICES ASSUME NEW x \in Parties PROVE Other(x) \in Parties /\ Other(x) # x
    BY Zenon
  <2>2. \E y \in Parties : y # x
    BY <1>1, Zenon
  <2> QED BY <2>2, Zenon DEF Other
<1> QED BY <1>1, <1>2, Zenon

\* Key pairs of different clients are different, and a Diffie-Hellman output of
\* one of each tells which they were.
LEMMA DHOf ==
  ASSUME NEW p, NEW q, p # q, NEW a \in Mine(p), NEW b \in Mine(p), NEW c \in Mine(q),
         NEW d \in Mine(q), DH(a, c) = DH(b, d)
  PROVE  a = b /\ c = d
<1>1. a.of = p /\ b.of = p /\ c.of = q /\ d.of = q
  BY DEF Mine
<1>2. a # d /\ c # b
  BY <1>1, Zenon
<1>3. {a, c} = {b, d}
  BY Zenon DEF DH
<1>4. a \in {b, d} /\ c \in {b, d}
  BY <1>3, Zenon
<1> QED BY <1>2, <1>4, Zenon

LEMMA DHSymmetric == \A a, b : DH(a, b) = DH(b, a)
  BY Zenon DEF DH

LEMMA KeySets ==
  ASSUME NEW p, NEW n \in Nat
  PROVE  /\ Ours(p, n) \subseteq Past(p, n) /\ Past(p, n) \subseteq Mine(p)
         /\ SignedPrekey(p) \in Past(p, n) /\ SignedPrekey(p) \notin Ours(p, n)
         /\ \A m \in Nat : m >= n => Ours(p, n) \subseteq Ours(p, m) /\ Past(p, n) \subseteq Past(p, m)
         /\ \A m \in Nat : m >= n => Pair(p, 3 + m) \notin Past(p, n)
         /\ \A m \in Nat : Pair(p, 3 + m) \in Ours(p, m + 1)
<1>1. Ours(p, n) \subseteq Past(p, n) /\ Past(p, n) \subseteq Mine(p)
  BY DEF Ours, Past, Mine
<1>2. SignedPrekey(p) \in Past(p, n) /\ SignedPrekey(p) \notin Ours(p, n)
  BY DEF Ours, Past, SignedPrekey, Pair
<1>3. \A m \in Nat : m >= n => Ours(p, n) \subseteq Ours(p, m) /\ Past(p, n) \subseteq Past(p, m)
  BY DEF Ours, Past
<1>4. \A m \in Nat : m >= n => Pair(p, 3 + m) \notin Past(p, n)
  BY DEF Past, Pair
<1>5. \A m \in Nat : Pair(p, 3 + m) \in Ours(p, m + 1)
  BY DEF Ours, Pair
<1> QED BY <1>1, <1>2, <1>3, <1>4, <1>5, Zenon

LEMMA OursAre ==
  ASSUME NEW p, NEW n \in Nat, NEW k \in Ours(p, n)
  PROVE  k \in Past(p, n) /\ k \in Mine(p) /\ k # SignedPrekey(p) /\ k # Pair(p, 3 + n)
  BY DEF Ours, Past, Mine, SignedPrekey, Pair

\* The keys a client knows are the other client's.
LEMMA KnownKeys ==
  ASSUME NEW p \in Parties, SentOK(Other(p)), made[Other(p)] \in Nat
  PROVE  /\ Known(p) \subseteq Mine(Other(p)) /\ Used(Other(p)) \subseteq Ours(Other(p), made[Other(p)])
         /\ None \notin Known(p)
<1>1. Used(Other(p)) \subseteq Ours(Other(p), made[Other(p)])
  BY Zenon DEF SentOK, EnvelopeOK, Used
<1>2. Known(p) \subseteq Mine(Other(p))
  BY <1>1, KeySets, Zenon DEF Known
<1>3. \A k \in Mine(Other(p)) : k # None
  BY OtherParty, SessionsAssumption DEF Mine
<1> QED BY <1>1, <1>2, <1>3, Zenon

-----------------------------------------------------------------------------
(* The operators of the ratchet *)

\* encrypt: the key of the position, and the chain moves on.
Encrypted(s, e) ==
  /\ e.session = [root |-> s.root, our |-> s.our, their |-> s.their,
                  sending |-> [root |-> s.sending.root, at |-> s.sending.at + 1],
                  receiving |-> s.receiving, send |-> s.send + 1, recv |-> s.recv,
                  previousSend |-> s.previousSend, skipped |-> s.skipped]
  /\ e.header = [key |-> s.our, previous |-> s.previousSend, n |-> s.send]
  /\ e.box.mk = [root |-> s.sending.root, n |-> s.sending.at]

LEMMA EncryptResult ==
  ASSUME NEW s, IsSession(s), IsChain(s.sending), NEW aad, NEW e, e = Encrypt(s, aad), e.ok
  PROVE  Encrypted(s, e)
<1>1. ~(s.send = MaxCount \/ s.sending = None)
  BY DEF Encrypt, Failed
<1>2. e = [ok |-> TRUE, session |-> [s EXCEPT !.sending = Advance(@, 1), !.send = @ + 1],
           header |-> Header(s), box |-> Seal(MessageKey(s.sending, 0), aad, Header(s))]
  BY <1>1, Zenon DEF Encrypt
<1>3. /\ e.session = [s EXCEPT !.sending = Advance(@, 1), !.send = @ + 1]
      /\ e.header = Header(s) /\ e.box.mk = MessageKey(s.sending, 0)
  BY <1>2 DEF Seal
<1>4. Advance(s.sending, 1) = [root |-> s.sending.root, at |-> s.sending.at + 1]
  BY DEF Advance, IsChain
<1>5. MessageKey(s.sending, 0) = [root |-> s.sending.root, n |-> s.sending.at]
  BY DEF MessageKey, IsChain
<1>6. e.session = [root |-> s.root, our |-> s.our, their |-> s.their,
                   sending |-> Advance(s.sending, 1), receiving |-> s.receiving,
                   send |-> s.send + 1, recv |-> s.recv,
                   previousSend |-> s.previousSend, skipped |-> s.skipped]
  BY <1>3, Zenon DEF IsSession
<1> QED BY <1>3, <1>4, <1>5, <1>6, Zenon DEF Header, Encrypted

\* The stored key of number i of a chain.
Stored(s, i) == [key |-> s.their, n |-> i, mk |-> [root |-> s.receiving.root, n |-> i]]

\* The session s with stored keys k and receiving chain c.
Moved(s, k, c) == [s EXCEPT !.skipped = k, !.receiving = c]

LEMMA MovedTo ==
  ASSUME NEW s, IsSession(s), NEW k, NEW c
  PROVE  Moved(s, k, c) = [root |-> s.root, our |-> s.our, their |-> s.their,
                           sending |-> s.sending, receiving |-> c, send |-> s.send,
                           recv |-> s.recv, previousSend |-> s.previousSend, skipped |-> k]
<1>0. PICK x : x = Moved(s, k, c)
  BY Zenon
<1>1. /\ x.root = s.root /\ x.our = s.our /\ x.their = s.their /\ x.sending = s.sending
      /\ x.receiving = c /\ x.send = s.send /\ x.recv = s.recv
      /\ x.previousSend = s.previousSend /\ x.skipped = k
  BY <1>0 DEF IsSession, Moved
<1>2. IsSession(x)
  BY <1>0, Zenon DEF IsSession, Moved
<1> QED BY <1>0, <1>1, <1>2, Zenon DEF IsSession

\* The session s with its receiving chain moved to number u.
SkippedTo(s, u) ==
  [root |-> s.root, our |-> s.our, their |-> s.their, sending |-> s.sending,
   receiving |-> [root |-> s.receiving.root, at |-> u],
   send |-> s.send, recv |-> s.recv, previousSend |-> s.previousSend,
   skipped |-> s.skipped \cup {Stored(s, i) : i \in s.recv..(u - 1)}]

\* skip_message_keys to number u of the receiving chain: nothing to skip, or the
\* chain moves to u.
LEMMA SkipResult ==
  ASSUME NEW s, IsSession(s), s.receiving # None => IsChain(s.receiving) /\ s.receiving.at = s.recv,
         NEW u \in Nat, s.recv \in Nat, NEW r, r = SkipMessageKeys(s, s.recv, u), r.ok
  PROVE  \/ /\ r.session = s
            /\ u > s.recv => s.receiving = None \/ s.their = None
         \/ /\ u > s.recv /\ s.receiving # None
            /\ WithinLimit(s, u - s.recv)
            /\ r.session = SkippedTo(s, u)
<1>1. CASE u <= s.recv
  BY <1>1 DEF SkipMessageKeys
<1>2. CASE u > s.recv /\ (s.their = None \/ s.receiving = None)
  BY <1>2 DEF SkipMessageKeys, Failed
<1>3. CASE u > s.recv /\ ~(s.their = None \/ s.receiving = None)
  <2>0. ~(u <= s.recv)
    BY <1>3
  <2>1. WithinLimit(s, u - s.recv)
    <3>1. SUFFICES ASSUME ~WithinLimit(s, u - s.recv) PROVE FALSE
      BY Zenon
    <3>2. r = Failed
      BY <2>0, <3>1, Zenon DEF SkipMessageKeys
    <3> QED BY <3>2 DEF Failed
  <2> DEFINE K == {[key |-> s.their, n |-> i, mk |-> MessageKey(s.receiving, i - s.recv)] :
                     i \in s.recv..(u - 1)}
  <2>2. r = [ok |-> TRUE,
             session |-> [s EXCEPT !.skipped = @ \cup K, !.receiving = Advance(@, u - s.recv)]]
    BY <1>3, <2>0, <2>1, Zenon DEF SkipMessageKeys
  <2>3. Advance(s.receiving, u - s.recv) = [root |-> s.receiving.root, at |-> u]
    <3>1. s.receiving = [root |-> s.receiving.root, at |-> s.recv]
      BY <1>3, Zenon DEF IsChain
    <3>2. s.recv + (u - s.recv) = u
      BY <1>3
    <3>3. Advance(s.receiving, u - s.recv)
            = [root |-> s.receiving.root, at |-> s.recv + (u - s.recv)]
      BY <3>1 DEF Advance
    <3> QED BY <3>2, <3>3, Zenon
  <2>4. K = {Stored(s, i) : i \in s.recv..(u - 1)}
    <3>1. ASSUME NEW i \in s.recv..(u - 1)
          PROVE  MessageKey(s.receiving, i - s.recv) = [root |-> s.receiving.root, n |-> i]
      <4>1. s.receiving.at = s.recv /\ s.recv + (i - s.recv) = i
        BY <1>3
      <4> QED BY <4>1, Zenon DEF MessageKey
    <3> QED BY <3>1, Zenon DEF Stored
  <2> HIDE DEF K
  <2>5. r.session = [s EXCEPT !.skipped = @ \cup K, !.receiving = Advance(@, u - s.recv)]
    BY <2>2
  <2>6. r.session = [root |-> s.root, our |-> s.our, their |-> s.their, sending |-> s.sending,
                     receiving |-> Advance(s.receiving, u - s.recv),
                     send |-> s.send, recv |-> s.recv, previousSend |-> s.previousSend,
                     skipped |-> s.skipped \cup K]
    <3>1. PICK c : c = Advance(s.receiving, u - s.recv)
      BY Zenon
    <3>2. PICK k : k = s.skipped \cup K
      BY Zenon
    <3>3. r.session = Moved(s, k, c)
      BY <2>5, <3>1, <3>2, Zenon DEF Moved
    <3>4. Moved(s, k, c) = [root |-> s.root, our |-> s.our, their |-> s.their,
                            sending |-> s.sending, receiving |-> c, send |-> s.send,
                            recv |-> s.recv, previousSend |-> s.previousSend, skipped |-> k]
      BY MovedTo, Zenon
    <3> QED BY <3>1, <3>2, <3>3, <3>4, Zenon
  <2>7. r.session = SkippedTo(s, u)
    BY <2>3, <2>4, <2>6, Zenon DEF SkippedTo
  <2> QED BY <1>3, <2>1, <2>7, Zenon
<1> QED BY <1>1, <1>2, <1>3

\* The Diffie-Hellman step: new chains with the other client's new key.
Stepped(s, key, fresh, t) ==
  /\ IsSession(t) /\ IsSeq(t.root)
  /\ t.our = fresh /\ t.their = key /\ t.send = 0 /\ t.recv = 0
  /\ t.previousSend = s.send /\ t.skipped = s.skipped
  /\ t.sending = [root |-> t.root, at |-> 0] /\ Top(t.root) = DH(fresh, key)
  /\ t.receiving = [root |-> t.receiving.root, at |-> 0]
  /\ Top(t.receiving.root) = DH(s.our, key)

LEMMA DHStepResult ==
  ASSUME NEW s, IsSession(s), IsSeq(s.root), NEW key, NEW fresh, NEW t, t = DHStep(s, key, fresh)
  PROVE  Stepped(s, key, fresh, t)
<1>1. PICK received : received = Append(s.root, DH(s.our, key))
  BY Zenon
<1>2. PICK root : root = Append(received, DH(fresh, key))
  BY Zenon
<1>3. IsSeq(received) /\ Top(received) = DH(s.our, key)
  BY <1>1, SeqAppend, Zenon
<1>4. IsSeq(root) /\ Top(root) = DH(fresh, key)
  BY <1>2, <1>3, SeqAppend, Zenon
<1>5. t = [s EXCEPT !.root = root, !.their = key, !.receiving = Chain(received), !.recv = 0,
                    !.previousSend = s.send, !.send = 0, !.our = fresh, !.sending = Chain(root)]
  BY <1>1, <1>2, Zenon DEF DHStep
<1>6. t = [root |-> root, our |-> fresh, their |-> key, sending |-> Chain(root),
           receiving |-> Chain(received), send |-> 0, recv |-> 0,
           previousSend |-> s.send, skipped |-> s.skipped]
  BY <1>5, Zenon DEF IsSession
<1>7. /\ t.root = root /\ t.our = fresh /\ t.their = key /\ t.sending = Chain(root)
      /\ t.receiving = Chain(received) /\ t.send = 0 /\ t.recv = 0
      /\ t.previousSend = s.send /\ t.skipped = s.skipped
  BY <1>6
<1>8. IsSession(t)
  BY <1>6, <1>7, Zenon DEF IsSession
<1>9. Chain(received).root = received
  BY DEF Chain
<1> QED BY <1>3, <1>4, <1>7, <1>8, <1>9, Zenon DEF Chain, Stepped

-----------------------------------------------------------------------------
(* Receiving, on a session *)

\* What the context of a client gives.
LEMMA Context ==
  ASSUME Base, NEW p \in Parties
  PROVE  /\ SentOK(p) /\ SentOK(Other(p)) /\ made[p] \in Nat /\ made[Other(p)] \in Nat
         /\ Known(p) \subseteq Mine(Other(p)) /\ None \notin Known(p)
         /\ \A k \in Used(Other(p)) : k \in Ours(Other(p), made[Other(p)]) /\ k # SignedPrekey(Other(p))
         /\ Other(p) \in Parties /\ Other(p) # p /\ Other(Other(p)) = p
<1>1. Other(p) \in Parties /\ Other(p) # p /\ Other(Other(p)) = p
  BY OtherParty, Zenon
<1>2. SentOK(p) /\ SentOK(Other(p)) /\ made[p] \in Nat /\ made[Other(p)] \in Nat
  BY <1>1, Zenon DEF Base
<1>3. /\ Known(p) \subseteq Mine(Other(p)) /\ None \notin Known(p)
      /\ Used(Other(p)) \subseteq Ours(Other(p), made[Other(p)])
  BY <1>2, KnownKeys, Zenon
<1>4. SignedPrekey(Other(p)) \notin Ours(Other(p), made[Other(p)])
  BY <1>2, KeySets, Zenon
<1> QED BY <1>1, <1>2, <1>3, <1>4, Zenon

\* The session t is s with more keys stored.
Skipping(p, n, s, t) ==
  /\ SessionOK(p, t, n) /\ t.our = s.our /\ t.their = s.their
  /\ \A k \in t.skipped : k \in s.skipped \/ k.key = s.their
  /\ t.receiving # None => s.receiving # None /\ t.receiving.root = s.receiving.root

\* skip_message_keys stores keys that were not used.
LEMMA SkipKeeps ==
  ASSUME Base, NEW p \in Parties, NEW n \in Nat, NEW s, SessionOK(p, s, n), Aligned(s),
         NEW u \in Nat, NEW r, r = SkipMessageKeys(s, s.recv, u), r.ok, NEW t, t = r.session
  PROVE  Skipping(p, n, s, t)
<1>1. /\ IsSession(s) /\ s.recv \in Nat /\ s.their \in Known(p) /\ s.their # None
      /\ s.receiving # None => IsChain(s.receiving) /\ s.receiving.at = s.recv
  BY Context, Zenon DEF SessionOK, ChainsOK, Aligned
<1>2. CASE t = s
  BY <1>2, Zenon DEF Skipping
<1>3. CASE t # s
  <2>1. PICK K : K = {Stored(s, i) : i \in s.recv..(u - 1)}
    BY Zenon
  <2>2. PICK c : c = [root |-> s.receiving.root, at |-> u]
    BY Zenon
  <2>3. /\ u > s.recv /\ s.receiving # None
        /\ t = [root |-> s.root, our |-> s.our, their |-> s.their, sending |-> s.sending,
                receiving |-> c, send |-> s.send, recv |-> s.recv,
                previousSend |-> s.previousSend, skipped |-> s.skipped \cup K]
    <3>1. u > s.recv /\ s.receiving # None /\ t = SkippedTo(s, u)
      BY <1>1, <1>3, SkipResult, Zenon
    <3> QED BY <2>1, <2>2, <3>1, Zenon DEF SkippedTo
  <2>4. /\ t.root = s.root /\ t.our = s.our /\ t.their = s.their /\ t.sending = s.sending
        /\ t.receiving = c /\ t.send = s.send /\ t.recv = s.recv
        /\ t.previousSend = s.previousSend /\ t.skipped = s.skipped \cup K
    BY <2>3
  <2>5. IsSession(t)
    BY <2>3, <2>4, Zenon DEF IsSession
  <2>6. IsChain(c) /\ c.root = s.receiving.root /\ c.at = u
    BY <2>2 DEF IsChain
  <2>7. \A k \in K : \E i \in s.recv..(u - 1) :
          k.key = s.their /\ k.n = i /\ k.mk.n = i /\ k.mk.root = s.receiving.root
    <3>1. ASSUME NEW i PROVE /\ Stored(s, i).key = s.their /\ Stored(s, i).n = i
                             /\ Stored(s, i).mk.n = i /\ Stored(s, i).mk.root = s.receiving.root
      BY DEF Stored
    <3>2. ASSUME NEW k \in K PROVE \E i \in s.recv..(u - 1) : k = Stored(s, i)
      BY <2>1, Zenon
    <3>3. SUFFICES ASSUME NEW k \in K
                   PROVE  \E i \in s.recv..(u - 1) :
                            k.key = s.their /\ k.n = i /\ k.mk.n = i /\ k.mk.root = s.receiving.root
      BY Zenon
    <3>4. PICK i \in s.recv..(u - 1) : k = Stored(s, i)
      BY <3>2, Zenon
    <3>5. k.key = s.their /\ k.n = i /\ k.mk.n = i /\ k.mk.root = s.receiving.root
      BY <3>1, <3>4, Zenon
    <3> QED BY <3>5, Zenon
  <2>8. Retired(p, n, s.our, s.receiving.root, s.their) /\ s.receiving.at = s.recv
    BY <1>1, <2>3, Zenon DEF SessionOK, ChainsOK
  <2>9. ChainsOK(p, t, n)
    BY <2>4, <2>5, <2>6, <2>8, Zenon DEF SessionOK, ChainsOK
  <2>10. SkippedOK(p, t, n)
    <3>1. SUFFICES ASSUME NEW k \in s.skipped \cup K
                   PROVE  /\ k.key \in Known(p) /\ k.mk.n = k.n /\ k.n \in Nat
                          /\ Retired(p, n, s.our, k.mk.root, k.key)
                          /\ c.root = k.mk.root => k.n < c.at
      BY <2>4, Zenon DEF SkippedOK
    <3>2. CASE k \in s.skipped
      <4>1. /\ k.key \in Known(p) /\ k.mk.n = k.n /\ k.n \in Nat
            /\ Retired(p, n, s.our, k.mk.root, k.key)
            /\ s.receiving.root = k.mk.root => k.n < s.recv
        BY <2>3, <2>8, <3>2, Zenon DEF SessionOK, SkippedOK
      <4>2. k.n < s.recv => k.n < u
        BY <1>1, <2>3, <4>1
      <4> QED BY <2>6, <4>1, <4>2, Zenon
    <3>3. CASE k \in K
      <4>1. PICK i \in s.recv..(u - 1) :
              k.key = s.their /\ k.n = i /\ k.mk.n = i /\ k.mk.root = s.receiving.root
        BY <2>7, <3>3, Zenon
      <4>2. i \in Nat /\ i < u
        BY <1>1
      <4> QED BY <1>1, <2>6, <2>8, <4>1, <4>2, Zenon
    <3> QED BY <3>2, <3>3, Zenon
  <2>11. SendingOK(p, t)
    BY <2>4, Zenon DEF SessionOK, SendingOK
  <2>12. ASSUME NEW m \in Range(opened[p]) PROVE Behind(p, t, n, Envelope(m).box.mk)
    <3>1. PICK mk : mk = Envelope(m).box.mk
      BY Zenon
    <3>2. Behind(p, s, n, mk)
      BY <3>1, Zenon DEF SessionOK
    <3>3. s.receiving.root = mk.root => mk.n < s.recv
      BY <2>3, <2>8, <3>2, Zenon DEF Behind
    <3>4. ASSUME NEW k \in K, k.mk = mk PROVE FALSE
      <4>1. PICK i \in s.recv..(u - 1) : k.mk.n = i /\ k.mk.root = s.receiving.root
        BY <2>7, Zenon
      <4>2. i < s.recv
        BY <3>3, <3>4, <4>1, Zenon
      <4> QED BY <1>1, <4>2
    <3>5. s.receiving.root = mk.root => mk.n < u
      <4>1. mk.n \in Nat
        BY <3>2, Zenon DEF Behind
      <4> QED BY <1>1, <2>3, <3>3, <4>1
    <3> QED BY <2>4, <2>6, <3>1, <3>2, <3>4, <3>5, Zenon DEF Behind
  <2>13. \A k \in t.skipped : k \in s.skipped \/ k.key = s.their
    BY <2>4, <2>7, Zenon
  <2> QED BY <2>3, <2>4, <2>6, <2>9, <2>10, <2>11, <2>12, <2>13, Zenon DEF SessionOK, Skipping
<1> QED BY <1>2, <1>3

\* The keys of messages p has sent.
LEMMA SentKeys ==
  ASSUME Base, NEW p \in Parties, NEW i \in DOMAIN sent[p], NEW e, e = sent[p][i]
  PROVE  /\ e.header.key \in Ours(p, made[p]) /\ e.header.key \in Mine(p)
         /\ e.header.key # SignedPrekey(p)
         /\ e.header.n \in Nat /\ e.header.previous \in Nat /\ e.box.mk.n = e.header.n
         /\ \E k \in Known(p) : Top(e.box.mk.root) = DH(e.header.key, k)
<1>1. SentOK(p) /\ made[p] \in Nat
  BY Context, Zenon
<1>2. EnvelopeOK(p, e)
  BY <1>1, Zenon DEF SentOK
<1>3. e.header.key \in Ours(p, made[p])
  BY <1>2, Zenon DEF EnvelopeOK
<1>4. e.header.key \in Mine(p) /\ e.header.key # SignedPrekey(p)
  BY <1>1, <1>3, OursAre, Zenon
<1> QED BY <1>2, <1>3, <1>4, Zenon DEF EnvelopeOK

\* Two Diffie-Hellman outputs of client p are different when its keys are.
LEMMA DHDiffers ==
  ASSUME Base, NEW p \in Parties, NEW a \in Mine(p), NEW b \in Mine(p), NEW c \in Known(p), NEW d \in Known(p),
         DH(a, c) = DH(b, d)
  PROVE  a = b /\ c = d
<1>1. c \in Mine(Other(p)) /\ d \in Mine(Other(p)) /\ p # Other(p)
  BY Context, Zenon
<1> QED BY <1>1, DHOf

\* The Diffie-Hellman step of a session, or of the session an opener makes: the
\* key that p received with is retired, and a fresh one takes its place.
LEMMA StepKeeps ==
  ASSUME Base, NEW p \in Parties, NEW s, NEW key \in Known(p), NEW t,
         t = DHStep(s, key, Fresh(p, 0)), IsSession(s), IsSeq(s.root), s.send \in Nat,
         s.our \in Past(p, made[p]),
         SkippedOK(p, s, made[p]),
         \A i \in DOMAIN sent[p] : Top(sent[p][i].box.mk.root) # DH(s.our, key),
         \A m \in Range(opened[p]) :
           /\ Envelope(m).box.mk.n \in Nat
           /\ \E k \in Past(p, made[p]), h \in Known(p) : Top(Envelope(m).box.mk.root) = DH(k, h)
           /\ Top(Envelope(m).box.mk.root) # DH(s.our, key)
           /\ \A k \in s.skipped : k.mk # Envelope(m).box.mk
  PROVE  SessionOK(p, t, made[p] + 1) /\ Aligned(t)
<1>1. PICK n \in Nat : n = made[p]
  BY Context, Zenon
<1>2. PICK fresh : fresh = Pair(p, 3 + n)
  BY Zenon
<1>3. Fresh(p, 0) = fresh
  BY <1>1, <1>2 DEF Fresh
<1>4. /\ IsSession(t) /\ IsSeq(t.root)
      /\ t.our = fresh /\ t.their = key /\ t.send = 0 /\ t.recv = 0
      /\ t.previousSend = s.send /\ t.skipped = s.skipped
      /\ t.sending = [root |-> t.root, at |-> 0] /\ Top(t.root) = DH(fresh, key)
      /\ t.receiving = [root |-> t.receiving.root, at |-> 0]
      /\ Top(t.receiving.root) = DH(s.our, key)
  <2>1. t = DHStep(s, key, fresh)
    BY <1>3, Zenon
  <2>2. Stepped(s, key, fresh, t)
    BY <2>1, DHStepResult, Zenon
  <2> QED BY <2>2, Zenon DEF Stepped
<1>5. n + 1 \in Nat /\ n + 1 >= n /\ n >= n
  OBVIOUS
<1>6. /\ fresh \in Ours(p, n + 1) /\ fresh \notin Past(p, n) /\ Past(p, n) \subseteq Past(p, n + 1)
      /\ Past(p, n) \subseteq Mine(p)
  BY <1>2, <1>5, KeySets, Zenon
<1>7. /\ t.sending.at = 0 /\ t.sending.root = t.root /\ t.receiving.at = 0
      /\ IsChain(t.sending) /\ IsChain(t.receiving)
  BY <1>4 DEF IsChain
<1>8. ASSUME NEW root, NEW h, Retired(p, n, s.our, root, h)
      PROVE  Retired(p, n + 1, fresh, root, h)
  BY <1>6, <1>8, Zenon DEF Retired
<1>9. Retired(p, n + 1, fresh, t.receiving.root, key)
  <2>1. s.our \in Past(p, n + 1) \ {fresh}
    BY <1>1, <1>6, Zenon
  <2> QED BY <1>4, <2>1, Zenon DEF Retired
<1>10. ChainsOK(p, t, n + 1)
  <2>1. 0 \in Nat
    OBVIOUS
  <2> QED BY <1>4, <1>6, <1>7, <1>9, <2>1, Zenon DEF ChainsOK
<1>11. SkippedOK(p, t, n + 1)
  <2>1. SUFFICES ASSUME NEW k \in s.skipped
                 PROVE  /\ k.key \in Known(p) /\ k.mk.n = k.n /\ k.n \in Nat
                        /\ Retired(p, n + 1, fresh, k.mk.root, k.key)
                        /\ t.receiving.root # k.mk.root
    BY <1>4, Zenon DEF SkippedOK
  <2>2. k.key \in Known(p) /\ k.mk.n = k.n /\ k.n \in Nat /\ Retired(p, n, s.our, k.mk.root, k.key)
    BY <1>1, Zenon DEF SkippedOK
  <2>3. PICK a \in Past(p, n) \ {s.our} : Top(k.mk.root) = DH(a, k.key)
    BY <2>2, Zenon DEF Retired
  <2>4. a \in Mine(p) /\ s.our \in Mine(p)
    BY <1>1, <1>6, Zenon
  <2>5. DH(a, k.key) # DH(s.our, key)
    BY <2>2, <2>3, <2>4, DHDiffers
  <2> QED BY <1>4, <1>8, <2>2, <2>3, <2>5, Zenon
<1>12. SendingOK(p, t)
  <2>1. SUFFICES ASSUME NEW i \in DOMAIN sent[p] PROVE sent[p][i].header.key # fresh
    BY <1>4, Zenon DEF SendingOK
  <2>2. sent[p][i].header.key \in Ours(p, n)
    BY <1>1, SentKeys, Zenon
  <2> QED BY <1>2, <2>2, OursAre, Zenon
<1>13. ASSUME NEW m \in Range(opened[p]) PROVE Behind(p, t, n + 1, Envelope(m).box.mk)
  <2>1. PICK mk : mk = Envelope(m).box.mk
    BY Zenon
  <2>2. /\ mk.n \in Nat /\ Top(mk.root) # DH(s.our, key) /\ \A k \in s.skipped : k.mk # mk
        /\ \E k \in Past(p, n), h \in Known(p) : Top(mk.root) = DH(k, h)
    BY <1>1, <2>1, Zenon
  <2>3. \E k \in Past(p, n + 1) \ {fresh}, h \in Known(p) : Top(mk.root) = DH(k, h)
    BY <1>6, <2>2, Zenon
  <2>4. t.receiving.root # mk.root
    BY <1>4, <2>2, Zenon
  <2> QED BY <1>4, <2>1, <2>2, <2>3, <2>4, Zenon DEF Behind
<1>14. Aligned(t)
  BY <1>4, <1>7, Zenon DEF Aligned
<1> QED BY <1>1, <1>10, <1>11, <1>12, <1>13, <1>14, Zenon DEF SessionOK

\* The session w after a message with number n of its receiving chain.
OpenedAt(w, n) ==
  [root |-> w.root, our |-> w.our, their |-> w.their, sending |-> w.sending,
   receiving |-> [root |-> w.receiving.root, at |-> n + 1],
   send |-> w.send, recv |-> n + 1, previousSend |-> w.previousSend, skipped |-> w.skipped]

\* The skip before a message with header h.
Skip(s, h) == SkipMessageKeys(s, s.recv, h.n)

PastMessage(w, n) == [w EXCEPT !.receiving = Advance(@, 1), !.recv = n + 1]

\* A message opens, with session t, after skipping to it.
OpensWith(s, header, box, aad, t) ==
  /\ Skip(s, header).ok /\ Skip(s, header).session.receiving # None
  /\ header.n # MaxCount
  /\ box = Seal(MessageKey(Skip(s, header).session.receiving, 0), aad, header)
  /\ t = PastMessage(Skip(s, header).session, header.n)

\* What decrypts in the receiving chain has the key of the chain's position.
LEMMA OpenResult ==
  ASSUME NEW s, NEW header, NEW box, NEW aad, NEW r, r = OpenInChain(s, header, box, aad), r.ok
  PROVE  OpensWith(s, header, box, aad, r.session)
<1>0. PICK k : k = Skip(s, header)
  BY Zenon
<1>1. k.ok
  <2>1. SUFFICES ASSUME ~k.ok PROVE FALSE
    BY Zenon
  <2>2. r = Failed
    BY <1>0, <2>1, Zenon DEF OpenInChain, Skip
  <2> QED BY <2>2 DEF Failed
<1>2. k.session.receiving # None
  <2>1. SUFFICES ASSUME k.session.receiving = None PROVE FALSE
    BY Zenon
  <2>2. r = Failed
    BY <1>0, <1>1, <2>1, Zenon DEF OpenInChain, Skip
  <2> QED BY <2>2 DEF Failed
<1>3. box = Seal(MessageKey(k.session.receiving, 0), aad, header)
  <2>1. SUFFICES ASSUME box # Seal(MessageKey(k.session.receiving, 0), aad, header) PROVE FALSE
    BY Zenon
  <2>2. r = Failed
    BY <1>0, <1>1, <1>2, <2>1, Zenon DEF OpenInChain, Skip
  <2> QED BY <2>2 DEF Failed
<1>4. header.n # MaxCount
  <2>1. SUFFICES ASSUME header.n = MaxCount PROVE FALSE
    BY Zenon
  <2>2. r = Failed
    BY <1>0, <1>1, <1>2, <1>3, <2>1, Zenon DEF OpenInChain, Skip
  <2> QED BY <2>2 DEF Failed
<1>5. r = [ok |-> TRUE,
           session |-> [k.session EXCEPT !.receiving = Advance(@, 1), !.recv = header.n + 1]]
  BY <1>0, <1>1, <1>2, <1>3, <1>4, Zenon DEF OpenInChain, Skip
<1>6. r.session = PastMessage(k.session, header.n)
  BY <1>5 DEF PastMessage
<1> QED BY <1>0, <1>1, <1>2, <1>3, <1>4, <1>6, Zenon DEF OpensWith

\* The chain moves past the message.
LEMMA OpenedAtResult ==
  ASSUME NEW w, IsSession(w), IsChain(w.receiving), NEW n \in Nat, n = w.receiving.at
  PROVE  PastMessage(w, n) = OpenedAt(w, n)
<1>0. PICK x : x = PastMessage(w, n)
  BY Zenon
<1>1. w.receiving = [root |-> w.receiving.root, at |-> n]
  BY Zenon DEF IsChain
<1>2. Advance(w.receiving, 1) = [root |-> w.receiving.root, at |-> n + 1]
  BY <1>1 DEF Advance
<1>3. PICK c : c = [root |-> w.receiving.root, at |-> n + 1]
  BY Zenon
<1>4. x = [w EXCEPT !.receiving = c, !.recv = n + 1]
  BY <1>0, <1>2, <1>3, Zenon DEF PastMessage
<1>5. /\ x.root = w.root /\ x.our = w.our /\ x.their = w.their /\ x.sending = w.sending
      /\ x.receiving = c /\ x.send = w.send /\ x.recv = n + 1
      /\ x.previousSend = w.previousSend /\ x.skipped = w.skipped
  BY <1>4 DEF IsSession
<1>6. IsSession(x)
  BY <1>4, Zenon DEF IsSession
<1> QED BY <1>0, <1>3, <1>5, <1>6, Zenon DEF IsSession, OpenedAt

\* The message e opened and made the session s of client p the session t.
OpenedBy(p, n, s, t, e) ==
  /\ SessionOK(p, t, n) /\ Aligned(t) /\ t.our = s.our /\ t.their = s.their
  /\ \A k \in t.skipped : k \in s.skipped \/ k.key = s.their
  /\ Behind(p, t, n, e.box.mk)

OpenedInChain(p, n, s, t, e) ==
  OpenedBy(p, n, s, t, e) /\ s.receiving # None /\ e.box.mk.root = s.receiving.root

\* A message of the other client opens in the receiving chain: its key is behind
\* the chain from then on.
LEMMA OpenKeeps ==
  ASSUME Base, NEW p \in Parties, NEW n \in Nat, NEW s, SessionOK(p, s, n), Aligned(s),
         NEW j \in DOMAIN sent[Other(p)], NEW e, e = sent[Other(p)][j], NEW aad,
         NEW r, r = OpenInChain(s, e.header, e.box, aad), r.ok, NEW t, t = r.session
  PROVE  OpenedInChain(p, n, s, t, e)
<1>1. e.header.n \in Nat /\ e.box.mk.n = e.header.n
  BY Context, SentKeys, Zenon
<1>2. PICK k : k = Skip(s, e.header)
  BY Zenon
<1>3. PICK w : w = k.session
  BY Zenon
<1>s. /\ k.ok /\ w.receiving # None
      /\ e.box = Seal(MessageKey(w.receiving, 0), aad, e.header)
      /\ t = PastMessage(w, e.header.n)
  <2>1. OpensWith(s, e.header, e.box, aad, t)
    BY OpenResult, Zenon
  <2> QED BY <1>2, <1>3, <2>1, Zenon DEF OpensWith
<1>4. /\ SessionOK(p, w, n) /\ w.our = s.our /\ w.their = s.their
      /\ \A x \in w.skipped : x \in s.skipped \/ x.key = s.their
      /\ w.receiving # None => s.receiving # None /\ w.receiving.root = s.receiving.root
  <2>1. k = SkipMessageKeys(s, s.recv, e.header.n)
    BY <1>2, Zenon DEF Skip
  <2>2. Skipping(p, n, s, w)
    BY <1>1, <1>s, <1>3, <2>1, SkipKeeps, Zenon
  <2> QED BY <2>2, Zenon DEF Skipping
<1>5. IsSession(w) /\ IsChain(w.receiving) /\ w.receiving.at \in Nat
  BY <1>4, <1>s, Zenon DEF SessionOK, ChainsOK, IsChain
<1>6. /\ e.box.mk.root = w.receiving.root /\ e.header.n = w.receiving.at
      /\ t = OpenedAt(w, e.header.n) /\ w.receiving # None
  <2>1. e.box.mk.root = w.receiving.root /\ e.box.mk.n = w.receiving.at
    BY <1>s, <1>5 DEF Seal, MessageKey
  <2>2. e.header.n = w.receiving.at
    BY <1>1, <2>1, Zenon
  <2>3. t = OpenedAt(w, e.header.n)
    BY <1>1, <1>s, <1>5, <2>2, OpenedAtResult, Zenon
  <2> QED BY <1>s, <2>1, <2>2, <2>3, Zenon
<1>7. PICK i \in Nat : i = e.header.n
  BY <1>1, Zenon
<1>8. PICK c : c = [root |-> w.receiving.root, at |-> i + 1]
  BY Zenon
<1>9. /\ t.root = w.root /\ t.our = w.our /\ t.their = w.their /\ t.sending = w.sending
      /\ t.receiving = c /\ t.send = w.send /\ t.recv = i + 1
      /\ t.previousSend = w.previousSend /\ t.skipped = w.skipped
  BY <1>6, <1>7, <1>8 DEF OpenedAt
<1>10. IsSession(t)
  BY <1>6, <1>7, <1>8, <1>9, Zenon DEF IsSession, OpenedAt
<1>11. IsChain(c) /\ c.root = w.receiving.root /\ c.at = i + 1 /\ i + 1 \in Nat
  BY <1>8 DEF IsChain
<1>12. SessionOK(p, w, n) /\ w.receiving.at = i
  BY <1>4, <1>6, <1>7, Zenon
<1>13. ChainsOK(p, t, n)
  BY <1>6, <1>9, <1>10, <1>11, <1>12, Zenon DEF SessionOK, ChainsOK
<1>14. ASSUME NEW x \in Nat, x < i PROVE x < i + 1
  BY <1>14
<1>15. SkippedOK(p, t, n)
  BY <1>6, <1>9, <1>11, <1>12, <1>14, Zenon DEF SessionOK, SkippedOK
<1>16. SendingOK(p, t)
  BY <1>9, <1>12, Zenon DEF SessionOK, SendingOK
<1>17. ASSUME NEW m \in Range(opened[p]) PROVE Behind(p, t, n, Envelope(m).box.mk)
  <2>1. PICK mk : mk = Envelope(m).box.mk
    BY Zenon
  <2>2. Behind(p, w, n, mk)
    BY <1>12, <2>1, Zenon DEF SessionOK
  <2> QED BY <1>6, <1>9, <1>11, <1>12, <1>14, <2>1, <2>2, Zenon DEF Behind
<1>18. Behind(p, t, n, e.box.mk)
  <2>1. PICK mk : mk = e.box.mk
    BY Zenon
  <2>2. mk.n = i /\ mk.root = w.receiving.root
    BY <1>1, <1>6, <1>7, <2>1, Zenon
  <2>3. \E a \in Past(p, n) \ {w.our}, h \in Known(p) : Top(mk.root) = DH(a, h)
    BY <1>6, <1>12, <2>2, Zenon DEF SessionOK, ChainsOK, Retired
  <2>4. ASSUME NEW x \in w.skipped, x.mk = mk PROVE FALSE
    <3>1. x.n < i /\ x.mk.n = x.n
      BY <1>6, <1>12, <2>2, <2>4, Zenon DEF SessionOK, SkippedOK
    <3>2. i < i
      BY <2>2, <2>4, <3>1, Zenon
    <3> QED BY <3>2
  <2>5. i < i + 1
    OBVIOUS
  <2> QED BY <1>9, <1>11, <2>1, <2>2, <2>3, <2>4, <2>5, Zenon DEF Behind
<1>19. Aligned(t)
  BY <1>9, <1>11, Zenon DEF Aligned
<1>20. SessionOK(p, t, n)
  BY <1>13, <1>15, <1>16, <1>17, Zenon DEF SessionOK
<1> QED BY <1>4, <1>6, <1>9, <1>18, <1>19, <1>20, Zenon DEF OpenedBy, OpenedInChain

\* The stored keys a message with header h may be opened with.
StoredFor(s, h) == {k \in s.skipped : k.key = h.key /\ k.n = h.n}

\* The session without stored keys K.
Dropped(s, K) == [s EXCEPT !.skipped = @ \ K]

LEMMA DroppedResult ==
  ASSUME NEW s, IsSession(s), NEW K, NEW t, t = Dropped(s, K)
  PROVE  t = [root |-> s.root, our |-> s.our, their |-> s.their, sending |-> s.sending,
              receiving |-> s.receiving, send |-> s.send, recv |-> s.recv,
              previousSend |-> s.previousSend, skipped |-> s.skipped \ K]
<1>1. PICK k : k = s.skipped \ K
  BY Zenon
<1>2. t = [s EXCEPT !.skipped = k]
  BY <1>1, Zenon DEF Dropped
<1>3. /\ t.root = s.root /\ t.our = s.our /\ t.their = s.their /\ t.sending = s.sending
      /\ t.receiving = s.receiving /\ t.send = s.send /\ t.recv = s.recv
      /\ t.previousSend = s.previousSend /\ t.skipped = k
  BY <1>2 DEF IsSession
<1>4. IsSession(t)
  BY <1>2, Zenon DEF IsSession
<1> QED BY <1>1, <1>3, <1>4, Zenon DEF IsSession

\* A message opens with a stored key: no other stored key is the same.
LEMMA StoredKeeps ==
  ASSUME Base, NEW p \in Parties, NEW n \in Nat, NEW s, SessionOK(p, s, n), Aligned(s),
         NEW j \in DOMAIN sent[Other(p)], NEW e, e = sent[Other(p)][j], NEW K,
         K = StoredFor(s, e.header),
         NEW a \in K, a.mk = e.box.mk, NEW t, t = Dropped(s, K)
  PROVE  OpenedBy(p, n, s, t, e)
<1>0. Other(p) \in Parties
  BY OtherParty, Zenon
<1>1. e.header.n \in Nat /\ e.box.mk.n = e.header.n
  BY <1>0, SentKeys, Zenon
<1>2. IsSession(s)
  BY Zenon DEF SessionOK, ChainsOK
<1>3. t = [root |-> s.root, our |-> s.our, their |-> s.their, sending |-> s.sending,
           receiving |-> s.receiving, send |-> s.send, recv |-> s.recv,
           previousSend |-> s.previousSend, skipped |-> s.skipped \ K]
  BY <1>2, DroppedResult, Zenon
<1>4. /\ t.root = s.root /\ t.our = s.our /\ t.their = s.their /\ t.sending = s.sending
      /\ t.receiving = s.receiving /\ t.send = s.send /\ t.recv = s.recv
      /\ t.previousSend = s.previousSend /\ t.skipped = s.skipped \ K
  BY <1>3
<1>5. IsSession(t)
  BY <1>3, <1>4, Zenon DEF IsSession
<1>6. ChainsOK(p, t, n) /\ SkippedOK(p, t, n) /\ SendingOK(p, t) /\ Aligned(t)
  BY <1>4, <1>5, Zenon DEF SessionOK, ChainsOK, SkippedOK, SendingOK, Aligned
<1>7. ASSUME NEW m \in Range(opened[p]) PROVE Behind(p, t, n, Envelope(m).box.mk)
  BY <1>4, Zenon DEF SessionOK, Behind
<1>8. PICK mk : mk = e.box.mk
  BY Zenon
<1>9. ASSUME NEW k \in s.skipped
      PROVE  /\ k.mk.n = k.n /\ k.key \in Known(p)
             /\ \E b \in Past(p, n) \ {s.our} : Top(k.mk.root) = DH(b, k.key)
             /\ s.receiving # None /\ s.receiving.root = k.mk.root => k.n < s.receiving.at
  BY Zenon DEF SessionOK, SkippedOK, Retired
<1>10. a \in s.skipped /\ a.key = e.header.key /\ a.n = e.header.n
  BY Zenon DEF StoredFor
<1>11. PICK b \in Past(p, n) \ {s.our} : Top(mk.root) = DH(b, a.key)
  BY <1>8, <1>9, <1>10, Zenon
<1>12. ASSUME NEW k \in s.skipped \ K, k.mk = mk PROVE FALSE
  <2>1. PICK c \in Past(p, n) : Top(mk.root) = DH(c, k.key)
    BY <1>9, <1>12, Zenon
  <2>2. b \in Mine(p) /\ c \in Mine(p)
    BY KeySets, Zenon
  <2>3. a.key \in Known(p) /\ k.key \in Known(p)
    BY <1>9, <1>10, Zenon
  <2>4. DH(b, a.key) = DH(c, k.key)
    BY <1>11, <2>1, Zenon
  <2>5. a.key = k.key
    BY <2>2, <2>3, <2>4, DHDiffers
  <2>6. k.n = e.header.n
    BY <1>1, <1>8, <1>9, <1>12, Zenon
  <2> QED BY <1>10, <2>5, <2>6, Zenon DEF StoredFor
<1>13. Behind(p, t, n, mk)
  <2>1. \E k \in Past(p, n) \ {t.our}, h \in Known(p) : Top(mk.root) = DH(k, h)
    BY <1>4, <1>9, <1>10, <1>11, Zenon
  <2>2. mk.n \in Nat /\ mk.n = a.n
    BY <1>1, <1>8, <1>10, Zenon
  <2>3. t.receiving # None /\ t.receiving.root = mk.root => mk.n < t.receiving.at
    BY <1>4, <1>8, <1>9, <1>10, <2>2, Zenon
  <2> QED BY <1>4, <1>12, <2>1, <2>2, <2>3, Zenon DEF Behind
<1> QED BY <1>4, <1>6, <1>7, <1>8, <1>13, Zenon DEF OpenedBy, SessionOK

\* The session before the step for a new key of the other client: what is left of
\* the old chain is skipped.
BeforeStep(s, h, w) ==
  \/ s.receiving = None /\ w = s
  \/ \E k : k = SkipMessageKeys(s, s.recv, h.previous) /\ k.ok /\ w = k.session

\* The three ways in which a message decrypts.
WithStored(s, h, box, r) ==
  \E a \in StoredFor(s, h) : a.mk = box.mk /\ r.session = Dropped(s, StoredFor(s, h))
InChain(s, h, box, aad, r) == s.their = h.key /\ r = OpenInChain(s, h, box, aad)
AfterStep(s, h, box, aad, fresh, r) ==
  /\ s.their # h.key
  /\ \E w : BeforeStep(s, h, w) /\ r = OpenInChain(DHStep(w, h.key, fresh), h, box, aad)

LEMMA DecryptResult ==
  ASSUME NEW s, NEW h, NEW box, NEW aad, NEW fresh, NEW r, r = Decrypt(s, h, box, aad, fresh), r.ok
  PROVE  WithStored(s, h, box, r) \/ InChain(s, h, box, aad, r) \/ AfterStep(s, h, box, aad, fresh, r)
<1>1. PICK K : K = StoredFor(s, h)
  BY Zenon
<1>2. CASE K # {}
  <2>1. \E k \in K : box = Seal(k.mk, aad, h)
    <3>1. SUFFICES ASSUME ~\E k \in K : box = Seal(k.mk, aad, h) PROVE FALSE
      BY Zenon
    <3>2. r = Failed
      BY <1>1, <1>2, <3>1, Zenon DEF Decrypt, StoredFor
    <3> QED BY <3>2 DEF Failed
  <2>2. r = [ok |-> TRUE, session |-> Dropped(s, K)]
    BY <1>1, <1>2, <2>1, Zenon DEF Decrypt, StoredFor, Dropped
  <2>3. PICK a \in K : box = Seal(a.mk, aad, h)
    BY <2>1
  <2>4. box.mk = a.mk
    BY <2>3 DEF Seal
  <2>5. r.session = Dropped(s, K)
    BY <2>2
  <2> QED BY <1>1, <2>4, <2>5, Zenon DEF WithStored
<1>3. CASE K = {}
  <2>1. r = TryDecrypt(s, h, box, aad, fresh)
    BY <1>1, <1>3, Zenon DEF Decrypt, StoredFor
  <2>2. CASE s.their = h.key
    BY <2>1, <2>2, Zenon DEF TryDecrypt, InChain
  <2>3. CASE s.their # h.key
    <3>1. PICK k : k = IF s.receiving = None THEN [ok |-> TRUE, session |-> s]
                       ELSE SkipMessageKeys(s, s.recv, h.previous)
      BY Zenon
    <3>2. k.ok
      <4>1. SUFFICES ASSUME ~k.ok PROVE FALSE
        BY Zenon
      <4>2. r = Failed
        BY <2>1, <2>3, <3>1, <4>1, Zenon DEF TryDecrypt
      <4> QED BY <4>2 DEF Failed
    <3>3. r = OpenInChain(DHStep(k.session, h.key, fresh), h, box, aad)
      BY <2>1, <2>3, <3>1, <3>2, Zenon DEF TryDecrypt
    <3>4. BeforeStep(s, h, k.session)
      <4>1. CASE s.receiving = None
        <5>1. k.session = s
          BY <3>1, <4>1
        <5> QED BY <4>1, <5>1, Zenon DEF BeforeStep
      <4>2. CASE s.receiving # None
        BY <3>1, <3>2, <4>2, Zenon DEF BeforeStep
      <4> QED BY <4>1, <4>2, Zenon
    <3> QED BY <2>3, <3>3, <3>4, Zenon DEF AfterStep
  <2> QED BY <2>2, <2>3, Zenon
<1> QED BY <1>2, <1>3, Zenon

\* Openers of the other client with this key are opened, with message j.
FirstOpened(p, j, key) ==
  \A i \in DOMAIN sent[Other(p)] :
    sent[Other(p)][i].prekey # None /\ sent[Other(p)][i].header.key = key =>
      <<Other(p), i>> \in Range(opened[p]) \cup {<<Other(p), j>>}

\* Client p, which has generated n ratchet keys then, has opened message j and
\* has session t.
Received(p, t, n, j, e) ==
  /\ SessionOK(p, t, n) /\ Aligned(t) /\ Behind(p, t, n, e.box.mk)
  /\ FirstOpened(p, j, e.header.key) /\ FirstOpened(p, j, t.their)
  /\ \A k \in t.skipped : FirstOpened(p, j, k.key)

\* What a message of the other client says of its keys.
LEMMA TheirKeys ==
  ASSUME Base, NEW p \in Parties, NEW j \in DOMAIN sent[Other(p)], NEW e, e = sent[Other(p)][j]
  PROVE  /\ e.header.key \in Known(p) /\ e.header.key \in Mine(Other(p))
         /\ e.header.key # SignedPrekey(Other(p))
         /\ e.header.n \in Nat /\ e.header.previous \in Nat /\ e.box.mk.n = e.header.n
         /\ \E x \in Known(Other(p)) : Top(e.box.mk.root) = DH(e.header.key, x)
         /\ e.prekey # None => /\ e.header.n = 0
                               /\ Top(e.box.mk.root) = DH(e.header.key, SignedPrekey(p))
<1>1. Other(p) \in Parties /\ Other(Other(p)) = p
  BY OtherParty, Zenon
<1>2. e.header.key \in Known(p)
  BY Zenon DEF Known, Used
<1>3. EnvelopeOK(Other(p), e)
  BY <1>1, Zenon DEF Base, SentOK
<1>4. e.header.key \in Mine(Other(p)) /\ e.header.key # SignedPrekey(Other(p))
  BY <1>1, SentKeys, Zenon
<1> QED BY <1>1, <1>2, <1>3, <1>4, Zenon DEF EnvelopeOK

\* The chain a message of the other client was made with: its own key, and the
\* key of p the receiving chain was made with.
LEMMA SameChain ==
  ASSUME Base, NEW p \in Parties, NEW j \in DOMAIN sent[Other(p)], NEW e, e = sent[Other(p)][j],
         NEW a \in Mine(p), Top(e.box.mk.root) = DH(a, e.header.key)
  PROVE  /\ a \in Known(Other(p))
         /\ \A i \in DOMAIN sent[Other(p)] :
              sent[Other(p)][i].prekey # None /\ sent[Other(p)][i].header.key = e.header.key =>
                a = SignedPrekey(p)
<1>1. Other(p) \in Parties /\ Other(Other(p)) = p
  BY OtherParty, Zenon
<1>2. e.header.key \in Mine(Other(p))
  BY TheirKeys, Zenon
<1>3. ASSUME NEW x \in Mine(p), DH(e.header.key, x) = DH(a, e.header.key) PROVE x = a
  <2>1. DH(x, e.header.key) = DH(a, e.header.key)
    BY <1>3, DHSymmetric, Zenon
  <2>2. e.header.key \in Known(p)
    BY TheirKeys, Zenon
  <2> QED BY <2>1, <2>2, DHDiffers
<1>4. Known(Other(p)) \subseteq Mine(p)
  BY <1>1, Context, Zenon
<1>5. a \in Known(Other(p))
  <2>1. PICK x \in Known(Other(p)) : Top(e.box.mk.root) = DH(e.header.key, x)
    BY TheirKeys, Zenon
  <2> QED BY <1>3, <1>4, <2>1, Zenon
<1>6. ASSUME NEW i \in DOMAIN sent[Other(p)], sent[Other(p)][i].prekey # None,
             sent[Other(p)][i].header.key = e.header.key
      PROVE  a = SignedPrekey(p)
  <2>1. Top(sent[Other(p)][i].box.mk.root) = DH(e.header.key, SignedPrekey(p))
    <3>1. PICK f : f = sent[Other(p)][i]
      BY Zenon
    <3>2. Top(f.box.mk.root) = DH(f.header.key, SignedPrekey(p))
      BY <1>6, <3>1, TheirKeys, Zenon
    <3> QED BY <1>6, <3>1, <3>2, Zenon
  <2>2. Top(sent[Other(p)][i].box.mk.root) = Top(e.box.mk.root)
    BY <1>1, <1>6, Zenon DEF Base, SentOK, OneChain
  <2>3. SignedPrekey(p) \in Mine(p)
    BY KeySets, Context, Zenon
  <2> QED BY <1>3, <2>1, <2>2, <2>3, Zenon
<1> QED BY <1>5, <1>6, Zenon

\* A message of an open session opens with a stored key or in the receiving chain.
LEMMA OldChainReceives ==
  ASSUME Base, NEW p \in Parties, NEW n \in Nat, NEW s, SessionOK(p, s, n), Aligned(s),
         OpenersOpened(p, s), NEW j \in DOMAIN sent[Other(p)], NEW e, e = sent[Other(p)][j],
         NEW aad, NEW r, r.ok, WithStored(s, e.header, e.box, r) \/ InChain(s, e.header, e.box, aad, r)
  PROVE  /\ Received(p, r.session, n, j, e) /\ r.session.our = s.our
         /\ ~Unsent(p, s)
<1>1. PICK t : t = r.session
  BY Zenon
<1>2. CASE WithStored(s, e.header, e.box, r)
  <2>1. PICK K : K = StoredFor(s, e.header)
    BY Zenon
  <2>2. PICK a \in K : a.mk = e.box.mk /\ t = Dropped(s, K)
    BY <1>1, <1>2, <2>1, Zenon DEF WithStored
  <2>3. OpenedBy(p, n, s, t, e)
    BY <2>1, <2>2, StoredKeeps, Zenon
  <2>4. a \in s.skipped /\ a.key = e.header.key
    BY <2>1, Zenon DEF StoredFor
  <2>5. FirstOpened(p, j, e.header.key)
    BY <2>4, Zenon DEF FirstOpened, OpenersOpened
  <2> QED BY <1>1, <2>3, <2>4, <2>5, Zenon DEF OpenedBy, Received, FirstOpened, OpenersOpened, Unsent
<1>3. CASE InChain(s, e.header, e.box, aad, r)
  <2>1. s.their = e.header.key /\ r = OpenInChain(s, e.header, e.box, aad)
    BY <1>3, Zenon DEF InChain
  <2>2. OpenedInChain(p, n, s, t, e)
    BY <1>1, <2>1, OpenKeeps, Zenon
  <2>3. FirstOpened(p, j, e.header.key)
    BY <2>1, Zenon DEF FirstOpened, OpenersOpened
  <2> QED BY <1>1, <2>1, <2>2, <2>3, Zenon DEF OpenedInChain, OpenedBy, Received, FirstOpened, OpenersOpened, Unsent
<1> QED BY <1>2, <1>3, Zenon

\* A message with a new ratchet key opens after the Diffie-Hellman step of a
\* session, or of the one an opener makes.  A session that has not sent its X3DH
\* header never gets there: nobody knows its key yet.
LEMMA NewChainReceives ==
  ASSUME Base, NEW p \in Parties, NEW s, SessionOK(p, s, made[p]), Aligned(s),
         OpenersOpened(p, s), NEW j \in DOMAIN sent[Other(p)], NEW e, e = sent[Other(p)][j],
         NEW aad, NEW r, r.ok, AfterStep(s, e.header, e.box, aad, Fresh(p, 0), r)
  PROVE  /\ Received(p, r.session, made[p] + 1, j, e) /\ r.session.our = Fresh(p, 0)
         /\ ~Unsent(p, s)
<1>1. PICK t : t = r.session
  BY Zenon
<1>2. PICK key \in Known(p) : key = e.header.key
  BY TheirKeys, Zenon
<1>3. PICK n \in Nat : n = made[p]
  BY Context, Zenon
<1>4. PICK w : /\ s.their # key /\ BeforeStep(s, e.header, w)
               /\ r = OpenInChain(DHStep(w, key, Fresh(p, 0)), e.header, e.box, aad)
  BY <1>2, Zenon DEF AfterStep
<1>5. /\ SessionOK(p, w, n) /\ w.our = s.our /\ w.their = s.their
      /\ \A k \in w.skipped : k \in s.skipped \/ k.key = s.their
  <2>1. CASE s.receiving = None /\ w = s
    BY <1>3, <2>1, Zenon
  <2>2. CASE \E k : k = SkipMessageKeys(s, s.recv, e.header.previous) /\ k.ok /\ w = k.session
    <3>1. e.header.previous \in Nat
      BY TheirKeys, Zenon
    <3>2. Skipping(p, n, s, w)
      BY <1>3, <2>2, <3>1, SkipKeeps, Zenon
    <3> QED BY <3>2, Zenon DEF Skipping
  <2> QED BY <1>4, <2>1, <2>2, Zenon DEF BeforeStep
<1>6. /\ IsSession(w) /\ IsSeq(w.root) /\ w.send \in Nat /\ w.our \in Ours(p, n)
      /\ SkippedOK(p, w, n) /\ w.their \in Known(p) /\ SendingOK(p, w)
  BY <1>5, Zenon DEF SessionOK, ChainsOK
<1>7. w.our \in Past(p, n) /\ w.our \in Mine(p) /\ w.our # SignedPrekey(p)
  BY <1>6, OursAre, Zenon
<1>8. \A i \in DOMAIN sent[p] : Top(sent[p][i].box.mk.root) # DH(w.our, key)
  <2>1. SUFFICES ASSUME NEW i \in DOMAIN sent[p], Top(sent[p][i].box.mk.root) = DH(w.our, key)
                 PROVE  FALSE
    BY Zenon
  <2>2. PICK k \in Known(p) : Top(sent[p][i].box.mk.root) = DH(sent[p][i].header.key, k)
    BY SentKeys, Zenon
  <2>3. sent[p][i].header.key \in Mine(p)
    BY SentKeys, Zenon
  <2>4. sent[p][i].header.key = w.our
    <3>1. PICK a \in Mine(p) : a = sent[p][i].header.key
      BY <2>3, Zenon
    <3>2. DH(a, k) = DH(w.our, key)
      BY <2>1, <2>2, <3>1, Zenon
    <3>3. a = w.our
      BY <1>7, <3>2, DHDiffers
    <3> QED BY <3>1, <3>3, Zenon
  <2>5. DH(w.our, w.their) = DH(w.our, key)
    BY <1>6, <2>1, <2>4, Zenon DEF SendingOK
  <2>6. w.their = key
    BY <1>6, <1>7, <2>5, DHDiffers
  <2> QED BY <1>4, <1>5, <2>6, Zenon
<1>9. ASSUME NEW m \in Range(opened[p])
      PROVE  /\ Envelope(m).box.mk.n \in Nat
             /\ \E k \in Past(p, n), h \in Known(p) : Top(Envelope(m).box.mk.root) = DH(k, h)
             /\ Top(Envelope(m).box.mk.root) # DH(w.our, key)
             /\ \A k \in w.skipped : k.mk # Envelope(m).box.mk
  <2>1. PICK mk : mk = Envelope(m).box.mk
    BY Zenon
  <2>2. Behind(p, w, n, mk)
    BY <1>5, <2>1, Zenon DEF SessionOK
  <2>3. PICK k \in Past(p, n) \ {w.our}, h \in Known(p) : Top(mk.root) = DH(k, h)
    BY <2>2, Zenon DEF Behind
  <2>4. k \in Mine(p)
    BY KeySets, Zenon
  <2>5. DH(k, h) # DH(w.our, key)
    BY <1>7, <2>3, <2>4, DHDiffers
  <2> QED BY <2>1, <2>2, <2>3, <2>5, Zenon DEF Behind
<1>10. PICK x : x = DHStep(w, key, Fresh(p, 0))
  BY Zenon
<1>11. SessionOK(p, x, n + 1) /\ Aligned(x)
  BY <1>3, <1>6, <1>7, <1>8, <1>9, <1>10, StepKeeps, Zenon
<1>12. x.our = Fresh(p, 0) /\ x.their = key /\ x.skipped = w.skipped /\ Top(x.receiving.root) = DH(w.our, key)
  <2>1. Stepped(w, key, Fresh(p, 0), x)
    BY <1>6, <1>10, DHStepResult, Zenon
  <2> QED BY <2>1, Zenon DEF Stepped
<1>13. OpenedBy(p, n + 1, x, t, e) /\ e.box.mk.root = x.receiving.root
  <2>1. PICK k \in Nat : k = n + 1
    OBVIOUS
  <2>2. SessionOK(p, x, k) /\ Aligned(x) /\ r = OpenInChain(x, e.header, e.box, aad)
    BY <1>4, <1>10, <1>11, <2>1, Zenon
  <2>3. OpenedInChain(p, k, x, t, e)
    BY <1>1, <2>2, OpenKeeps, Zenon
  <2> QED BY <2>1, <2>3, Zenon DEF OpenedInChain
<1>14. Top(e.box.mk.root) = DH(w.our, e.header.key)
  BY <1>2, <1>12, <1>13, Zenon
<1>15. FirstOpened(p, j, key)
  <2>1. \A i \in DOMAIN sent[Other(p)] :
          ~(sent[Other(p)][i].prekey # None /\ sent[Other(p)][i].header.key = key)
    BY <1>2, <1>7, <1>14, SameChain, Zenon
  <2> QED BY <2>1, Zenon DEF FirstOpened
<1>16. \A k \in t.skipped : k.key = key \/ k.key = s.their \/ k \in s.skipped
  BY <1>5, <1>12, <1>13, Zenon DEF OpenedBy
<1>17. /\ t.our = Fresh(p, 0) /\ t.their = key /\ SessionOK(p, t, n + 1) /\ Aligned(t)
       /\ Behind(p, t, n + 1, e.box.mk)
  BY <1>12, <1>13, Zenon DEF OpenedBy
<1>18. \A k \in t.skipped : FirstOpened(p, j, k.key)
  <2>1. ASSUME NEW k \in s.skipped PROVE FirstOpened(p, j, k.key)
    BY Zenon DEF FirstOpened, OpenersOpened
  <2>2. FirstOpened(p, j, s.their)
    BY Zenon DEF FirstOpened, OpenersOpened
  <2> QED BY <1>15, <1>16, <2>1, <2>2, Zenon
<1>19. ~Unsent(p, s)
  <2>1. SUFFICES ASSUME s.send = 0 PROVE FALSE
    BY Zenon DEF Unsent
  <2>2. w.our \in Known(Other(p)) /\ Other(Other(p)) = p
    BY <1>7, <1>14, SameChain, OtherParty, Zenon
  <2>3. PICK i \in DOMAIN sent[p] : sent[p][i].header.key = s.our
    BY <1>5, <1>7, <2>2, Zenon DEF Known, Used
  <2>4. sent[p][i].header.n \in Nat /\ sent[p][i].header.n < 0
    BY <2>1, <2>3, SentKeys, Zenon DEF SessionOK, SendingOK
  <2> QED BY <2>4
<1> QED BY <1>1, <1>2, <1>3, <1>15, <1>17, <1>18, <1>19, Zenon DEF Received

\* create_bob_session.
IsBob(p, s) ==
  /\ IsSession(s) /\ IsSeq(s.root) /\ s.our = SignedPrekey(p) /\ s.their = None
  /\ s.receiving = None /\ s.send = 0 /\ s.skipped = {}

LEMMA BobResult == ASSUME NEW p, NEW x PROVE IsBob(p, BobSession(p, x))
<1>0. PICK s : s = BobSession(p, x)
  BY Zenon
<1>1. PICK secret : s = InitializeBob(secret, SignedPrekey(p))
  BY <1>0, Zenon DEF BobSession
<1>2. /\ s.root = <<secret>> /\ s.our = SignedPrekey(p) /\ s.their = None
      /\ s.receiving = None /\ s.send = 0 /\ s.skipped = {} /\ s.sending = None /\ s.recv = 0
      /\ s.previousSend = 0
  BY <1>1 DEF InitializeBob
<1>3. IsSession(s)
  BY <1>1, <1>2, Zenon DEF IsSession, InitializeBob
<1>4. IsSeq(<<secret>>)
  BY DEF IsSeq
<1> QED BY <1>0, <1>2, <1>3, <1>4, Zenon DEF IsBob

\* Nothing is sent with the signed prekey.
LEMMA NotSentWith ==
  ASSUME Base, NEW p \in Parties, NEW key \in Known(p), NEW i \in DOMAIN sent[p]
  PROVE  Top(sent[p][i].box.mk.root) # DH(SignedPrekey(p), key)
<1>1. PICK f : f = sent[p][i]
  BY Zenon
<1>2. PICK k \in Known(p) : Top(f.box.mk.root) = DH(f.header.key, k)
  BY <1>1, SentKeys, Zenon
<1>3. f.header.key \in Mine(p) /\ f.header.key # SignedPrekey(p)
  BY <1>1, SentKeys, Zenon
<1>4. SignedPrekey(p) \in Mine(p)
  BY Context, KeySets, Zenon
<1>5. DH(f.header.key, k) # DH(SignedPrekey(p), key)
  BY <1>3, <1>4, DHDiffers
<1> QED BY <1>1, <1>2, <1>5, Zenon

\* A message that was opened is one of the other client.
LEMMA OpenedMessage ==
  ASSUME NEW p \in Parties, OpenedOK(p), NEW m \in Range(opened[p])
  PROVE  \E i \in DOMAIN sent[Other(p)] : m = <<Other(p), i>> /\ Envelope(m) = sent[Other(p)][i]
<1>1. m \in {Other(p)} \X DOMAIN sent[Other(p)]
  BY Zenon DEF OpenedOK
<1>2. PICK i \in DOMAIN sent[Other(p)] : m = <<Other(p), i>>
  BY <1>1
<1>3. Envelope(m) = sent[Other(p)][i]
  BY <1>2 DEF Envelope
<1> QED BY <1>2, <1>3, Zenon

LEMMA OpenedNumber ==
  ASSUME Base, NEW p \in Parties, OpenedOK(p), NEW m \in Range(opened[p])
  PROVE  Envelope(m).box.mk.n \in Nat
<1>1. PICK i \in DOMAIN sent[Other(p)] : Envelope(m) = sent[Other(p)][i]
  BY OpenedMessage, Zenon
<1>2. sent[Other(p)][i].box.mk.n \in Nat
  BY TheirKeys, Zenon
<1> QED BY <1>1, <1>2, Zenon

\* The same with a new ratchet key.
ReceivedAnew(p, t, j, e) == Received(p, t, made[p] + 1, j, e) /\ t.our = Fresh(p, 0)

\* The first message of a session opens and makes the recipient's session.
LEMMA OpenerReceives ==
  ASSUME Base, NEW p \in Parties, OpenedOK(p), NEW j \in DOMAIN sent[Other(p)], NEW e,
         e = sent[Other(p)][j], e.prekey # None, <<Other(p), j>> \notin Range(opened[p]),
         NEW aad, NEW r,
         r = Decrypt(BobSession(p, e.prekey), e.header, e.box, aad, Fresh(p, 0)), r.ok
  PROVE  ReceivedAnew(p, r.session, j, e)
<1>0. PICK s : s = BobSession(p, e.prekey)
  BY Zenon
<1>1. PICK t : t = r.session
  BY Zenon
<1>2. PICK key \in Known(p) : key = e.header.key /\ key # None
  <2>1. e.header.key \in Known(p)
    BY TheirKeys, Zenon
  <2>2. None \notin Known(p)
    BY Context, Zenon
  <2> QED BY <2>1, <2>2, Zenon
<1>3. PICK n \in Nat : n = made[p]
  BY Context, Zenon
<1>4. /\ IsSession(s) /\ IsSeq(s.root) /\ s.our = SignedPrekey(p) /\ s.their = None
      /\ s.receiving = None /\ s.send \in Nat /\ s.skipped = {}
  <2>1. 0 \in Nat
    OBVIOUS
  <2>2. IsBob(p, s)
    BY <1>0, BobResult, Zenon
  <2> QED BY <2>1, <2>2, Zenon DEF IsBob
<1>5. r = OpenInChain(DHStep(s, key, Fresh(p, 0)), e.header, e.box, aad)
  <2>1. StoredFor(s, e.header) = {}
    BY <1>4, Zenon DEF StoredFor
  <2>2. AfterStep(s, e.header, e.box, aad, Fresh(p, 0), r)
    <3>1. r = Decrypt(s, e.header, e.box, aad, Fresh(p, 0))
      BY <1>0, Zenon
    <3> QED BY <1>2, <1>4, <2>1, <3>1, DecryptResult, Zenon DEF WithStored, InChain
  <2>3. PICK w : BeforeStep(s, e.header, w)
                 /\ r = OpenInChain(DHStep(w, key, Fresh(p, 0)), e.header, e.box, aad)
    BY <1>2, <2>2, Zenon DEF AfterStep
  <2>4. w = s
    <3>1. CASE \E k : k = SkipMessageKeys(s, s.recv, e.header.previous) /\ k.ok /\ w = k.session
      <4>1. PICK k : k = SkipMessageKeys(s, s.recv, e.header.previous) /\ k.ok /\ w = k.session
        BY <3>1, Zenon
      <4> QED BY <1>4, <4>1 DEF SkipMessageKeys, Failed
    <3> QED BY <2>3, <3>1, Zenon DEF BeforeStep
  <2> QED BY <2>3, <2>4, Zenon
<1>6. SignedPrekey(p) \in Past(p, n) /\ SignedPrekey(p) \in Mine(p) /\ Past(p, n) \subseteq Mine(p)
  BY KeySets, Zenon
<1>7. SkippedOK(p, s, n)
  BY <1>4, Zenon DEF SkippedOK
<1>8. \A i \in DOMAIN sent[p] : Top(sent[p][i].box.mk.root) # DH(s.our, key)
  BY <1>4, NotSentWith, Zenon
<1>9. ASSUME NEW m \in Range(opened[p])
      PROVE  /\ Envelope(m).box.mk.n \in Nat
             /\ \E k \in Past(p, n), h \in Known(p) : Top(Envelope(m).box.mk.root) = DH(k, h)
             /\ Top(Envelope(m).box.mk.root) # DH(s.our, key)
             /\ \A k \in s.skipped : k.mk # Envelope(m).box.mk
  <2>1. PICK i \in DOMAIN sent[Other(p)] : Envelope(m) = sent[Other(p)][i]
    BY OpenedMessage, Zenon
  <2>2. PICK f : f = sent[Other(p)][i] /\ f = Envelope(m)
    BY <2>1, Zenon
  <2>3. f.box.mk.n \in Nat
    BY <2>2, TheirKeys, Zenon
  <2>4. ASSUME Top(f.box.mk.root) = DH(SignedPrekey(p), key) PROVE FALSE
    <3>1. PICK x \in Known(Other(p)) : Top(f.box.mk.root) = DH(f.header.key, x)
      BY <2>2, TheirKeys, Zenon
    <3>2. f.header.key \in Known(p) /\ x \in Mine(p)
      <4>1. Known(Other(p)) \subseteq Mine(p)
        BY Context, OtherParty, Zenon
      <4> QED BY <2>2, <4>1, TheirKeys, Zenon
    <3>3. DH(x, f.header.key) = DH(SignedPrekey(p), key)
      BY <2>4, <3>1, DHSymmetric, Zenon
    <3>4. f.header.key = key
      BY <1>6, <3>2, <3>3, DHDiffers
    <3> QED BY <1>2, <2>2, <3>4, Zenon DEF OpenedOK
  <2>5. \E k \in Past(p, n), h \in Known(p) : Top(Envelope(m).box.mk.root) = DH(k, h)
    BY <1>3, Zenon DEF OpenedOK
  <2> QED BY <1>4, <2>2, <2>3, <2>4, <2>5, Zenon
<1>10. PICK x : x = DHStep(s, key, Fresh(p, 0))
  BY Zenon
<1>11. SessionOK(p, x, n + 1) /\ Aligned(x)
  BY <1>3, <1>4, <1>6, <1>7, <1>8, <1>9, <1>10, StepKeeps, Zenon
<1>12. x.our = Fresh(p, 0) /\ x.their = key /\ x.skipped = {}
  <2>1. Stepped(s, key, Fresh(p, 0), x)
    BY <1>4, <1>10, DHStepResult, Zenon
  <2> QED BY <1>4, <2>1, Zenon DEF Stepped
<1>13. OpenedBy(p, n + 1, x, t, e)
  <2>1. PICK k \in Nat : k = n + 1
    OBVIOUS
  <2>2. SessionOK(p, x, k) /\ Aligned(x) /\ r = OpenInChain(x, e.header, e.box, aad)
    BY <1>5, <1>10, <1>11, <2>1, Zenon
  <2>3. OpenedInChain(p, k, x, t, e)
    BY <1>1, <2>2, OpenKeeps, Zenon
  <2> QED BY <2>1, <2>3, Zenon DEF OpenedInChain
<1>14. FirstOpened(p, j, key)
  <2>1. SUFFICES ASSUME NEW i \in DOMAIN sent[Other(p)], sent[Other(p)][i].prekey # None,
                        sent[Other(p)][i].header.key = key
                 PROVE  i = j
    BY Zenon DEF FirstOpened
  <2>2. sent[Other(p)][i].header.n = 0 /\ e.header.n = 0
    BY <2>1, TheirKeys, Zenon
  <2>3. SentOK(Other(p))
    BY Context, Zenon
  <2> QED BY <1>2, <2>1, <2>2, <2>3, Zenon DEF SentOK, OneChain
<1> QED BY <1>1, <1>2, <1>3, <1>12, <1>13, <1>14, Zenon DEF ReceivedAnew, Received, OpenedBy

-----------------------------------------------------------------------------
(* Steps that send nothing *)

\* What depends only on what was sent.
LEMMA SameSent ==
  ASSUME sent' = sent, NEW p
  PROVE  /\ Known(p)' = Known(p)
         /\ \A n, our, root, t : Retired(p, n, our, root, t) => Retired(p, n, our, root, t)'
         /\ \A s, n : ChainsOK(p, s, n) => ChainsOK(p, s, n)'
         /\ \A s, n : SkippedOK(p, s, n) => SkippedOK(p, s, n)'
         /\ \A s : SendingOK(p, s) => SendingOK(p, s)'
         /\ \A s, n, mk : Behind(p, s, n, mk) => Behind(p, s, n, mk)'
         /\ \A m : Envelope(m)' = Envelope(m)
<1>1. Known(p)' = Known(p)
  BY Zenon DEF Known, Used
<1>2. \A n, our, root, t : Retired(p, n, our, root, t) => Retired(p, n, our, root, t)'
  BY Zenon DEF Retired
<1>3. \A s, n : ChainsOK(p, s, n) => ChainsOK(p, s, n)'
  BY <1>1, <1>2, Zenon DEF ChainsOK
<1>4. \A s, n : SkippedOK(p, s, n) => SkippedOK(p, s, n)'
  BY <1>1, <1>2, Zenon DEF SkippedOK
<1>5. \A s : SendingOK(p, s) => SendingOK(p, s)'
  BY Zenon DEF SendingOK
<1>6. \A s, n, mk : Behind(p, s, n, mk) => Behind(p, s, n, mk)'
  BY <1>1, Zenon DEF Behind
<1>7. \A m : Envelope(m)' = Envelope(m)
  BY Zenon DEF Envelope
<1> QED BY <1>1, <1>2, <1>3, <1>4, <1>5, <1>6, <1>7, Zenon

\* What was sent, while more ratchet keys are generated.
LEMMA SentKept ==
  ASSUME NEW p \in Parties, SentOK(p), sent' = sent, made[p] \in Nat, made'[p] \in Nat,
         made'[p] >= made[p]
  PROVE  SentOK(p)'
<1>1. Ours(p, made[p]) \subseteq Ours(p, made'[p])
  BY KeySets, Zenon
<1>2. ASSUME NEW i \in DOMAIN sent[p] PROVE EnvelopeOK(p, sent[p][i])'
  <2>1. EnvelopeOK(p, sent[p][i])
    BY Zenon DEF SentOK
  <2>2. Known(p)' = Known(p)
    BY SameSent, Zenon
  <2> QED BY <1>1, <2>1, <2>2, Zenon DEF EnvelopeOK
<1> QED BY <1>2, Zenon DEF SentOK

\* A client whose session, keys and opened messages stay as they are.
LEMMA HeldKept ==
  ASSUME NEW p \in Parties, NEW x, HeldOK(p, x), sent' = sent, opened'[p] = opened[p],
         made'[p] = made[p]
  PROVE  HeldOK(p, x)'
<1>1. SUFFICES ASSUME x # None
               PROVE  /\ SessionOK(p, x.ratchet, made[p])' /\ OpenersOpened(p, x.ratchet)'
  BY <1>1, Zenon DEF HeldOK
<1>2. SessionOK(p, x.ratchet, made[p]) /\ OpenersOpened(p, x.ratchet)
  BY <1>1, Zenon DEF HeldOK
<1>3. OpenersOpened(p, x.ratchet)'
  BY <1>2, Zenon DEF OpenersOpened
<1>4. SessionOK(p, x.ratchet, made[p])'
  BY <1>2, SameSent, Zenon DEF SessionOK
<1> QED BY <1>3, <1>4, Zenon

LEMMA OpenedKept ==
  ASSUME NEW p \in Parties, OpenedOK(p), sent' = sent, opened'[p] = opened[p],
         accepted \subseteq accepted', made[p] \in Nat, made'[p] \in Nat, made'[p] >= made[p]
  PROVE  OpenedOK(p)'
<1>1. Past(p, made[p]) \subseteq Past(p, made'[p])
  BY KeySets, Zenon
<1>2. Known(p)' = Known(p) /\ \A m : Envelope(m)' = Envelope(m)
  BY SameSent, Zenon
<1> QED BY <1>1, <1>2, Zenon DEF OpenedOK

\* A step that generates no key and opens nothing: messages leave the outboxes,
\* reach the queues or leave them, and sessions are dropped.
QuietStep ==
  /\ UNCHANGED <<made, sent, opened>> /\ accepted \subseteq accepted'
  /\ DOMAIN sess' = Parties /\ DOMAIN outbox' = Parties /\ DOMAIN queue' = Parties
  /\ \A p \in Parties :
       /\ sess'[p] = sess[p] \/ sess'[p] = None
       /\ IsSeq(outbox'[p]) /\ Range(outbox'[p]) \subseteq Range(outbox[p])
       /\ queue'[p] \subseteq queue[p] \cup
            ((({Other(p)} \X DOMAIN sent[Other(p)]) \cap accepted') \ Range(opened[p]))

LEMMA QuietKeeps ==
  ASSUME FInv, QuietStep
  PROVE  FInv'
<1>0. made' = made /\ sent' = sent /\ opened' = opened
  BY Zenon DEF QuietStep
<1>1. Base'
  <2>1. ASSUME NEW p \in Parties PROVE SentOK(p)'
    <3>1. made[p] \in Nat /\ SentOK(p)
      BY Zenon DEF FInv, Base
    <3>2. made[p] >= made[p]
      BY <3>1
    <3> QED BY <1>0, <3>1, <3>2, SentKept, Zenon
  <2> QED BY <1>0, <2>1, Zenon DEF FInv, Base, QuietStep
<1>2. ASSUME NEW p \in Parties PROVE OpenedOK(p)'
  <2>1. made[p] \in Nat /\ OpenedOK(p)
    BY Zenon DEF FInv, Base
  <2>2. made[p] >= made[p]
    BY <2>1
  <2>3. accepted \subseteq accepted'
    BY Zenon DEF QuietStep
  <2> QED BY <1>0, <2>1, <2>2, <2>3, OpenedKept, Zenon
<1>3. ASSUME NEW p \in Parties PROVE TransitOK(p)'
  BY <1>0, Zenon DEF FInv, TransitOK, QuietStep
<1>4. ASSUME NEW p \in Parties PROVE HeldOK(p, sess[p])'
  <2>1. PICK x : x = sess'[p]
    BY Zenon
  <2>2. HeldOK(p, x)
    BY <2>1, Zenon DEF FInv, HeldOK, QuietStep
  <2>3. HeldOK(p, x)'
    BY <1>0, <2>2, HeldKept, Zenon
  <2> QED BY <2>1, <2>3, Zenon
<1> QED BY <1>1, <1>2, <1>3, <1>4, Zenon DEF FInv

\* The steps of that kind.
LEMMA QuietSteps ==
  ASSUME FInv, NEW p \in Parties,
         \/ OpenConversation(p) \/ RefreshExpiredSession(p) \/ Accept(p) \/ ConfirmSent(p)
         \/ RejectMessage(p) \/ ReservationLost(p) \/ Expire(p) \/ Restart(p)
         \/ (HandleBundle(p) /\ ~pending[p])
  PROVE  FInv'
<1>1. /\ DOMAIN sess = Parties /\ DOMAIN outbox = Parties /\ DOMAIN queue = Parties
      /\ \A q \in Parties : IsSeq(outbox[q])
  BY Zenon DEF FInv, Base, TransitOK
<1>2. ASSUME NEW f PROVE IsSeq(Without(outbox[p], f)) /\ Range(Without(outbox[p], f)) \subseteq Range(outbox[p])
  BY <1>1, SeqWithout, Zenon
<1>3. CASE OpenConversation(p) \/ ReservationLost(p) \/ Restart(p)
           \/ (HandleBundle(p) /\ ~pending[p])
  <2>1. UNCHANGED <<made, sent, opened, accepted, sess, outbox, queue>>
    BY <1>3, Zenon DEF OpenConversation, ReservationLost, Restart, HandleBundle
  <2> QED BY <1>1, <2>1, QuietKeeps, Zenon DEF QuietStep
<1>4. CASE RefreshExpiredSession(p)
  <2>1. /\ UNCHANGED <<made, sent, opened, accepted, outbox, queue>>
        /\ sess' = [sess EXCEPT ![p] = None]
    BY <1>4, Zenon DEF RefreshExpiredSession
  <2> QED BY <1>1, <2>1, QuietKeeps, Zenon DEF QuietStep
<1>5. CASE ConfirmSent(p)
  <2>1. PICK m : /\ UNCHANGED <<made, sent, opened, accepted, sess, queue>>
                 /\ outbox' = [outbox EXCEPT ![p] = Without(@, m)]
    BY <1>5, Zenon DEF ConfirmSent
  <2> QED BY <1>1, <1>2, <2>1, QuietKeeps, Zenon DEF QuietStep
<1>6. CASE RejectMessage(p)
  <2>1. PICK m : /\ UNCHANGED <<made, sent, opened, accepted, queue>>
                 /\ outbox' = [outbox EXCEPT ![p] = Without(@, m)]
                 /\ sess' = [sess EXCEPT ![p] = None]
    BY <1>6, Zenon DEF RejectMessage
  <2> QED BY <1>1, <1>2, <2>1, QuietKeeps, Zenon DEF QuietStep
<1>7. CASE Expire(p)
  <2>1. PICK m : /\ UNCHANGED <<made, sent, opened, accepted, sess, outbox>>
                 /\ queue' = [queue EXCEPT ![p] = @ \ {m}]
    BY <1>7, Zenon DEF Expire
  <2> QED BY <1>1, <2>1, QuietKeeps, Zenon DEF QuietStep
<1>8. CASE Accept(p)
  <2>1. PICK m \in Range(outbox[p]) \ accepted :
          /\ UNCHANGED <<made, sent, opened, sess>> /\ accepted' = accepted \cup {m}
          /\ queue' = [queue EXCEPT ![Other(p)] = @ \cup {m}]
          /\ outbox' = outbox \/ outbox' = [outbox EXCEPT ![p] = Without(@, m)]
    BY <1>8, Zenon DEF Accept
  <2>2. Other(p) \in Parties /\ Other(Other(p)) = p
    BY OtherParty, Zenon
  <2>3. m \in {p} \X DOMAIN sent[p] /\ m \notin Range(opened[Other(p)])
    BY <2>1, <2>2, Zenon DEF FInv, TransitOK, OpenedOK
  <2>4. ASSUME NEW q \in Parties
        PROVE  queue'[q] \subseteq queue[q] \cup
                 ((({Other(q)} \X DOMAIN sent[Other(q)]) \cap accepted') \ Range(opened[q]))
    BY <1>1, <2>1, <2>2, <2>3, Zenon
  <2>5. /\ DOMAIN outbox' = Parties /\ DOMAIN queue' = Parties
        /\ \A q \in Parties : IsSeq(outbox'[q]) /\ Range(outbox'[q]) \subseteq Range(outbox[q])
    BY <1>1, <1>2, <2>1, <2>2, Zenon
  <2> QED BY <1>1, <2>1, <2>4, <2>5, QuietKeeps, Zenon DEF QuietStep
<1> QED BY <1>3, <1>4, <1>5, <1>6, <1>7, <1>8

-----------------------------------------------------------------------------
(* Opening a session from a bundle *)

\* init_session_from_bundle.
IsAlice(s, key, fresh) ==
  /\ IsSession(s) /\ IsSeq(s.root) /\ s.our = fresh /\ s.their = key
  /\ IsChain(s.sending) /\ s.sending.at = 0 /\ Top(s.sending.root) = DH(fresh, key)
  /\ s.receiving = None /\ s.skipped = {}
  /\ s.send = 0 /\ s.recv = 0 /\ s.previousSend = 0

LEMMA AliceResult ==
  ASSUME NEW secret, NEW key, NEW fresh
  PROVE  IsAlice(InitializeAlice(secret, key, fresh), key, fresh)
<1>0. PICK s : s = InitializeAlice(secret, key, fresh)
  BY Zenon
<1>1. PICK root : root = <<secret, DH(fresh, key)>>
  BY Zenon
<1>2. IsSeq(root) /\ Top(root) = DH(fresh, key)
  BY <1>1 DEF IsSeq, Top
<1>3. s = [root |-> root, our |-> fresh, their |-> key, sending |-> Chain(root),
           receiving |-> None, send |-> 0, recv |-> 0, previousSend |-> 0, skipped |-> {}]
  BY <1>0, <1>1, Zenon DEF InitializeAlice
<1>4. /\ s.root = root /\ s.our = fresh /\ s.their = key /\ s.sending = Chain(root)
      /\ s.receiving = None /\ s.send = 0 /\ s.recv = 0 /\ s.previousSend = 0 /\ s.skipped = {}
  BY <1>3
<1>5. IsSession(s)
  BY <1>3, <1>4, Zenon DEF IsSession
<1>6. IsChain(Chain(root)) /\ Chain(root).at = 0 /\ Chain(root).root = root
  BY DEF IsChain, Chain
<1> QED BY <1>0, <1>2, <1>4, <1>5, <1>6, Zenon DEF IsAlice

\* The session a bundle opens is of a key nothing was sent or opened with.
LEMMA AliceSession ==
  ASSUME Base, NEW p \in Parties, OpenedOK(p), NEW s,
         IsAlice(s, SignedPrekey(Other(p)), Fresh(p, 1))
  PROVE  /\ SessionOK(p, s, made[p] + 2) /\ Aligned(s) /\ OpenersOpened(p, s)
         /\ Unsent(p, s)
<1>1. PICK n \in Nat : n = made[p]
  BY Context, Zenon
<1>2. PICK our : our = Fresh(p, 1)
  BY Zenon
<1>3. our \in Ours(p, n + 2) /\ our \notin Past(p, n)
  BY <1>1, <1>2 DEF Fresh, Pair, Ours, Past
<1>4. Ours(p, n) \subseteq Past(p, n) /\ Past(p, n) \subseteq Past(p, n + 2)
  BY DEF Ours, Past
<1>5. SignedPrekey(Other(p)) \in Known(p)
  BY Zenon DEF Known
<1>6. ChainsOK(p, s, n + 2)
  <2>1. 0 \in Nat
    OBVIOUS
  <2> QED BY <1>2, <1>3, <1>5, <2>1, Zenon DEF ChainsOK, IsAlice
<1>7. SkippedOK(p, s, n + 2) /\ Aligned(s) /\ Unsent(p, s)
  BY Zenon DEF SkippedOK, Aligned, Unsent, IsAlice
<1>8. SendingOK(p, s)
  <2>1. SUFFICES ASSUME NEW i \in DOMAIN sent[p] PROVE sent[p][i].header.key # our
    BY <1>2, Zenon DEF SendingOK, IsAlice
  <2>2. sent[p][i].header.key \in Ours(p, n)
    BY <1>1, SentKeys, Zenon
  <2> QED BY <1>3, <1>4, <2>2, Zenon
<1>9. ASSUME NEW m \in Range(opened[p]) PROVE Behind(p, s, n + 2, Envelope(m).box.mk)
  <2>1. PICK mk : mk = Envelope(m).box.mk
    BY Zenon
  <2>2. \E k \in Past(p, n), t \in Known(p) : Top(mk.root) = DH(k, t)
    BY <1>1, <2>1, Zenon DEF OpenedOK
  <2>3. \E k \in Past(p, n + 2) \ {s.our}, t \in Known(p) : Top(mk.root) = DH(k, t)
    BY <1>2, <1>3, <1>4, <2>2, Zenon DEF IsAlice
  <2>4. mk.n \in Nat
    BY <2>1, OpenedNumber, Zenon
  <2> QED BY <2>1, <2>3, <2>4, Zenon DEF Behind, IsAlice
<1>10. OpenersOpened(p, s)
  <2>1. \A j \in DOMAIN sent[Other(p)] : sent[Other(p)][j].header.key # SignedPrekey(Other(p))
    BY TheirKeys, Zenon
  <2> QED BY <2>1, Zenon DEF OpenersOpened, IsAlice
<1> QED BY <1>1, <1>6, <1>7, <1>8, <1>9, <1>10, Zenon DEF SessionOK

\* A step of p that generates ratchet keys and replaces its session; nothing is
\* sent and nothing moves on the way.
LEMMA BundleKeeps ==
  ASSUME FInv, NEW p \in Parties, HandleBundle(p), pending[p]
  PROVE  FInv'
<1>1. PICK n \in Nat : n = made[p]
  BY Context, Zenon DEF FInv
<1>2. PICK x : /\ sess' = [sess EXCEPT ![p] = x]
               /\ \E secret : x.ratchet = InitializeAlice(secret, SignedPrekey(Other(p)), Fresh(p, 1))
  <2>1. PICK secret, y : sess' = [sess EXCEPT ![p] =
            [ratchet |-> InitializeAlice(secret, SignedPrekey(Other(p)), Fresh(p, 1)), prekey |-> y]]
    BY Zenon DEF HandleBundle
  <2>2. PICK s : s = InitializeAlice(secret, SignedPrekey(Other(p)), Fresh(p, 1))
    BY Zenon
  <2>3. [ratchet |-> s, prekey |-> y].ratchet = s
    OBVIOUS
  <2> QED BY <2>1, <2>2, <2>3, Zenon
<1>s. /\ DOMAIN sess' = Parties /\ sess'[p] = x
      /\ \A q \in Parties : q # p => sess'[q] = sess[q]
  <2>1. DOMAIN sess = Parties
    BY Zenon DEF FInv, Base
  <2> QED BY <1>2, <2>1, Zenon
<1>3. /\ made' = [made EXCEPT ![p] = @ + 2]
      /\ UNCHANGED <<outbox, accepted, queue, opened, sent>>
  BY Zenon DEF HandleBundle
<1>4. /\ made' \in [Parties -> Nat] /\ made'[p] = n + 2
      /\ \A q \in Parties : q # p => made'[q] = made[q]
      /\ \A q \in Parties : made'[q] >= made[q] /\ made[q] \in Nat /\ made'[q] \in Nat
  BY <1>1, <1>3 DEF FInv, Base
<1>5. Base'
  <2>1. ASSUME NEW q \in Parties PROVE SentOK(q)'
    BY <1>3, <1>4, SentKept, Zenon DEF FInv, Base
  <2> QED BY <1>s, <1>3, <1>4, <2>1, Zenon DEF FInv, Base
<1>6. ASSUME NEW q \in Parties PROVE OpenedOK(q)'
  BY <1>3, <1>4, OpenedKept, Zenon DEF FInv
<1>7. ASSUME NEW q \in Parties PROVE TransitOK(q)'
  BY <1>3, Zenon DEF FInv, TransitOK
<1>8. ASSUME NEW q \in Parties, q # p PROVE HeldOK(q, sess[q])'
  <2>1. PICK y : y = sess[q] /\ y = sess'[q]
    BY <1>s, <1>8, Zenon
  <2>2. HeldOK(q, y)'
    BY <1>3, <1>4, <1>8, <2>1, HeldKept, Zenon DEF FInv
  <2> QED BY <2>1, <2>2, Zenon
<1>9. HeldOK(p, sess[p])'
  <2>1. x = sess'[p]
    BY <1>s, Zenon
  <2>2. PICK s : s = x.ratchet /\ IsAlice(s, SignedPrekey(Other(p)), Fresh(p, 1))
    BY <1>2, AliceResult, Zenon
  <2>3. SessionOK(p, s, n + 2) /\ Aligned(s) /\ OpenersOpened(p, s) /\ Unsent(p, s)
    BY <1>1, <2>2, AliceSession, Zenon DEF FInv
  <2>4. SessionOK(p, s, n + 2)'
    BY <1>3, <2>3, SameSent, Zenon DEF SessionOK
  <2>5. OpenersOpened(p, s)'
    BY <1>3, <2>3, Zenon DEF OpenersOpened
  <2> QED BY <1>4, <2>1, <2>2, <2>3, <2>4, <2>5, Zenon DEF HeldOK
<1> QED BY <1>5, <1>6, <1>7, <1>8, <1>9, Zenon DEF FInv

-----------------------------------------------------------------------------
(* Receiving, in the system *)

\* What happens to a client that opens message m, with session t then.
ReceiveStep(p, m, t, n) ==
  /\ DOMAIN sess' = Parties
  /\ sess'[p].ratchet = t /\ sess'[p].prekey = None
  /\ \A q \in Parties : q # p => sess'[q] = sess[q]
  /\ made' = [made EXCEPT ![p] = n] /\ opened' = [opened EXCEPT ![p] = Append(@, m)]
  /\ queue' = [queue EXCEPT ![p] = @ \ {m}]
  /\ UNCHANGED <<outbox, accepted, sent>>

LEMMA ReceiveKeeps ==
  ASSUME FInv, NEW p \in Parties, NEW m \in queue[p], NEW n \in Nat, n >= made[p], NEW t,
         NEW j \in DOMAIN sent[Other(p)], m = <<Other(p), j>>, NEW e, e = sent[Other(p)][j],
         Received(p, t, n, j, e), ReceiveStep(p, m, t, n)
  PROVE  FInv'
<1>1. /\ DOMAIN sess' = Parties /\ UNCHANGED <<outbox, accepted, sent>>
      /\ made' = [made EXCEPT ![p] = n] /\ opened' = [opened EXCEPT ![p] = Append(@, m)]
      /\ queue' = [queue EXCEPT ![p] = @ \ {m}]
  BY Zenon DEF ReceiveStep
<1>2. /\ made \in [Parties -> Nat] /\ DOMAIN opened = Parties /\ DOMAIN queue = Parties
      /\ OpenedOK(p) /\ TransitOK(p)
  BY Zenon DEF FInv, Base
<1>3. /\ made' \in [Parties -> Nat] /\ made'[p] = n
      /\ \A q \in Parties : q # p => made'[q] = made[q]
      /\ \A q \in Parties : made'[q] >= made[q] /\ made[q] \in Nat /\ made'[q] \in Nat
  BY <1>1, <1>2
<1>4. /\ DOMAIN opened' = Parties /\ opened'[p] = Append(opened[p], m)
      /\ \A q \in Parties : q # p => opened'[q] = opened[q]
      /\ DOMAIN queue' = Parties /\ queue'[p] = queue[p] \ {m}
      /\ \A q \in Parties : q # p => queue'[q] = queue[q]
  BY <1>1, <1>2, Zenon
<1>5. IsSeq(opened'[p]) /\ Range(opened'[p]) = Range(opened[p]) \cup {m}
  <2>1. IsSeq(opened[p])
    BY <1>2, Zenon DEF OpenedOK
  <2>2. /\ IsSeq(Append(opened[p], m))
        /\ Range(Append(opened[p], m)) = Range(opened[p]) \cup {m}
    BY <2>1, SeqAppend, Zenon
  <2> QED BY <1>4, <2>2, Zenon
<1>6. Base'
  <2>1. ASSUME NEW q \in Parties PROVE SentOK(q)'
    BY <1>1, <1>3, SentKept, Zenon DEF FInv, Base
  <2> QED BY <1>1, <1>3, <1>4, <2>1, Zenon DEF FInv, Base
<1>7. Envelope(m) = e /\ \A x : Envelope(x)' = Envelope(x)
  <2>1. Envelope(m) = e
    BY DEF Envelope
  <2> QED BY <1>1, <2>1, SameSent, Zenon
<1>8. Known(p)' = Known(p)
  BY <1>1, SameSent, Zenon
<1>9. OpenedOK(p)'
  <2>1. Range(opened[p])' \subseteq ({Other(p)} \X DOMAIN sent[Other(p)]') \cap accepted'
    BY <1>1, <1>2, <1>5, Zenon DEF OpenedOK, TransitOK
  <2>2. Past(p, made[p]) \subseteq Past(p, n)
    BY <1>3, KeySets, Zenon
  <2>3. ASSUME NEW x \in Range(opened'[p])
        PROVE  \E k \in Past(p, n), h \in Known(p) : Top(Envelope(x).box.mk.root) = DH(k, h)
    <3>1. CASE x \in Range(opened[p])
      BY <1>2, <2>2, <3>1, Zenon DEF OpenedOK
    <3>2. CASE x = m
      BY <1>7, <3>2, Zenon DEF Received, Behind
    <3> QED BY <1>5, <3>1, <3>2, Zenon
  <2>4. ASSUME NEW i \in DOMAIN sent[Other(p)], NEW x \in Range(opened'[p]),
               sent[Other(p)][i].prekey # None,
               Envelope(x).header.key = sent[Other(p)][i].header.key
        PROVE  <<Other(p), i>> \in Range(opened'[p])
    <3>1. CASE x \in Range(opened[p])
      BY <1>2, <1>5, <2>4, <3>1, Zenon DEF OpenedOK
    <3>2. CASE x = m
      BY <1>5, <1>7, <2>4, <3>2, Zenon DEF Received, FirstOpened
    <3> QED BY <1>5, <3>1, <3>2, Zenon
  <2>5. ASSUME NEW x \in Range(opened'[p])
        PROVE  \E k \in Past(p, made'[p]), h \in Known(p)' : Top(Envelope(x)'.box.mk.root) = DH(k, h)
    BY <1>3, <1>7, <1>8, <2>3, Zenon
  <2>6. ASSUME NEW i \in DOMAIN sent'[Other(p)], NEW x \in Range(opened'[p]),
               sent'[Other(p)][i].prekey # None,
               Envelope(x)'.header.key = sent'[Other(p)][i].header.key
        PROVE  <<Other(p), i>> \in Range(opened'[p])
    BY <1>1, <1>7, <2>4, <2>6, Zenon
  <2> QED BY <1>5, <2>1, <2>5, <2>6, Zenon DEF OpenedOK
<1>10. TransitOK(p)'
  BY <1>1, <1>2, <1>4, <1>5, Zenon DEF TransitOK
<1>11. HeldOK(p, sess[p])'
  <2>1. SUFFICES ASSUME sess'[p] # None
                 PROVE  SessionOK(p, t, n)' /\ Aligned(t) /\ OpenersOpened(p, t)'
    <3>1. PICK x : x = sess'[p] /\ x.ratchet = t /\ x.prekey = None
      BY Zenon DEF ReceiveStep
    <3>2. HeldOK(p, x)'
      BY <1>3, <2>1, <3>1, Zenon DEF HeldOK
    <3> QED BY <3>1, <3>2, Zenon
  <2>2. SessionOK(p, t, n) /\ Aligned(t) /\ Behind(p, t, n, e.box.mk)
    BY Zenon DEF Received
  <2>3. ChainsOK(p, t, n)' /\ SkippedOK(p, t, n)' /\ SendingOK(p, t)'
    BY <1>1, <2>2, SameSent, Zenon DEF SessionOK
  <2>4. ASSUME NEW x \in Range(opened'[p]) PROVE Behind(p, t, n, Envelope(x).box.mk)'
    <3>1. PICK mk : mk = Envelope(x).box.mk /\ mk = Envelope(x)'.box.mk
      BY <1>7, Zenon
    <3>2. Behind(p, t, n, mk)
      BY <1>5, <1>7, <2>2, <3>1, Zenon DEF SessionOK
    <3>3. Behind(p, t, n, mk)'
      BY <1>1, <3>2, SameSent, Zenon
    <3> QED BY <3>1, <3>3, Zenon
  <2>5. OpenersOpened(p, t)'
    BY <1>1, <1>5, Zenon DEF Received, FirstOpened, OpenersOpened
  <2> QED BY <2>2, <2>3, <2>4, <2>5, Zenon DEF SessionOK
<1>12. ASSUME NEW q \in Parties, q # p PROVE OpenedOK(q)' /\ TransitOK(q)' /\ HeldOK(q, sess[q])'
  <2>1. PICK y : y = sess[q] /\ y = sess'[q]
    BY <1>12, Zenon DEF ReceiveStep
  <2>2. HeldOK(q, y)'
    <3>1. HeldOK(q, y)
      BY <2>1, Zenon DEF FInv
    <3>2. sent' = sent /\ opened'[q] = opened[q] /\ made'[q] = made[q]
      BY <1>1, <1>3, <1>4, <1>12, Zenon
    <3> QED BY <3>1, <3>2, HeldKept, Zenon
  <2>3. OpenedOK(q)'
    BY <1>1, <1>3, <1>4, <1>12, OpenedKept, Zenon DEF FInv
  <2>4. TransitOK(q)'
    BY <1>1, <1>4, <1>12, Zenon DEF FInv, TransitOK
  <2> QED BY <2>1, <2>2, <2>3, <2>4, Zenon
<1> QED BY <1>6, <1>9, <1>10, <1>11, <1>12, Zenon DEF FInv

\* What opens, opens with the session there is or with the one an opener makes.
LEMMA OpeningResult ==
  ASSUME NEW p, NEW m, NEW e, e = Envelope(m), NEW r, r = Opening(p, m), r.ok
  PROVE  \/ /\ sess[p] # None
            /\ r = Decrypt(sess[p].ratchet, e.header, e.box, Aad(e.prekey), Fresh(p, 0))
         \/ /\ sess[p] = None /\ e.prekey # None
            /\ r = Decrypt(BobSession(p, e.prekey), e.header, e.box, Aad(e.prekey), Fresh(p, 0))
<1>1. CASE sess[p] # None
  BY <1>1, Zenon DEF Opening
<1>2. CASE sess[p] = None
  <2>1. ~(~Opener(m) \/ (e.prekey.opk # None /\ ~opk[p]))
    <3>1. SUFFICES ASSUME ~Opener(m) \/ (e.prekey.opk # None /\ ~opk[p]) PROVE FALSE
      BY Zenon
    <3>2. r = Failed
      BY <1>2, <3>1, Zenon DEF Opening
    <3> QED BY <3>2 DEF Failed
  <2>2. e.prekey # None
    BY <2>1, Zenon DEF Opener
  <2>3. r = Decrypt(BobSession(p, e.prekey), e.header, e.box, Aad(e.prekey), Fresh(p, 0))
    BY <1>2, <2>1, Zenon DEF Opening
  <2> QED BY <1>2, <2>2, <2>3, Zenon
<1> QED BY <1>1, <1>2

\* A client whose session opens a message: it generates a key or none, and it has
\* sent its X3DH header.
LEMMA SessionReceives ==
  ASSUME FInv, NEW p \in Parties, sess[p] # None, NEW j \in DOMAIN sent[Other(p)], NEW e,
         e = sent[Other(p)][j], NEW aad,
         NEW r, r = Decrypt(sess[p].ratchet, e.header, e.box, aad, Fresh(p, 0)), r.ok
  PROVE  /\ sess[p].prekey = None
         /\ \/ Received(p, r.session, made[p], j, e) /\ r.session.our # Fresh(p, 0)
            \/ Received(p, r.session, made[p] + 1, j, e) /\ r.session.our = Fresh(p, 0)
<1>1. PICK s : s = sess[p].ratchet
  BY Zenon
<1>2. /\ Base /\ made[p] \in Nat /\ SessionOK(p, s, made[p]) /\ Aligned(s) /\ OpenersOpened(p, s)
      /\ sess[p].prekey # None => Unsent(p, s)
  BY <1>1, Zenon DEF FInv, HeldOK, Base
<1>3. s.our # Fresh(p, 0)
  <2>1. s.our \in Ours(p, made[p])
    BY <1>2, Zenon DEF SessionOK, ChainsOK
  <2>2. s.our # Pair(p, 3 + made[p])
    BY <1>2, <2>1, OursAre, Zenon
  <2>3. Fresh(p, 0) = Pair(p, 3 + made[p])
    BY <1>2 DEF Fresh
  <2> QED BY <2>2, <2>3, Zenon
<1>4. \/ WithStored(s, e.header, e.box, r) \/ InChain(s, e.header, e.box, aad, r)
      \/ AfterStep(s, e.header, e.box, aad, Fresh(p, 0), r)
  BY <1>1, DecryptResult, Zenon
<1>5. CASE WithStored(s, e.header, e.box, r) \/ InChain(s, e.header, e.box, aad, r)
  BY <1>2, <1>3, <1>5, OldChainReceives, Zenon
<1>6. CASE AfterStep(s, e.header, e.box, aad, Fresh(p, 0), r)
  BY <1>2, <1>6, NewChainReceives, Zenon
<1> QED BY <1>4, <1>5, <1>6, Zenon

LEMMA Receives ==
  ASSUME FInv, NEW p \in Parties, Receive(p)
  PROVE  FInv'
<1>1. PICK m \in queue[p] :
        /\ Opening(p, m).ok
        /\ sess' = [sess EXCEPT ![p] =
             [ratchet |-> Opening(p, m).session, prekey |-> IF @ = None THEN None ELSE @.prekey]]
        /\ made' = [made EXCEPT ![p] =
             IF Opening(p, m).session.our = Fresh(p, 0) THEN @ + 1 ELSE @]
        /\ opened' = [opened EXCEPT ![p] = Append(@, m)]
        /\ queue' = [queue EXCEPT ![p] = @ \ {m}]
        /\ UNCHANGED <<outbox, accepted, sent>>
  BY Zenon DEF Receive
<1>2. PICK r : r = Opening(p, m)
  BY Zenon
<1>3. PICK t : t = r.session
  BY Zenon
<1>4. PICK j \in DOMAIN sent[Other(p)] : m = <<Other(p), j>> /\ m \notin Range(opened[p])
  <2>1. m \in {Other(p)} \X DOMAIN sent[Other(p)] /\ m \notin Range(opened[p])
    BY Zenon DEF FInv, TransitOK
  <2> QED BY <2>1
<1>5. PICK e : e = Envelope(m) /\ e = sent[Other(p)][j]
  BY <1>4 DEF Envelope
<1>6. Base /\ made[p] \in Nat /\ DOMAIN sess = Parties /\ OpenedOK(p)
  BY Zenon DEF FInv, Base
<1>7. \/ /\ Received(p, t, made[p], j, e) /\ t.our # Fresh(p, 0)
         /\ sess[p] # None => sess[p].prekey = None
      \/ /\ Received(p, t, made[p] + 1, j, e) /\ t.our = Fresh(p, 0)
         /\ sess[p] # None => sess[p].prekey = None
  <2>1. CASE /\ sess[p] # None
             /\ r = Decrypt(sess[p].ratchet, e.header, e.box, Aad(e.prekey), Fresh(p, 0))
    BY <1>1, <1>2, <1>3, <1>5, <2>1, SessionReceives, Zenon
  <2>2. CASE /\ sess[p] = None /\ e.prekey # None
             /\ r = Decrypt(BobSession(p, e.prekey), e.header, e.box, Aad(e.prekey), Fresh(p, 0))
    <3>1. r.ok /\ <<Other(p), j>> \notin Range(opened[p])
      BY <1>1, <1>2, <1>4, Zenon
    <3>2. ReceivedAnew(p, r.session, j, e)
      BY <1>5, <1>6, <2>2, <3>1, OpenerReceives, Zenon
    <3> QED BY <1>3, <2>2, <3>2, Zenon DEF ReceivedAnew
  <2> QED BY <1>1, <1>2, <1>5, <2>1, <2>2, OpeningResult, Zenon
<1>8. PICK y : y = (IF sess[p] = None THEN None ELSE sess[p].prekey) /\ y = None
  BY <1>7, Zenon
<1>9. PICK x : x = [ratchet |-> t, prekey |-> None]
  BY Zenon
<1>10. /\ x.ratchet = t /\ x.prekey = None
       /\ sess' = [sess EXCEPT ![p] = x]
  <2>1. x.ratchet = t /\ x.prekey = None
    BY <1>9
  <2> QED BY <1>1, <1>2, <1>3, <1>8, <1>9, <2>1, Zenon
<1>11. /\ DOMAIN sess' = Parties /\ sess'[p] = x
       /\ \A q \in Parties : q # p => sess'[q] = sess[q]
  BY <1>6, <1>10, Zenon
<1>12. ASSUME NEW n \in Nat, n >= made[p], made' = [made EXCEPT ![p] = n], Received(p, t, n, j, e)
       PROVE  FInv'
  <2>1. ReceiveStep(p, m, t, n)
    BY <1>1, <1>10, <1>11, <1>12, Zenon DEF ReceiveStep
  <2> QED BY <1>4, <1>5, <1>12, <2>1, ReceiveKeeps, Zenon
<1>13. CASE Received(p, t, made[p], j, e) /\ t.our # Fresh(p, 0)
  <2>1. made' = [made EXCEPT ![p] = made[p]]
    BY <1>1, <1>2, <1>3, <1>13, Zenon
  <2>2. made[p] >= made[p]
    BY <1>6
  <2> QED BY <1>6, <1>12, <1>13, <2>1, <2>2, Zenon
<1>14. CASE Received(p, t, made[p] + 1, j, e) /\ t.our = Fresh(p, 0)
  <2>1. made' = [made EXCEPT ![p] = made[p] + 1]
    BY <1>1, <1>2, <1>3, <1>14, Zenon
  <2>2. made[p] + 1 >= made[p] /\ made[p] + 1 \in Nat
    BY <1>6
  <2> QED BY <1>12, <1>14, <2>1, <2>2, Zenon
<1> QED BY <1>7, <1>13, <1>14, Zenon

-----------------------------------------------------------------------------
(* Sending *)

\* Client p sends f: its message is the last one, nothing else changes.
SentBy(p, f) ==
  /\ DOMAIN sent' = Parties /\ IsSeq(sent'[p])
  /\ \A q \in Parties : q # p => sent'[q] = sent[q]
  /\ Len(sent[p]) + 1 \in DOMAIN sent'[p] \ DOMAIN sent[p] /\ sent'[p][Len(sent[p]) + 1] = f
  /\ \A q \in Parties : \A i \in DOMAIN sent[q] : i \in DOMAIN sent'[q] /\ sent'[q][i] = sent[q][i]
  /\ \A i \in DOMAIN sent'[p] : i \in DOMAIN sent[p] \/ i = Len(sent[p]) + 1

LEMMA SentByResult ==
  ASSUME NEW p \in Parties, DOMAIN sent = Parties, IsSeq(sent[p]), NEW f,
         sent' = [sent EXCEPT ![p] = Append(@, f)]
  PROVE  SentBy(p, f)
<1>1. PICK s : s = sent[p] /\ IsSeq(s)
  BY Zenon
<1>2. /\ DOMAIN sent' = Parties /\ sent'[p] = Append(s, f)
      /\ \A q \in Parties : q # p => sent'[q] = sent[q]
  BY <1>1, Zenon
<1>3. PICK t : t = Append(s, f) /\ IsSeq(t) /\ Appended(s, f, t)
  BY <1>1, SeqAppend, Zenon
<1>4. /\ Len(s) + 1 \in DOMAIN t \ DOMAIN s
      /\ \A i \in DOMAIN t : i \in DOMAIN s \/ i = Len(s) + 1
      /\ DOMAIN s \subseteq DOMAIN t
  BY <1>3 DEF Appended
<1> QED BY <1>1, <1>2, <1>3, <1>4, Zenon DEF SentBy, Appended

\* What is known of the keys of a client only grows.
LEMMA MoreKnown ==
  ASSUME NEW p \in Parties, NEW f, SentBy(p, f)
  PROVE  /\ Known(p)' = Known(p)
         /\ \A q \in Parties : Known(q) \subseteq Known(q)'
         /\ \A q \in Parties : \A i \in DOMAIN sent[q] : Envelope(<<q, i>>)' = Envelope(<<q, i>>)
<1>1. \A q \in Parties : Other(q) \in Parties /\ Other(q) # q
  BY OtherParty, Zenon
<1>2. Known(p)' = Known(p)
  <2>1. sent'[Other(p)] = sent[Other(p)]
    BY <1>1, Zenon DEF SentBy
  <2> QED BY <2>1, Zenon DEF Known, Used
<1>3. ASSUME NEW q \in Parties PROVE Known(q) \subseteq Known(q)'
  <2>1. \A i \in DOMAIN sent[Other(q)] :
          i \in DOMAIN sent'[Other(q)] /\ sent'[Other(q)][i] = sent[Other(q)][i]
    BY <1>1, Zenon DEF SentBy
  <2> QED BY <2>1, Zenon DEF Known, Used
<1>4. ASSUME NEW q \in Parties, NEW i \in DOMAIN sent[q]
      PROVE  Envelope(<<q, i>>)' = Envelope(<<q, i>>)
  <2>1. sent'[q][i] = sent[q][i]
    BY Zenon DEF SentBy
  <2>2. Envelope(<<q, i>>) = sent[q][i] /\ Envelope(<<q, i>>)' = sent'[q][i]
    BY DEF Envelope
  <2> QED BY <2>1, <2>2, Zenon
<1> QED BY <1>2, <1>3, <1>4, Zenon

\* The messages a client has opened stay as they are.
LEMMA OpenedStays ==
  ASSUME FInv, NEW p \in Parties, NEW f, SentBy(p, f), NEW q \in Parties, NEW m \in Range(opened[q])
  PROVE  Envelope(m)' = Envelope(m)
<1>1. Other(q) \in Parties /\ OpenedOK(q)
  BY OtherParty, Zenon DEF FInv
<1>2. PICK i \in DOMAIN sent[Other(q)] : m = <<Other(q), i>>
  BY <1>1, OpenedMessage, Zenon
<1> QED BY <1>1, <1>2, MoreKnown, Zenon

\* The other client when p sends f: it knows more keys.  An opener has a key it
\* does not know yet.
LEMMA SendOther ==
  ASSUME FInv, NEW p \in Parties, NEW f, SentBy(p, f), NEW q \in Parties, q # p, sess'[q] = sess[q],
         UNCHANGED <<made, opened, accepted>>, f.prekey # None => f.header.key \notin Known(q)
  PROVE  SentOK(q)' /\ OpenedOK(q)' /\ HeldOK(q, sess[q])'
<1>1. sent'[q] = sent[q] /\ Other(q) = p
  BY OtherParty, Zenon DEF SentBy
<1>2. Known(q) \subseteq Known(q)'
  BY MoreKnown, Zenon
<1>3. SentOK(q)'
  <2>1. SentOK(q)
    BY Zenon DEF FInv, Base
  <2>2. ASSUME NEW i \in DOMAIN sent[q] PROVE EnvelopeOK(q, sent[q][i])'
    <3>1. PICK e : e = sent[q][i] /\ e = sent'[q][i]
      BY <1>1, Zenon
    <3>2. EnvelopeOK(q, e)
      BY <2>1, <3>1, Zenon DEF SentOK
    <3>3. EnvelopeOK(q, e)'
      BY <1>2, <3>2, Zenon DEF EnvelopeOK
    <3> QED BY <3>1, <3>3, Zenon
  <2> QED BY <1>1, <2>1, <2>2, Zenon DEF SentOK
<1>4. /\ \A i \in DOMAIN sent[p] : i \in DOMAIN sent'[p] /\ sent'[p][i] = sent[p][i]
      /\ \A i \in DOMAIN sent'[p] : i \in DOMAIN sent[p] \/ sent'[p][i] = f
  BY Zenon DEF SentBy
<1>5. OpenedOK(q) /\ HeldOK(q, sess[q])
  BY Zenon DEF FInv
<1>6. \A m \in Range(opened[q]) : Envelope(m)' = Envelope(m)
  BY OpenedStays, Zenon
<1>7. ASSUME NEW m \in Range(opened[q]) PROVE Envelope(m).header.key \in Known(q)
  <2>1. PICK i \in DOMAIN sent[Other(q)] : Envelope(m) = sent[Other(q)][i]
    BY <1>5, OpenedMessage, Zenon
  <2> QED BY <2>1, Zenon DEF Known, Used
<1>8. OpenedOK(q)'
  <2>1. IsSeq(opened'[q])
    BY <1>5, Zenon DEF OpenedOK
  <2>2. Range(opened'[q]) \subseteq ({p} \X DOMAIN sent'[p]) \cap accepted'
    BY <1>1, <1>4, <1>5, Zenon DEF OpenedOK
  <2>3. ASSUME NEW m \in Range(opened'[q])
        PROVE  \E k \in Past(q, made'[q]), t \in Known(q)' : Top(Envelope(m)'.box.mk.root) = DH(k, t)
    BY <1>2, <1>5, <1>6, Zenon DEF OpenedOK
  <2>4. ASSUME NEW j \in DOMAIN sent'[p], NEW m \in Range(opened'[q]),
               sent'[p][j].prekey # None, Envelope(m)'.header.key = sent'[p][j].header.key
        PROVE  <<p, j>> \in Range(opened'[q])
    <3>1. m \in Range(opened[q]) /\ Envelope(m)' = Envelope(m)
      BY <1>6, Zenon
    <3>2. sent'[p][j] # f
      BY <1>7, <2>4, <3>1, Zenon
    <3>3. j \in DOMAIN sent[p] /\ sent'[p][j] = sent[p][j]
      BY <1>4, <3>2, Zenon
    <3> QED BY <1>1, <1>5, <2>4, <3>1, <3>3, Zenon DEF OpenedOK
  <2> QED BY <1>1, <2>1, <2>2, <2>3, <2>4, Zenon DEF OpenedOK
<1>9. PICK x : x = sess[q] /\ x = sess'[q]
  BY Zenon
<1>10. CASE x = None
  BY <1>3, <1>8, <1>9, <1>10, Zenon DEF HeldOK
<1>11. CASE x # None
  <2>1. PICK s : s = x.ratchet
    BY Zenon
  <2>2. PICK n : n = made[q] /\ n = made'[q]
    BY Zenon
  <2>3. /\ SessionOK(q, s, n) /\ Aligned(s) /\ OpenersOpened(q, s)
        /\ x.prekey # None => Unsent(q, s)
    BY <1>5, <1>9, <1>11, <2>1, <2>2, Zenon DEF HeldOK
  <2>4. \A our, root, t : Retired(q, n, our, root, t) => Retired(q, n, our, root, t)'
    BY <1>1, Zenon DEF Retired
  <2>5. ChainsOK(q, s, n)' /\ SkippedOK(q, s, n)' /\ SendingOK(q, s)'
    <3>1. ChainsOK(q, s, n)'
      BY <1>2, <2>3, <2>4, Zenon DEF SessionOK, ChainsOK
    <3>2. SkippedOK(q, s, n)'
      BY <1>2, <2>3, <2>4, Zenon DEF SessionOK, SkippedOK
    <3>3. SendingOK(q, s)'
      BY <1>1, <2>3, Zenon DEF SessionOK, SendingOK
    <3> QED BY <3>1, <3>2, <3>3, Zenon
  <2>6. ASSUME NEW m \in Range(opened'[q]) PROVE Behind(q, s, n, Envelope(m).box.mk)'
    <3>1. PICK mk : mk = Envelope(m).box.mk /\ mk = Envelope(m)'.box.mk
      BY <1>6, Zenon
    <3>2. Behind(q, s, n, mk)
      BY <2>3, <3>1, Zenon DEF SessionOK
    <3>3. Behind(q, s, n, mk)'
      BY <1>2, <3>2, Zenon DEF Behind
    <3> QED BY <3>1, <3>3, Zenon
  <2>7. OpenersOpened(q, s)'
    <3>1. s.their \in Known(q) /\ \A k \in s.skipped : k.key \in Known(q)
      BY <2>3, Zenon DEF SessionOK, ChainsOK, SkippedOK
    <3>2. SUFFICES ASSUME NEW j \in DOMAIN sent'[p], sent'[p][j].prekey # None,
                          \/ sent'[p][j].header.key = s.their
                          \/ \E k \in s.skipped : k.key = sent'[p][j].header.key
                   PROVE  <<p, j>> \in Range(opened[q])
      BY <1>1, Zenon DEF OpenersOpened
    <3>3. sent'[p][j] # f
      BY <3>1, <3>2, Zenon
    <3>4. j \in DOMAIN sent[p] /\ sent'[p][j] = sent[p][j]
      BY <1>4, <3>3, Zenon
    <3> QED BY <1>1, <2>3, <3>2, <3>4, Zenon DEF OpenersOpened
  <2>8. SessionOK(q, s, n)'
    BY <2>5, <2>6, Zenon DEF SessionOK
  <2>9. HeldOK(q, x)'
    BY <2>1, <2>2, <2>3, <2>7, <2>8, Zenon DEF HeldOK
  <2> QED BY <1>3, <1>8, <1>9, <2>9, Zenon
<1> QED BY <1>10, <1>11

\* A message of session s, and the session after it.
Sealed(p, s, f, t) ==
  /\ f.header.key = s.our /\ f.header.previous = s.previousSend /\ f.header.n = s.send
  /\ f.box.mk.root = s.sending.root /\ f.box.mk.n = s.send
  /\ IsSession(t) /\ t.root = s.root /\ t.our = s.our /\ t.their = s.their
  /\ IsChain(t.sending) /\ t.sending.root = s.sending.root /\ t.sending.at = s.send + 1
  /\ t.receiving = s.receiving /\ t.send = s.send + 1 /\ t.recv = s.recv
  /\ t.previousSend = s.previousSend /\ t.skipped = s.skipped

LEMMA SealedResult ==
  ASSUME NEW p, NEW s, NEW n, SessionOK(p, s, n), NEW aad, NEW e, e = Encrypt(s, aad), e.ok,
         NEW f, f.header = e.header, f.box = e.box
  PROVE  Sealed(p, s, f, e.session)
<1>1. IsSession(s) /\ IsChain(s.sending) /\ s.sending.at = s.send /\ s.send \in Nat
  BY Zenon DEF SessionOK, ChainsOK
<1>2. PICK t : t = e.session
  BY Zenon
<1>3. PICK c : c = [root |-> s.sending.root, at |-> s.send + 1]
  BY Zenon
<1>4. /\ t = [root |-> s.root, our |-> s.our, their |-> s.their, sending |-> c,
              receiving |-> s.receiving, send |-> s.send + 1, recv |-> s.recv,
              previousSend |-> s.previousSend, skipped |-> s.skipped]
      /\ f.header = [key |-> s.our, previous |-> s.previousSend, n |-> s.send]
      /\ f.box.mk = [root |-> s.sending.root, n |-> s.send]
  <2>1. Encrypted(s, e)
    BY <1>1, EncryptResult, Zenon
  <2> QED BY <1>1, <1>2, <1>3, <2>1, Zenon DEF Encrypted
<1>5. /\ f.header.key = s.our /\ f.header.previous = s.previousSend /\ f.header.n = s.send
      /\ f.box.mk.root = s.sending.root /\ f.box.mk.n = s.send
  BY <1>4
<1>6. IsChain(c) /\ c.root = s.sending.root /\ c.at = s.send + 1
  BY <1>1, <1>3 DEF IsChain
<1>7. /\ t.root = s.root /\ t.our = s.our /\ t.their = s.their /\ t.sending = c
      /\ t.receiving = s.receiving /\ t.send = s.send + 1 /\ t.recv = s.recv
      /\ t.previousSend = s.previousSend /\ t.skipped = s.skipped
  BY <1>4
<1>8. IsSession(t)
  BY <1>4, <1>7, Zenon DEF IsSession
<1> QED BY <1>2, <1>5, <1>6, <1>7, <1>8, Zenon DEF Sealed

\* The sender's own side: the number and key of the message were not used, and are
\* behind the session from then on.
LEMMA SendOwn ==
  ASSUME FInv, NEW p \in Parties, NEW n \in Nat, n = made[p], NEW s, SessionOK(p, s, n), Aligned(s),
         OpenersOpened(p, s), NEW f, f.prekey # None => Unsent(p, s), NEW t, Sealed(p, s, f, t),
         SentBy(p, f), UNCHANGED <<made, opened, accepted>>
  PROVE  /\ SentOK(p)' /\ OpenedOK(p)' /\ SessionOK(p, t, n)' /\ Aligned(t) /\ OpenersOpened(p, t)'
         /\ f.prekey # None => f.header.key \notin Known(Other(p))
<1>1. Other(p) \in Parties /\ Other(p) # p /\ Other(Other(p)) = p /\ Base /\ SentOK(p) /\ OpenedOK(p)
  BY OtherParty, Zenon DEF FInv, Base
<1>2. sent'[Other(p)] = sent[Other(p)]
  BY <1>1, Zenon DEF SentBy
<1>3. Known(p)' = Known(p)
  BY MoreKnown, Zenon
<1>4. /\ s.our \in Ours(p, n) /\ s.their \in Known(p) /\ s.send \in Nat /\ s.previousSend \in Nat
      /\ Top(f.box.mk.root) = DH(s.our, s.their) /\ f.box.mk.n = f.header.n
      /\ f.header.key = s.our /\ f.header.n = s.send /\ f.header.previous = s.previousSend
  BY Zenon DEF SessionOK, ChainsOK, Sealed
<1>5. \A i \in DOMAIN sent[p] : sent[p][i].header.key = s.our =>
        sent[p][i].header.n # s.send /\ Top(sent[p][i].box.mk.root) = Top(f.box.mk.root)
  <2>1. SUFFICES ASSUME NEW i \in DOMAIN sent[p], sent[p][i].header.key = s.our
                 PROVE  sent[p][i].header.n # s.send /\ Top(sent[p][i].box.mk.root) = Top(f.box.mk.root)
    BY Zenon
  <2>2. sent[p][i].header.n < s.send /\ Top(sent[p][i].box.mk.root) = DH(s.our, s.their)
    BY <2>1, Zenon DEF SessionOK, SendingOK
  <2>3. sent[p][i].header.n \in Nat
    BY <1>1, SentKeys, Zenon
  <2>4. sent[p][i].header.n # s.send
    BY <1>4, <2>2, <2>3
  <2> QED BY <1>4, <2>2, <2>4, Zenon
<1>6. /\ \A i \in DOMAIN sent[p] : i \in DOMAIN sent'[p] /\ sent'[p][i] = sent[p][i]
      /\ \A i \in DOMAIN sent'[p] : i \in DOMAIN sent[p] \/ (i = Len(sent[p]) + 1 /\ sent'[p][i] = f)
  BY Zenon DEF SentBy
<1>7. EnvelopeOK(p, f)'
  <2>1. f.prekey # None => s.their = SignedPrekey(Other(p)) /\ s.send = 0
    BY Zenon DEF Unsent
  <2> QED BY <1>3, <1>4, <2>1, Zenon DEF EnvelopeOK
<1>8. SentOK(p)'
  <2>1. ASSUME NEW i \in DOMAIN sent'[p] PROVE EnvelopeOK(p, sent[p][i])'
    <3>1. PICK e : e = sent'[p][i]
      BY Zenon
    <3>2. CASE i \in DOMAIN sent[p]
      <4>1. EnvelopeOK(p, e)
        BY <1>1, <1>6, <3>1, <3>2, Zenon DEF SentOK
      <4>2. EnvelopeOK(p, e)'
        BY <1>3, <4>1, Zenon DEF EnvelopeOK
      <4> QED BY <3>1, <4>2, Zenon
    <3>3. CASE sent'[p][i] = f
      BY <1>7, <3>3, Zenon
    <3> QED BY <1>6, <3>2, <3>3, Zenon
  <2>2. ASSUME NEW i \in DOMAIN sent'[p], NEW j \in DOMAIN sent'[p],
               sent'[p][i].header.key = sent'[p][j].header.key
        PROVE  /\ Top(sent'[p][i].box.mk.root) = Top(sent'[p][j].box.mk.root)
               /\ sent'[p][i].header.n = sent'[p][j].header.n => i = j
    <3>1. CASE i \in DOMAIN sent[p] /\ j \in DOMAIN sent[p]
      <4>1. sent'[p][i] = sent[p][i] /\ sent'[p][j] = sent[p][j]
        BY <1>6, <3>1, Zenon
      <4> QED BY <1>1, <2>2, <3>1, <4>1, Zenon DEF SentOK, OneChain
    <3>2. CASE i \in DOMAIN sent[p] /\ j = Len(sent[p]) + 1 /\ sent'[p][j] = f
      BY <1>4, <1>5, <1>6, <2>2, <3>2, Zenon
    <3>3. CASE i = Len(sent[p]) + 1 /\ sent'[p][i] = f /\ j \in DOMAIN sent[p]
      BY <1>4, <1>5, <1>6, <2>2, <3>3, Zenon
    <3>4. CASE i = Len(sent[p]) + 1 /\ sent'[p][i] = f /\ j = Len(sent[p]) + 1 /\ sent'[p][j] = f
      BY <3>4, Zenon
    <3> QED BY <1>6, <3>1, <3>2, <3>3, <3>4, Zenon
  <2>3. IsSeq(sent'[p])
    BY Zenon DEF SentBy
  <2> QED BY <2>1, <2>2, <2>3, Zenon DEF SentOK, OneChain
<1>9. \A m \in Range(opened[p]) : Envelope(m)' = Envelope(m)
  BY OpenedStays, Zenon
<1>10. OpenedOK(p)'
  <2>1. IsSeq(opened'[p]) /\ Range(opened'[p]) \subseteq ({Other(p)} \X DOMAIN sent'[Other(p)]) \cap accepted'
    BY <1>1, <1>2, Zenon DEF OpenedOK
  <2>2. ASSUME NEW m \in Range(opened'[p])
        PROVE  \E k \in Past(p, made'[p]), h \in Known(p)' : Top(Envelope(m)'.box.mk.root) = DH(k, h)
    BY <1>1, <1>3, <1>9, Zenon DEF OpenedOK
  <2>3. ASSUME NEW j \in DOMAIN sent'[Other(p)], NEW m \in Range(opened'[p]),
               sent'[Other(p)][j].prekey # None,
               Envelope(m)'.header.key = sent'[Other(p)][j].header.key
        PROVE  <<Other(p), j>> \in Range(opened'[p])
    BY <1>1, <1>2, <1>9, <2>3, Zenon DEF OpenedOK
  <2> QED BY <2>1, <2>2, <2>3, Zenon DEF OpenedOK
<1>11. ASSUME NEW root, NEW h \in Known(p), Retired(p, n, s.our, root, h)
       PROVE  Retired(p, n, s.our, root, h)'
  <2>1. PICK k \in Past(p, n) \ {s.our} : Top(root) = DH(k, h)
    BY <1>11, Zenon DEF Retired
  <2>2. k \in Mine(p) /\ s.our \in Mine(p)
    BY <1>4, KeySets, OursAre, Zenon
  <2>3. DH(k, h) # DH(s.our, s.their)
    BY <1>1, <1>4, <2>1, <2>2, DHDiffers
  <2>4. ASSUME NEW i \in DOMAIN sent'[p] PROVE Top(sent'[p][i].box.mk.root) # Top(root)
    BY <1>4, <1>6, <1>11, <2>1, <2>3, Zenon DEF Retired
  <2> QED BY <2>1, <2>4, Zenon DEF Retired
<1>12. ChainsOK(p, t, n)'
  <2>1. s.send + 1 \in Nat
    BY <1>4
  <2> QED BY <1>3, <1>4, <1>11, <2>1, Zenon DEF SessionOK, ChainsOK, Sealed
<1>13. SkippedOK(p, t, n)'
  BY <1>3, <1>11, Zenon DEF SessionOK, SkippedOK, Sealed
<1>14. SendingOK(p, t)'
  <2>1. SUFFICES ASSUME NEW i \in DOMAIN sent'[p], sent'[p][i].header.key = s.our
                 PROVE  /\ sent'[p][i].header.n < s.send + 1
                        /\ Top(sent'[p][i].box.mk.root) = DH(s.our, s.their)
    BY Zenon DEF SendingOK, Sealed
  <2>2. CASE i \in DOMAIN sent[p]
    <3>1. PICK k : k = sent[p][i].header.n
      BY Zenon
    <3>2. k < s.send /\ Top(sent[p][i].box.mk.root) = DH(s.our, s.their)
      BY <1>6, <2>1, <2>2, <3>1, Zenon DEF SessionOK, SendingOK
    <3>3. k \in Nat
      BY <1>1, <2>2, <3>1, SentKeys, Zenon
    <3>4. k < s.send + 1
      BY <1>4, <3>2, <3>3
    <3> QED BY <1>6, <2>2, <3>1, <3>2, <3>4, Zenon
  <2>3. CASE sent'[p][i] = f
    <3>1. s.send < s.send + 1
      BY <1>4
    <3> QED BY <1>4, <2>3, <3>1, Zenon
  <2> QED BY <1>6, <2>2, <2>3, Zenon
<1>15. ASSUME NEW m \in Range(opened'[p]) PROVE Behind(p, t, n, Envelope(m).box.mk)'
  <2>1. PICK mk : mk = Envelope(m).box.mk /\ mk = Envelope(m)'.box.mk
    BY <1>9, Zenon
  <2>2. Behind(p, s, n, mk)
    BY <2>1, Zenon DEF SessionOK
  <2>3. Behind(p, t, n, mk)'
    BY <1>3, <2>2, Zenon DEF Behind, Sealed
  <2> QED BY <2>1, <2>3, Zenon
<1>16. SessionOK(p, t, n)'
  BY <1>12, <1>13, <1>14, <1>15, Zenon DEF SessionOK
<1>17. Aligned(t) /\ OpenersOpened(p, t)'
  BY <1>2, Zenon DEF Aligned, OpenersOpened, Sealed
<1>18. ASSUME f.prekey # None PROVE f.header.key \notin Known(Other(p))
  <2>1. s.send = 0
    BY <1>18, Zenon DEF Unsent
  <2>2. s.our # SignedPrekey(p)
    BY <1>4, OursAre, Zenon
  <2>3. ASSUME NEW i \in DOMAIN sent[p], sent[p][i].header.key = s.our PROVE FALSE
    <3>1. sent[p][i].header.n < 0
      BY <2>1, <2>3, Zenon DEF SessionOK, SendingOK
    <3>2. sent[p][i].header.n \in Nat
      BY <1>1, SentKeys, Zenon
    <3> QED BY <3>1, <3>2
  <2> QED BY <1>1, <1>4, <2>2, <2>3, Zenon DEF Known, Used
<1> QED BY <1>8, <1>10, <1>16, <1>17, <1>18, Zenon

LEMMA Sends ==
  ASSUME FInv, NEW p \in Parties, NEW kind, AdvanceEncryption(p, kind)
  PROVE  FInv'
<1>1. PICK x : x = sess[p] /\ x # None
  BY Zenon DEF AdvanceEncryption
<1>2. PICK e : e = Encrypt(x.ratchet, Aad(x.prekey)) /\ e.ok
  BY <1>1, Zenon DEF AdvanceEncryption
<1>3. PICK f : /\ f = [kind |-> kind, prekey |-> x.prekey, header |-> e.header, box |-> e.box]
               /\ sent' = [sent EXCEPT ![p] = Append(@, f)]
  BY <1>1, <1>2, Zenon DEF AdvanceEncryption
<1>4. PICK y : y = [ratchet |-> e.session, prekey |-> None] /\ sess' = [sess EXCEPT ![p] = y]
  BY <1>1, <1>2, Zenon DEF AdvanceEncryption
<1>5. /\ outbox' = [outbox EXCEPT ![p] = Append(@, <<p, Len(sent[p]) + 1>>)]
      /\ UNCHANGED <<made, accepted, queue, opened>>
  BY Zenon DEF AdvanceEncryption
<1>6. f.prekey = x.prekey /\ f.header = e.header /\ f.box = e.box
  BY <1>3
<1>7. y.ratchet = e.session /\ y.prekey = None
  BY <1>4
<1>8. PICK s : s = x.ratchet
  BY Zenon
<1>9. PICK n \in Nat : n = made[p]
  BY Context, Zenon DEF FInv
<1>10. /\ SessionOK(p, s, n) /\ Aligned(s) /\ OpenersOpened(p, s)
       /\ f.prekey # None => Unsent(p, s)
  BY <1>1, <1>6, <1>8, <1>9, Zenon DEF FInv, HeldOK
<1>11. SentBy(p, f)
  <2>1. DOMAIN sent = Parties /\ IsSeq(sent[p])
    BY Zenon DEF FInv, Base, SentOK
  <2> QED BY <1>3, <2>1, SentByResult, Zenon
<1>12. PICK t : t = e.session
  BY Zenon
<1>13. Sealed(p, s, f, t)
  BY <1>2, <1>6, <1>8, <1>10, <1>12, SealedResult, Zenon
<1>14. made' = made /\ opened' = opened /\ accepted' = accepted
  BY <1>5
<1>15. /\ SentOK(p)' /\ OpenedOK(p)' /\ SessionOK(p, t, n)' /\ Aligned(t) /\ OpenersOpened(p, t)'
       /\ f.prekey # None => f.header.key \notin Known(Other(p))
  BY <1>9, <1>10, <1>11, <1>13, <1>14, SendOwn, Zenon
<1>16. /\ DOMAIN sess' = Parties /\ sess'[p] = y
       /\ \A q \in Parties : q # p => sess'[q] = sess[q]
  <2>1. DOMAIN sess = Parties
    BY Zenon DEF FInv, Base
  <2> QED BY <1>4, <2>1, Zenon
<1>17. /\ DOMAIN outbox' = Parties /\ outbox'[p] = Append(outbox[p], <<p, Len(sent[p]) + 1>>)
       /\ \A q \in Parties : q # p => outbox'[q] = outbox[q]
  <2>1. DOMAIN outbox = Parties
    BY Zenon DEF FInv, Base
  <2> QED BY <1>5, <2>1, Zenon
<1>18. ASSUME NEW q \in Parties, q # p PROVE SentOK(q)' /\ OpenedOK(q)' /\ HeldOK(q, sess[q])'
  <2>1. q = Other(p)
    BY <1>18, OtherParty, Zenon
  <2> QED BY <1>11, <1>14, <1>15, <1>16, <1>18, <2>1, SendOther, Zenon
<1>19. HeldOK(p, sess[p])'
  <2>1. HeldOK(p, y)'
    BY <1>7, <1>9, <1>12, <1>14, <1>15, Zenon DEF HeldOK
  <2> QED BY <1>16, <2>1, Zenon
<1>20. ASSUME NEW q \in Parties PROVE TransitOK(q)'
  <2>1. \A r \in Parties : \A i \in DOMAIN sent[r] : i \in DOMAIN sent'[r]
    BY <1>11, Zenon DEF SentBy
  <2>2. TransitOK(q) /\ Other(q) \in Parties
    BY OtherParty, Zenon DEF FInv
  <2>3. queue'[q] \subseteq (({Other(q)} \X DOMAIN sent'[Other(q)]) \cap accepted') \ Range(opened'[q])
    BY <1>5, <2>1, <2>2, Zenon DEF TransitOK
  <2>4. CASE q # p
    <3>1. outbox'[q] = outbox[q]
      BY <1>17, <2>4, Zenon
    <3>2. IsSeq(outbox'[q]) /\ Range(outbox'[q]) \subseteq {q} \X DOMAIN sent'[q]
      <4>1. PICK o : o = Range(outbox[q]) /\ o \subseteq {q} \X DOMAIN sent[q] /\ IsSeq(outbox[q])
        BY <2>2, Zenon DEF TransitOK
      <4>2. DOMAIN sent[q] \subseteq DOMAIN sent'[q]
        BY <2>1, Zenon
      <4>3. o \subseteq {q} \X DOMAIN sent'[q]
        BY <4>1, <4>2
      <4> QED BY <3>1, <4>1, <4>3, Zenon
    <3> QED BY <2>3, <3>2, Zenon DEF TransitOK
  <2>5. CASE q = p
    <3>1. PICK m : m = <<p, Len(sent[p]) + 1>>
      BY Zenon
    <3>2. PICK o : o = outbox[p] /\ IsSeq(o) /\ Range(o) \subseteq {p} \X DOMAIN sent[p]
      BY <2>2, <2>5, Zenon DEF TransitOK
    <3>3. IsSeq(Append(o, m)) /\ Range(Append(o, m)) = Range(o) \cup {m}
      BY <3>2, SeqAppend, Zenon
    <3>4. m \in {p} \X DOMAIN sent'[p]
      BY <1>11, <3>1, Zenon DEF SentBy
    <3>5. Range(Append(o, m)) \subseteq {p} \X DOMAIN sent'[p]
      BY <2>1, <3>2, <3>3, <3>4, Zenon
    <3> QED BY <1>17, <2>3, <2>5, <3>1, <3>2, <3>3, <3>5, Zenon DEF TransitOK
  <2> QED BY <2>4, <2>5
<1>21. Base'
  <2>1. DOMAIN opened' = Parties /\ DOMAIN queue' = Parties /\ made' \in [Parties -> Nat]
    BY <1>5, Zenon DEF FInv, Base
  <2>2. ASSUME NEW q \in Parties PROVE SentOK(q)'
    BY <1>15, <1>18, Zenon
  <2> QED BY <1>11, <1>16, <1>17, <2>1, <2>2, Zenon DEF Base, SentBy
<1> QED BY <1>15, <1>18, <1>19, <1>20, <1>21, Zenon DEF FInv

-----------------------------------------------------------------------------
(* The theorems *)

\* The invariant holds at first.
LEMMA InitFInv ==
  ASSUME Init
  PROVE  FInv
<1>1. IsSeq(<<>>) /\ Range(<<>>) = {} /\ DOMAIN <<>> = {}
  BY DEF IsSeq, Range
<1>2. ASSUME NEW p \in Parties
      PROVE  /\ sess[p] = None /\ made[p] = 0 /\ sent[p] = <<>> /\ opened[p] = <<>>
             /\ outbox[p] = <<>> /\ queue[p] = {}
  BY Zenon DEF Init
<1>3. /\ DOMAIN sess = Parties /\ DOMAIN sent = Parties /\ DOMAIN opened = Parties
      /\ DOMAIN outbox = Parties /\ DOMAIN queue = Parties
  BY Zenon DEF Init
<1>4. made \in [Parties -> Nat]
  BY DEF Init
<1>5. ASSUME NEW p \in Parties
      PROVE  SentOK(p) /\ OpenedOK(p) /\ TransitOK(p) /\ HeldOK(p, sess[p])
  <2>1. SentOK(p) /\ HeldOK(p, sess[p])
    BY <1>1, <1>2, Zenon DEF SentOK, OneChain, HeldOK
  <2>2. OpenedOK(p) /\ TransitOK(p)
    BY <1>1, <1>2, Zenon DEF OpenedOK, TransitOK
  <2> QED BY <2>1, <2>2
<1> QED BY <1>3, <1>4, <1>5, Zenon DEF FInv, Base

\* Every step keeps it.
LEMMA NextFInv ==
  ASSUME FInv, [Next]_vars
  PROVE  FInv'
<1>1. CASE UNCHANGED vars
  <2>1. UNCHANGED <<made, sent, opened, accepted, sess, outbox, queue>>
    BY <1>1 DEF vars
  <2>2. QuietStep
    BY <2>1, Zenon DEF QuietStep, FInv, Base, TransitOK
  <2> QED BY <2>2, QuietKeeps, Zenon
<1>2. ASSUME NEW p \in Parties, SendMessage(p) \/ SendReceipt(p) PROVE FInv'
  BY <1>2, Sends, Zenon DEF SendMessage, SendReceipt
<1>3. ASSUME NEW p \in Parties, HandleBundle(p) PROVE FInv'
  BY <1>3, BundleKeeps, QuietSteps, Zenon
<1>4. CASE Next
  BY <1>2, <1>3, <1>4, QuietSteps, Receives, Zenon DEF Next
<1> QED BY <1>1, <1>4

\* The invariant that makes the two properties inductive: a chain is told by the
\* ratchet keys of both clients it was made with, and a ratchet key is used for
\* one sending chain only.
THEOREM FInvHolds == Spec => []FInv
<1>1. Init => FInv
  BY InitFInv
<1>2. FInv /\ [Next]_vars => FInv'
  BY NextFInv
<1> QED BY <1>1, <1>2, PTL DEF Spec

LEMMA UsedOnce ==
  ASSUME FInv
  PROVE  KeyUsedOnce
<1>1. SUFFICES ASSUME NEW p \in Parties, NEW i \in DOMAIN sent[p], NEW j \in DOMAIN sent[p],
                      sent[p][i].box.mk = sent[p][j].box.mk
               PROVE  i = j
  BY Zenon DEF KeyUsedOnce
<1>2. Base /\ SentOK(p)
  BY Zenon DEF FInv, Base
<1>3. PICK e : e = sent[p][i]
  BY Zenon
<1>4. PICK f : f = sent[p][j]
  BY Zenon
<1>5. PICK k \in Known(p) : e.header.key \in Mine(p) /\ Top(e.box.mk.root) = DH(e.header.key, k)
  BY <1>2, <1>3, SentKeys, Zenon
<1>6. PICK h \in Known(p) : f.header.key \in Mine(p) /\ Top(f.box.mk.root) = DH(f.header.key, h)
  BY <1>2, <1>4, SentKeys, Zenon
<1>7. e.header.n = f.header.n
  BY <1>1, <1>2, <1>3, <1>4, SentKeys, Zenon
<1>8. DH(e.header.key, k) = DH(f.header.key, h)
  BY <1>1, <1>3, <1>4, <1>5, <1>6, Zenon
<1>9. e.header.key = f.header.key
  BY <1>2, <1>5, <1>6, <1>8, DHDiffers
<1> QED BY <1>2, <1>3, <1>4, <1>7, <1>9, Zenon DEF SentOK, OneChain

\* No message key is used for two messages or receipts of a client, for any
\* number of sessions dropped, replaced and opened, any losses and any order of
\* arrival (encrypt, advance_encryption).
THEOREM KeysUsedOnce == Spec => []KeyUsedOnce
<1>1. FInv => KeyUsedOnce
  BY UsedOnce
<1> QED BY <1>1, FInvHolds, PTL

LEMMA Forgotten ==
  ASSUME FInv
  PROVE  KeysForgotten
<1>1. SUFFICES ASSUME NEW p \in Parties, sess[p] # None,
                      NEW m \in ({p} \X DOMAIN sent[p]) \cup Range(opened[p]),
                      Derivable(sess[p].ratchet, Envelope(m).box.mk)
               PROVE  FALSE
  BY Zenon DEF KeysForgotten
<1>2. PICK s : s = sess[p].ratchet
  BY Zenon
<1>3. PICK mk : mk = Envelope(m).box.mk
  BY Zenon
<1>4. Base /\ SessionOK(p, s, made[p]) /\ OpenedOK(p) /\ made[p] \in Nat
  BY <1>1, <1>2, Zenon DEF FInv, HeldOK, Base
<1>5. /\ s.our \in Mine(p) /\ s.their \in Known(p) /\ s.send \in Nat
      /\ s.sending.at = s.send /\ Top(s.sending.root) = DH(s.our, s.their)
  BY <1>4, OursAre, Zenon DEF SessionOK, ChainsOK
<1>6. \/ \E k \in s.skipped : k.mk = mk
      \/ s.sending.root = mk.root /\ s.sending.at <= mk.n
      \/ s.receiving # None /\ s.receiving.root = mk.root /\ s.receiving.at <= mk.n
  BY <1>1, <1>2, <1>3, Zenon DEF Derivable
<1>7. CASE m \in {p} \X DOMAIN sent[p]
  <2>1. PICK i \in DOMAIN sent[p] : m = <<p, i>>
    BY <1>7
  <2>2. Envelope(m) = sent[p][i]
    BY <2>1 DEF Envelope
  <2>3. PICK e : e = sent[p][i]
    BY Zenon
  <2>4. PICK h \in Known(p) : /\ e.header.key \in Mine(p) /\ mk.n = e.header.n /\ e.header.n \in Nat
                               /\ Top(mk.root) = DH(e.header.key, h)
    BY <1>3, <1>4, <2>2, <2>3, SentKeys, Zenon
  <2>5. ~\E k \in s.skipped : k.mk = mk
    BY <1>3, <1>4, <2>2, Zenon DEF SessionOK, SkippedOK, Retired
  <2>6. ~(s.receiving # None /\ s.receiving.root = mk.root)
    BY <1>3, <1>4, <2>2, Zenon DEF SessionOK, ChainsOK, Retired
  <2>7. s.sending.root = mk.root /\ s.sending.at <= mk.n
    BY <1>6, <2>5, <2>6, Zenon
  <2>8. DH(s.our, s.their) = DH(e.header.key, h)
    BY <1>5, <2>4, <2>7, Zenon
  <2>9. s.our = e.header.key
    BY <1>4, <1>5, <2>4, <2>8, DHDiffers
  <2>10. e.header.n < s.send
    BY <1>4, <2>3, <2>9, Zenon DEF SessionOK, SendingOK
  <2> QED BY <1>5, <2>4, <2>7, <2>10
<1>8. CASE m \in Range(opened[p])
  <2>1. Behind(p, s, made[p], mk)
    BY <1>3, <1>4, <1>8, Zenon DEF SessionOK
  <2>2. PICK k \in Past(p, made[p]) \ {s.our}, h \in Known(p) : Top(mk.root) = DH(k, h)
    BY <2>1, Zenon DEF Behind
  <2>3. k \in Mine(p)
    BY <1>4, KeySets, Zenon
  <2>4. DH(s.our, s.their) # DH(k, h)
    BY <1>4, <1>5, <2>2, <2>3, DHDiffers
  <2>5. s.receiving # None /\ s.receiving.root = mk.root /\ s.receiving.at <= mk.n
    BY <1>5, <1>6, <2>1, <2>2, <2>4, Zenon DEF Behind
  <2>6. mk.n < s.receiving.at /\ mk.n \in Nat /\ s.receiving.at \in Nat
    BY <1>4, <2>1, <2>5, Zenon DEF Behind, SessionOK, ChainsOK, IsChain
  <2> QED BY <2>5, <2>6
<1> QED BY <1>7, <1>8

\* The key of a message that was sent or opened cannot be computed from the session
\* any more: a copy of it does not open, and a session read later does not give
\* it away (encrypt, decrypt, skip_message_keys).
THEOREM HandledKeysForgotten == Spec => []KeysForgotten
<1>1. FInv => KeysForgotten
  BY Forgotten
<1> QED BY <1>1, FInvHolds, PTL

=============================================================================
