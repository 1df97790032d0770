------------------------------- MODULE Ratchet -------------------------------
(***************************************************************************)
(* The Double Ratchet of crates/crypto as operators on a session, with     *)
(* symbolic cryptography.  A key pair is a value of its own, known by its  *)
(* public key; the Diffie-Hellman output of two key pairs is the set of    *)
(* the two; the root key is the sequence of everything that was mixed into *)
(* it, beginning with the X3DH secret; a chain key is the root key it was  *)
(* derived with and the number of steps made since; the message key of a   *)
(* step is that root key and the number of the step.  A ciphertext opens   *)
(* with its own key and associated data and with no other.                 *)
(***************************************************************************)
EXTENDS Integers, Sequences, FiniteSets

CONSTANTS
  None,      \* an absent key
  MaxSkip,   \* MAX_SKIP
  MaxCount   \* the largest counter (u32::MAX)

ASSUME RatchetAssumption == MaxSkip \in Nat /\ MaxCount \in Nat

Chain(root) == [root |-> root, at |-> 0]
MessageKey(chain, n) == [root |-> chain.root, n |-> chain.at + n]
Advance(chain, n) == [chain EXCEPT !.at = @ + n]
DH(k, l) == {k, l}

\* The header of the next message a session sends.
Header(s) == [key |-> s.our, previous |-> s.previousSend, n |-> s.send]

\* A ciphertext: the key it was made with and everything authenticated with it,
\* the envelope's data and the ratchet header.
Seal(mk, aad, header) == [mk |-> mk, aad |-> <<aad, header>>]

\* The error of encrypt and decrypt; the session stays as it was.
Failed == [ok |-> FALSE]

-----------------------------------------------------------------------------
\* derive_x3dh_secret, from the keys of both sides.
X3dhSecret(identities, ephemeral, spk, opk) ==
  <<DH(identities[1], spk), DH(ephemeral, identities[2]), DH(ephemeral, spk),
    IF opk = None THEN None ELSE DH(ephemeral, opk)>>

InitializeAlice(secret, bobKey, fresh) ==
  LET root == <<secret, DH(fresh, bobKey)>>
  IN [root |-> root, our |-> fresh, their |-> bobKey,
      sending |-> Chain(root), receiving |-> None,
      send |-> 0, recv |-> 0, previousSend |-> 0, skipped |-> {}]

InitializeBob(secret, spk) ==
  [root |-> <<secret>>, our |-> spk, their |-> None,
   sending |-> None, receiving |-> None,
   send |-> 0, recv |-> 0, previousSend |-> 0, skipped |-> {}]

-----------------------------------------------------------------------------
\* Mutant of Encrypt: the sending chain is not advanced.
EncryptSameChain(s, aad) ==
  IF s.send = MaxCount \/ s.sending = None THEN Failed
  ELSE
    [ok |-> TRUE,
     session |-> [s EXCEPT !.send = @ + 1],
     header |-> Header(s),
     box |-> Seal(MessageKey(s.sending, 0), aad, Header(s))]

Encrypt(s, aad) ==
  IF s.send = MaxCount \/ s.sending = None THEN Failed
  ELSE
    [ok |-> TRUE,
     session |-> [s EXCEPT !.sending = Advance(@, 1), !.send = @ + 1],
     header |-> Header(s),
     box |-> Seal(MessageKey(s.sending, 0), aad, Header(s))]

-----------------------------------------------------------------------------
\* Mutant of WithinLimit: one key too many.
WithinLimitPlusOne(s, n) == n + Cardinality(s.skipped) <= MaxSkip + 1

\* skip_message_keys may store n more keys.
WithinLimit(s, n) == n + Cardinality(s.skipped) <= MaxSkip

\* Mutant of SkipMessageKeys: the stored keys start one late.
SkipMessageKeysLate(s, current, until) ==
  IF until <= current THEN [ok |-> TRUE, session |-> s]
  ELSE IF ~WithinLimit(s, until - current) THEN Failed
  ELSE IF s.their = None \/ s.receiving = None THEN [ok |-> TRUE, session |-> s]
  ELSE [ok |-> TRUE,
        session |->
          [s EXCEPT !.skipped = @ \cup {[key |-> s.their, n |-> i,
                                         mk |-> MessageKey(s.receiving, i - current)] :
                                          i \in (current + 1)..(until - 1)},
                    !.receiving = Advance(@, until - current)]]

\* skip_message_keys: the keys of messages current..until-1 of the receiving
\* chain are stored for later.
SkipMessageKeys(s, current, until) ==
  IF until <= current THEN [ok |-> TRUE, session |-> s]
  ELSE IF ~WithinLimit(s, until - current) THEN Failed
  ELSE IF s.their = None \/ s.receiving = None THEN [ok |-> TRUE, session |-> s]
  ELSE [ok |-> TRUE,
        session |->
          [s EXCEPT !.skipped = @ \cup {[key |-> s.their, n |-> i,
                                         mk |-> MessageKey(s.receiving, i - current)] :
                                          i \in current..(until - 1)},
                    !.receiving = Advance(@, until - current)]]

\* The Diffie-Hellman step of try_decrypt_inner: a new receiving chain with the
\* other side's new key, then a new sending chain with a fresh key of ours.
DHStep(s, key, fresh) ==
  LET received == Append(s.root, DH(s.our, key))
      sent == Append(received, DH(fresh, key))
  IN [s EXCEPT !.root = sent, !.their = key,
               !.receiving = Chain(received), !.recv = 0,
               !.previousSend = s.send, !.send = 0,
               !.our = fresh, !.sending = Chain(sent)]

\* try_decrypt_inner after the step for the header's key: skip to the message,
\* open it, and only then move the chain past it.
OpenInChain(s, header, box, aad) ==
  LET skip == SkipMessageKeys(s, s.recv, header.n) IN
  IF ~skip.ok THEN Failed
  ELSE IF skip.session.receiving = None THEN Failed
  ELSE IF box # Seal(MessageKey(skip.session.receiving, 0), aad, header) THEN Failed
  ELSE IF header.n = MaxCount THEN Failed
  ELSE [ok |-> TRUE,
        session |-> [skip.session EXCEPT !.receiving = Advance(@, 1),
                                         !.recv = header.n + 1]]

\* try_decrypt_inner.
TryDecrypt(s, header, box, aad, fresh) ==
  IF s.their = header.key THEN OpenInChain(s, header, box, aad)
  ELSE LET skip == IF s.receiving = None THEN [ok |-> TRUE, session |-> s]
                   ELSE SkipMessageKeys(s, s.recv, header.previous)
       IN IF ~skip.ok THEN Failed
          ELSE OpenInChain(DHStep(skip.session, header.key, fresh), header, box, aad)

\* Mutant of Decrypt: a stored key is kept after its use.
DecryptKeepKey(s, header, box, aad, fresh) ==
  LET stored == {k \in s.skipped : k.key = header.key /\ k.n = header.n} IN
  IF stored = {} THEN TryDecrypt(s, header, box, aad, fresh)
  ELSE IF \E k \in stored : box = Seal(k.mk, aad, header)
       THEN [ok |-> TRUE, session |-> s]
  ELSE Failed

\* decrypt: with a stored key, which is used up, or by advancing the session.
\* A failure leaves the session as it was, the stored key included.
Decrypt(s, header, box, aad, fresh) ==
  LET stored == {k \in s.skipped : k.key = header.key /\ k.n = header.n} IN
  IF stored = {} THEN TryDecrypt(s, header, box, aad, fresh)
  ELSE IF \E k \in stored : box = Seal(k.mk, aad, header)
       THEN [ok |-> TRUE, session |-> [s EXCEPT !.skipped = @ \ stored]]
  ELSE Failed
=============================================================================
