------------------------------ MODULE Sessions -------------------------------
(***************************************************************************)
(* The sessions of two clients with each other: opened from a prekey       *)
(* bundle or by the other side's first message, advanced by every message  *)
(* and read receipt, dropped when the relay refuses a first message.  The  *)
(* relay hands accepted messages out in any order, several times, or not   *)
(* at all.  Every change of a session is saved with the message it is for, *)
(* and undone when saving fails: a crash loses only the requests for       *)
(* bundles.  The relay's queues, limits and acknowledgements are in        *)
(* Delivery and Receipts, the lives of prekeys in Prekeys, SignedPrekeys.  *)
(***************************************************************************)
EXTENDS Ratchet, Outboxes

CONSTANTS
  Parties,      \* the two clients
  MaxSent,      \* bound: messages and receipts each client encrypts
  MaxFetches    \* bound: bundles each client asks for

ASSUME SessionsAssumption ==
  /\ \E p, q \in Parties : p # q /\ Parties = {p, q}
  /\ None \notin [of : Parties, n : Nat]
  /\ MaxSent \in [Parties -> Nat] /\ MaxFetches \in [Parties -> Nat]

VARIABLES
  sess,      \* sessions: the session with the other client, or None
  made,      \* key pairs a client has generated
  pending,   \* pending_inits: a bundle of the other client is wanted
  fetches,   \* bundles a client has asked for
  bundles,   \* bundles on their way to a client
  opk,       \* stored_opks: the client holds its one-time prekey
  listed,    \* the relay offers, or holds reserved, that one-time prekey
  outbox,    \* pending_outbound: messages and receipts
  accepted,  \* messages and receipts the relay has accepted
  queue,     \* those it may still hand out, by recipient
  opened,    \* processed_messages: those a client has opened, in order
  sent,      \* everything a client has encrypted, in order (history)
  broken     \* sessions were opened from both sides, or an opener was
             \* collected (history)

vars == <<sess, made, pending, fetches, bundles, opk, listed, outbox, accepted,
          queue, opened, sent, broken>>

Other(p) == CHOOSE q \in Parties : q # p

\* The key pairs of a client: its identity, its signed prekey, its one-time
\* prekey, and the ephemeral and ratchet keys it generates.
Pair(p, n) == [of |-> p, n |-> n]
Identity(p) == Pair(p, 0)
SignedPrekey(p) == Pair(p, 1)
OneTimePrekey(p) == Pair(p, 2)
Fresh(p, n) == Pair(p, 3 + made[p] + n)

\* A message or receipt is known by its author and number.
Envelope(m) == sent[m[1]][m[2]]

Opener(m) == Envelope(m).prekey # None

\* The authenticated data of an envelope: its kind, and the X3DH header if it
\* has one.
Aad(prekey) == IF prekey = None THEN <<"ratchet">> ELSE <<"prekey", prekey>>

-----------------------------------------------------------------------------
Init ==
  /\ sess = [p \in Parties |-> None]
  /\ made = [p \in Parties |-> 0]
  /\ pending = [p \in Parties |-> FALSE]
  /\ fetches = [p \in Parties |-> 0]
  /\ bundles = [p \in Parties |-> <<>>]
  /\ opk = [p \in Parties |-> TRUE]
  /\ listed = [p \in Parties |-> TRUE]
  /\ outbox = [p \in Parties |-> <<>>]
  /\ accepted = {}
  /\ queue = [p \in Parties |-> {}]
  /\ opened = [p \in Parties |-> <<>>]
  /\ sent = [p \in Parties |-> <<>>]
  /\ broken = FALSE

-----------------------------------------------------------------------------
(* Opening a session *)

\* The client wants a bundle and asks for it; the relay answers with the signed
\* prekey and the one-time prekey if there is one.
AskForBundle(p) ==
  /\ fetches[p] < MaxFetches[p]
  /\ fetches' = [fetches EXCEPT ![p] = @ + 1]
  /\ pending' = [pending EXCEPT ![p] = TRUE]
  /\ bundles' = [bundles EXCEPT ![p] =
       Append(@, IF listed[Other(p)] THEN OneTimePrekey(Other(p)) ELSE None)]

\* open_conversation without a session, and the requests repeated for
\* pending_peers after a reconnection.
OpenConversation(p) ==
  /\ sess[p] = None \/ pending[p]
  /\ AskForBundle(p)
  /\ UNCHANGED <<sess, made, opk, listed, outbox, accepted, queue, opened, sent, broken>>

\* PreKeyBundleResponse for a pending peer: init_session_from_bundle replaces
\* whatever session there is.
HandleBundle(p) ==
  /\ bundles[p] # <<>>
  /\ bundles' = [bundles EXCEPT ![p] = Tail(@)]
  /\ pending' = [pending EXCEPT ![p] = FALSE]
  /\ IF ~pending[p] THEN UNCHANGED <<sess, made, broken>>
     ELSE LET q == Other(p)
              key == Head(bundles[p])
              secret == X3dhSecret(<<Identity(p), Identity(q)>>, Fresh(p, 0),
                                   SignedPrekey(q), key)
          IN /\ sess' = [sess EXCEPT ![p] =
                  [ratchet |-> InitializeAlice(secret, SignedPrekey(q), Fresh(p, 1)),
                   prekey |-> [from |-> p, ephemeral |-> Fresh(p, 0), opk |-> key]]]
             /\ made' = [made EXCEPT ![p] = @ + 2]
             /\ broken' = (broken \/ sess[p] # None \/ sess[q] # None)
  /\ UNCHANGED <<fetches, opk, listed, outbox, accepted, queue, opened, sent>>

\* expire_stale_prekey_session: a session whose first message was not written in
\* time is dropped for a new bundle.
RefreshExpiredSession(p) ==
  /\ sess[p] # None /\ sess[p].prekey # None
  /\ sess' = [sess EXCEPT ![p] = None]
  /\ AskForBundle(p)
  /\ UNCHANGED <<made, opk, listed, outbox, accepted, queue, opened, sent, broken>>

-----------------------------------------------------------------------------
(* Sending *)

\* advance_encryption: the first message of a session opened from a bundle
\* carries the X3DH header.  The session and the message are saved together.
AdvanceEncryption(p, kind) ==
  /\ Len(sent[p]) < MaxSent[p]
  /\ sess[p] # None
  /\ LET e == Encrypt(sess[p].ratchet, Aad(sess[p].prekey))
     IN /\ e.ok
        /\ sess' = [sess EXCEPT ![p] = [ratchet |-> e.session, prekey |-> None]]
        /\ outbox' = [outbox EXCEPT ![p] = Append(@, <<p, Len(sent[p]) + 1>>)]
        /\ sent' = [sent EXCEPT ![p] =
             Append(@, [kind |-> kind, prekey |-> sess[p].prekey,
                        header |-> e.header, box |-> e.box])]
  /\ UNCHANGED <<made, pending, fetches, bundles, opk, listed, accepted, queue, opened,
                 broken>>

\* encrypt_message, not while the opener of a session waits for admission.
SendMessage(p) ==
  /\ \A m \in Range(outbox[p]) : ~(Envelope(m).kind = "message" /\ Opener(m))
  /\ AdvanceEncryption(p, "message")

\* encrypt_read_receipt, for a message that was opened.
SendReceipt(p) ==
  /\ \E m \in Range(opened[p]) : Envelope(m).kind = "message"
  /\ AdvanceEncryption(p, "receipt")

\* The relay accepts a message of the outbox, in the order in which it finds
\* room.  A first message claims the reservation of its one-time prekey.  The
\* confirmation changes nothing here but for an opener.
Claims(m) == /\ Envelope(m).kind = "message"
             /\ Opener(m) /\ Envelope(m).prekey.opk # None

Accept(p) ==
  \E m \in Range(outbox[p]) \ accepted :
    LET q == Other(p) IN
    /\ Claims(m) => listed[q]
    /\ accepted' = accepted \cup {m}
    /\ queue' = [queue EXCEPT ![q] = @ \cup {m}]
    /\ listed' = IF Claims(m) THEN [listed EXCEPT ![q] = FALSE] ELSE listed
    /\ outbox' = IF Opener(m) THEN outbox ELSE [outbox EXCEPT ![p] = Without(@, m)]
    /\ UNCHANGED <<sess, made, pending, fetches, bundles, opk, opened, sent, broken>>

\* MessageSent, ReadReceiptSent.
ConfirmSent(p) ==
  \E m \in Range(outbox[p]) \cap accepted :
    /\ outbox' = [outbox EXCEPT ![p] = Without(@, m)]
    /\ UNCHANGED <<sess, made, pending, fetches, bundles, opk, listed, accepted, queue,
                   opened, sent, broken>>

\* MessageRejected: the reservation has run out.  reject_message drops the
\* message and the session, and a new bundle is asked for.
RejectMessage(p) ==
  \E m \in Range(outbox[p]) \ accepted :
    /\ Claims(m) /\ ~listed[Other(p)]
    /\ outbox' = [outbox EXCEPT ![p] = Without(@, m)]
    /\ sess' = [sess EXCEPT ![p] = None]
    /\ AskForBundle(p)
    /\ UNCHANGED <<made, opk, listed, accepted, queue, opened, sent, broken>>

\* A reservation runs out, or somebody else gets the one-time prekey.
ReservationLost(p) ==
  /\ listed[p]
  /\ listed' = [listed EXCEPT ![p] = FALSE]
  /\ UNCHANGED <<sess, made, pending, fetches, bundles, opk, outbox, accepted, queue, opened,
                 sent, broken>>

-----------------------------------------------------------------------------
(* Receiving *)

\* create_bob_session: the one-time prekey the header names has to be there.
BobSession(p, x) ==
  InitializeBob(X3dhSecret(<<Identity(x.from), Identity(p)>>, x.ephemeral,
                           SignedPrekey(p), x.opk),
                SignedPrekey(p))

\* decrypt_with_marker: with the session there is, or with the session an
\* opener makes.
Opening(p, m) ==
  LET e == Envelope(m)
      With(s) == Decrypt(s, e.header, e.box, Aad(e.prekey), Fresh(p, 0))
  IN IF sess[p] # None THEN With(sess[p].ratchet)
     ELSE IF ~Opener(m) \/ (e.prekey.opk # None /\ ~opk[p]) THEN Failed
     ELSE With(BobSession(p, e.prekey))

\* A message or receipt opens: the session moves on, a one-time prekey is used
\* up by the session it opens, and the relay hears of it.  One that does not
\* open stays in the queue; a second copy is ignored.
Receive(p) ==
  \E m \in queue[p] :
    LET r == Opening(p, m) IN
    /\ r.ok
    /\ sess' = [sess EXCEPT ![p] =
         [ratchet |-> r.session, prekey |-> IF @ = None THEN None ELSE @.prekey]]
    /\ made' = [made EXCEPT ![p] = IF r.session.our = Fresh(p, 0) THEN @ + 1 ELSE @]
    /\ opk' = [opk EXCEPT ![p] =
         @ /\ ~(sess[p] = None /\ Envelope(m).prekey.opk # None)]
    /\ opened' = [opened EXCEPT ![p] = Append(@, m)]
    /\ queue' = [queue EXCEPT ![p] = @ \ {m}]
    /\ UNCHANGED <<pending, fetches, bundles, listed, outbox, accepted, sent, broken>>

\* An opener grows too old in the relay's queue.  Any other message that does is
\* like one that is never received.
Expire(p) ==
  \E m \in queue[p] :
    /\ Opener(m)
    /\ queue' = [queue EXCEPT ![p] = @ \ {m}]
    /\ broken' = TRUE
    /\ UNCHANGED <<sess, made, pending, fetches, bundles, opk, listed, outbox, accepted,
                   opened, sent>>

\* The client dies and starts again.
Restart(p) ==
  /\ pending[p]
  /\ pending' = [pending EXCEPT ![p] = FALSE]
  /\ bundles' = [bundles EXCEPT ![p] = <<>>]
  /\ UNCHANGED <<sess, made, fetches, opk, listed, outbox, accepted, queue, opened, sent,
                 broken>>

-----------------------------------------------------------------------------
Next ==
  \E p \in Parties :
    \/ OpenConversation(p) \/ HandleBundle(p) \/ RefreshExpiredSession(p)
    \/ SendMessage(p) \/ SendReceipt(p)
    \/ Accept(p) \/ ConfirmSent(p) \/ RejectMessage(p) \/ ReservationLost(p)
    \/ Receive(p) \/ Expire(p)
    \/ Restart(p)

Spec == Init /\ [][Next]_vars

-----------------------------------------------------------------------------
Sessions == {sess[p].ratchet : p \in {x \in Parties : sess[x] # None}}

\* Every session keeps its chains and counters together (the position of the
\* chain key is the counter), and at most MAX_SKIP keys of skipped messages.
TypeOK ==
  /\ \A s \in Sessions :
       /\ s.send \in 0..MaxCount /\ s.recv \in 0..MaxCount
       /\ s.previousSend \in 0..MaxCount
       /\ s.sending # None /\ s.sending.at = s.send
       /\ s.receiving # None => s.receiving.at = s.recv
       /\ Cardinality(s.skipped) <= MaxSkip
  /\ \A p \in Parties :
       /\ Range(outbox[p]) \subseteq {p} \X DOMAIN sent[p]
       /\ Range(opened[p]) \subseteq ({Other(p)} \X DOMAIN sent[Other(p)]) \cap accepted
       /\ Cardinality(Range(opened[p])) = Len(opened[p])

\* The message keys a session can still compute.
Derivable(s, mk) ==
  \/ \E k \in s.skipped : k.mk = mk
  \/ \E c \in {s.sending, s.receiving} \ {None} : c.root = mk.root /\ c.at <= mk.n

\* No two messages or receipts of a client are encrypted with the same message
\* key, whatever sessions were dropped, replaced or opened in between; the
\* comment on SessionState calls anything else catastrophic for AES-GCM.
KeyUsedOnce ==
  \A p \in Parties : \A i, j \in DOMAIN sent[p] :
    sent[p][i].box.mk = sent[p][j].box.mk => i = j

\* Forward secrecy of the stored session: the key of a message a client has
\* sent or opened cannot be computed from its session any more, so that a
\* second copy does not open even without its replay marker.
KeysForgotten ==
  \A p \in Parties : sess[p] # None =>
    \A m \in ({p} \X DOMAIN sent[p]) \cup Range(opened[p]) :
      ~Derivable(sess[p].ratchet, Envelope(m).box.mk)

\* The earlier messages of the same session the recipient has not opened.
Missing(p, m) ==
  {x \in ({m[1]} \X (1..(m[2] - 1))) \ Range(opened[p]) :
     Envelope(x).box.mk.root[1] = Envelope(m).box.mk.root[1]}

\* Unless the two clients opened sessions towards each other, or the opener
\* was collected unread: every message the relay still holds opens, in
\* whatever order it is handed out, as long as no more than MAX_SKIP earlier
\* ones are missing and the opener has arrived.
AnyOrderOpens ==
  ~broken =>
    \A p \in Parties : \A m \in queue[p] :
      \/ Opening(p, m).ok
      \/ Cardinality(Missing(p, m)) > MaxSkip
      \/ sess[p] = None /\ \E x \in queue[p] : Opener(x) /\ x # m
=============================================================================
