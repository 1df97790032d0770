------------------------------ MODULE Receipts ------------------------------
(***************************************************************************)
(* Read receipts of one conversation.  The reader reports the messages it   *)
(* has read in encrypted receipts; each is kept in the reader's outbox and  *)
(* in the relay's read_receipt_queue until the author of the messages has   *)
(* acknowledged it and the reader has heard of that:                        *)
(*                                                                         *)
(*   reader                relay                        author             *)
(*     ReadReceipt        ->  enqueue, push         ->    decrypt, mark     *)
(*                            acknowledge           <-    AckReadReceipt    *)
(*     drop               <-  ReadReceiptSent, AckSuccess -> forget         *)
(*     AckReadReceiptSent ->  delete                                        *)
(*                                                                         *)
(* A step of the relay or of the author is one database transaction with    *)
(* the code up to the next one.  The two clients share a ratchet session,   *)
(* in which a message key works once.                                       *)
(***************************************************************************)
EXTENDS Integers, Sequences, FiniteSets, Functions, FiniteSetsExt, Outboxes

CONSTANTS
  Msgs,        \* messages of the author the reader is going to receive
  MaxBatch,    \* MAX_RECEIPT_BATCH
  MaxOutbox,   \* MAX_PENDING_OUTBOUND_ITEMS
  MaxQueue,    \* MAX_QUEUE_PER_USER
  MaxAcks,     \* bound: acknowledgements made
  MaxDrops     \* bound: connections lost and crashes, of both clients

ASSUME ReceiptsAssumption == {MaxBatch, MaxOutbox, MaxQueue, MaxAcks, MaxDrops} \subseteq Nat

Reader == "reader"
Author == "author"
Sides  == {Reader, Author}

VARIABLES
  toCome,    \* messages that have not arrived yet
  screen,    \* what the reader displays: no conversation, this one, another
  rd,        \* the reader's unread_messages, outbox, and what receipts report
  acks,      \* the author's outbox, and how many acknowledgements it has made
  marker,    \* the author's processed_messages: pending or stored
  consumed,  \* receipts whose message key the author's ratchet has used
  work,      \* the receipt the author is in the middle of
  online, greeted,
  up,        \* what the relay has still to do for each connection
  old,       \* ... and for the connections that were abandoned
  events,    \* frames on their way to each application
  queue,     \* read_receipt_queue, in the order of insertion
  ghosts,    \* rows an abandoned connection inserted (history)
  drops

reader == <<toCome, screen, rd>>
author == <<acks, marker, consumed, work>>
net    == <<online, greeted, up, old, events, drops>>
relay  == <<queue, ghosts>>
vars   == <<reader, author, net, relay>>

\* Frames, and what a handler has to do after its transaction.
Receipt(r)      == [type |-> "receipt", id |-> r]
Push(r)         == [type |-> "push", id |-> r]
Answer(r)       == [type |-> "answer", id |-> r]
Confirm(r)      == [type |-> "confirm", id |-> r]
Ack(k, r)       == [type |-> "ack", ack |-> k, id |-> r]
Notify(k, r, b) == [type |-> "notify", ack |-> k, id |-> r, found |-> b]

Authed      == [type |-> "authed"]
Incoming(r) == [type |-> "incoming", id |-> r]
Sent(r)     == [type |-> "sent", id |-> r]
Acked(k, r) == [type |-> "acked", ack |-> k, id |-> r]

Idle == [stage |-> "idle", id |-> 0]

Init ==
  /\ toCome = Msgs /\ screen = "none"
  /\ rd = [unread |-> {}, outbox |-> <<>>, covers |-> <<>>]
  /\ acks = [outbox |-> <<>>, made |-> 0]
  /\ marker = [pending |-> {}, stored |-> {}] /\ consumed = {} /\ work = Idle
  /\ online = [s \in Sides |-> TRUE] /\ greeted = online
  /\ up = [s \in Sides |-> <<>>] /\ old = [s \in Sides |-> {}] /\ events = up
  /\ queue = <<>> /\ ghosts = {}
  /\ drops = 0

-----------------------------------------------------------------------------
(* Connections *)

Emit(s, frames) == up' = IF online[s] THEN [up EXCEPT ![s] = @ \o frames] ELSE up

Deliver(s, e) == events' = [events EXCEPT ![s] = Append(@, e)]

\* What abandoned connections have to do, with one more that has q to do.
Add(qs, q) == IF q = <<>> THEN qs ELSE qs \cup {q}

\* The handshake succeeds.  A connection it displaces finishes only the frame
\* it is at.
Connect(s) ==
  /\ ~online[s]
  /\ online' = [online EXCEPT ![s] = TRUE]
  /\ Deliver(s, Authed)
  /\ old' = [old EXCEPT ![s] = {SubSeq(q, 1, 1) : q \in @}]
  /\ UNCHANGED <<reader, author, greeted, up, drops, relay>>

\* The client leaves its connection; the relay still reads some of its frames.
Abandon(s) ==
  /\ online[s] /\ drops < MaxDrops
  /\ drops' = drops + 1
  /\ online' = [online EXCEPT ![s] = FALSE]
  /\ greeted' = [greeted EXCEPT ![s] = FALSE]
  /\ \E n \in 0..Len(up[s]) : old' = [old EXCEPT ![s] = Add(@, SubSeq(up[s], 1, n))]
  /\ up' = [up EXCEPT ![s] = <<>>]

\* The connection breaks: what had arrived is still handled.
Disconnect(s) ==
  /\ Abandon(s)
  /\ \E n \in 0..Len(events[s]) : events' = [events EXCEPT ![s] = SubSeq(@, 1, n)]
  /\ UNCHANGED <<reader, author, relay>>

\* The client dies: the unread list and the screen are not saved.
Crash(s) ==
  /\ Abandon(s)
  /\ events' = [events EXCEPT ![s] = <<>>]
  /\ IF s = Reader
       THEN rd' = [rd EXCEPT !.unread = {}] /\ screen' = "none" /\ UNCHANGED work
       ELSE work' = Idle /\ UNCHANGED <<rd, screen>>
  /\ UNCHANGED <<toCome, acks, marker, consumed, relay>>

\* Where the queue has rows that wait for the author, and for the reader.
Rows(acked) == {i \in DOMAIN queue : queue[i].acked = acked}

\* The rows at S in the order of insertion (there is one such sequence).
InOrder(S) ==
  {p \in UNION {[1..n -> S] : n \in 0..Len(queue)} :
     Range(p) = S /\ \A i, j \in DOMAIN p : i < j => p[i] < p[j]}

\* deliver_queued_receipts, with deliver_receipt_confirmations.
Greet(s) ==
  /\ online[s] /\ ~greeted[s]
  /\ greeted' = [greeted EXCEPT ![s] = TRUE]
  /\ \E p \in InOrder(Rows(s = Reader)) :
       events' = [events EXCEPT ![s] = @ \o
         [i \in DOMAIN p |-> IF s = Author THEN Incoming(queue[p[i]].id) ELSE Sent(queue[p[i]].id)]]
  /\ UNCHANGED <<reader, author, online, up, old, drops, relay>>

-----------------------------------------------------------------------------
(* The reader *)

Room(outbox) == Len(outbox) < MaxOutbox

\* encrypt_read_receipt on a reader state with room in its outbox.
Seal(c, S) == [c EXCEPT !.outbox = Append(@, Len(c.covers) + 1), !.covers = Append(@, S)]

\* Mutant of FlushReadReceipts: the list is kept.
FlushKeeping(c) == IF c.unread # {} /\ Room(c.outbox) THEN Seal(c, c.unread) ELSE c

FlushReadReceipts(c) ==
  IF c.unread # {} /\ Room(c.outbox) THEN [Seal(c, c.unread) EXCEPT !.unread = {}] ELSE c

\* The reader's state becomes c, and the receipts it has added are sent.
Become(c) ==
  /\ rd' = c
  /\ Emit(Reader, [i \in 1..(Len(c.outbox) - Len(rd.outbox)) |->
                     Receipt(c.outbox[Len(rd.outbox) + i])])

\* The possible unread lists after the messages S, in any order.
AccumulateUnread(c, S) ==
  {[c EXCEPT !.unread = @ \cup T] : T \in
     kSubset(Min({Cardinality(S), MaxBatch - Cardinality(c.unread)}), S)}

\* IncomingMessage, fresh: with no conversation open its own is opened; when
\* it is on the screen it is reported at once.
Arrive(m) ==
  /\ online[Reader] /\ m \in toCome
  /\ toCome' = toCome \ {m}
  /\ screen' = IF screen = "none" THEN "this" ELSE screen
  /\ LET c == IF screen = "none" THEN FlushReadReceipts(rd) ELSE rd IN
       IF screen' = "this" /\ Room(c.outbox)
         THEN Become(Seal(c, {m}))
         ELSE \E d \in AccumulateUnread(c, {m}) : Become(d)
  /\ UNCHANGED <<author, online, greeted, old, events, drops, relay>>

\* QueuedMessages with the fresh messages S.
ArrivePage(S) ==
  /\ online[Reader] /\ S # {}
  /\ toCome' = toCome \ S
  /\ \E c \in AccumulateUnread(rd, S) :
       Become(IF screen = "this" THEN FlushReadReceipts(c) ELSE c)
  /\ UNCHANGED <<screen, author, online, greeted, old, events, drops, relay>>

\* open_conversation, of this peer or another.
OpenConversation(at) ==
  /\ screen' = at
  /\ Become(IF at = "this" THEN FlushReadReceipts(rd) ELSE rd)
  /\ UNCHANGED <<toCome, author, online, greeted, old, events, drops, relay>>

NextEvent(s) == events[s] # <<>> /\ events' = [events EXCEPT ![s] = Tail(@)]

\* Authenticated: the outbox is sent again.
HandleAuthed(s) ==
  /\ NextEvent(s) /\ Head(events[s]) = Authed
  /\ work = Idle \/ s = Reader
  /\ Emit(s, IF s = Reader THEN [i \in DOMAIN rd.outbox |-> Receipt(rd.outbox[i])]
                           ELSE acks.outbox)
  /\ UNCHANGED <<reader, author, online, greeted, old, drops, relay>>

\* ReadReceiptSent: confirm_read_receipt_sent, then the answer.
HandleReceiptSent ==
  /\ NextEvent(Reader) /\ Head(events[Reader]).type = "sent"
  /\ LET r == Head(events[Reader]).id IN
       /\ rd' = [rd EXCEPT !.outbox = Without(@, r)]
       /\ Emit(Reader, <<Confirm(r)>>)
  /\ UNCHANGED <<toCome, screen, author, online, greeted, old, drops, relay>>

-----------------------------------------------------------------------------
(* The author *)

\* IncomingReadReceipt: decrypt_message_to_text.  A receipt with a marker is
\* not decrypted again; without one, a used message key does not work.
TakeReceipt ==
  /\ work = Idle
  /\ NextEvent(Author) /\ Head(events[Author]).type = "incoming"
  /\ LET r == Head(events[Author]).id
         fresh == r \notin consumed /\ r \notin marker.pending \cup marker.stored IN
       /\ marker' = IF fresh THEN [marker EXCEPT !.pending = @ \cup {r}] ELSE marker
       /\ consumed' = IF fresh THEN consumed \cup {r} ELSE consumed
       /\ work' = IF r \in marker'.pending THEN [stage |-> "store", id |-> r]
                  ELSE IF r \in marker'.stored THEN [stage |-> "ack", id |-> r] ELSE Idle
  /\ UNCHANGED <<reader, acks, online, greeted, up, old, drops, relay>>

\* Mutant of ConfirmInboundStored: the marker goes with its plaintext.
ConfirmForgetting ==
  /\ work.stage = "store"
  /\ work' = [work EXCEPT !.stage = "ack"]
  /\ marker' = [marker EXCEPT !.pending = @ \ {work.id}]
  /\ UNCHANGED <<reader, acks, consumed, net, relay>>

\* confirm_inbound_stored; its error is ignored.
ConfirmInboundStored ==
  /\ work.stage = "store"
  /\ work' = [work EXCEPT !.stage = "ack"]
  /\ \/ marker' = [pending |-> marker.pending \ {work.id},
                   stored  |-> marker.stored \cup {work.id}]
     \/ UNCHANGED marker
  /\ UNCHANGED <<reader, acks, consumed, net, relay>>

\* queue_read_receipt_ack; nothing happens when the outbox is full.
QueueReadReceiptAck ==
  /\ work.stage = "ack" /\ acks.made < MaxAcks
  /\ work' = Idle
  /\ LET ack == Ack(acks.made + 1, work.id) IN
       IF Room(acks.outbox)
         THEN /\ acks' = [outbox |-> Append(acks.outbox, ack), made |-> acks.made + 1]
              /\ Emit(Author, <<ack>>)
         ELSE UNCHANGED <<acks, up>>
  /\ UNCHANGED <<reader, marker, consumed, online, greeted, old, events, drops, relay>>

\* AckSuccess: confirm_acked.
HandleAcked ==
  /\ work = Idle
  /\ NextEvent(Author) /\ Head(events[Author]).type = "acked"
  /\ LET ack == Ack(Head(events[Author]).ack, Head(events[Author]).id) IN
       IF ack \in Range(acks.outbox)
         THEN /\ acks' = [acks EXCEPT !.outbox = Without(@, ack)]
              /\ marker' = [pending |-> marker.pending \ {ack.id},
                            stored  |-> marker.stored \ {ack.id}]
         ELSE UNCHANGED <<acks, marker>>
  /\ UNCHANGED <<reader, consumed, work, online, greeted, up, old, drops, relay>>

\* A database call of a client fails while it handles a frame: the frame has
\* no effect.
ClientFault(s) ==
  /\ s = Author => work = Idle
  /\ NextEvent(s) /\ Head(events[s]) # Authed
  /\ UNCHANGED <<reader, author, online, greeted, up, old, drops, relay>>

-----------------------------------------------------------------------------
(* The relay.  A handler h has to do Head(q) for side s; live says whether    *)
(* its connection is still the client's.                                      *)

Ids(S) == {queue[i].id : i \in S}
Queued == Ids(DOMAIN queue)

\* Mutant of HasRoom: the limits are reached one row later.
HasRoomForOneMore == Cardinality(Rows(FALSE)) <= MaxQueue /\ Len(queue) <= MaxQueue

\* The limits on the author's waiting rows and on the reader's rows.
HasRoom == Cardinality(Rows(FALSE)) < MaxQueue /\ Len(queue) < MaxQueue

\* Mutant of Enqueue: a queued receipt is confirmed at once.
EnqueueConfirming(r) ==
  IF r \in Ids(Rows(TRUE)) THEN <<Answer(r)>>
  ELSE IF r \in Queued \/ HasRoom
    THEN <<Answer(r)>> ELSE <<>>

\* What handle_read_receipt does after receipts::enqueue.
Enqueue(r) ==
  IF r \in Ids(Rows(TRUE)) THEN <<Answer(r)>>
  ELSE IF r \in Queued \/ HasRoom
    THEN <<Push(r)>> ELSE <<>>

\* handle_read_receipt up to its transaction.
HandleReadReceipt(s, h, live) ==
  /\ h.type = "receipt"
  /\ LET insert == h.id \notin Queued /\ Enqueue(h.id) # <<>> IN
       /\ queue' = IF insert THEN Append(queue, [id |-> h.id, acked |-> FALSE]) ELSE queue
       /\ ghosts' = IF insert /\ ~live /\ h.id \notin Range(rd.outbox)
                      THEN ghosts \cup {h.id} ELSE ghosts
  /\ UNCHANGED events

\* Mutant of Acknowledge: the row is deleted.
AcknowledgeDeleting(r) == Without(queue, [id |-> r, acked |-> FALSE])

Acknowledge(r) ==
  [i \in DOMAIN queue |-> IF queue[i].id = r THEN [queue[i] EXCEPT !.acked = TRUE] ELSE queue[i]]

\* handle_read_receipt_ack up to its transaction.
HandleReadReceiptAck(s, h, live) ==
  /\ h.type = "ack"
  /\ queue' = Acknowledge(h.id)
  /\ UNCHANGED <<ghosts, events>>

\* handle_read_receipt_sent_ack: confirm_sender_received.
HandleReadReceiptSentAck(s, h, live) ==
  /\ h.type = "confirm"
  /\ queue' = Without(queue, [id |-> h.id, acked |-> TRUE])
  /\ UNCHANGED <<ghosts, events>>

\* send_to: the frame reaches the peer's connection unless there is none, or
\* its channel is full.
SendTo(s, e) ==
  \/ online[s] /\ Deliver(s, e)
  \/ UNCHANGED events

\* The end of a handler: the push, or the answer on its own connection.
PushReceipt(s, h, live) ==
  /\ h.type = "push"
  /\ SendTo(Author, Incoming(h.id))
  /\ UNCHANGED relay

AnswerSent(s, h, live) ==
  /\ h.type = "answer"
  /\ IF live THEN Deliver(s, Sent(h.id)) ELSE UNCHANGED events
  /\ UNCHANGED relay

\* notify_receipt_senders and AckSuccess.
NotifyReceiptSenders(s, h, live) ==
  /\ h.type = "notify"
  /\ LET answers == IF live THEN <<Acked(h.ack, h.id)>> ELSE <<>> IN
     \E notice \in {<<>>} \cup (IF h.found /\ online[Reader] THEN {<<Sent(h.id)>>} ELSE {}) :
       events' = [events EXCEPT ![Author] = @ \o answers, ![Reader] = @ \o notice]
  /\ UNCHANGED relay

\* What is left to do for h after its transaction.
After(h) ==
  IF h.type = "receipt" THEN Enqueue(h.id)
  ELSE IF h.type = "ack" THEN <<Notify(h.ack, h.id, h.id \in Queued)>>
  ELSE <<>>

HandlerStep(s, h, live) ==
  \/ HandleReadReceipt(s, h, live) \/ PushReceipt(s, h, live) \/ AnswerSent(s, h, live)
  \/ HandleReadReceiptAck(s, h, live) \/ NotifyReceiptSenders(s, h, live)
  \/ HandleReadReceiptSentAck(s, h, live)

\* A step of the handler of the client's connection.
Handle(s) ==
  /\ online[s] /\ greeted[s] /\ up[s] # <<>>
  /\ HandlerStep(s, Head(up[s]), TRUE)
  /\ up' = [up EXCEPT ![s] = After(Head(@)) \o Tail(@)]
  /\ UNCHANGED <<reader, author, online, greeted, old, drops>>

\* ... and of one the client has abandoned.
HandleOld(s) ==
  /\ \E q \in old[s] :
       /\ HandlerStep(s, Head(q), FALSE)
       /\ old' = [old EXCEPT ![s] = Add(@ \ {q}, After(Head(q)) \o Tail(q))]
  /\ UNCHANGED <<reader, author, online, greeted, up, drops>>

\* The transaction of a handler fails.
RelayFault(s) ==
  /\ online[s] /\ greeted[s] /\ up[s] # <<>>
  /\ Head(up[s]).type \in {"receipt", "ack", "confirm"}
  /\ up' = [up EXCEPT ![s] = Tail(@)]
  /\ UNCHANGED <<reader, author, online, greeted, old, events, drops, relay>>

Next ==
  \/ \E m \in Msgs : Arrive(m)
  \/ \E S \in SUBSET toCome : ArrivePage(S)
  \/ \E at \in {"this", "other"} : OpenConversation(at)
  \/ HandleReceiptSent
  \/ TakeReceipt \/ ConfirmInboundStored \/ QueueReadReceiptAck \/ HandleAcked
  \/ \E s \in Sides : \/ Connect(s) \/ Disconnect(s) \/ Crash(s) \/ Greet(s)
                      \/ HandleAuthed(s) \/ ClientFault(s)
                      \/ Handle(s) \/ HandleOld(s) \/ RelayFault(s)

Spec == Init /\ [][Next]_vars

-----------------------------------------------------------------------------
(* Properties *)

Made == 1..Len(rd.covers)

\* Receipts, rows and markers have their types; the relay never holds two rows
\* of one receipt, nor more rows than MAX_QUEUE_PER_USER (receipts::enqueue).
TypeOK ==
  /\ toCome \subseteq Msgs /\ screen \in {"none", "this", "other"}
  /\ rd.unread \subseteq Msgs \ toCome /\ Range(rd.outbox) \subseteq Made
  /\ \A r \in Made : rd.covers[r] \subseteq Msgs /\ rd.covers[r] # {}
  /\ marker.pending \cap marker.stored = {} /\ marker.pending \cup marker.stored \subseteq consumed
  /\ consumed \subseteq Made /\ Queued \subseteq Made
  /\ Len(queue) <= MaxQueue
  /\ \A i, j \in DOMAIN queue : queue[i].id = queue[j].id => i = j
  /\ online \in [Sides -> BOOLEAN] /\ greeted \in [Sides -> BOOLEAN]

\* A receipt that was made is in the reader's outbox until the author has
\* decrypted it, whatever is lost on the way: handle_read_receipt confirms it
\* only after the author's acknowledgement, and confirm_read_receipt_sent drops
\* it only on that confirmation.
ReceiptNotLost == \A r \in Made : r \in Range(rd.outbox) \cup consumed

\* No message is reported by two receipts, nor stays unread once reported:
\* flush_read_receipts clears the list it has sealed, and a receipt that is
\* sent again is the same receipt.
ReadOnce ==
  \A r \in Made : /\ rd.covers[r] \cap rd.unread = {}
                  /\ \A q \in Made \ {r} : rd.covers[r] \cap rd.covers[q] = {}

\* A receipt the relay still offers to the author can be acknowledged: either
\* the author has its message key still, or it has the marker that recognises
\* the receipt without the key (confirm_acked drops the marker only when the
\* relay has recorded the acknowledgement).  The exception is a row that an
\* abandoned connection inserted after the reader had dropped the receipt.
AckPossible ==
  \A r \in Ids(Rows(FALSE)) \ ghosts : r \in consumed => r \in marker.pending \cup marker.stored

\* The relay deletes a receipt only after the reader has dropped it from its
\* outbox, so that sending the outbox again cannot insert it again
\* (acknowledge marks the row, confirm_sender_received deletes it).
DeletedOnlyWhenDropped ==
  [][\A r \in Queued : r \in Queued' \/ r \notin Range(rd.outbox)]_vars
=============================================================================
