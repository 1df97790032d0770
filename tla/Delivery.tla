------------------------------ MODULE Delivery ------------------------------
(***************************************************************************)
(* End-to-end delivery of chat messages: the sending client's durable      *)
(* outbox, the relay's message queue and acceptance ledger, and the        *)
(* receiving client's replay ledger, history and correlated                *)
(* acknowledgements, over WebSocket connections that break, clients that   *)
(* crash between two of their database transactions, and a relay whose     *)
(* per-connection handlers interleave at every await.                      *)
(*                                                                         *)
(* An atomic step is one database transaction together with the local code *)
(* up to the next one.  A client handles one event at a time (`work' is    *)
(* the inbound batch it is in the middle of); the relay runs one task per  *)
(* connection (`task'), and a task that was displaced by a newer           *)
(* connection still finishes the frame it had already read.                *)
(*                                                                         *)
(* The recipient is looking at another conversation throughout, so a fresh *)
(* message goes to the unread list; read receipts and key management are   *)
(* separate parts of the program.                                          *)
(***************************************************************************)
EXTENDS Integers, Sequences, FiniteSets, Outboxes

CONSTANTS
  Users,          \* accounts, one client process each
  Msgs,           \* message identifiers (UUIDs)
  From, To,       \* [Msgs -> Users]: sender and recipient of each message
  Conns, Owner,   \* connections the relay may serve, [Conns -> Users]
  NoConn,         \* "no connection"
  AckIds,         \* correlation identifiers of acknowledgement batches
  Opens,          \* <<u, p>>: u starts the conversation with p
  Expirable,      \* messages that may sit in the queue for 30 days
  MaxOutbox,      \* MAX_PENDING_OUTBOUND_ITEMS
  MaxQueue,       \* MAX_QUEUE_PER_USER
  MaxLedger,      \* unconfirmed acceptances per sender
  MaxItems,       \* MAX_GLOBAL_ACCEPTANCES
  MaxProcessed,   \* MAX_PROCESSED_MESSAGES
  MaxScan,        \* MAX_QUEUED_MESSAGES
  MaxPage,        \* MAX_QUEUED_MESSAGES_PER_PAGE
  MaxRow,         \* bound: largest rowid
  MaxDrops,       \* bound: connection losses and crashes of each client
  MaxFaults       \* bound: failing database calls

ASSUME ParticipantsAssumption ==
  /\ From \in [Msgs -> Users] /\ To \in [Msgs -> Users]
  /\ \A m \in Msgs : From[m] # To[m]
  /\ Owner \in [Conns -> Users]
  /\ NoConn \notin Conns
  /\ Opens \subseteq Users \X Users

ASSUME BoundsAssumption ==
  /\ {MaxOutbox, MaxQueue, MaxLedger, MaxItems, MaxProcessed, MaxScan, MaxPage,
      MaxRow, MaxFaults} \subseteq Nat
  /\ MaxDrops \in [Users -> Nat]

VARIABLES
  kind,       \* header each message was encrypted under, "none" before that
  outbox,     \* crypto.db outbound_items of each client, in order
  session,    \* peers each client has a ratchet session with
  header,     \* ... whose X3DH header has not been sent yet
  processed,  \* replay marker of each message at its recipient
  consumed,   \* messages whose message key the recipient's ratchet has used
  history,    \* received messages in each client's client.db
  unread,     \* in-memory unread lists
  authed,     \* the application's belief that it is authenticated
  events,     \* frames and events on their way to each application
  work,       \* inbound batch each application is in the middle of
  link,       \* connection each client's network task is using
  row,        \* rowid of each message in message_queue, 0 when absent
  ledger,     \* message_acceptances
  itemCount,  \* message_acceptance_stats.item_count
  refused,    \* messages whose prekey reservation is void
  reg,        \* registry entry of each user
  up,         \* frames each connection has not read yet
  task,       \* what each connection's task is doing
  rejected,   \* messages a sender was told the relay rejected (history)
  expired,    \* messages the relay's garbage collector removed (history)
  drops, faults

cryptoDb == <<outbox, session, header, processed, consumed>>
appVars  == <<unread, authed, events, work>>
relayDb  == <<row, ledger, itemCount, refused, expired>>
bounds   == <<drops, faults>>
vars == <<kind, cryptoDb, history, appVars, link, relayDb, reg, up, task,
          rejected, bounds>>

-----------------------------------------------------------------------------
(* Frames, events and task states *)

Send(m)    == [type |-> "send", id |-> m]
Ack(a, S)  == [type |-> "ack", ack |-> a, ids |-> S]
AckSent(m) == [type |-> "acksent", id |-> m]

Items  == [type : {"send"}, id : Msgs]
            \cup [type : {"ack"}, ack : AckIds, ids : SUBSET Msgs]
Frames == Items \cup [type : {"acksent"}, id : Msgs]

Authed      == [type |-> "authed"]
Lost        == [type |-> "lost"]
Inbound(s)  == [type |-> "inbound", msgs |-> s]
Sent(m)     == [type |-> "sent", id |-> m]
Rejected(m) == [type |-> "rejected", id |-> m]
Acked(a, S) == [type |-> "acked", ack |-> a, ids |-> S]

Events == {Authed, Lost} \cup [type : {"inbound"}, msgs : Seq(Msgs)]
            \cup [type : {"sent", "rejected"}, id : Msgs]
            \cup [type : {"acked"}, ack : AckIds, ids : SUBSET Msgs]

Closed            == [st |-> "closed"]
Waiting           == [st |-> "waiting"]
Scanning(r, n, s) == [st |-> "scan", cursor |-> r, visited |-> n, page |-> s]
Confirming(S)     == [st |-> "confirm", left |-> S]
Handling(f)       == [st |-> "handle", frame |-> f]
Pushing(m)        == [st |-> "push", id |-> m]

Tasks == {Closed, Waiting}
           \cup [st : {"scan"}, cursor : Nat, visited : Nat, page : Seq(Msgs)]
           \cup [st : {"confirm"}, left : SUBSET Msgs]
           \cup [st : {"handle"}, frame : Frames] \cup [st : {"push"}, id : Msgs]

Idle == [todo |-> <<>>, stage |-> "open", fresh |-> FALSE, acks |-> {}]

-----------------------------------------------------------------------------
Init ==
  /\ kind = [m \in Msgs |-> "none"]
  /\ outbox = [u \in Users |-> <<>>]
  /\ session = [u \in Users |-> {}]
  /\ header = [u \in Users |-> {}]
  /\ processed = [m \in Msgs |-> "none"]
  /\ consumed = {}
  /\ history = [u \in Users |-> {}]
  /\ unread = [u \in Users |-> {}]
  /\ authed = [u \in Users |-> FALSE]
  /\ events = [u \in Users |-> <<>>]
  /\ work = [u \in Users |-> Idle]
  /\ link = [u \in Users |-> NoConn]
  /\ row = [m \in Msgs |-> 0]
  /\ ledger = {}
  /\ itemCount = 0
  /\ refused = {}
  /\ reg = [u \in Users |-> NoConn]
  /\ up = [c \in Conns |-> <<>>]
  /\ task = [c \in Conns |-> Closed]
  /\ rejected = {}
  /\ expired = {}
  /\ drops = [u \in Users |-> 0]
  /\ faults = 0

-----------------------------------------------------------------------------
(* Connections *)

\* Frames handed to the network task; without a connection they wait in
\* outgoing_tx and are drained when the next one authenticates.
Emit(u, s) ==
  up' = IF link[u] = NoConn THEN up ELSE [up EXCEPT ![link[u]] = @ \o s]

\* Frames put on connection c reach the client only while it is still there.
Deliver(c, s) ==
  events' = IF link[Owner[c]] = c
              THEN [events EXCEPT ![Owner[c]] = @ \o s]
              ELSE events

\* The handshake succeeds: the registry entry of u becomes c (a previous
\* connection of u is displaced) and the queue scan of u starts.
Authenticate(u, c) ==
  /\ link[u] = NoConn
  /\ Owner[c] = u /\ task[c] = Closed
  /\ link' = [link EXCEPT ![u] = c]
  /\ reg' = [reg EXCEPT ![u] = c]
  /\ task' = [task EXCEPT ![c] = Scanning(0, 0, <<>>)]
  /\ events' = [events EXCEPT ![u] = Append(@, Authed)]
  /\ UNCHANGED <<kind, cryptoDb, history, unread, authed, work, relayDb, up,
                 rejected, bounds>>

\* The client leaves its connection: the relay keeps a prefix of the frames
\* sent on it, and does not notice before it reads again.
Abandon(u) ==
  /\ drops[u] < MaxDrops[u]
  /\ drops' = [drops EXCEPT ![u] = @ + 1]
  /\ link' = [link EXCEPT ![u] = NoConn]
  /\ \/ link[u] = NoConn /\ up' = up
     \/ /\ link[u] # NoConn
        /\ \E n \in 0..Len(up[link[u]]) :
             up' = [up EXCEPT ![link[u]] = SubSeq(@, 1, n)]

\* The connection breaks; what the client had received before that is still
\* handled, in order, before the disconnection event.
Disconnect(u) ==
  /\ link[u] # NoConn
  /\ Abandon(u)
  /\ \E n \in 0..Len(events[u]) :
       events' = [events EXCEPT ![u] = Append(SubSeq(@, 1, n), Lost)]
  /\ UNCHANGED <<kind, cryptoDb, history, unread, authed, work, relayDb, reg,
                 task, rejected, faults>>

\* The client process dies and restarts from its databases.
Crash(u) ==
  /\ Abandon(u)
  /\ events' = [events EXCEPT ![u] = <<>>]
  /\ authed' = [authed EXCEPT ![u] = FALSE]
  /\ unread' = [unread EXCEPT ![u] = {}]
  /\ work' = [work EXCEPT ![u] = Idle]
  /\ UNCHANGED <<kind, cryptoDb, history, relayDb, reg, task, rejected, faults>>

\* The task of an abandoned connection ends; it removes its registry entry
\* only when the entry is still its own.
CloseConn(c) ==
  /\ task[c] = Waiting /\ link[Owner[c]] # c
  /\ task' = [task EXCEPT ![c] = Closed]
  /\ up' = [up EXCEPT ![c] = <<>>]
  /\ reg' = IF reg[Owner[c]] = c THEN [reg EXCEPT ![Owner[c]] = NoConn] ELSE reg
  /\ UNCHANGED <<kind, cryptoDb, history, appVars, link, relayDb, rejected, bounds>>

-----------------------------------------------------------------------------
(* Client: composing *)

\* The application is between two events.
Ready(u) == work[u] = Idle

\* A fetched prekey bundle becomes a session that still has to send its X3DH
\* header (init_session_from_bundle).
StartSession(u, p) ==
  /\ Ready(u) /\ authed[u]
  /\ <<u, p>> \in Opens /\ p \notin session[u]
  /\ session' = [session EXCEPT ![u] = @ \cup {p}]
  /\ header' = [header EXCEPT ![u] = @ \cup {p}]
  /\ UNCHANGED <<kind, outbox, processed, consumed, history, appVars, link,
                 relayDb, reg, up, task, rejected, bounds>>

\* Sending finds the unsent X3DH header older than its reservation: the
\* session is dropped and its keys are fetched again.
ExpireSession(u, p) ==
  /\ Ready(u) /\ authed[u]
  /\ p \in header[u]
  /\ session' = [session EXCEPT ![u] = @ \ {p}]
  /\ header' = [header EXCEPT ![u] = @ \ {p}]
  /\ UNCHANGED <<kind, outbox, processed, consumed, history, appVars, link,
                 relayDb, reg, up, task, rejected, bounds>>

HasRoom(u) == Len(outbox[u]) < MaxOutbox

\* Mutant: no waiting for the admission of a first message.
NeverAwaiting(u, p) == FALSE

\* A first message to p is still waiting for the relay's admission.
AwaitingPrekeyAdmission(u, p) ==
  \E i \in DOMAIN outbox[u] :
    /\ outbox[u][i].type = "send"
    /\ To[outbox[u][i].id] = p
    /\ kind[outbox[u][i].id] = "prekey"

\* Mutant: the ciphertext is sent without being saved first.
ComposeUnsaved(u, m) ==
  /\ Ready(u) /\ authed[u]
  /\ From[m] = u /\ kind[m] = "none"
  /\ To[m] \in session[u]
  /\ kind' = [kind EXCEPT ![m] = IF To[m] \in header[u] THEN "prekey" ELSE "ratchet"]
  /\ header' = [header EXCEPT ![u] = @ \ {To[m]}]
  /\ Emit(u, <<Send(m)>>)
  /\ UNCHANGED <<outbox, session, processed, consumed, history, appVars, link,
                 relayDb, reg, task, rejected, bounds>>

\* The user presses Enter: one transaction advances the ratchet and puts the
\* ciphertext in the outbox, then the frame is handed to the network task.
Compose(u, m) ==
  /\ Ready(u) /\ authed[u]
  /\ From[m] = u /\ kind[m] = "none"
  /\ To[m] \in session[u]
  /\ ~AwaitingPrekeyAdmission(u, To[m])
  /\ HasRoom(u)
  /\ kind' = [kind EXCEPT ![m] = IF To[m] \in header[u] THEN "prekey" ELSE "ratchet"]
  /\ header' = [header EXCEPT ![u] = @ \ {To[m]}]
  /\ outbox' = [outbox EXCEPT ![u] = Append(@, Send(m))]
  /\ Emit(u, <<Send(m)>>)
  /\ UNCHANGED <<session, processed, consumed, history, appVars, link, relayDb,
                 reg, task, rejected, bounds>>

-----------------------------------------------------------------------------
(* Client: events of the connection and answers of the relay *)

NextEvent(u, type) ==
  /\ Ready(u)
  /\ events[u] # <<>> /\ Head(events[u]).type = type
  /\ events' = [events EXCEPT ![u] = Tail(@)]

\* Mutant: nothing is sent again after a reconnection.
HandleAuthedSilently(u) ==
  /\ NextEvent(u, "authed")
  /\ authed' = [authed EXCEPT ![u] = TRUE]
  /\ UNCHANGED <<kind, cryptoDb, history, unread, work, link, relayDb, reg, up,
                 task, rejected, bounds>>

\* Authenticated: the whole outbox is sent again, in order.
HandleAuthed(u) ==
  /\ NextEvent(u, "authed")
  /\ authed' = [authed EXCEPT ![u] = TRUE]
  /\ Emit(u, outbox[u])
  /\ UNCHANGED <<kind, cryptoDb, history, unread, work, link, relayDb, reg,
                 task, rejected, bounds>>

HandleLost(u) ==
  /\ NextEvent(u, "lost")
  /\ authed' = [authed EXCEPT ![u] = FALSE]
  /\ UNCHANGED <<kind, cryptoDb, history, unread, work, link, relayDb, reg, up,
                 task, rejected, bounds>>

\* Mutant: the answer is confirmed but the outbox keeps the message.
HandleSentKeeping(u) ==
  /\ NextEvent(u, "sent")
  /\ Emit(u, <<AckSent(Head(events[u]).id)>>)
  /\ UNCHANGED <<kind, cryptoDb, history, unread, authed, work, link, relayDb, reg,
                 task, rejected, bounds>>

\* MessageSent: the message leaves the outbox (if it is still there) and the
\* relay may forget the acceptance.
HandleSent(u) ==
  /\ NextEvent(u, "sent")
  /\ LET m == Head(events[u]).id IN
       /\ outbox' = [outbox EXCEPT ![u] = Without(@, Send(m))]
       /\ Emit(u, <<AckSent(m)>>)
  /\ UNCHANGED <<kind, session, header, processed, consumed, history, unread,
                 authed, work, link, relayDb, reg, task, rejected, bounds>>

\* MessageRejected: a message still in the outbox is retired together with
\* the session it was encrypted under.
HandleRejected(u) ==
  /\ NextEvent(u, "rejected")
  /\ LET m == Head(events[u]).id IN
       IF Send(m) \in Range(outbox[u])
         THEN /\ outbox' = [outbox EXCEPT ![u] = Without(@, Send(m))]
              /\ session' = [session EXCEPT ![u] = @ \ {To[m]}]
              /\ header' = [header EXCEPT ![u] = @ \ {To[m]}]
              /\ rejected' = rejected \cup {m}
         ELSE UNCHANGED <<outbox, session, header, rejected>>
  /\ UNCHANGED <<kind, processed, consumed, history, unread, authed, work, link,
                 relayDb, reg, up, task, bounds>>

\* AckSuccess for a batch still in the outbox: the batch and the replay
\* markers of its messages go in one transaction.
HandleAcked(u) ==
  /\ NextEvent(u, "acked")
  /\ LET e == Head(events[u])
         f == Ack(e.ack, e.ids) IN
       IF f \in Range(outbox[u])
         THEN /\ outbox' = [outbox EXCEPT ![u] = Without(@, f)]
              /\ processed' = [m \in Msgs |-> IF m \in e.ids THEN "none"
                                                             ELSE processed[m]]
         ELSE UNCHANGED <<outbox, processed>>
  /\ UNCHANGED <<kind, session, header, consumed, history, unread, authed, work,
                 link, relayDb, reg, up, task, rejected, bounds>>

-----------------------------------------------------------------------------
(* Client: inbound messages *)

Current(u)  == Head(work[u].todo)
At(u, stage) == work[u].todo # <<>> /\ work[u].stage = stage

\* The current message is done; S joins the batch to acknowledge.
Finish(u, S) ==
  work' = [work EXCEPT ![u].todo = Tail(@), ![u].stage = "open",
                       ![u].fresh = FALSE, ![u].acks = @ \cup S]

\* IncomingMessage, or a page of QueuedMessages, reaches the application.
TakeInbound(u) ==
  /\ NextEvent(u, "inbound")
  /\ work' = [work EXCEPT ![u].todo = Head(events[u]).msgs]
  /\ UNCHANGED <<kind, cryptoDb, history, unread, authed, link, relayDb, reg, up,
                 task, rejected, bounds>>

LedgerFull(u) ==
  Cardinality({m \in Msgs : To[m] = u /\ processed[m] # "none"}) >= MaxProcessed

\* An X3DH header opens a session only where there is none; a ratchet message
\* needs one, and its message key works once.
Decryptable(u, m) ==
  /\ ~LedgerFull(u)
  /\ IF kind[m] = "prekey"
       THEN From[m] \notin session[u]
       ELSE From[m] \in session[u] /\ m \notin consumed

\* Mutant: the marker is written without the plaintext.
OpenUnrecoverable(u) ==
  /\ At(u, "open")
  /\ LET m == Current(u) IN
       \/ /\ processed[m] = "none" /\ Decryptable(u, m)
          /\ processed' = [processed EXCEPT ![m] = "stored"]
          /\ consumed' = consumed \cup {m}
          /\ session' = [session EXCEPT ![u] = @ \cup {From[m]}]
          /\ work' = [work EXCEPT ![u].stage = "store"]
       \/ /\ processed[m] = "stored"
          /\ Finish(u, {m})
          /\ UNCHANGED <<processed, consumed, session>>
  /\ UNCHANGED <<kind, outbox, header, history, unread, authed, events, link,
                 relayDb, reg, up, task, rejected, bounds>>

\* Mutant: any marked message is acknowledged, stored or not.
OpenAckingMarked(u) ==
  /\ At(u, "open")
  /\ LET m == Current(u) IN
       \/ /\ processed[m] = "none" /\ Decryptable(u, m)
          /\ processed' = [processed EXCEPT ![m] = "pending"]
          /\ consumed' = consumed \cup {m}
          /\ session' = [session EXCEPT ![u] = @ \cup {From[m]}]
          /\ work' = [work EXCEPT ![u].stage = "store"]
       \/ /\ processed[m] # "none"
          /\ Finish(u, {m})
          /\ UNCHANGED <<processed, consumed, session>>
  /\ UNCHANGED <<kind, outbox, header, history, unread, authed, events, link,
                 relayDb, reg, up, task, rejected, bounds>>

\* decrypt_message_to_text: an unmarked message is decrypted, and the advanced
\* session and a marker holding the plaintext are saved in one transaction; a
\* marked one is not decrypted again.
Open(u) ==
  /\ At(u, "open")
  /\ LET m == Current(u) IN
       \/ /\ processed[m] = "none" /\ Decryptable(u, m)
          /\ processed' = [processed EXCEPT ![m] = "pending"]
          /\ consumed' = consumed \cup {m}
          /\ session' = [session EXCEPT ![u] = @ \cup {From[m]}]
          /\ work' = [work EXCEPT ![u].stage = "store"]
       \/ /\ processed[m] = "pending"
          /\ work' = [work EXCEPT ![u].stage = "store"]
          /\ UNCHANGED <<processed, consumed, session>>
       \/ /\ processed[m] = "stored"
          /\ Finish(u, {m})
          /\ UNCHANGED <<processed, consumed, session>>
       \/ /\ processed[m] = "none" /\ ~Decryptable(u, m)
          /\ Finish(u, {})
          /\ UNCHANGED <<processed, consumed, session>>
  /\ UNCHANGED <<kind, outbox, header, history, unread, authed, events, link,
                 relayDb, reg, up, task, rejected, bounds>>

\* The message is inserted into the history unless it is there already.
Store(u) ==
  /\ At(u, "store")
  /\ history' = [history EXCEPT ![u] = @ \cup {Current(u)}]
  /\ work' = [work EXCEPT ![u].stage = "commit",
                          ![u].fresh = Current(u) \notin history[u]]
  /\ UNCHANGED <<kind, cryptoDb, unread, authed, events, link, relayDb, reg, up,
                 task, rejected, bounds>>

\* The marker drops its plaintext, and the message may be acknowledged.
Commit(u) ==
  /\ At(u, "commit")
  /\ processed' = [processed EXCEPT ![Current(u)] =
                     IF @ = "pending" THEN "stored" ELSE @]
  /\ unread' = IF work[u].fresh THEN [unread EXCEPT ![u] = @ \cup {Current(u)}]
                                ELSE unread
  /\ Finish(u, {Current(u)})
  /\ UNCHANGED <<kind, outbox, session, header, consumed, history, authed, events,
                 link, relayDb, reg, up, task, rejected, bounds>>

\* Identifiers no live acknowledgement uses (a fresh UUID).
FreshAckIds ==
  {a \in AckIds :
     /\ \A u \in Users, S \in SUBSET Msgs :
          Ack(a, S) \notin Range(outbox[u]) /\ Acked(a, S) \notin Range(events[u])
     /\ \A c \in Conns, S \in SUBSET Msgs :
          Ack(a, S) \notin Range(up[c]) /\ task[c] # Handling(Ack(a, S))}

\* The batch ends: one acknowledgement for it goes into the outbox, unless
\* the outbox is full.
QueueAck(u) ==
  /\ work[u].todo = <<>> /\ work[u].acks # {}
  /\ work' = [work EXCEPT ![u] = Idle]
  /\ \/ /\ HasRoom(u)
        /\ FreshAckIds # {}
        /\ LET f == Ack(CHOOSE a \in FreshAckIds : TRUE, work[u].acks) IN
             /\ outbox' = [outbox EXCEPT ![u] = Append(@, f)]
             /\ Emit(u, <<f>>)
     \/ ~HasRoom(u) /\ UNCHANGED <<outbox, up>>
  /\ UNCHANGED <<kind, session, header, processed, consumed, history, unread,
                 authed, events, link, relayDb, reg, task, rejected, bounds>>

\* A database call of the client fails: the inbound message is skipped without
\* an acknowledgement, the batch is not acknowledged, or the relay's answer is
\* not applied.
ClientFault(u) ==
  /\ faults < MaxFaults
  /\ faults' = faults + 1
  /\ \/ work[u].todo # <<>> /\ Finish(u, {}) /\ UNCHANGED events
     \/ /\ work[u].todo = <<>> /\ work[u].acks # {}
        /\ work' = [work EXCEPT ![u] = Idle] /\ UNCHANGED events
     \/ /\ \E type \in {"sent", "rejected", "acked"} : NextEvent(u, type)
        /\ UNCHANGED work
  /\ UNCHANGED <<kind, cryptoDb, history, unread, authed, link, relayDb, reg, up,
                 task, rejected, drops>>

-----------------------------------------------------------------------------
(* Relay: after authentication *)

QueueOf(u) == {m \in Msgs : To[m] = u /\ row[m] # 0}

\* Mutant: the newest row first.
LastPending(u, r) ==
  {m \in QueueOf(u) : (r = 0 \/ row[m] < r) /\ \A x \in QueueOf(u) : row[x] <= row[m]}

\* get_next_pending: the first queued row of u after r.
NextPending(u, r) ==
  {m \in QueueOf(u) : row[m] > r /\ \A x \in QueueOf(u) : row[x] > r => row[m] <= row[x]}

\* One row joins the page; a full page (by count, or by bytes) is sent first.
ScanRow(c) ==
  /\ task[c].st = "scan" /\ task[c].visited < MaxScan
  /\ \E m \in NextPending(Owner[c], task[c].cursor), full \in BOOLEAN :
       /\ Len(task[c].page) >= MaxPage => full
       /\ full => task[c].page # <<>>
       /\ task' = [task EXCEPT ![c] =
            Scanning(row[m], task[c].visited + 1,
                     IF full THEN <<m>> ELSE Append(task[c].page, m))]
       /\ Deliver(c, IF full THEN <<Inbound(task[c].page)>> ELSE <<>>)
  /\ UNCHANGED <<kind, cryptoDb, history, unread, authed, work, link, relayDb, reg,
                 up, rejected, bounds>>

\* The scan is over: the last page is sent and the unconfirmed acceptances of
\* the user are read.
EndScan(c) ==
  /\ task[c].st = "scan"
  /\ task[c].visited >= MaxScan \/ NextPending(Owner[c], task[c].cursor) = {}
  /\ Deliver(c, IF task[c].page = <<>> THEN <<>> ELSE <<Inbound(task[c].page)>>)
  /\ task' = [task EXCEPT ![c] = Confirming({m \in ledger : From[m] = Owner[c]})]
  /\ UNCHANGED <<kind, cryptoDb, history, unread, authed, work, link, relayDb, reg,
                 up, rejected, bounds>>

\* deliver_message_confirmations: MessageSent once more for each of them.
SendConfirmation(c) ==
  /\ task[c].st = "confirm"
  /\ \/ \E m \in task[c].left :
          /\ task' = [task EXCEPT ![c] = Confirming(task[c].left \ {m})]
          /\ Deliver(c, <<Sent(m)>>)
     \/ /\ task[c].left = {}
        /\ task' = [task EXCEPT ![c] = Waiting]
        /\ UNCHANGED events
  /\ UNCHANGED <<kind, cryptoDb, history, unread, authed, work, link, relayDb, reg,
                 up, rejected, bounds>>

-----------------------------------------------------------------------------
(* Relay: frames *)

\* A connection that has not been displaced reads its next frame.
ReadFrame(c) ==
  /\ task[c] = Waiting /\ up[c] # <<>>
  /\ reg[Owner[c]] = c
  /\ task' = [task EXCEPT ![c] = Handling(Head(up[c]))]
  /\ up' = [up EXCEPT ![c] = Tail(@)]
  /\ UNCHANGED <<kind, cryptoDb, history, appVars, link, relayDb, reg, rejected, bounds>>

Handles(c, type) == task[c].st = "handle" /\ task[c].frame.type = type

\* SQLite's choice of rowid: one more than the largest in the table.
NextRow(r) ==
  /\ \A m \in Msgs : row[m] < r
  /\ r = 1 \/ \E m \in Msgs : row[m] = r - 1

QueueFull(m) == Cardinality(QueueOf(To[m])) >= MaxQueue
AcceptanceLedgerFull(m) ==
  \/ Cardinality({x \in ledger : From[x] = From[m]}) >= MaxLedger
  \/ itemCount >= MaxItems

\* The acceptance is recorded and the row inserted unless it exists.
Accept(m) ==
  /\ ledger' = ledger \cup {m}
  /\ itemCount' = itemCount + 1
  /\ \/ row[m] # 0 /\ row' = row
     \/ /\ row[m] = 0
        /\ \E r \in 1..MaxRow : NextRow(r) /\ row' = [row EXCEPT ![m] = r]
  /\ UNCHANGED <<refused, expired>>

\* Mutant: the reservation is checked before the ledger.
EnqueueCheckingFirst(c) ==
  /\ Handles(c, "send")
  /\ LET m == task[c].frame.id IN
       \/ /\ m \notin refused
          /\ IF m \in ledger THEN UNCHANGED relayDb ELSE Accept(m)
          /\ task' = [task EXCEPT ![c] = Pushing(m)]
          /\ UNCHANGED events
       \/ /\ kind[m] = "prekey"
          /\ refused' = refused \cup {m}
          /\ task' = [task EXCEPT ![c] = Waiting]
          /\ Deliver(c, <<Rejected(m)>>)
          /\ UNCHANGED <<row, ledger, itemCount, expired>>
  /\ UNCHANGED <<kind, cryptoDb, history, unread, authed, work, link, reg, up,
                 rejected, bounds>>

\* Mutant: a send that finds the queue full is answered like a duplicate.
EnqueueOverflowing(c) ==
  /\ Handles(c, "send")
  /\ LET m == task[c].frame.id IN
       /\ IF m \in ledger \/ QueueFull(m) \/ AcceptanceLedgerFull(m)
            THEN UNCHANGED relayDb ELSE Accept(m)
       /\ task' = [task EXCEPT ![c] = Pushing(m)]
  /\ UNCHANGED <<kind, cryptoDb, history, unread, authed, events, work, link, reg,
                 up, rejected, bounds>>

\* handle_send up to the end of its transaction.
Enqueue(c) ==
  /\ Handles(c, "send")
  /\ LET m == task[c].frame.id IN
       \/ /\ m \in ledger
          /\ task' = [task EXCEPT ![c] = Pushing(m)]
          /\ UNCHANGED <<relayDb, events>>
       \/ /\ m \notin ledger /\ (QueueFull(m) \/ AcceptanceLedgerFull(m))
          /\ task' = [task EXCEPT ![c] = Waiting]
          /\ UNCHANGED <<relayDb, events>>
       \/ /\ m \notin ledger /\ ~QueueFull(m) /\ ~AcceptanceLedgerFull(m)
          /\ m \notin refused
          /\ Accept(m)
          /\ task' = [task EXCEPT ![c] = Pushing(m)]
          /\ UNCHANGED events
       \/ /\ m \notin ledger /\ ~QueueFull(m) /\ ~AcceptanceLedgerFull(m)
          /\ kind[m] = "prekey"
          /\ refused' = refused \cup {m}
          /\ task' = [task EXCEPT ![c] = Waiting]
          /\ Deliver(c, <<Rejected(m)>>)
          /\ UNCHANGED <<row, ledger, itemCount, expired>>
  /\ UNCHANGED <<kind, cryptoDb, history, unread, authed, work, link, reg, up,
                 rejected, bounds>>

\* ... and after it: the live push to the recipient's registered connection,
\* dropped when its channel is full, and the answer to the sender.
Push(c) ==
  /\ task[c].st = "push"
  /\ LET m == task[c].id IN
       \E pushed \in BOOLEAN :
         events' = [u \in Users |->
           IF u = Owner[c] /\ link[u] = c THEN Append(events[u], Sent(m))
           ELSE IF u = To[m] /\ pushed /\ link[u] # NoConn /\ reg[u] = link[u]
             THEN Append(events[u], Inbound(<<m>>))
           ELSE events[u]]
  /\ task' = [task EXCEPT ![c] = Waiting]
  /\ UNCHANGED <<kind, cryptoDb, history, unread, authed, work, link, relayDb, reg,
                 up, rejected, bounds>>

\* handle_ack: the recipient's rows are deleted, then the batch is confirmed.
DeleteAcked(c) ==
  /\ Handles(c, "ack")
  /\ LET f == task[c].frame IN
       /\ row' = [m \in Msgs |-> IF m \in f.ids /\ To[m] = Owner[c] THEN 0 ELSE row[m]]
       /\ Deliver(c, <<Acked(f.ack, f.ids)>>)
  /\ task' = [task EXCEPT ![c] = Waiting]
  /\ UNCHANGED <<kind, cryptoDb, history, unread, authed, work, link, ledger,
                 itemCount, refused, expired, reg, up, rejected, bounds>>

\* Mutant: the count is not kept.
ConfirmAcceptanceUncounted(c) ==
  /\ Handles(c, "acksent")
  /\ ledger' = ledger \ {task[c].frame.id}
  /\ task' = [task EXCEPT ![c] = Waiting]
  /\ UNCHANGED <<kind, cryptoDb, history, appVars, link, row, itemCount, refused,
                 expired, reg, up, rejected, bounds>>

\* handle_message_sent_ack: the sender's acceptance is forgotten.
ConfirmAcceptance(c) ==
  /\ Handles(c, "acksent")
  /\ LET m == task[c].frame.id
         deleted == m \in ledger /\ From[m] = Owner[c] IN
       /\ ledger' = IF deleted THEN ledger \ {m} ELSE ledger
       /\ itemCount' = IF deleted /\ itemCount > 0 THEN itemCount - 1 ELSE itemCount
  /\ task' = [task EXCEPT ![c] = Waiting]
  /\ UNCHANGED <<kind, cryptoDb, history, appVars, link, row, refused, expired, reg,
                 up, rejected, bounds>>

\* gc_old_messages: a row older than 30 days is removed; its acceptance stays.
CollectGarbage(m) ==
  /\ m \in Expirable /\ row[m] # 0
  /\ row' = [row EXCEPT ![m] = 0]
  /\ expired' = expired \cup {m}
  /\ UNCHANGED <<kind, cryptoDb, history, appVars, link, ledger, itemCount, refused,
                 reg, up, task, rejected, bounds>>

\* A database call of the relay fails: the scan stops and its page is not
\* sent, the confirmations are skipped, or the frame is answered with an error.
RelayFault(c) ==
  /\ faults < MaxFaults
  /\ faults' = faults + 1
  /\ \/ /\ task[c].st = "scan"
        /\ task' = [task EXCEPT ![c] = Confirming({m \in ledger : From[m] = Owner[c]})]
     \/ /\ task[c].st \in {"confirm", "handle"}
        /\ task' = [task EXCEPT ![c] = Waiting]
  /\ UNCHANGED <<kind, cryptoDb, history, appVars, link, relayDb, reg, up, rejected,
                 drops>>

-----------------------------------------------------------------------------
\* What an application does of its own accord once it is running.
AppStep(u) ==
  \/ HandleAuthed(u) \/ HandleLost(u)
  \/ HandleSent(u) \/ HandleRejected(u) \/ HandleAcked(u)
  \/ TakeInbound(u) \/ Open(u) \/ Store(u) \/ Commit(u) \/ QueueAck(u)

\* What the task of a connection does of its own accord.
RelayStep(c) ==
  \/ ScanRow(c) \/ EndScan(c) \/ SendConfirmation(c)
  \/ ReadFrame(c) \/ Enqueue(c) \/ Push(c) \/ DeleteAcked(c) \/ ConfirmAcceptance(c)
  \/ CloseConn(c)

Next ==
  \/ \E u \in Users : AppStep(u) \/ Disconnect(u) \/ Crash(u) \/ ClientFault(u)
  \/ \E u \in Users, p \in Users : StartSession(u, p) \/ ExpireSession(u, p)
  \/ \E u \in Users, m \in Msgs : Compose(u, m)
  \/ \E u \in Users, c \in Conns : Authenticate(u, c)
  \/ \E c \in Conns : RelayStep(c) \/ RelayFault(c)
  \/ \E m \in Msgs : CollectGarbage(m)

Spec == Init /\ [][Next]_vars

\* Each application's event loop and each connection task keeps running, and a
\* client without a connection keeps trying to get one (net::run).
Fairness ==
  /\ \A u \in Users : WF_vars(AppStep(u))
  /\ \A u \in Users : WF_vars(\E c \in Conns : Authenticate(u, c))
  /\ \A c \in Conns : WF_vars(RelayStep(c))

FairSpec == Spec /\ Fairness

-----------------------------------------------------------------------------
(* Properties *)

\* The databases, channels and handlers hold values of their types: outbox items,
\* frames (PendingOutbound, ClientMessage), events and connection tasks.
TypeOK ==
  /\ kind \in [Msgs -> {"none", "prekey", "ratchet"}]
  /\ outbox \in [Users -> Seq(Items)]
  /\ session \in [Users -> SUBSET Users]
  /\ header \in [Users -> SUBSET Users]
  /\ processed \in [Msgs -> {"none", "pending", "stored"}]
  /\ consumed \subseteq Msgs
  /\ history \in [Users -> SUBSET Msgs]
  /\ unread \in [Users -> SUBSET Msgs]
  /\ authed \in [Users -> BOOLEAN]
  /\ events \in [Users -> Seq(Events)]
  /\ work \in [Users -> [todo : Seq(Msgs), stage : {"open", "store", "commit"},
                         fresh : BOOLEAN, acks : SUBSET Msgs]]
  /\ link \in [Users -> Conns \cup {NoConn}]
  /\ row \in [Msgs -> Nat]
  /\ ledger \subseteq Msgs
  /\ itemCount \in Nat
  /\ refused \subseteq Msgs
  /\ reg \in [Users -> Conns \cup {NoConn}]
  /\ up \in [Conns -> Seq(Frames)]
  /\ task \in [Conns -> Tasks]
  /\ rejected \subseteq Msgs
  /\ expired \subseteq Msgs
  /\ drops \in [Users -> Nat] /\ faults \in Nat

InOutbox(m) == Send(m) \in Range(outbox[From[m]])
Stored(m)   == m \in history[To[m]]

\* The relay took m over: it is queued, or has left the queue for good.
Accepted(m) == row[m] # 0 \/ Stored(m) \/ m \in expired

\* No encrypted message is ever lost between two databases: until the relay
\* rejects it or its 30 days are over, it is in the sender's outbox, in the
\* relay's queue or in the recipient's history, whatever crashes, lost frames
\* and failing transactions occur (MessageSent / AckSuccess handshakes).
NothingLost ==
  \A m \in Msgs : kind[m] # "none" =>
    InOutbox(m) \/ Accepted(m) \/ m \in rejected

\* A message key is used once, so a decrypted message that has not reached the
\* history must still have its plaintext in the replay marker; otherwise a
\* crash between the ratchet transaction and the history insert loses it.
ConsumedRecoverable ==
  \A m \in consumed : Stored(m) \/ processed[m] = "pending"

\* A sender that is told "message rejected" has not sent it: a rejected
\* message is never queued for, nor stored by, its recipient, even when an
\* earlier attempt of the same send is still being handled.
RejectedNeverDelivered ==
  \A m \in rejected : ~Accepted(m)

\* While the sender may still retry a message the relay has taken over, the
\* acceptance ledger knows it, so the retry is classified Duplicate instead of
\* being queued a second time (classify_existing).
RetryRecognised ==
  \A m \in Msgs : InOutbox(m) /\ Accepted(m) => m \in ledger

\* message_acceptance_stats, which enforces the global limit, counts the rows
\* of message_acceptances.
ItemCountExact == itemCount = Cardinality(ledger)

\* Reading the queue in rowid order never meets a ratchet message before the
\* X3DH message that opens its session, because encrypt_message waits for the
\* admission of the latter.
OpenerAhead ==
  \A m \in Msgs :
    row[m] # 0 /\ kind[m] = "ratchet" /\ From[m] \notin session[To[m]] =>
      \E o \in Msgs : /\ kind[o] = "prekey" /\ From[o] = From[m] /\ To[o] = To[m]
                      /\ row[o] \in 1..(row[m] - 1) \/ o \in expired

\* The relay deletes a queued message only when its recipient has stored it or
\* its 30 days are over, never because an acknowledgement ran ahead of the
\* recipient's transactions.
DeletedOnlyWhenStored ==
  [][\A m \in Msgs : row[m] # 0 /\ row'[m] = 0 => Stored(m) \/ m \in expired']_vars

\* A message that has left the queue is queued again only by the handler of a
\* displaced connection that had read the send before it was displaced; the
\* connection that displaced it never repeats a send the relay has forgotten.
RequeuedOnlyByDisplaced ==
  [][\A m \in Msgs :
       row[m] = 0 /\ row'[m] # 0 /\ (Stored(m) \/ m \in expired) =>
         \E c \in Conns : /\ task[c] = Handling(Send(m)) /\ task'[c] = Pushing(m)
                          /\ reg[Owner[c]] # c]_vars

\* Every message queued when its recipient authenticates reaches the history
\* unless that connection breaks: the pages come in an order in which each can
\* be decrypted (deliver_queued_messages, process_inbound).
QueuedAtAuthDelivered ==
  \A m \in Msgs : \A c \in {x \in Conns : Owner[x] = To[m]} :
    (/\ task[c].st = "scan" /\ task[c].visited = 0 /\ row[m] # 0
     /\ link[To[m]] = c)
      ~> (Stored(m) \/ link[To[m]] # c)

\* While a connection lasts, every message of the outbox is sent and answered,
\* so that it leaves the outbox.
OutboxDrains ==
  \A m \in Msgs : \A c \in {x \in Conns : Owner[x] = From[m]} :
    InOutbox(m) /\ link[From[m]] = c ~> ~InOutbox(m) \/ link[From[m]] # c

\* "Re-acknowledge already-persisted message IDs without decrypting their
\* ciphertext again" (AUDIT.md): a message of the history is never handed to
\* the ratchet again.
PersistedNotDecryptedAgain ==
  \A u \in Users : At(u, "open") /\ Current(u) \in history[u] =>
    processed[Current(u)] # "none"

-----------------------------------------------------------------------------
(* What is promised: Mailbox *)

status ==
  [m \in Msgs |->
     IF Stored(m) THEN "delivered"
     ELSE IF m \in rejected THEN "refused"
     ELSE IF m \in expired THEN "expired"
     ELSE IF InOutbox(m) \/ row[m] # 0 THEN "inflight"
     ELSE IF kind[m] = "none" THEN "unsent" ELSE "lost"]

Promise == INSTANCE Mailbox WITH status <- status

\* The whole protocol, with its retries, duplicates, crashes and displaced
\* connections, keeps the promise of Mailbox: a message that is neither in an
\* outbox, a queue nor a history would be "lost", which Mailbox has no step to.
KeepsPromise == Promise!Spec

-----------------------------------------------------------------------------
(* The inductive invariant behind the safety properties *)

\* m may be handed to u: it is addressed to u and the relay has taken it over.
Deliverable(u, m) == To[m] = u /\ Accepted(m)

\* What an outbox item or a frame of u says is true and stays true.
FrameOK(u, f) ==
  /\ f.type = "send" => From[f.id] = u /\ kind[f.id] # "none"
  /\ f.type = "ack" => f.ids \subseteq history[u]
  /\ f.type = "acksent" => Accepted(f.id) /\ ~InOutbox(f.id)

EventOK(u, e) ==
  /\ e.type = "inbound" => \A m \in Range(e.msgs) : Deliverable(u, m)
  /\ e.type = "sent" => From[e.id] = u /\ Accepted(e.id)
  /\ e.type = "rejected" => e.id \in refused

TaskOK(u, t) ==
  /\ t.st = "scan" => \A m \in Range(t.page) : Deliverable(u, m)
  /\ t.st = "confirm" => \A m \in t.left : From[m] = u /\ Accepted(m)
  /\ t.st = "handle" => FrameOK(u, t.frame)
  /\ t.st = "push" => From[t.id] = u /\ Accepted(t.id)

WorkOK(u, w) ==
  /\ \A m \in Range(w.todo) : Deliverable(u, m)
  /\ w.acks \subseteq history[u]
  /\ w.todo # <<>> /\ w.stage = "commit" => Head(w.todo) \in history[u]

InTransitOK ==
  /\ \A u \in Users : \A f \in Range(outbox[u]) : FrameOK(u, f)
  /\ \A u \in Users : \A e \in Range(events[u]) : EventOK(u, e)
  /\ \A u \in Users : WorkOK(u, work[u])
  /\ \A c \in Conns : \A f \in Range(up[c]) : FrameOK(Owner[c], f)
  /\ \A c \in Conns : TaskOK(Owner[c], task[c])

\* Each message at most once in the outbox s.
Once(s) == \A i, j \in DOMAIN s : s[i].type = "send" /\ s[i] = s[j] => i = j

LocalOK ==
  /\ \A u \in Users : Once(outbox[u])
  /\ \A u \in Users : link[u] # NoConn => Owner[link[u]] = u

DurableOK ==
  /\ \A u \in Users : \A m \in history[u] : To[m] = u
  /\ \A m \in Msgs : processed[m] = "stored" => Stored(m)
  /\ \A m \in ledger : Accepted(m)
  /\ \A m \in Msgs : Accepted(m) \/ m \in refused => kind[m] # "none"
  /\ \A m \in refused : Accepted(m) => ~InOutbox(m)
  /\ rejected \subseteq refused

\* What every message in transit claims is true of the databases, the
\* databases agree with each other, and each message is in an outbox
\* once.
IInv ==
  /\ TypeOK
  /\ InTransitOK
  /\ LocalOK
  /\ DurableOK
  /\ NothingLost
  /\ ConsumedRecoverable
  /\ RejectedNeverDelivered
  /\ RetryRecognised

=============================================================================
