---------------------------- MODULE Conversations ----------------------------
(***************************************************************************)
(* One client's application: the open conversation and what it shows, the  *)
(* history and the trust decisions in client.db, the dialogs, and the      *)
(* events of the user and of the relay that change them.                   *)
(*                                                                         *)
(* The application handles one event at a time.  An inbound page is worked *)
(* off message by message (`work'); the program may end between two of its *)
(* database writes.  Encryption, acknowledgements and the delivery of      *)
(* receipts are parts of other modules: here a message is fresh, was       *)
(* handled before, or does not decrypt, and a receipt is sent or is not.   *)
(* A safety number stands for the peer's identity key it is computed from. *)
(***************************************************************************)
EXTENDS Naturals, Sequences, SequencesExt

CONSTANTS
  Peers, Self,    \* other users; the conversation with oneself holds notes
  None,
  Msgs, From,     \* inbound messages, [Msgs -> Peers]
  KeyOf,          \* identity key in a message's PreKey header, or None
  BundleKey,      \* identity key in the bundle of each peer
  Pages,          \* pages of queued messages the relay may send
  Texts,          \* messages the user may write
  HistoryLimit,   \* HISTORY_LOAD_LIMIT
  MaxBatch,       \* MAX_RECEIPT_BATCH
  MaxChat,        \* bound: entries on the screen
  MaxFaults       \* bound: failing writes and refused first messages

ASSUME ConversationsAssumption ==
  /\ Self \notin Peers /\ None \notin Peers \cup {Self}
  /\ From \in [Msgs -> Peers] /\ Pages \subseteq Seq(Msgs)
  /\ {HistoryLimit, MaxBatch, MaxChat, MaxFaults} \subseteq Nat

VARIABLES
  rows,       \* client.db messages: <<peer, id>> in order
  key,        \* client.db peer_identity_keys
  verified,   \* client.db verified_contacts
  marker,     \* crypto.db replay marker of each message
  session,    \* peers with a ratchet session, in crypto.db
  pending,    \* peers whose bundle is awaited
  target,     \* the open conversation
  modal,      \* dialog: "none" or "verify"
  chat,       \* what the conversation shows
  warnings,   \* peers with an identity warning
  unread,     \* unread messages of each peer
  work,       \* inbound messages being handled
  receipted,  \* messages a read receipt was sent for (history)
  unsaved,    \* messages a write failed for (history)
  faults

clientDb  == <<rows, key, verified>>
cryptoDb  == <<marker, session>>
screen    == <<target, modal, chat, warnings>>
histories == <<receipted, unsaved>>
vars == <<clientDb, cryptoDb, pending, screen, unread, work, histories, faults>>

-----------------------------------------------------------------------------
Message(m)    == <<"message", m>>
Warning(p)    == <<"warning", p>>
Undecryptable == <<"undecryptable">>

Idle == [todo |-> <<>>, by |-> "none", fresh |-> FALSE]

Init ==
  /\ rows = <<>>
  /\ key = [p \in Peers |-> None] /\ verified = [p \in Peers |-> None]
  /\ marker = [m \in Msgs |-> "none"] /\ session = {} /\ pending = {}
  /\ target = None /\ modal = "none" /\ chat = <<>>
  /\ warnings = {} /\ unread = [p \in Peers |-> <<>>]
  /\ work = Idle /\ receipted = {} /\ unsaved = {} /\ faults = 0

MessagesIn(s) ==
  LET e == SelectSeq(s, LAMBDA x : x[1] = "message")
  IN  [i \in DOMAIN e |-> e[i][2]]

-----------------------------------------------------------------------------
(* Opening a conversation *)

Stored(p) == SelectSeq(rows, LAMBDA r : r[1] = p)

LastOf(s, n) == SubSeq(s, IF Len(s) > n THEN Len(s) - n + 1 ELSE 1, Len(s))

\* load_recent_messages
LoadRecent(p) ==
  LET s == LastOf(Stored(p), HistoryLimit)
  IN  [i \in DOMAIN s |-> Message(s[i][2])]

\* load_chat_history, then the warning if there is one
LoadChat(p) == LoadRecent(p) \o IF p \in warnings THEN <<Warning(p)>> ELSE <<>>

\* flush_read_receipts: sent and forgotten, or kept when there is no session
\* or the receipt cannot be queued.
FlushReadReceipts(p) ==
  \/ /\ p \in session /\ unread[p] # <<>>
     /\ receipted' = receipted \cup Range(unread[p])
     /\ unread' = [unread EXCEPT ![p] = <<>>]
     /\ UNCHANGED faults
  \/ /\ p \in session /\ unread[p] # <<>> /\ faults < MaxFaults
     /\ faults' = faults + 1
     /\ UNCHANGED <<receipted, unread>>
  \/ /\ p \notin session \/ unread[p] = <<>>
     /\ UNCHANGED <<receipted, unread, faults>>

OpenConversation(p) ==
  /\ target' = p /\ modal' = "none" /\ chat' = LoadChat(p)
  /\ IF p \in session THEN FlushReadReceipts(p) /\ UNCHANGED pending
     ELSE /\ pending' = IF p = Self THEN pending ELSE pending \cup {p}
          /\ UNCHANGED <<receipted, unread, faults>>
  /\ UNCHANGED <<clientDb, cryptoDb, warnings, unsaved>>

\* The user picks any name: from the list of conversations, or by typing it.
Choose(p) == modal = "none" /\ OpenConversation(p) /\ UNCHANGED work

CloseDialog ==
  /\ modal # "none" /\ modal' = "none"
  /\ UNCHANGED <<clientDb, cryptoDb, pending, target, chat, warnings, unread,
                 work, histories, faults>>

-----------------------------------------------------------------------------
(* Identity keys and verification *)

Changed(p, k) == key[p] # None /\ key[p] # k

\* Bug: the verification outlives the key.
StoreIdentityOnly(p, k) ==
  /\ key' = [key EXCEPT ![p] = k]
  /\ UNCHANGED verified

\* store_peer_identity_key: the new key and the end of the verification are
\* one transaction.
StoreIdentity(p, k) ==
  /\ key' = [key EXCEPT ![p] = k]
  /\ verified' = IF Changed(p, k) THEN [verified EXCEPT ![p] = None] ELSE verified

Warn(p, k) == IF Changed(p, k) /\ target = p THEN <<Warning(p)>> ELSE <<>>

\* track_peer_identity, but for the entry on the screen (Warn)
TrackPeerIdentity(p, k) ==
  /\ StoreIdentity(p, k)
  /\ warnings' = IF Changed(p, k) THEN warnings \cup {p} ELSE warnings

ShowVerification ==
  /\ target \in Peers /\ modal' = "verify"
  /\ UNCHANGED <<rows, key, cryptoDb, pending, target, chat, unread, work,
                 histories>>

\* The dialog with the safety number of the open conversation's peer
ViewVerification ==
  /\ ShowVerification /\ modal = "none"
  /\ UNCHANGED <<verified, warnings, faults>>

\* "y": the number is computed anew from the stored key.  The warning goes
\* when there is a verification afterwards.
ConfirmVerification ==
  /\ ShowVerification /\ modal = "verify"
  /\ \/ /\ key[target] # None
        /\ verified' = [verified EXCEPT ![target] = key[target]]
        /\ UNCHANGED faults
     \/ /\ key[target] = None /\ UNCHANGED <<verified, faults>>
     \/ /\ key[target] # None /\ faults < MaxFaults
        /\ faults' = faults + 1 /\ UNCHANGED verified
  /\ warnings' = IF verified'[target] # None THEN warnings \ {target} ELSE warnings

ClearVerification ==
  /\ ShowVerification /\ modal = "verify"
  /\ verified' = [verified EXCEPT ![target] = None]
  /\ UNCHANGED <<warnings, faults>>

-----------------------------------------------------------------------------
(* Sending *)

Used == {r[2] : r \in Range(rows)} \cup unsaved

\* handle_enter: a note is kept only if it was saved; a message to a peer is
\* shown and sent even when saving it fails.
Enter(t) ==
  /\ modal = "none" /\ target # None /\ t \notin Used
  /\ target = Self \/ target \in session
  /\ \/ /\ rows' = Append(rows, <<target, t>>)
        /\ chat' = Append(chat, Message(t))
        /\ UNCHANGED <<unsaved, faults>>
     \/ /\ faults < MaxFaults /\ faults' = faults + 1
        /\ unsaved' = unsaved \cup {t}
        /\ chat' = IF target = Self THEN chat ELSE Append(chat, Message(t))
        /\ UNCHANGED rows
  /\ UNCHANGED <<key, verified, cryptoDb, pending, target, modal, warnings,
                 unread, work, receipted>>

-----------------------------------------------------------------------------
(* Sessions, as far as the application sees them *)

\* A first message was refused, or it is too late to send one: the session
\* is dropped and a bundle asked for.
RefreshSession(p) ==
  /\ p \in session /\ faults < MaxFaults
  /\ session' = session \ {p} /\ pending' = pending \cup {p}
  /\ faults' = faults + 1
  /\ UNCHANGED <<clientDb, marker, screen, unread, work, histories>>

\* The bundle that was asked for arrives.
HandleBundle(p) ==
  /\ p \in pending
  /\ pending' = pending \ {p} /\ session' = session \cup {p}
  /\ TrackPeerIdentity(p, BundleKey[p])
  /\ chat' = chat \o Warn(p, BundleKey[p])
  /\ UNCHANGED <<rows, marker, target, modal, unread, work, histories, faults>>

-----------------------------------------------------------------------------
(* Inbound messages *)

\* A pushed message or a page of queued ones arrives.  One that was handled
\* before is only acknowledged again, and is left out here.
Arrive(s, by) ==
  /\ \A m \in Range(s) : marker[m] # "done"
  /\ work' = [todo |-> s, by |-> by, fresh |-> FALSE]
  /\ UNCHANGED <<clientDb, cryptoDb, pending, screen, unread, histories, faults>>

\* Bug: every message goes to the screen.
IsActiveAlways(p) == TRUE

IsActive(p) == target = p

\* A first message creates the session, any other needs one.
Decrypts(m) == KeyOf[m] # None \/ From[m] \in session

ThisDone      == work' = [work EXCEPT !.todo = Tail(@)]
ThisIs(f)     == work' = [work EXCEPT !.fresh = f]
IsStored(m)   == <<From[m], m>> \in Range(rows)
Identified(m) == KeyOf[m] # None

\* process_inbound for a message that does not open
Unopened(m) ==
  /\ chat' = IF IsActive(From[m]) /\ Len(chat) < MaxChat
               THEN Append(chat, Undecryptable) ELSE chat
  /\ UNCHANGED <<clientDb, cryptoDb, warnings, histories, faults>>

\* process_pending_inbound: the identity key first, then the history, then
\* the marker; a message is fresh when all went well and it is new.
Opened(m) ==
  LET p == From[m]
      saved == [marker EXCEPT ![m] = "done"]
      warn  == IF Identified(m) THEN Warn(p, KeyOf[m]) ELSE <<>>
  IN
  /\ session' = session \cup {p}
  /\ IF Identified(m) THEN TrackPeerIdentity(p, KeyOf[m])
     ELSE UNCHANGED <<key, verified, warnings>>
  /\ UNCHANGED receipted
  /\ \/ /\ rows' = IF IsStored(m) THEN rows ELSE Append(rows, <<p, m>>)
        /\ marker' = saved
        /\ chat' = chat \o warn \o IF IsActive(p) /\ ~IsStored(m)
                                     THEN <<Message(m)>> ELSE <<>>
        /\ UNCHANGED <<unsaved, faults>>
     \/ /\ faults < MaxFaults /\ faults' = faults + 1
        /\ marker' = [marker EXCEPT ![m] = "pending"]
        /\ \/ UNCHANGED rows
           \/ rows' = IF IsStored(m) THEN rows ELSE Append(rows, <<p, m>>)
        /\ unsaved' = unsaved \cup {m}
        /\ chat' = chat \o warn

ProcessInbound ==
  /\ work.todo # <<>> /\ ~work.fresh
  /\ LET m == Head(work.todo) IN
       /\ IF Decrypts(m) THEN Opened(m) ELSE Unopened(m)
       /\ IF marker'[m] = "done" /\ ~IsStored(m)
            THEN ThisIs(TRUE)
            ELSE ThisDone
  /\ UNCHANGED <<pending, target, modal, unread>>

\* accumulate_unread: the list is bounded
AccumulateUnread(m) ==
  unread' = IF Len(unread[From[m]]) < MaxBatch
              THEN [unread EXCEPT ![From[m]] = Append(@, m)] ELSE unread

FreshDone == work' = [work EXCEPT !.fresh = FALSE, !.todo = Tail(@)]

\* A fresh pushed message, when no conversation is open: its own is opened.
OpenSender ==
  /\ work.fresh /\ work.by = "push" /\ target = None
  /\ OpenConversation(From[Head(work.todo)]) /\ UNCHANGED work

\* Bug: a pushed message is read whatever conversation is open.
ReadLiveAnyway ==
  /\ work.fresh /\ work.by = "push" /\ target # None /\ FreshDone
  /\ receipted' = receipted \cup {Head(work.todo)}
  /\ UNCHANGED <<clientDb, cryptoDb, pending, screen, unread, unsaved, faults>>

\* It is read if its conversation is open, and unread otherwise.
ReadLive ==
  /\ work.fresh /\ work.by = "push" /\ target # None /\ FreshDone
  /\ LET m == Head(work.todo) IN
       \/ /\ target = From[m] /\ From[m] \in session
          /\ receipted' = receipted \cup {m} /\ UNCHANGED <<unread, faults>>
       \/ /\ target = From[m] /\ From[m] \in session /\ faults < MaxFaults
          /\ faults' = faults + 1 /\ AccumulateUnread(m) /\ UNCHANGED receipted
       \/ /\ target # From[m] \/ From[m] \notin session
          /\ AccumulateUnread(m) /\ UNCHANGED <<receipted, faults>>
  /\ UNCHANGED <<clientDb, cryptoDb, pending, screen, unsaved>>

\* A fresh queued message; at the end of the page the open conversation is
\* marked as read.
ReadQueued ==
  /\ work.fresh /\ work.by = "page" /\ FreshDone
  /\ AccumulateUnread(Head(work.todo))
  /\ UNCHANGED <<clientDb, cryptoDb, pending, screen, histories, faults>>

EndPage ==
  /\ work # Idle /\ work.todo = <<>> /\ work' = Idle
  /\ IF work.by = "page" /\ target \in Peers THEN FlushReadReceipts(target)
     ELSE UNCHANGED <<receipted, unread, faults>>
  /\ UNCHANGED <<clientDb, cryptoDb, pending, screen, unsaved>>

-----------------------------------------------------------------------------
\* The program ends and is started again: what is not in a database is gone.
Restart ==
  /\ pending' = {} /\ target' = None /\ modal' = "none" /\ chat' = <<>>
  /\ warnings' = {} /\ unread' = [p \in Peers |-> <<>>]
  /\ work' = Idle
  /\ UNCHANGED <<clientDb, cryptoDb, histories, faults>>

UserStep ==
  \/ \E p \in Peers \cup {Self} : Choose(p)
  \/ CloseDialog \/ ViewVerification \/ ConfirmVerification \/ ClearVerification
  \/ \E t \in Texts : Enter(t)

NetworkStep ==
  \/ \E p \in Peers : HandleBundle(p) \/ RefreshSession(p)
  \/ \E m \in Msgs : Arrive(<<m>>, "push")
  \/ \E s \in Pages : Arrive(s, "page")

PageStep == ProcessInbound \/ OpenSender \/ ReadLive \/ ReadQueued \/ EndPage

Next == \/ work = Idle /\ (UserStep \/ NetworkStep)
        \/ PageStep
        \/ Restart

Spec == Init /\ [][Next]_vars

-----------------------------------------------------------------------------
(* A contact counts as verified only for the key the client now uses, and   *)
(* never beside a pending warning: the warning of a changed key goes only   *)
(* when the user confirms (store_peer_identity_key, show_verification).     *)
VerifiedIsCurrent ==
  \A p \in Peers : verified[p] # None => verified[p] = key[p] /\ p \notin warnings

(* The screen is the open conversation and nothing else: the messages on it *)
(* are the end of that conversation's stored history, at least as much as   *)
(* is loaded at once, each once and in order (but for those a write failed  *)
(* for); and an identity warning stays on it until it is settled.           *)
ScreenFaithful ==
  target # None =>
    LET Mine(s)  == SelectSeq(s, LAMBDA m : m \notin unsaved)
        onScreen == Mine(MessagesIn(chat))
        loaded   == Mine(MessagesIn(LoadRecent(target)))
        stored   == Mine([i \in DOMAIN Stored(target) |-> Stored(target)[i][2]])
    IN  /\ IsSuffix(onScreen, stored) /\ IsSuffix(loaded, onScreen)
        /\ target \in warnings => Warning(target) \in Range(chat)

(* A read receipt is sent only for a message that is then on the screen,    *)
(* except for one that more messages have followed than a conversation      *)
(* loads when it is opened.                                                 *)
ReceiptMeansShown ==
  [][\A m \in receipted' \ receipted :
       \/ m \in Range(MessagesIn(chat'))
       \/ m \notin Range(MessagesIn(LoadRecent(From[m]))')]_vars

=============================================================================
