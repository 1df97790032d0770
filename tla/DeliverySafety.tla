--------------------------- MODULE DeliverySafety ---------------------------
(***************************************************************************)
(* Delivery, for every value of its constants.  First the types; then what *)
(* a step may write, and why what a frame, an event or a task claims about *)
(* the databases can only become more true: a message once encrypted stays *)
(* encrypted, a history only grows, a message the relay has taken over     *)
(* stays taken over and never comes back to an outbox.  So what is in      *)
(* transit agrees with the databases after every step (what was there      *)
(* persists, and each operation vouches for what it adds), the databases   *)
(* agree with each other, and from that follow the safety invariants, the  *)
(* safety of deletion and the refinement of Mailbox.                       *)
(***************************************************************************)
EXTENDS Delivery, ChannelLemmas

-----------------------------------------------------------------------------
(* Taking an item out of an outbox *)

\* delete_outbound leaves no second copy of the message it removes.
LEMMA WithoutOnce ==
  ASSUME NEW S, NEW s \in Seq(S), NEW f, Once(s)
  PROVE  /\ Once(Without(s, f))
         /\ f.type = "send" => f \notin Range(Without(s, f))
<1>1. CASE f \notin Range(s)
  BY <1>1, Zenon DEF Without
<1>2. CASE f \in Range(s)
  <2> DEFINE k == CHOOSE i \in DOMAIN s : s[i] = f
             t == DeleteAt(s, k)
             old(i) == IF i < k THEN i ELSE i + 1
  <2>1. k \in 1..Len(s) /\ s[k] = f
    BY <1>2 DEF Range
  <2>2. Without(s, f) = t
    BY <1>2, Zenon DEF Without
  <2> HIDE DEF k
  <2>r. t = SubSeq(s, 1, k - 1) \o SubSeq(s, k + 1, Len(s))
    BY Zenon DEF DeleteAt
  <2> HIDE DEF t
  <2>3. /\ t \in Seq(S) /\ Len(t) = Len(s) - 1
        /\ \A i \in 1..(k - 1) : t[i] = s[i]
        /\ \A i \in k..(Len(s) - 1) : t[i] = s[i + 1]
    BY <2>1, <2>r, DeleteAtElem, ZenonT(120)
  <2>4. ASSUME NEW i \in DOMAIN t
        PROVE  t[i] = s[old(i)] /\ old(i) \in DOMAIN s /\ old(i) # k
    <3>1. i \in 1..(Len(s) - 1)
      BY <2>3
    <3>2. CASE i < k
      BY <3>1, <3>2, <2>1, <2>3
    <3>3. CASE i >= k
      BY <3>1, <3>3, <2>1, <2>3
    <3> QED BY <3>1, <3>2, <3>3, <2>1
  <2>5. ASSUME NEW i \in DOMAIN t, NEW j \in DOMAIN t, old(i) = old(j) PROVE i = j
    <3>1. i \in Nat /\ j \in Nat /\ k \in Nat
      BY <2>1, <2>3
    <3> QED BY <2>5, <3>1
  <2> HIDE DEF old
  <2>6. Once(t)
    BY <2>4, <2>5 DEF Once
  <2>7. ASSUME f.type = "send" PROVE f \notin Range(t)
    <3> SUFFICES ASSUME NEW i \in DOMAIN t, t[i] = f PROVE FALSE
      BY Zenon DEF Range
    <3> QED BY <2>1, <2>4, <2>7 DEF Once
  <2> QED BY <2>2, <2>6, <2>7, Zenon
<1> QED BY <1>1, <1>2, Zenon
-----------------------------------------------------------------------------
(* Types of frames, events and task states *)

\* Every constructor of an outbox item, a frame or an event builds one.
LEMMA FrameTypes ==
  ASSUME NEW m \in Msgs, NEW a \in AckIds, NEW S \in SUBSET Msgs
  PROVE  /\ Send(m) \in Items /\ Ack(a, S) \in Items
         /\ Send(m) \in Frames /\ Ack(a, S) \in Frames /\ AckSent(m) \in Frames
         /\ Sent(m) \in Events /\ Rejected(m) \in Events /\ Acked(a, S) \in Events
  BY Zenon DEF Items, Frames, Events, Send, Ack, AckSent, Sent, Rejected, Acked

\* The same for the frames and events that concern at most one message.
LEMMA SendTypes ==
  ASSUME NEW m \in Msgs
  PROVE  /\ Send(m) \in Items /\ Send(m) \in Frames /\ AckSent(m) \in Frames
         /\ Sent(m) \in Events /\ Rejected(m) \in Events
         /\ Authed \in Events /\ Lost \in Events
  BY Zenon DEF Items, Frames, Events, Send, AckSent, Sent, Rejected, Authed, Lost

\* A page of queued messages is an event of the application.
LEMMA InboundType == \A s \in Seq(Msgs) : Inbound(s) \in Events
  BY Zenon DEF Events, Inbound

\* What flush_pending takes out of the outbox is a frame.
LEMMA ItemsAreFrames == Items \subseteq Frames /\ Seq(Items) \subseteq Seq(Frames)
  BY DEF Frames

\* What each kind of frame carries.
LEMMA FrameFields ==
  ASSUME NEW f \in Frames
  PROVE  /\ f.type \in {"send", "acksent"} => f.id \in Msgs
         /\ f.type = "ack" => f.ack \in AckIds /\ f.ids \in SUBSET Msgs
         /\ f.type = "send" => f = Send(f.id)
  BY Zenon DEF Frames, Items, Send

\* What each kind of event carries.
LEMMA EventFields ==
  ASSUME NEW e \in Events
  PROVE  /\ e.type = "inbound" => e.msgs \in Seq(Msgs)
         /\ e.type \in {"sent", "rejected"} => e.id \in Msgs
         /\ e.type = "acked" => e.ack \in AckIds /\ e.ids \in SUBSET Msgs
  BY DEF Events, Authed, Lost

\* What a connection task holds at each point of its loop.
LEMMA TaskFields ==
  ASSUME NEW t \in Tasks
  PROVE  /\ t.st = "scan" => t.page \in Seq(Msgs) /\ t.visited \in Nat /\ t.cursor \in Nat
         /\ t.st = "confirm" => t.left \in SUBSET Msgs
         /\ t.st = "handle" => t.frame \in Frames
         /\ t.st = "push" => t.id \in Msgs
  BY DEF Tasks, Closed, Waiting

\* The points of the loop of a connection task.
LEMMA TaskTypes ==
  /\ Closed \in Tasks /\ Waiting \in Tasks
  /\ \A r, n \in Nat, s \in Seq(Msgs) : Scanning(r, n, s) \in Tasks
  /\ \A S \in SUBSET Msgs : Confirming(S) \in Tasks
  /\ \A f \in Frames : Handling(f) \in Tasks
  /\ \A m \in Msgs : Pushing(m) \in Tasks
  BY Zenon DEF Tasks, Closed, Waiting, Scanning, Confirming, Handling, Pushing

-----------------------------------------------------------------------------
(* What the operations on channels do *)

\* Sending over the network task keeps the frames on their way typed.
LEMMA EmitLemma ==
  ASSUME TypeOK, NEW u \in Users, NEW s \in Seq(Frames), Emit(u, s)
  PROVE  /\ up' \in [Conns -> Seq(Frames)]
         /\ \A c \in Conns : \A f \in Range(up'[c]) :
              f \in Range(up[c]) \/ (c = link[u] /\ f \in Range(s))
<1>1. CASE link[u] = NoConn
  BY <1>1, Zenon DEF Emit, TypeOK
<1>2. CASE link[u] # NoConn
  <2>1. link[u] \in Conns /\ up[link[u]] \in Seq(Frames)
    BY <1>2, Zenon DEF TypeOK
  <2>2. up' = [up EXCEPT ![link[u]] = up[link[u]] \o s]
    BY <1>2, Zenon DEF Emit
  <2>3. /\ up[link[u]] \o s \in Seq(Frames)
        /\ Range(up[link[u]] \o s) = Range(up[link[u]]) \cup Range(s)
    BY <2>1, RangeConcat
  <2> QED BY <2>1, <2>2, <2>3, Zenon DEF TypeOK
<1> QED BY <1>1, <1>2, Zenon

\* Handing an event to the application keeps the events typed.
LEMMA DeliverLemma ==
  ASSUME TypeOK, NEW c \in Conns, NEW s \in Seq(Events), Deliver(c, s)
  PROVE  /\ events' \in [Users -> Seq(Events)]
         /\ \A u \in Users : \A e \in Range(events'[u]) :
              e \in Range(events[u]) \/ (u = Owner[c] /\ e \in Range(s))
<1>0. Owner[c] \in Users
  BY ParticipantsAssumption, Zenon
<1>1. CASE link[Owner[c]] # c
  BY <1>1, Zenon DEF Deliver, TypeOK
<1>2. CASE link[Owner[c]] = c
  <2>1. events' = [events EXCEPT ![Owner[c]] = events[Owner[c]] \o s]
    BY <1>2, Zenon DEF Deliver
  <2>2. events[Owner[c]] \in Seq(Events)
    BY <1>0, Zenon DEF TypeOK
  <2>3. /\ events[Owner[c]] \o s \in Seq(Events)
        /\ Range(events[Owner[c]] \o s) = Range(events[Owner[c]]) \cup Range(s)
    BY <2>2, RangeConcat
  <2> QED BY <1>0, <2>1, <2>3, Zenon DEF TypeOK
<1> QED BY <1>1, <1>2, Zenon

\* The application loop takes the oldest event.
LEMMA NextEventLemma ==
  ASSUME TypeOK, NEW u \in Users, NEW type, NextEvent(u, type)
  PROVE  /\ events' \in [Users -> Seq(Events)]
         /\ \A v \in Users : Range(events'[v]) \subseteq Range(events[v])
         /\ Head(events[u]) \in Range(events[u])
         /\ Head(events[u]) \in Events
         /\ Head(events[u]).type = type
<1>1. events[u] \in Seq(Events) /\ events[u] # <<>>
  BY Zenon DEF TypeOK, NextEvent
<1>2. /\ Tail(events[u]) \in Seq(Events)
      /\ Range(Tail(events[u])) \subseteq Range(events[u])
      /\ Head(events[u]) \in Range(events[u])
  BY <1>1, RangeTail, Zenon
<1>3. Head(events[u]) \in Events
  BY <1>1
<1>4. events' = [events EXCEPT ![u] = Tail(events[u])]
  BY Zenon DEF NextEvent
<1> QED BY <1>2, <1>3, <1>4 DEF TypeOK, NextEvent

\* A connection that breaks keeps what arrived typed.
LEMMA AbandonLemma ==
  ASSUME TypeOK, NEW u \in Users, Abandon(u)
  PROVE  /\ up' \in [Conns -> Seq(Frames)]
         /\ \A c \in Conns : Range(up'[c]) \subseteq Range(up[c])
         /\ link' = [link EXCEPT ![u] = NoConn]
         /\ drops' \in [Users -> Nat]
<1>1. CASE link[u] = NoConn
  BY <1>1 DEF Abandon, TypeOK
<1>2. CASE link[u] # NoConn
  <2>1. link[u] \in Conns /\ up[link[u]] \in Seq(Frames)
    BY <1>2, Zenon DEF TypeOK
  <2>2. PICK n \in 0..Len(up[link[u]]) : up' = [up EXCEPT ![link[u]] = SubSeq(up[link[u]], 1, n)]
    BY <1>2, Zenon DEF Abandon
  <2>3. /\ SubSeq(up[link[u]], 1, n) \in Seq(Frames)
        /\ Range(SubSeq(up[link[u]], 1, n)) \subseteq Range(up[link[u]])
    BY <2>1, RangePrefix, Zenon
  <2> QED BY <2>1, <2>2, <2>3 DEF Abandon, TypeOK
<1> QED BY <1>1, <1>2, Zenon

-----------------------------------------------------------------------------
(* Type correctness *)

WorkType == [todo : Seq(Msgs), stage : {"open", "store", "commit"},
             fresh : BOOLEAN, acks : SUBSET Msgs]

\* The batch of inbound messages of each application.
LEMMA WorkTyped == TypeOK => work \in [Users -> WorkType]
  BY Zenon DEF TypeOK, WorkType

\* An application that is between two events.
LEMMA IdleType == Idle \in WorkType
  BY DEF Idle, WorkType

\* The batch an application works on keeps its type when a message is done.
LEMMA FinishLemma ==
  ASSUME TypeOK, NEW u \in Users, NEW S \in SUBSET Msgs, work[u].todo # <<>>, Finish(u, S)
  PROVE  /\ work' \in [Users -> WorkType]
         /\ \A v \in Users : v # u => work'[v] = work[v]
         /\ work'[u].todo = Tail(work[u].todo)
         /\ work'[u].stage = "open"
         /\ work'[u].acks = work[u].acks \cup S
         /\ Range(work'[u].todo) \subseteq Range(work[u].todo)
<1>1. work[u] \in WorkType /\ work \in [Users -> WorkType]
  BY Zenon DEF TypeOK, WorkType
<1>2. /\ Tail(work[u].todo) \in Seq(Msgs)
      /\ Range(Tail(work[u].todo)) \subseteq Range(work[u].todo)
  BY <1>1, RangeTail, Zenon DEF WorkType
<1> QED BY <1>1, <1>2, ZenonT(60) DEF Finish, WorkType

\* Every step keeps every variable in its type.
LEMMA TypeStep == TypeOK /\ [Next]_vars => TypeOK'
<1> SUFFICES ASSUME TypeOK, [Next]_vars PROVE TypeOK'
  BY Zenon
<1> USE DEF cryptoDb, appVars, relayDb, bounds
<1>1. ASSUME NEW u \in Users, HandleAuthed(u) PROVE TypeOK'
  <2>1. events' \in [Users -> Seq(Events)]
    BY <1>1, NextEventLemma, Zenon DEF HandleAuthed
  <2>2. outbox[u] \in Seq(Frames)
    BY ItemsAreFrames, Zenon DEF TypeOK
  <2>3. up' \in [Conns -> Seq(Frames)]
    BY <1>1, <2>2, EmitLemma, Zenon DEF HandleAuthed
  <2> QED BY <1>1, <2>1, <2>3, Zenon DEF TypeOK, HandleAuthed
<1>2. ASSUME NEW u \in Users, HandleLost(u) PROVE TypeOK'
  <2>1. events' \in [Users -> Seq(Events)]
    BY <1>2, NextEventLemma, Zenon DEF HandleLost
  <2> QED BY <1>2, <2>1, Zenon DEF TypeOK, HandleLost
<1>3. ASSUME NEW u \in Users, HandleSent(u) PROVE TypeOK'
  <2> DEFINE m == Head(events[u]).id
  <2>1. events' \in [Users -> Seq(Events)] /\ m \in Msgs
    BY <1>3, NextEventLemma, EventFields, Zenon DEF HandleSent
  <2>2. Without(outbox[u], Send(m)) \in Seq(Items)
    BY WithoutElem, Zenon DEF TypeOK
  <2>3. <<AckSent(m)>> \in Seq(Frames)
    <3>1. AckSent(m) \in Frames
      BY <2>1, SendTypes, Zenon
    <3> HIDE DEF m
    <3> QED BY <3>1, SMTT(60)
  <2>4. up' \in [Conns -> Seq(Frames)]
    BY <1>3, <2>3, EmitLemma, Zenon DEF HandleSent
  <2> QED BY <1>3, <2>1, <2>2, <2>4, Zenon DEF TypeOK, HandleSent
<1>4. ASSUME NEW u \in Users, HandleRejected(u) PROVE TypeOK'
  <2> DEFINE m == Head(events[u]).id
  <2>1. events' \in [Users -> Seq(Events)] /\ m \in Msgs
    BY <1>4, NextEventLemma, EventFields, Zenon DEF HandleRejected
  <2>2. Without(outbox[u], Send(m)) \in Seq(Items)
    BY WithoutElem, Zenon DEF TypeOK
  <2>3. outbox' \in [Users -> Seq(Items)]
    BY <1>4, <2>2, ZenonT(60) DEF HandleRejected, TypeOK
  <2>4. session' \in [Users -> SUBSET Users] /\ header' \in [Users -> SUBSET Users]
    <3>1. \/ UNCHANGED <<session, header>>
          \/ /\ session' = [session EXCEPT ![u] = @ \ {To[m]}]
             /\ header' = [header EXCEPT ![u] = @ \ {To[m]}]
      BY <1>4, Zenon DEF HandleRejected
    <3>2. session \in [Users -> SUBSET Users] /\ header \in [Users -> SUBSET Users]
      BY Zenon DEF TypeOK
    <3> QED BY <3>1, <3>2, SMTT(60)
  <2>5. rejected' \subseteq Msgs
    BY <1>4, <2>1, SMTT(60) DEF HandleRejected, TypeOK
  <2> QED BY <1>4, <2>1, <2>3, <2>4, <2>5, Zenon DEF TypeOK, HandleRejected
<1>5. ASSUME NEW u \in Users, HandleAcked(u) PROVE TypeOK'
  <2>1. events' \in [Users -> Seq(Events)]
    BY <1>5, NextEventLemma, Zenon DEF HandleAcked
  <2> DEFINE f == Ack(Head(events[u]).ack, Head(events[u]).ids)
  <2>2. Without(outbox[u], f) \in Seq(Items)
    BY WithoutElem, Zenon DEF TypeOK
  <2>3. outbox' \in [Users -> Seq(Items)]
    <3>1. outbox' = outbox \/ outbox' = [outbox EXCEPT ![u] = Without(outbox[u], f)]
      BY <1>5, Zenon DEF HandleAcked
    <3>2. outbox \in [Users -> Seq(Items)]
      BY Zenon DEF TypeOK
    <3> HIDE DEF f
    <3> QED BY <2>2, <3>1, <3>2, Zenon
  <2>4. processed' \in [Msgs -> {"none", "pending", "stored"}]
    <3>1. \/ processed' = processed
          \/ processed' = [m \in Msgs |-> IF m \in Head(events[u]).ids THEN "none"
                                          ELSE processed[m]]
      BY <1>5, Zenon DEF HandleAcked
    <3>2. processed \in [Msgs -> {"none", "pending", "stored"}]
      BY Zenon DEF TypeOK
    <3> QED BY <3>1, <3>2, Zenon
  <2> QED BY <1>5, <2>1, <2>3, <2>4, Zenon DEF TypeOK, HandleAcked
<1>6. ASSUME NEW u \in Users, TakeInbound(u) PROVE TypeOK'
  <2>1. events' \in [Users -> Seq(Events)] /\ Head(events[u]).msgs \in Seq(Msgs)
    BY <1>6, NextEventLemma, EventFields, Zenon DEF TakeInbound
  <2> QED BY <1>6, <2>1, ZenonT(60) DEF TypeOK, TakeInbound
<1>7. ASSUME NEW u \in Users, Open(u) PROVE TypeOK'
  <2>1. work[u].todo # <<>> /\ Current(u) \in Msgs
    BY <1>7 DEF Open, At, Current, TypeOK
  <2>2. From[Current(u)] \in Users
    BY <2>1, ParticipantsAssumption, Zenon
  <2>3. work' \in [Users -> WorkType]
    <3>1. \A S \in SUBSET Msgs : Finish(u, S) => work' \in [Users -> WorkType]
      BY <2>1, FinishLemma, Zenon
    <3>2. work' = [work EXCEPT ![u].stage = "store"] => work' \in [Users -> WorkType]
      BY WorkTyped, Zenon DEF WorkType
    <3> QED BY <1>7, <2>1, <3>1, <3>2, Zenon DEF Open
  <2>4. processed' \in [Msgs -> {"none", "pending", "stored"}] /\ consumed' \subseteq Msgs
    <3>1. \/ UNCHANGED <<processed, consumed>>
          \/ /\ processed' = [processed EXCEPT ![Current(u)] = "pending"]
             /\ consumed' = consumed \cup {Current(u)}
      BY <1>7, Zenon DEF Open
    <3>2. processed \in [Msgs -> {"none", "pending", "stored"}] /\ consumed \subseteq Msgs
      BY Zenon DEF TypeOK
    <3> QED BY <2>1, <3>1, <3>2, Zenon
  <2>5. session' \in [Users -> SUBSET Users]
    <3>1. session' = session \/ session' = [session EXCEPT ![u] = @ \cup {From[Current(u)]}]
      BY <1>7, Zenon DEF Open
    <3>2. session \in [Users -> SUBSET Users]
      BY Zenon DEF TypeOK
    <3> QED BY <2>2, <3>1, <3>2
  <2> QED BY <1>7, <2>3, <2>4, <2>5, Zenon DEF TypeOK, Open, WorkType
<1>8. ASSUME NEW u \in Users, Store(u) PROVE TypeOK'
  <2>1. Current(u) \in Msgs
    BY <1>8 DEF Store, At, Current, TypeOK
  <2>2. work' = [work EXCEPT ![u].stage = "commit", ![u].fresh = Current(u) \notin history[u]]
    BY <1>8, Zenon DEF Store
  <2>3. (Current(u) \notin history[u]) \in BOOLEAN
    OBVIOUS
  <2>4. work' \in [Users -> WorkType]
    BY <2>2, <2>3, WorkTyped, ZenonT(60) DEF WorkType
  <2>5. history' \in [Users -> SUBSET Msgs]
    BY <1>8, <2>1, Zenon DEF Store, TypeOK
  <2> QED BY <1>8, <2>4, <2>5, Zenon DEF TypeOK, Store, WorkType
<1>9. ASSUME NEW u \in Users, Commit(u) PROVE TypeOK'
  <2>1. work[u].todo # <<>> /\ Current(u) \in Msgs
    BY <1>9 DEF Commit, At, Current, TypeOK
  <2>2. work' \in [Users -> WorkType]
    BY <1>9, <2>1, FinishLemma, Zenon DEF Commit
  <2> QED BY <1>9, <2>1, <2>2, Zenon DEF TypeOK, Commit, WorkType
<1>10. ASSUME NEW u \in Users, QueueAck(u) PROVE TypeOK'
  <2>1. work' \in [Users -> WorkType]
    BY <1>10, IdleType, Zenon DEF QueueAck, TypeOK, WorkType
  <2>2. CASE HasRoom(u)
    <3> DEFINE a == CHOOSE x \in FreshAckIds : TRUE
    <3>1. a \in AckIds /\ work[u].acks \in SUBSET Msgs
      BY <1>10, <2>2, Zenon DEF QueueAck, FreshAckIds, TypeOK
    <3>2. Ack(a, work[u].acks) \in Items /\ <<Ack(a, work[u].acks)>> \in Seq(Frames)
      BY <3>1 DEF Items, Frames, Ack
    <3>3. up' \in [Conns -> Seq(Frames)]
      BY <1>10, <2>2, <3>2, EmitLemma, ZenonT(60) DEF QueueAck
    <3>4. outbox' = [outbox EXCEPT ![u] = Append(outbox[u], Ack(a, work[u].acks))]
      BY <1>10, <2>2, Zenon DEF QueueAck
    <3>5. outbox' \in [Users -> Seq(Items)]
      BY <3>2, <3>4, RangeAppend, Zenon DEF TypeOK
    <3>6. UNCHANGED <<kind, session, header, processed, consumed, history, unread,
                      authed, events, link, relayDb, reg, task, rejected, bounds>>
      BY <1>10, Zenon DEF QueueAck
    <3> QED BY <2>1, <3>3, <3>5, <3>6, Zenon DEF TypeOK, WorkType, relayDb, bounds
  <2>3. CASE ~HasRoom(u)
    BY <1>10, <2>1, <2>3, ZenonT(60) DEF TypeOK, QueueAck, WorkType
  <2> QED BY <2>2, <2>3, Zenon
<1>11. ASSUME NEW u \in Users, Disconnect(u) PROVE TypeOK'
  <2>1. up' \in [Conns -> Seq(Frames)] /\ link' = [link EXCEPT ![u] = NoConn]
        /\ drops' \in [Users -> Nat]
    BY <1>11, AbandonLemma, Zenon DEF Disconnect
  <2>2. PICK n \in 0..Len(events[u]) :
          events' = [events EXCEPT ![u] = Append(SubSeq(events[u], 1, n), Lost)]
    BY <1>11, ZenonT(60) DEF Disconnect
  <2>3. events[u] \in Seq(Events)
    BY Zenon DEF TypeOK
  <2>4. SubSeq(events[u], 1, n) \in Seq(Events)
    BY <2>3, RangePrefix, Zenon
  <2>5. Append(SubSeq(events[u], 1, n), Lost) \in Seq(Events)
    BY <2>4, RangeAppend, Zenon DEF Events
  <2> QED BY <1>11, <2>1, <2>2, <2>5, Zenon DEF TypeOK, Disconnect
<1>12. ASSUME NEW u \in Users, Crash(u) PROVE TypeOK'
  <2>1. up' \in [Conns -> Seq(Frames)] /\ link' = [link EXCEPT ![u] = NoConn]
        /\ drops' \in [Users -> Nat]
    BY <1>12, AbandonLemma, ZenonT(60) DEF Crash
  <2>2. work' \in [Users -> WorkType]
    BY <1>12, IdleType, Zenon DEF Crash, TypeOK, WorkType
  <2>3. events' \in [Users -> Seq(Events)]
    <3>1. events \in [Users -> Seq(Events)] /\ events' = [events EXCEPT ![u] = <<>>]
      BY <1>12, Zenon DEF TypeOK, Crash
    <3> QED BY <3>1
  <2>4. authed' \in [Users -> BOOLEAN] /\ unread' \in [Users -> SUBSET Msgs]
    BY <1>12, Zenon DEF TypeOK, Crash
  <2>5. link' \in [Users -> Conns \cup {NoConn}]
    BY <2>1, Zenon DEF TypeOK
  <2> QED BY <1>12, <2>1, <2>2, <2>3, <2>4, <2>5, Zenon DEF TypeOK, Crash, WorkType
<1>13. ASSUME NEW u \in Users, ClientFault(u) PROVE TypeOK'
  <2>1. work' \in [Users -> WorkType]
    BY <1>13, IdleType, FinishLemma, ZenonT(60) DEF ClientFault, TypeOK, WorkType
  <2>2. events' \in [Users -> Seq(Events)]
    BY <1>13, NextEventLemma, Zenon DEF ClientFault, TypeOK
  <2>3. faults' \in Nat
    <3>1. faults \in Nat /\ faults' = faults + 1
      BY <1>13, Zenon DEF ClientFault, TypeOK
    <3> QED BY <3>1
  <2> QED BY <1>13, <2>1, <2>2, <2>3, ZenonT(60) DEF TypeOK, ClientFault, WorkType
<1>14. ASSUME NEW u \in Users, NEW p \in Users, StartSession(u, p) PROVE TypeOK'
  <2>1. session' \in [Users -> SUBSET Users] /\ header' \in [Users -> SUBSET Users]
    BY <1>14, Zenon DEF TypeOK, StartSession
  <2>2. UNCHANGED <<kind, outbox, processed, consumed, history, unread, authed, events,
                    work, link, row, ledger, itemCount, refused, reg, up, task, rejected,
                    expired, drops, faults>>
    BY <1>14, Zenon DEF StartSession, appVars, relayDb, bounds
  <2> QED BY <2>1, <2>2, ZenonT(60) DEF TypeOK
<1>15. ASSUME NEW u \in Users, NEW p \in Users, ExpireSession(u, p) PROVE TypeOK'
  BY <1>15, Zenon DEF TypeOK, ExpireSession
<1>16. ASSUME NEW u \in Users, NEW m \in Msgs, Compose(u, m) PROVE TypeOK'
  <2>1. Append(outbox[u], Send(m)) \in Seq(Items)
    BY SendTypes, RangeAppend, Zenon DEF TypeOK
  <2>2. <<Send(m)>> \in Seq(Frames)
    BY SendTypes, SMTT(60)
  <2>3. up' \in [Conns -> Seq(Frames)]
    BY <1>16, <2>2, EmitLemma, ZenonT(60) DEF Compose
  <2> QED BY <1>16, <2>1, <2>3, ZenonT(60) DEF TypeOK, Compose
<1>17. ASSUME NEW u \in Users, NEW c \in Conns, Authenticate(u, c) PROVE TypeOK'
  <2>1. Append(events[u], Authed) \in Seq(Events)
    BY RangeAppend, Zenon DEF TypeOK, Events
  <2>2. Scanning(0, 0, <<>>) \in Tasks
    BY SMTT(60) DEF Tasks, Scanning
  <2> QED BY <1>17, <2>1, <2>2, Zenon DEF TypeOK, Authenticate
<1>18. ASSUME NEW c \in Conns, ScanRow(c) PROVE TypeOK'
  <2>1. task[c].page \in Seq(Msgs) /\ task[c].visited \in Nat
    BY <1>18, TaskFields, ZenonT(60) DEF TypeOK, ScanRow
  <2>2. PICK m \in NextPending(Owner[c], task[c].cursor), full \in BOOLEAN :
          /\ task' = [task EXCEPT ![c] =
               Scanning(row[m], task[c].visited + 1,
                        IF full THEN <<m>> ELSE Append(task[c].page, m))]
          /\ Deliver(c, IF full THEN <<Inbound(task[c].page)>> ELSE <<>>)
    BY <1>18, ZenonT(60) DEF ScanRow
  <2>3. m \in Msgs /\ row[m] \in Nat
    BY Zenon DEF NextPending, QueueOf, TypeOK
  <2>4. (IF full THEN <<m>> ELSE Append(task[c].page, m)) \in Seq(Msgs)
    BY <2>1, <2>3, RangeAppend, SMTT(60)
  <2>5. task' \in [Conns -> Tasks]
    <3>1. Scanning(row[m], task[c].visited + 1,
                   IF full THEN <<m>> ELSE Append(task[c].page, m)) \in Tasks
      BY <2>1, <2>3, <2>4 DEF Tasks, Scanning
    <3> QED BY <2>2, <3>1, Zenon DEF TypeOK
  <2>6. (IF full THEN <<Inbound(task[c].page)>> ELSE <<>>) \in Seq(Events)
    BY <2>1, InboundType, SMTT(60)
  <2>7. events' \in [Users -> Seq(Events)]
    BY <2>2, <2>6, DeliverLemma, ZenonT(60)
  <2> QED BY <1>18, <2>5, <2>7, ZenonT(60) DEF TypeOK, ScanRow
<1>19. ASSUME NEW c \in Conns, EndScan(c) PROVE TypeOK'
  <2>1. task[c].page \in Seq(Msgs)
    BY <1>19, TaskFields, Zenon DEF TypeOK, EndScan
  <2>2. (IF task[c].page = <<>> THEN <<>> ELSE <<Inbound(task[c].page)>>) \in Seq(Events)
    BY <2>1, InboundType, SMTT(60)
  <2>3. events' \in [Users -> Seq(Events)]
    BY <1>19, <2>2, DeliverLemma, ZenonT(60) DEF EndScan
  <2>4. task' \in [Conns -> Tasks]
    BY <1>19, TaskTypes, ZenonT(60) DEF TypeOK, EndScan
  <2> QED BY <1>19, <2>3, <2>4, ZenonT(60) DEF TypeOK, EndScan
<1>20. ASSUME NEW c \in Conns, SendConfirmation(c) PROVE TypeOK'
  <2>1. task[c].left \in SUBSET Msgs
    BY <1>20, TaskFields, Zenon DEF TypeOK, SendConfirmation
  <2>2. \A m \in Msgs : <<Sent(m)>> \in Seq(Events)
    BY SendTypes, SMTT(60)
  <2>3. events' \in [Users -> Seq(Events)]
    BY <1>20, <2>1, <2>2, DeliverLemma, ZenonT(60) DEF SendConfirmation, TypeOK
  <2>4. task' \in [Conns -> Tasks]
    <3>1. \A m \in task[c].left : Confirming(task[c].left \ {m}) \in Tasks
      BY <2>1, Zenon DEF Tasks, Confirming
    <3> QED BY <1>20, <3>1, TaskTypes, ZenonT(60) DEF TypeOK, SendConfirmation
  <2> QED BY <1>20, <2>3, <2>4, ZenonT(60) DEF TypeOK, SendConfirmation
<1>21. ASSUME NEW c \in Conns, ReadFrame(c) PROVE TypeOK'
  <2>1. up[c] \in Seq(Frames) /\ up[c] # <<>>
    BY <1>21, Zenon DEF ReadFrame, TypeOK
  <2>2. Tail(up[c]) \in Seq(Frames) /\ Head(up[c]) \in Frames
    BY <2>1, SMTT(60)
  <2> QED BY <1>21, <2>2, TaskTypes, ZenonT(60) DEF TypeOK, ReadFrame
<1>22. ASSUME NEW c \in Conns, Enqueue(c) PROVE TypeOK'
  <2> DEFINE m == task[c].frame.id
  <2>1. m \in Msgs
    BY <1>22, TaskFields, FrameFields, Zenon DEF Enqueue, Handles, TypeOK
  <2>2. <<Rejected(m)>> \in Seq(Events)
    BY <2>1, SendTypes, SMTT(60)
  <2>3. events' \in [Users -> Seq(Events)]
    BY <1>22, <2>2, DeliverLemma, ZenonT(60) DEF Enqueue, TypeOK
  <2>4. task' \in [Conns -> Tasks]
    BY <1>22, <2>1, TaskTypes, ZenonT(60) DEF TypeOK, Enqueue
  <2>5. /\ row' \in [Msgs -> Nat] /\ ledger' \subseteq Msgs /\ itemCount' \in Nat
        /\ refused' \subseteq Msgs /\ expired' \subseteq Msgs
    <3>1. 1..MaxRow \subseteq Nat
      OBVIOUS
    <3>2. /\ row \in [Msgs -> Nat] /\ ledger \subseteq Msgs /\ itemCount \in Nat
          /\ refused \subseteq Msgs /\ expired \subseteq Msgs
      BY Zenon DEF TypeOK
    <3>3. \/ UNCHANGED relayDb
          \/ Accept(m)
          \/ refused' = refused \cup {m} /\ UNCHANGED <<row, ledger, itemCount, expired>>
      BY <1>22, Zenon DEF Enqueue
    <3> HIDE DEF m
    <3>4. CASE UNCHANGED relayDb
      BY <3>2, <3>4, Zenon DEF relayDb
    <3>5. CASE Accept(m)
      <4>1. itemCount' \in Nat
        BY <3>2, <3>5 DEF Accept
      <4>2. row' \in [Msgs -> Nat]
        BY <2>1, <3>1, <3>2, <3>5, Zenon DEF Accept
      <4> QED BY <2>1, <3>2, <3>5, <4>1, <4>2, Zenon DEF Accept
    <3>6. CASE refused' = refused \cup {m} /\ UNCHANGED <<row, ledger, itemCount, expired>>
      BY <2>1, <3>2, <3>6, Zenon
    <3> QED BY <3>3, <3>4, <3>5, <3>6, Zenon
  <2> QED BY <1>22, <2>3, <2>4, <2>5, ZenonT(60) DEF TypeOK, Enqueue
<1>23. ASSUME NEW c \in Conns, Push(c) PROVE TypeOK'
  <2>1. task[c].id \in Msgs
    <3>1. task[c] \in Tasks
      BY Zenon DEF TypeOK
    <3>2. task[c].st = "push"
      BY <1>23, Zenon DEF Push
    <3> QED BY <3>1, <3>2, TaskFields, Zenon
  <2>2. Sent(task[c].id) \in Events /\ Inbound(<<task[c].id>>) \in Events
    <3>1. <<task[c].id>> \in Seq(Msgs)
      BY <2>1, SMTT(60)
    <3> QED BY <2>1, <3>1, SendTypes, InboundType, Zenon
  <2>3. events' \in [Users -> Seq(Events)]
    <3>1. \A u \in Users : /\ Append(events[u], Sent(task[c].id)) \in Seq(Events)
                           /\ Append(events[u], Inbound(<<task[c].id>>)) \in Seq(Events)
                           /\ events[u] \in Seq(Events)
      BY <2>2, RangeAppend, Zenon DEF TypeOK
    <3> QED BY <1>23, <3>1, Zenon DEF Push
  <2> QED BY <1>23, <2>3, TaskTypes, ZenonT(60) DEF TypeOK, Push
<1>24. ASSUME NEW c \in Conns, DeleteAcked(c) PROVE TypeOK'
  <2>1. task[c].frame.ack \in AckIds /\ task[c].frame.ids \in SUBSET Msgs
    BY <1>24, TaskFields, FrameFields, Zenon DEF DeleteAcked, Handles, TypeOK
  <2>2. <<Acked(task[c].frame.ack, task[c].frame.ids)>> \in Seq(Events)
    <3>1. Acked(task[c].frame.ack, task[c].frame.ids) \in Events
      BY <2>1, ZenonT(60) DEF Events, Acked
    <3> QED BY <3>1, SMTT(60)
  <2>3. events' \in [Users -> Seq(Events)]
    BY <1>24, <2>2, DeliverLemma, ZenonT(60) DEF DeleteAcked
  <2> QED BY <1>24, <2>3, TaskTypes, ZenonT(60) DEF TypeOK, DeleteAcked
<1>25. ASSUME NEW c \in Conns, ConfirmAcceptance(c) PROVE TypeOK'
  <2>1. itemCount' \in Nat
    <3>1. itemCount \in Nat
      BY Zenon DEF TypeOK
    <3>2. itemCount' = itemCount \/ (itemCount > 0 /\ itemCount' = itemCount - 1)
      BY <1>25, ZenonT(60) DEF ConfirmAcceptance
    <3> QED BY <3>1, <3>2, SMTT(60)
  <2>2. ledger' \subseteq Msgs
    BY <1>25, ZenonT(60) DEF ConfirmAcceptance, TypeOK
  <2> QED BY <1>25, <2>1, <2>2, TaskTypes, Zenon DEF TypeOK, ConfirmAcceptance
<1>26. ASSUME NEW c \in Conns, CloseConn(c) PROVE TypeOK'
  <2>1. Owner[c] \in Users
    BY ParticipantsAssumption, Zenon
  <2>2. up' \in [Conns -> Seq(Frames)]
    <3>1. up \in [Conns -> Seq(Frames)] /\ up' = [up EXCEPT ![c] = <<>>]
      BY <1>26, ZenonT(60) DEF CloseConn, TypeOK
    <3> QED BY <3>1
  <2>3. reg' \in [Users -> Conns \cup {NoConn}]
    <3>1. reg \in [Users -> Conns \cup {NoConn}]
      BY Zenon DEF TypeOK
    <3>2. reg' = reg \/ reg' = [reg EXCEPT ![Owner[c]] = NoConn]
      BY <1>26, Zenon DEF CloseConn
    <3> QED BY <2>1, <3>1, <3>2, Zenon
  <2>4. task' \in [Conns -> Tasks]
    BY <1>26, TaskTypes, ZenonT(60) DEF CloseConn, TypeOK
  <2> QED BY <1>26, <2>2, <2>3, <2>4, Zenon DEF TypeOK, CloseConn
<1>27. ASSUME NEW c \in Conns, RelayFault(c) PROVE TypeOK'
  <2>1. Confirming({m \in ledger : From[m] = Owner[c]}) \in Tasks
    BY ZenonT(60) DEF Tasks, Confirming, TypeOK
  <2>2. task' \in [Conns -> Tasks]
    BY <1>27, <2>1, TaskTypes, ZenonT(60) DEF RelayFault, TypeOK
  <2>3. faults' \in Nat
    <3>1. faults \in Nat /\ faults' = faults + 1
      BY <1>27, ZenonT(60) DEF RelayFault, TypeOK
    <3> QED BY <3>1
  <2> QED BY <1>27, <2>2, <2>3, ZenonT(60) DEF TypeOK, RelayFault
<1>28. ASSUME NEW m \in Msgs, CollectGarbage(m) PROVE TypeOK'
  BY <1>28, ZenonT(60) DEF TypeOK, CollectGarbage
<1>29. CASE UNCHANGED vars
  BY <1>29, ZenonT(60) DEF TypeOK, vars
<1> QED
  BY <1>1, <1>2, <1>3, <1>4, <1>5, <1>6, <1>7, <1>8, <1>9, <1>10, <1>11, <1>12,
     <1>13, <1>14, <1>15, <1>16, <1>17, <1>18, <1>19, <1>20, <1>21, <1>22, <1>23,
     <1>24, <1>25, <1>26, <1>27, <1>28, <1>29, Zenon DEF Next, AppStep, RelayStep

\* Initially every variable is in its type.
LEMMA TypeInit == Init => TypeOK
<1> SUFFICES ASSUME Init PROVE TypeOK
  OBVIOUS
<1>1. work \in [Users -> WorkType]
  BY IdleType, Zenon DEF Init
<1>2. task \in [Conns -> Tasks]
  BY TaskTypes, Zenon DEF Init
<1>3. /\ outbox \in [Users -> Seq(Items)] /\ events \in [Users -> Seq(Events)]
      /\ up \in [Conns -> Seq(Frames)]
  BY DEF Init
<1> QED BY <1>1, <1>2, <1>3, Zenon DEF Init, TypeOK, WorkType

-----------------------------------------------------------------------------
(* What a step may write *)

\* How the databases may change.
Mono ==
  /\ \A m \in Msgs : kind[m] # "none" => kind'[m] # "none"
  /\ \A u \in Users : history[u] \subseteq history'[u]
  /\ \A m \in Msgs : Accepted(m) => Accepted(m)'
  /\ refused \subseteq refused'
  /\ \A m \in Msgs : Accepted(m) /\ ~InOutbox(m) => ~InOutbox(m)'

-----------------------------------------------------------------------------
(* Which operations write which variable *)

WritesOutbox(u) ==
  \/ \E m \in Msgs : Compose(u, m)
  \/ HandleSent(u) \/ HandleRejected(u) \/ HandleAcked(u) \/ QueueAck(u)

WritesWork(u) ==
  \/ TakeInbound(u) \/ Open(u) \/ Store(u) \/ Commit(u) \/ QueueAck(u)
  \/ ClientFault(u) \/ Crash(u)

WritesUp ==
  \/ \E u \in Users : \/ \E m \in Msgs : Compose(u, m)
                      \/ HandleAuthed(u) \/ HandleSent(u) \/ QueueAck(u)
                      \/ Disconnect(u) \/ Crash(u)
  \/ \E c \in Conns : CloseConn(c) \/ ReadFrame(c)

EventTypes == {"authed", "lost", "inbound", "sent", "rejected", "acked"}

WritesEvents ==
  \/ \E u \in Users : \/ \E type \in EventTypes : NextEvent(u, type)
                      \/ \E c \in Conns : Authenticate(u, c)
                      \/ Disconnect(u) \/ Crash(u)
  \/ \E c \in Conns : ScanRow(c) \/ EndScan(c) \/ SendConfirmation(c) \/ Enqueue(c)
                      \/ Push(c) \/ DeleteAcked(c)

WritesTask(c) ==
  \/ \E u \in Users : Authenticate(u, c)
  \/ CloseConn(c) \/ ScanRow(c) \/ EndScan(c) \/ SendConfirmation(c) \/ ReadFrame(c)
  \/ Enqueue(c) \/ Push(c) \/ DeleteAcked(c) \/ ConfirmAcceptance(c) \/ RelayFault(c)

Writers ==
  /\ kind' = kind \/ \E u \in Users, m \in Msgs : Compose(u, m)
  /\ outbox' = outbox \/ \E u \in Users : WritesOutbox(u)
  /\ processed' = processed \/ \E u \in Users : Open(u) \/ Commit(u) \/ HandleAcked(u)
  /\ consumed' = consumed \/ \E u \in Users : Open(u)
  /\ history' = history \/ \E u \in Users : Store(u)
  /\ work' = work \/ \E u \in Users : WritesWork(u)
  /\ link' = link \/ \E u \in Users : \/ \E c \in Conns : Authenticate(u, c)
                                      \/ Disconnect(u) \/ Crash(u)
  /\ row' = row \/ (\E c \in Conns : Enqueue(c) \/ DeleteAcked(c))
                \/ (\E m \in Msgs : CollectGarbage(m))
  /\ ledger' = ledger \/ \E c \in Conns : Enqueue(c) \/ ConfirmAcceptance(c)
  /\ refused' = refused \/ \E c \in Conns : Enqueue(c)
  /\ expired' = expired \/ \E m \in Msgs : CollectGarbage(m)
  /\ rejected' = rejected \/ \E u \in Users : HandleRejected(u)
  /\ events' = events \/ WritesEvents
  /\ up' = up \/ WritesUp
  /\ task' = task \/ \E c \in Conns : WritesTask(c)

\* Every other operation leaves the variable alone.
LEMMA WritersStep == [Next]_vars => Writers
<1> SUFFICES ASSUME [Next]_vars PROVE Writers
  OBVIOUS
<1> USE DEF cryptoDb, appVars, relayDb, bounds, Writers, WritesOutbox, WritesWork, WritesUp, WritesEvents,
           EventTypes, WritesTask
<1>1. ASSUME NEW u \in Users, HandleAuthed(u) PROVE Writers
  BY <1>1, Zenon DEF HandleAuthed
<1>2. ASSUME NEW u \in Users, HandleLost(u) PROVE Writers
  BY <1>2, Zenon DEF HandleLost
<1>3. ASSUME NEW u \in Users, HandleSent(u) PROVE Writers
  BY <1>3, Zenon DEF HandleSent
<1>4. ASSUME NEW u \in Users, HandleRejected(u) PROVE Writers
  BY <1>4, Zenon DEF HandleRejected
<1>5. ASSUME NEW u \in Users, HandleAcked(u) PROVE Writers
  BY <1>5, Zenon DEF HandleAcked
<1>6. ASSUME NEW u \in Users, TakeInbound(u) PROVE Writers
  BY <1>6, Zenon DEF TakeInbound
<1>7. ASSUME NEW u \in Users, Open(u) PROVE Writers
  BY <1>7, Zenon DEF Open
<1>8. ASSUME NEW u \in Users, Store(u) PROVE Writers
  BY <1>8, Zenon DEF Store
<1>9. ASSUME NEW u \in Users, Commit(u) PROVE Writers
  BY <1>9, Zenon DEF Commit
<1>10. ASSUME NEW u \in Users, QueueAck(u) PROVE Writers
  BY <1>10, Zenon DEF QueueAck
<1>11. ASSUME NEW u \in Users, Disconnect(u) PROVE Writers
  BY <1>11, Zenon DEF Disconnect
<1>12. ASSUME NEW u \in Users, Crash(u) PROVE Writers
  BY <1>12, ZenonT(60) DEF Crash
<1>13. ASSUME NEW u \in Users, ClientFault(u) PROVE Writers
  BY <1>13, Zenon DEF ClientFault
<1>14. ASSUME NEW u \in Users, NEW p \in Users, StartSession(u, p) PROVE Writers
  BY <1>14, Zenon DEF StartSession
<1>15. ASSUME NEW u \in Users, NEW p \in Users, ExpireSession(u, p) PROVE Writers
  BY <1>15, Zenon DEF ExpireSession
<1>16. ASSUME NEW u \in Users, NEW m \in Msgs, Compose(u, m) PROVE Writers
  BY <1>16, Zenon DEF Compose
<1>17. ASSUME NEW u \in Users, NEW c \in Conns, Authenticate(u, c) PROVE Writers
  BY <1>17, ZenonT(60) DEF Authenticate
<1>18. ASSUME NEW c \in Conns, ScanRow(c) PROVE Writers
  BY <1>18, ZenonT(60) DEF ScanRow
<1>19. ASSUME NEW c \in Conns, EndScan(c) PROVE Writers
  BY <1>19, Zenon DEF EndScan
<1>20. ASSUME NEW c \in Conns, SendConfirmation(c) PROVE Writers
  BY <1>20, ZenonT(60) DEF SendConfirmation
<1>21. ASSUME NEW c \in Conns, ReadFrame(c) PROVE Writers
  BY <1>21, Zenon DEF ReadFrame
<1>22. ASSUME NEW c \in Conns, Enqueue(c) PROVE Writers
  BY <1>22, ZenonT(60) DEF Enqueue, Accept
<1>23. ASSUME NEW c \in Conns, Push(c) PROVE Writers
  BY <1>23, ZenonT(60) DEF Push
<1>24. ASSUME NEW c \in Conns, DeleteAcked(c) PROVE Writers
  BY <1>24, ZenonT(60) DEF DeleteAcked
<1>25. ASSUME NEW c \in Conns, ConfirmAcceptance(c) PROVE Writers
  BY <1>25, ZenonT(60) DEF ConfirmAcceptance
<1>26. ASSUME NEW c \in Conns, CloseConn(c) PROVE Writers
  BY <1>26, ZenonT(60) DEF CloseConn
<1>27. ASSUME NEW c \in Conns, RelayFault(c) PROVE Writers
  BY <1>27, ZenonT(60) DEF RelayFault
<1>28. ASSUME NEW m \in Msgs, CollectGarbage(m) PROVE Writers
  BY <1>28, Zenon DEF CollectGarbage
<1>29. CASE UNCHANGED vars
  BY <1>29, Zenon DEF vars
<1> QED
  BY <1>1, <1>2, <1>3, <1>4, <1>5, <1>6, <1>7, <1>8, <1>9, <1>10, <1>11, <1>12,
     <1>13, <1>14, <1>15, <1>16, <1>17, <1>18, <1>19, <1>20, <1>21, <1>22, <1>23,
     <1>24, <1>25, <1>26, <1>27, <1>28, <1>29, ZenonT(60) DEF Next, AppStep, RelayStep

-----------------------------------------------------------------------------
(* The databases only move forward *)

\* Fields of the frames and events that carry one message.
LEMMA Constructors ==
  ASSUME NEW m
  PROVE  /\ Send(m).type = "send" /\ Send(m).id = m
         /\ AckSent(m).type = "acksent" /\ AckSent(m).id = m
         /\ Sent(m).type = "sent" /\ Sent(m).id = m
         /\ Rejected(m).type = "rejected" /\ Rejected(m).id = m
         /\ Pushing(m).st = "push" /\ Pushing(m).id = m
  BY Zenon DEF Send, AckSent, Sent, Rejected, Pushing

\* Composing a message is the only way into an outbox, and the only operation
\* that is not about a message already encrypted.
LEMMA OutboxGrows ==
  ASSUME TypeOK, Writers, NEW m \in Msgs, InOutbox(m)', ~InOutbox(m)
  PROVE  Compose(From[m], m)
<1>1. From[m] \in Users
  BY ParticipantsAssumption, Zenon
<1> DEFINE v == From[m]
<1>2. outbox[v] \in Seq(Items)
  BY <1>1, Zenon DEF TypeOK
<1>3. PICK u \in Users : WritesOutbox(u)
  BY Zenon DEF Writers, InOutbox
<1>4. ASSUME NEW f, outbox' = [outbox EXCEPT ![u] = Without(@, f)] PROVE FALSE
  <2>1. CASE u = v
    <3>1. outbox'[v] = Without(outbox[v], f)
      BY <1>1, <1>4, <2>1, Zenon DEF TypeOK
    <3>2. Range(Without(outbox[v], f)) \subseteq Range(outbox[v])
      BY <1>2, WithoutElem, Zenon
    <3> QED BY <3>1, <3>2, Zenon DEF InOutbox
  <2>2. CASE u # v
    <3>1. outbox'[v] = outbox[v]
      BY <1>1, <1>4, <2>2, Zenon DEF TypeOK
    <3> QED BY <3>1, Zenon DEF InOutbox
  <2> QED BY <2>1, <2>2, Zenon
<1>5. ASSUME NEW f \in Items, outbox' = [outbox EXCEPT ![u] = Append(@, f)]
      PROVE  u = v /\ f = Send(m)
  <2>1. CASE u = v
    <3>1. outbox'[v] = Append(outbox[v], f)
      BY <1>1, <1>5, <2>1, Zenon DEF TypeOK
    <3>2. Range(Append(outbox[v], f)) = Range(outbox[v]) \cup {f}
      BY <1>2, RangeAppend
    <3> QED BY <2>1, <3>1, <3>2, Zenon DEF InOutbox
  <2>2. CASE u # v
    <3>1. outbox'[v] = outbox[v]
      BY <1>1, <1>5, <2>2, Zenon DEF TypeOK
    <3> QED BY <3>1, Zenon DEF InOutbox
  <2> QED BY <2>1, <2>2, Zenon
<1>6. CASE HandleSent(u)
  BY <1>4, <1>6, Zenon DEF HandleSent
<1>7. CASE HandleRejected(u)
  BY <1>4, <1>7, Zenon DEF HandleRejected, InOutbox
<1>8. CASE HandleAcked(u)
  BY <1>4, <1>8, Zenon DEF HandleAcked, InOutbox
<1>9. CASE QueueAck(u)
  <2>1. CASE HasRoom(u)
    <3> DEFINE f == Ack(CHOOSE a \in FreshAckIds : TRUE, work[u].acks)
    <3>1. outbox' = [outbox EXCEPT ![u] = Append(@, f)]
      BY <1>9, <2>1, Zenon DEF QueueAck
    <3>2. f \in Items
      <4>1. (CHOOSE a \in FreshAckIds : TRUE) \in AckIds /\ work[u].acks \in SUBSET Msgs
        BY <1>9, <2>1, Zenon DEF QueueAck, FreshAckIds, TypeOK
      <4> QED BY <4>1, Zenon DEF Items, Ack
    <3>3. f.type = "ack"
      BY Zenon DEF Ack
    <3> HIDE DEF f
    <3> QED BY <1>5, <3>1, <3>2, <3>3, Constructors, Zenon
  <2>2. CASE ~HasRoom(u)
    BY <1>9, <2>2, Zenon DEF QueueAck, InOutbox
  <2> QED BY <2>1, <2>2, Zenon
<1>10. ASSUME NEW x \in Msgs, Compose(u, x) PROVE Compose(v, m)
  <2>1. outbox' = [outbox EXCEPT ![u] = Append(@, Send(x))] /\ Send(x) \in Items
    BY <1>10, SendTypes, Zenon DEF Compose
  <2>2. u = v /\ Send(x) = Send(m)
    BY <1>5, <2>1, Zenon
  <2>3. x = m
    BY <2>2, Constructors
  <2> QED BY <1>10, <2>2, <2>3, Zenon
<1> QED BY <1>3, <1>6, <1>7, <1>8, <1>9, <1>10, Zenon DEF WritesOutbox

\* The relay takes a message over only by accepting its sender's frame.
LEMMA AcceptedGrows ==
  ASSUME IInv, Writers, NEW m \in Msgs, Accepted(m)', ~Accepted(m)
  PROVE  /\ m \notin refused /\ refused' = refused
         /\ kind[m] # "none" /\ m \in ledger'
         /\ \E c \in Conns : Enqueue(c)
<1>t. TypeOK
  BY Zenon DEF IInv
<1>1. ASSUME Stored(m)', ~Stored(m) PROVE FALSE
  <2>1. PICK u \in Users : Store(u)
    BY <1>1, Zenon DEF Writers, Stored
  <2>2. m = Current(u)
    <3>1. history' = [history EXCEPT ![u] = @ \cup {Current(u)}] /\ To[m] \in Users
      BY <2>1, ParticipantsAssumption, Zenon DEF Store
    <3>2. history \in [Users -> SUBSET Msgs]
      BY <1>t, Zenon DEF TypeOK
    <3> QED BY <1>1, <3>1, <3>2, Zenon DEF Stored
  <2>3. work[u].todo \in Seq(Msgs) /\ work[u].todo # <<>>
    BY <1>t, <2>1, WorkTyped, Zenon DEF WorkType, Store, At
  <2>4. Current(u) \in Range(work[u].todo)
    BY <2>3, RangeTail, Zenon DEF Current
  <2>5. Accepted(m)
    BY <2>2, <2>4, Zenon DEF IInv, InTransitOK, WorkOK, Deliverable
  <2> QED BY <2>5, Zenon
<1>2. ASSUME m \in expired', m \notin expired PROVE FALSE
  <2>1. PICK x \in Msgs : CollectGarbage(x)
    BY <1>2, Zenon DEF Writers
  <2> QED BY <1>2, <2>1, Zenon DEF CollectGarbage, Accepted
<1>3. row'[m] # 0 /\ row[m] = 0
  BY <1>1, <1>2, Zenon DEF Accepted
<1>4. row \in [Msgs -> Nat]
  BY <1>t, Zenon DEF TypeOK
<1>5. ASSUME NEW x \in Msgs, CollectGarbage(x) PROVE FALSE
  BY <1>3, <1>4, <1>5, Zenon DEF CollectGarbage
<1>6. ASSUME NEW c \in Conns, DeleteAcked(c) PROVE FALSE
  BY <1>3, <1>4, <1>6, Zenon DEF DeleteAcked
<1>7. PICK c \in Conns : Enqueue(c)
  BY <1>3, <1>5, <1>6, Zenon DEF Writers
<1> DEFINE x == task[c].frame.id
<1>8. /\ row' # row
      /\ Handles(c, "send")
  BY <1>3, <1>7, Zenon DEF Enqueue
<1>9. x \notin refused /\ Accept(x)
  BY <1>7, <1>8, Zenon DEF Enqueue, relayDb
<1>10. m = x
  BY <1>3, <1>4, <1>9, Zenon DEF Accept
<1>11. FrameOK(Owner[c], task[c].frame)
  BY <1>8, ZenonT(60) DEF Handles, IInv, InTransitOK, TaskOK
<1>12. kind[x] # "none"
  BY <1>8, <1>11, Zenon DEF FrameOK, Handles
<1> HIDE DEF x
<1> QED BY <1>7, <1>9, <1>10, <1>12, Zenon DEF Accept

\* A history only grows.
LEMMA HistoryGrows ==
  ASSUME TypeOK, Writers, NEW u \in Users
  PROVE  history[u] \subseteq history'[u]
<1>1. ASSUME NEW v \in Users, Store(v) PROVE history[u] \subseteq history'[u]
  <2>1. history' = [history EXCEPT ![v] = @ \cup {Current(v)}]
    BY <1>1, Zenon DEF Store
  <2>2. history \in [Users -> SUBSET Msgs]
    BY Zenon DEF TypeOK
  <2> QED BY <2>1, <2>2, Zenon
<1> QED BY <1>1, Zenon DEF Writers

\* A row leaves the queue only for a message its recipient has stored, or at
\* the end of its 30 days.
LEMMA RowLeaves ==
  ASSUME IInv, Writers, NEW m \in Msgs, row[m] # 0, row'[m] = 0
  PROVE  Stored(m) \/ m \in expired'
<1>1. row \in [Msgs -> Nat]
  BY Zenon DEF IInv, TypeOK
<1>2. ASSUME NEW x \in Msgs, CollectGarbage(x) PROVE m \in expired'
  BY <1>1, <1>2, Zenon DEF CollectGarbage
<1>3. ASSUME NEW c \in Conns, DeleteAcked(c) PROVE Stored(m)
  <2>1. m \in task[c].frame.ids /\ To[m] = Owner[c]
    BY <1>1, <1>3, Zenon DEF DeleteAcked
  <2>2. TaskOK(Owner[c], task[c])
    BY Zenon DEF IInv, InTransitOK
  <2>3. task[c].frame.ids \subseteq history[Owner[c]]
    BY <1>3, <2>2, Zenon DEF TaskOK, FrameOK, DeleteAcked, Handles
  <2> QED BY <2>1, <2>3, Zenon DEF Stored
<1>4. ASSUME NEW c \in Conns, Enqueue(c) PROVE FALSE
  <2>1. row' # row
    BY Zenon
  <2>2. PICK x : Accept(x)
    BY <1>4, <2>1, Zenon DEF Enqueue, relayDb
  <2>3. row'[m] \in {row[m]} \cup 1..MaxRow
    BY <1>1, <2>2, Zenon DEF Accept
  <2> QED BY <2>3
<1> QED BY <1>2, <1>3, <1>4, Zenon DEF Writers

\* Every step moves the databases forward.
LEMMA MonoStep == IInv /\ Writers => Mono
<1> SUFFICES ASSUME IInv, Writers PROVE Mono
  OBVIOUS
<1>t. TypeOK
  BY Zenon DEF IInv
<1>1. ASSUME NEW m \in Msgs, kind[m] # "none" PROVE kind'[m] # "none"
  <2>1. ASSUME NEW u \in Users, NEW x \in Msgs, Compose(u, x) PROVE kind'[m] # "none"
    <3>1. kind \in [Msgs -> {"none", "prekey", "ratchet"}]
      BY <1>t, Zenon DEF TypeOK
    <3>2. kind[x] = "none" /\ \E y : kind' = [kind EXCEPT ![x] = y]
      BY <2>1, Zenon DEF Compose
    <3> QED BY <1>1, <3>1, <3>2, Zenon
  <2> QED BY <1>1, <2>1, Zenon DEF Writers
<1>2. \A u \in Users : history[u] \subseteq history'[u]
  BY <1>t, HistoryGrows, Zenon
<1>3. expired \subseteq expired'
  BY Zenon DEF Writers, CollectGarbage
<1>4. ASSUME NEW m \in Msgs, Accepted(m) PROVE Accepted(m)'
  <2>1. To[m] \in Users
    BY ParticipantsAssumption, Zenon
  <2>2. Stored(m) => Stored(m)'
    BY <1>2, <2>1, Zenon DEF Stored
  <2> QED BY <1>3, <1>4, <2>2, RowLeaves, Zenon DEF Accepted
<1>5. refused \subseteq refused'
  <2>1. ASSUME NEW c \in Conns, Enqueue(c) PROVE refused \subseteq refused'
    BY <2>1, ZenonT(60) DEF Enqueue, Accept, relayDb
  <2> QED BY <2>1, Zenon DEF Writers
<1>6. ASSUME NEW m \in Msgs, Accepted(m), ~InOutbox(m) PROVE ~InOutbox(m)'
  <2> SUFFICES ASSUME InOutbox(m)' PROVE FALSE
    BY Zenon
  <2>1. kind[m] = "none"
    BY <1>t, <1>6, OutboxGrows, Zenon DEF Compose
  <2> QED BY <1>6, <2>1, Zenon DEF IInv, DurableOK
<1> QED BY <1>1, <1>2, <1>4, <1>5, <1>6, Zenon DEF Mono

-----------------------------------------------------------------------------
(* What is in transit stays true *)

\* A claim made of a frame, an event or a task in one state still holds after a
\* step that moves the databases forward.
LEMMA Persist ==
  ASSUME Mono, NEW u \in Users
  PROVE  /\ \A f \in Frames : FrameOK(u, f) => FrameOK(u, f)'
         /\ \A e \in Events : EventOK(u, e) => EventOK(u, e)'
         /\ \A t \in Tasks : TaskOK(u, t) => TaskOK(u, t)'
         /\ \A w \in WorkType : WorkOK(u, w) => WorkOK(u, w)'
<1>1. ASSUME NEW f \in Frames, FrameOK(u, f) PROVE FrameOK(u, f)'
  <2>1. f.type = "send" => (From[f.id] = u /\ kind'[f.id] # "none")
    BY <1>1, FrameFields, Zenon DEF FrameOK, Mono
  <2>2. f.type = "ack" => f.ids \subseteq history'[u]
    BY <1>1, Zenon DEF FrameOK, Mono
  <2>3. f.type = "acksent" => Accepted(f.id)' /\ ~InOutbox(f.id)'
    <3>1. f.type = "acksent" => f.id \in Msgs /\ Accepted(f.id) /\ ~InOutbox(f.id)
      BY <1>1, FrameFields, Zenon DEF FrameOK
    <3> QED BY <3>1, Zenon DEF Mono
  <2> QED BY <2>1, <2>2, <2>3, Zenon DEF FrameOK
<1>2. ASSUME NEW s \in Seq(Msgs), \A m \in Range(s) : Deliverable(u, m)
      PROVE  \A m \in Range(s) : Deliverable(u, m)'
  BY <1>2, RangeElem, Zenon DEF Deliverable, Mono
<1>3. ASSUME NEW e \in Events, EventOK(u, e) PROVE EventOK(u, e)'
  <2>1. e.type = "inbound" => \A m \in Range(e.msgs) : Deliverable(u, m)'
    BY <1>2, <1>3, EventFields, Zenon DEF EventOK
  <2>2. e.type = "sent" => From[e.id] = u /\ Accepted(e.id)'
    BY <1>3, EventFields, Zenon DEF EventOK, Mono
  <2>3. e.type = "rejected" => e.id \in refused'
    BY <1>3, Zenon DEF EventOK, Mono
  <2> QED BY <2>1, <2>2, <2>3, Zenon DEF EventOK
<1>4. ASSUME NEW t \in Tasks, TaskOK(u, t) PROVE TaskOK(u, t)'
  <2>1. t.st = "scan" => \A m \in Range(t.page) : Deliverable(u, m)'
    BY <1>2, <1>4, TaskFields, Zenon DEF TaskOK
  <2>2. t.st = "confirm" => \A m \in t.left : From[m] = u /\ Accepted(m)'
    BY <1>4, TaskFields, Zenon DEF TaskOK, Mono
  <2>3. t.st = "handle" => FrameOK(u, t.frame)'
    BY <1>1, <1>4, TaskFields, Zenon DEF TaskOK
  <2>4. t.st = "push" => From[t.id] = u /\ Accepted(t.id)'
    BY <1>4, TaskFields, Zenon DEF TaskOK, Mono
  <2> QED BY <2>1, <2>2, <2>3, <2>4, Zenon DEF TaskOK
<1>5. ASSUME NEW w \in WorkType, WorkOK(u, w) PROVE WorkOK(u, w)'
  <2>1. w.todo \in Seq(Msgs)
    BY Zenon DEF WorkType
  <2>2. \A m \in Range(w.todo) : Deliverable(u, m)'
    BY <1>2, <1>5, <2>1, Zenon DEF WorkOK
  <2> QED BY <1>5, <2>2, Zenon DEF WorkOK, Mono
<1> QED BY <1>1, <1>3, <1>4, <1>5, Zenon

-----------------------------------------------------------------------------
(* What is in transit: outboxes, frames, events, inbound batches, tasks *)

\* Appending an item that is not there yet, or is no message.
LEMMA OnceAppend ==
  ASSUME NEW S, NEW s \in Seq(S), Once(s), NEW f \in S,
         f.type = "send" => f \notin Range(s)
  PROVE  Once(Append(s, f))
<1> DEFINE t == Append(s, f)
<1>1. /\ DOMAIN t = 1..(Len(s) + 1) /\ Len(s) \in Nat /\ DOMAIN s = 1..Len(s)
      /\ t[Len(s) + 1] = f
      /\ \A i \in 1..Len(s) : t[i] = s[i] /\ s[i] \in Range(s)
  BY DEF Range
<1> HIDE DEF t
<1> SUFFICES ASSUME NEW i \in DOMAIN t, NEW j \in DOMAIN t,
                    t[i].type = "send", t[i] = t[j]
             PROVE  i = j
  BY Zenon DEF Once, t
<1>2. CASE i \in 1..Len(s) /\ j \in 1..Len(s)
  BY <1>1, <1>2, Zenon DEF Once
<1>3. CASE i = Len(s) + 1 /\ j \in 1..Len(s)
  BY <1>1, <1>3, Zenon
<1>4. CASE i \in 1..Len(s) /\ j = Len(s) + 1
  BY <1>1, <1>4, Zenon
<1> QED BY <1>1, <1>2, <1>3, <1>4

\* What an acknowledgement in the making says.
LEMMA QueueAckItem ==
  ASSUME IInv, NEW u \in Users, QueueAck(u), HasRoom(u)
  PROVE  \E f \in Items :
           /\ f.type = "ack" /\ FrameOK(u, f)
           /\ outbox' = [outbox EXCEPT ![u] = Append(@, f)]
           /\ Emit(u, <<f>>)
<1> DEFINE f == Ack(CHOOSE a \in FreshAckIds : TRUE, work[u].acks)
<1>1. (CHOOSE a \in FreshAckIds : TRUE) \in AckIds
  BY Zenon DEF QueueAck, FreshAckIds
<1>2. work[u].acks \in SUBSET Msgs
  BY Zenon DEF IInv, TypeOK
<1>3. f \in Items
  BY <1>1, <1>2, Zenon DEF Items, Ack
<1>4. f.type = "ack" /\ f.ids = work[u].acks
  BY Zenon DEF Ack
<1>5. work[u].acks \subseteq history[u]
  BY Zenon DEF IInv, InTransitOK, WorkOK
<1>6. FrameOK(u, f)
  BY <1>4, <1>5, Zenon DEF FrameOK
<1>7. outbox' = [outbox EXCEPT ![u] = Append(@, f)] /\ Emit(u, <<f>>)
  BY Zenon DEF QueueAck
<1> HIDE DEF f
<1> QED BY <1>3, <1>4, <1>6, <1>7, Zenon

\* The outboxes after a step: the old items without one, or with a new one.
LEMMA OutboxStep ==
  ASSUME IInv, TypeOK', Writers, Mono, NEW v \in Users
  PROVE  /\ \A f \in Range(outbox'[v]) : FrameOK(v, f)'
         /\ Once(outbox'[v])
<1>1. /\ outbox \in [Users -> Seq(Items)] /\ outbox[v] \in Seq(Items)
      /\ Range(outbox[v]) \subseteq Frames /\ Once(outbox[v])
      /\ \A f \in Range(outbox[v]) : FrameOK(v, f)
  BY ItemsAreFrames, RangeElem, Zenon DEF IInv, TypeOK, InTransitOK, LocalOK
<1>2. \A f \in Range(outbox[v]) : FrameOK(v, f)'
  BY <1>1, Persist, Zenon
<1>3. ASSUME NEW u \in Users, NEW f, outbox' = [outbox EXCEPT ![u] = Without(@, f)]
      PROVE  (\A g \in Range(outbox'[v]) : FrameOK(v, g)') /\ Once(outbox'[v])
  <2>1. CASE u = v
    <3>1. outbox'[v] = Without(outbox[v], f)
      BY <1>1, <1>3, <2>1, Zenon
    <3>2. Range(Without(outbox[v], f)) \subseteq Range(outbox[v])
      BY <1>1, WithoutElem, Zenon
    <3>3. Once(Without(outbox[v], f))
      BY <1>1, WithoutOnce, Zenon
    <3> QED BY <1>2, <3>1, <3>2, <3>3, Zenon
  <2>2. CASE u # v
    <3>1. outbox'[v] = outbox[v]
      BY <1>1, <1>3, <2>2, Zenon
    <3> QED BY <1>1, <1>2, <3>1, Zenon
  <2> QED BY <2>1, <2>2, Zenon
<1>4. ASSUME NEW u \in Users, NEW f \in Items, outbox' = [outbox EXCEPT ![u] = Append(@, f)],
             FrameOK(u, f)', f.type = "send" => f \notin Range(outbox[u])
      PROVE  (\A g \in Range(outbox'[v]) : FrameOK(v, g)') /\ Once(outbox'[v])
  <2>1. CASE u = v
    <3>1. outbox'[v] = Append(outbox[v], f)
      BY <1>1, <1>4, <2>1, Zenon
    <3>2. Range(Append(outbox[v], f)) = Range(outbox[v]) \cup {f}
      BY <1>1, RangeAppend
    <3>3. Once(Append(outbox[v], f))
      BY <1>1, <1>4, <2>1, OnceAppend, Zenon
    <3> QED BY <1>2, <1>4, <2>1, <3>1, <3>2, <3>3, Zenon
  <2>2. CASE u # v
    <3>1. outbox'[v] = outbox[v]
      BY <1>1, <1>4, <2>2, Zenon
    <3> QED BY <1>1, <1>2, <3>1, Zenon
  <2> QED BY <2>1, <2>2, Zenon
<1>5. CASE outbox' = outbox
  BY <1>1, <1>2, <1>5, Zenon
<1>6. ASSUME NEW u \in Users, HandleSent(u) PROVE \E f : outbox' = [outbox EXCEPT ![u] = Without(@, f)]
  BY <1>6, Zenon DEF HandleSent
<1>7. ASSUME NEW u \in Users, HandleRejected(u)
      PROVE  outbox' = outbox \/ \E f : outbox' = [outbox EXCEPT ![u] = Without(@, f)]
  BY <1>7, Zenon DEF HandleRejected
<1>8. ASSUME NEW u \in Users, HandleAcked(u)
      PROVE  outbox' = outbox \/ \E f : outbox' = [outbox EXCEPT ![u] = Without(@, f)]
  BY <1>8, Zenon DEF HandleAcked
<1>9. ASSUME NEW u \in Users, QueueAck(u)
      PROVE  (\A g \in Range(outbox'[v]) : FrameOK(v, g)') /\ Once(outbox'[v])
  <2>1. CASE HasRoom(u)
    <3>1. PICK f \in Items : f.type = "ack" /\ FrameOK(u, f)
                             /\ outbox' = [outbox EXCEPT ![u] = Append(@, f)]
      BY <1>9, <2>1, QueueAckItem, Zenon
    <3>2. FrameOK(u, f)'
      BY <3>1, Persist, ItemsAreFrames, Zenon
    <3> QED BY <1>4, <3>1, <3>2, Zenon
  <2>2. CASE ~HasRoom(u)
    BY <1>5, <1>9, <2>2, Zenon DEF QueueAck
  <2> QED BY <2>1, <2>2, Zenon
<1>10. ASSUME NEW u \in Users, NEW m \in Msgs, Compose(u, m)
       PROVE  (\A g \in Range(outbox'[v]) : FrameOK(v, g)') /\ Once(outbox'[v])
  <2>1. /\ outbox' = [outbox EXCEPT ![u] = Append(@, Send(m))]
        /\ Send(m) \in Items /\ From[m] = u /\ kind[m] = "none"
    BY <1>10, SendTypes, Zenon DEF Compose
  <2>2. kind'[m] # "none"
    BY <1>10, Zenon DEF IInv, TypeOK, Compose
  <2>3. FrameOK(u, Send(m))'
    BY <2>1, <2>2, Constructors, SMTT(60) DEF FrameOK
  <2>4. Send(m) \notin Range(outbox[u])
    BY <2>1, Constructors, SMTT(60) DEF IInv, InTransitOK, FrameOK
  <2> QED BY <1>4, <2>1, <2>3, <2>4, ZenonT(60)
<1> QED BY <1>3, <1>5, <1>6, <1>7, <1>8, <1>9, <1>10, Zenon DEF Writers, WritesOutbox

\* The frames the relay has not read, after a step.
LEMMA UpStep ==
  ASSUME IInv, TypeOK', Writers, Mono, NEW c \in Conns
  PROVE  \A f \in Range(up'[c]) : FrameOK(Owner[c], f)'
<1>t. TypeOK
  BY Zenon DEF IInv
<1>1. /\ up \in [Conns -> Seq(Frames)] /\ Range(up[c]) \subseteq Frames
      /\ Owner[c] \in Users
      /\ \A f \in Range(up[c]) : FrameOK(Owner[c], f)
  BY RangeElem, ParticipantsAssumption, SMTT(60) DEF IInv, TypeOK, InTransitOK
<1>2. \A f \in Range(up[c]) : FrameOK(Owner[c], f)'
  BY <1>1, Persist, Zenon
<1>3. ASSUME NEW u \in Users, NEW s \in Seq(Frames), Emit(u, s), \A f \in Range(s) : FrameOK(u, f)'
      PROVE  \A f \in Range(up'[c]) : FrameOK(Owner[c], f)'
  <2>1. \A f \in Range(up'[c]) : f \in Range(up[c]) \/ (c = link[u] /\ f \in Range(s))
    BY <1>t, <1>3, EmitLemma, Zenon
  <2>2. c = link[u] => Owner[c] = u
    BY ParticipantsAssumption, Zenon DEF IInv, LocalOK
  <2> QED BY <1>2, <1>3, <2>1, <2>2, Zenon
<1>4. ASSUME NEW u \in Users, HandleAuthed(u)
      PROVE  \A f \in Range(up'[c]) : FrameOK(Owner[c], f)'
  <2>1. outbox[u] \in Seq(Items)
    BY <1>t, Zenon DEF TypeOK
  <2>2. outbox[u] \in Seq(Frames) /\ Range(outbox[u]) \subseteq Frames
    BY <2>1, ItemsAreFrames, RangeElem, Zenon
  <2>3. \A f \in Range(outbox[u]) : FrameOK(u, f)'
    BY <2>2, Persist, Zenon DEF IInv, InTransitOK
  <2> QED BY <1>3, <1>4, <2>2, <2>3, Zenon DEF HandleAuthed
<1>5. ASSUME NEW u \in Users, NEW f \in Frames, Emit(u, <<f>>), FrameOK(u, f)'
      PROVE  \A g \in Range(up'[c]) : FrameOK(Owner[c], g)'
  <2>1. <<f>> \in Seq(Frames) /\ Range(<<f>>) = {f}
    BY RangeSingle
  <2> QED BY <1>3, <1>5, <2>1, ZenonT(60)
<1>6. ASSUME NEW u \in Users, NEW m \in Msgs, Compose(u, m)
      PROVE  \A f \in Range(up'[c]) : FrameOK(Owner[c], f)'
  <2>1. Send(m) \in Frames /\ Emit(u, <<Send(m)>>) /\ From[m] = u
    BY <1>6, SendTypes, Zenon DEF Compose
  <2>2. kind'[m] # "none"
    BY <1>t, <1>6, ZenonT(60) DEF TypeOK, Compose
  <2>3. FrameOK(u, Send(m))'
    BY <2>1, <2>2, Constructors DEF FrameOK
  <2> QED BY <1>5, <2>1, <2>3, Zenon
<1>7. ASSUME NEW u \in Users, HandleSent(u)
      PROVE  \A f \in Range(up'[c]) : FrameOK(Owner[c], f)'
  <2>1. /\ Head(events[u]) \in Range(events[u]) /\ Head(events[u]) \in Events
        /\ Head(events[u]).type = "sent"
    BY <1>t, <1>7, NextEventLemma, Zenon DEF HandleSent
  <2>2. PICK m \in Msgs : m = Head(events[u]).id
    BY <2>1, EventFields, Zenon
  <2>3. From[m] = u /\ Accepted(m)
    BY <2>1, <2>2, Zenon DEF IInv, InTransitOK, EventOK
  <2>4. Accepted(m)'
    BY <2>3, Zenon DEF Mono
  <2>5. outbox' = [outbox EXCEPT ![u] = Without(@, Send(m))] /\ Emit(u, <<AckSent(m)>>)
    BY <1>7, <2>2, Zenon DEF HandleSent
  <2>6. outbox[u] \in Seq(Items) /\ outbox'[u] = Without(outbox[u], Send(m)) /\ Once(outbox[u])
    BY <1>t, <2>5, ZenonT(60) DEF TypeOK, IInv, LocalOK
  <2>7. Send(m) \notin Range(Without(outbox[u], Send(m)))
    BY <2>6, WithoutOnce, Constructors, Zenon
  <2>8. ~InOutbox(m)'
    BY <2>3, <2>6, <2>7, Zenon DEF InOutbox
  <2>9. AckSent(m) \in Frames /\ FrameOK(u, AckSent(m))'
    BY <2>2, <2>4, <2>8, SendTypes, Constructors, Zenon DEF FrameOK
  <2> QED BY <1>5, <2>5, <2>9, Zenon
<1>8. ASSUME NEW u \in Users, QueueAck(u)
      PROVE  \A f \in Range(up'[c]) : FrameOK(Owner[c], f)'
  <2>1. CASE HasRoom(u)
    <3>1. PICK f \in Items : FrameOK(u, f) /\ Emit(u, <<f>>)
      BY <1>8, <2>1, QueueAckItem, Zenon
    <3>2. f \in Frames /\ FrameOK(u, f)'
      BY <3>1, Persist, ItemsAreFrames, Zenon
    <3> QED BY <1>5, <3>1, <3>2, Zenon
  <2>2. CASE ~HasRoom(u)
    BY <1>2, <1>8, <2>2, Zenon DEF QueueAck
  <2> QED BY <2>1, <2>2, Zenon
<1>9. ASSUME NEW u \in Users, Disconnect(u) \/ Crash(u)
      PROVE  \A f \in Range(up'[c]) : FrameOK(Owner[c], f)'
  <2>1. Range(up'[c]) \subseteq Range(up[c])
    BY <1>t, <1>9, AbandonLemma, ZenonT(60) DEF Disconnect, Crash
  <2> QED BY <1>2, <2>1, Zenon
<1>10. ASSUME NEW d \in Conns, CloseConn(d)
       PROVE  \A f \in Range(up'[c]) : FrameOK(Owner[c], f)'
  <2>1. up'[c] = up[c] \/ up'[c] = <<>>
    BY <1>1, <1>10, Zenon DEF CloseConn
  <2> QED BY <1>2, <2>1, RangeEmpty, Zenon
<1>11. ASSUME NEW d \in Conns, ReadFrame(d)
       PROVE  \A f \in Range(up'[c]) : FrameOK(Owner[c], f)'
  <2>1. up[d] \in Seq(Frames) /\ up[d] # <<>>
    BY <1>1, <1>11, Zenon DEF ReadFrame
  <2>2. Range(Tail(up[d])) \subseteq Range(up[d])
    BY <2>1, RangeTail, Zenon
  <2>3. up'[c] = up[c] \/ (c = d /\ up'[c] = Tail(up[d]))
    BY <1>1, <1>11, Zenon DEF ReadFrame
  <2> QED BY <1>2, <2>2, <2>3, Zenon
<1> QED
  BY <1>2, <1>4, <1>6, <1>7, <1>8, <1>9, <1>10, <1>11, Zenon DEF Writers, WritesUp

\* A connection belongs to the client that uses it.
LEMMA LinkStep ==
  ASSUME IInv, Writers, NEW v \in Users, link'[v] # NoConn
  PROVE  Owner[link'[v]] = v
<1>1. link \in [Users -> Conns \cup {NoConn}] /\ (link[v] # NoConn => Owner[link[v]] = v)
  BY Zenon DEF IInv, TypeOK, LocalOK
<1>2. ASSUME NEW u \in Users, NEW c \in Conns, Authenticate(u, c) PROVE Owner[link'[v]] = v
  <2>1. Owner[c] = u /\ link' = [link EXCEPT ![u] = c]
    BY <1>2, Zenon DEF Authenticate
  <2>2. link'[v] = link[v] \/ (v = u /\ link'[v] = c)
    BY <1>1, <2>1, Zenon
  <2> QED BY <1>1, <2>1, <2>2, Zenon
<1>3. ASSUME NEW u \in Users, Disconnect(u) \/ Crash(u) PROVE Owner[link'[v]] = v
  <2>1. link' = [link EXCEPT ![u] = NoConn]
    BY <1>3, Zenon DEF Disconnect, Crash, Abandon
  <2> QED BY <1>1, <2>1, Zenon
<1> QED BY <1>1, <1>2, <1>3, Zenon DEF Writers

\* A page of messages for u, and an event without a claim.
LEMMA EventClaims ==
  ASSUME NEW u
  PROVE  /\ \A s : (\A m \in Range(s) : Deliverable(u, m)') => EventOK(u, Inbound(s))'
         /\ EventOK(u, Authed)' /\ EventOK(u, Lost)'
         /\ \A a, S : EventOK(u, Acked(a, S))'
         /\ \A m : From[m] = u /\ Accepted(m)' => EventOK(u, Sent(m))'
         /\ \A m : m \in refused' => EventOK(u, Rejected(m))'
  BY Zenon DEF EventOK, Inbound, Authed, Lost, Acked, Sent, Rejected

\* What is on its way to the applications after a step.
LEMMA EventsStep ==
  ASSUME IInv, TypeOK', Writers, Mono, NEW v \in Users
  PROVE  \A e \in Range(events'[v]) : EventOK(v, e)'
<1>t. TypeOK
  BY Zenon DEF IInv
<1>1. /\ events \in [Users -> Seq(Events)] /\ events[v] \in Seq(Events)
      /\ Range(events[v]) \subseteq Events
      /\ \A e \in Range(events[v]) : EventOK(v, e)
  BY RangeElem, Zenon DEF IInv, TypeOK, InTransitOK
<1>2. \A e \in Range(events[v]) : EventOK(v, e)'
  BY <1>1, Persist, Zenon
<1>3. ASSUME NEW c \in Conns, NEW e \in Events, Deliver(c, <<e>>), EventOK(Owner[c], e)'
      PROVE  \A d \in Range(events'[v]) : EventOK(v, d)'
  <2>1. <<e>> \in Seq(Events) /\ Range(<<e>>) = {e}
    BY RangeSingle
  <2> QED BY <1>t, <1>2, <1>3, <2>1, DeliverLemma, Zenon
<1>4. ASSUME NEW c \in Conns, Deliver(c, <<>>)
      PROVE  \A e \in Range(events'[v]) : EventOK(v, e)'
  <2>1. <<>> \in Seq(Events) /\ Range(<<>>) = {}
    BY RangeEmpty
  <2> QED BY <1>t, <1>2, <1>4, <2>1, DeliverLemma, Zenon
<1>5. ASSUME NEW u \in Users, NEW type, NextEvent(u, type)
      PROVE  \A e \in Range(events'[v]) : EventOK(v, e)'
  <2>1. Range(events'[v]) \subseteq Range(events[v])
    BY <1>t, <1>5, NextEventLemma, Zenon
  <2> QED BY <1>2, <2>1, Zenon
<1>6. ASSUME NEW u \in Users, NEW c \in Conns, Authenticate(u, c)
      PROVE  \A e \in Range(events'[v]) : EventOK(v, e)'
  <2>1. events'[v] = events[v] \/ events'[v] = Append(events[v], Authed)
    BY <1>1, <1>6, Zenon DEF Authenticate
  <2>2. Range(Append(events[v], Authed)) = Range(events[v]) \cup {Authed}
    BY <1>1, RangeAppend DEF Events
  <2> QED BY <1>2, <2>1, <2>2, EventClaims, Zenon
<1>7. ASSUME NEW u \in Users, Disconnect(u)
      PROVE  \A e \in Range(events'[v]) : EventOK(v, e)'
  <2>1. PICK n \in 0..Len(events[u]) :
          events' = [events EXCEPT ![u] = Append(SubSeq(@, 1, n), Lost)]
    BY <1>7, Zenon DEF Disconnect
  <2>2. CASE u = v
    <3> DEFINE p == SubSeq(events[v], 1, n)
    <3>1. p \in Seq(Events) /\ Range(p) \subseteq Range(events[v])
      BY <1>1, <2>2, RangePrefix, Zenon
    <3>2. events'[v] = Append(p, Lost)
      BY <1>1, <2>1, <2>2, Zenon
    <3> HIDE DEF p
    <3>3. Range(Append(p, Lost)) = Range(p) \cup {Lost}
      BY <3>1, RangeAppend DEF Events
    <3> QED BY <1>2, <3>1, <3>2, <3>3, EventClaims, Zenon
  <2>3. CASE u # v
    BY <1>1, <1>2, <2>1, <2>3, Zenon
  <2> QED BY <2>2, <2>3, Zenon
<1>8. ASSUME NEW u \in Users, Crash(u)
      PROVE  \A e \in Range(events'[v]) : EventOK(v, e)'
  <2>1. events'[v] = events[v] \/ events'[v] = <<>>
    BY <1>1, <1>8, Zenon DEF Crash
  <2> QED BY <1>2, <2>1, RangeEmpty, Zenon
<1>9. ASSUME NEW c \in Conns, task[c].st = "scan"
      PROVE  /\ Inbound(task[c].page) \in Events
             /\ \A s : s = task[c].page => EventOK(Owner[c], Inbound(s))'
  <2>1. PICK s \in Seq(Msgs) : s = task[c].page
    BY <1>t, <1>9, TaskFields, Zenon DEF TypeOK
  <2>2. Range(s) \subseteq Msgs /\ \A m \in Range(s) : Deliverable(Owner[c], m)
    BY <1>9, <2>1, RangeElem, ZenonT(60) DEF IInv, InTransitOK, TaskOK
  <2>3. \A m \in Range(s) : Deliverable(Owner[c], m)'
    BY <2>2, Zenon DEF Deliverable, Mono
  <2> QED BY <2>1, <2>3, EventClaims, InboundType, ZenonT(60)
<1>10. ASSUME NEW c \in Conns, ScanRow(c) \/ EndScan(c)
       PROVE  \A e \in Range(events'[v]) : EventOK(v, e)'
  <2>1. task[c].st = "scan" /\ (Deliver(c, <<>>) \/ Deliver(c, <<Inbound(task[c].page)>>))
    BY <1>10, Zenon DEF ScanRow, EndScan
  <2>2. PICK s : s = task[c].page
    OBVIOUS
  <2>3. Inbound(s) \in Events /\ EventOK(Owner[c], Inbound(s))'
    BY <1>9, <2>1, <2>2, Zenon
  <2> QED BY <1>3, <1>4, <2>1, <2>2, <2>3, Zenon
<1>11. ASSUME NEW c \in Conns, SendConfirmation(c)
       PROVE  \A e \in Range(events'[v]) : EventOK(v, e)'
  <2>1. task[c].left \subseteq Msgs /\ \A m \in task[c].left : From[m] = Owner[c] /\ Accepted(m)
    BY <1>t, <1>11, TaskFields, ZenonT(60) DEF SendConfirmation, TypeOK, IInv, InTransitOK, TaskOK
  <2>2. events' = events \/ \E m \in task[c].left : Deliver(c, <<Sent(m)>>)
    BY <1>11, ZenonT(60) DEF SendConfirmation
  <2>3. ASSUME NEW m \in task[c].left PROVE Sent(m) \in Events /\ EventOK(Owner[c], Sent(m))'
    <3>1. m \in Msgs /\ From[m] = Owner[c] /\ Accepted(m)
      BY <2>1, Zenon
    <3>2. Accepted(m)'
      BY <3>1, Zenon DEF Mono
    <3> QED BY <3>1, <3>2, SendTypes, EventClaims, Zenon
  <2> QED BY <1>2, <1>3, <2>2, <2>3, Zenon
<1>12. ASSUME NEW c \in Conns, Enqueue(c)
       PROVE  \A e \in Range(events'[v]) : EventOK(v, e)'
  <2>1. PICK m : m = task[c].frame.id
    BY Zenon
  <2>2. m \in Msgs
    BY <1>t, <1>12, <2>1, TaskFields, FrameFields, ZenonT(60) DEF Enqueue, Handles, TypeOK
  <2>3. events' = events \/ (m \in refused' /\ Deliver(c, <<Rejected(m)>>))
    BY <1>12, <2>1, ZenonT(60) DEF Enqueue
  <2>4. m \in refused' => Rejected(m) \in Events /\ EventOK(Owner[c], Rejected(m))'
    BY <2>2, SendTypes, EventClaims, ZenonT(60)
  <2> QED BY <1>2, <1>3, <2>3, <2>4, Zenon
<1>13. ASSUME NEW c \in Conns, Push(c)
       PROVE  \A e \in Range(events'[v]) : EventOK(v, e)'
  <2>1. PICK m : m = task[c].id
    OBVIOUS
  <2>2. m \in Msgs /\ From[m] = Owner[c] /\ Accepted(m)
    BY <1>t, <1>13, <2>1, TaskFields, Zenon DEF Push, TypeOK, IInv, InTransitOK, TaskOK
  <2>3. Accepted(m)'
    BY <2>2, ZenonT(60) DEF Mono
  <2>4. \/ events'[v] = events[v]
        \/ v = Owner[c] /\ events'[v] = Append(events[v], Sent(m))
        \/ v = To[m] /\ events'[v] = Append(events[v], Inbound(<<m>>))
    BY <1>13, <2>1, Zenon DEF Push
  <2>5. Sent(m) \in Events /\ Inbound(<<m>>) \in Events
    <3>1. <<m>> \in Seq(Msgs)
      BY <2>2
    <3> QED BY <2>2, <3>1, SendTypes, InboundType, ZenonT(60)
  <2>6. /\ Range(Append(events[v], Sent(m))) = Range(events[v]) \cup {Sent(m)}
        /\ Range(Append(events[v], Inbound(<<m>>))) = Range(events[v]) \cup {Inbound(<<m>>)}
    BY <1>1, <2>5, RangeAppend, SMTT(60)
  <2>7. v = Owner[c] => EventOK(v, Sent(m))'
    BY <2>2, <2>3, EventClaims, Zenon
  <2>8. v = To[m] => EventOK(v, Inbound(<<m>>))'
    <3>1. v = To[m] => Deliverable(v, m)'
      BY <2>3, Zenon DEF Deliverable
    <3> QED BY <3>1, RangeSingle, EventClaims
  <2> QED BY <1>2, <2>4, <2>6, <2>7, <2>8, ZenonT(60)
<1>14. ASSUME NEW c \in Conns, DeleteAcked(c)
       PROVE  \A e \in Range(events'[v]) : EventOK(v, e)'
  <2>1. PICK a, S : a = task[c].frame.ack /\ S = task[c].frame.ids
    BY Zenon
  <2>2. a \in AckIds /\ S \in SUBSET Msgs
    BY <1>t, <1>14, <2>1, TaskFields, FrameFields, ZenonT(60) DEF DeleteAcked, Handles, TypeOK
  <2>3. Acked(a, S) \in Events /\ EventOK(Owner[c], Acked(a, S))'
    BY <2>2, EventClaims, ZenonT(60) DEF Events, Acked
  <2>4. Deliver(c, <<Acked(a, S)>>)
    BY <1>14, <2>1, Zenon DEF DeleteAcked
  <2> QED BY <1>3, <2>3, <2>4, Zenon
<1> QED
  BY <1>2, <1>5, <1>6, <1>7, <1>8, <1>10, <1>11, <1>12, <1>13, <1>14, Zenon
     DEF Writers, WritesEvents

\* A task in each of its states.
LEMMA TaskClaims ==
  ASSUME NEW u
  PROVE  /\ TaskOK(u, Closed)' /\ TaskOK(u, Waiting)'
         /\ \A r, n, s : (\A m \in Range(s) : Deliverable(u, m)') => TaskOK(u, Scanning(r, n, s))'
         /\ \A S : (\A m \in S : From[m] = u /\ Accepted(m)') => TaskOK(u, Confirming(S))'
         /\ \A f : FrameOK(u, f)' => TaskOK(u, Handling(f))'
         /\ \A m : From[m] = u /\ Accepted(m)' => TaskOK(u, Pushing(m))'
  BY ZenonT(60) DEF TaskOK, Closed, Waiting, Scanning, Confirming, Handling, Pushing

\* What the connection tasks are doing after a step.
LEMMA TaskStep ==
  ASSUME IInv, TypeOK', Writers, Mono, NEW d \in Conns
  PROVE  TaskOK(Owner[d], task[d])'
<1>t. TypeOK
  BY Zenon DEF IInv
<1>1. /\ task \in [Conns -> Tasks] /\ task[d] \in Tasks /\ Owner[d] \in Users
      /\ TaskOK(Owner[d], task[d])
  BY ParticipantsAssumption, Zenon DEF IInv, TypeOK, InTransitOK
<1>2. \A t : t = task[d] => TaskOK(Owner[d], t)'
  BY <1>1, Persist, Zenon
<1>3. ASSUME NEW c \in Conns, NEW t, task' = [task EXCEPT ![c] = t], TaskOK(Owner[c], t)'
      PROVE  TaskOK(Owner[d], task[d])'
  <2>1. PICK x : x = task[d]
    OBVIOUS
  <2>2. task'[d] = x \/ (c = d /\ task'[d] = t)
    BY <1>1, <1>3, <2>1, Zenon
  <2>3. TaskOK(Owner[d], x)'
    BY <1>2, <2>1, Zenon
  <2> QED BY <1>3, <2>2, <2>3, Zenon
<1>4. CASE task' = task
  BY <1>2, <1>4, Zenon
<1>5. ASSUME NEW c \in Conns, task' = [task EXCEPT ![c] = Waiting] \/ task' = [task EXCEPT ![c] = Closed]
      PROVE  TaskOK(Owner[d], task[d])'
  BY <1>3, <1>5, TaskClaims, Zenon
<1>6. ASSUME NEW u \in Users, NEW c \in Conns, Authenticate(u, c) PROVE TaskOK(Owner[d], task[d])'
  <2>1. task' = [task EXCEPT ![c] = Scanning(0, 0, <<>>)]
    BY <1>6, Zenon DEF Authenticate
  <2>2. TaskOK(Owner[c], Scanning(0, 0, <<>>))'
    BY TaskClaims, RangeEmpty, Zenon
  <2> QED BY <1>3, <2>1, <2>2, Zenon
<1>7. ASSUME NEW c \in Conns, ScanRow(c) PROVE TaskOK(Owner[d], task[d])'
  <2>1. PICK m \in NextPending(Owner[c], task[c].cursor), full \in BOOLEAN :
          task' = [task EXCEPT ![c] =
               Scanning(row[m], task[c].visited + 1,
                        IF full THEN <<m>> ELSE Append(task[c].page, m))]
    BY <1>7, ZenonT(60) DEF ScanRow
  <2>2. m \in Msgs /\ Deliverable(Owner[c], m)
    BY Zenon DEF NextPending, QueueOf, Deliverable, Accepted
  <2>3. /\ task[c].page \in Seq(Msgs)
        /\ \A x \in Range(task[c].page) : Deliverable(Owner[c], x)
    BY <1>t, <1>7, TaskFields, Zenon DEF TypeOK, ScanRow, IInv, InTransitOK, TaskOK
  <2>4. PICK s, r, n : /\ s = IF full THEN <<m>> ELSE Append(task[c].page, m)
                       /\ r = row[m] /\ n = task[c].visited + 1
    BY Zenon
  <2>5. Range(s) \subseteq Range(task[c].page) \cup {m}
    <3>1. CASE full
      <4>1. s = <<m>>
        BY <2>4, <3>1, Zenon
      <4> QED BY <4>1, RangeSingle, Zenon
    <3>2. CASE ~full
      <4>1. s = Append(task[c].page, m)
        BY <2>4, <3>2, Zenon
      <4>2. Range(Append(task[c].page, m)) = Range(task[c].page) \cup {m}
        <5>1. m \in Msgs /\ task[c].page \in Seq(Msgs)
          BY <2>2, <2>3, Zenon
        <5> QED BY <5>1, RangeAppend
      <4> QED BY <4>1, <4>2, Zenon
    <3> QED BY <3>1, <3>2, Zenon
  <2>6. Range(s) \subseteq Msgs /\ \A x \in Range(s) : Deliverable(Owner[c], x)
    BY <2>2, <2>3, <2>5, RangeElem, Zenon
  <2>7. \A x \in Range(s) : Deliverable(Owner[c], x)'
    BY <2>6, Zenon DEF Deliverable, Mono
  <2>8. task' = [task EXCEPT ![c] = Scanning(r, n, s)]
    BY <2>1, <2>4, Zenon
  <2>9. TaskOK(Owner[c], Scanning(r, n, s))'
    BY <2>7, TaskClaims, ZenonT(60)
  <2> QED BY <1>3, <2>8, <2>9, Zenon
<1>8. ASSUME NEW c \in Conns, task' = [task EXCEPT ![c] = Confirming({m \in ledger : From[m] = Owner[c]})]
      PROVE  TaskOK(Owner[d], task[d])'
  <2>1. PICK S : S = {m \in ledger : From[m] = Owner[c]}
    BY ZenonT(60)
  <2>2. S \subseteq Msgs /\ \A m \in S : From[m] = Owner[c] /\ Accepted(m)
    BY <1>t, <2>1, Zenon DEF TypeOK, IInv, DurableOK
  <2>3. \A m \in S : From[m] = Owner[c] /\ Accepted(m)'
    BY <2>2, ZenonT(60) DEF Mono
  <2>4. TaskOK(Owner[c], Confirming(S))'
    BY <2>3, TaskClaims, ZenonT(60)
  <2> QED BY <1>3, <1>8, <2>1, <2>4, Zenon
<1>9. ASSUME NEW c \in Conns, SendConfirmation(c) PROVE TaskOK(Owner[d], task[d])'
  <2>1. task[c].left \subseteq Msgs /\ \A m \in task[c].left : From[m] = Owner[c] /\ Accepted(m)
    BY <1>t, <1>9, TaskFields, ZenonT(60) DEF SendConfirmation, TypeOK, IInv, InTransitOK, TaskOK
  <2>2. CASE task' = [task EXCEPT ![c] = Waiting]
    BY <1>5, <2>2, Zenon
  <2>3. ASSUME NEW m \in task[c].left, task' = [task EXCEPT ![c] = Confirming(task[c].left \ {m})]
        PROVE  TaskOK(Owner[d], task[d])'
    <3>1. PICK S : S = task[c].left \ {m}
      BY ZenonT(60)
    <3>2. \A x \in S : From[x] = Owner[c] /\ Accepted(x)'
      BY <2>1, <3>1, Zenon DEF Mono
    <3>3. TaskOK(Owner[c], Confirming(S))'
      BY <3>2, TaskClaims, Zenon
    <3> QED BY <1>3, <2>3, <3>1, <3>3, Zenon
  <2> QED BY <1>9, <2>2, <2>3, ZenonT(60) DEF SendConfirmation
<1>10. ASSUME NEW c \in Conns, ReadFrame(c) PROVE TaskOK(Owner[d], task[d])'
  <2>1. up[c] \in Seq(Frames) /\ up[c] # <<>> /\ Owner[c] \in Users
    BY <1>t, <1>10, ParticipantsAssumption, ZenonT(60) DEF ReadFrame, TypeOK
  <2>2. PICK f : f = Head(up[c])
    OBVIOUS
  <2>3. f \in Range(up[c]) /\ f \in Frames
    BY <2>1, <2>2, RangeTail
  <2>4. FrameOK(Owner[c], f)'
    BY <2>1, <2>3, Persist, ZenonT(60) DEF IInv, InTransitOK
  <2>5. TaskOK(Owner[c], Handling(f))'
    BY <2>4, TaskClaims, ZenonT(60)
  <2> QED BY <1>3, <1>10, <2>2, <2>5, Zenon DEF ReadFrame
<1>11. ASSUME NEW c \in Conns, Enqueue(c) PROVE TaskOK(Owner[d], task[d])'
  <2>1. PICK m : m = task[c].frame.id
    BY Zenon
  <2>2. m \in Msgs /\ From[m] = Owner[c]
    <3>1. task[c].frame \in Frames /\ task[c].st = "handle" /\ task[c].frame.type = "send"
      BY <1>t, <1>11, TaskFields, ZenonT(60) DEF Enqueue, Handles, TypeOK
    <3>2. FrameOK(Owner[c], task[c].frame)
      BY <3>1, ZenonT(60) DEF IInv, InTransitOK, TaskOK
    <3> QED BY <2>1, <3>1, <3>2, FrameFields, ZenonT(60) DEF FrameOK
  <2>3. CASE task' = [task EXCEPT ![c] = Waiting]
    BY <1>5, <2>3, Zenon
  <2>4. CASE m \in ledger /\ task' = [task EXCEPT ![c] = Pushing(m)]
    <3>1. Accepted(m)'
      BY <2>2, <2>4, Zenon DEF IInv, DurableOK, Mono
    <3> QED BY <1>3, <2>2, <2>4, <3>1, TaskClaims, ZenonT(60)
  <2>5. CASE Accept(m) /\ task' = [task EXCEPT ![c] = Pushing(m)]
    <3>0. row \in [Msgs -> Nat]
      BY <1>t, Zenon DEF TypeOK
    <3>1. row'[m] # 0
      BY <3>0, <2>2, <2>5 DEF Accept
    <3>2. Accepted(m)'
      BY <3>1, Zenon DEF Accepted
    <3> QED BY <1>3, <2>2, <2>5, <3>2, TaskClaims, ZenonT(60)
  <2> QED BY <1>11, <2>1, <2>3, <2>4, <2>5, Zenon DEF Enqueue
<1>12. ASSUME NEW c \in Conns, EndScan(c) PROVE TaskOK(Owner[d], task[d])'
  BY <1>8, <1>12, ZenonT(60) DEF EndScan
<1>13. ASSUME NEW c \in Conns, RelayFault(c) PROVE TaskOK(Owner[d], task[d])'
  BY <1>5, <1>8, <1>13, Zenon DEF RelayFault
<1>14. ASSUME NEW c \in Conns, CloseConn(c) \/ Push(c) \/ DeleteAcked(c) \/ ConfirmAcceptance(c)
       PROVE  TaskOK(Owner[d], task[d])'
  BY <1>5, <1>14, Zenon DEF CloseConn, Push, DeleteAcked, ConfirmAcceptance
<1> QED
  BY <1>4, <1>6, <1>7, <1>9, <1>10, <1>11, <1>12, <1>13, <1>14, ZenonT(60) DEF Writers, WritesTask

\* The message an application is working on.
LEMMA CurrentOK ==
  ASSUME IInv, NEW u \in Users, work[u].todo # <<>>
  PROVE  /\ Current(u) \in Msgs /\ Current(u) \in Range(work[u].todo)
         /\ To[Current(u)] = u /\ Accepted(Current(u))
         /\ work[u].stage = "commit" => Stored(Current(u))
         /\ processed[Current(u)] = "stored" => Current(u) \in history[u]
<1>1. work[u].todo \in Seq(Msgs) /\ WorkOK(u, work[u])
  <2>1. work[u] \in WorkType
    BY WorkTyped, Zenon DEF IInv
  <2>2. WorkOK(u, work[u])
    BY Zenon DEF IInv, InTransitOK
  <2> QED BY <2>1, <2>2, Zenon DEF WorkType
<1>2. Current(u) \in Range(work[u].todo) /\ Current(u) \in Msgs
  BY <1>1, RangeTail, SMTT(60) DEF Current
<1>3. To[Current(u)] = u /\ Accepted(Current(u))
  BY <1>1, <1>2, Zenon DEF WorkOK, Deliverable
<1>4. work[u].stage = "commit" => Stored(Current(u))
  BY <1>1, <1>3, Zenon DEF WorkOK, Stored, Current
<1>5. processed[Current(u)] = "stored" => Current(u) \in history[u]
  BY <1>2, <1>3, Zenon DEF IInv, DurableOK, Stored
<1> QED BY <1>2, <1>3, <1>4, <1>5, ZenonT(60)

\* The inbound batches after a step.
LEMMA WorkStep ==
  ASSUME IInv, TypeOK', Writers, Mono, NEW v \in Users
  PROVE  WorkOK(v, work[v])'
<1>t. TypeOK
  BY Zenon DEF IInv
<1>1. /\ work \in [Users -> WorkType] /\ work[v] \in WorkType
      /\ work' \in [Users -> WorkType] /\ WorkOK(v, work[v])
  BY WorkTyped, Zenon DEF IInv, InTransitOK, TypeOK, WorkType
<1>2. \A w : w = work[v] => WorkOK(v, w)'
  BY <1>1, Persist, Zenon
<1>o. ASSUME work'[v] = work[v] PROVE WorkOK(v, work[v])'
  BY <1>2, <1>o, Zenon
\* the batch keeps messages of the old one, and acknowledges stored ones
<1>3. ASSUME Range(work'[v].todo) \subseteq Range(work[v].todo),
             work'[v].acks \subseteq history'[v],
             work'[v].todo # <<>> /\ work'[v].stage = "commit" => Head(work'[v].todo) \in history'[v]
      PROVE  WorkOK(v, work[v])'
  <2>1. \A m \in Range(work[v].todo) : Deliverable(v, m)'
    <3>1. PICK w : w = work[v]
      BY Zenon
    <3> QED BY <1>2, <3>1, Zenon DEF WorkOK
  <2>2. \A m \in Range(work'[v].todo) : Deliverable(v, m)'
    BY <1>3, <2>1, Zenon
  <2> QED BY <1>3, <2>2, Zenon DEF WorkOK
<1>h. history[v] \subseteq history'[v] /\ work[v].acks \subseteq history[v]
  BY <1>1, ZenonT(60) DEF Mono, WorkOK
<1>4. ASSUME work'[v] = Idle PROVE WorkOK(v, work[v])'
  <2>1. work'[v].todo = <<>> /\ work'[v].acks = {}
    BY <1>4, SMTT(60) DEF Idle
  <2> QED BY <1>3, <2>1, RangeEmpty, Zenon
<1>5. ASSUME NEW u \in Users, NEW S \in SUBSET Msgs, Finish(u, S), work[u].todo # <<>>,
             S \subseteq history[u]
      PROVE  WorkOK(v, work[v])'
  <2>1. /\ u # v => work'[v] = work[v]
        /\ u = v => /\ work'[v].stage = "open" /\ work'[v].acks = work[v].acks \cup S
                    /\ Range(work'[v].todo) \subseteq Range(work[v].todo)
    BY <1>t, <1>5, FinishLemma
  <2> QED BY <1>o, <1>3, <1>5, <1>h, <2>1, Zenon
<1>6. ASSUME NEW u \in Users, TakeInbound(u) PROVE WorkOK(v, work[v])'
  <2>1. CASE u # v
    BY <1>o, <1>1, <1>6, <2>1, Zenon DEF TakeInbound
  <2>2. CASE u = v
    <3>1. /\ Head(events[u]) \in Range(events[u]) /\ Head(events[u]) \in Events
          /\ Head(events[u]).type = "inbound"
      BY <1>t, <1>6, NextEventLemma, Zenon DEF TakeInbound
    <3>2. PICK s \in Seq(Msgs) : s = Head(events[u]).msgs
      BY <3>1, EventFields, Zenon
    <3>3. \A m \in Range(s) : m \in Msgs /\ Deliverable(v, m)
      <4>1. Range(s) \subseteq Msgs
        BY RangeElem, Zenon
      <4>2. EventOK(v, Head(events[u]))
        BY <2>2, <3>1, Zenon DEF IInv, InTransitOK
      <4>3. \A m \in Range(s) : Deliverable(v, m)
        BY <3>1, <3>2, <4>2, Zenon DEF EventOK
      <4> QED BY <4>1, <4>3, Zenon
    <3>4. \A m \in Range(s) : Deliverable(v, m)'
      BY <3>3, Zenon DEF Deliverable, Mono
    <3>5. work[v] = Idle /\ work' = [work EXCEPT ![v].todo = s]
      BY <1>6, <2>2, <3>2, ZenonT(60) DEF TakeInbound, NextEvent, Ready
    <3>6. work'[v].todo = s /\ work'[v].stage = "open" /\ work'[v].acks = {}
      BY <1>1, <3>5 DEF Idle
    <3> QED BY <3>4, <3>6, Zenon DEF WorkOK
  <2> QED BY <2>1, <2>2, Zenon
<1>7. ASSUME NEW u \in Users, Open(u) PROVE WorkOK(v, work[v])'
  <2>1. work[u].todo # <<>>
    BY <1>7, Zenon DEF Open, At
  <2>2. CASE Finish(u, {})
    BY <1>5, <2>1, <2>2, Zenon
  <2>3. CASE processed[Current(u)] = "stored" /\ Finish(u, {Current(u)})
    BY <1>5, <2>1, <2>3, CurrentOK, ZenonT(60)
  <2>4. CASE work' = [work EXCEPT ![u].stage = "store"]
    <3>1. u # v => work'[v] = work[v]
      BY <1>1, <2>4, Zenon
    <3>2. u = v => /\ work'[v].stage = "store" /\ work'[v].acks = work[v].acks
                   /\ work'[v].todo = work[v].todo
      BY <1>1, <2>4, Zenon DEF WorkType
    <3> QED BY <1>o, <1>3, <1>h, <3>1, <3>2, Zenon
  <2> QED BY <1>7, <2>2, <2>3, <2>4, Zenon DEF Open
<1>8. ASSUME NEW u \in Users, Store(u) PROVE WorkOK(v, work[v])'
  <2>1. CASE u # v
    BY <1>o, <1>1, <1>8, <2>1, Zenon DEF Store
  <2>2. CASE u = v
    <3>1. /\ work[v].todo # <<>>
          /\ work' = [work EXCEPT ![v].stage = "commit",
                                  ![v].fresh = Current(v) \notin history[v]]
          /\ history' = [history EXCEPT ![v] = @ \cup {Current(v)}]
      BY <1>8, <2>2, Zenon DEF Store, At
    <3>2. /\ work'[v].stage = "commit" /\ work'[v].acks = work[v].acks
          /\ work'[v].todo = work[v].todo
      BY <1>1, <3>1, Zenon DEF WorkType
    <3>3. Head(work[v].todo) \in history'[v]
      BY <1>t, <3>1, Zenon DEF TypeOK, Current
    <3> QED BY <1>3, <1>h, <3>2, <3>3, Zenon
  <2> QED BY <2>1, <2>2, Zenon
<1>9. ASSUME NEW u \in Users, Commit(u) PROVE WorkOK(v, work[v])'
  <2>1. work[u].todo # <<>> /\ work[u].stage = "commit" /\ Finish(u, {Current(u)})
    BY <1>9, Zenon DEF Commit, At
  <2>2. Current(u) \in Msgs /\ Current(u) \in history[u]
    BY <2>1, CurrentOK, Zenon DEF Stored
  <2> QED BY <1>5, <2>1, <2>2, Zenon
<1>10. ASSUME NEW u \in Users, work' = [work EXCEPT ![u] = Idle] PROVE WorkOK(v, work[v])'
  <2>1. work'[v] = work[v] \/ work'[v] = Idle
    BY <1>1, <1>10, Zenon
  <2> QED BY <1>o, <1>4, <2>1, Zenon
<1>11. ASSUME NEW u \in Users, QueueAck(u) \/ Crash(u) PROVE WorkOK(v, work[v])'
  BY <1>10, <1>11, ZenonT(60) DEF QueueAck, Crash
<1>12. ASSUME NEW u \in Users, ClientFault(u) PROVE WorkOK(v, work[v])'
  <2>1. CASE work[u].todo # <<>> /\ Finish(u, {})
    BY <1>5, <2>1, Zenon
  <2> QED BY <1>o, <1>10, <1>12, <2>1, Zenon DEF ClientFault
<1> QED
  BY <1>o, <1>6, <1>7, <1>8, <1>9, <1>11, <1>12, Zenon DEF Writers, WritesWork

-----------------------------------------------------------------------------
(* The databases agree with each other *)

\* A message refused in this step was encrypted, is unknown to the acceptance
\* ledger, and is not accepted in the same step.
LEMMA RefusedGrows ==
  ASSUME IInv, Writers, NEW m \in refused', m \notin refused
  PROVE  m \in Msgs /\ m \notin ledger /\ kind[m] # "none"
<1>1. PICK c \in Conns : Enqueue(c)
  BY Zenon DEF Writers
<1>2. task[c].st = "handle" /\ task[c].frame.type = "send" /\ task[c].frame \in Frames
  BY <1>1, TaskFields, Zenon DEF Enqueue, Handles, IInv, TypeOK
<1>3. task[c].frame.id \in Msgs /\ kind[task[c].frame.id] # "none"
  BY <1>2, FrameFields, Zenon DEF IInv, InTransitOK, TaskOK, FrameOK
<1>4. m = task[c].frame.id /\ m \notin ledger
  BY <1>1, Zenon DEF Enqueue, Accept, relayDb
<1> QED BY <1>3, <1>4, Zenon

\* HandleRejected retires a message of its own outbox that the relay refused.
LEMMA RejectedGrows ==
  ASSUME IInv, Writers, NEW m \in rejected', m \notin rejected
  PROVE  m \in Msgs /\ m \in refused /\ InOutbox(m) /\ \E u \in Users : HandleRejected(u)
<1>1. PICK u \in Users : HandleRejected(u)
  BY Zenon DEF Writers
<1>2. /\ Head(events[u]) \in Range(events[u]) /\ Head(events[u]) \in Events
      /\ Head(events[u]).type = "rejected"
  BY <1>1, NextEventLemma, Zenon DEF HandleRejected, IInv
<1>3. Head(events[u]).id \in Msgs /\ Head(events[u]).id \in refused
  BY <1>2, EventFields, Zenon DEF IInv, InTransitOK, EventOK
<1>4. m = Head(events[u]).id /\ Send(m) \in Range(outbox[u])
  BY <1>1, Zenon DEF HandleRejected
<1>5. From[m] = u
  BY <1>4, Constructors DEF IInv, InTransitOK, FrameOK
<1> QED BY <1>1, <1>3, <1>4, <1>5, Zenon DEF InOutbox

\* What the databases say of each other after a step.
LEMMA DurableStep ==
  ASSUME IInv, TypeOK', Writers, Mono
  PROVE  DurableOK'
<1>t. TypeOK
  BY Zenon DEF IInv
<1>0. /\ \A u \in Users : \A m \in history[u] : To[m] = u
      /\ \A m \in Msgs : processed[m] = "stored" => Stored(m)
      /\ \A m \in ledger : Accepted(m)
      /\ \A m \in Msgs : Accepted(m) \/ m \in refused => kind[m] # "none"
      /\ \A m \in refused : Accepted(m) => ~InOutbox(m)
      /\ rejected \subseteq refused
  BY Zenon DEF IInv, DurableOK
<1>1. ASSUME NEW u \in Users, NEW m \in history'[u] PROVE To[m] = u
  <2>1. ASSUME NEW v \in Users, Store(v) PROVE To[m] = u
    <3>1. history' = [history EXCEPT ![v] = @ \cup {Current(v)}] /\ work[v].todo # <<>>
      BY <2>1, Zenon DEF Store, At
    <3>2. m \in history[u] \/ (u = v /\ m = Current(v))
      BY <1>t, <3>1, Zenon DEF TypeOK
    <3> QED BY <1>0, <3>1, <3>2, CurrentOK, Zenon
  <2> QED BY <1>0, <2>1, Zenon DEF Writers
<1>2. ASSUME NEW m \in Msgs, processed'[m] = "stored" PROVE Stored(m)'
  <2>p. processed \in [Msgs -> {"none", "pending", "stored"}]
    BY <1>t, Zenon DEF TypeOK
  <2>s. Stored(m) => Stored(m)'
    BY ParticipantsAssumption, Zenon DEF Stored, Mono
  <2>1. ASSUME NEW u \in Users, Open(u) PROVE processed[m] = "stored"
    BY <1>2, <2>p, <2>1, Zenon DEF Open
  <2>2. ASSUME NEW u \in Users, HandleAcked(u) PROVE processed[m] = "stored"
    BY <1>2, <2>p, <2>2, Zenon DEF HandleAcked
  <2>3. ASSUME NEW u \in Users, Commit(u) PROVE Stored(m)
    <3>1. work[u].todo # <<>> /\ work[u].stage = "commit"
          /\ processed' = [processed EXCEPT ![Current(u)] = IF @ = "pending" THEN "stored" ELSE @]
      BY <2>3, Zenon DEF Commit, At
    <3>2. processed[m] = "stored" \/ m = Current(u)
      BY <1>2, <2>p, <3>1, Zenon
    <3> QED BY <1>0, <3>1, <3>2, CurrentOK, SMTT(60)
  <2> QED BY <1>0, <1>2, <2>s, <2>1, <2>2, <2>3, Zenon DEF Writers
<1>3. ASSUME NEW m \in ledger' PROVE Accepted(m)'
  <2>m. m \in Msgs
    BY Zenon DEF TypeOK
  <2>1. m \in ledger => Accepted(m)'
    BY <1>0, <2>m, Zenon DEF Mono
  <2>2. ASSUME m \notin ledger PROVE row'[m] # 0
    <3>1. PICK c \in Conns : Enqueue(c) \/ ConfirmAcceptance(c)
      BY <2>2, Zenon DEF Writers
    <3>2. Accept(m)
      BY <2>2, <3>1, Zenon DEF Enqueue, Accept, ConfirmAcceptance, relayDb
    <3> QED BY <1>t, <2>m, <3>2 DEF Accept, TypeOK
  <2> QED BY <2>1, <2>2, Zenon DEF Accepted
<1>4. ASSUME NEW m \in Msgs, Accepted(m)' \/ m \in refused' PROVE kind'[m] # "none"
  <2>1. kind[m] # "none"
    BY <1>0, <1>4, AcceptedGrows, RefusedGrows, Zenon
  <2> QED BY <2>1, Zenon DEF Mono
<1>5. ASSUME NEW m \in refused', Accepted(m)', InOutbox(m)' PROVE FALSE
  <2>m. m \in Msgs
    BY Zenon DEF TypeOK
  <2>1. kind[m] # "none"
    BY <1>0, <1>5, <2>m, RefusedGrows, Zenon
  <2>2. InOutbox(m)
    BY <1>t, <1>5, <2>m, <2>1, OutboxGrows, Zenon DEF Compose
  <2>3. CASE m \in refused
    BY <1>0, <1>5, <2>m, <2>2, <2>3, AcceptedGrows, Zenon
  <2>4. CASE m \notin refused
    <3>1. ~Accepted(m)
      BY <2>m, <2>2, <2>4, RefusedGrows, Zenon DEF IInv, RetryRecognised
    <3> QED BY <1>5, <2>m, <2>4, <3>1, AcceptedGrows, Zenon
  <2> QED BY <2>3, <2>4, Zenon
<1>6. rejected' \subseteq refused'
  BY <1>0, RejectedGrows, Zenon DEF Mono
<1> QED BY <1>1, <1>2, <1>3, <1>4, <1>5, <1>6, Zenon DEF DurableOK

\* No step loses a message.
LEMMA NothingLostStep ==
  ASSUME IInv, TypeOK', Writers, Mono
  PROVE  NothingLost'
<1> SUFFICES ASSUME NEW m \in Msgs, kind'[m] # "none", ~InOutbox(m)', ~Accepted(m)'
             PROVE  m \in rejected'
  BY Zenon DEF NothingLost
<1>t. TypeOK
  BY Zenon DEF IInv
<1>1. ~Accepted(m)
  BY Zenon DEF Mono
<1>v. PICK v \in Users : v = From[m]
  BY ParticipantsAssumption, Zenon
<1>b. outbox \in [Users -> Seq(Items)] /\ outbox[v] \in Seq(Items)
  BY <1>t, Zenon DEF TypeOK
<1>2. ASSUME NEW u \in Users, NEW x \in Msgs, Compose(u, x) PROVE kind[m] # "none" /\ ~InOutbox(m)
  <2>1. /\ kind \in [Msgs -> {"none", "prekey", "ratchet"}]
        /\ outbox' = [outbox EXCEPT ![u] = Append(@, Send(x))] /\ From[x] = u
        /\ \E k : kind' = [kind EXCEPT ![x] = k]
    BY <1>t, <1>2, Zenon DEF TypeOK, Compose
  <2>2. outbox'[v] = outbox[v] \/ (u = v /\ outbox'[v] = Append(outbox[v], Send(x)))
    BY <1>b, <2>1, Zenon
  <2>3. Range(Append(outbox[v], Send(x))) = Range(outbox[v]) \cup {Send(x)}
    BY <1>b, SendTypes, RangeAppend
  <2>4. ~InOutbox(m)
    BY <1>v, <2>2, <2>3, Zenon DEF InOutbox
  <2>5. m # x
    <3>1. m = x => outbox'[v] = Append(outbox[v], Send(m))
      BY <1>v, <1>b, <2>1, Zenon
    <3> QED BY <1>v, <2>3, <3>1, Zenon DEF InOutbox
  <2> QED BY <2>1, <2>4, <2>5, Zenon
<1>3. kind[m] # "none"
  BY <1>2, Zenon DEF Writers
<1>4. m \in rejected => m \in rejected'
  BY Zenon DEF Writers, HandleRejected
<1>5. CASE InOutbox(m)
  <2>1. ASSUME NEW f, outbox'[v] = Without(outbox[v], f) PROVE f = Send(m)
    <3>1. \A e \in Range(outbox[v]) : e # f => e \in Range(Without(outbox[v], f))
      BY <1>b, WithoutElem, Zenon
    <3> QED BY <1>v, <1>5, <2>1, <3>1, Zenon DEF InOutbox
  <2>2. outbox'[v] # outbox[v]
    BY <1>v, <1>5, Zenon DEF InOutbox
  <2>3. PICK u \in Users : WritesOutbox(u)
    BY <2>2, Zenon DEF Writers
  <2>4. ASSUME HandleSent(u) PROVE FALSE
    <3>1. /\ Head(events[u]) \in Range(events[u]) /\ Head(events[u]) \in Events
          /\ Head(events[u]).type = "sent"
      BY <1>t, <2>4, NextEventLemma, Zenon DEF HandleSent
    <3>2. PICK x \in Msgs : x = Head(events[u]).id
      BY <3>1, EventFields, Zenon
    <3>3. Accepted(x)
      BY <3>1, <3>2, Zenon DEF IInv, InTransitOK, EventOK
    <3>4. outbox' = [outbox EXCEPT ![u] = Without(@, Send(x))]
      BY <2>4, <3>2, Zenon DEF HandleSent
    <3>5. outbox'[v] = Without(outbox[v], Send(x))
      BY <1>b, <2>2, <3>4, Zenon
    <3>6. m = x
      BY <2>1, <3>5, Constructors
    <3> QED BY <1>1, <3>3, <3>6, Zenon
  <2>5. ASSUME HandleRejected(u) PROVE m \in rejected'
    <3>1. PICK x : x = Head(events[u]).id
      BY Zenon
    <3>2. outbox' = [outbox EXCEPT ![u] = Without(@, Send(x))] /\ x \in rejected'
      BY <2>2, <2>5, <3>1, Zenon DEF HandleRejected
    <3>3. outbox'[v] = Without(outbox[v], Send(x))
      BY <1>b, <2>2, <3>2, Zenon
    <3>4. m = x
      BY <2>1, <3>3, Constructors, SMTT(60)
    <3> QED BY <3>2, <3>4, Zenon
  <2>6. ASSUME HandleAcked(u) PROVE FALSE
    <3>1. PICK f : f = Ack(Head(events[u]).ack, Head(events[u]).ids)
      BY Zenon
    <3>2. outbox' = [outbox EXCEPT ![u] = Without(@, f)]
      BY <2>2, <2>6, <3>1, Zenon DEF HandleAcked
    <3>3. outbox'[v] = Without(outbox[v], f)
      BY <1>b, <2>2, <3>2, Zenon
    <3>4. f.type = "ack"
      BY <3>1, Zenon DEF Ack
    <3> QED BY <2>1, <3>3, <3>4, Constructors, Zenon
  <2>7. ASSUME NEW f \in Items, outbox' = [outbox EXCEPT ![u] = Append(@, f)] PROVE FALSE
    <3>1. outbox'[v] = Append(outbox[v], f)
      BY <1>b, <2>2, <2>7, Zenon
    <3>2. Range(Append(outbox[v], f)) = Range(outbox[v]) \cup {f}
      BY <1>b, RangeAppend, SMTT(60)
    <3> QED BY <1>v, <1>5, <3>1, <3>2, Zenon DEF InOutbox
  <2>8. ASSUME QueueAck(u) PROVE FALSE
    BY <2>2, <2>7, <2>8, QueueAckItem, ZenonT(60) DEF QueueAck
  <2>9. ASSUME NEW x \in Msgs, Compose(u, x) PROVE FALSE
    BY <2>7, <2>9, SendTypes, Zenon DEF Compose
  <2> QED BY <2>3, <2>4, <2>5, <2>6, <2>8, <2>9, Zenon DEF WritesOutbox
<1>6. CASE ~InOutbox(m)
  BY <1>1, <1>3, <1>4, <1>6, Zenon DEF IInv, NothingLost
<1> QED BY <1>5, <1>6, Zenon

\* A used message key always leaves its plaintext somewhere.
LEMMA ConsumedStep ==
  ASSUME IInv, TypeOK', Writers, Mono
  PROVE  ConsumedRecoverable'
<1>t. TypeOK
  BY Zenon DEF IInv
<1> SUFFICES ASSUME NEW m \in consumed', ~Stored(m)' PROVE processed'[m] = "pending"
  BY Zenon DEF ConsumedRecoverable
<1>m. m \in Msgs /\ To[m] \in Users
  BY ParticipantsAssumption, Zenon DEF TypeOK
<1>p. processed \in [Msgs -> {"none", "pending", "stored"}]
  BY <1>t, Zenon DEF TypeOK
<1>1. ~Stored(m)
  BY <1>m, Zenon DEF Stored, Mono
<1>2. m \in consumed => processed[m] = "pending"
  BY <1>1, Zenon DEF IInv, ConsumedRecoverable
<1>3. ASSUME NEW u \in Users, Open(u) PROVE processed'[m] = "pending"
  BY <1>m, <1>p, <1>2, <1>3 DEF Open
<1>4. ASSUME NEW u \in Users, Commit(u) PROVE processed'[m] = processed[m]
  <2>1. /\ work[u].todo # <<>> /\ work[u].stage = "commit"
        /\ processed' = [processed EXCEPT ![Current(u)] = IF @ = "pending" THEN "stored" ELSE @]
    BY <1>4, Zenon DEF Commit, At
  <2>2. m # Current(u)
    BY <1>1, <2>1, CurrentOK, Zenon
  <2> QED BY <1>m, <1>p, <2>1, <2>2, Zenon
<1>5. ASSUME NEW u \in Users, HandleAcked(u) PROVE processed'[m] = processed[m]
  <2>1. PICK f, S : S = Head(events[u]).ids /\ f = Ack(Head(events[u]).ack, S)
    BY Zenon
  <2>2. CASE f \in Range(outbox[u])
    <3>1. FrameOK(u, f) /\ f.type = "ack" /\ f.ids = S
      BY <2>1, <2>2, Zenon DEF IInv, InTransitOK, Ack
    <3>2. S \subseteq history[u]
      BY <3>1, Zenon DEF FrameOK
    <3>3. m \notin S
      BY <1>1, <3>2, Zenon DEF IInv, DurableOK, Stored
    <3> QED BY <1>m, <1>5, <2>1, <2>2, <3>3, Zenon DEF HandleAcked
  <2>3. CASE f \notin Range(outbox[u])
    BY <1>5, <2>1, <2>3, ZenonT(60) DEF HandleAcked
  <2> QED BY <2>2, <2>3, Zenon
<1>6. CASE m \in consumed
  BY <1>2, <1>3, <1>4, <1>5, <1>6, SMTT(60) DEF Writers
<1>7. CASE m \notin consumed
  BY <1>3, <1>7, Zenon DEF Writers
<1> QED BY <1>6, <1>7, Zenon

\* A message once reported rejected stays unaccepted.
LEMMA RejectedStep ==
  ASSUME IInv, Writers, Mono
  PROVE  RejectedNeverDelivered'
<1> SUFFICES ASSUME NEW m \in rejected', Accepted(m)' PROVE FALSE
  BY Zenon DEF RejectedNeverDelivered
<1>1. CASE m \in rejected
  <2>1. m \in Msgs /\ m \in refused /\ ~Accepted(m)
    BY <1>1, Zenon DEF IInv, TypeOK, DurableOK, RejectedNeverDelivered
  <2> QED BY <2>1, AcceptedGrows, Zenon
<1>2. CASE m \notin rejected
  <2>1. m \in Msgs /\ m \in refused /\ InOutbox(m)
    BY <1>2, RejectedGrows, Zenon
  <2>2. ~Accepted(m)
    BY <2>1, Zenon DEF IInv, DurableOK
  <2> QED BY <2>1, <2>2, AcceptedGrows, Zenon
<1> QED BY <1>1, <1>2, Zenon

\* The acceptance of a message goes after the message has left the outbox.
LEMMA RetryStep ==
  ASSUME IInv, Writers, Mono
  PROVE  RetryRecognised'
<1> SUFFICES ASSUME NEW m \in Msgs, InOutbox(m)', Accepted(m)' PROVE m \in ledger'
  BY Zenon DEF RetryRecognised
<1>1. CASE ~Accepted(m)
  BY <1>1, AcceptedGrows, Zenon
<1>2. CASE Accepted(m)
  <2>1. InOutbox(m)
    BY <1>2, Zenon DEF Mono
  <2>2. m \in ledger
    BY <1>2, <2>1, Zenon DEF IInv, RetryRecognised
  <2>3. ASSUME NEW c \in Conns, Enqueue(c) PROVE m \in ledger'
    BY <2>2, <2>3, ZenonT(60) DEF Enqueue, Accept, relayDb
  <2>4. ASSUME NEW c \in Conns, ConfirmAcceptance(c) PROVE m \in ledger'
    <3>1. task[c].st = "handle" /\ task[c].frame.type = "acksent"
      BY <2>4, ZenonT(60) DEF ConfirmAcceptance, Handles
    <3>2. ~InOutbox(task[c].frame.id)
      BY <3>1, Zenon DEF IInv, InTransitOK, TaskOK, FrameOK
    <3>3. m # task[c].frame.id
      BY <2>1, <3>2, Zenon
    <3> QED BY <2>2, <2>4, <3>3, ZenonT(60) DEF ConfirmAcceptance
  <2> QED BY <2>2, <2>3, <2>4, Zenon DEF Writers
<1> QED BY <1>1, <1>2, Zenon

-----------------------------------------------------------------------------
(* The theorems *)

\* IInv holds in every initial state.
LEMMA InvariantInit == Init => IInv
<1> SUFFICES ASSUME Init PROVE IInv
  OBVIOUS
<1>1. TypeOK
  BY TypeInit, Zenon
<1>2. InTransitOK
  <2>1. /\ \A u \in Users : outbox[u] = <<>> /\ events[u] = <<>> /\ work[u] = Idle
        /\ \A c \in Conns : up[c] = <<>> /\ task[c] = Closed
    BY Zenon DEF Init
  <2>2. Idle.todo = <<>> /\ Idle.acks = {} /\ Closed.st = "closed"
    BY Zenon DEF Idle, Closed
  <2>3. \A u \in Users : WorkOK(u, work[u])
    BY <2>1, <2>2, RangeEmpty, Zenon DEF WorkOK
  <2>4. \A c \in Conns : TaskOK(Owner[c], task[c])
    BY <2>1, <2>2, Zenon DEF TaskOK
  <2> QED BY <2>1, <2>3, <2>4, RangeEmpty, Zenon DEF InTransitOK
<1>3. LocalOK
  <2>1. \A u \in Users : outbox[u] = <<>> /\ link[u] = NoConn
    BY Zenon DEF Init
  <2> QED BY <2>1, SMTT(60) DEF LocalOK, Once
<1>4. \A m \in Msgs : ~Accepted(m)
  BY ParticipantsAssumption, Zenon DEF Init, Accepted, Stored
<1>5. DurableOK
  BY <1>4, Zenon DEF Init, DurableOK
<1>6. NothingLost /\ ConsumedRecoverable /\ RejectedNeverDelivered
  BY Zenon DEF Init, NothingLost, ConsumedRecoverable, RejectedNeverDelivered
<1>7. RetryRecognised
  BY <1>4, Zenon DEF RetryRecognised
<1> QED BY <1>1, <1>2, <1>3, <1>5, <1>6, <1>7, Zenon DEF IInv

\* Every step preserves IInv.
LEMMA InvariantStep == IInv /\ [Next]_vars => IInv'
<1> SUFFICES ASSUME IInv, [Next]_vars PROVE IInv'
  OBVIOUS
<1>1. TypeOK'
  BY TypeStep, Zenon DEF IInv
<1>2. Writers
  BY WritersStep, Zenon
<1>3. Mono
  BY <1>2, MonoStep, Zenon
<1>4. InTransitOK'
  <2>1. \A u \in Users : \A f \in Range(outbox'[u]) : FrameOK(u, f)'
    BY <1>1, <1>2, <1>3, OutboxStep, Zenon
  <2>2. \A u \in Users : \A e \in Range(events'[u]) : EventOK(u, e)'
    BY <1>1, <1>2, <1>3, EventsStep, Zenon
  <2>3. \A u \in Users : WorkOK(u, work[u])'
    BY <1>1, <1>2, <1>3, WorkStep, Zenon
  <2>4. \A c \in Conns : \A f \in Range(up'[c]) : FrameOK(Owner[c], f)'
    BY <1>1, <1>2, <1>3, UpStep, Zenon
  <2>5. \A c \in Conns : TaskOK(Owner[c], task[c])'
    BY <1>1, <1>2, <1>3, TaskStep, Zenon
  <2> QED BY <2>1, <2>2, <2>3, <2>4, <2>5, Zenon DEF InTransitOK
<1>5. LocalOK'
  <2>1. \A u \in Users : Once(outbox'[u])
    BY <1>1, <1>2, <1>3, OutboxStep, Zenon
  <2>2. \A u \in Users : link'[u] # NoConn => Owner[link'[u]] = u
    BY <1>2, LinkStep, Zenon
  <2> QED BY <2>1, <2>2, Zenon DEF LocalOK
<1>6. DurableOK' /\ NothingLost' /\ ConsumedRecoverable'
  BY <1>1, <1>2, <1>3, DurableStep, NothingLostStep, ConsumedStep, Zenon
<1>7. RejectedNeverDelivered' /\ RetryRecognised'
  BY <1>2, <1>3, RejectedStep, RetryStep, Zenon
<1> QED BY <1>1, <1>4, <1>5, <1>6, <1>7, Zenon DEF IInv

\* Every variable keeps its type: the frames, events and tasks of the relay
\* and of the clients are the ones their handlers expect.
THEOREM TypeCorrect == Spec => []TypeOK
  BY TypeInit, TypeStep, PTL DEF Spec

\* What is in transit and what is in the databases agree in every reachable
\* state.
THEOREM Invariance == Spec => []IInv
  BY InvariantInit, InvariantStep, PTL DEF Spec

\* However the clients crash, connections break and handlers interleave, an
\* encrypted message is in an outbox, in the queue or in its recipient's
\* history, or was reported rejected, or stayed queued for 30 days.
THEOREM MessagesNeverLost == Spec => []NothingLost
<1>1. IInv => NothingLost
  BY Zenon DEF IInv
<1> QED BY <1>1, Invariance, PTL

\* A decrypted message is in the history or its marker still holds the
\* plaintext: a crash of the client between its two databases loses nothing.
THEOREM PlaintextNeverLost == Spec => []ConsumedRecoverable
<1>1. IInv => ConsumedRecoverable
  BY Zenon DEF IInv
<1> QED BY <1>1, Invariance, PTL

\* A sender is never told that a message was rejected which the relay has
\* accepted, or will accept.
THEOREM RejectionIsFinal == Spec => []RejectedNeverDelivered
<1>1. IInv => RejectedNeverDelivered
  BY Zenon DEF IInv
<1> QED BY <1>1, Invariance, PTL

\* As long as a client may send a message again the relay recognises it.
THEOREM RetriesAreRecognised == Spec => []RetryRecognised
<1>1. IInv => RetryRecognised
  BY Zenon DEF IInv
<1> QED BY <1>1, Invariance, PTL

\* The relay deletes a queued message only after its recipient stored it, or
\* at the end of its 30 days.
THEOREM DeletionIsSafe == Spec => DeletedOnlyWhenStored
<1>1. IInv /\ [Next]_vars =>
        [\A m \in Msgs : row[m] # 0 /\ row'[m] = 0 => Stored(m) \/ m \in expired']_vars
  BY WritersStep, RowLeaves, Zenon
<1> QED BY <1>1, Invariance, PTL DEF Spec, DeletedOnlyWhenStored

-----------------------------------------------------------------------------
(* Delivery implements Mailbox *)

\* By IInv the status of a message depends on four variables, each written by
\* one operation.
Plain(m) ==
  IF kind[m] = "none" THEN "unsent"
  ELSE IF Stored(m) THEN "delivered"
  ELSE IF m \in rejected THEN "refused"
  ELSE IF m \in expired THEN "expired" ELSE "inflight"

\* Under IInv the refinement mapping is Plain: a message reported rejected is
\* never also one the relay accepted.
LEMMA StatusPlain == IInv => status = [m \in Msgs |-> Plain(m)]
<1> SUFFICES ASSUME IInv, NEW m \in Msgs PROVE status[m] = Plain(m)
  BY Zenon DEF status
<1>1. CASE kind[m] = "none"
  <2>1. ~Accepted(m) /\ m \notin refused /\ m \notin rejected
    BY <1>1, Zenon DEF IInv, DurableOK
  <2>2. ~InOutbox(m)
    <3>1. From[m] \in Users
      BY ParticipantsAssumption, Zenon
    <3>2. Send(m).type = "send" /\ Send(m).id = m
      BY Constructors, Zenon
    <3>3. ~FrameOK(From[m], Send(m))
      BY <1>1, <3>2, Zenon DEF FrameOK
    <3> QED BY <3>1, <3>3, Zenon DEF IInv, InTransitOK, InOutbox
  <2> QED BY <1>1, <2>1, <2>2, Zenon DEF status, Plain, Accepted
<1>2. CASE kind[m] # "none"
  <2>1. InOutbox(m) \/ Accepted(m) \/ m \in rejected
    BY <1>2, Zenon DEF IInv, NothingLost
  <2> QED BY <1>2, <2>1, Zenon DEF status, Plain, Accepted
<1> QED BY <1>1, <1>2, Zenon

\* Every step of Delivery is a step of Mailbox or leaves every status alone.
LEMMA PromiseStep == IInv /\ IInv' /\ [Next]_vars => [Promise!Next]_status
<1> SUFFICES ASSUME IInv, IInv', [Next]_vars PROVE Promise!Next \/ status' = status
  OBVIOUS
<1>w. Writers
  BY WritersStep, Zenon
<1>t. TypeOK
  BY Zenon DEF IInv
<1>s. status' = [m \in Msgs |-> Plain(m)']
  <2>1. (IInv => status = [m \in Msgs |-> Plain(m)])'
    BY StatusPlain, PTL
  <2> QED BY <2>1, Zenon
<1>1. status = [m \in Msgs |-> Plain(m)] /\ status' = [m \in Msgs |-> Plain(m)']
  BY <1>s, StatusPlain, Zenon
<1>2. ASSUME NEW u \in Users, NEW x \in Msgs, Compose(u, x) PROVE Promise!Next
  <2>1. kind[x] = "none" /\ UNCHANGED <<history, rejected, expired>>
        /\ kind' = [kind EXCEPT ![x] = IF To[x] \in header[u] THEN "prekey" ELSE "ratchet"]
    BY <1>2, Zenon DEF Compose, relayDb
  <2>2. kind \in [Msgs -> {"none", "prekey", "ratchet"}]
    BY <1>t, Zenon DEF TypeOK
  <2>3. \A m \in Msgs : m # x => Plain(m)' = Plain(m)
    BY <2>1, <2>2, Zenon DEF Plain, Stored
  <2>4. ~Stored(x) /\ x \notin rejected /\ x \notin expired
    BY <2>1, Zenon DEF IInv, DurableOK, Accepted
  <2>5. Plain(x) = "unsent" /\ Plain(x)' = "inflight"
    BY <2>1, <2>2, <2>4, Zenon DEF Plain, Stored
  <2>6. status' = [status EXCEPT ![x] = "inflight"] /\ status[x] = "unsent"
    BY <1>1, <2>3, <2>5, Zenon
  <2> QED BY <2>6, ZenonT(60) DEF Promise!Next, Promise!Submit, Promise!Move
<1>3. ASSUME NEW u \in Users, Store(u) PROVE Promise!Next \/ status' = status
  <2>1. PICK x : x = Current(u)
    OBVIOUS
  <2>2. x \in Msgs /\ To[x] = u /\ Accepted(x)
    BY <1>3, <2>1, CurrentOK, Zenon DEF Store, At
  <2>3. /\ history' = [history EXCEPT ![u] = @ \cup {x}] /\ UNCHANGED <<kind, rejected, expired>>
        /\ history \in [Users -> SUBSET Msgs]
    BY <1>3, <1>t, <2>1, Zenon DEF Store, TypeOK, relayDb
  <2>4. \A m \in Msgs : m # x => (Stored(m)' <=> Stored(m))
    BY <2>3, ParticipantsAssumption, Zenon DEF Stored
  <2>5. \A m \in Msgs : m # x => Plain(m)' = Plain(m)
    BY <2>3, <2>4, Zenon DEF Plain
  <2>6. Stored(x)' /\ kind[x] # "none" /\ x \notin rejected
    BY <2>2, <2>3, SMTT(60) DEF Stored, IInv, DurableOK, RejectedNeverDelivered
  <2>7. Plain(x)' = "delivered" /\ Plain(x) \in {"inflight", "expired", "delivered"}
    BY <2>3, <2>6, Zenon DEF Plain
  <2>8. status' = [status EXCEPT ![x] = "delivered"] /\ status[x] = Plain(x)
    BY <1>1, <2>2, <2>5, <2>7, Zenon
  <2>9. CASE Plain(x) = "delivered"
    BY <1>1, <2>8, <2>9, Zenon
  <2> QED BY <2>2, <2>7, <2>8, <2>9, ZenonT(60) DEF Promise!Next, Promise!Deposit, Promise!Move
<1>4. ASSUME NEW u \in Users, HandleRejected(u) PROVE Promise!Next \/ status' = status
  <2>1. UNCHANGED <<kind, history, expired>>
    BY <1>4, Zenon DEF HandleRejected, relayDb
  <2>2. CASE rejected' = rejected
    BY <1>1, <2>1, <2>2, Zenon DEF Plain, Stored
  <2>3. CASE rejected' # rejected
    <3>1. PICK x : x = Head(events[u]).id
      BY Zenon
    <3>2. rejected' = rejected \cup {x} /\ x \in rejected' /\ x \notin rejected
      BY <1>4, <2>3, <3>1, Zenon DEF HandleRejected
    <3>3. x \in Msgs /\ x \in refused /\ InOutbox(x)
      BY <1>w, <3>2, RejectedGrows, Zenon
    <3>4. ~Accepted(x) /\ kind[x] # "none"
      BY <3>3, ZenonT(60) DEF IInv, DurableOK
    <3>5. Plain(x) = "inflight" /\ Plain(x)' = "refused"
      BY <2>1, <3>2, <3>4, Zenon DEF Plain, Accepted, Stored
    <3>6. \A m \in Msgs : m # x => Plain(m)' = Plain(m)
      BY <2>1, <3>2, Zenon DEF Plain, Stored
    <3>7. status' = [status EXCEPT ![x] = "refused"] /\ status[x] = "inflight"
      BY <1>1, <3>3, <3>5, <3>6, Zenon
    <3> QED BY <3>3, <3>7, Zenon DEF Promise!Next, Promise!Refuse, Promise!Move
  <2> QED BY <2>2, <2>3, Zenon
<1>5. ASSUME NEW x \in Msgs, CollectGarbage(x) PROVE Promise!Next \/ status' = status
  <2>1. UNCHANGED <<kind, history, rejected>> /\ expired' = expired \cup {x} /\ row[x] # 0
    BY <1>5, Zenon DEF CollectGarbage
  <2>2. \A m \in Msgs : m # x => Plain(m)' = Plain(m)
    BY <2>1, Zenon DEF Plain, Stored
  <2>3. Accepted(x)
    BY <2>1, Zenon DEF Accepted
  <2>4. kind[x] # "none" /\ x \notin rejected
    BY <2>3, Zenon DEF IInv, DurableOK, RejectedNeverDelivered
  <2>5. Plain(x)' = Plain(x) \/ (Plain(x)' = "expired" /\ Plain(x) = "inflight")
    BY <2>1, <2>4, Zenon DEF Plain, Stored
  <2>6. CASE Plain(x)' = Plain(x)
    BY <1>1, <2>2, <2>6, Zenon
  <2>7. CASE Plain(x)' = "expired" /\ Plain(x) = "inflight"
    <3>1. status' = [status EXCEPT ![x] = "expired"] /\ status[x] = "inflight"
      BY <1>1, <2>2, <2>7, Zenon
    <3> QED BY <3>1, Zenon DEF Promise!Next, Promise!Expire, Promise!Move
  <2> QED BY <2>5, <2>6, <2>7, Zenon
<1>6. CASE UNCHANGED <<kind, history, rejected, expired>>
  BY <1>1, <1>6, Zenon DEF Plain, Stored
<1> QED BY <1>w, <1>2, <1>3, <1>4, <1>5, <1>6, Zenon DEF Writers

\* The protocol, with its outboxes, retries, ledgers and displaced
\* connections, implements the mailbox it promises.
THEOREM Refinement == Spec => KeepsPromise
<1>1. Init => Promise!Init
  <2> SUFFICES ASSUME Init PROVE status = [m \in Msgs |-> "unsent"]
    BY Zenon DEF Promise!Init
  <2>1. IInv
    BY InvariantInit, Zenon
  <2> QED BY <2>1, StatusPlain, Zenon DEF Plain, Init
<1> QED BY <1>1, PromiseStep, Invariance, PTL DEF Spec, KeepsPromise, Promise!Spec

=============================================================================
