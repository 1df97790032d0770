--------------------------- MODULE ReceiptsSafety ---------------------------
(***************************************************************************)
(* Receipts, for every value of its constants: a receipt is not lost, no   *)
(* message is reported twice, what the relay still offers to the author    *)
(* can be acknowledged, and the relay deletes only what the reader has     *)
(* dropped.                                                                *)
(***************************************************************************)
EXTENDS Receipts, ChannelLemmas

ReaderFrames == [type : {"receipt", "push", "answer", "confirm"}, id : Nat]
AckFrames    == [type : {"ack"}, ack : Nat, id : Nat]
AuthorFrames == AckFrames \cup [type : {"notify"}, ack : Nat, id : Nat, found : BOOLEAN]
Frames       == ReaderFrames \cup AuthorFrames

ReaderEvents == {Authed} \cup [type : {"sent"}, id : Nat]
AuthorEvents == {Authed} \cup [type : {"incoming"}, id : Nat]
                         \cup [type : {"acked"}, ack : Nat, id : Nat]
Events       == ReaderEvents \cup AuthorEvents

RowTypes == [id : Nat, acked : BOOLEAN]

Types ==
  /\ toCome \subseteq Msgs /\ screen \in {"none", "this", "other"}
  /\ acks \in [outbox : Seq(AckFrames), made : Nat]
  /\ marker \in [pending : SUBSET Nat, stored : SUBSET Nat]
  /\ work \in [stage : {"idle", "store", "ack"}, id : Nat]
  /\ online \in [Sides -> BOOLEAN] /\ greeted \in [Sides -> BOOLEAN]
  /\ up \in [Sides -> Seq(Frames)] /\ old \in [Sides -> SUBSET Seq(Frames)]
  /\ events \in [Sides -> Seq(Events)] /\ queue \in Seq(RowTypes)

\* A state c of the reader while the messages T are still to come: every
\* message is in one place, every receipt at most once in the outbox.
ReadingOK(c, T) ==
  /\ c \in [unread : SUBSET Msgs, outbox : Seq(Nat), covers : Seq(SUBSET Msgs)]
  /\ c.unread \cap T = {}
  /\ \A r \in 1..Len(c.covers) :
       /\ c.covers[r] # {} /\ c.covers[r] \cap T = {} /\ c.covers[r] \cap c.unread = {}
       /\ \A q \in 1..Len(c.covers) \ {r} : c.covers[r] \cap c.covers[q] = {}
  /\ Range(c.outbox) \subseteq 1..Len(c.covers)
  /\ \A i, j \in 1..Len(c.outbox) : c.outbox[i] = c.outbox[j] => i = j

\* The state c comes after b: its receipts that b does not have are in its
\* outbox, after those of b.
Later(b, c) ==
  /\ Len(b.covers) <= Len(c.covers) /\ Len(b.outbox) <= Len(c.outbox)
  /\ \A i \in 1..Len(b.outbox) : c.outbox[i] = b.outbox[i]
  /\ \A i \in 1..Len(c.outbox) : i > Len(b.outbox) => c.outbox[i] > Len(b.covers)
  /\ \A r \in 1..Len(c.covers) : r > Len(b.covers) => r \in Range(c.outbox)

\* The receipts the reader's connection has still to hand over.
Sending == {h.id : h \in {f \in Range(up[Reader]) : f.type = "receipt"}}

\* The reader will not send receipt r again on a live connection.
Gone(r) == r \notin Range(rd.outbox) \cup Sending

\* The relay has had receipt r: it still has its row, or will not insert one
\* again except for an abandoned connection.
Seen(r) == r \in Queued \cup ghosts \/ Gone(r)

\* The relay has recorded the acknowledgement of r, and will not forget it
\* but by deleting the row for good.
Acknowledged(r) == r \in Ids(Rows(TRUE)) \cup ghosts \/ (r \notin Queued /\ Gone(r))

\* The databases of the author and of the relay.
Ledger ==
  /\ marker.pending \cap marker.stored = {} /\ marker.pending \cup marker.stored \subseteq consumed
  /\ consumed \subseteq Made /\ Queued \subseteq Made
  /\ Len(queue) <= MaxQueue
  /\ \A i, j \in DOMAIN queue : queue[i].id = queue[j].id => i = j
  /\ Ids(Rows(TRUE)) \subseteq consumed
  /\ work.stage # "idle" => work.id \in consumed
  /\ \A a \in Range(acks.outbox) : a.id \in consumed
  /\ \A r \in consumed : Seen(r)
  /\ ReceiptNotLost /\ AckPossible

\* What a frame of side s, or the rest of its handler, says.
FrameOK(s, h) ==
  /\ h \in (IF s = Reader THEN ReaderFrames ELSE AuthorFrames) /\ h.id \in Made
  /\ h.type \in {"answer", "ack", "notify"} => h.id \in consumed
  /\ h.type = "push" => Seen(h.id)
  /\ h.type = "confirm" => h.id \notin Range(rd.outbox)
  /\ h.type = "notify" => Acknowledged(h.id)

\* What an event for side s says.
EventOK(s, e) ==
  /\ e \in (IF s = Reader THEN ReaderEvents ELSE AuthorEvents)
  /\ e # Authed => e.id \in Made
  /\ e.type \in {"sent", "acked"} => e.id \in consumed
  /\ e.type = "incoming" => Seen(e.id)
  /\ e.type = "acked" => Acknowledged(e.id)

\* Everything on its way says what is true.
Transit ==
  \A s \in Sides :
    /\ \A h \in Range(up[s]) : FrameOK(s, h)
    /\ \A q \in old[s] : q # <<>> /\ \A h \in Range(q) : FrameOK(s, h)
    /\ \A e \in Range(events[s]) : EventOK(s, e)

\* No receipt follows its confirmation on a connection.
ConfirmedLast(u) ==
  \A i, j \in DOMAIN u : i < j /\ u[i].type = "confirm" /\ u[j].type = "receipt" => u[i].id # u[j].id

\* ... or comes on a later one.
Order ==
  /\ ConfirmedLast(up[Reader])
  /\ \A q \in old[Reader] : \A h \in Range(q) : h.type = "confirm" => h.id \notin Sending

\* The inductive invariant.
RInv == Types /\ ReadingOK(rd, toCome) /\ Ledger /\ Transit /\ Order

-----------------------------------------------------------------------------
(* Frames, events and sides *)

LEMMA SidesDiffer == Sides = {Reader, Author} /\ Reader # Author
  BY DEF Sides, Reader, Author

\* The fields of frames and events.
LEMMA FrameFields ==
  /\ \A r \in Nat : /\ Receipt(r) \in ReaderFrames /\ Receipt(r).type = "receipt" /\ Receipt(r).id = r
                    /\ Push(r) \in ReaderFrames /\ Push(r).type = "push" /\ Push(r).id = r
  /\ \A r \in Nat : /\ Answer(r) \in ReaderFrames /\ Answer(r).type = "answer" /\ Answer(r).id = r
                    /\ Confirm(r) \in ReaderFrames /\ Confirm(r).type = "confirm" /\ Confirm(r).id = r
  /\ \A k, r \in Nat : Ack(k, r) \in AckFrames /\ Ack(k, r).type = "ack" /\ Ack(k, r).id = r
  /\ \A k, r \in Nat : \A b \in BOOLEAN :
       /\ Notify(k, r, b) \in AuthorFrames
       /\ Notify(k, r, b).type = "notify" /\ Notify(k, r, b).id = r
  /\ \A h \in AuthorFrames : h.ack \in Nat /\ h.id \in Nat /\ h.type \in {"ack", "notify"}
  /\ \A h \in ReaderFrames : h.type \in {"receipt", "push", "answer", "confirm"} /\ h.id \in Nat
  /\ \A h \in Frames : h.id \in Nat
<1>1. \A r \in Nat : /\ Receipt(r) \in ReaderFrames /\ Receipt(r).type = "receipt" /\ Receipt(r).id = r
                     /\ Push(r) \in ReaderFrames /\ Push(r).type = "push" /\ Push(r).id = r
  BY DEF Receipt, Push, ReaderFrames
<1>2. \A r \in Nat : /\ Answer(r) \in ReaderFrames /\ Answer(r).type = "answer" /\ Answer(r).id = r
                     /\ Confirm(r) \in ReaderFrames /\ Confirm(r).type = "confirm" /\ Confirm(r).id = r
  BY DEF Answer, Confirm, ReaderFrames
<1>3. \A k, r \in Nat : Ack(k, r) \in AckFrames /\ Ack(k, r).type = "ack" /\ Ack(k, r).id = r
  BY DEF Ack, AckFrames
<1>4. \A k, r \in Nat : \A b \in BOOLEAN :
        /\ Notify(k, r, b) \in AuthorFrames
        /\ Notify(k, r, b).type = "notify" /\ Notify(k, r, b).id = r
  BY DEF Notify, AuthorFrames
<1>5. \A h \in AuthorFrames : h.ack \in Nat /\ h.id \in Nat /\ h.type \in {"ack", "notify"}
  BY DEF AuthorFrames, AckFrames
<1>6. \A h \in ReaderFrames : h.type \in {"receipt", "push", "answer", "confirm"} /\ h.id \in Nat
  BY DEF ReaderFrames
<1>7. \A h \in Frames : h.id \in Nat
  BY <1>5, <1>6, Zenon DEF Frames
<1> QED BY <1>1, <1>2, <1>3, <1>4, <1>5, <1>6, <1>7, Zenon

LEMMA EventFields ==
  /\ \A r \in Nat : /\ Incoming(r) \in AuthorEvents /\ Incoming(r).type = "incoming" /\ Incoming(r).id = r
                    /\ Sent(r) \in ReaderEvents /\ Sent(r).type = "sent" /\ Sent(r).id = r
  /\ \A k, r \in Nat : Acked(k, r) \in AuthorEvents /\ Acked(k, r).type = "acked" /\ Acked(k, r).id = r
  /\ Authed.type = "authed" /\ Authed \in ReaderEvents /\ Authed \in AuthorEvents
  /\ \A e \in Events : e # Authed => e.id \in Nat
  /\ \A e \in Events : e.type = "acked" => e.ack \in Nat
  /\ \A e \in ReaderEvents : e.type \in {"authed", "sent"}
  /\ \A e \in AuthorEvents : e.type \in {"authed", "incoming", "acked"}
  /\ \A e \in Events : e # Authed <=> e.type # "authed"
<1>1. \A r \in Nat : /\ Incoming(r) \in AuthorEvents /\ Incoming(r).type = "incoming" /\ Incoming(r).id = r
                     /\ Sent(r) \in ReaderEvents /\ Sent(r).type = "sent" /\ Sent(r).id = r
  BY DEF Incoming, Sent, AuthorEvents, ReaderEvents
<1>2. \A k, r \in Nat : Acked(k, r) \in AuthorEvents /\ Acked(k, r).type = "acked" /\ Acked(k, r).id = r
  BY DEF Acked, AuthorEvents
<1>3. Authed.type = "authed" /\ Authed \in ReaderEvents /\ Authed \in AuthorEvents
  BY DEF Authed, ReaderEvents, AuthorEvents
<1>4. \A e \in ReaderEvents : /\ e.type \in {"authed", "sent"} /\ (e # Authed <=> e.type # "authed")
                              /\ (e # Authed => e.id \in Nat)
  BY DEF ReaderEvents, Authed
<1>5. \A e \in AuthorEvents : /\ e.type \in {"authed", "incoming", "acked"}
                              /\ (e # Authed <=> e.type # "authed")
                              /\ (e # Authed => e.id \in Nat) /\ (e.type = "acked" => e.ack \in Nat)
  BY DEF AuthorEvents, Authed
<1> QED BY <1>1, <1>2, <1>3, <1>4, <1>5, Zenon DEF Events

\* A client sends frames.
LEMMA Emitted ==
  ASSUME up \in [Sides -> Seq(Frames)], NEW s \in Sides, NEW t \in Seq(Frames), Emit(s, t)
  PROVE  /\ up' \in [Sides -> Seq(Frames)]
         /\ up'[s] \in {up[s], up[s] \o t} /\ \A o \in Sides \ {s} : up'[o] = up[o]
         /\ Range(up'[s]) \subseteq Range(up[s]) \cup Range(t)
<1>1. up[s] \in Seq(Frames) /\ up[s] \o t \in Seq(Frames)
      /\ Range(up[s] \o t) = Range(up[s]) \cup Range(t)
  BY RangeConcat
<1>2. PICK u : u = up[s] \o t
  BY Zenon
<1>3. up' \in {up, [up EXCEPT ![s] = u]}
  BY <1>2 DEF Emit
<1>4. CASE up' = up
  BY <1>4, Zenon
<1>5. CASE up' = [up EXCEPT ![s] = u]
  <2>1. up' \in [Sides -> Seq(Frames)] /\ up'[s] = u /\ \A o \in Sides \ {s} : up'[o] = up[o]
    BY <1>1, <1>2, <1>5
  <2> QED BY <1>1, <1>2, <2>1, Zenon
<1> QED BY <1>3, <1>4, <1>5, Zenon

\* Where Without takes an item out.
LEMMA WithoutAt ==
  ASSUME NEW S, NEW s \in Seq(S), NEW f \in Range(s)
  PROVE  \E k \in 1..Len(s) :
           /\ s[k] = f
           /\ Len(Without(s, f)) = Len(s) - 1
           /\ \A i \in 1..(k - 1) : Without(s, f)[i] = s[i]
           /\ \A i \in k..(Len(s) - 1) : Without(s, f)[i] = s[i + 1]
<1>1. PICK k : k = CHOOSE i \in DOMAIN s : s[i] = f
  BY Zenon
<1>2. k \in 1..Len(s) /\ s[k] = f
  BY <1>1 DEF Range
<1>3. PICK t : t = Without(s, f)
  BY Zenon
<1>4. t = SubSeq(s, 1, k - 1) \o SubSeq(s, k + 1, Len(s))
  BY <1>1, <1>3, Zenon DEF Without, DeleteAt
<1>5. /\ t \in Seq(S) /\ Len(t) = Len(s) - 1
      /\ \A i \in 1..(k - 1) : t[i] = s[i]
      /\ \A i \in k..(Len(s) - 1) : t[i] = s[i + 1]
  BY <1>2, <1>4, DeleteAtElem, ZenonT(60)
<1> QED BY <1>2, <1>3, <1>5, Zenon

\* Removing an item that is in an outbox once.
LEMMA WithoutOnce ==
  ASSUME NEW S, NEW s \in Seq(S), NEW f,
         \A i, j \in 1..Len(s) : s[i] = s[j] => i = j
  PROVE  /\ f \notin Range(Without(s, f))
         /\ \A i, j \in 1..Len(Without(s, f)) : Without(s, f)[i] = Without(s, f)[j] => i = j
<1>1. CASE f \notin Range(s)
  BY <1>1 DEF Without
<1>2. CASE f \in Range(s)
  <2>3. PICK t : t = Without(s, f)
    BY Zenon
  <2>4. t \in Seq(S)
    BY <2>3, WithoutElem, Zenon
  <2>2. PICK k \in 1..Len(s) :
              /\ s[k] = f /\ Len(t) = Len(s) - 1
              /\ \A i \in 1..(k - 1) : t[i] = s[i]
              /\ \A i \in k..(Len(s) - 1) : t[i] = s[i + 1]
    BY <1>2, <2>3, WithoutAt, Zenon
  <2>5. Len(s) \in Nat /\ t \in Seq(S)
    BY <2>4
  <2>6. ASSUME NEW i \in 1..Len(t)
        PROVE  \E j \in 1..Len(s) : j # k /\ t[i] = s[j] /\ j = IF i < k THEN i ELSE i + 1
    <3>1. CASE i < k
      BY <2>2, <2>5, <3>1
    <3>2. CASE i >= k
      BY <2>2, <2>5, <3>2
    <3> QED BY <2>2, <3>1, <3>2
  <2>7. f \notin Range(t)
    <3>1. SUFFICES ASSUME NEW i \in 1..Len(t), t[i] = f PROVE FALSE
      BY <2>5, RangeElem, Zenon
    <3>2. PICK j \in 1..Len(s) : j # k /\ t[i] = s[j]
      BY <2>6, Zenon
    <3> QED BY <2>2, <3>1, <3>2, Zenon
  <2>8. ASSUME NEW i \in 1..Len(t), NEW j \in 1..Len(t), t[i] = t[j] PROVE i = j
    <3>1. PICK a \in 1..Len(s) : a # k /\ t[i] = s[a] /\ a = IF i < k THEN i ELSE i + 1
      BY <2>6, Zenon
    <3>2. PICK b \in 1..Len(s) : b # k /\ t[j] = s[b] /\ b = IF j < k THEN j ELSE j + 1
      BY <2>6, Zenon
    <3>3. a = b
      BY <2>8, <3>1, <3>2, Zenon
    <3>4. i \in Nat /\ j \in Nat /\ k \in Nat
      BY <2>2, <2>5
    <3> QED BY <3>1, <3>2, <3>3, <3>4
  <2> QED BY <2>3, <2>7, <2>8, Zenon
<1> QED BY <1>1, <1>2, Zenon

-----------------------------------------------------------------------------
(* The reader's state *)

ReaderStates == [unread : SUBSET Msgs, outbox : Seq(Nat), covers : Seq(SUBSET Msgs)]

\* The fields of a reader state.
LEMMA StateFields ==
  ASSUME NEW c \in ReaderStates
  PROVE  /\ c.unread \subseteq Msgs /\ c.outbox \in Seq(Nat) /\ c.covers \in Seq(SUBSET Msgs)
         /\ Len(c.outbox) \in Nat /\ Len(c.covers) \in Nat
         /\ \A U \in SUBSET Msgs :
              /\ [c EXCEPT !.unread = U] \in ReaderStates /\ [c EXCEPT !.unread = U].unread = U
              /\ [c EXCEPT !.unread = U].outbox = c.outbox /\ [c EXCEPT !.unread = U].covers = c.covers
  BY DEF ReaderStates

\* Emptying or extending the unread list.
LEMMA UnreadOK ==
  ASSUME NEW c, NEW T, ReadingOK(c, T), NEW b, Later(b, c), NEW U \in SUBSET Msgs, U \cap T = {},
         \A r \in 1..Len(c.covers) : c.covers[r] \cap U = {}
  PROVE  LET d == [c EXCEPT !.unread = U] IN
         ReadingOK(d, T) /\ Later(b, d) /\ d.unread = U /\ d.outbox = c.outbox /\ d.covers = c.covers
<1>1. c \in ReaderStates
  BY Zenon DEF ReadingOK, ReaderStates
<1>2. PICK d : d = [c EXCEPT !.unread = U]
  BY Zenon
<1>3. d \in ReaderStates /\ d.unread = U /\ d.outbox = c.outbox /\ d.covers = c.covers
  BY <1>1, <1>2, StateFields, Zenon
<1>4. ReadingOK(d, T)
  BY <1>3, Zenon DEF ReadingOK, ReaderStates
<1>5. Later(b, d)
  BY <1>3, Zenon DEF Later
<1> QED BY <1>2, <1>3, <1>4, <1>5, Zenon

\* encrypt_read_receipt: a new receipt for messages that were not reported.
LEMMA SealOK ==
  ASSUME NEW c, NEW T, ReadingOK(c, T), NEW b, b \in ReaderStates, Later(b, c),
         NEW S \in SUBSET Msgs, S # {}, S \cap T = {}, S \cap c.unread = {},
         \A r \in 1..Len(c.covers) : c.covers[r] \cap S = {}
  PROVE  /\ ReadingOK(Seal(c, S), T) /\ Later(b, Seal(c, S))
         /\ Seal(c, S).unread = c.unread /\ Len(Seal(c, S).covers) = Len(c.covers) + 1
         /\ \A r \in 1..Len(c.covers) : Seal(c, S).covers[r] = c.covers[r]
         /\ Seal(c, S).covers[Len(c.covers) + 1] = S
<1>1. c \in ReaderStates
  BY Zenon DEF ReadingOK, ReaderStates
<1>2. PICK d : d = Seal(c, S)
  BY Zenon
<1>3. PICK n : n = Len(c.covers)
  BY Zenon
<1>4. PICK k : k = Len(c.outbox)
  BY Zenon
<1>f. /\ n \in Nat /\ k \in Nat /\ c.outbox \in Seq(Nat) /\ c.covers \in Seq(SUBSET Msgs)
      /\ c.unread \in SUBSET Msgs
  BY <1>1, <1>3, <1>4, StateFields, Zenon
<1>5. /\ d = [unread |-> c.unread, outbox |-> Append(c.outbox, n + 1), covers |-> Append(c.covers, S)]
  BY <1>1, <1>2, <1>3 DEF Seal, ReaderStates
<1>6. /\ d.unread = c.unread /\ d.outbox = Append(c.outbox, n + 1) /\ d.covers = Append(c.covers, S)
  BY <1>5
<1>7. /\ d.outbox \in Seq(Nat) /\ Len(d.outbox) = k + 1 /\ d.outbox[k + 1] = n + 1
      /\ \A i \in 1..k : d.outbox[i] = c.outbox[i]
  BY <1>4, <1>6, <1>f
<1>8. /\ d.covers \in Seq(SUBSET Msgs) /\ Len(d.covers) = n + 1 /\ d.covers[n + 1] = S
      /\ \A r \in 1..n : d.covers[r] = c.covers[r]
  BY <1>3, <1>6, <1>f
<1>9. Range(d.outbox) = Range(c.outbox) \cup {n + 1}
  BY <1>6, <1>f, RangeAppend
<1>n. \A r \in 1..(n + 1) : r \in 1..n \/ r = n + 1
  BY <1>f
<1>k. \A i \in 1..(k + 1) : i \in 1..k \/ i = k + 1
  BY <1>f
<1>10. ReadingOK(d, T)
  <2>1. d \in ReaderStates
    BY <1>5, <1>6, <1>7, <1>8, <1>f DEF ReaderStates
  <2>2. ASSUME NEW r \in 1..(n + 1)
        PROVE  d.covers[r] # {} /\ d.covers[r] \cap T = {} /\ d.covers[r] \cap d.unread = {}
    <3>1. CASE r \in 1..n
      BY <1>3, <1>6, <1>8, <3>1, Zenon DEF ReadingOK
    <3>2. CASE r = n + 1
      BY <1>6, <1>8, <3>2, Zenon
    <3> QED BY <1>n, <2>2, <3>1, <3>2, Zenon
  <2>3. ASSUME NEW r \in 1..(n + 1), NEW q \in 1..(n + 1), q # r
        PROVE  d.covers[r] \cap d.covers[q] = {}
    <3>1. CASE r \in 1..n /\ q \in 1..n
      <4>1. c.covers[r] \cap c.covers[q] = {}
        BY <1>3, <2>3, <3>1, Zenon DEF ReadingOK
      <4> QED BY <1>8, <3>1, <4>1, Zenon
    <3>2. CASE r = n + 1 /\ q \in 1..n
      BY <1>3, <1>8, <3>2, Zenon
    <3>3. CASE q = n + 1 /\ r \in 1..n
      BY <1>3, <1>8, <3>3, Zenon
    <3> QED BY <1>n, <2>3, <3>1, <3>2, <3>3, Zenon
  <2>4. Range(d.outbox) \subseteq 1..(n + 1)
    <3>1. Range(c.outbox) \subseteq 1..n
      BY <1>3, Zenon DEF ReadingOK
    <3>2. 1..n \subseteq 1..(n + 1) /\ n + 1 \in 1..(n + 1)
      BY <1>f
    <3> QED BY <1>9, <3>1, <3>2, Zenon
  <2>5. ASSUME NEW i \in 1..(k + 1), NEW j \in 1..(k + 1), d.outbox[i] = d.outbox[j]
        PROVE  i = j
    <3>1. ASSUME NEW a \in 1..k PROVE d.outbox[a] = c.outbox[a] /\ d.outbox[a] # n + 1
      <4>1. c.outbox[a] \in Range(c.outbox)
        BY <1>4, <1>f, <3>1, RangeElem, Zenon
      <4>2. c.outbox[a] \in 1..n
        BY <1>3, <4>1, Zenon DEF ReadingOK
      <4>3. c.outbox[a] # n + 1
        BY <1>f, <4>2
      <4> QED BY <1>7, <4>3, Zenon
    <3>2. CASE i \in 1..k /\ j \in 1..k
      BY <1>4, <2>5, <3>1, <3>2, Zenon DEF ReadingOK
    <3>3. CASE i = k + 1 \/ j = k + 1
      BY <1>7, <1>k, <2>5, <3>1, <3>3, Zenon
    <3> QED BY <1>k, <3>2, <3>3, Zenon
  <2>6. d.unread \cap T = {}
    BY <1>6, Zenon DEF ReadingOK
  <2> QED BY <1>7, <1>8, <2>1, <2>2, <2>3, <2>4, <2>5, <2>6, Zenon DEF ReadingOK, ReaderStates
<1>11. Later(b, d)
  <2>b. Len(b.covers) \in Nat /\ Len(b.outbox) \in Nat
    BY StateFields, Zenon
  <2>l. /\ Len(b.covers) <= n /\ Len(b.outbox) <= k
        /\ \A i \in 1..Len(b.outbox) : c.outbox[i] = b.outbox[i]
        /\ \A i \in 1..k : i > Len(b.outbox) => c.outbox[i] > Len(b.covers)
        /\ \A r \in 1..n : r > Len(b.covers) => r \in Range(c.outbox)
    BY <1>3, <1>4, Zenon DEF Later
  <2>1. Len(b.covers) <= n + 1 /\ Len(b.outbox) <= k + 1 /\ n + 1 > Len(b.covers)
    BY <1>f, <2>b, <2>l
  <2>2. \A i \in 1..Len(b.outbox) : d.outbox[i] = b.outbox[i]
    <3>1. 1..Len(b.outbox) \subseteq 1..k
      BY <1>f, <2>b, <2>l
    <3> QED BY <1>7, <2>l, <3>1, Zenon
  <2>3. \A i \in 1..(k + 1) : i > Len(b.outbox) => d.outbox[i] > Len(b.covers)
    BY <1>7, <1>k, <2>1, <2>l, Zenon
  <2>4. \A r \in 1..(n + 1) : r > Len(b.covers) => r \in Range(d.outbox)
    BY <1>9, <1>n, <2>l, Zenon
  <2> QED BY <1>7, <1>8, <2>1, <2>2, <2>3, <2>4, Zenon DEF Later
<1> QED BY <1>2, <1>3, <1>6, <1>8, <1>10, <1>11, Zenon

\* flush_read_receipts.
LEMMA FlushOK ==
  ASSUME NEW c, NEW T, ReadingOK(c, T), NEW b, b \in ReaderStates, Later(b, c),
         NEW M, M \cap c.unread = {}, \A r \in 1..Len(c.covers) : c.covers[r] \cap M = {}
  PROVE  LET d == FlushReadReceipts(c) IN
         /\ ReadingOK(d, T) /\ Later(b, d)
         /\ M \cap d.unread = {} /\ \A r \in 1..Len(d.covers) : d.covers[r] \cap M = {}
<1>1. c \in ReaderStates /\ Len(c.covers) \in Nat /\ c.unread \in SUBSET Msgs
  <2>1. c \in ReaderStates
    BY Zenon DEF ReadingOK, ReaderStates
  <2> QED BY <2>1, StateFields, Zenon
<1>2. CASE ~(c.unread # {} /\ Room(c.outbox))
  BY <1>2, Zenon DEF FlushReadReceipts
<1>3. CASE c.unread # {} /\ Room(c.outbox)
  <2>1. PICK e : e = [c EXCEPT !.unread = {}]
    BY Zenon
  <2>2. {} \in SUBSET Msgs /\ {} \cap T = {} /\ \A r \in 1..Len(c.covers) : c.covers[r] \cap {} = {}
    BY Zenon
  <2>3. ReadingOK(e, T) /\ Later(b, e) /\ e.unread = {} /\ e.outbox = c.outbox /\ e.covers = c.covers
    BY <2>1, <2>2, UnreadOK, Zenon
  <2>4. PICK d : d = Seal(e, c.unread)
    BY Zenon
  <2>5. /\ c.unread \cap T = {} /\ c.unread \cap e.unread = {}
        /\ \A r \in 1..Len(e.covers) : e.covers[r] \cap c.unread = {}
    BY <2>3, Zenon DEF ReadingOK
  <2>6. /\ ReadingOK(d, T) /\ Later(b, d) /\ d.unread = {} /\ Len(d.covers) = Len(c.covers) + 1
        /\ \A r \in 1..Len(c.covers) : d.covers[r] = c.covers[r]
        /\ d.covers[Len(c.covers) + 1] = c.unread
    <3>1. /\ ReadingOK(d, T) /\ Later(b, d) /\ d.unread = e.unread /\ Len(d.covers) = Len(e.covers) + 1
          /\ \A r \in 1..Len(e.covers) : d.covers[r] = e.covers[r]
          /\ d.covers[Len(e.covers) + 1] = c.unread
      <4>1. c.unread \in SUBSET Msgs /\ c.unread # {} /\ b \in ReaderStates
        BY <1>1, <1>3, Zenon
      <4> QED BY <2>3, <2>4, <2>5, <4>1, SealOK
    <3> QED BY <2>3, <3>1, Zenon
  <2>7. FlushReadReceipts(c) = d
    <3>1. FlushReadReceipts(c) = [Seal(c, c.unread) EXCEPT !.unread = {}]
      BY <1>3, Zenon DEF FlushReadReceipts
    <3>2. [Seal(c, c.unread) EXCEPT !.unread = {}] = Seal(e, c.unread)
      BY <1>1, <2>1 DEF Seal, ReaderStates
    <3> QED BY <2>4, <3>1, <3>2, Zenon
  <2>8. \A r \in 1..(Len(c.covers) + 1) : r \in 1..Len(c.covers) \/ r = Len(c.covers) + 1
    BY <1>1
  <2>9. \A r \in 1..Len(d.covers) : d.covers[r] \cap M = {}
    BY <2>6, <2>8, Zenon
  <2> QED BY <2>6, <2>7, <2>9, Zenon
<1> QED BY <1>2, <1>3, Zenon

-----------------------------------------------------------------------------
(* What was true of a frame or an event stays true *)

LEMMA Persist ==
  ASSUME Made \subseteq Made', consumed \subseteq consumed', ghosts \subseteq ghosts',
         \A r \in Made : Gone(r) => Gone(r)',
         \A r \in Made : r \in Range(rd'.outbox) => r \in Range(rd.outbox),
         \A r \in Queued : r \in Queued' \/ Gone(r)',
         \A r \in Ids(Rows(TRUE)) : r \in Ids(Rows(TRUE))' \/ (r \notin Queued' /\ Gone(r)'),
         \A r \in Queued' : r \in Queued \cup ghosts' \/ ~Gone(r)
  PROVE  /\ \A r \in Made : Seen(r) => Seen(r)'
         /\ \A s \in Sides : \A h : FrameOK(s, h) => FrameOK(s, h)'
         /\ \A s \in Sides : \A e : EventOK(s, e) => EventOK(s, e)'
<1>1. \A r \in Made : Seen(r) => Seen(r)'
  BY Zenon DEF Seen
<1>2. \A r \in Made : Acknowledged(r) => Acknowledged(r)'
  BY Zenon DEF Acknowledged
<1>3. ASSUME NEW s \in Sides, NEW h, FrameOK(s, h) PROVE FrameOK(s, h)'
  BY <1>1, <1>2, <1>3, Zenon DEF FrameOK
<1>4. ASSUME NEW s \in Sides, NEW e, EventOK(s, e) PROVE EventOK(s, e)'
  <2>1. CASE e = Authed
    BY <1>4, <2>1, EventFields DEF EventOK
  <2>2. CASE e # Authed
    BY <1>1, <1>2, <1>4, <2>2, Zenon DEF EventOK
  <2> QED BY <2>1, <2>2, Zenon
<1> QED BY <1>1, <1>3, <1>4, Zenon

\* A step that does not write the relay's database.
LEMMA QuietRelay ==
  ASSUME UNCHANGED relay, Made \subseteq Made', consumed \subseteq consumed',
         \A r \in Made : r \in Range(rd'.outbox) => r \in Range(rd.outbox),
         \A r \in Made : r \in Sending' => r \in Sending \cup Range(rd.outbox)
  PROVE  /\ \A r \in Made : Seen(r) => Seen(r)'
         /\ \A s \in Sides : \A h : FrameOK(s, h) => FrameOK(s, h)'
         /\ \A s \in Sides : \A e : EventOK(s, e) => EventOK(s, e)'
<1>1. \A r \in Made : Gone(r) => Gone(r)'
  BY Zenon DEF Gone
<1>2. ghosts' = ghosts /\ Queued' = Queued /\ Ids(Rows(TRUE))' = Ids(Rows(TRUE))
  BY Zenon DEF relay, Queued, Ids, Rows
<1> QED BY <1>1, <1>2, Persist, Zenon

\* The databases after a step that leaves the relay's alone.
LEMMA QuietLedger ==
  ASSUME Ledger, UNCHANGED <<relay, author>>, Made \subseteq Made',
         \A r \in Made : Seen(r) => Seen(r)', ReceiptNotLost'
  PROVE  Ledger'
<1>1. /\ Queued' = Queued /\ queue' = queue /\ ghosts' = ghosts
      /\ UNCHANGED <<acks, marker, consumed, work>>
      /\ Ids(Rows(TRUE))' = Ids(Rows(TRUE)) /\ Ids(Rows(FALSE))' = Ids(Rows(FALSE))
  BY Zenon DEF relay, Queued, Ids, Rows, author
<1>2. AckPossible'
  BY <1>1, Zenon DEF Ledger, AckPossible
<1> QED BY <1>1, <1>2, Zenon DEF Ledger

\* The order on one connection, when frames are sent.
LEMMA ConfirmedLastConcat ==
  ASSUME NEW u \in Seq(Frames), NEW t \in Seq(Frames), ConfirmedLast(u), ConfirmedLast(t),
         \A f \in Range(u), h \in Range(t) : f.type = "confirm" /\ h.type = "receipt" => f.id # h.id
  PROVE  ConfirmedLast(u \o t)
<1>1. PICK w : w = u \o t
  BY Zenon
<1>2. /\ w \in Seq(Frames) /\ Len(u) \in Nat /\ Len(t) \in Nat /\ Len(w) = Len(u) + Len(t)
      /\ DOMAIN w = 1..Len(w) /\ DOMAIN u = 1..Len(u) /\ DOMAIN t = 1..Len(t)
  BY <1>1
<1>3. \A i \in 1..Len(u) : w[i] = u[i]
  BY <1>1
<1>4. \A i \in 1..Len(w) : i > Len(u) => w[i] = t[i - Len(u)] /\ i - Len(u) \in 1..Len(t)
  BY <1>1
<1>5. ASSUME NEW i \in 1..Len(w), NEW j \in 1..Len(w), i < j, w[i].type = "confirm", w[j].type = "receipt"
      PROVE  w[i].id # w[j].id
  <2>1. CASE i \in 1..Len(u) /\ j \in 1..Len(u)
    <3>1. w[i] = u[i] /\ w[j] = u[j] /\ i \in DOMAIN u /\ j \in DOMAIN u
      BY <1>2, <1>3, <2>1, Zenon
    <3> QED BY <1>5, <3>1, Zenon DEF ConfirmedLast
  <2>2. CASE i \in 1..Len(u) /\ j > Len(u)
    BY <1>3, <1>4, <1>5, <2>2, RangeElem, Zenon
  <2>3. CASE i > Len(u) /\ j > Len(u)
    <3>1. i - Len(u) < j - Len(u)
      BY <1>2, <1>5, <2>3
    <3>2. /\ i - Len(u) \in DOMAIN t /\ j - Len(u) \in DOMAIN t
          /\ w[i] = t[i - Len(u)] /\ w[j] = t[j - Len(u)]
      BY <1>2, <1>4, <1>5, <2>3, Zenon
    <3> QED BY <1>5, <3>1, <3>2, Zenon DEF ConfirmedLast
  <2> QED BY <1>2, <1>5, <2>1, <2>2, <2>3
<1> QED BY <1>1, <1>2, <1>5, Zenon DEF ConfirmedLast

\* The beginning or the rest of a connection.
LEMMA ConfirmedLastTail ==
  ASSUME NEW u \in Seq(Frames), u # <<>>, ConfirmedLast(u)
  PROVE  /\ ConfirmedLast(Tail(u))
         /\ \A h \in Range(Tail(u)) : Head(u).type = "confirm" /\ h.type = "receipt" => Head(u).id # h.id
<1>1. PICK t : t = Tail(u)
  BY Zenon
<1>2. /\ t \in Seq(Frames) /\ Len(u) \in Nat /\ Len(t) = Len(u) - 1 /\ Len(u) >= 1 /\ Head(u) = u[1]
      /\ DOMAIN u = 1..Len(u) /\ DOMAIN t = 1..Len(t)
      /\ \A i \in 1..Len(t) : t[i] = u[i + 1]
  BY <1>1
<1>3. ConfirmedLast(t)
  <2>1. SUFFICES ASSUME NEW i \in 1..Len(t), NEW j \in 1..Len(t), i < j,
                        t[i].type = "confirm", t[j].type = "receipt"
                 PROVE  t[i].id # t[j].id
    BY <1>2, Zenon DEF ConfirmedLast
  <2>2. i + 1 \in 1..Len(u) /\ j + 1 \in 1..Len(u) /\ i + 1 < j + 1 /\ t[i] = u[i + 1] /\ t[j] = u[j + 1]
    BY <1>2, <2>1
  <2> QED BY <1>2, <2>1, <2>2, Zenon DEF ConfirmedLast
<1>4. ASSUME NEW h \in Range(t), u[1].type = "confirm", h.type = "receipt" PROVE u[1].id # h.id
  <2>1. PICK j \in 1..Len(t) : t[j] = h
    BY <1>2, RangeElem, Zenon
  <2>2. j + 1 \in 1..Len(u) /\ 1 \in 1..Len(u) /\ 1 < j + 1 /\ h = u[j + 1]
    BY <1>2, <2>1
  <2> QED BY <1>2, <1>4, <2>2, Zenon DEF ConfirmedLast
<1> QED BY <1>1, <1>2, <1>3, <1>4, Zenon

\* Receipts that follow no confirmation, and a single confirmation.
LEMMA NoConfirm ==
  ASSUME NEW t \in Seq(Frames), Len(t) = 1 \/ \A h \in Range(t) : h.type # "confirm"
  PROVE  ConfirmedLast(t)
<1>1. SUFFICES ASSUME NEW i \in 1..Len(t), NEW j \in 1..Len(t), i < j, t[i].type = "confirm"
               PROVE  FALSE
  <2>1. DOMAIN t = 1..Len(t)
    OBVIOUS
  <2> QED BY <2>1, Zenon DEF ConfirmedLast
<1>2. t[i] \in Range(t)
  BY RangeElem, Zenon
<1>3. Len(t) # 1
  <2>1. PICK n : n = Len(t)
    BY Zenon
  <2>2. n \in Nat
    BY <2>1
  <2>3. i \in 1..n /\ j \in 1..n /\ i < j
    BY <1>1, <2>1, Zenon
  <2>4. n # 1
    BY <2>2, <2>3
  <2> QED BY <2>1, <2>4, Zenon
<1> QED BY <1>1, <1>2, <1>3, Zenon

-----------------------------------------------------------------------------
(* The reader *)

\* What the invariant says of the frames of a connection.
LEMMA FramesOK ==
  ASSUME RInv
  PROVE  /\ \A s \in Sides : \A h \in Range(up[s]) : FrameOK(s, h)
         /\ \A s \in Sides : \A q \in old[s] : q # <<>> /\ q \in Seq(Frames) /\ \A h \in Range(q) : FrameOK(s, h)
         /\ \A s \in Sides : \A e \in Range(events[s]) : EventOK(s, e)
         /\ up[Reader] \in Seq(Frames) /\ up[Author] \in Seq(Frames)
         /\ events[Reader] \in Seq(Events) /\ events[Author] \in Seq(Events)
         /\ Reader \in Sides /\ Author \in Sides /\ Reader # Author
<1>1. Reader \in Sides /\ Author \in Sides /\ Reader # Author
  BY SidesDiffer, Zenon
<1>2. up \in [Sides -> Seq(Frames)] /\ old \in [Sides -> SUBSET Seq(Frames)] /\ events \in [Sides -> Seq(Events)]
  BY Zenon DEF RInv, Types
<1> QED BY <1>1, <1>2, Zenon DEF RInv, Transit

\* A step of the reader's client that sends the frames t.
LEMMA ReaderSends ==
  ASSUME RInv, NEW t \in Seq(Frames), Emit(Reader, t), UNCHANGED <<author, relay, online, greeted, old>>,
         toCome' \subseteq Msgs, screen' \in {"none", "this", "other"}, ReadingOK(rd, toCome)',
         Made \subseteq Made', \A r \in Made : r \in Range(rd'.outbox) => r \in Range(rd.outbox),
         ConfirmedLast(t), \A h \in Range(t) : FrameOK(Reader, h)',
         \A h \in Range(t) : h.type = "receipt" => h.id \in Range(rd.outbox) \/ h.id \notin Made,
         events' \in [Sides -> Seq(Events)], events'[Author] = events[Author],
         Range(events'[Reader]) \subseteq Range(events[Reader]), ReceiptNotLost'
  PROVE  RInv'
<1>s. Reader \in Sides /\ Author \in Sides /\ Reader # Author /\ Sides = {Reader, Author}
  BY SidesDiffer, Zenon
<1>1. /\ up' \in [Sides -> Seq(Frames)]
      /\ up'[Reader] \in {up[Reader], up[Reader] \o t} /\ up'[Author] = up[Author]
      /\ Range(up'[Reader]) \subseteq Range(up[Reader]) \cup Range(t)
  BY <1>s, Emitted, Zenon DEF RInv, Types
<1>2. \A r : r \in Sending' => r \in Sending \/ \E h \in Range(t) : h.type = "receipt" /\ h.id = r
  BY <1>1, Zenon DEF Sending
<1>3. \A r \in Made : r \in Sending' => r \in Sending \cup Range(rd.outbox)
  <2>1. SUFFICES ASSUME NEW r \in Made, r \in Sending', r \notin Sending PROVE r \in Range(rd.outbox)
    BY Zenon
  <2>2. PICK h \in Range(t) : h.type = "receipt" /\ h.id = r
    BY <1>2, <2>1, Zenon
  <2> QED BY <2>1, <2>2, Zenon
<1>4. consumed' = consumed /\ old' = old
  BY Zenon DEF author
<1>5. /\ \A r \in Made : Seen(r) => Seen(r)'
      /\ \A s \in Sides : \A h : FrameOK(s, h) => FrameOK(s, h)'
      /\ \A s \in Sides : \A e : EventOK(s, e) => EventOK(s, e)'
  BY <1>3, <1>4, QuietRelay, Zenon
<1>6. Ledger'
  BY <1>5, QuietLedger, Zenon DEF RInv
<1>7. Transit'
  <2>1. ASSUME NEW s \in Sides, NEW h \in Range(up'[s]) PROVE FrameOK(s, h)'
    <3>1. CASE s = Reader
      BY <1>1, <1>5, <1>s, <2>1, <3>1, FramesOK, Zenon
    <3>2. CASE s = Author
      BY <1>1, <1>5, <1>s, <2>1, <3>2, FramesOK, Zenon
    <3> QED BY <1>s, <3>1, <3>2, Zenon
  <2>2. ASSUME NEW s \in Sides, NEW q \in old'[s] PROVE q # <<>> /\ \A h \in Range(q) : FrameOK(s, h)'
    BY <1>4, <1>5, <2>2, FramesOK, Zenon
  <2>3. ASSUME NEW s \in Sides, NEW e \in Range(events'[s]) PROVE EventOK(s, e)'
    <3>1. CASE s = Reader
      BY <1>5, <2>3, <3>1, FramesOK, Zenon
    <3>2. CASE s = Author
      BY <1>5, <2>3, <3>2, FramesOK, Zenon
    <3> QED BY <1>s, <3>1, <3>2, Zenon
  <2> QED BY <2>1, <2>2, <2>3, Zenon DEF Transit
<1>8. ASSUME NEW h, FrameOK(Reader, h), h.type = "confirm"
      PROVE  h.id \in Made /\ h.id \notin Range(rd.outbox)
  BY <1>8, Zenon DEF FrameOK
<1>9. Order'
  <2>1. ConfirmedLast(up[Reader]) /\ up[Reader] \in Seq(Frames)
    BY FramesOK, Zenon DEF RInv, Order
  <2>2. \A f \in Range(up[Reader]), h \in Range(t) : f.type = "confirm" /\ h.type = "receipt" => f.id # h.id
    BY <1>8, <1>s, FramesOK, Zenon
  <2>3. ConfirmedLast(up[Reader] \o t)
    BY <2>1, <2>2, ConfirmedLastConcat, Zenon
  <2>4. ConfirmedLast(up'[Reader])
    BY <1>1, <2>1, <2>3, Zenon
  <2>5. ASSUME NEW q \in old[Reader], NEW h \in Range(q), h.type = "confirm" PROVE h.id \notin Sending'
    <3>1. FrameOK(Reader, h)
      BY <1>s, <2>5, FramesOK, Zenon
    <3>2. h.id \notin Sending /\ h.id \in Made /\ h.id \notin Range(rd.outbox)
      BY <1>8, <2>5, <3>1, Zenon DEF RInv, Order
    <3> QED BY <1>3, <3>2, Zenon
  <2> QED BY <1>4, <2>4, <2>5, Zenon DEF Order
<1>10. Types'
  BY <1>1, Zenon DEF RInv, Types, author, relay
<1> QED BY <1>6, <1>7, <1>9, <1>10, Zenon DEF RInv

\* The fields of the reader's state.
LEMMA ReaderFields ==
  ASSUME RInv
  PROVE  /\ rd \in ReaderStates /\ rd.outbox \in Seq(Nat) /\ Len(rd.outbox) \in Nat /\ Len(rd.covers) \in Nat
         /\ Made = 1..Len(rd.covers) /\ Range(rd.outbox) \subseteq Made /\ Later(rd, rd)
         /\ toCome \subseteq Msgs /\ rd.unread \subseteq Msgs
<1>1. rd \in ReaderStates
  BY Zenon DEF RInv, ReadingOK, ReaderStates
<1>2. /\ rd.outbox \in Seq(Nat) /\ Len(rd.outbox) \in Nat /\ Len(rd.covers) \in Nat /\ rd.unread \subseteq Msgs
  BY <1>1, StateFields, Zenon
<1>3. Later(rd, rd)
  BY <1>2 DEF Later
<1>4. Range(rd.outbox) \subseteq Made /\ toCome \subseteq Msgs
  BY Zenon DEF RInv, ReadingOK, Made, Types
<1> QED BY <1>1, <1>2, <1>3, <1>4, Zenon DEF Made

\* The reader's state becomes a later one, and what it has added is sent.
LEMMA BecomeOK ==
  ASSUME RInv, NEW c, Become(c), ReadingOK(c, toCome'), Later(rd, c),
         UNCHANGED <<author, relay, online, greeted, old, events>>,
         toCome' \subseteq Msgs, screen' \in {"none", "this", "other"}
  PROVE  RInv'
<1>f. /\ rd.outbox \in Seq(Nat) /\ Len(rd.outbox) \in Nat /\ Len(rd.covers) \in Nat
      /\ Made = 1..Len(rd.covers) /\ Range(rd.outbox) \subseteq Made
  BY ReaderFields, Zenon
<1>c. c \in ReaderStates /\ c.outbox \in Seq(Nat) /\ Len(c.outbox) \in Nat /\ Len(c.covers) \in Nat
  <2>1. c \in ReaderStates
    BY Zenon DEF ReadingOK, ReaderStates
  <2> QED BY <2>1, StateFields, Zenon
<1>1. PICK m : m = Len(c.outbox) - Len(rd.outbox)
  BY Zenon
<1>2. PICK t : t = [i \in 1..m |-> Receipt(c.outbox[Len(rd.outbox) + i])]
  BY Zenon
<1>3. rd' = c /\ Emit(Reader, t) /\ Made' = 1..Len(c.covers)
  BY <1>1, <1>2, Zenon DEF Become, Made
<1>l. /\ Len(rd.covers) <= Len(c.covers) /\ Len(rd.outbox) <= Len(c.outbox)
      /\ \A i \in 1..Len(rd.outbox) : c.outbox[i] = rd.outbox[i]
      /\ \A i \in 1..Len(c.outbox) : i > Len(rd.outbox) => c.outbox[i] > Len(rd.covers)
      /\ \A r \in 1..Len(c.covers) : r > Len(rd.covers) => r \in Range(c.outbox)
  BY Zenon DEF Later
<1>4. m \in Nat /\ \A i \in 1..m : Len(rd.outbox) + i \in 1..Len(c.outbox) /\ Len(rd.outbox) + i > Len(rd.outbox)
  BY <1>1, <1>c, <1>f, <1>l
<1>5. ASSUME NEW i \in 1..m
      PROVE  /\ c.outbox[Len(rd.outbox) + i] \in Nat /\ c.outbox[Len(rd.outbox) + i] \notin Made
             /\ c.outbox[Len(rd.outbox) + i] \in 1..Len(c.covers)
  <2>1. PICK r : r = c.outbox[Len(rd.outbox) + i]
    BY Zenon
  <2>2. r \in Range(c.outbox)
    BY <1>4, <1>c, <1>5, <2>1, RangeElem, Zenon
  <2>3. r \in 1..Len(c.covers) /\ r > Len(rd.covers)
    BY <1>4, <1>5, <1>l, <2>1, <2>2, Zenon DEF ReadingOK
  <2>4. r \in Nat /\ r \notin Made
    BY <1>c, <1>f, <2>3
  <2> QED BY <2>1, <2>3, <2>4, Zenon
<1>6. ASSUME NEW i \in 1..m
      PROVE  t[i] \in ReaderFrames /\ t[i].type = "receipt" /\ t[i].id \notin Made /\ t[i].id \in Made'
  <2>1. PICK r : r = c.outbox[Len(rd.outbox) + i]
    BY Zenon
  <2>2. t[i] = Receipt(r)
    BY <1>2, <1>6, <2>1
  <2>3. r \in Nat /\ r \notin Made /\ r \in Made'
    BY <1>3, <1>5, <1>6, <2>1, Zenon
  <2>4. Receipt(r) \in ReaderFrames /\ Receipt(r).type = "receipt" /\ Receipt(r).id = r
    BY <2>3, FrameFields, Zenon
  <2> QED BY <2>2, <2>3, <2>4, Zenon
<1>7. t \in Seq(Frames) /\ Len(t) = m
  <2>1. \A i \in 1..m : Receipt(c.outbox[Len(rd.outbox) + i]) \in Frames
    BY <1>5, FrameFields, Zenon DEF Frames
  <2> QED BY <1>2, <1>4, <2>1
<1>8. \A h \in Range(t) : h \in ReaderFrames /\ h.type = "receipt" /\ h.id \notin Made /\ h.id \in Made'
  <2>1. SUFFICES ASSUME NEW h \in Range(t)
                 PROVE  h \in ReaderFrames /\ h.type = "receipt" /\ h.id \notin Made /\ h.id \in Made'
    BY Zenon
  <2>2. PICK i \in 1..m : t[i] = h
    BY <1>7, RangeElem, Zenon
  <2> QED BY <1>6, <2>2, Zenon
<1>9. ConfirmedLast(t)
  <2>1. \A h \in Range(t) : h.type # "confirm"
    BY <1>8
  <2> QED BY <1>7, <2>1, NoConfirm, Zenon
<1>10. \A h \in Range(t) : FrameOK(Reader, h)'
  <2>1. ASSUME NEW h \in Range(t) PROVE FrameOK(Reader, h)'
    <3>1. h.type \notin {"answer", "ack", "notify", "push", "confirm"}
      BY <1>8, <2>1
    <3> QED BY <1>8, <2>1, <3>1, Zenon DEF FrameOK
  <2> QED BY <2>1, Zenon
<1>11. Made \subseteq Made'
  BY <1>3, <1>c, <1>f, <1>l
<1>12. \A r \in Made : r \in Range(rd'.outbox) => r \in Range(rd.outbox)
  <2>1. SUFFICES ASSUME NEW r \in Made, r \in Range(c.outbox) PROVE r \in Range(rd.outbox)
    BY <1>3, Zenon
  <2>2. PICK i \in 1..Len(c.outbox) : c.outbox[i] = r
    BY <1>c, <2>1, RangeElem, Zenon
  <2>3. i \in 1..Len(rd.outbox)
    BY <1>c, <1>f, <1>l, <2>2
  <2> QED BY <1>f, <1>l, <2>2, <2>3, RangeElem, Zenon
<1>13. ReceiptNotLost'
  <2>1. SUFFICES ASSUME NEW r \in Made' PROVE r \in Range(c.outbox) \/ r \in consumed
    BY <1>3, Zenon DEF ReceiptNotLost, author
  <2>2. CASE r \in Made
    <3>1. r \in Range(rd.outbox) \/ r \in consumed
      BY <2>2, Zenon DEF RInv, Ledger, ReceiptNotLost
    <3>2. ASSUME r \in Range(rd.outbox) PROVE r \in Range(c.outbox)
      <4>1. PICK i \in 1..Len(rd.outbox) : rd.outbox[i] = r
        BY <1>f, <3>2, RangeElem, Zenon
      <4>2. i \in 1..Len(c.outbox) /\ c.outbox[i] = r
        BY <1>c, <1>f, <1>l, <4>1
      <4> QED BY <1>c, <4>2, RangeElem, Zenon
    <3> QED BY <3>1, <3>2, Zenon
  <2>3. CASE r \notin Made
    <3>1. r > Len(rd.covers)
      BY <1>3, <1>c, <1>f, <2>1, <2>3
    <3> QED BY <1>3, <1>l, <2>1, <3>1, Zenon
  <2> QED BY <2>2, <2>3, Zenon
<1>14. events' \in [Sides -> Seq(Events)] /\ events'[Author] = events[Author] /\ Range(events'[Reader]) \subseteq Range(events[Reader])
  BY Zenon DEF RInv, Types
<1>15. ReadingOK(rd, toCome)'
  BY <1>3, Zenon
<1> QED BY <1>3, <1>7, <1>8, <1>9, <1>10, <1>11, <1>12, <1>13, <1>14, <1>15, ReaderSends, Zenon

\* Fewer messages to come.
LEMMA FewerToCome ==
  ASSUME NEW c, NEW T, ReadingOK(c, T), NEW V, V \subseteq T
  PROVE  ReadingOK(c, V)
<1>1. c.unread \cap V = {}
  BY Zenon DEF ReadingOK
<1>2. \A r \in 1..Len(c.covers) : c.covers[r] \cap V = {}
  BY Zenon DEF ReadingOK
<1> QED BY <1>1, <1>2, Zenon DEF ReadingOK

\* accumulate_unread adds some of the messages that have just arrived.
LEMMA UnreadGrows ==
  ASSUME NEW c, NEW T, ReadingOK(c, T), NEW b, Later(b, c), NEW S \in SUBSET Msgs, S \cap T = {},
         \A r \in 1..Len(c.covers) : c.covers[r] \cap S = {},
         NEW d \in AccumulateUnread(c, S)
  PROVE  ReadingOK(d, T) /\ Later(b, d)
<1>1. PICK U \in SUBSET S : d = [c EXCEPT !.unread = @ \cup U]
  BY Zenon DEF AccumulateUnread, kSubset
<1>2. PICK W : W = c.unread \cup U
  BY Zenon
<1>3. c.unread \subseteq Msgs
  <2>1. c \in ReaderStates
    BY Zenon DEF ReadingOK, ReaderStates
  <2> QED BY <2>1, StateFields, Zenon
<1>4. d = [c EXCEPT !.unread = W] /\ W \in SUBSET Msgs
  BY <1>1, <1>2, <1>3
<1>5. c.unread \cap T = {} /\ \A r \in 1..Len(c.covers) : c.covers[r] \cap c.unread = {}
  BY Zenon DEF ReadingOK
<1>6. W \cap T = {} /\ \A r \in 1..Len(c.covers) : c.covers[r] \cap W = {}
  BY <1>1, <1>2, <1>5, Zenon
<1> QED BY <1>4, <1>6, UnreadOK, Zenon

\* A message arrives, a page of messages arrives, a conversation is opened.
LEMMA ReaderReads ==
  ASSUME RInv,
         \/ \E m \in Msgs : Arrive(m)
         \/ \E S \in SUBSET toCome : ArrivePage(S)
         \/ \E at \in {"this", "other"} : OpenConversation(at)
  PROVE  RInv'
<1>f. /\ rd \in ReaderStates /\ Later(rd, rd) /\ ReadingOK(rd, toCome) /\ toCome \subseteq Msgs
      /\ screen \in {"none", "this", "other"}
  BY ReaderFields, Zenon DEF RInv, Types
<1>n. ASSUME NEW S \in SUBSET toCome
      PROVE  /\ S \in SUBSET Msgs /\ S \cap (toCome \ S) = {} /\ toCome \ S \subseteq toCome /\ toCome \ S \subseteq Msgs
             /\ S \cap rd.unread = {} /\ \A r \in 1..Len(rd.covers) : rd.covers[r] \cap S = {}
             /\ ReadingOK(rd, toCome \ S)
  <2>1. /\ S \in SUBSET Msgs /\ S \cap (toCome \ S) = {} /\ toCome \ S \subseteq toCome /\ toCome \ S \subseteq Msgs
    BY <1>f, Zenon
  <2>2. S \cap rd.unread = {} /\ \A r \in 1..Len(rd.covers) : rd.covers[r] \cap S = {}
    BY <1>f, Zenon DEF ReadingOK
  <2>3. ReadingOK(rd, toCome \ S)
    BY <1>f, <2>1, FewerToCome, Zenon
  <2> QED BY <2>1, <2>2, <2>3, Zenon
<1>1. ASSUME NEW m \in Msgs, Arrive(m) PROVE RInv'
  <2>1. /\ m \in toCome /\ toCome' = toCome \ {m} /\ screen' \in {"none", "this", "other"}
        /\ UNCHANGED <<author, relay, online, greeted, old, events>>
    BY <1>1, <1>f, Zenon DEF Arrive
  <2>2. {m} \in SUBSET toCome /\ {m} # {}
    BY <2>1, Zenon
  <2>3. PICK c : c = IF screen = "none" THEN FlushReadReceipts(rd) ELSE rd
    BY Zenon
  <2>4. \/ Become(Seal(c, {m}))
        \/ \E d \in AccumulateUnread(c, {m}) : Become(d)
    BY <1>1, <2>3, Zenon DEF Arrive
  <2>5. /\ ReadingOK(c, toCome') /\ Later(rd, c)
        /\ {m} \cap c.unread = {} /\ \A r \in 1..Len(c.covers) : c.covers[r] \cap {m} = {}
    <3>1. CASE c = rd
      BY <1>f, <1>n, <2>1, <2>2, <3>1, Zenon
    <3>2. CASE c = FlushReadReceipts(rd)
      <4>1. /\ ReadingOK(rd, toCome') /\ Later(rd, rd) /\ rd \in ReaderStates
            /\ {m} \cap rd.unread = {} /\ \A r \in 1..Len(rd.covers) : rd.covers[r] \cap {m} = {}
        BY <1>f, <1>n, <2>1, <2>2, Zenon
      <4> QED BY <3>2, <4>1, FlushOK, Zenon
    <3> QED BY <2>3, <3>1, <3>2, Zenon
  <2>6. {m} \in SUBSET Msgs /\ {m} \cap toCome' = {} /\ toCome' \subseteq Msgs
    BY <1>n, <2>1, <2>2, Zenon
  <2>7. ReadingOK(Seal(c, {m}), toCome') /\ Later(rd, Seal(c, {m}))
    BY <1>f, <2>2, <2>5, <2>6, SealOK, Zenon
  <2>8. \A d \in AccumulateUnread(c, {m}) : ReadingOK(d, toCome') /\ Later(rd, d)
    BY <2>5, <2>6, UnreadGrows, Zenon
  <2> QED BY <2>1, <2>4, <2>6, <2>7, <2>8, BecomeOK, Zenon
<1>2. ASSUME NEW S \in SUBSET toCome, ArrivePage(S) PROVE RInv'
  <2>1. /\ toCome' = toCome \ S /\ screen' = screen
        /\ UNCHANGED <<author, relay, online, greeted, old, events>>
    BY <1>2, Zenon DEF ArrivePage
  <2>2. PICK c \in AccumulateUnread(rd, S) : Become(IF screen = "this" THEN FlushReadReceipts(c) ELSE c)
    BY <1>2, Zenon DEF ArrivePage
  <2>3. ReadingOK(c, toCome') /\ Later(rd, c)
    <3>1. /\ ReadingOK(rd, toCome') /\ S \in SUBSET Msgs /\ S \cap toCome' = {} /\ Later(rd, rd)
          /\ \A r \in 1..Len(rd.covers) : rd.covers[r] \cap S = {}
      BY <1>f, <1>n, <2>1, Zenon
    <3> QED BY <2>2, <3>1, UnreadGrows, Zenon
  <2>4. {} \cap c.unread = {} /\ \A r \in 1..Len(c.covers) : c.covers[r] \cap {} = {}
    BY Zenon
  <2>5. ReadingOK(FlushReadReceipts(c), toCome') /\ Later(rd, FlushReadReceipts(c))
    BY <1>f, <2>3, <2>4, FlushOK, Zenon
  <2>6. toCome' \subseteq Msgs /\ screen' \in {"none", "this", "other"}
    BY <1>f, <2>1, Zenon
  <2> QED BY <2>1, <2>2, <2>3, <2>5, <2>6, BecomeOK, Zenon
<1>3. ASSUME NEW at \in {"this", "other"}, OpenConversation(at) PROVE RInv'
  <2>1. /\ toCome' = toCome /\ screen' \in {"this", "other"}
        /\ UNCHANGED <<author, relay, online, greeted, old, events>>
        /\ Become(IF at = "this" THEN FlushReadReceipts(rd) ELSE rd)
    BY <1>3, Zenon DEF OpenConversation
  <2>2. {} \cap rd.unread = {} /\ \A r \in 1..Len(rd.covers) : rd.covers[r] \cap {} = {}
    BY Zenon
  <2>3. ReadingOK(FlushReadReceipts(rd), toCome') /\ Later(rd, FlushReadReceipts(rd))
    BY <1>f, <2>1, <2>2, FlushOK, Zenon
  <2>4. toCome' \subseteq Msgs /\ screen' \in {"none", "this", "other"} /\ ReadingOK(rd, toCome')
    BY <1>f, <2>1, Zenon
  <2> QED BY <1>f, <2>1, <2>3, <2>4, BecomeOK, Zenon
<1> QED BY <1>1, <1>2, <1>3, Zenon

\* The next event of side s.
LEMMA EventTaken ==
  ASSUME RInv, NEW s \in Sides, NextEvent(s)
  PROVE  /\ Head(events[s]) \in Events /\ EventOK(s, Head(events[s]))
         /\ events' \in [Sides -> Seq(Events)]
         /\ \A o \in Sides : Range(events'[o]) \subseteq Range(events[o])
         /\ \A o \in Sides \ {s} : events'[o] = events[o]
<1>1. /\ events \in [Sides -> Seq(Events)] /\ events[s] \in Seq(Events) /\ events[s] # <<>>
      /\ events' = [events EXCEPT ![s] = Tail(@)]
  BY Zenon DEF RInv, Types, NextEvent
<1>2. PICK t : t = Tail(events[s])
  BY Zenon
<1>3. t \in Seq(Events) /\ Range(t) \subseteq Range(events[s]) /\ Head(events[s]) \in Range(events[s])
  BY <1>1, <1>2, RangeTail
<1>4. events' \in [Sides -> Seq(Events)] /\ events'[s] = t /\ \A o \in Sides \ {s} : events'[o] = events[o]
  BY <1>1, <1>2, <1>3
<1>5. Head(events[s]) \in Events
  BY <1>1, <1>3, RangeElem, Zenon
<1>6. EventOK(s, Head(events[s]))
  BY <1>3, FramesOK, Zenon
<1>7. \A o \in Sides : Range(events'[o]) \subseteq Range(events[o])
  <2>1. ASSUME NEW o \in Sides PROVE Range(events'[o]) \subseteq Range(events[o])
    <3>1. CASE o = s
      BY <1>3, <1>4, <3>1, Zenon
    <3>2. CASE o # s
      BY <1>4, <3>2, Zenon
    <3> QED BY <3>1, <3>2, Zenon
  <2> QED BY <2>1, Zenon
<1> QED BY <1>4, <1>5, <1>6, <1>7, Zenon

\* ReadReceiptSent drops the receipt; Authenticated sends the outbox again.
LEMMA ReaderAnswers ==
  ASSUME RInv, HandleReceiptSent \/ HandleAuthed(Reader)
  PROVE  RInv'
<1>f. /\ rd \in ReaderStates /\ rd.outbox \in Seq(Nat) /\ Range(rd.outbox) \subseteq Made
      /\ Made = 1..Len(rd.covers) /\ Len(rd.covers) \in Nat
      /\ ReadingOK(rd, toCome) /\ toCome \subseteq Msgs
      /\ screen \in {"none", "this", "other"} /\ Reader \in Sides /\ Author \in Sides \ {Reader}
  BY ReaderFields, FramesOK, Zenon DEF RInv, Types
<1>e. /\ NextEvent(Reader) /\ UNCHANGED <<toCome, screen, author, relay, online, greeted, old>>
  BY Zenon DEF HandleReceiptSent, HandleAuthed, reader
<1>g. /\ Head(events[Reader]) \in Events /\ EventOK(Reader, Head(events[Reader]))
      /\ events' \in [Sides -> Seq(Events)] /\ events'[Author] = events[Author]
      /\ Range(events'[Reader]) \subseteq Range(events[Reader])
  BY <1>e, <1>f, EventTaken, Zenon
<1>m. \A r \in Made : r \in Nat
  BY <1>f
<1>1. CASE HandleReceiptSent
  <2>1. PICK r : r = Head(events[Reader]).id
    BY Zenon
  <2>2. PICK o : o = Without(rd.outbox, r)
    BY Zenon
  <2>3. /\ Head(events[Reader]).type = "sent" /\ rd' = [rd EXCEPT !.outbox = o]
        /\ Emit(Reader, <<Confirm(r)>>)
    BY <1>1, <2>1, <2>2 DEF HandleReceiptSent
  <2>4. r \in Made /\ r \in consumed /\ r \in Nat
    <3>1. Head(events[Reader]) # Authed
      BY <2>3, EventFields
    <3> QED BY <1>g, <1>m, <2>1, <2>3, <3>1, Zenon DEF EventOK
  <2>5. /\ o \in Seq(Nat) /\ Range(o) \subseteq Range(rd.outbox) /\ r \notin Range(o)
        /\ \A e \in Range(rd.outbox) : e # r => e \in Range(o)
        /\ \A i, j \in 1..Len(o) : o[i] = o[j] => i = j
    <3>1. \A i, j \in 1..Len(rd.outbox) : rd.outbox[i] = rd.outbox[j] => i = j
      BY <1>f, Zenon DEF ReadingOK
    <3>2. r \notin Range(o) /\ \A i, j \in 1..Len(o) : o[i] = o[j] => i = j
      <4>1. PICK b : b = rd.outbox
        BY Zenon
      <4>2. b \in Seq(Nat) /\ \A i, j \in 1..Len(b) : b[i] = b[j] => i = j
        BY <1>f, <3>1, <4>1, Zenon
      <4>3. /\ r \notin Range(Without(b, r))
            /\ \A i, j \in 1..Len(Without(b, r)) : Without(b, r)[i] = Without(b, r)[j] => i = j
        BY <4>2, WithoutOnce
      <4> QED BY <2>2, <4>1, <4>3, Zenon
    <3> QED BY <1>f, <2>2, <3>2, WithoutElem, Zenon
  <2>6. rd' \in ReaderStates /\ rd'.outbox = o /\ rd'.covers = rd.covers /\ rd'.unread = rd.unread
    BY <1>f, <2>3, <2>5 DEF ReaderStates
  <2>7. ReadingOK(rd, toCome)'
    <3>1. Range(o) \subseteq 1..Len(rd.covers)
      BY <1>f, <2>5, Zenon
    <3> QED BY <1>e, <1>f, <2>5, <2>6, <3>1, Zenon DEF ReadingOK, ReaderStates
  <2>8. Made' = Made
    BY <2>6, Zenon DEF Made
  <2>9. ReceiptNotLost'
    <3>1. consumed' = consumed
      BY <1>e, Zenon DEF author
    <3>2. ASSUME NEW a \in Made PROVE a \in Range(o) \cup consumed
      <4>1. a \in Range(rd.outbox) \cup consumed
        BY <3>2, Zenon DEF RInv, Ledger, ReceiptNotLost
      <4> QED BY <2>4, <2>5, <4>1, Zenon
    <3> QED BY <2>6, <2>8, <3>1, <3>2, Zenon DEF ReceiptNotLost
  <2>10. PICK f : f = Confirm(r)
    BY Zenon
  <2>11. f \in ReaderFrames /\ f.type = "confirm" /\ f.id = r /\ f \in Frames
    BY <2>4, <2>10, FrameFields, Zenon DEF Frames
  <2>12. <<f>> \in Seq(Frames) /\ Len(<<f>>) = 1
    BY <2>11
  <2>13. FrameOK(Reader, f)'
    <3>1. f.type \notin {"answer", "ack", "notify", "push"}
      BY <2>11
    <3>2. f.id \in Made' /\ f.id \notin Range(rd'.outbox)
      BY <2>4, <2>5, <2>6, <2>8, <2>11, Zenon
    <3> QED BY <2>11, <3>1, <3>2, Zenon DEF FrameOK
  <2>14. ConfirmedLast(<<f>>) /\ Range(<<f>>) = {f} /\ f.type # "receipt"
    <3>1. f.type # "receipt"
      BY <2>11
    <3> QED BY <2>12, <3>1, NoConfirm, RangeSingle, Zenon
  <2>15. Emit(Reader, <<f>>)
    BY <2>3, <2>10, Zenon
  <2>16. /\ Made \subseteq Made' /\ \A a \in Made : a \in Range(rd'.outbox) => a \in Range(rd.outbox)
         /\ toCome' \subseteq Msgs /\ screen' \in {"none", "this", "other"}
    BY <1>e, <1>f, <2>5, <2>6, <2>8, Zenon
  <2>17. /\ \A h \in Range(<<f>>) : FrameOK(Reader, h)'
         /\ \A h \in Range(<<f>>) : h.type = "receipt" => h.id \in Range(rd.outbox) \/ h.id \notin Made
    BY <2>13, <2>14, Zenon
  <2> QED BY <1>e, <1>g, <2>7, <2>9, <2>12, <2>14, <2>15, <2>16, <2>17, ReaderSends, Zenon
<1>2. CASE HandleAuthed(Reader)
  <2>1. PICK t : t = [i \in DOMAIN rd.outbox |-> Receipt(rd.outbox[i])]
    BY Zenon
  <2>2. Emit(Reader, t) /\ rd' = rd
    BY <1>2, <2>1, Zenon DEF HandleAuthed, reader
  <2>3. ASSUME NEW i \in 1..Len(rd.outbox)
        PROVE  /\ Receipt(rd.outbox[i]) \in ReaderFrames /\ Receipt(rd.outbox[i]).type = "receipt"
               /\ Receipt(rd.outbox[i]).id \in Range(rd.outbox) /\ Receipt(rd.outbox[i]) \in Frames
    <3>1. rd.outbox[i] \in Range(rd.outbox)
      BY <1>f, <2>3, RangeElem, Zenon
    <3>2. rd.outbox[i] \in Nat
      BY <1>f, <1>m, <3>1, Zenon
    <3> QED BY <3>1, <3>2, FrameFields, Zenon DEF Frames
  <2>4. t \in Seq(Frames) /\ Len(t) = Len(rd.outbox) /\ \A i \in 1..Len(t) : t[i] = Receipt(rd.outbox[i])
    <3>1. DOMAIN rd.outbox = 1..Len(rd.outbox) /\ Len(rd.outbox) \in Nat
      BY <1>f
    <3> QED BY <2>1, <2>3, <3>1
  <2>5. \A h \in Range(t) : h \in ReaderFrames /\ h.type = "receipt" /\ h.id \in Range(rd.outbox)
    <3>1. SUFFICES ASSUME NEW h \in Range(t)
                   PROVE  h \in ReaderFrames /\ h.type = "receipt" /\ h.id \in Range(rd.outbox)
      BY Zenon
    <3>2. PICK i \in 1..Len(t) : t[i] = h
      BY <2>4, RangeElem, Zenon
    <3> QED BY <2>3, <2>4, <3>2, Zenon
  <2>6. ConfirmedLast(t)
    <3>1. \A h \in Range(t) : h.type # "confirm"
      BY <2>5
    <3> QED BY <2>4, <3>1, NoConfirm, Zenon
  <2>7. Made' = Made
    BY <2>2, Zenon DEF Made
  <2>8. \A h \in Range(t) : FrameOK(Reader, h)'
    <3>1. ASSUME NEW h \in Range(t) PROVE FrameOK(Reader, h)'
      <4>1. h.type \notin {"answer", "ack", "notify", "push", "confirm"}
        BY <2>5, <3>1
      <4> QED BY <1>f, <2>5, <2>7, <3>1, <4>1, Zenon DEF FrameOK
    <3> QED BY <3>1, Zenon
  <2>9. ReceiptNotLost'
    BY <1>e, <2>2, <2>7, Zenon DEF RInv, Ledger, ReceiptNotLost, author
  <2>10. ReadingOK(rd, toCome)'
    BY <1>e, <1>f, <2>2, Zenon
  <2>11. /\ toCome' \subseteq Msgs /\ screen' \in {"none", "this", "other"} /\ Made \subseteq Made'
         /\ \A a \in Made : a \in Range(rd'.outbox) => a \in Range(rd.outbox)
    BY <1>e, <1>f, <2>2, <2>7, Zenon
  <2> QED BY <1>e, <1>g, <2>2, <2>4, <2>5, <2>6, <2>8, <2>9, <2>10, <2>11, ReaderSends, Zenon
<1> QED BY <1>1, <1>2, Zenon

-----------------------------------------------------------------------------
(* The author *)

\* A step whose new frames and events say what is true.
LEMMA Step ==
  ASSUME RInv, Types', ReadingOK(rd, toCome)', Ledger', Order',
         \A s \in Sides : \A h : FrameOK(s, h) => FrameOK(s, h)',
         \A s \in Sides : \A e : EventOK(s, e) => EventOK(s, e)',
         \A s \in Sides : \A h \in Range(up'[s]) : FrameOK(s, h) \/ FrameOK(s, h)',
         \A s \in Sides : \A q \in old'[s] : q # <<>> /\ \A h \in Range(q) : FrameOK(s, h) \/ FrameOK(s, h)',
         \A s \in Sides : \A e \in Range(events'[s]) : EventOK(s, e) \/ EventOK(s, e)'
  PROVE  RInv'
<1>1. Transit'
  BY Zenon DEF Transit
<1> QED BY <1>1, Zenon DEF RInv

\* A step of the author's client that sends the frames t.
LEMMA AuthorSends ==
  ASSUME RInv, NEW t \in Seq(Frames), Emit(Author, t), UNCHANGED <<reader, relay, online, greeted, old>>,
         consumed \subseteq consumed', \A h \in Range(t) : FrameOK(Author, h)',
         events' \in [Sides -> Seq(Events)], \A o \in Sides : Range(events'[o]) \subseteq Range(events[o]),
         acks' \in [outbox : Seq(AckFrames), made : Nat],
         marker' \in [pending : SUBSET Nat, stored : SUBSET Nat],
         work' \in [stage : {"idle", "store", "ack"}, id : Nat],
         (\A r \in Made : Seen(r) => Seen(r)') => Ledger'
  PROVE  RInv'
<1>s. Reader \in Sides /\ Author \in Sides /\ Reader # Author /\ Sides = {Reader, Author}
  BY SidesDiffer, Zenon
<1>1. /\ up' \in [Sides -> Seq(Frames)] /\ up'[Reader] = up[Reader]
      /\ Range(up'[Author]) \subseteq Range(up[Author]) \cup Range(t)
  BY <1>s, Emitted, Zenon DEF RInv, Types
<1>2. UNCHANGED <<rd, toCome, screen, Made, Sending, old>>
  BY <1>1, Zenon DEF reader, Made, Sending
<1>3. /\ \A r \in Made : Seen(r) => Seen(r)'
      /\ \A s \in Sides : \A h : FrameOK(s, h) => FrameOK(s, h)'
      /\ \A s \in Sides : \A e : EventOK(s, e) => EventOK(s, e)'
  BY <1>2, QuietRelay, Zenon
<1>4. Types'
  BY <1>1, <1>2, Zenon DEF RInv, Types, relay
<1>5. Order'
  BY <1>1, <1>2, Zenon DEF RInv, Order
<1>6. ReadingOK(rd, toCome)' /\ Ledger'
  BY <1>2, <1>3, Zenon DEF RInv
<1>7. ASSUME NEW s \in Sides, NEW h \in Range(up'[s]) PROVE FrameOK(s, h) \/ FrameOK(s, h)'
  <2>1. CASE s = Reader
    BY <1>1, <1>7, <2>1, FramesOK, Zenon
  <2>2. CASE s = Author
    BY <1>1, <1>7, <2>2, FramesOK, Zenon
  <2> QED BY <1>s, <2>1, <2>2, Zenon
<1>8. \A s \in Sides : \A q \in old'[s] : q # <<>> /\ \A h \in Range(q) : FrameOK(s, h) \/ FrameOK(s, h)'
  BY <1>2, FramesOK, Zenon
<1>9. \A s \in Sides : \A e \in Range(events'[s]) : EventOK(s, e) \/ EventOK(s, e)'
  BY FramesOK, Zenon
<1> QED BY <1>3, <1>4, <1>5, <1>6, <1>7, <1>8, <1>9, Step, Zenon

\* The databases after a step of the author.
LEMMA AuthorLedger ==
  ASSUME Ledger, UNCHANGED <<reader, relay>>, \A r \in Made : Seen(r) => Seen(r)',
         consumed \subseteq consumed', consumed' \subseteq Made, \A r \in consumed' : Seen(r),
         marker'.pending \cap marker'.stored = {}, marker'.pending \cup marker'.stored \subseteq consumed',
         work'.stage # "idle" => work'.id \in consumed',
         \A a \in Range(acks'.outbox) : a.id \in consumed',
         \A r \in Ids(Rows(FALSE)) \ ghosts :
           r \in consumed' => r \in marker'.pending \cup marker'.stored
  PROVE  Ledger'
<1>1. UNCHANGED <<rd, Made, queue, ghosts, Queued, Ids(Rows(TRUE)), Ids(Rows(FALSE))>>
  BY Zenon DEF reader, relay, Made, Queued, Ids, Rows
<1>2. ReceiptNotLost' /\ AckPossible'
  BY <1>1, Zenon DEF Ledger, ReceiptNotLost, AckPossible
<1>3. \A r \in consumed' : Seen(r)'
  BY Zenon
<1> QED BY <1>1, <1>2, <1>3, Zenon DEF Ledger

\* Nothing is sent.
LEMMA SendNothing ==
  ASSUME UNCHANGED up, up \in [Sides -> Seq(Frames)], NEW s \in Sides
  PROVE  Emit(s, <<>>) /\ <<>> \in Seq(Frames) /\ Range(<<>>) = {}
<1>1. up[s] \o <<>> = up[s] /\ <<>> \in Seq(Frames)
  OBVIOUS
<1>2. [up EXCEPT ![s] = @ \o <<>>] = up
  BY <1>1
<1> QED BY <1>1, <1>2, RangeEmpty, Zenon DEF Emit

\* The fields of the author's state.
LEMMA AuthorFields ==
  ASSUME RInv
  PROVE  /\ marker.pending \subseteq Nat /\ marker.stored \subseteq Nat
         /\ marker = [pending |-> marker.pending, stored |-> marker.stored]
         /\ acks.outbox \in Seq(AckFrames) /\ acks.made \in Nat
         /\ acks = [outbox |-> acks.outbox, made |-> acks.made]
         /\ work.stage \in {"idle", "store", "ack"} /\ work.id \in Nat
         /\ work = [stage |-> work.stage, id |-> work.id]
         /\ consumed \subseteq Made /\ Made \subseteq Nat
         /\ up \in [Sides -> Seq(Frames)] /\ events \in [Sides -> Seq(Events)]
<1>1. /\ marker.pending \subseteq Nat /\ marker.stored \subseteq Nat
      /\ marker = [pending |-> marker.pending, stored |-> marker.stored]
  BY DEF RInv, Types
<1>2. /\ acks.outbox \in Seq(AckFrames) /\ acks.made \in Nat
      /\ acks = [outbox |-> acks.outbox, made |-> acks.made]
  BY DEF RInv, Types
<1>3. /\ work.stage \in {"idle", "store", "ack"} /\ work.id \in Nat
      /\ work = [stage |-> work.stage, id |-> work.id]
  BY DEF RInv, Types
<1>4. Made \subseteq Nat
  <2>1. Len(rd.covers) \in Nat /\ Made = 1..Len(rd.covers)
    BY ReaderFields, Zenon
  <2> QED BY <2>1
<1> QED BY <1>1, <1>2, <1>3, <1>4, Zenon DEF RInv, Types, Ledger

\* The acknowledgement of r leaves nothing unacknowledged that waits for it.
LEMMA AckedNotWaiting ==
  ASSUME RInv, NEW r, Acknowledged(r)
  PROVE  r \notin Ids(Rows(FALSE)) \ ghosts
<1>1. SUFFICES ASSUME r \in Ids(Rows(FALSE)), r \notin ghosts PROVE FALSE
  BY Zenon
<1>2. PICK i \in Rows(FALSE) : queue[i].id = r
  BY <1>1, Zenon DEF Ids
<1>3. i \in DOMAIN queue /\ queue[i].acked = FALSE
  BY <1>2, Zenon DEF Rows
<1>4. r \in Queued
  BY <1>2, <1>3, Zenon DEF Queued, Ids
<1>5. r \in Ids(Rows(TRUE))
  BY <1>1, <1>4, Zenon DEF Acknowledged
<1>6. PICK j \in Rows(TRUE) : queue[j].id = r
  BY <1>5, Zenon DEF Ids
<1>7. j \in DOMAIN queue /\ queue[j].acked = TRUE
  BY <1>6, Zenon DEF Rows
<1>8. i = j
  BY <1>2, <1>3, <1>6, <1>7, Zenon DEF RInv, Ledger
<1> QED BY <1>3, <1>7, <1>8, Zenon

\* decrypt_message_to_text.
LEMMA TakeOK ==
  ASSUME RInv, TakeReceipt
  PROVE  RInv'
<1>f. /\ Author \in Sides /\ Ledger
      /\ marker.pending \subseteq Nat /\ marker.stored \subseteq Nat
      /\ marker = [pending |-> marker.pending, stored |-> marker.stored]
      /\ up \in [Sides -> Seq(Frames)] /\ Made \subseteq Nat
  BY AuthorFields, FramesOK, Zenon DEF RInv
<1>1. PICK r : r = Head(events[Author]).id
  BY Zenon
<1>2. PICK fresh : fresh = (r \notin consumed /\ r \notin marker.pending \cup marker.stored)
  BY Zenon
<1>3. /\ NextEvent(Author) /\ Head(events[Author]).type = "incoming"
      /\ marker' = IF fresh THEN [marker EXCEPT !.pending = @ \cup {r}] ELSE marker
      /\ consumed' = IF fresh THEN consumed \cup {r} ELSE consumed
      /\ work' = IF r \in marker'.pending THEN [stage |-> "store", id |-> r]
                 ELSE IF r \in marker'.stored THEN [stage |-> "ack", id |-> r] ELSE Idle
      /\ UNCHANGED <<reader, acks, online, greeted, up, old, relay>>
  BY <1>1, <1>2 DEF TakeReceipt
<1>4. r \in Made /\ Seen(r) /\ r \in Nat
  <2>1. EventOK(Author, Head(events[Author]))
    BY <1>3, <1>f, EventTaken, Zenon
  <2>2. Head(events[Author]) # Authed
    BY <1>3, EventFields
  <2> QED BY <1>1, <1>3, <1>f, <2>1, <2>2, Zenon DEF EventOK
<1>5. /\ marker' \in [pending : SUBSET Nat, stored : SUBSET Nat]
      /\ marker'.stored = marker.stored
      /\ marker'.pending = IF fresh THEN marker.pending \cup {r} ELSE marker.pending
  <2>1. CASE fresh
    BY <1>3, <1>4, <1>f, <2>1
  <2>2. CASE ~fresh
    BY <1>3, <1>f, <2>2
  <2> QED BY <2>1, <2>2, Zenon
<1>6. work' \in [stage : {"idle", "store", "ack"}, id : Nat]
      /\ (work'.stage # "idle" => work'.id = r /\ r \in marker'.pending \cup marker'.stored)
  <2>1. CASE r \in marker'.pending
    BY <1>3, <1>4, <2>1
  <2>2. CASE r \notin marker'.pending /\ r \in marker'.stored
    BY <1>3, <1>4, <2>2
  <2>3. CASE r \notin marker'.pending /\ r \notin marker'.stored
    BY <1>3, <2>3 DEF Idle
  <2> QED BY <2>1, <2>2, <2>3, Zenon
<1>7. /\ consumed \subseteq consumed' /\ consumed' \subseteq Made /\ (\A x \in consumed' : Seen(x))
      /\ marker'.pending \cap marker'.stored = {} /\ marker'.pending \cup marker'.stored \subseteq consumed'
      /\ \A x \in Ids(Rows(FALSE)) \ ghosts : x \in consumed' => x \in marker'.pending \cup marker'.stored
  <2>1. CASE fresh
    <3>1. consumed' = consumed \cup {r} /\ marker'.pending = marker.pending \cup {r}
      BY <1>3, <1>5, <2>1, Zenon
    <3>2. r \notin marker.stored
      BY <1>2, <2>1, Zenon
    <3>3. consumed \subseteq Made /\ (\A x \in consumed : Seen(x))
          /\ marker.pending \cap marker.stored = {} /\ marker.pending \cup marker.stored \subseteq consumed
      BY <1>f, Zenon DEF Ledger
    <3>4. consumed \subseteq consumed' /\ consumed' \subseteq Made /\ (\A x \in consumed' : Seen(x))
      BY <1>4, <3>1, <3>3, Zenon
    <3>5. marker'.pending \cap marker'.stored = {} /\ marker'.pending \cup marker'.stored \subseteq consumed'
      BY <1>5, <3>1, <3>2, <3>3, Zenon
    <3>6. \A x \in Ids(Rows(FALSE)) \ ghosts : x \in consumed' => x \in marker'.pending \cup marker'.stored
      BY <1>5, <1>f, <3>1, Zenon DEF Ledger, AckPossible
    <3> QED BY <3>4, <3>5, <3>6, Zenon
  <2>2. CASE ~fresh
    <3>1. consumed' = consumed /\ marker'.pending = marker.pending
      BY <1>3, <1>5, <2>2, Zenon
    <3> QED BY <1>5, <1>f, <3>1, Zenon DEF Ledger, AckPossible
  <2> QED BY <2>1, <2>2, Zenon
<1>8. (\A x \in Made : Seen(x) => Seen(x)') => Ledger'
  <2>1. \A a \in Range(acks'.outbox) : a.id \in consumed'
    BY <1>3, <1>7, <1>f, Zenon DEF Ledger
  <2>2. work'.stage # "idle" => work'.id \in consumed'
    BY <1>6, <1>7, Zenon
  <2>3. UNCHANGED <<reader, relay>>
    BY <1>3, Zenon
  <2> QED BY <1>7, <1>f, <2>1, <2>2, <2>3, AuthorLedger, Zenon
<1>9. events' \in [Sides -> Seq(Events)] /\ \A o \in Sides : Range(events'[o]) \subseteq Range(events[o])
  BY <1>3, <1>f, EventTaken, Zenon
<1>10. Emit(Author, <<>>) /\ <<>> \in Seq(Frames) /\ Range(<<>>) = {}
  BY <1>3, <1>f, SendNothing, Zenon
<1>11. acks' \in [outbox : Seq(AckFrames), made : Nat]
  BY <1>3, Zenon DEF RInv, Types
<1>12. \A h \in Range(<<>>) : FrameOK(Author, h)'
  BY <1>10, Zenon
<1> QED BY <1>3, <1>5, <1>6, <1>7, <1>8, <1>9, <1>10, <1>11, <1>12, AuthorSends, Zenon

\* confirm_inbound_stored.
LEMMA ConfirmOK ==
  ASSUME RInv, ConfirmInboundStored
  PROVE  RInv'
<1>f. /\ Author \in Sides /\ Ledger
      /\ marker.pending \subseteq Nat /\ marker.stored \subseteq Nat
      /\ work.stage \in {"idle", "store", "ack"} /\ work.id \in Nat
      /\ work = [stage |-> work.stage, id |-> work.id]
      /\ marker = [pending |-> marker.pending, stored |-> marker.stored]
      /\ up \in [Sides -> Seq(Frames)] /\ events \in [Sides -> Seq(Events)]
  BY AuthorFields, FramesOK, Zenon DEF RInv
<1>1. PICK r : r = work.id
  BY Zenon
<1>2. /\ work.stage = "store" /\ work' = [work EXCEPT !.stage = "ack"]
      /\ \/ marker' = [pending |-> marker.pending \ {r}, stored |-> marker.stored \cup {r}]
         \/ marker' = marker
      /\ UNCHANGED <<reader, acks, consumed, online, greeted, up, old, events, relay>>
  BY <1>1 DEF ConfirmInboundStored, net
<1>3. r \in consumed /\ r \in Nat
  <2>1. work.stage # "idle"
    BY <1>2
  <2> QED BY <2>1, <1>1, <1>f, Zenon DEF Ledger
<1>4. work' \in [stage : {"idle", "store", "ack"}, id : Nat] /\ work'.id = r
  BY <1>1, <1>2, <1>f
<1>5. /\ marker' \in [pending : SUBSET Nat, stored : SUBSET Nat]
      /\ \/ marker'.pending = marker.pending \ {r} /\ marker'.stored = marker.stored \cup {r}
         \/ marker'.pending = marker.pending /\ marker'.stored = marker.stored
  <2>1. CASE marker' = marker
    BY <1>f, <2>1
  <2>2. CASE marker' = [pending |-> marker.pending \ {r}, stored |-> marker.stored \cup {r}]
    BY <1>3, <1>f, <2>2
  <2> QED BY <1>2, <2>1, <2>2, Zenon
<1>6. /\ marker'.pending \cap marker'.stored = {}
      /\ marker'.pending \cup marker'.stored \subseteq consumed
      /\ marker.pending \cup marker.stored \subseteq marker'.pending \cup marker'.stored
  <2>1. marker.pending \cap marker.stored = {} /\ marker.pending \cup marker.stored \subseteq consumed
    BY <1>f, Zenon DEF Ledger
  <2>2. CASE marker'.pending = marker.pending \ {r} /\ marker'.stored = marker.stored \cup {r}
    <3>1. marker'.pending \cap marker'.stored = {}
      BY <2>1, <2>2, Zenon
    <3>2. marker'.pending \cup marker'.stored \subseteq consumed
      BY <1>3, <2>1, <2>2, Zenon
    <3>3. marker.pending \cup marker.stored \subseteq marker'.pending \cup marker'.stored
      BY <2>2, Zenon
    <3> QED BY <3>1, <3>2, <3>3, Zenon
  <2>3. CASE marker'.pending = marker.pending /\ marker'.stored = marker.stored
    BY <2>1, <2>3, Zenon
  <2> QED BY <1>5, <2>2, <2>3, Zenon
<1>7. (\A x \in Made : Seen(x) => Seen(x)') => Ledger'
  <2>1. \A a \in Range(acks'.outbox) : a.id \in consumed'
    BY <1>2, <1>f, Zenon DEF Ledger
  <2>2. \A x \in Ids(Rows(FALSE)) \ ghosts : x \in consumed' => x \in marker'.pending \cup marker'.stored
    BY <1>2, <1>6, <1>f, Zenon DEF Ledger, AckPossible
  <2>3. consumed' = consumed /\ consumed \subseteq Made /\ \A x \in consumed : Seen(x)
    BY <1>2, <1>f, Zenon DEF Ledger
  <2>4. UNCHANGED <<reader, relay>>
    BY <1>2, Zenon
  <2>5. consumed \subseteq consumed' /\ consumed' \subseteq Made /\ (\A x \in consumed' : Seen(x))
        /\ marker'.pending \cup marker'.stored \subseteq consumed'
        /\ (work'.stage # "idle" => work'.id \in consumed')
    BY <1>3, <1>4, <1>6, <2>3, Zenon
  <2> QED BY <1>6, <1>f, <2>1, <2>2, <2>4, <2>5, AuthorLedger, Zenon
<1>8. Emit(Author, <<>>) /\ <<>> \in Seq(Frames) /\ Range(<<>>) = {}
  BY <1>2, <1>f, SendNothing, Zenon
<1>9. acks' \in [outbox : Seq(AckFrames), made : Nat]
  BY <1>2, Zenon DEF RInv, Types
<1>10. /\ \A h \in Range(<<>>) : FrameOK(Author, h)'
       /\ events' \in [Sides -> Seq(Events)] /\ \A o \in Sides : Range(events'[o]) \subseteq Range(events[o])
       /\ consumed \subseteq consumed'
  BY <1>2, <1>8, <1>f, Zenon
<1> QED BY <1>2, <1>4, <1>5, <1>7, <1>8, <1>9, <1>10, AuthorSends, Zenon

\* queue_read_receipt_ack.
LEMMA QueueAckOK ==
  ASSUME RInv, QueueReadReceiptAck
  PROVE  RInv'
<1>f. /\ Author \in Sides /\ Reader # Author /\ Ledger
      /\ acks.outbox \in Seq(AckFrames) /\ acks.made \in Nat /\ work.id \in Nat
      /\ acks = [outbox |-> acks.outbox, made |-> acks.made]
      /\ consumed \subseteq Made
      /\ up \in [Sides -> Seq(Frames)] /\ events \in [Sides -> Seq(Events)]
  BY AuthorFields, FramesOK, Zenon DEF RInv
<1>1. PICK ack : ack = Ack(acks.made + 1, work.id)
  BY Zenon
<1>2. /\ work.stage = "ack" /\ work' = Idle
      /\ IF Room(acks.outbox)
           THEN /\ acks' = [outbox |-> Append(acks.outbox, ack), made |-> acks.made + 1]
                /\ Emit(Author, <<ack>>)
           ELSE UNCHANGED <<acks, up>>
      /\ UNCHANGED <<reader, marker, consumed, online, greeted, old, events, relay>>
  BY <1>1 DEF QueueReadReceiptAck
<1>3. work.id \in consumed /\ acks.made + 1 \in Nat
  <2>1. work.stage # "idle"
    BY <1>2
  <2> QED BY <2>1, <1>f DEF Ledger
<1>4. ack \in AckFrames /\ ack.type = "ack" /\ ack.id = work.id /\ ack.id \in consumed
  <2>1. PICK k \in Nat : k = acks.made + 1
    BY <1>3
  <2>2. PICK r \in Nat : r = work.id
    BY <1>f
  <2>3. ack = Ack(k, r)
    BY <1>1, <2>1, <2>2, Zenon
  <2>4. Ack(k, r) \in AckFrames /\ Ack(k, r).type = "ack" /\ Ack(k, r).id = r
    BY DEF Ack, AckFrames
  <2> QED BY <1>3, <2>2, <2>3, <2>4, Zenon
<1>5. work' \in [stage : {"idle", "store", "ack"}, id : Nat] /\ work'.stage = "idle"
  BY <1>2 DEF Idle
<1>6. PICK t : /\ t \in Seq(Frames) /\ Emit(Author, t) /\ Range(t) \subseteq {ack}
               /\ acks' \in [outbox : Seq(AckFrames), made : Nat]
               /\ Range(acks'.outbox) \subseteq Range(acks.outbox) \cup {ack}
  <2>1. CASE Room(acks.outbox)
    <3>1. acks'.outbox = Append(acks.outbox, ack) /\ acks' \in [outbox : Seq(AckFrames), made : Nat]
      <4>1. PICK b : b = Append(acks.outbox, ack)
        BY Zenon
      <4>2. b \in Seq(AckFrames)
        BY <1>4, <1>f, <4>1
      <4>3. acks' = [outbox |-> b, made |-> acks.made + 1]
        BY <1>2, <2>1, <4>1, Zenon
      <4> QED BY <1>3, <4>1, <4>2, <4>3
    <3>2. Range(acks'.outbox) = Range(acks.outbox) \cup {ack}
      BY <1>4, <1>f, <3>1, RangeAppend
    <3>3. ack \in Frames
      BY <1>4, Zenon DEF Frames, AuthorFrames
    <3>4. <<ack>> \in Seq(Frames) /\ Range(<<ack>>) = {ack}
      BY <3>3, RangeSingle
    <3> QED BY <1>2, <2>1, <3>1, <3>2, <3>4, Zenon
  <2>2. CASE ~Room(acks.outbox)
    <3>1. UNCHANGED <<acks, up>>
      BY <1>2, <2>2, Zenon
    <3>2. Emit(Author, <<>>) /\ <<>> \in Seq(Frames) /\ Range(<<>>) = {}
      BY <3>1, <1>f, SendNothing, Zenon
    <3>3. acks' \in [outbox : Seq(AckFrames), made : Nat] /\ Range(acks'.outbox) = Range(acks.outbox)
      BY <3>1, Zenon DEF RInv, Types
    <3> QED BY <3>2, <3>3, Zenon
  <2> QED BY <2>1, <2>2, Zenon
<1>7. \A h \in Range(t) : FrameOK(Author, h)'
  <2>1. ack \in AuthorFrames
    BY <1>4, Zenon DEF AuthorFrames
  <2>2. Made' = Made /\ consumed' = consumed
    BY <1>2, Zenon DEF Made, reader
  <2>3. ack.type # "push" /\ ack.type # "confirm" /\ ack.type # "notify"
    BY <1>4
  <2>4. FrameOK(Author, ack)'
    BY <1>4, <1>f, <2>1, <2>2, <2>3, Zenon DEF FrameOK
  <2> QED BY <1>6, <2>4, Zenon
<1>8. (\A x \in Made : Seen(x) => Seen(x)') => Ledger'
  <2>1. \A a \in Range(acks'.outbox) : a.id \in consumed'
    BY <1>2, <1>4, <1>6, <1>f, Zenon DEF Ledger
  <2>2. \A x \in Ids(Rows(FALSE)) \ ghosts : x \in consumed' => x \in marker'.pending \cup marker'.stored
    BY <1>2, <1>f, Zenon DEF Ledger, AckPossible
  <2>3. /\ consumed \subseteq consumed' /\ consumed' \subseteq Made /\ (\A x \in consumed' : Seen(x))
        /\ marker'.pending \cap marker'.stored = {} /\ marker'.pending \cup marker'.stored \subseteq consumed'
        /\ (work'.stage # "idle" => work'.id \in consumed')
    BY <1>2, <1>5, <1>f, Zenon DEF Ledger
  <2>4. UNCHANGED <<reader, relay>>
    BY <1>2, Zenon
  <2> QED BY <1>f, <2>1, <2>2, <2>3, <2>4, AuthorLedger, Zenon
<1>9. /\ events' \in [Sides -> Seq(Events)] /\ \A o \in Sides : Range(events'[o]) \subseteq Range(events[o])
      /\ consumed \subseteq consumed' /\ marker' \in [pending : SUBSET Nat, stored : SUBSET Nat]
  BY <1>2, <1>f, Zenon DEF RInv, Types
<1> QED BY <1>2, <1>5, <1>6, <1>7, <1>8, <1>9, AuthorSends, Zenon

\* confirm_acked.
LEMMA AckedOK ==
  ASSUME RInv, HandleAcked
  PROVE  RInv'
<1>f. /\ Author \in Sides /\ Ledger
      /\ marker.pending \subseteq Nat /\ marker.stored \subseteq Nat
      /\ acks.outbox \in Seq(AckFrames) /\ acks.made \in Nat
      /\ acks = [outbox |-> acks.outbox, made |-> acks.made]
      /\ up \in [Sides -> Seq(Frames)]
  BY AuthorFields, FramesOK, Zenon DEF RInv
<1>1. PICK ack : ack = Ack(Head(events[Author]).ack, Head(events[Author]).id)
  BY Zenon
<1>2. /\ NextEvent(Author) /\ Head(events[Author]).type = "acked"
      /\ IF ack \in Range(acks.outbox)
           THEN /\ acks' = [acks EXCEPT !.outbox = Without(@, ack)]
                /\ marker' = [pending |-> marker.pending \ {ack.id}, stored |-> marker.stored \ {ack.id}]
           ELSE UNCHANGED <<acks, marker>>
      /\ UNCHANGED <<reader, consumed, work, online, greeted, up, old, relay>>
  BY <1>1 DEF HandleAcked
<1>3. /\ events' \in [Sides -> Seq(Events)] /\ \A o \in Sides : Range(events'[o]) \subseteq Range(events[o])
      /\ EventOK(Author, Head(events[Author]))
  BY <1>2, <1>f, EventTaken, Zenon
<1>4. ack.id \notin Ids(Rows(FALSE)) \ ghosts
  <2>1. ack.id = Head(events[Author]).id
    BY <1>1 DEF Ack
  <2>2. Acknowledged(Head(events[Author]).id)
    BY <1>2, <1>3, Zenon DEF EventOK
  <2> QED BY <2>1, <2>2, AckedNotWaiting, Zenon
<1>5. /\ acks' \in [outbox : Seq(AckFrames), made : Nat]
      /\ Range(acks'.outbox) \subseteq Range(acks.outbox)
      /\ marker' \in [pending : SUBSET Nat, stored : SUBSET Nat]
      /\ marker'.pending \in {marker.pending, marker.pending \ {ack.id}}
      /\ marker'.stored \in {marker.stored, marker.stored \ {ack.id}}
  <2>1. CASE ack \in Range(acks.outbox)
    <3>1. PICK b : b = acks.outbox
      BY Zenon
    <3>2. PICK w : w = Without(b, ack)
      BY Zenon
    <3>3. w \in Seq(AckFrames) /\ Range(w) \subseteq Range(b)
      BY <1>f, <3>1, <3>2, WithoutElem
    <3>4. acks' = [acks EXCEPT !.outbox = w]
      BY <1>2, <2>1, <3>1, <3>2
    <3>5. acks' \in [outbox : Seq(AckFrames), made : Nat] /\ acks'.outbox = w
      BY <1>f, <3>3, <3>4
    <3>6. marker' = [pending |-> marker.pending \ {ack.id}, stored |-> marker.stored \ {ack.id}]
      BY <1>2, <2>1, Zenon
    <3>7. /\ marker' \in [pending : SUBSET Nat, stored : SUBSET Nat]
          /\ marker'.pending = marker.pending \ {ack.id} /\ marker'.stored = marker.stored \ {ack.id}
      BY <1>f, <3>6
    <3> QED BY <3>1, <3>3, <3>5, <3>7, Zenon
  <2>2. CASE ack \notin Range(acks.outbox)
    <3>1. UNCHANGED <<acks, marker>>
      BY <1>2, <2>2, Zenon
    <3> QED BY <3>1, Zenon DEF RInv, Types
  <2> QED BY <2>1, <2>2, Zenon
<1>6. (\A x \in Made : Seen(x) => Seen(x)') => Ledger'
  <2>1. \A a \in Range(acks'.outbox) : a.id \in consumed'
    BY <1>2, <1>5, <1>f, Zenon DEF Ledger
  <2>2. \A x \in Ids(Rows(FALSE)) \ ghosts : x \in consumed' => x \in marker'.pending \cup marker'.stored
    <3>1. SUFFICES ASSUME NEW x \in Ids(Rows(FALSE)) \ ghosts, x \in consumed
                   PROVE  x \in marker'.pending \cup marker'.stored
      BY <1>2, Zenon
    <3>2. x \in marker.pending \cup marker.stored
      BY <3>1, <1>f, Zenon DEF Ledger, AckPossible
    <3>3. x # ack.id
      BY <1>4, Zenon
    <3> QED BY <1>5, <3>2, <3>3, Zenon
  <2>3. marker.pending \cap marker.stored = {} /\ marker.pending \cup marker.stored \subseteq consumed
    BY <1>f, Zenon DEF Ledger
  <2>4. marker'.pending \subseteq marker.pending /\ marker'.stored \subseteq marker.stored
    BY <1>5, Zenon
  <2>5. marker'.pending \cap marker'.stored = {} /\ marker'.pending \cup marker'.stored \subseteq consumed
    BY <2>3, <2>4, Zenon
  <2>6. /\ consumed \subseteq consumed' /\ consumed' \subseteq Made /\ (\A x \in consumed' : Seen(x))
        /\ (work'.stage # "idle" => work'.id \in consumed')
        /\ marker'.pending \cup marker'.stored \subseteq consumed'
    BY <1>2, <1>f, <2>5, Zenon DEF Ledger
  <2>7. UNCHANGED <<reader, relay>>
    BY <1>2, Zenon
  <2> QED BY <1>f, <2>1, <2>2, <2>5, <2>6, <2>7, AuthorLedger, Zenon
<1>7. Emit(Author, <<>>) /\ <<>> \in Seq(Frames) /\ Range(<<>>) = {}
  BY <1>2, <1>f, SendNothing, Zenon
<1>8. /\ \A h \in Range(<<>>) : FrameOK(Author, h)'
      /\ consumed \subseteq consumed'
      /\ work' \in [stage : {"idle", "store", "ack"}, id : Nat]
  BY <1>2, <1>7, Zenon DEF RInv, Types
<1> QED BY <1>2, <1>3, <1>5, <1>6, <1>7, <1>8, AuthorSends, Zenon

\* Authenticated: the author's outbox is sent again.
LEMMA AuthorAuthedOK ==
  ASSUME RInv, HandleAuthed(Author)
  PROVE  RInv'
<1>f. /\ Author \in Sides /\ Reader # Author /\ Ledger
      /\ acks.outbox \in Seq(AckFrames) /\ up \in [Sides -> Seq(Frames)] /\ consumed \subseteq Made
  BY AuthorFields, FramesOK, Zenon DEF RInv
<1>1. /\ NextEvent(Author) /\ Emit(Author, acks.outbox)
      /\ UNCHANGED <<reader, author, online, greeted, old, relay>>
  BY <1>f, Zenon DEF HandleAuthed
<1>2. /\ events' \in [Sides -> Seq(Events)] /\ \A o \in Sides : Range(events'[o]) \subseteq Range(events[o])
  BY <1>1, <1>f, EventTaken, Zenon
<1>3. acks.outbox \in Seq(Frames) /\ \A h \in Range(acks.outbox) : h \in AckFrames
  <2>1. AckFrames \subseteq Frames
    BY Zenon DEF Frames, AuthorFrames
  <2>2. acks.outbox \in Seq(Frames)
    BY <1>f, <2>1
  <2>3. \A h \in Range(acks.outbox) : h \in AckFrames
    BY <1>f, RangeElem
  <2> QED BY <2>2, <2>3, Zenon
<1>4. UNCHANGED <<acks, marker, consumed, work>> /\ Made' = Made
  BY <1>1, Zenon DEF author, reader, Made
<1>5. \A h \in Range(acks.outbox) : FrameOK(Author, h)'
  <2>1. SUFFICES ASSUME NEW h \in Range(acks.outbox) PROVE FrameOK(Author, h)'
    BY Zenon
  <2>2. h \in AuthorFrames /\ h.type = "ack"
    BY <1>3 DEF AuthorFrames, AckFrames
  <2>3. h.id \in consumed /\ h.id \in Made
    BY <1>f, Zenon DEF Ledger
  <2>4. h.type # "push" /\ h.type # "confirm" /\ h.type # "notify"
    BY <2>2
  <2> QED BY <1>4, <1>f, <2>2, <2>3, <2>4, Zenon DEF FrameOK
<1>6. (\A x \in Made : Seen(x) => Seen(x)') => Ledger'
  <2>1. /\ consumed \subseteq consumed' /\ consumed' \subseteq Made /\ (\A x \in consumed' : Seen(x))
        /\ marker'.pending \cap marker'.stored = {} /\ marker'.pending \cup marker'.stored \subseteq consumed'
        /\ (work'.stage # "idle" => work'.id \in consumed')
        /\ (\A a \in Range(acks'.outbox) : a.id \in consumed')
    BY <1>4, <1>f, Zenon DEF Ledger
  <2>2. \A x \in Ids(Rows(FALSE)) \ ghosts : x \in consumed' => x \in marker'.pending \cup marker'.stored
    BY <1>4, <1>f, Zenon DEF Ledger, AckPossible
  <2>3. UNCHANGED <<reader, relay>>
    BY <1>1, Zenon
  <2> QED BY <1>f, <2>1, <2>2, <2>3, AuthorLedger, Zenon
<1>7. /\ acks' \in [outbox : Seq(AckFrames), made : Nat]
      /\ marker' \in [pending : SUBSET Nat, stored : SUBSET Nat]
      /\ work' \in [stage : {"idle", "store", "ack"}, id : Nat]
      /\ consumed \subseteq consumed'
  BY <1>4, Zenon DEF RInv, Types
<1> QED BY <1>1, <1>2, <1>3, <1>5, <1>6, <1>7, AuthorSends, Zenon

-----------------------------------------------------------------------------
(* Connections *)

\* A step that changes what is on its way and neither database: nothing new is
\* said.
LEMMA NetStep ==
  ASSUME RInv, UNCHANGED <<relay, acks, marker, consumed, toCome>>,
         screen' \in {"none", "this", "other"}, ReadingOK(rd, toCome)',
         Made' = Made, rd'.outbox = rd.outbox,
         work' \in [stage : {"idle", "store", "ack"}, id : Nat], work' = work \/ work'.stage = "idle",
         online' \in [Sides -> BOOLEAN], greeted' \in [Sides -> BOOLEAN],
         up' \in [Sides -> Seq(Frames)], \A s \in Sides : Range(up'[s]) \subseteq Range(up[s]),
         ConfirmedLast(up'[Reader]),
         old' \in [Sides -> SUBSET Seq(Frames)],
         \A s \in Sides : \A q \in old'[s] : q # <<>> /\ \A h \in Range(q) : FrameOK(s, h),
         \A q \in old'[Reader] : \A h \in Range(q) : h.type = "confirm" => h.id \notin Sending',
         events' \in [Sides -> Seq(Events)],
         \A s \in Sides : \A e \in Range(events'[s]) : EventOK(s, e)
  PROVE  RInv'
<1>s. Reader \in Sides /\ Author \in Sides
  BY SidesDiffer, Zenon
<1>1. Sending' \subseteq Sending
  BY <1>s, Zenon DEF Sending
<1>2. /\ \A r \in Made : Seen(r) => Seen(r)'
      /\ \A s \in Sides : \A h : FrameOK(s, h) => FrameOK(s, h)'
      /\ \A s \in Sides : \A e : EventOK(s, e) => EventOK(s, e)'
  <2>1. Made \subseteq Made' /\ consumed \subseteq consumed' /\ UNCHANGED relay
    BY Zenon
  <2>2. \A r \in Made : r \in Range(rd'.outbox) => r \in Range(rd.outbox)
    BY Zenon
  <2>3. \A r \in Made : r \in Sending' => r \in Sending \cup Range(rd.outbox)
    BY <1>1, Zenon
  <2> QED BY <2>1, <2>2, <2>3, QuietRelay, Zenon
<1>3. queue' = queue /\ ghosts' = ghosts /\ Queued' = Queued
      /\ Ids(Rows(TRUE))' = Ids(Rows(TRUE)) /\ Ids(Rows(FALSE))' = Ids(Rows(FALSE))
  BY Zenon DEF relay, Queued, Ids, Rows
<1>4. Types'
  <2>1. Types
    BY Zenon DEF RInv
  <2> QED BY <1>3, <2>1, Zenon DEF Types
<1>5. Ledger'
  <2>1. Ledger
    BY Zenon DEF RInv
  <2>2. ReceiptNotLost' /\ AckPossible'
    BY <1>3, <2>1, Zenon DEF Ledger, ReceiptNotLost, AckPossible
  <2>3. /\ marker'.pending \cap marker'.stored = {} /\ marker'.pending \cup marker'.stored \subseteq consumed'
        /\ consumed' \subseteq Made' /\ Queued' \subseteq Made'
        /\ Len(queue') <= MaxQueue
        /\ (\A i, j \in DOMAIN queue' : queue'[i].id = queue'[j].id => i = j)
        /\ Ids(Rows(TRUE))' \subseteq consumed'
    BY <1>3, <2>1, Zenon DEF Ledger
  <2>4. /\ work'.stage # "idle" => work'.id \in consumed'
        /\ \A a \in Range(acks'.outbox) : a.id \in consumed'
    BY <2>1, Zenon DEF Ledger
  <2>5. \A r \in consumed' : Seen(r)'
    BY <1>2, <2>1, Zenon DEF Ledger
  <2> QED BY <2>2, <2>3, <2>4, <2>5, Zenon DEF Ledger
<1>6. Order'
  BY Zenon DEF Order
<1>7. \A s \in Sides : \A h \in Range(up'[s]) : FrameOK(s, h)
  BY FramesOK, Zenon
<1> QED BY <1>2, <1>4, <1>5, <1>6, <1>7, Step, Zenon

\* A client's state that a step of the connections leaves alone.
LEMMA ClientsKept ==
  ASSUME RInv, UNCHANGED <<reader, author>>
  PROVE  /\ UNCHANGED <<acks, marker, consumed, toCome>>
         /\ screen' \in {"none", "this", "other"} /\ ReadingOK(rd, toCome)'
         /\ Made' = Made /\ rd'.outbox = rd.outbox
         /\ work' \in [stage : {"idle", "store", "ack"}, id : Nat] /\ work' = work
<1>1. UNCHANGED <<acks, marker, consumed, work, toCome, screen, rd>>
  BY Zenon DEF reader, author
<1>2. ReadingOK(rd, toCome)' /\ Made' = Made
  BY <1>1, Zenon DEF RInv, ReadingOK, Made
<1> QED BY <1>1, <1>2, Zenon DEF RInv, Types

\* The facts of RInv about connections.
LEMMA NetFields ==
  ASSUME RInv
  PROVE  /\ online \in [Sides -> BOOLEAN] /\ greeted \in [Sides -> BOOLEAN]
         /\ up \in [Sides -> Seq(Frames)] /\ old \in [Sides -> SUBSET Seq(Frames)]
         /\ events \in [Sides -> Seq(Events)]
         /\ ConfirmedLast(up[Reader])
         /\ \A q \in old[Reader] : \A h \in Range(q) : h.type = "confirm" => h.id \notin Sending
         /\ Reader \in Sides /\ Author \in Sides /\ Reader # Author
BY SidesDiffer, Zenon DEF RInv, Types, Order

\* The handshake.
LEMMA ConnectOK ==
  ASSUME RInv, NEW s \in Sides, Connect(s)
  PROVE  RInv'
<1>f. /\ online \in [Sides -> BOOLEAN] /\ greeted \in [Sides -> BOOLEAN]
      /\ up \in [Sides -> Seq(Frames)] /\ old \in [Sides -> SUBSET Seq(Frames)]
      /\ events \in [Sides -> Seq(Events)]
      /\ ConfirmedLast(up[Reader])
      /\ \A q \in old[Reader] : \A h \in Range(q) : h.type = "confirm" => h.id \notin Sending
      /\ Reader \in Sides /\ Author \in Sides
  BY NetFields, Zenon
<1>1. /\ online' = [online EXCEPT ![s] = TRUE] /\ greeted' = greeted /\ up' = up
      /\ events' = [events EXCEPT ![s] = Append(@, Authed)]
      /\ old' = [old EXCEPT ![s] = {SubSeq(q, 1, 1) : q \in @}]
      /\ UNCHANGED <<reader, author, relay>>
  BY Zenon DEF Connect, Deliver
<1>2. ASSUME NEW q \in old[s]
      PROVE  SubSeq(q, 1, 1) \in Seq(Frames) /\ SubSeq(q, 1, 1) # <<>> /\ Range(SubSeq(q, 1, 1)) \subseteq Range(q)
  <2>1. q \in Seq(Frames) /\ q # <<>>
    BY <1>2, FramesOK, Zenon
  <2>2. 1 \in 0..Len(q)
    BY <2>1
  <2>3. SubSeq(q, 1, 1) # <<>>
    BY <2>1
  <2> QED BY <2>1, <2>2, <2>3, RangePrefix
<1>3. PICK O : O = {SubSeq(q, 1, 1) : q \in old[s]}
  BY Zenon
<1>4. O \subseteq Seq(Frames) /\ \A p \in O : p # <<>> /\ \E q \in old[s] : Range(p) \subseteq Range(q)
  BY <1>2, <1>3, Zenon
<1>5. /\ old' \in [Sides -> SUBSET Seq(Frames)]
      /\ \A o \in Sides : \A p \in old'[o] : p # <<>> /\ \E q \in old[o] : Range(p) \subseteq Range(q)
  <2>1. old'[s] = O /\ \A o \in Sides \ {s} : old'[o] = old[o]
    BY <1>1, <1>3, <1>f, Zenon
  <2>2. old' = [old EXCEPT ![s] = O]
    BY <1>1, <1>3, <1>f, Zenon
  <2>3. old' \in [Sides -> SUBSET Seq(Frames)]
    BY <1>4, <1>f, <2>2
  <2>4. \A o \in Sides : \A q \in old[o] : q # <<>>
    BY FramesOK, Zenon
  <2> QED BY <1>4, <2>1, <2>3, <2>4, Zenon
<1>6. /\ \A o \in Sides : \A q \in old'[o] : q # <<>> /\ \A h \in Range(q) : FrameOK(o, h)
      /\ \A q \in old'[Reader] : \A h \in Range(q) : h.type = "confirm" => h.id \notin Sending'
  <2>1. Sending' = Sending
    BY <1>1, Zenon DEF Sending
  <2>2. \A o \in Sides : \A q \in old'[o] : q # <<>> /\ \A h \in Range(q) : FrameOK(o, h)
    BY <1>5, FramesOK, Zenon
  <2>3. \A q \in old'[Reader] : \A h \in Range(q) : h.type = "confirm" => h.id \notin Sending'
    BY <1>5, <1>f, <2>1, Zenon
  <2> QED BY <2>2, <2>3, Zenon
<1>7. events' \in [Sides -> Seq(Events)] /\ \A o \in Sides : \A e \in Range(events'[o]) : EventOK(o, e)
  <2>1. Authed \in Events /\ EventOK(s, Authed)
    <3>1. Authed \in ReaderEvents /\ Authed \in AuthorEvents /\ Authed.type = "authed"
      BY EventFields, Zenon
    <3>2. Authed.type # "sent" /\ Authed.type # "acked" /\ Authed.type # "incoming"
      BY <3>1
    <3> QED BY <3>1, <3>2, Zenon DEF EventOK, Events
  <2>2. PICK w : w = Append(events[s], Authed)
    BY Zenon
  <2>3. w \in Seq(Events) /\ Range(w) = Range(events[s]) \cup {Authed}
    BY <1>f, <2>1, <2>2, RangeAppend
  <2>4. events' = [events EXCEPT ![s] = w]
    BY <1>1, <2>2
  <2>5. events' \in [Sides -> Seq(Events)] /\ events'[s] = w /\ \A o \in Sides \ {s} : events'[o] = events[o]
    BY <1>f, <2>3, <2>4
  <2> QED BY <2>1, <2>3, <2>5, FramesOK, Zenon
<1>8. online' \in [Sides -> BOOLEAN] /\ greeted' \in [Sides -> BOOLEAN]
  BY <1>1, <1>f
<1>9. /\ up' \in [Sides -> Seq(Frames)] /\ (\A o \in Sides : Range(up'[o]) \subseteq Range(up[o]))
      /\ ConfirmedLast(up'[Reader]) /\ UNCHANGED relay
  BY <1>1, <1>f, Zenon DEF ConfirmedLast
<1> QED BY <1>1, <1>5, <1>6, <1>7, <1>8, <1>9, ClientsKept, NetStep, Zenon

\* The client leaves its connection.
LEMMA AbandonOK ==
  ASSUME RInv, NEW s \in Sides, Abandon(s)
  PROVE  /\ online' \in [Sides -> BOOLEAN] /\ greeted' \in [Sides -> BOOLEAN]
         /\ up' \in [Sides -> Seq(Frames)] /\ (\A o \in Sides : Range(up'[o]) \subseteq Range(up[o]))
         /\ ConfirmedLast(up'[Reader])
         /\ old' \in [Sides -> SUBSET Seq(Frames)]
         /\ \A o \in Sides : \A q \in old'[o] : q # <<>> /\ \A h \in Range(q) : FrameOK(o, h)
         /\ \A q \in old'[Reader] : \A h \in Range(q) : h.type = "confirm" => h.id \notin Sending'
<1>f. /\ online \in [Sides -> BOOLEAN] /\ greeted \in [Sides -> BOOLEAN]
      /\ up \in [Sides -> Seq(Frames)] /\ old \in [Sides -> SUBSET Seq(Frames)]
      /\ ConfirmedLast(up[Reader])
      /\ \A q \in old[Reader] : \A h \in Range(q) : h.type = "confirm" => h.id \notin Sending
      /\ Reader \in Sides /\ Author \in Sides /\ <<>> \in Seq(Frames)
  BY NetFields
<1>1. PICK n \in 0..Len(up[s]) : old' = [old EXCEPT ![s] = Add(@, SubSeq(up[s], 1, n))]
  BY Zenon DEF Abandon
<1>2. /\ online' = [online EXCEPT ![s] = FALSE] /\ greeted' = [greeted EXCEPT ![s] = FALSE]
      /\ up' = [up EXCEPT ![s] = <<>>]
  BY Zenon DEF Abandon
<1>3. PICK p : p = SubSeq(up[s], 1, n)
  BY Zenon
<1>4. p \in Seq(Frames) /\ Range(p) \subseteq Range(up[s])
  BY <1>3, <1>f, RangePrefix
<1>5. PICK O : O = Add(old[s], p)
  BY Zenon
<1>6. O \subseteq Seq(Frames) /\ \A q \in O : q \in old[s] \/ (q = p /\ p # <<>>)
  <2>1. old[s] \subseteq Seq(Frames)
    BY <1>f, Zenon
  <2> QED BY <1>4, <1>5, <2>1, Zenon DEF Add
<1>7. old' = [old EXCEPT ![s] = O]
  BY <1>1, <1>3, <1>5, <1>f, Zenon
<1>8. old' \in [Sides -> SUBSET Seq(Frames)] /\ old'[s] = O /\ \A o \in Sides \ {s} : old'[o] = old[o]
  BY <1>6, <1>7, <1>f
<1>9. up' \in [Sides -> Seq(Frames)] /\ up'[s] = <<>> /\ \A o \in Sides \ {s} : up'[o] = up[o]
  BY <1>2, <1>f
<1>10. \A o \in Sides : Range(up'[o]) \subseteq Range(up[o])
  BY <1>9, RangeEmpty, Zenon
<1>11. \A o \in Sides : \A q \in old'[o] : q # <<>> /\ \A h \in Range(q) : FrameOK(o, h)
  <2>1. SUFFICES ASSUME NEW o \in Sides, NEW q \in old'[o]
                 PROVE  q # <<>> /\ \A h \in Range(q) : FrameOK(o, h)
    BY Zenon
  <2>2. CASE q \in old[o]
    BY <2>2, FramesOK, Zenon
  <2>3. CASE o = s /\ q = p /\ p # <<>>
    BY <2>3, <1>4, FramesOK, Zenon
  <2>4. CASE o = s
    <3>1. q \in O
      BY <1>8, <2>4, Zenon
    <3> QED BY <1>6, <2>2, <2>3, <2>4, <3>1, Zenon
  <2>5. CASE o # s
    BY <1>8, <2>2, <2>5, Zenon
  <2> QED BY <2>4, <2>5, Zenon
<1>12. /\ ConfirmedLast(up'[Reader])
       /\ \A q \in old'[Reader] : \A h \in Range(q) : h.type = "confirm" => h.id \notin Sending'
  <2>1. CASE s = Reader
    <3>1. up'[Reader] = <<>>
      BY <1>9, <2>1, Zenon
    <3>2. Sending' = {}
      BY <3>1, RangeEmpty, Zenon DEF Sending
    <3>3. \A h \in Range(<<>>) : h.type # "confirm"
      BY RangeEmpty, Zenon
    <3>4. ConfirmedLast(<<>>)
      BY <1>f, <3>3, NoConfirm, Zenon
    <3> QED BY <3>1, <3>2, <3>4, Zenon
  <2>2. CASE s # Reader
    <3>1. up'[Reader] = up[Reader] /\ old'[Reader] = old[Reader]
      BY <1>8, <1>9, <1>f, <2>2, Zenon
    <3>2. Sending' = Sending
      BY <3>1, Zenon DEF Sending
    <3> QED BY <1>f, <3>1, <3>2, Zenon
  <2> QED BY <2>1, <2>2, Zenon
<1>13. online' \in [Sides -> BOOLEAN] /\ greeted' \in [Sides -> BOOLEAN]
  BY <1>2, <1>f
<1> QED BY <1>8, <1>9, <1>10, <1>11, <1>12, <1>13, Zenon

\* The events of side s are cut or lost.
LEMMA FewerEvents ==
  ASSUME RInv, NEW s \in Sides, NEW w \in Seq(Events), \A e \in Range(w) : EventOK(s, e),
         events' = [events EXCEPT ![s] = w]
  PROVE  events' \in [Sides -> Seq(Events)] /\ \A o \in Sides : \A e \in Range(events'[o]) : EventOK(o, e)
<1>1. events \in [Sides -> Seq(Events)]
  BY NetFields, Zenon
<1>2. events' \in [Sides -> Seq(Events)] /\ events'[s] = w /\ \A o \in Sides \ {s} : events'[o] = events[o]
  BY <1>1
<1> QED BY <1>2, FramesOK, Zenon

LEMMA DisconnectOK ==
  ASSUME RInv, NEW s \in Sides, Disconnect(s)
  PROVE  RInv'
<1>1. Abandon(s) /\ UNCHANGED <<reader, author, relay>>
  BY Zenon DEF Disconnect
<1>2. PICK n \in 0..Len(events[s]) : events' = [events EXCEPT ![s] = SubSeq(@, 1, n)]
  BY Zenon DEF Disconnect
<1>3. events \in [Sides -> Seq(Events)] /\ events[s] \in Seq(Events)
  BY NetFields, Zenon
<1>4. PICK w : w = SubSeq(events[s], 1, n)
  BY Zenon
<1>5. w \in Seq(Events) /\ Range(w) \subseteq Range(events[s])
  BY <1>3, <1>4, RangePrefix
<1>6. events' = [events EXCEPT ![s] = w]
  BY <1>2, <1>3, <1>4, Zenon
<1>7. \A e \in Range(w) : EventOK(s, e)
  BY <1>5, FramesOK, Zenon
<1>8. events' \in [Sides -> Seq(Events)] /\ \A o \in Sides : \A e \in Range(events'[o]) : EventOK(o, e)
  BY <1>5, <1>6, <1>7, FewerEvents, Zenon
<1> QED BY <1>1, <1>8, AbandonOK, ClientsKept, NetStep, Zenon

LEMMA CrashOK ==
  ASSUME RInv, NEW s \in Sides, Crash(s)
  PROVE  RInv'
<1>1. Abandon(s) /\ events' = [events EXCEPT ![s] = <<>>] /\ UNCHANGED <<toCome, acks, marker, consumed, relay>>
  BY Zenon DEF Crash
<1>2. <<>> \in Seq(Events) /\ \A e \in Range(<<>>) : EventOK(s, e)
  BY RangeEmpty
<1>3. events' \in [Sides -> Seq(Events)] /\ \A o \in Sides : \A e \in Range(events'[o]) : EventOK(o, e)
  BY <1>1, <1>2, FewerEvents, Zenon
<1>4. /\ screen' \in {"none", "this", "other"} /\ ReadingOK(rd, toCome)'
      /\ Made' = Made /\ rd'.outbox = rd.outbox
      /\ work' \in [stage : {"idle", "store", "ack"}, id : Nat] /\ (work' = work \/ work'.stage = "idle")
  <2>1. CASE s = Reader
    <3>1. rd' = [rd EXCEPT !.unread = {}] /\ screen' = "none" /\ work' = work
      BY <2>1, Zenon DEF Crash
    <3>2. ReadingOK(rd, toCome) /\ rd \in [unread : SUBSET Msgs, outbox : Seq(Nat), covers : Seq(SUBSET Msgs)]
      BY Zenon DEF RInv, ReadingOK
    <3>3. /\ rd' \in [unread : SUBSET Msgs, outbox : Seq(Nat), covers : Seq(SUBSET Msgs)]
          /\ rd'.unread = {} /\ rd'.outbox = rd.outbox /\ rd'.covers = rd.covers
      BY <3>1, <3>2
    <3>4. ReadingOK(rd, toCome)' /\ Made' = Made
      BY <1>1, <3>2, <3>3, Zenon DEF ReadingOK, Made
    <3> QED BY <3>1, <3>3, <3>4, Zenon DEF RInv, Types
  <2>2. CASE s # Reader
    <3>1. work' = Idle /\ UNCHANGED <<rd, screen>>
      BY <2>2, Zenon DEF Crash
    <3>2. work' \in [stage : {"idle", "store", "ack"}, id : Nat] /\ work'.stage = "idle"
      BY <3>1 DEF Idle
    <3>3. ReadingOK(rd, toCome)' /\ Made' = Made
      BY <1>1, <3>1, Zenon DEF RInv, ReadingOK, Made
    <3> QED BY <3>1, <3>2, <3>3, Zenon DEF RInv, Types
  <2> QED BY <2>1, <2>2, Zenon
<1> QED BY <1>1, <1>3, <1>4, AbandonOK, NetStep, Zenon

\* A step after which connections are as before, except for what Handle says.
LEMMA NetKept ==
  ASSUME RInv, UNCHANGED <<online, up, old>>, greeted' \in [Sides -> BOOLEAN]
  PROVE  /\ online' \in [Sides -> BOOLEAN] /\ greeted' \in [Sides -> BOOLEAN]
         /\ up' \in [Sides -> Seq(Frames)] /\ (\A o \in Sides : Range(up'[o]) \subseteq Range(up[o]))
         /\ ConfirmedLast(up'[Reader])
         /\ old' \in [Sides -> SUBSET Seq(Frames)]
         /\ \A o \in Sides : \A q \in old'[o] : q # <<>> /\ \A h \in Range(q) : FrameOK(o, h)
         /\ \A q \in old'[Reader] : \A h \in Range(q) : h.type = "confirm" => h.id \notin Sending'
<1>1. Sending' = Sending
  BY Zenon DEF Sending
<1>2. ConfirmedLast(up'[Reader])
  BY NetFields, Zenon
<1> QED BY <1>1, <1>2, NetFields, FramesOK, Zenon

\* A frame is taken and has no effect.
LEMMA ClientFaultOK ==
  ASSUME RInv, NEW s \in Sides, ClientFault(s)
  PROVE  RInv'
<1>1. NextEvent(s) /\ UNCHANGED <<reader, author, online, greeted, up, old, relay>>
  BY Zenon DEF ClientFault
<1>2. events' \in [Sides -> Seq(Events)] /\ \A o \in Sides : Range(events'[o]) \subseteq Range(events[o])
  BY <1>1, EventTaken, Zenon
<1>3. \A o \in Sides : \A e \in Range(events'[o]) : EventOK(o, e)
  BY <1>2, FramesOK, Zenon
<1>4. greeted' \in [Sides -> BOOLEAN]
  BY <1>1, NetFields, Zenon
<1> QED BY <1>1, <1>2, <1>3, <1>4, NetKept, ClientsKept, NetStep, Zenon

\* deliver_queued_receipts, with deliver_receipt_confirmations.
LEMMA GreetOK ==
  ASSUME RInv, NEW s \in Sides, Greet(s)
  PROVE  RInv'
<1>f. /\ events \in [Sides -> Seq(Events)] /\ greeted \in [Sides -> BOOLEAN] /\ events[s] \in Seq(Events)
      /\ Sides = {Reader, Author} /\ Reader # Author
  BY NetFields, SidesDiffer, Zenon
<1>1. /\ greeted' = [greeted EXCEPT ![s] = TRUE] /\ UNCHANGED <<reader, author, online, up, old, relay>>
  BY Zenon DEF Greet
<1>2. PICK p \in InOrder(Rows(s = Reader)) :
        events' = [events EXCEPT ![s] = @ \o
          [i \in DOMAIN p |-> IF s = Author THEN Incoming(queue[p[i]].id) ELSE Sent(queue[p[i]].id)]]
  BY Zenon DEF Greet
<1>3. PICK n \in 0..Len(queue) : p \in [1..n -> Rows(s = Reader)]
  BY Zenon DEF InOrder
<1>4. PICK t : t = [i \in 1..n |-> IF s = Author THEN Incoming(queue[p[i]].id) ELSE Sent(queue[p[i]].id)]
  BY Zenon
<1>5. DOMAIN p = 1..n /\ n \in Nat
  <2>1. Len(queue) \in Nat
    BY DEF RInv, Types
  <2> QED BY <1>3, <2>1
<1>6. ASSUME NEW i \in 1..n PROVE t[i] \in Events /\ EventOK(s, t[i])
  <2>1. PICK k : k = p[i]
    BY Zenon
  <2>2. k \in DOMAIN queue /\ queue[k].acked = (s = Reader) /\ k \in Rows(s = Reader)
    BY <1>3, <1>6, <2>1, Zenon DEF Rows
  <2>3. PICK r : r = queue[k].id
    BY Zenon
  <2>4. r \in Nat
    <3>1. queue[k] \in RowTypes
      BY <2>2 DEF RInv, Types
    <3> QED BY <2>3, <3>1 DEF RowTypes
  <2>5. r \in Queued /\ r \in Made /\ Seen(r)
    BY <2>2, <2>3, Zenon DEF RInv, Ledger, Queued, Ids, Seen
  <2>6. CASE s = Author
    <3>1. t[i] = Incoming(r)
      BY <1>4, <1>6, <2>1, <2>3, <2>6, Zenon
    <3>2. Incoming(r) \in AuthorEvents /\ Incoming(r).type = "incoming" /\ Incoming(r).id = r
      BY <2>4, EventFields, Zenon
    <3>3. Incoming(r).type # "sent" /\ Incoming(r).type # "acked"
      BY <3>2
    <3> QED BY <1>f, <2>5, <2>6, <3>1, <3>2, <3>3, Zenon DEF EventOK, Events
  <2>7. CASE s = Reader
    <3>1. t[i] = Sent(r)
      BY <1>4, <1>6, <1>f, <2>1, <2>3, <2>7, Zenon
    <3>2. Sent(r) \in ReaderEvents /\ Sent(r).type = "sent" /\ Sent(r).id = r
      BY <2>4, EventFields, Zenon
    <3>3. Sent(r).type # "incoming" /\ Sent(r).type # "acked"
      BY <3>2
    <3>4. k \in Rows(TRUE)
      BY <2>2, <2>7, Zenon DEF Rows
    <3>5. r \in consumed
      BY <2>3, <3>4, Zenon DEF RInv, Ledger, Ids
    <3> QED BY <2>5, <2>7, <3>1, <3>2, <3>3, <3>5, Zenon DEF EventOK, Events
  <2> QED BY <1>f, <2>6, <2>7, Zenon
<1>7. t \in Seq(Events) /\ \A e \in Range(t) : EventOK(s, e)
  <2>1. t \in [1..n -> Events]
    BY <1>4, <1>6, Zenon
  <2>2. t \in Seq(Events) /\ Len(t) = n
    BY <1>5, <2>1
  <2>3. \A e \in Range(t) : EventOK(s, e)
    BY <1>6, <2>2, RangeElem, Zenon
  <2> QED BY <2>2, <2>3, Zenon
<1>8. PICK w : w = events[s] \o t
  BY Zenon
<1>9. w \in Seq(Events) /\ Range(w) = Range(events[s]) \cup Range(t)
  BY <1>7, <1>8, <1>f, RangeConcat
<1>10. events' = [events EXCEPT ![s] = w]
  <2>1. t = [i \in DOMAIN p |-> IF s = Author THEN Incoming(queue[p[i]].id) ELSE Sent(queue[p[i]].id)]
    BY <1>4, <1>5, Zenon
  <2> QED BY <1>2, <1>8, <1>f, <2>1, Zenon
<1>11. \A e \in Range(w) : EventOK(s, e)
  BY <1>7, <1>9, FramesOK, Zenon
<1>12. events' \in [Sides -> Seq(Events)] /\ \A o \in Sides : \A e \in Range(events'[o]) : EventOK(o, e)
  BY <1>9, <1>10, <1>11, FewerEvents, Zenon
<1>13. greeted' \in [Sides -> BOOLEAN]
  BY <1>1, <1>f
<1> QED BY <1>1, <1>12, <1>13, NetKept, ClientsKept, NetStep, Zenon

\* The transaction of a handler fails.
LEMMA RelayFaultOK ==
  ASSUME RInv, NEW s \in Sides, RelayFault(s)
  PROVE  RInv'
<1>f. /\ up \in [Sides -> Seq(Frames)] /\ up[s] \in Seq(Frames) /\ up[Reader] \in Seq(Frames)
      /\ ConfirmedLast(up[Reader]) /\ Reader \in Sides
      /\ \A q \in old[Reader] : \A h \in Range(q) : h.type = "confirm" => h.id \notin Sending
  BY NetFields, Zenon
<1>1. /\ up[s] # <<>> /\ up' = [up EXCEPT ![s] = Tail(@)]
      /\ UNCHANGED <<reader, author, online, greeted, old, events, relay>>
  BY Zenon DEF RelayFault
<1>2. PICK t : t = Tail(up[s])
  BY Zenon
<1>3. t \in Seq(Frames) /\ Range(t) \subseteq Range(up[s])
  BY <1>1, <1>2, <1>f, RangeTail
<1>4. up' = [up EXCEPT ![s] = t]
  BY <1>1, <1>2
<1>5. up' \in [Sides -> Seq(Frames)] /\ up'[s] = t /\ \A o \in Sides \ {s} : up'[o] = up[o]
  BY <1>3, <1>4, <1>f
<1>6. \A o \in Sides : Range(up'[o]) \subseteq Range(up[o])
  <2>1. SUFFICES ASSUME NEW o \in Sides PROVE Range(up'[o]) \subseteq Range(up[o])
    BY Zenon
  <2>2. CASE o = s
    <3>1. up'[o] = t
      BY <1>5, <2>2, Zenon
    <3> QED BY <1>3, <2>2, <3>1, Zenon
  <2>3. CASE o # s
    BY <1>5, <2>3, Zenon
  <2> QED BY <2>2, <2>3, Zenon
<1>7. ConfirmedLast(up'[Reader])
  <2>1. CASE s = Reader
    <3>1. ConfirmedLast(Tail(up[Reader]))
      BY <1>1, <1>f, <2>1, ConfirmedLastTail, Zenon
    <3> QED BY <1>2, <1>5, <2>1, <3>1, Zenon
  <2>2. CASE s # Reader
    BY <1>5, <1>f, <2>2, Zenon
  <2> QED BY <2>1, <2>2, Zenon
<1>8. Sending' \subseteq Sending
  BY <1>6, <1>f, Zenon DEF Sending
<1>9. /\ old' \in [Sides -> SUBSET Seq(Frames)]
      /\ \A o \in Sides : \A q \in old'[o] : q # <<>> /\ \A h \in Range(q) : FrameOK(o, h)
      /\ \A q \in old'[Reader] : \A h \in Range(q) : h.type = "confirm" => h.id \notin Sending'
  <2>1. old' = old /\ old \in [Sides -> SUBSET Seq(Frames)]
    BY <1>1, NetFields, Zenon
  <2>2. \A o \in Sides : \A q \in old'[o] : q # <<>> /\ \A h \in Range(q) : FrameOK(o, h)
    BY <2>1, FramesOK, Zenon
  <2>3. \A q \in old'[Reader] : \A h \in Range(q) : h.type = "confirm" => h.id \notin Sending'
    BY <1>8, <1>f, <2>1, Zenon
  <2> QED BY <2>1, <2>2, <2>3, Zenon
<1>10. /\ online' \in [Sides -> BOOLEAN] /\ greeted' \in [Sides -> BOOLEAN]
       /\ events' \in [Sides -> Seq(Events)] /\ \A o \in Sides : \A e \in Range(events'[o]) : EventOK(o, e)
  BY <1>1, NetFields, FramesOK, Zenon
<1> QED BY <1>1, <1>5, <1>6, <1>7, <1>9, <1>10, ClientsKept, NetStep, Zenon

-----------------------------------------------------------------------------
(* The relay *)

\* What is left to do after a transaction: neither a receipt nor a confirmation.
LEMMA AfterFrames ==
  ASSUME NEW h \in Frames
  PROVE  After(h) \in Seq(Frames) /\ \A f \in Range(After(h)) : f.type # "receipt" /\ f.type # "confirm"
<1>1. PICK r \in Nat : r = h.id
  BY FrameFields, Zenon
<1>2. CASE h.type = "receipt"
  <2>1. After(h) \in {<<Answer(r)>>, <<Push(r)>>, <<>>}
    BY <1>1, <1>2, Zenon DEF After, Enqueue
  <2>2. /\ Answer(r) \in Frames /\ Answer(r).type = "answer"
        /\ Push(r) \in Frames /\ Push(r).type = "push"
    BY FrameFields, Zenon DEF Frames
  <2>3. /\ <<Answer(r)>> \in Seq(Frames) /\ <<Push(r)>> \in Seq(Frames) /\ <<>> \in Seq(Frames)
    BY <2>2
  <2>4. /\ Range(<<Answer(r)>>) = {Answer(r)} /\ Range(<<Push(r)>>) = {Push(r)} /\ Range(<<>>) = {}
    BY RangeSingle, RangeEmpty, Zenon
  <2>5. /\ Answer(r).type # "receipt" /\ Answer(r).type # "confirm"
        /\ Push(r).type # "receipt" /\ Push(r).type # "confirm"
    BY <2>2
  <2> QED BY <2>1, <2>3, <2>4, <2>5, Zenon
<1>3. CASE h.type = "ack"
  <2>1. PICK k : k = h.ack
    BY Zenon
  <2>2. PICK b \in BOOLEAN : b = (h.id \in Queued)
    <3>1. CASE h.id \in Queued
      <4>1. TRUE \in BOOLEAN /\ TRUE = (h.id \in Queued)
        BY <3>1
      <4> QED BY <4>1, Zenon
    <3>2. CASE h.id \notin Queued
      <4>1. FALSE \in BOOLEAN /\ FALSE = (h.id \in Queued)
        BY <3>2
      <4> QED BY <4>1, Zenon
    <3> QED BY <3>1, <3>2, Zenon
  <2>3. h.type # "receipt"
    BY <1>3
  <2>4. After(h) = <<Notify(k, r, b)>>
    BY <1>1, <1>3, <2>1, <2>2, <2>3, Zenon DEF After
  <2>5. k \in Nat
    <3>1. h \notin ReaderFrames
      BY <1>3 DEF ReaderFrames
    <3> QED BY <2>1, <3>1, FrameFields, Zenon DEF Frames
  <2>6. Notify(k, r, b) \in Frames /\ Notify(k, r, b).type = "notify"
    BY <2>5, FrameFields, Zenon DEF Frames
  <2>7. PICK f : f = Notify(k, r, b)
    BY Zenon
  <2>8. <<f>> \in Seq(Frames) /\ f.type # "receipt" /\ f.type # "confirm" /\ Range(<<f>>) = {f}
    BY <2>6, <2>7, RangeSingle
  <2> QED BY <2>4, <2>7, <2>8, Zenon
<1>4. CASE h.type # "receipt" /\ h.type # "ack"
  <2>1. After(h) = <<>>
    BY <1>4, Zenon DEF After
  <2>2. <<>> \in Seq(Frames)
    OBVIOUS
  <2> QED BY <2>1, <2>2, RangeEmpty, Zenon
<1> QED BY <1>2, <1>3, <1>4, Zenon

\* The row x says whether receipt r is acknowledged.
RowOf(x, r, acked) == x.id = r /\ x.acked = acked

\* The rows of the queue, by their ids.
LEMMA IdsOfRows ==
  ASSUME queue \in Seq(RowTypes), queue' \in Seq(RowTypes)
  PROVE  /\ \A r : r \in Queued <=> \E x \in Range(queue) : x.id = r
         /\ \A r : r \in Queued' <=> \E x \in Range(queue') : x.id = r
         /\ \A r, b : r \in Ids(Rows(b)) <=> \E x \in Range(queue) : RowOf(x, r, b)
         /\ \A r, b : r \in Ids(Rows(b))' <=> \E x \in Range(queue') : RowOf(x, r, b)
<1>1. /\ \A x : x \in Range(queue) <=> \E i \in DOMAIN queue : queue[i] = x
      /\ \A x : x \in Range(queue') <=> \E i \in DOMAIN queue' : queue'[i] = x
  BY Zenon DEF Range
<1>2. \A r : r \in Queued <=> \E x \in Range(queue) : x.id = r
  BY <1>1, Zenon DEF Queued, Ids
<1>3. \A r : r \in Queued' <=> \E x \in Range(queue') : x.id = r
  BY <1>1, Zenon DEF Queued, Ids
<1>4. \A r, b : r \in Ids(Rows(b)) <=> \E x \in Range(queue) : RowOf(x, r, b)
  BY <1>1, Zenon DEF Rows, Ids, RowOf
<1>5. \A r, b : r \in Ids(Rows(b))' <=> \E x \in Range(queue') : RowOf(x, r, b)
  BY <1>1, Zenon DEF Rows, Ids, RowOf
<1> QED BY <1>2, <1>3, <1>4, <1>5, Zenon

\* The databases after a transaction of the relay.
LEMMA RelayLedger ==
  ASSUME Ledger, UNCHANGED <<reader, author>>, \A r \in Made : Seen(r) => Seen(r)',
         Queued' \subseteq Made, Len(queue') <= MaxQueue,
         \A i, j \in DOMAIN queue' : queue'[i].id = queue'[j].id => i = j,
         Ids(Rows(TRUE))' \subseteq consumed,
         \A r \in Ids(Rows(FALSE))' \ ghosts' : r \in consumed => r \in Ids(Rows(FALSE)) \ ghosts
  PROVE  Ledger'
<1>1. UNCHANGED <<rd, acks, marker, consumed, work, Made>>
  BY Zenon DEF reader, author, Made
<1>2. ReceiptNotLost'
  BY <1>1, Zenon DEF Ledger, ReceiptNotLost
<1>3. AckPossible'
  BY <1>1, Zenon DEF Ledger, AckPossible
<1>4. /\ marker'.pending \cap marker'.stored = {} /\ marker'.pending \cup marker'.stored \subseteq consumed'
      /\ consumed' \subseteq Made' /\ (work'.stage # "idle" => work'.id \in consumed')
      /\ (\A a \in Range(acks'.outbox) : a.id \in consumed')
  BY <1>1, Zenon DEF Ledger
<1>5. \A r \in consumed' : Seen(r)'
  BY <1>1, Zenon DEF Ledger
<1>6. Queued' \subseteq Made' /\ Ids(Rows(TRUE))' \subseteq consumed'
  BY <1>1, Zenon
<1> QED BY <1>2, <1>3, <1>4, <1>5, <1>6, Zenon DEF Ledger

\* receipts::enqueue.
LEMMA EnqueueOK ==
  ASSUME RInv, NEW s \in Sides, NEW h, FrameOK(s, h), NEW live \in BOOLEAN,
         HandleReadReceipt(s, h, live), UNCHANGED <<reader, author>>,
         Sending' \subseteq Sending, live => h.id \in Sending
  PROVE  /\ \A r \in Made : Seen(r) => Seen(r)'
         /\ \A o \in Sides : \A f : FrameOK(o, f) => FrameOK(o, f)'
         /\ \A o \in Sides : \A e : EventOK(o, e) => EventOK(o, e)'
         /\ queue' \in Seq(RowTypes) /\ Ledger' /\ events' = events
         /\ \A f \in Range(After(h)) : FrameOK(s, f)'
<1>f. Ledger /\ queue \in Seq(RowTypes) /\ Reader # Author /\ Sides = {Reader, Author}
  BY SidesDiffer, Zenon DEF RInv, Types
<1>1. PICK r : r = h.id
  BY Zenon
<1>2. PICK insert : insert = (r \notin Queued /\ Enqueue(r) # <<>>)
  BY Zenon
<1>3. /\ h.type = "receipt" /\ events' = events
      /\ queue' = IF insert THEN Append(queue, [id |-> r, acked |-> FALSE]) ELSE queue
      /\ ghosts' = IF insert /\ ~live /\ r \notin Range(rd.outbox) THEN ghosts \cup {r} ELSE ghosts
  BY <1>1, <1>2, Zenon DEF HandleReadReceipt
<1>4. s = Reader /\ r \in Made /\ r \in Nat
  <2>1. h \notin AuthorFrames
    BY <1>3 DEF AuthorFrames, AckFrames
  <2>2. s = Reader /\ h \in ReaderFrames
    BY <1>f, <2>1, Zenon DEF FrameOK
  <2>3. h.id \in Nat
    BY <2>2, FrameFields, Zenon
  <2> QED BY <1>1, <2>2, <2>3, Zenon DEF FrameOK
<1>5. UNCHANGED <<rd, acks, marker, consumed, work, Made>>
  BY Zenon DEF reader, author, Made
<1>6. PICK row : row = [id |-> r, acked |-> FALSE]
  BY Zenon
<1>7. row \in RowTypes /\ row.id = r /\ RowOf(row, r, FALSE)
      /\ \A x : /\ ~RowOf(row, x, TRUE) /\ (RowOf(row, x, FALSE) => x = r)
  BY <1>4, <1>6 DEF RowTypes, RowOf
<1>8. /\ queue' \in Seq(RowTypes)
      /\ Range(queue') = IF insert THEN Range(queue) \cup {row} ELSE Range(queue)
  <2>1. CASE insert
    <3>1. queue' = Append(queue, row)
      BY <1>3, <1>6, <2>1, Zenon
    <3>2. queue' \in Seq(RowTypes) /\ Range(queue') = Range(queue) \cup {row}
      BY <1>7, <1>f, <3>1, RangeAppend
    <3> QED BY <2>1, <3>2, Zenon
  <2>2. CASE ~insert
    BY <1>3, <1>f, <2>2, Zenon
  <2> QED BY <2>1, <2>2, Zenon
<1>9. /\ \A x : x \in Queued <=> \E y \in Range(queue) : y.id = x
      /\ \A x : x \in Queued' <=> \E y \in Range(queue') : y.id = x
      /\ \A x, b : x \in Ids(Rows(b)) <=> \E y \in Range(queue) : RowOf(y, x, b)
      /\ \A x, b : x \in Ids(Rows(b))' <=> \E y \in Range(queue') : RowOf(y, x, b)
  BY <1>8, <1>f, IdsOfRows, Zenon
<1>r. \A y : y \in Range(queue') <=> y \in Range(queue) \/ (insert /\ y = row)
  <2>1. CASE insert
    BY <1>8, <2>1, Zenon
  <2>2. CASE ~insert
    BY <1>8, <2>2, Zenon
  <2> QED BY <2>1, <2>2, Zenon
<1>10. \A x : x \in Queued' <=> x \in Queued \/ (insert /\ x = r)
  <2>2. ASSUME NEW x, x \in Queued' PROVE x \in Queued \/ (insert /\ x = r)
    <3>1. PICK y \in Range(queue') : y.id = x
      BY <1>9, <2>2, Zenon
    <3>2. y \in Range(queue) \/ (insert /\ y = row)
      BY <1>r, Zenon
    <3> QED BY <1>7, <1>9, <3>1, <3>2, Zenon
  <2>3. ASSUME NEW x, x \in Queued PROVE x \in Queued'
    <3>1. PICK y \in Range(queue) : y.id = x
      BY <1>9, <2>3, Zenon
    <3>2. y \in Range(queue')
      BY <1>r, Zenon
    <3> QED BY <1>9, <3>1, <3>2, Zenon
  <2>4. insert => r \in Queued'
    <3>1. insert => row \in Range(queue')
      BY <1>r, Zenon
    <3> QED BY <1>7, <1>9, <3>1, Zenon
  <2> QED BY <2>2, <2>3, <2>4, Zenon
<1>11. \A x : x \in Ids(Rows(TRUE))' <=> x \in Ids(Rows(TRUE))
  <2>2. ASSUME NEW x, x \in Ids(Rows(TRUE))' PROVE x \in Ids(Rows(TRUE))
    <3>1. PICK y \in Range(queue') : RowOf(y, x, TRUE)
      BY <1>9, <2>2, Zenon
    <3>2. y \in Range(queue) \/ (insert /\ y = row)
      BY <1>r, Zenon
    <3> QED BY <1>7, <1>9, <3>1, <3>2, Zenon
  <2>3. ASSUME NEW x, x \in Ids(Rows(TRUE)) PROVE x \in Ids(Rows(TRUE))'
    <3>1. PICK y \in Range(queue) : RowOf(y, x, TRUE)
      BY <1>9, <2>3, Zenon
    <3>2. y \in Range(queue')
      BY <1>r, Zenon
    <3> QED BY <1>9, <3>1, <3>2, Zenon
  <2> QED BY <2>2, <2>3, Zenon
<1>12. \A x : x \in Ids(Rows(FALSE))' <=> x \in Ids(Rows(FALSE)) \/ (insert /\ x = r)
  <2>2. ASSUME NEW x, x \in Ids(Rows(FALSE))' PROVE x \in Ids(Rows(FALSE)) \/ (insert /\ x = r)
    <3>1. PICK y \in Range(queue') : RowOf(y, x, FALSE)
      BY <1>9, <2>2, Zenon
    <3>2. y \in Range(queue) \/ (insert /\ y = row)
      BY <1>r, Zenon
    <3> QED BY <1>7, <1>9, <3>1, <3>2, Zenon
  <2>3. ASSUME NEW x, x \in Ids(Rows(FALSE)) PROVE x \in Ids(Rows(FALSE))'
    <3>1. PICK y \in Range(queue) : RowOf(y, x, FALSE)
      BY <1>9, <2>3, Zenon
    <3>2. y \in Range(queue')
      BY <1>r, Zenon
    <3> QED BY <1>9, <3>1, <3>2, Zenon
  <2>4. insert => r \in Ids(Rows(FALSE))'
    <3>1. insert => row \in Range(queue')
      BY <1>r, Zenon
    <3> QED BY <1>7, <1>9, <3>1, Zenon
  <2> QED BY <2>2, <2>3, <2>4, Zenon
<1>13. insert /\ Gone(r) => r \in ghosts'
  BY <1>1, <1>3, Zenon DEF Gone
<1>14. /\ \A x \in Made : Seen(x) => Seen(x)'
       /\ \A o \in Sides : \A f : FrameOK(o, f) => FrameOK(o, f)'
       /\ \A o \in Sides : \A e : EventOK(o, e) => EventOK(o, e)'
  <2>1. Made \subseteq Made' /\ consumed \subseteq consumed' /\ ghosts \subseteq ghosts'
    BY <1>3, <1>5, Zenon
  <2>2. \A x \in Made : Gone(x) => Gone(x)'
    BY <1>5, Zenon DEF Gone
  <2>3. \A x \in Made : x \in Range(rd'.outbox) => x \in Range(rd.outbox)
    BY <1>5, Zenon
  <2>4. /\ \A x \in Queued : x \in Queued' \/ Gone(x)'
        /\ \A x \in Ids(Rows(TRUE)) : x \in Ids(Rows(TRUE))' \/ (x \notin Queued' /\ Gone(x)')
    BY <1>10, <1>11, Zenon
  <2>5. \A x \in Queued' : x \in Queued \cup ghosts' \/ ~Gone(x)
    BY <1>10, <1>13, Zenon
  <2> QED BY <2>1, <2>2, <2>3, <2>4, <2>5, Persist, Zenon
<1>15. Ledger'
  <2>1. Queued' \subseteq Made
    BY <1>10, <1>4, <1>f, Zenon DEF Ledger
  <2>2. Len(queue') <= MaxQueue /\ \A i, j \in DOMAIN queue' : queue'[i].id = queue'[j].id => i = j
    <3>1. CASE insert
      <4>1. Len(queue) < MaxQueue
        <5>1. r \notin Queued /\ Enqueue(r) # <<>>
          BY <1>2, <3>1, Zenon
        <5>2. r \notin Ids(Rows(TRUE))
          BY <5>1, Zenon DEF Queued, Ids, Rows
        <5> QED BY <5>1, <5>2, Zenon DEF Enqueue, HasRoom
      <4>2. PICK n : n = Len(queue)
        BY Zenon
      <4>3. /\ n \in Nat /\ Len(queue') = n + 1 /\ DOMAIN queue' = 1..(n + 1) /\ DOMAIN queue = 1..n
            /\ queue'[n + 1] = row /\ \A i \in 1..n : queue'[i] = queue[i]
        <5>1. queue' = Append(queue, row)
          BY <1>3, <1>6, <3>1, Zenon
        <5> QED BY <1>7, <1>f, <4>2, <5>1
      <4>4. \A i \in 1..n : queue'[i].id # r
        <5>1. \A i \in 1..n : queue[i].id \in Queued
          BY <4>3, Zenon DEF Queued, Ids
        <5> QED BY <1>2, <3>1, <4>3, <5>1, Zenon
      <4>5. \A i, j \in 1..n : queue'[i].id = queue'[j].id => i = j
        BY <1>f, <4>3, Zenon DEF Ledger
      <4>6. \A i \in 1..(n + 1) : i \in 1..n \/ i = n + 1
        BY <4>3
      <4>7. \A i, j \in DOMAIN queue' : queue'[i].id = queue'[j].id => i = j
        BY <1>7, <4>3, <4>4, <4>5, <4>6, Zenon
      <4>8. Len(queue') <= MaxQueue
        BY <4>1, <4>2, <4>3, ReceiptsAssumption
      <4> QED BY <4>7, <4>8, Zenon
    <3>2. CASE ~insert
      BY <1>3, <1>f, <3>2, Zenon DEF Ledger
    <3> QED BY <3>1, <3>2, Zenon
  <2>3. Ids(Rows(TRUE))' \subseteq consumed
    BY <1>11, <1>f, Zenon DEF Ledger
  <2>4. \A x \in Ids(Rows(FALSE))' \ ghosts' : x \in consumed => x \in Ids(Rows(FALSE)) \ ghosts
    <3>1. SUFFICES ASSUME NEW x \in Ids(Rows(FALSE))' \ ghosts', x \in consumed
                   PROVE  x \in Ids(Rows(FALSE)) \ ghosts
      BY Zenon
    <3>2. x \notin ghosts /\ x \notin ghosts'
      BY <1>3, <3>1, Zenon
    <3>3. CASE insert /\ x = r
      <4>1. Seen(r) /\ r \notin Queued
        BY <1>2, <1>f, <3>1, <3>3, Zenon DEF Ledger
      <4> QED BY <1>13, <3>2, <3>3, <4>1, Zenon DEF Seen
    <3> QED BY <1>12, <3>1, <3>2, <3>3, Zenon
  <2> QED BY <1>14, <1>f, <2>1, <2>2, <2>3, <2>4, RelayLedger, Zenon
<1>16. \A f \in Range(After(h)) : FrameOK(s, f)'
  <2>1. After(h) = Enqueue(r)
    BY <1>1, <1>3, Zenon DEF After
  <2>2. CASE r \in Ids(Rows(TRUE))
    <3>1. After(h) = <<Answer(r)>>
      BY <2>1, <2>2, Zenon DEF Enqueue
    <3>2. Answer(r) \in ReaderFrames /\ Answer(r).type = "answer" /\ Answer(r).id = r
      BY <1>4, FrameFields, Zenon
    <3>3. Answer(r).type # "push" /\ Answer(r).type # "confirm" /\ Answer(r).type # "notify"
      BY <3>2
    <3>4. r \in consumed' /\ r \in Made'
      BY <1>4, <1>5, <1>f, <2>2, Zenon DEF Ledger
    <3>5. FrameOK(s, Answer(r))'
      BY <1>4, <3>2, <3>3, <3>4, Zenon DEF FrameOK
    <3> QED BY <3>1, <3>5, RangeSingle, Zenon
  <2>3. CASE r \notin Ids(Rows(TRUE)) /\ (r \in Queued \/ HasRoom)
    <3>1. After(h) = <<Push(r)>> /\ Enqueue(r) = <<Push(r)>>
      BY <2>1, <2>3, Zenon DEF Enqueue
    <3>2. Push(r) \in ReaderFrames /\ Push(r).type = "push" /\ Push(r).id = r
      BY <1>4, FrameFields, Zenon
    <3>3. /\ Push(r).type # "answer" /\ Push(r).type # "ack"
          /\ Push(r).type # "confirm" /\ Push(r).type # "notify"
      BY <3>2
    <3>4. Enqueue(r) # <<>>
      BY <3>1
    <3>5. Seen(r)'
      BY <1>2, <1>10, <3>4, Zenon DEF Seen
    <3>6. FrameOK(s, Push(r))'
      BY <1>4, <1>5, <3>2, <3>3, <3>5, Zenon DEF FrameOK
    <3> QED BY <3>1, <3>6, RangeSingle, Zenon
  <2>4. CASE r \notin Ids(Rows(TRUE)) /\ ~(r \in Queued \/ HasRoom)
    <3>1. After(h) = <<>>
      BY <2>1, <2>4, Zenon DEF Enqueue
    <3> QED BY <3>1, RangeEmpty, Zenon
  <2> QED BY <2>2, <2>3, <2>4, Zenon
<1> QED BY <1>3, <1>8, <1>14, <1>15, <1>16, Zenon

\* receipts::acknowledge.
LEMMA AcknowledgeOK ==
  ASSUME RInv, NEW s \in Sides, NEW h, FrameOK(s, h), NEW live \in BOOLEAN,
         HandleReadReceiptAck(s, h, live), UNCHANGED <<reader, author>>, Sending' \subseteq Sending
  PROVE  /\ \A r \in Made : Seen(r) => Seen(r)'
         /\ \A o \in Sides : \A f : FrameOK(o, f) => FrameOK(o, f)'
         /\ \A o \in Sides : \A e : EventOK(o, e) => EventOK(o, e)'
         /\ queue' \in Seq(RowTypes) /\ Ledger' /\ events' = events
         /\ \A f \in Range(After(h)) : FrameOK(s, f)'
<1>f. Ledger /\ queue \in Seq(RowTypes) /\ Reader # Author /\ Sides = {Reader, Author}
  BY SidesDiffer, Zenon DEF RInv, Types
<1>1. PICK r : r = h.id
  BY Zenon
<1>2. h.type = "ack" /\ queue' = Acknowledge(r) /\ ghosts' = ghosts /\ events' = events
  BY <1>1, Zenon DEF HandleReadReceiptAck
<1>3. s = Author /\ r \in Made /\ r \in Nat /\ r \in consumed /\ h.ack \in Nat
  <2>1. h \notin ReaderFrames
    BY <1>2 DEF ReaderFrames
  <2>2. s = Author /\ h \in AuthorFrames
    BY <1>f, <2>1, Zenon DEF FrameOK
  <2>3. h.id \in Nat /\ h.ack \in Nat
    BY <2>2, FrameFields, Zenon
  <2> QED BY <1>1, <1>2, <2>2, <2>3, Zenon DEF FrameOK
<1>4. UNCHANGED <<rd, acks, marker, consumed, work, Made>>
  BY Zenon DEF reader, author, Made
<1>5. PICK n \in Nat : n = Len(queue)
  BY <1>f
<1>6. DOMAIN queue = 1..n
  BY <1>5, <1>f
<1>7. /\ DOMAIN queue' = 1..n
      /\ \A i \in 1..n : /\ queue'[i] \in RowTypes /\ queue'[i].id = queue[i].id
                         /\ queue[i].id = r => queue'[i].acked = TRUE
                         /\ queue[i].id # r => queue'[i] = queue[i]
  <2>1. queue' = [i \in 1..n |-> IF queue[i].id = r THEN [queue[i] EXCEPT !.acked = TRUE] ELSE queue[i]]
    BY <1>2, <1>6, Zenon DEF Acknowledge
  <2>2. SUFFICES ASSUME NEW i \in 1..n
                 PROVE  /\ queue'[i] \in RowTypes /\ queue'[i].id = queue[i].id
                        /\ queue[i].id = r => queue'[i].acked = TRUE
                        /\ queue[i].id # r => queue'[i] = queue[i]
    BY <2>1, Zenon
  <2>3. queue[i] \in RowTypes
    BY <1>6, <1>f
  <2>4. CASE queue[i].id = r
    <3>1. queue'[i] = [queue[i] EXCEPT !.acked = TRUE]
      BY <2>1, <2>4
    <3> QED BY <2>3, <2>4, <3>1 DEF RowTypes
  <2>5. CASE queue[i].id # r
    <3>1. queue'[i] = queue[i]
      BY <2>1, <2>5
    <3> QED BY <2>3, <2>5, <3>1, Zenon
  <2> QED BY <2>4, <2>5, Zenon
<1>8. queue' \in Seq(RowTypes) /\ Len(queue') = n
  <2>1. queue' = [i \in 1..n |-> queue'[i]]
    <3>1. queue' = [i \in DOMAIN queue |-> IF queue[i].id = r THEN [queue[i] EXCEPT !.acked = TRUE] ELSE queue[i]]
      BY <1>2, Zenon DEF Acknowledge
    <3> QED BY <1>6, <3>1
  <2>2. queue' \in [1..n -> RowTypes]
    BY <1>7, <2>1, Zenon
  <2> QED BY <2>2
<1>9. Queued' = Queued
  <2>1. \A x : x \in Queued <=> \E i \in 1..n : queue[i].id = x
    BY <1>6, Zenon DEF Queued, Ids
  <2>2. \A x : x \in Queued' <=> \E i \in 1..n : queue'[i].id = x
    BY <1>7, Zenon DEF Queued, Ids
  <2>3. \A i \in 1..n : queue'[i].id = queue[i].id
    BY <1>7, Zenon
  <2>4. \A x \in Queued' : x \in Queued
    BY <2>1, <2>2, <2>3, Zenon
  <2>5. \A x \in Queued : x \in Queued'
    BY <2>1, <2>2, <2>3, Zenon
  <2> QED BY <2>4, <2>5, Zenon
<1>10. /\ \A x, b : x \in Ids(Rows(b)) <=> \E i \in 1..n : RowOf(queue[i], x, b)
       /\ \A x, b : x \in Ids(Rows(b))' <=> \E i \in 1..n : RowOf(queue'[i], x, b)
  <2>1. \A x, b : x \in Ids(Rows(b)) <=> \E i \in 1..n : RowOf(queue[i], x, b)
    BY <1>6, Zenon DEF Ids, Rows, RowOf
  <2>2. \A x, b : x \in Ids(Rows(b))' <=> \E i \in 1..n : RowOf(queue'[i], x, b)
    BY <1>7, Zenon DEF Ids, Rows, RowOf
  <2> QED BY <2>1, <2>2, Zenon
<1>11. \A i \in 1..n : \A x : /\ RowOf(queue[i], x, TRUE) => RowOf(queue'[i], x, TRUE)
                              /\ RowOf(queue'[i], x, TRUE) => RowOf(queue[i], x, TRUE) \/ x = r
                              /\ RowOf(queue'[i], x, FALSE) => RowOf(queue[i], x, FALSE)
  BY <1>7 DEF RowOf
<1>12. /\ \A x \in Ids(Rows(TRUE)) : x \in Ids(Rows(TRUE))'
       /\ \A x \in Ids(Rows(TRUE))' : x \in Ids(Rows(TRUE)) \/ x = r
       /\ \A x \in Ids(Rows(FALSE))' : x \in Ids(Rows(FALSE))
  <2>1. \A x \in Ids(Rows(TRUE)) : x \in Ids(Rows(TRUE))'
    BY <1>10, <1>11, Zenon
  <2>2. \A x \in Ids(Rows(TRUE))' : x \in Ids(Rows(TRUE)) \/ x = r
    BY <1>10, <1>11, Zenon
  <2>3. \A x \in Ids(Rows(FALSE))' : x \in Ids(Rows(FALSE))
    BY <1>10, <1>11, Zenon
  <2> QED BY <2>1, <2>2, <2>3, Zenon
<1>13. r \in Queued => r \in Ids(Rows(TRUE))'
  <2>1. SUFFICES ASSUME r \in Queued PROVE r \in Ids(Rows(TRUE))'
    BY Zenon
  <2>2. PICK i \in 1..n : queue[i].id = r
    BY <1>6, <2>1, Zenon DEF Queued, Ids
  <2>3. RowOf(queue'[i], r, TRUE)
    BY <1>7, <2>2 DEF RowOf
  <2> QED BY <1>10, <2>3, Zenon
<1>14. \A x \in Made : Gone(x) => Gone(x)'
  BY <1>4, Zenon DEF Gone
<1>15. /\ \A x \in Made : Seen(x) => Seen(x)'
       /\ \A o \in Sides : \A f : FrameOK(o, f) => FrameOK(o, f)'
       /\ \A o \in Sides : \A e : EventOK(o, e) => EventOK(o, e)'
  <2>1. Made \subseteq Made' /\ consumed \subseteq consumed' /\ ghosts \subseteq ghosts'
    BY <1>2, <1>4, Zenon
  <2>2. \A x \in Made : x \in Range(rd'.outbox) => x \in Range(rd.outbox)
    BY <1>4, Zenon
  <2>3. /\ \A x \in Queued : x \in Queued' \/ Gone(x)'
        /\ \A x \in Ids(Rows(TRUE)) : x \in Ids(Rows(TRUE))' \/ (x \notin Queued' /\ Gone(x)')
        /\ \A x \in Queued' : x \in Queued \cup ghosts' \/ ~Gone(x)
    BY <1>9, <1>12, Zenon
  <2> QED BY <1>14, <2>1, <2>2, <2>3, Persist, Zenon
<1>16. Ledger'
  <2>1. Queued' \subseteq Made /\ Ids(Rows(TRUE))' \subseteq consumed
    BY <1>3, <1>9, <1>12, <1>f, Zenon DEF Ledger
  <2>2. Len(queue') <= MaxQueue /\ \A i, j \in DOMAIN queue' : queue'[i].id = queue'[j].id => i = j
    BY <1>5, <1>6, <1>7, <1>8, <1>f, Zenon DEF Ledger
  <2>3. \A x \in Ids(Rows(FALSE))' \ ghosts' : x \in consumed => x \in Ids(Rows(FALSE)) \ ghosts
    BY <1>2, <1>12, Zenon
  <2> QED BY <1>15, <1>f, <2>1, <2>2, <2>3, RelayLedger, Zenon
<1>17. \A f \in Range(After(h)) : FrameOK(s, f)'
  <2>1. Acknowledged(r)'
    <3>1. CASE r \in Queued
      BY <1>13, <3>1, Zenon DEF Acknowledged
    <3>2. CASE r \notin Queued
      <4>1. Seen(r)
        BY <1>3, <1>f, Zenon DEF Ledger
      <4>2. r \in ghosts' \/ Gone(r)'
        BY <1>2, <1>3, <1>14, <3>2, <4>1, Zenon DEF Seen
      <4> QED BY <1>9, <3>2, <4>2, Zenon DEF Acknowledged
    <3> QED BY <3>1, <3>2, Zenon
  <2>2. PICK f : f = Notify(h.ack, r, r \in Queued)
    BY Zenon
  <2>3. f.type = "notify" /\ f.id = r /\ f \in AuthorFrames
    BY <1>3, <2>2 DEF Notify, AuthorFrames
  <2>4. f.type # "push" /\ f.type # "confirm"
    BY <2>3
  <2>5. FrameOK(s, f)'
    BY <1>3, <1>4, <1>f, <2>1, <2>3, <2>4, Zenon DEF FrameOK
  <2>6. After(h) = <<f>>
    <3>1. h.type # "receipt"
      BY <1>2
    <3> QED BY <1>1, <1>2, <2>2, <3>1, Zenon DEF After
  <2> QED BY <2>5, <2>6, RangeSingle, Zenon
<1> QED BY <1>2, <1>8, <1>15, <1>16, <1>17, Zenon

\* receipts::confirm_sender_received.
LEMMA DeleteOK ==
  ASSUME RInv, NEW s \in Sides, NEW h, FrameOK(s, h), NEW live \in BOOLEAN,
         HandleReadReceiptSentAck(s, h, live), UNCHANGED <<reader, author>>,
         Sending' \subseteq Sending, h.id \notin Sending'
  PROVE  /\ \A r \in Made : Seen(r) => Seen(r)'
         /\ \A o \in Sides : \A f : FrameOK(o, f) => FrameOK(o, f)'
         /\ \A o \in Sides : \A e : EventOK(o, e) => EventOK(o, e)'
         /\ queue' \in Seq(RowTypes) /\ Ledger' /\ events' = events
         /\ \A f \in Range(After(h)) : FrameOK(s, f)'
<1>f. Ledger /\ queue \in Seq(RowTypes)
  BY Zenon DEF RInv, Types
<1>1. PICK r : r = h.id
  BY Zenon
<1>2. PICK row : row = [id |-> r, acked |-> TRUE]
  BY Zenon
<1>3. h.type = "confirm" /\ queue' = Without(queue, row) /\ ghosts' = ghosts /\ events' = events
  BY <1>1, <1>2, Zenon DEF HandleReadReceiptSentAck
<1>4. row.id = r
  BY <1>2
<1>5. UNCHANGED <<rd, acks, marker, consumed, work, Made>>
  BY Zenon DEF reader, author, Made
<1>6. Gone(r)'
  <2>1. r \notin Range(rd.outbox)
    BY <1>1, <1>3, Zenon DEF FrameOK
  <2> QED BY <1>1, <1>5, <2>1, Zenon DEF Gone
<1>7. /\ queue' \in Seq(RowTypes) /\ Range(queue') \subseteq Range(queue)
      /\ \A x \in Range(queue) : x # row => x \in Range(queue')
  BY <1>3, <1>f, WithoutElem, Zenon
<1>8. /\ row \notin Range(queue')
      /\ \A i, j \in 1..Len(queue') : queue'[i] = queue'[j] => i = j
  <2>1. \A i, j \in 1..Len(queue) : queue[i] = queue[j] => i = j
    <3>1. DOMAIN queue = 1..Len(queue)
      BY <1>f
    <3> QED BY <1>f, <3>1, Zenon DEF Ledger
  <2>2. /\ row \notin Range(Without(queue, row))
        /\ \A i, j \in 1..Len(Without(queue, row)) :
             Without(queue, row)[i] = Without(queue, row)[j] => i = j
    BY <1>f, <2>1, WithoutOnce
  <2> QED BY <1>3, <2>2, Zenon
<1>9. \A x, y \in Range(queue) : x.id = y.id => x = y
  BY <1>f, Zenon DEF Ledger, Range
<1>10. Len(queue') <= MaxQueue /\ \A i, j \in DOMAIN queue' : queue'[i].id = queue'[j].id => i = j
  <2>1. Len(queue') <= Len(queue)
    <3>1. CASE row \in Range(queue)
      <4>1. Len(Without(queue, row)) = Len(queue) - 1
        BY <1>f, <3>1, WithoutAt, Zenon
      <4>2. Len(queue) \in Nat
        BY <1>f
      <4> QED BY <1>3, <4>1, <4>2
    <3>2. CASE row \notin Range(queue)
      <4>1. queue' = queue
        BY <1>3, <3>2, Zenon DEF Without
      <4>2. Len(queue) \in Nat
        BY <1>f
      <4> QED BY <4>1, <4>2
    <3> QED BY <3>1, <3>2, Zenon
  <2>2. Len(queue') <= MaxQueue
    <3>1. Len(queue) \in Nat /\ Len(queue') \in Nat /\ MaxQueue \in Nat /\ Len(queue) <= MaxQueue
      BY <1>7, <1>f, ReceiptsAssumption DEF Ledger
    <3> QED BY <2>1, <3>1
  <2>3. DOMAIN queue' = 1..Len(queue')
    BY <1>7
  <2>4. SUFFICES ASSUME NEW i \in DOMAIN queue', NEW j \in DOMAIN queue', queue'[i].id = queue'[j].id
                 PROVE  i = j
    BY <2>2, Zenon
  <2>5. queue'[i] \in Range(queue) /\ queue'[j] \in Range(queue)
    <3>1. queue'[i] \in Range(queue') /\ queue'[j] \in Range(queue')
      BY Zenon DEF Range
    <3> QED BY <1>7, <3>1, Zenon
  <2>6. queue'[i] = queue'[j]
    BY <1>9, <2>4, <2>5, Zenon
  <2> QED BY <1>8, <2>3, <2>6, Zenon
<1>11. /\ \A x : x \in Queued <=> \E y \in Range(queue) : y.id = x
       /\ \A x : x \in Queued' <=> \E y \in Range(queue') : y.id = x
       /\ \A x, b : x \in Ids(Rows(b)) <=> \E y \in Range(queue) : RowOf(y, x, b)
       /\ \A x, b : x \in Ids(Rows(b))' <=> \E y \in Range(queue') : RowOf(y, x, b)
  BY <1>7, <1>f, IdsOfRows, Zenon
<1>12. /\ \A x \in Queued' : x \in Queued
       /\ \A x \in Queued : x \in Queued' \/ x = r
  <2>1. \A x \in Queued' : x \in Queued
    BY <1>7, <1>11, Zenon
  <2>2. SUFFICES ASSUME NEW x \in Queued PROVE x \in Queued' \/ x = r
    BY <2>1, Zenon
  <2>3. PICK y \in Range(queue) : y.id = x
    BY <1>11, Zenon
  <2>4. y \in Range(queue') \/ y = row
    BY <1>7, Zenon
  <2> QED BY <1>4, <1>11, <2>3, <2>4, Zenon
<1>13. \A b : \A x \in Ids(Rows(b))' : x \in Ids(Rows(b))
  BY <1>7, <1>11, Zenon
<1>14. \A x \in Ids(Rows(TRUE)) : x \in Ids(Rows(TRUE))' \/ (x \notin Queued' /\ Gone(x)')
  <2>1. SUFFICES ASSUME NEW x \in Ids(Rows(TRUE)), x \notin Ids(Rows(TRUE))'
                 PROVE  x \notin Queued' /\ Gone(x)'
    BY Zenon
  <2>2. PICK y \in Range(queue) : RowOf(y, x, TRUE)
    BY <1>11, Zenon
  <2>3. y \notin Range(queue')
    BY <1>11, <2>1, <2>2, Zenon
  <2>4. y = row
    BY <1>7, <2>3, Zenon
  <2>5. x = r
    BY <1>4, <2>2, <2>4, Zenon DEF RowOf
  <2>6. r \notin Queued'
    <3>1. SUFFICES ASSUME NEW z \in Range(queue'), z.id = r PROVE FALSE
      BY <1>11, Zenon
    <3>2. z \in Range(queue)
      BY <1>7, Zenon
    <3>3. z = row
      BY <1>4, <1>9, <2>4, <3>1, <3>2, Zenon
    <3> QED BY <1>8, <3>3, Zenon
  <2> QED BY <1>6, <2>5, <2>6, Zenon
<1>15. /\ \A x \in Made : Seen(x) => Seen(x)'
       /\ \A o \in Sides : \A f : FrameOK(o, f) => FrameOK(o, f)'
       /\ \A o \in Sides : \A e : EventOK(o, e) => EventOK(o, e)'
  <2>1. Made \subseteq Made' /\ consumed \subseteq consumed' /\ ghosts \subseteq ghosts'
    BY <1>3, <1>5, Zenon
  <2>2. \A x \in Made : x \in Range(rd'.outbox) => x \in Range(rd.outbox)
    BY <1>5, Zenon
  <2>3. \A x \in Made : Gone(x) => Gone(x)'
    BY <1>5, Zenon DEF Gone
  <2>4. /\ \A x \in Queued : x \in Queued' \/ Gone(x)'
        /\ \A x \in Queued' : x \in Queued \cup ghosts' \/ ~Gone(x)
    BY <1>6, <1>12, Zenon
  <2> QED BY <1>14, <2>1, <2>2, <2>3, <2>4, Persist, Zenon
<1>16. Ledger'
  <2>1. Queued' \subseteq Made /\ Ids(Rows(TRUE))' \subseteq consumed
    BY <1>12, <1>13, <1>f, Zenon DEF Ledger
  <2>2. \A x \in Ids(Rows(FALSE))' \ ghosts' : x \in consumed => x \in Ids(Rows(FALSE)) \ ghosts
    BY <1>3, <1>13, Zenon
  <2> QED BY <1>10, <1>15, <1>f, <2>1, <2>2, RelayLedger, Zenon
<1>17. \A f \in Range(After(h)) : FrameOK(s, f)'
  <2>1. h.type # "receipt" /\ h.type # "ack"
    BY <1>3
  <2>2. After(h) = <<>>
    BY <2>1, Zenon DEF After
  <2> QED BY <2>2, RangeEmpty, Zenon
<1> QED BY <1>3, <1>7, <1>15, <1>16, <1>17, Zenon

\* An event e is appended for side s.
LEMMA OneMoreEvent ==
  ASSUME RInv, NEW s \in Sides, NEW e \in Events, EventOK(s, e), Deliver(s, e)
  PROVE  events' \in [Sides -> Seq(Events)] /\ \A o \in Sides : \A x \in Range(events'[o]) : EventOK(o, x)
<1>1. events \in [Sides -> Seq(Events)] /\ events[s] \in Seq(Events)
  BY NetFields, Zenon
<1>2. PICK w : w = Append(events[s], e)
  BY Zenon
<1>3. w \in Seq(Events) /\ Range(w) = Range(events[s]) \cup {e}
  BY <1>1, <1>2, RangeAppend
<1>4. events' = [events EXCEPT ![s] = w]
  BY <1>1, <1>2, Zenon DEF Deliver
<1>5. \A x \in Range(w) : EventOK(s, x)
  BY <1>3, FramesOK, Zenon
<1> QED BY <1>3, <1>4, <1>5, FewerEvents, Zenon

\* What is promised when there is no new event.
LEMMA NoEvent ==
  ASSUME RInv, UNCHANGED events
  PROVE  events' \in [Sides -> Seq(Events)] /\ \A o \in Sides : \A x \in Range(events'[o]) : EventOK(o, x)
BY NetFields, FramesOK, Zenon

\* The end of a handler tells the clients only what is true.
LEMMA TellOK ==
  ASSUME RInv, NEW s \in Sides, NEW h, FrameOK(s, h), NEW live \in BOOLEAN,
         PushReceipt(s, h, live) \/ AnswerSent(s, h, live) \/ NotifyReceiptSenders(s, h, live)
  PROVE  /\ UNCHANGED relay /\ After(h) = <<>>
         /\ events' \in [Sides -> Seq(Events)]
         /\ \A o \in Sides : \A e \in Range(events'[o]) : EventOK(o, e)
<1>f. Reader # Author /\ Sides = {Reader, Author} /\ Reader \in Sides /\ Author \in Sides
  BY SidesDiffer, Zenon
<1>1. h.type \in {"push", "answer", "notify"} /\ UNCHANGED relay
  BY Zenon DEF PushReceipt, AnswerSent, NotifyReceiptSenders
<1>2. After(h) = <<>>
  <2>1. h.type # "receipt" /\ h.type # "ack"
    BY <1>1
  <2> QED BY <2>1, Zenon DEF After
<1>3. PICK r : r = h.id
  BY Zenon
<1>4. r \in Made /\ r \in Nat
  <2>1. h \in Frames
    BY Zenon DEF FrameOK, Frames
  <2> QED BY <1>3, <2>1, FrameFields, Zenon DEF FrameOK
<1>5. /\ Sent(r) \in ReaderEvents /\ Sent(r).type = "sent" /\ Sent(r).id = r
      /\ Incoming(r) \in AuthorEvents /\ Incoming(r).type = "incoming" /\ Incoming(r).id = r
  BY <1>4, EventFields, Zenon
<1>6. r \in consumed => Sent(r) \in Events /\ EventOK(Reader, Sent(r))
  <2>1. Sent(r).type # "incoming" /\ Sent(r).type # "acked"
    BY <1>5
  <2> QED BY <1>4, <1>5, <2>1, Zenon DEF EventOK, Events
<1>7. CASE PushReceipt(s, h, live)
  <2>1. h.type = "push" /\ (Deliver(Author, Incoming(r)) \/ UNCHANGED events)
    BY <1>3, <1>7, Zenon DEF PushReceipt, SendTo
  <2>2. Incoming(r) \in Events /\ EventOK(Author, Incoming(r))
    <3>1. Incoming(r).type # "sent" /\ Incoming(r).type # "acked"
      BY <1>5
    <3>2. Seen(r)
      BY <1>3, <2>1, Zenon DEF FrameOK
    <3> QED BY <1>4, <1>5, <1>f, <3>1, <3>2, Zenon DEF EventOK, Events
  <2> QED BY <1>1, <1>2, <1>f, <2>1, <2>2, OneMoreEvent, NoEvent, Zenon
<1>8. CASE AnswerSent(s, h, live)
  <2>1. h.type = "answer" /\ (Deliver(s, Sent(r)) \/ UNCHANGED events)
    BY <1>3, <1>8, Zenon DEF AnswerSent
  <2>2. s = Reader
    <3>1. h \notin AuthorFrames
      BY <2>1 DEF AuthorFrames, AckFrames
    <3> QED BY <1>f, <3>1, Zenon DEF FrameOK
  <2>3. r \in consumed
    BY <1>3, <2>1, Zenon DEF FrameOK
  <2> QED BY <1>1, <1>2, <1>6, <1>f, <2>1, <2>2, <2>3, OneMoreEvent, NoEvent, Zenon
<1>9. CASE NotifyReceiptSenders(s, h, live)
  <2>1. PICK a : a = IF live THEN <<Acked(h.ack, r)>> ELSE <<>>
    BY Zenon
  <2>2. PICK notice \in {<<>>} \cup (IF h.found /\ online[Reader] THEN {<<Sent(r)>>} ELSE {}) :
          events' = [events EXCEPT ![Author] = @ \o a, ![Reader] = @ \o notice]
    BY <1>3, <1>9, <2>1, Zenon DEF NotifyReceiptSenders
  <2>3. h.type = "notify"
    BY <1>9, Zenon DEF NotifyReceiptSenders
  <2>4. r \in consumed /\ Acknowledged(r)
    BY <1>3, <2>3, Zenon DEF FrameOK
  <2>5. h.ack \in Nat
    <3>1. h \notin ReaderFrames
      BY <2>3 DEF ReaderFrames
    <3>2. h \in AuthorFrames
      BY <3>1, <1>f, Zenon DEF FrameOK
    <3> QED BY <3>2, FrameFields, Zenon
  <2>6. PICK m : m = Acked(h.ack, r)
    BY Zenon
  <2>7. m \in Events /\ EventOK(Author, m)
    <3>1. m \in AuthorEvents /\ m.type = "acked" /\ m.id = r
      BY <1>4, <2>5, <2>6 DEF Acked, AuthorEvents
    <3>2. m.type # "incoming"
      BY <3>1
    <3> QED BY <1>4, <1>f, <2>4, <3>1, <3>2, Zenon DEF EventOK, Events
  <2>8. a \in Seq(Events) /\ \A e \in Range(a) : EventOK(Author, e)
    <3>1. a \in {<<m>>, <<>>}
      BY <2>1, <2>6, Zenon
    <3>2. <<m>> \in Seq(Events) /\ <<>> \in Seq(Events)
      BY <2>7
    <3> QED BY <2>7, <3>1, <3>2, RangeSingle, RangeEmpty, Zenon
  <2>9. notice \in Seq(Events) /\ \A e \in Range(notice) : EventOK(Reader, e)
    <3>1. notice \in {<<Sent(r)>>, <<>>}
      BY <2>2, Zenon
    <3>2. Sent(r) \in Events /\ EventOK(Reader, Sent(r))
      BY <1>6, <2>4, Zenon
    <3>3. <<Sent(r)>> \in Seq(Events) /\ <<>> \in Seq(Events)
      BY <3>2
    <3> QED BY <3>1, <3>2, <3>3, RangeSingle, RangeEmpty, Zenon
  <2>10. events \in [Sides -> Seq(Events)] /\ events[Author] \in Seq(Events) /\ events[Reader] \in Seq(Events)
    BY NetFields, Zenon
  <2>11. PICK u, w : u = events[Author] \o a /\ w = events[Reader] \o notice
    BY Zenon
  <2>12. /\ u \in Seq(Events) /\ Range(u) = Range(events[Author]) \cup Range(a)
         /\ w \in Seq(Events) /\ Range(w) = Range(events[Reader]) \cup Range(notice)
    BY <2>8, <2>9, <2>10, <2>11, RangeConcat
  <2>13. events' = [events EXCEPT ![Author] = u, ![Reader] = w]
    BY <1>f, <2>2, <2>10, <2>11
  <2>14. events' \in [Sides -> Seq(Events)] /\ events'[Author] = u /\ events'[Reader] = w
    BY <1>f, <2>10, <2>12, <2>13
  <2>15. /\ \A e \in Range(events'[Author]) : EventOK(Author, e)
         /\ \A e \in Range(events'[Reader]) : EventOK(Reader, e)
    BY <1>f, <2>8, <2>9, <2>12, <2>14, FramesOK, Zenon
  <2> QED BY <1>1, <1>2, <1>f, <2>14, <2>15, Zenon
<1> QED BY <1>7, <1>8, <1>9, Zenon

\* Every step of a handler.
LEMMA HandlerOK ==
  ASSUME RInv, NEW s \in Sides, NEW h, FrameOK(s, h), NEW live \in BOOLEAN,
         HandlerStep(s, h, live), UNCHANGED <<reader, author>>,
         Sending' \subseteq Sending, live /\ h.type = "receipt" => h.id \in Sending,
         h.type = "confirm" => h.id \notin Sending'
  PROVE  /\ \A o \in Sides : \A f : FrameOK(o, f) => FrameOK(o, f)'
         /\ \A o \in Sides : \A e : EventOK(o, e) => EventOK(o, e)'
         /\ queue' \in Seq(RowTypes) /\ Ledger'
         /\ events' \in [Sides -> Seq(Events)]
         /\ \A o \in Sides : \A e \in Range(events'[o]) : EventOK(o, e)
         /\ \A f \in Range(After(h)) : FrameOK(s, f)'
<1>1. CASE HandleReadReceipt(s, h, live)
  <2>1. live => h.id \in Sending
    BY <1>1, Zenon DEF HandleReadReceipt
  <2>2. events' = events
    BY <1>1, Zenon DEF HandleReadReceipt
  <2> QED BY <1>1, <2>1, <2>2, EnqueueOK, NoEvent, Zenon
<1>2. CASE HandleReadReceiptAck(s, h, live)
  <2>1. events' = events
    BY <1>2, Zenon DEF HandleReadReceiptAck
  <2> QED BY <1>2, <2>1, AcknowledgeOK, NoEvent, Zenon
<1>3. CASE HandleReadReceiptSentAck(s, h, live)
  <2>1. events' = events /\ h.id \notin Sending'
    BY <1>3, Zenon DEF HandleReadReceiptSentAck
  <2> QED BY <1>3, <2>1, DeleteOK, NoEvent, Zenon
<1>4. CASE PushReceipt(s, h, live) \/ AnswerSent(s, h, live) \/ NotifyReceiptSenders(s, h, live)
  <2>1. /\ UNCHANGED relay /\ After(h) = <<>>
        /\ events' \in [Sides -> Seq(Events)]
        /\ \A o \in Sides : \A e \in Range(events'[o]) : EventOK(o, e)
    BY <1>4, TellOK, Zenon
  <2>2. Made' = Made /\ consumed' = consumed /\ rd' = rd
    BY Zenon DEF Made, reader, author
  <2>3. /\ Made \subseteq Made' /\ consumed \subseteq consumed'
        /\ \A r \in Made : r \in Range(rd'.outbox) => r \in Range(rd.outbox)
        /\ \A r \in Made : r \in Sending' => r \in Sending \cup Range(rd.outbox)
    BY <2>2, Zenon
  <2>4. /\ \A r \in Made : Seen(r) => Seen(r)'
        /\ \A o \in Sides : \A f : FrameOK(o, f) => FrameOK(o, f)'
        /\ \A o \in Sides : \A e : EventOK(o, e) => EventOK(o, e)'
    BY <2>1, <2>3, QuietRelay, Zenon
  <2>5. Ledger'
    <3>1. Ledger /\ UNCHANGED <<relay, author>>
      BY <2>1, Zenon DEF RInv
    <3>2. ReceiptNotLost'
      BY <2>2, <3>1, Zenon DEF Ledger, ReceiptNotLost
    <3> QED BY <2>3, <2>4, <3>1, <3>2, QuietLedger, Zenon
  <2>6. queue' \in Seq(RowTypes)
    BY <2>1, Zenon DEF RInv, Types, relay
  <2>7. \A f \in Range(After(h)) : FrameOK(s, f)'
    BY <2>1, RangeEmpty, Zenon
  <2> QED BY <2>1, <2>4, <2>5, <2>6, <2>7, Zenon
<1> QED BY <1>1, <1>2, <1>3, <1>4, Zenon DEF HandlerStep

\* A handler's step, with the reader's client and the author's as they were.
LEMMA HandlerStepOK ==
  ASSUME RInv, NEW s \in Sides, NEW h, FrameOK(s, h), NEW live \in BOOLEAN,
         HandlerStep(s, h, live), UNCHANGED <<reader, author, online, greeted>>,
         Sending' \subseteq Sending, live /\ h.type = "receipt" => h.id \in Sending,
         h.type = "confirm" => h.id \notin Sending',
         up' \in [Sides -> Seq(Frames)], old' \in [Sides -> SUBSET Seq(Frames)], Order',
         \A o \in Sides : \A f \in Range(up'[o]) : f \in Range(up[o]) \/ (o = s /\ f \in Range(After(h))),
         \A o \in Sides : \A q \in old'[o] :
           /\ q # <<>>
           /\ \A f \in Range(q) : FrameOK(o, f) \/ (o = s /\ f \in Range(After(h)))
  PROVE  RInv'
<1>1. /\ \A o \in Sides : \A f : FrameOK(o, f) => FrameOK(o, f)'
      /\ \A o \in Sides : \A e : EventOK(o, e) => EventOK(o, e)'
      /\ queue' \in Seq(RowTypes) /\ Ledger'
      /\ events' \in [Sides -> Seq(Events)]
      /\ \A o \in Sides : \A e \in Range(events'[o]) : EventOK(o, e)
      /\ \A f \in Range(After(h)) : FrameOK(s, f)'
  <2>1. UNCHANGED <<reader, author>>
    BY Zenon
  <2> QED BY <2>1, HandlerOK, Zenon
<1>2. UNCHANGED <<toCome, screen, rd, acks, marker, consumed, work>>
  BY Zenon DEF reader, author
<1>3. Types'
  <2>1. Types
    BY Zenon DEF RInv
  <2> QED BY <1>1, <1>2, <2>1, Zenon DEF Types
<1>4. ReadingOK(rd, toCome)'
  BY <1>2, Zenon DEF RInv, ReadingOK
<1>5. \A o \in Sides : \A f \in Range(up'[o]) : FrameOK(o, f) \/ FrameOK(o, f)'
  BY <1>1, FramesOK, Zenon
<1>6. \A o \in Sides : \A q \in old'[o] : q # <<>> /\ \A f \in Range(q) : FrameOK(o, f) \/ FrameOK(o, f)'
  BY <1>1, Zenon
<1> QED BY <1>1, <1>3, <1>4, <1>5, <1>6, Step, Zenon

\* A step of the handler of the client's connection.
LEMMA HandleOK ==
  ASSUME RInv, NEW s \in Sides, Handle(s)
  PROVE  RInv'
<1>f. /\ up \in [Sides -> Seq(Frames)] /\ up[s] \in Seq(Frames) /\ up[s] # <<>>
      /\ ConfirmedLast(up[Reader]) /\ Reader \in Sides /\ Reader # Author /\ Sides = {Reader, Author}
      /\ \A q \in old[Reader] : \A f \in Range(q) : f.type = "confirm" => f.id \notin Sending
  BY NetFields, SidesDiffer, Zenon DEF Handle
<1>1. PICK h : h = Head(up[s])
  BY Zenon
<1>2. PICK t : t = Tail(up[s])
  BY Zenon
<1>3. PICK a : a = After(h)
  BY Zenon
<1>4. /\ HandlerStep(s, h, TRUE) /\ up' = [up EXCEPT ![s] = a \o t]
      /\ UNCHANGED <<reader, author, online, greeted, old>>
  BY <1>1, <1>2, <1>3, <1>f, Zenon DEF Handle
<1>5. t \in Seq(Frames) /\ Range(t) \subseteq Range(up[s]) /\ h \in Range(up[s])
  BY <1>1, <1>2, <1>f, RangeTail
<1>6. h \in Frames /\ FrameOK(s, h)
  <2>1. FrameOK(s, h)
    BY <1>5, FramesOK, Zenon
  <2> QED BY <2>1, Zenon DEF FrameOK, Frames
<1>7. a \in Seq(Frames) /\ \A f \in Range(a) : f.type # "receipt" /\ f.type # "confirm"
  BY <1>3, <1>6, AfterFrames, Zenon
<1>8. PICK w : w = a \o t
  BY Zenon
<1>9. w \in Seq(Frames) /\ Range(w) = Range(a) \cup Range(t)
  BY <1>5, <1>7, <1>8, RangeConcat
<1>10. up' \in [Sides -> Seq(Frames)] /\ up'[s] = w /\ \A o \in Sides \ {s} : up'[o] = up[o]
  <2>1. up' = [up EXCEPT ![s] = w]
    BY <1>4, <1>8, Zenon
  <2> QED BY <1>9, <1>f, <2>1
<1>11. \A o \in Sides : \A f \in Range(up'[o]) : f \in Range(up[o]) \/ (o = s /\ f \in Range(a))
  <2>1. SUFFICES ASSUME NEW o \in Sides, NEW f \in Range(up'[o])
                 PROVE  f \in Range(up[o]) \/ (o = s /\ f \in Range(a))
    BY Zenon
  <2>2. CASE o = s
    <3>1. f \in Range(w)
      BY <1>10, <2>2, Zenon
    <3> QED BY <1>5, <1>9, <2>2, <3>1, Zenon
  <2>3. CASE o # s
    BY <1>10, <2>3, Zenon
  <2> QED BY <2>2, <2>3, Zenon
<1>12. Sending' \subseteq Sending
  <2>1. SUFFICES ASSUME NEW f \in Range(up'[Reader]), f.type = "receipt" PROVE f.id \in Sending
    BY Zenon DEF Sending
  <2>2. f \in Range(up[Reader])
    BY <1>7, <1>11, <1>f, <2>1, Zenon
  <2> QED BY <2>1, <2>2, Zenon DEF Sending
<1>13. h.type \in {"receipt", "confirm"} => s = Reader
  <2>1. SUFFICES ASSUME h.type \in {"receipt", "confirm"} PROVE s = Reader
    BY Zenon
  <2>2. h \notin AuthorFrames
    BY <2>1 DEF AuthorFrames, AckFrames
  <2> QED BY <1>6, <1>f, <2>2, Zenon DEF FrameOK
<1>14. h.type = "receipt" => h.id \in Sending
  BY <1>5, <1>13, Zenon DEF Sending
<1>15. s = Reader =>
         ConfirmedLast(t) /\ \A f \in Range(t) : h.type = "confirm" /\ f.type = "receipt" => h.id # f.id
  <2>1. SUFFICES ASSUME s = Reader
                 PROVE  ConfirmedLast(t) /\ \A f \in Range(t) : h.type = "confirm" /\ f.type = "receipt" => h.id # f.id
    BY Zenon
  <2> QED BY <1>1, <1>2, <1>f, <2>1, ConfirmedLastTail, Zenon
<1>16. h.type = "confirm" => h.id \notin Sending'
  <2>1. SUFFICES ASSUME h.type = "confirm", NEW f \in Range(up'[Reader]), f.type = "receipt" PROVE h.id # f.id
    BY Zenon DEF Sending
  <2>2. s = Reader
    BY <1>13, <2>1, Zenon
  <2>3. f \in Range(w)
    BY <1>10, <2>1, <2>2, Zenon
  <2>4. f \in Range(t)
    BY <1>7, <1>9, <2>1, <2>3, Zenon
  <2> QED BY <1>15, <2>1, <2>2, <2>4, Zenon
<1>17. Order'
  <2>1. ConfirmedLast(up'[Reader])
    <3>1. CASE s = Reader
      <4>1. ConfirmedLast(a)
        BY <1>7, NoConfirm, Zenon
      <4>2. \A f \in Range(a), g \in Range(t) : f.type = "confirm" /\ g.type = "receipt" => f.id # g.id
        BY <1>7, Zenon
      <4>3. ConfirmedLast(a \o t)
        BY <1>5, <1>7, <1>15, <3>1, <4>1, <4>2, ConfirmedLastConcat, Zenon
      <4> QED BY <1>8, <1>10, <3>1, <4>3, Zenon
    <3>2. CASE s # Reader
      BY <1>10, <1>f, <3>2, Zenon
    <3> QED BY <3>1, <3>2, Zenon
  <2>2. \A q \in old'[Reader] : \A f \in Range(q) : f.type = "confirm" => f.id \notin Sending'
    BY <1>4, <1>12, <1>f, Zenon
  <2> QED BY <2>1, <2>2, Zenon DEF Order
<1>18. /\ old' \in [Sides -> SUBSET Seq(Frames)]
       /\ \A o \in Sides : \A q \in old'[o] :
            /\ q # <<>>
            /\ \A f \in Range(q) : FrameOK(o, f) \/ (o = s /\ f \in Range(a))
  BY <1>4, NetFields, FramesOK, Zenon
<1> QED BY <1>3, <1>4, <1>6, <1>10, <1>11, <1>12, <1>14, <1>16, <1>17, <1>18, HandlerStepOK, Zenon

\* A step of the handler of an abandoned connection.
LEMMA HandleOldOK ==
  ASSUME RInv, NEW s \in Sides, HandleOld(s)
  PROVE  RInv'
<1>f. /\ old \in [Sides -> SUBSET Seq(Frames)] /\ up \in [Sides -> Seq(Frames)]
      /\ ConfirmedLast(up[Reader]) /\ Reader \in Sides /\ Reader # Author /\ Sides = {Reader, Author}
      /\ \A q \in old[Reader] : \A f \in Range(q) : f.type = "confirm" => f.id \notin Sending
  BY NetFields, SidesDiffer, Zenon
<1>1. PICK q \in old[s] : /\ HandlerStep(s, Head(q), FALSE)
                          /\ old' = [old EXCEPT ![s] = Add(@ \ {q}, After(Head(q)) \o Tail(q))]
  BY Zenon DEF HandleOld
<1>2. UNCHANGED <<reader, author, online, greeted, up>>
  BY Zenon DEF HandleOld
<1>3. PICK h : h = Head(q)
  BY Zenon
<1>4. PICK t : t = Tail(q)
  BY Zenon
<1>5. PICK a : a = After(h)
  BY Zenon
<1>6. q \in Seq(Frames) /\ q # <<>> /\ \A f \in Range(q) : FrameOK(s, f)
  BY FramesOK, Zenon
<1>7. t \in Seq(Frames) /\ Range(t) \subseteq Range(q) /\ h \in Range(q)
  BY <1>3, <1>4, <1>6, RangeTail
<1>8. h \in Frames /\ FrameOK(s, h)
  <2>1. FrameOK(s, h)
    BY <1>6, <1>7, Zenon
  <2> QED BY <2>1, Zenon DEF FrameOK, Frames
<1>9. a \in Seq(Frames) /\ \A f \in Range(a) : f.type # "receipt" /\ f.type # "confirm"
  BY <1>5, <1>8, AfterFrames, Zenon
<1>10. PICK w : w = a \o t
  BY Zenon
<1>11. w \in Seq(Frames) /\ Range(w) = Range(a) \cup Range(t)
  BY <1>7, <1>9, <1>10, RangeConcat
<1>12. PICK O : O = Add(old[s] \ {q}, w)
  BY Zenon
<1>13. O \subseteq Seq(Frames) /\ \A p \in O : p \in old[s] \/ (p = w /\ w # <<>>)
  <2>1. old[s] \subseteq Seq(Frames)
    BY <1>f, Zenon
  <2> QED BY <1>11, <1>12, <2>1, Zenon DEF Add
<1>14. old' \in [Sides -> SUBSET Seq(Frames)] /\ old'[s] = O /\ \A o \in Sides \ {s} : old'[o] = old[o]
  <2>1. old' = [old EXCEPT ![s] = O]
    BY <1>1, <1>3, <1>4, <1>5, <1>10, <1>12, <1>f, Zenon
  <2> QED BY <1>13, <1>f, <2>1
<1>15. Sending' = Sending
  BY <1>2, Zenon DEF Sending
<1>16. h.type = "confirm" => h.id \notin Sending'
  <2>1. SUFFICES ASSUME h.type = "confirm" PROVE h.id \notin Sending
    BY <1>15, Zenon
  <2>2. h \notin AuthorFrames
    BY <2>1 DEF AuthorFrames, AckFrames
  <2>3. s = Reader
    BY <1>8, <1>f, <2>2, Zenon DEF FrameOK
  <2> QED BY <1>7, <1>f, <2>1, <2>3, Zenon
<1>17. \A o \in Sides : \A p \in old'[o] : p \in old[o] \/ (o = s /\ p = w /\ w # <<>>)
  <2>1. SUFFICES ASSUME NEW o \in Sides, NEW p \in old'[o] PROVE p \in old[o] \/ (o = s /\ p = w /\ w # <<>>)
    BY Zenon
  <2>2. CASE o = s
    <3>1. p \in O
      BY <1>14, <2>2, Zenon
    <3> QED BY <1>13, <2>2, <3>1, Zenon
  <2>3. CASE o # s
    BY <1>14, <2>3, Zenon
  <2> QED BY <2>2, <2>3, Zenon
<1>18. \A o \in Sides : \A p \in old'[o] :
         /\ p # <<>>
         /\ \A f \in Range(p) : FrameOK(o, f) \/ (o = s /\ f \in Range(a))
  <2>1. SUFFICES ASSUME NEW o \in Sides, NEW p \in old'[o]
                 PROVE  p # <<>> /\ \A f \in Range(p) : FrameOK(o, f) \/ (o = s /\ f \in Range(a))
    BY Zenon
  <2>2. CASE p \in old[o]
    BY <2>2, FramesOK, Zenon
  <2>3. CASE o = s /\ p = w /\ w # <<>>
    <3>1. \A f \in Range(w) : FrameOK(s, f) \/ f \in Range(a)
      BY <1>6, <1>7, <1>11, Zenon
    <3> QED BY <2>3, <3>1, Zenon
  <2> QED BY <1>17, <2>2, <2>3, Zenon
<1>19. Order'
  <2>1. \A p \in old'[Reader] : \A f \in Range(p) : f.type = "confirm" => f.id \notin Sending
    <3>1. SUFFICES ASSUME NEW p \in old'[Reader], NEW f \in Range(p), f.type = "confirm" PROVE f.id \notin Sending
      BY Zenon
    <3>2. CASE p \in old[Reader]
      BY <1>f, <3>1, <3>2, Zenon
    <3>3. CASE Reader = s /\ p = w
      <4>1. f \in Range(t)
        BY <1>9, <1>11, <3>1, <3>3, Zenon
      <4> QED BY <1>7, <1>f, <3>1, <3>3, <4>1, Zenon
    <3> QED BY <1>17, <1>f, <3>2, <3>3, Zenon
  <2>2. ConfirmedLast(up'[Reader])
    BY <1>2, <1>f, Zenon
  <2> QED BY <1>15, <2>1, <2>2, Zenon DEF Order
<1>20. /\ up' \in [Sides -> Seq(Frames)] /\ Sending' \subseteq Sending
       /\ \A o \in Sides : \A f \in Range(up'[o]) : f \in Range(up[o]) \/ (o = s /\ f \in Range(a))
       /\ UNCHANGED <<reader, author, online, greeted>>
  BY <1>2, <1>15, <1>f, Zenon
<1>21. HandlerStep(s, h, FALSE) /\ FALSE \in BOOLEAN
  BY <1>1, <1>3, Zenon
<1> QED BY <1>5, <1>8, <1>14, <1>16, <1>18, <1>19, <1>20, <1>21, HandlerStepOK, Zenon

-----------------------------------------------------------------------------
(* Every behaviour *)

LEMMA InitRInv == Init => RInv
<1>1. SUFFICES ASSUME Init PROVE RInv
  BY Zenon
<1>2. /\ rd.unread = {} /\ rd.outbox = <<>> /\ rd.covers = <<>> /\ toCome = Msgs
      /\ acks.outbox = <<>> /\ marker.pending = {} /\ marker.stored = {} /\ work.stage = "idle"
      /\ consumed = {} /\ queue = <<>> /\ ghosts = {}
  BY <1>1 DEF Init, Idle
<1>3. /\ up[Reader] = <<>> /\ Reader \in Sides
      /\ \A s \in Sides : up[s] = <<>> /\ old[s] = {} /\ events[s] = <<>>
  BY <1>1, SidesDiffer, Zenon DEF Init
<1>4. Range(<<>>) = {} /\ DOMAIN queue = {} /\ Len(queue) = 0 /\ Len(rd.outbox) = 0 /\ Len(rd.covers) = 0
  BY <1>2, RangeEmpty
<1>5. Queued = {} /\ Ids(Rows(TRUE)) = {} /\ Ids(Rows(FALSE)) = {}
  BY <1>4, Zenon DEF Queued, Ids, Rows
<1>6. Made = {} /\ 1..Len(rd.covers) = {} /\ 1..Len(rd.outbox) = {}
  BY <1>4 DEF Made
<1>7. Types
  <2>1. toCome \subseteq Msgs /\ screen \in {"none", "this", "other"}
    BY <1>1 DEF Init
  <2>2. acks \in [outbox : Seq(AckFrames), made : Nat] /\ marker \in [pending : SUBSET Nat, stored : SUBSET Nat]
    BY <1>1 DEF Init
  <2>3. work \in [stage : {"idle", "store", "ack"}, id : Nat]
    BY <1>1 DEF Init, Idle
  <2>4. online \in [Sides -> BOOLEAN] /\ greeted \in [Sides -> BOOLEAN]
    BY <1>1 DEF Init
  <2>5. up \in [Sides -> Seq(Frames)]
    BY <1>1 DEF Init
  <2>6. old \in [Sides -> SUBSET Seq(Frames)]
    BY <1>1 DEF Init
  <2>7. events \in [Sides -> Seq(Events)] /\ queue \in Seq(RowTypes)
    BY <1>1 DEF Init
  <2> QED BY <2>1, <2>2, <2>3, <2>4, <2>5, <2>6, <2>7, Zenon DEF Types
<1>8. ReadingOK(rd, toCome)
  <2>1. rd \in [unread : SUBSET Msgs, outbox : Seq(Nat), covers : Seq(SUBSET Msgs)]
    BY <1>1 DEF Init
  <2>2. Range(rd.outbox) = {}
    BY <1>2, <1>4, Zenon
  <2> QED BY <1>2, <1>6, <2>1, <2>2, Zenon DEF ReadingOK
<1>9. Ledger
  <2>1. ReceiptNotLost /\ AckPossible
    BY <1>5, <1>6, Zenon DEF ReceiptNotLost, AckPossible
  <2>2. Len(queue) <= MaxQueue
    BY <1>4, ReceiptsAssumption
  <2>3. Range(acks.outbox) = {}
    BY <1>2, <1>4, Zenon
  <2> QED BY <1>2, <1>4, <1>5, <1>6, <2>1, <2>2, <2>3, Zenon DEF Ledger
<1>10. Transit
  BY <1>3, <1>4, Zenon DEF Transit
<1>11. Order
  <2>1. DOMAIN up[Reader] = {}
    BY <1>3
  <2> QED BY <1>3, <2>1, Zenon DEF Order, ConfirmedLast
<1> QED BY <1>7, <1>8, <1>9, <1>10, <1>11, Zenon DEF RInv

\* RInv speaks of the variables only.
LEMMA StutterRInv == RInv /\ UNCHANGED vars => RInv'
<1>1. SUFFICES ASSUME RInv, UNCHANGED vars PROVE RInv'
  BY Zenon
<1>2. UNCHANGED <<reader, author, online, greeted, up, old, events, relay>>
  BY <1>1, Zenon DEF vars, net
<1>3. greeted' \in [Sides -> BOOLEAN] /\ events' \in [Sides -> Seq(Events)]
      /\ \A o \in Sides : \A x \in Range(events'[o]) : EventOK(o, x)
  BY <1>1, <1>2, NetFields, NoEvent, Zenon
<1> QED BY <1>1, <1>2, <1>3, ClientsKept, NetKept, NetStep, Zenon

LEMMA NextRInv == RInv /\ [Next]_vars => RInv'
<1>1. SUFFICES ASSUME RInv, Next PROVE RInv'
  BY StutterRInv, Zenon
<1>2. ASSUME NEW m \in Msgs, Arrive(m) PROVE RInv'
  BY <1>1, <1>2, ReaderReads, Zenon
<1>3. ASSUME NEW S \in SUBSET toCome, ArrivePage(S) PROVE RInv'
  BY <1>1, <1>3, ReaderReads, Zenon
<1>4. ASSUME NEW at \in {"this", "other"}, OpenConversation(at) PROVE RInv'
  BY <1>1, <1>4, ReaderReads, Zenon
<1>5. CASE HandleReceiptSent
  BY <1>1, <1>5, ReaderAnswers, Zenon
<1>6. CASE TakeReceipt \/ ConfirmInboundStored \/ QueueReadReceiptAck \/ HandleAcked
  BY <1>1, <1>6, TakeOK, ConfirmOK, QueueAckOK, AckedOK, Zenon
<1>7. ASSUME NEW s \in Sides, HandleAuthed(s) PROVE RInv'
  <2>1. s = Reader \/ s = Author
    BY SidesDiffer, Zenon
  <2>2. CASE s = Reader
    BY <1>1, <1>7, <2>2, ReaderAnswers, Zenon
  <2>3. CASE s = Author
    BY <1>1, <1>7, <2>3, AuthorAuthedOK, Zenon
  <2> QED BY <2>1, <2>2, <2>3, Zenon
<1>8. ASSUME NEW s \in Sides, Connect(s) \/ Disconnect(s) \/ Crash(s) \/ Greet(s) \/ ClientFault(s)
      PROVE  RInv'
  BY <1>1, <1>8, ConnectOK, DisconnectOK, CrashOK, GreetOK, ClientFaultOK, Zenon
<1>9. ASSUME NEW s \in Sides, Handle(s) \/ HandleOld(s) \/ RelayFault(s) PROVE RInv'
  BY <1>1, <1>9, HandleOK, HandleOldOK, RelayFaultOK, Zenon
<1> QED BY <1>1, <1>2, <1>3, <1>4, <1>5, <1>6, <1>7, <1>8, <1>9, Zenon DEF Next

\* A handler deletes only the row of a receipt the reader has dropped.
LEMMA HandlerDeletes ==
  ASSUME queue \in Seq(RowTypes), NEW s \in Sides, NEW h, FrameOK(s, h), NEW live \in BOOLEAN,
         HandlerStep(s, h, live), NEW r \in Queued
  PROVE  r \in Queued' \/ r \notin Range(rd.outbox)
<1>1. PICK i \in DOMAIN queue : queue[i].id = r
  BY Zenon DEF Queued, Ids
<1>2. CASE HandleReadReceipt(s, h, live)
  <2>1. PICK row : row = [id |-> h.id, acked |-> FALSE]
    BY Zenon
  <2>2. queue' = Append(queue, row) \/ queue' = queue
    BY <1>2, <2>1, Zenon DEF HandleReadReceipt
  <2>3. i \in DOMAIN queue' /\ queue'[i] = queue[i]
    <3>1. CASE queue' = queue
      BY <3>1, Zenon
    <3>2. CASE queue' = Append(queue, row)
      <4>1. i \in 1..Len(queue) /\ Len(queue) \in Nat
        OBVIOUS
      <4>2. DOMAIN queue' = 1..(Len(queue) + 1) /\ queue'[i] = queue[i]
        BY <3>2, <4>1
      <4> QED BY <4>1, <4>2
    <3> QED BY <2>2, <3>1, <3>2, Zenon
  <2> QED BY <1>1, <2>3, Zenon DEF Queued, Ids
<1>3. CASE HandleReadReceiptAck(s, h, live)
  <2>1. queue' = Acknowledge(h.id)
    BY <1>3, Zenon DEF HandleReadReceiptAck
  <2>2. queue[i] \in RowTypes
    OBVIOUS
  <2>3. i \in DOMAIN queue' /\ queue'[i] = IF queue[i].id = h.id THEN [queue[i] EXCEPT !.acked = TRUE] ELSE queue[i]
    BY <2>1, Zenon DEF Acknowledge
  <2>4. queue'[i].id = queue[i].id
    BY <2>2, <2>3 DEF RowTypes
  <2> QED BY <1>1, <2>3, <2>4, Zenon DEF Queued, Ids
<1>4. CASE HandleReadReceiptSentAck(s, h, live)
  <2>1. PICK row : row = [id |-> h.id, acked |-> TRUE]
    BY Zenon
  <2>2. h.type = "confirm" /\ queue' = Without(queue, row)
    BY <1>4, <2>1, Zenon DEF HandleReadReceiptSentAck
  <2>3. queue' \in Seq(RowTypes) /\ \A x \in Range(queue) : x # row => x \in Range(queue')
    BY <2>2, WithoutElem, Zenon
  <2>4. CASE queue[i] = row
    <3>1. r = h.id
      BY <1>1, <2>1, <2>4
    <3> QED BY <2>2, <3>1, Zenon DEF FrameOK
  <2>5. CASE queue[i] # row
    <3>1. queue[i] \in Range(queue')
      BY <2>3, <2>5, Zenon DEF Range
    <3> QED BY <1>1, <3>1, Zenon DEF Range, Queued, Ids
  <2> QED BY <2>4, <2>5, Zenon
<1>5. CASE PushReceipt(s, h, live) \/ AnswerSent(s, h, live) \/ NotifyReceiptSenders(s, h, live)
  <2>1. queue' = queue
    BY <1>5, Zenon DEF PushReceipt, AnswerSent, NotifyReceiptSenders, relay
  <2> QED BY <2>1, Zenon DEF Queued, Ids
<1> QED BY <1>2, <1>3, <1>4, <1>5, Zenon DEF HandlerStep

\* Nothing else deletes a row.
LEMMA NextDeletes ==
  RInv /\ [Next]_vars => \A r \in Queued : r \in Queued' \/ r \notin Range(rd.outbox)
<1>1. SUFFICES ASSUME RInv, [Next]_vars, NEW r \in Queued PROVE r \in Queued' \/ r \notin Range(rd.outbox)
  BY Zenon
<1>q. queue \in Seq(RowTypes)
  BY <1>1, Zenon DEF RInv, Types
<1>2. CASE UNCHANGED relay
  BY <1>2, Zenon DEF relay, Queued, Ids
<1>3. CASE UNCHANGED vars
  BY <1>2, <1>3, Zenon DEF vars
<1>4. ASSUME NEW m \in Msgs, Arrive(m) PROVE UNCHANGED relay
  BY <1>4, Zenon DEF Arrive
<1>5. ASSUME NEW S \in SUBSET toCome, ArrivePage(S) PROVE UNCHANGED relay
  BY <1>5, Zenon DEF ArrivePage
<1>6. ASSUME NEW at \in {"this", "other"}, OpenConversation(at) PROVE UNCHANGED relay
  BY <1>6, Zenon DEF OpenConversation
<1>7. CASE HandleReceiptSent \/ TakeReceipt \/ ConfirmInboundStored \/ QueueReadReceiptAck \/ HandleAcked
  <2>1. UNCHANGED relay
    BY <1>7, Zenon DEF HandleReceiptSent, TakeReceipt, ConfirmInboundStored, QueueReadReceiptAck, HandleAcked
  <2> QED BY <1>2, <2>1, Zenon
<1>8. ASSUME NEW s \in Sides, Connect(s) \/ Disconnect(s) \/ Crash(s) \/ Greet(s) PROVE UNCHANGED relay
  BY <1>8, Zenon DEF Connect, Disconnect, Crash, Greet
<1>9. ASSUME NEW s \in Sides, HandleAuthed(s) \/ ClientFault(s) \/ RelayFault(s) PROVE UNCHANGED relay
  BY <1>9, Zenon DEF HandleAuthed, ClientFault, RelayFault
<1>10. ASSUME NEW s \in Sides, Handle(s) PROVE r \in Queued' \/ r \notin Range(rd.outbox)
  <2>1. HandlerStep(s, Head(up[s]), TRUE) /\ up[s] # <<>>
    BY <1>10, Zenon DEF Handle
  <2>2. up[s] \in Seq(Frames)
    BY <1>1, NetFields, Zenon
  <2>3. Head(up[s]) \in Range(up[s])
    BY <2>1, <2>2, RangeTail
  <2>4. FrameOK(s, Head(up[s]))
    BY <1>1, <2>3, FramesOK, Zenon
  <2>5. TRUE \in BOOLEAN
    BY Zenon
  <2> QED BY <1>1, <1>q, <2>1, <2>4, <2>5, HandlerDeletes, Zenon
<1>11. ASSUME NEW s \in Sides, HandleOld(s) PROVE r \in Queued' \/ r \notin Range(rd.outbox)
  <2>1. PICK q \in old[s] : HandlerStep(s, Head(q), FALSE)
    BY <1>11, Zenon DEF HandleOld
  <2>2. q \in Seq(Frames) /\ q # <<>> /\ \A h \in Range(q) : FrameOK(s, h)
    BY <1>1, FramesOK, Zenon
  <2>3. Head(q) \in Range(q)
    BY <2>2, RangeTail
  <2>4. FALSE \in BOOLEAN
    BY Zenon
  <2> QED BY <1>1, <1>q, <2>1, <2>2, <2>3, <2>4, HandlerDeletes, Zenon
<1> QED BY <1>1, <1>2, <1>3, <1>4, <1>5, <1>6, <1>7, <1>8, <1>9, <1>10, <1>11, Zenon DEF Next

\* RInv holds the properties of Receipts.
LEMMA RInvImplies == RInv => TypeOK /\ ReceiptNotLost /\ ReadOnce /\ AckPossible
<1>1. SUFFICES ASSUME RInv PROVE TypeOK /\ ReceiptNotLost /\ ReadOnce /\ AckPossible
  BY Zenon
<1>2. ReceiptNotLost /\ AckPossible
  BY <1>1, Zenon DEF RInv, Ledger
<1>3. ReadOnce
  BY <1>1, Zenon DEF RInv, ReadingOK, ReadOnce, Made
<1>4. rd.unread \subseteq Msgs \ toCome /\ Range(rd.outbox) \subseteq Made
  <2>1. rd.unread \subseteq Msgs
    BY <1>1 DEF RInv, ReadingOK
  <2> QED BY <1>1, <2>1, Zenon DEF RInv, ReadingOK, Made
<1>5. \A r \in Made : rd.covers[r] \subseteq Msgs /\ rd.covers[r] # {}
  <2>1. SUFFICES ASSUME NEW r \in Made PROVE rd.covers[r] \subseteq Msgs /\ rd.covers[r] # {}
    BY Zenon
  <2>2. rd.covers \in Seq(SUBSET Msgs)
    BY <1>1 DEF RInv, ReadingOK
  <2>3. rd.covers[r] \subseteq Msgs
    BY <2>2 DEF Made
  <2> QED BY <1>1, <2>3, Zenon DEF RInv, ReadingOK, Made
<1>6. /\ toCome \subseteq Msgs /\ screen \in {"none", "this", "other"}
      /\ online \in [Sides -> BOOLEAN] /\ greeted \in [Sides -> BOOLEAN]
  BY <1>1, Zenon DEF RInv, Types
<1>7. /\ marker.pending \cap marker.stored = {} /\ marker.pending \cup marker.stored \subseteq consumed
      /\ consumed \subseteq Made /\ Queued \subseteq Made
      /\ Len(queue) <= MaxQueue
      /\ \A i, j \in DOMAIN queue : queue[i].id = queue[j].id => i = j
  BY <1>1, Zenon DEF RInv, Ledger
<1> QED BY <1>2, <1>3, <1>4, <1>5, <1>6, <1>7, Zenon DEF TypeOK

-----------------------------------------------------------------------------
(* The theorems *)

\* The inductive invariant holds in every state of the clients, the relay and
\* what is on its way between them.
THEOREM RInvHolds == Spec => []RInv
BY InitRInv, NextRInv, PTL DEF Spec

\* TypeOK in every reachable state: receipts, rows and markers have their
\* types, and receipts::enqueue keeps the relay's rows distinct and bounded.
THEOREM TypeCorrect == Spec => []TypeOK
BY RInvHolds, RInvImplies, PTL

\* ReceiptNotLost in every reachable state: confirm_read_receipt_sent never
\* drops a receipt the author has not decrypted.
THEOREM ReceiptsNeverLost == Spec => []ReceiptNotLost
BY RInvHolds, RInvImplies, PTL

\* ReadOnce in every reachable state: flush_read_receipts and the resending of
\* the outbox never report a message twice.
THEOREM MessagesReadOnce == Spec => []ReadOnce
BY RInvHolds, RInvImplies, PTL

\* AckPossible in every reachable state: confirm_acked never drops the marker
\* of a receipt the relay still offers to the author.
THEOREM OfferedCanBeAcked == Spec => []AckPossible
BY RInvHolds, RInvImplies, PTL

\* DeletedOnlyWhenDropped in every behaviour: confirm_sender_received deletes
\* no row whose receipt the reader would send again.
THEOREM DeletionFollowsDrop == Spec => DeletedOnlyWhenDropped
<1>1. RInv /\ [Next]_vars => [\A r \in Queued : r \in Queued' \/ r \notin Range(rd.outbox)]_vars
  BY NextDeletes, Zenon
<1> QED BY <1>1, RInvHolds, PTL DEF Spec, DeletedOnlyWhenDropped

=============================================================================
