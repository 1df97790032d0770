------------------------- MODULE ConnectionsSafety -------------------------
(* Connections: only the owner of a name is let in under it, and a live     *)
(* connection is the registered one, for any number of clients, connections *)
(* and starts and for every capacity of the outbound channel.               *)
EXTENDS Connections, ChannelLemmas, TLAPS

\* The states of a task are distinct.
LEMMA TaskStates ==
  /\ Closed \in Tasks /\ Reading \in Tasks /\ Entering \in Tasks
  /\ Closed # Reading /\ Closed # Entering /\ Reading # Entering
  /\ \A r \in Replies : /\ Responding(r) \in Tasks
                        /\ Responding(r) \notin {Closed, Reading, Entering}
                        /\ Responding(r) = Responding("success") => r = "success"
                        /\ Responding(r).st = "respond" /\ Responding(r).reply = r
  /\ \A n \in 1 .. MaxPages :
       /\ Delivering(n) \in Tasks
       /\ Delivering(n) \notin {Closed, Reading, Entering}
       /\ Delivering(n) # Responding("success")
  BY ConnectionsAssumption, Zenon
     DEF Closed, Reading, Entering, Responding, Delivering, Tasks, Replies

\* The requests.
LEMMA RequestTypes ==
  /\ Hello \in Requests /\ Answer \in Requests
  /\ \A k \in Keys : /\ Register(k) \in Requests
                     /\ Register(k).type = "register" /\ Register(k).keys = k
  /\ \A f \in Requests : f.type = "register" => f.keys \in Keys /\ f = Register(f.keys)
  /\ Hello.type # "register" /\ Answer.type # "register"
  BY DEF Hello, Answer, Register, Requests

\* A free slot exists, so the chosen one is free.
LEMMA ChosenFree ==
  ASSUME NEW u, Free(u) # {}
  PROVE  (CHOOSE c \in Free(u) : TRUE) \in Free(u)
  OBVIOUS

\* Types at the start.
LEMMA InitTypes == Init => TypeOK
<1> SUFFICES ASSUME Init PROVE TypeOK
  OBVIOUS
<1>1. up \in [Conns -> Seq(Requests)] /\ out \in [Conns -> Seq(Replies)]
  BY DEF Init
<1>2. \A c \in Conns : Len(out[c]) = 0
  BY Zenon DEF Init
<1>3. task \in [Conns -> Tasks]
  BY TaskStates, Zenon DEF Init
<1> QED BY <1>1, <1>2, <1>3, ConnectionsAssumption, SMTT(60) DEF Init, TypeOK

\* The initial states.
LEMMA InitIInv == Init => IInv
<1> SUFFICES ASSUME Init PROVE IInv
  OBVIOUS
<1>1. TypeOK
  BY InitTypes, Zenon
<1>2. LiveIsRegistered /\ OneOwner /\ SessionsOpen /\ OwnLinks /\ RegisterAlone
  BY Zenon DEF Init, LiveIsRegistered, OneOwner, SessionsOpen, OwnLinks, RegisterAlone
<1>3. \A c \in Conns : Range(up[c]) = {} /\ Range(out[c]) = {}
  BY RangeEmpty, Zenon DEF Init
<1>4. OwnRequests
  BY <1>3, Zenon DEF OwnRequests
<1>5. OwnersAdmitted
  BY <1>3, TaskStates, Zenon DEF OwnersAdmitted, Admitted, Init, Replies
<1> QED BY <1>1, <1>2, <1>4, <1>5, Zenon DEF IInv

-----------------------------------------------------------------------------
(* What the operations on the two channels of a connection keep *)

\* The outbound channel: reading a frame, sending one, ending the writer.
LEMMA OutSteps ==
  ASSUME TypeOK, NEW c \in Conns
  PROVE  /\ out[c] # <<>> => /\ Tail(out[c]) \in Seq(Replies)
                             /\ Len(Tail(out[c])) <= Capacity
                             /\ Range(Tail(out[c])) \subseteq Range(out[c])
                             /\ Head(out[c]) \in Range(out[c])
         /\ \A r \in Replies : HasRoom(c) =>
              /\ Append(out[c], r) \in Seq(Replies)
              /\ Len(Append(out[c], r)) <= Capacity
              /\ Range(Append(out[c], r)) = Range(out[c]) \cup {r}
         /\ \A r \in Replies :
              /\ TrySend(c, r) \in Seq(Replies)
              /\ Len(TrySend(c, r)) <= Capacity
              /\ Range(TrySend(c, r)) \subseteq Range(out[c]) \cup {r}
         /\ \A n \in 0 .. Len(out[c]) :
              /\ SubSeq(out[c], 1, n) \in Seq(Replies)
              /\ Len(SubSeq(out[c], 1, n)) <= Capacity
              /\ Range(SubSeq(out[c], 1, n)) \subseteq Range(out[c])
<1> DEFINE s == out[c]
<1>0. s \in Seq(Replies) /\ Len(s) <= Capacity /\ Len(s) \in Nat /\ Capacity \in Nat
  BY ConnectionsAssumption DEF TypeOK
<1> HIDE DEF s
<1>1. s # <<>> => Tail(s) \in Seq(Replies) /\ Len(Tail(s)) <= Capacity
  BY <1>0
<1>2. ASSUME NEW r \in Replies, Len(s) < Capacity
      PROVE  Append(s, r) \in Seq(Replies) /\ Len(Append(s, r)) <= Capacity
  BY <1>0, <1>2
<1>3. ASSUME NEW n \in 0 .. Len(s)
      PROVE  SubSeq(s, 1, n) \in Seq(Replies) /\ Len(SubSeq(s, 1, n)) <= Capacity
  BY <1>0, SMTT(30)
<1>4. \A r \in Replies : Range(Append(s, r)) = Range(s) \cup {r}
  BY <1>0, RangeAppend
<1>5. s # <<>> => Range(Tail(s)) \subseteq Range(s) /\ Head(s) \in Range(s)
  BY <1>0, RangeTail, Zenon
<1>6. \A n \in 0 .. Len(s) : Range(SubSeq(s, 1, n)) \subseteq Range(s)
  BY <1>0, RangePrefix, Zenon
<1>7. ASSUME NEW r \in Replies
      PROVE  LET t == IF Len(s) < Capacity THEN Append(s, r) ELSE s IN
             /\ t \in Seq(Replies) /\ Len(t) <= Capacity
             /\ Range(t) \subseteq Range(s) \cup {r}
  BY <1>0, <1>2, <1>4, Zenon
<1> QED BY <1>1, <1>2, <1>3, <1>4, <1>5, <1>6, <1>7, Zenon DEF s, TrySend, HasRoom

\* The inbound channel: reading a frame, writing an answer, a new connection.
LEMMA UpSteps ==
  ASSUME TypeOK, NEW c \in Conns
  PROVE  /\ up[c] # <<>> => /\ Tail(up[c]) \in Seq(Requests)
                            /\ Range(Tail(up[c])) \subseteq Range(up[c])
                            /\ Head(up[c]) \in Range(up[c])
                            /\ Head(up[c]) \in Requests
         /\ Append(up[c], Answer) \in Seq(Requests)
         /\ Range(Append(up[c], Answer)) = Range(up[c]) \cup {Answer}
         /\ \A f \in Requests : <<f>> \in Seq(Requests) /\ Range(<<f>>) = {f}
<1>0. up[c] \in Seq(Requests) /\ Answer \in Requests
  BY RequestTypes, Zenon DEF TypeOK
<1>1. up[c] # <<>> => /\ Tail(up[c]) \in Seq(Requests)
                      /\ Range(Tail(up[c])) \subseteq Range(up[c])
                      /\ Head(up[c]) \in Range(up[c])
  BY <1>0, RangeTail, Zenon
<1>2. up[c] # <<>> => Head(up[c]) \in Requests
  BY <1>0
<1>3. /\ Append(up[c], Answer) \in Seq(Requests)
      /\ Range(Append(up[c], Answer)) = Range(up[c]) \cup {Answer}
  BY <1>0, RangeAppend
<1>4. \A f \in Requests : <<f>> \in Seq(Requests) /\ Range(<<f>>) = {f}
  BY RangeSingle
<1> QED BY <1>1, <1>2, <1>3, <1>4, Zenon

\* A step that stores no account, lets nobody in, sends no registration and
\* takes up no registering client: what is left to show of it is local.
LEMMA Quiet ==
  ASSUME IInv, TypeOK', LiveIsRegistered', OneOwner', SessionsOpen', OwnLinks',
         account' = account,
         \A c \in authed' : c \in authed \/ Admitted(c),
         \A c \in Conns : Admitted(c)' => Admitted(c),
         \A c \in Conns : \A f \in Range(up'[c]) :
           f \in Range(up[c]) \/ f.type # "register",
         \A u \in Clients : phase'[u] = "register" /\ link'[u] # None =>
           /\ phase[u] = "register" /\ link'[u] = link[u] /\ starts'[u] = starts[u]
           /\ Range(up'[link[u]]) \subseteq Range(up[link[u]])
  PROVE  IInv'
<1>1. OwnRequests'
  BY Zenon DEF IInv, OwnRequests
<1>2. OwnersAdmitted'
  BY Zenon DEF IInv, OwnersAdmitted, AccountOf, Admitted
<1>3. RegisterAlone'
  <2> SUFFICES ASSUME NEW u \in Clients, phase'[u] = "register", link'[u] # None
               PROVE  /\ \A f \in Range(up'[link'[u]]) : f = Register(<<u, starts'[u]>>)
                      /\ Admitted(link[u])' => account' = <<u, starts'[u]>>
    BY Zenon DEF RegisterAlone
  <2>1. /\ phase[u] = "register" /\ link'[u] = link[u] /\ starts'[u] = starts[u]
        /\ Range(up'[link[u]]) \subseteq Range(up[link[u]])
        /\ link[u] \in Conns
    BY Zenon DEF IInv, TypeOK
  <2>2. /\ \A f \in Range(up[link[u]]) : f = Register(<<u, starts[u]>>)
        /\ Admitted(link[u]) => account = <<u, starts[u]>>
    BY <2>1, Zenon DEF IInv, RegisterAlone
  <2>3. Admitted(link[u])' => Admitted(link[u])
    BY <2>1, Zenon DEF Admitted
  <2> QED BY <2>1, <2>2, <2>3, Zenon
<1> QED BY <1>1, <1>2, <1>3, Zenon DEF IInv

-----------------------------------------------------------------------------
(* The client's steps *)

\* A client hangs up or goes on to a phase other than registration, having
\* read a frame or none, and nothing changes at the relay.
LEMMA ClientMoves ==
  ASSUME IInv, NEW u \in Clients, NEW next \in {"down", "wait", "response", "relay"},
         NEW c \in Conns \cup {None}, c \in {link[u], None},
         phase' = [phase EXCEPT ![u] = next], link' = [link EXCEPT ![u] = c],
         next = "relay" => AccountOf(u),
         out' = out \/ (/\ link[u] # None /\ out[link[u]] # <<>>
                        /\ out' = [out EXCEPT ![link[u]] = Tail(@)]),
         up' = up \/ (link[u] # None
                        /\ up' = [up EXCEPT ![link[u]] = Append(@, Answer)]),
         starts' \in [Clients -> Nat],
         \A v \in Clients \ {u} : starts'[v] = starts[v],
         held' = held \/ (/\ account = <<u, starts[u]>>
                          /\ held' = [held EXCEPT ![u] = <<u, starts[u]>>]),
         drops' \in 0 .. MaxDrops,
         UNCHANGED <<account, reg, task, sessionVars, pushes>>
  PROVE  IInv'
<1> USE DEF IInv
<1>1. /\ phase' \in [Clients -> {"down", "register", "wait", "challenge", "response",
                                 "relay"}]
      /\ link' \in [Clients -> Conns \cup {None}]
  BY Zenon DEF TypeOK
<1>2. held' \in [Clients -> Keys \cup {None}]
  BY Zenon DEF TypeOK, Keys
<1>3. /\ out' \in [Conns -> Seq(Replies)]
      /\ \A d \in Conns : Len(out'[d]) <= Capacity
      /\ \A d \in Conns : Range(out'[d]) \subseteq Range(out[d])
  <2>1. CASE out' = out
    BY <2>1, Zenon DEF TypeOK
  <2>2. CASE /\ link[u] # None /\ out[link[u]] # <<>>
             /\ out' = [out EXCEPT ![link[u]] = Tail(@)]
    <3>1. link[u] \in Conns
      BY <2>2, Zenon DEF TypeOK
    <3>2. /\ Tail(out[link[u]]) \in Seq(Replies)
          /\ Len(Tail(out[link[u]])) <= Capacity
          /\ Range(Tail(out[link[u]])) \subseteq Range(out[link[u]])
      BY <2>2, <3>1, OutSteps, Zenon
    <3> QED BY <2>2, <3>1, <3>2, Zenon DEF TypeOK
  <2> QED BY <2>1, <2>2, Zenon
<1>4. /\ up' \in [Conns -> Seq(Requests)]
      /\ \A d \in Conns : Range(up'[d]) \subseteq Range(up[d]) \cup {Answer}
      /\ \A d \in Conns : Owner[d] # u => up'[d] = up[d]
  <2>1. CASE up' = up
    BY <2>1, Zenon DEF TypeOK
  <2>2. CASE link[u] # None /\ up' = [up EXCEPT ![link[u]] = Append(@, Answer)]
    <3>1. link[u] \in Conns /\ Owner[link[u]] = u
      BY <2>2, Zenon DEF TypeOK, OwnLinks
    <3>2. /\ Append(up[link[u]], Answer) \in Seq(Requests)
          /\ Range(Append(up[link[u]], Answer)) = Range(up[link[u]]) \cup {Answer}
      BY <3>1, UpSteps, Zenon
    <3> QED BY <2>2, <3>1, <3>2, Zenon DEF TypeOK
  <2> QED BY <2>1, <2>2, Zenon
<1>5. TypeOK'
  BY <1>1, <1>2, <1>3, <1>4, Zenon DEF TypeOK, sessionVars
<1>6. LiveIsRegistered' /\ SessionsOpen'
  BY Zenon DEF LiveIsRegistered, SessionsOpen, sessionVars
<1>7. OwnLinks'
  BY Zenon DEF OwnLinks, TypeOK
<1>8. OneOwner'
  BY Zenon DEF OneOwner, AccountOf, TypeOK
<1>9. \A d \in Conns : Admitted(d)' => Admitted(d)
  BY <1>3, Zenon DEF Admitted
<1>10. \A d \in Conns : \A f \in Range(up'[d]) :
         f \in Range(up[d]) \/ f.type # "register"
  BY <1>4, RequestTypes, Zenon
<1>11. \A v \in Clients : phase'[v] = "register" /\ link'[v] # None =>
         /\ phase[v] = "register" /\ link'[v] = link[v] /\ starts'[v] = starts[v]
         /\ Range(up'[link[v]]) \subseteq Range(up[link[v]])
  <2> SUFFICES ASSUME NEW v \in Clients, phase'[v] = "register", link'[v] # None
               PROVE  /\ phase[v] = "register" /\ link'[v] = link[v]
                      /\ starts'[v] = starts[v]
                      /\ Range(up'[link[v]]) \subseteq Range(up[link[v]])
    BY Zenon
  <2>1. v # u /\ phase[v] = "register" /\ link'[v] = link[v] /\ starts'[v] = starts[v]
    BY Zenon DEF TypeOK
  <2>2. link[v] \in Conns /\ Owner[link[v]] = v
    BY <2>1, Zenon DEF TypeOK, OwnLinks
  <2> QED BY <1>4, <2>1, <2>2, Zenon
<1> QED BY <1>5, <1>6, <1>7, <1>8, <1>9, <1>10, <1>11, Quiet, Zenon DEF sessionVars

\* What a client reads on its connection was put there.
LEMMA ReadIsSent ==
  ASSUME IInv, NEW u \in Clients, NEW p, Incoming(u, p)
  PROVE  /\ link[u] \in Conns /\ Owner[link[u]] = u /\ phase[u] = p
         /\ FirstIn(u) = "success" => Admitted(link[u])
  BY OutSteps, Zenon DEF IInv, Incoming, FirstIn, TypeOK, OwnLinks, Admitted

\* The first frames of a client's connection: a registration, or a hello.
LEMMA DialStep ==
  ASSUME IInv, NEW u \in Clients, NEW f \in Requests, NEW p \in {"register", "challenge"},
         Dial(u, f), phase' = [phase EXCEPT ![u] = p],
         p = "register" => f = Register(<<u, starts'[u]>>),
         p = "challenge" => f = Hello,
         starts' \in [Clients -> Nat],
         \A v \in Clients \ {u} : starts'[v] = starts[v],
         drops' \in 0 .. MaxDrops,
         UNCHANGED <<held, account, reg, sessionVars, pushes>>
  PROVE  IInv'
<1> USE DEF IInv
<1> DEFINE c == CHOOSE c \in Free(u) : TRUE
<1>1. /\ c \in Conns /\ Owner[c] = u /\ task[c] = Closed
      /\ link' = [link EXCEPT ![u] = c]
      /\ task' = [task EXCEPT ![c] = Reading]
      /\ up' = [up EXCEPT ![c] = <<f>>]
      /\ out' = [out EXCEPT ![c] = <<>>]
  BY ChosenFree, Zenon DEF Dial, Free
<1> HIDE DEF c
<1>2. c \notin authed
  BY <1>1, Zenon DEF SessionsOpen
<1>3. /\ phase' \in [Clients -> {"down", "register", "wait", "challenge", "response",
                                 "relay"}]
      /\ link' \in [Clients -> Conns \cup {None}]
      /\ task' \in [Conns -> Tasks]
  BY <1>1, TaskStates, Zenon DEF TypeOK
<1>4. /\ up' \in [Conns -> Seq(Requests)]
      /\ Range(up'[c]) = {f}
      /\ \A d \in Conns \ {c} : up'[d] = up[d]
  BY <1>1, UpSteps, Zenon DEF TypeOK
<1>5. /\ out' \in [Conns -> Seq(Replies)]
      /\ out'[c] = <<>>
      /\ \A d \in Conns \ {c} : out'[d] = out[d] /\ task'[d] = task[d]
      /\ task'[c] = Reading
  BY <1>1 DEF TypeOK
<1>6. \A d \in Conns : Len(out'[d]) <= Capacity
  BY <1>1, <1>5, ConnectionsAssumption DEF TypeOK
<1>7. TypeOK'
  BY <1>3, <1>4, <1>5, <1>6, Zenon DEF TypeOK, sessionVars
<1>8. LiveIsRegistered' /\ SessionsOpen'
  BY <1>1, <1>2, <1>5, Zenon DEF LiveIsRegistered, SessionsOpen, sessionVars, TypeOK
<1>9. OwnLinks'
  BY <1>1, Zenon DEF OwnLinks, TypeOK
<1>10. OneOwner'
  BY Zenon DEF OneOwner, TypeOK
<1>11. \A d \in Conns : Admitted(d)' => d # c /\ Admitted(d)
  BY <1>5, RangeEmpty, TaskStates, Zenon DEF Admitted, Replies
<1>12. OwnRequests'
  <2>1. f.type = "register" => Identity(f.keys) = u
    BY RequestTypes DEF Identity, Keys
  <2> QED BY <1>1, <1>4, <2>1, Zenon DEF OwnRequests
<1>13. OwnersAdmitted'
  BY <1>11, Zenon DEF OwnersAdmitted, AccountOf, sessionVars, Admitted
<1>14. RegisterAlone'
  <2> SUFFICES ASSUME NEW v \in Clients, phase'[v] = "register", link'[v] # None
               PROVE  /\ \A g \in Range(up'[link'[v]]) : g = Register(<<v, starts'[v]>>)
                      /\ Admitted(link[v])' => account' = <<v, starts'[v]>>
    BY Zenon DEF RegisterAlone
  <2>1. CASE v = u
    <3>1. link'[v] = c /\ p = "register"
      BY <2>1, <1>1, Zenon DEF TypeOK
    <3>2. ~Admitted(link[v])'
      BY <3>1, <1>1, <1>11, Zenon DEF Admitted
    <3> QED BY <2>1, <3>1, <3>2, <1>4, Zenon
  <2>2. CASE v # u
    <3>1. /\ link'[v] = link[v] /\ phase[v] = "register" /\ link[v] \in Conns \ {c}
          /\ starts'[v] = starts[v]
      BY <2>2, <1>1, Zenon DEF TypeOK, OwnLinks
    <3>2. /\ \A g \in Range(up[link[v]]) : g = Register(<<v, starts[v]>>)
          /\ Admitted(link[v]) => account = <<v, starts[v]>>
      BY <3>1, Zenon DEF RegisterAlone, TypeOK
    <3>3. Admitted(link[v])' => Admitted(link[v])
      BY <3>1, <1>11, Zenon DEF Admitted
    <3> QED BY <3>1, <3>2, <3>3, <1>4, Zenon
  <2> QED BY <2>1, <2>2, Zenon
<1> QED BY <1>7, <1>8, <1>9, <1>10, <1>12, <1>13, <1>14, Zenon

\* Every step of a client keeps the invariant.
LEMMA ClientSteps ==
  ASSUME IInv, NEW u \in Clients, ClientStep(u) \/ Drop(u) \/ Quit(u)
  PROVE  IInv'
<1>0. /\ u \in DOMAIN phase /\ link[u] \in Conns \cup {None} /\ starts[u] \in Nat
      /\ starts \in [Clients -> Nat] /\ drops \in 0 .. MaxDrops
      /\ MaxDrops \in Nat /\ link = [link EXCEPT ![u] = link[u]]
      /\ drops < MaxDrops => drops + 1 \in 0 .. MaxDrops
  <2>1. /\ u \in DOMAIN phase /\ link[u] \in Conns \cup {None} /\ starts[u] \in Nat
        /\ starts \in [Clients -> Nat] /\ drops \in 0 .. MaxDrops
        /\ link \in [Clients -> Conns \cup {None}]
    BY Zenon DEF IInv, TypeOK
  <2>2. link = [link EXCEPT ![u] = link[u]]
    BY <2>1, Zenon
  <2>3. MaxDrops \in Nat
    BY ConnectionsAssumption
  <2>4. drops < MaxDrops => drops + 1 \in 0 .. MaxDrops
    BY <2>1, <2>3
  <2> QED BY <2>1, <2>2, <2>3, <2>4, Zenon
<1>1. CASE Start(u)
  <2>1. /\ starts' \in [Clients -> Nat] /\ starts'[u] = starts[u] + 1
        /\ \A v \in Clients \ {u} : starts'[v] = starts[v]
    BY <1>0, <1>1 DEF Start
  <2>2. drops' \in 0 .. MaxDrops
    BY <1>0, <1>1, Zenon DEF Start
  <2>3. CASE /\ Dial(u, Register(<<u, starts[u] + 1>>))
             /\ phase' = [phase EXCEPT ![u] = "register"]
    <3>1. Register(<<u, starts[u] + 1>>) \in Requests
      BY <1>0, RequestTypes DEF Keys
    <3> QED BY <1>1, <2>1, <2>2, <2>3, <3>1, DialStep, Zenon DEF Start
  <2>4. CASE phase' = [phase EXCEPT ![u] = "wait"] /\ UNCHANGED <<link, task, up, out>>
    BY <1>0, <1>1, <2>1, <2>2, <2>4, ClientMoves, Zenon DEF Start
  <2> QED BY <1>1, <2>3, <2>4, Zenon DEF Start
<1>2. CASE HandleRegistered(u)
  <2>1. /\ link[u] \in Conns /\ phase[u] = "register"
        /\ FirstIn(u) = "success" => Admitted(link[u])
    BY <1>2, ReadIsSent, Zenon DEF HandleRegistered
  <2>2. FirstIn(u) = "success" => account = <<u, starts[u]>>
    BY <2>1, ConnectionsAssumption, Zenon DEF IInv, RegisterAlone
  <2>3. held' = held \/ (/\ account = <<u, starts[u]>>
                         /\ held' = [held EXCEPT ![u] = <<u, starts[u]>>])
    BY <1>2, <2>2, Zenon DEF HandleRegistered
  <2>4. drops' \in 0 .. MaxDrops
    BY <1>0, <1>2, Zenon DEF HandleRegistered
  <2>5. /\ link[u] # None /\ out[link[u]] # <<>>
        /\ out' = [out EXCEPT ![link[u]] = Tail(@)]
    BY <1>2, Zenon DEF HandleRegistered, Incoming, TakeIn
  <2> QED BY <1>0, <1>2, <2>3, <2>4, <2>5, ClientMoves, Zenon DEF HandleRegistered, HangUp
<1>3. CASE Connect(u)
  BY <1>0, <1>3, RequestTypes, DialStep, Zenon DEF Connect
<1>4. CASE HandleAuthFlow(u)
  <2>1. /\ link[u] # None /\ out[link[u]] # <<>>
        /\ out' = [out EXCEPT ![link[u]] = Tail(@)]
    BY <1>4, Zenon DEF HandleAuthFlow, Incoming, TakeIn
  <2>2. CASE FirstIn(u) = "challenge"
    <3>1. up' = up \/ up' = [up EXCEPT ![link[u]] = Append(@, Answer)]
      BY <1>4, <2>2, Zenon DEF HandleAuthFlow
    <3> QED BY <1>0, <1>4, <2>1, <2>2, <3>1, ClientMoves, Zenon DEF HandleAuthFlow
  <2>3. CASE FirstIn(u) # "challenge"
    BY <1>0, <1>4, <2>1, <2>3, ClientMoves, Zenon DEF HandleAuthFlow, HangUp
  <2> QED BY <2>2, <2>3, Zenon
<1>5. CASE HandleAuthResult(u)
  <2>1. /\ link[u] # None /\ out[link[u]] # <<>>
        /\ out' = [out EXCEPT ![link[u]] = Tail(@)]
    BY <1>5, Zenon DEF HandleAuthResult, Incoming, TakeIn
  <2>2. CASE FirstIn(u) = "success"
    <3>1. AccountOf(u)
      BY <1>5, <2>2, ReadIsSent DEF HandleAuthResult, IInv, OwnersAdmitted
    <3> QED BY <1>0, <1>5, <2>1, <2>2, <3>1, ClientMoves, Zenon DEF HandleAuthResult
  <2>3. CASE FirstIn(u) # "success"
    BY <1>0, <1>5, <2>1, <2>3, ClientMoves, Zenon DEF HandleAuthResult, HangUp
  <2> QED BY <2>2, <2>3, Zenon
<1>6. CASE RelayLoop(u)
  <2>1. /\ link[u] # None /\ out[link[u]] # <<>> /\ phase[u] = "relay"
        /\ out' = [out EXCEPT ![link[u]] = Tail(@)]
    BY <1>6, Zenon DEF RelayLoop, Incoming, TakeIn
  <2>2. phase' = [phase EXCEPT ![u] = "relay"] /\ AccountOf(u)
    BY <1>6, <2>1, Zenon DEF RelayLoop, clientVars, IInv, TypeOK, OneOwner, AccountOf
  <2> QED BY <1>0, <1>6, <2>1, <2>2, ClientMoves, Zenon DEF RelayLoop, clientVars
<1>7. CASE NoticeEnd(u)
  BY <1>0, <1>7, ClientMoves, Zenon DEF NoticeEnd, HangUp
<1>8. CASE Drop(u)
  BY <1>0, <1>8, ClientMoves, Zenon DEF Drop, HangUp
<1>9. CASE Quit(u)
  BY <1>0, <1>9, ClientMoves, Zenon DEF Quit, HangUp
<1> QED BY <1>1, <1>2, <1>3, <1>4, <1>5, <1>6, <1>7, <1>8, <1>9, Zenon DEF ClientStep

-----------------------------------------------------------------------------
(* The relay's steps *)

\* A task reads a frame.
LEMMA ReadFrame ==
  ASSUME IInv, NEW c \in Conns, NEW t, NextFrame(c, t)
  PROVE  /\ up' \in [Conns -> Seq(Requests)]
         /\ \A d \in Conns : Range(up'[d]) \subseteq Range(up[d])
         /\ Head(up[c]) \in Range(up[c]) /\ Head(up[c]) \in Requests
         /\ Head(up[c]).type = t /\ task[c] = Reading
<1>1. /\ Tail(up[c]) \in Seq(Requests)
      /\ Range(Tail(up[c])) \subseteq Range(up[c])
      /\ Head(up[c]) \in Range(up[c])
      /\ Head(up[c]) \in Requests
  BY UpSteps, Zenon DEF IInv, NextFrame
<1> QED BY <1>1, Zenon DEF NextFrame, IInv, TypeOK

\* A frame is answered without letting the connection in.
LEMMA Refuse ==
  ASSUME IInv, NEW c \in Conns, NEW t, NextFrame(c, t),
         NEW r \in Replies \ {"success"}, Reply(c, r),
         challenge' \in [Conns -> {"none", "pending", "late"}],
         UNCHANGED <<clientVars, account, reg, authed, cancelled, out, pushes, drops>>
  PROVE  IInv'
<1> USE DEF IInv
<1>0. /\ up' \in [Conns -> Seq(Requests)]
      /\ \A d \in Conns : Range(up'[d]) \subseteq Range(up[d])
  BY ReadFrame, Zenon
<1>1. /\ task' \in [Conns -> Tasks]
      /\ task'[c] \notin {Closed, Reading, Entering}
      /\ task'[c] # Responding("success")
      /\ \A d \in Conns \ {c} : task'[d] = task[d]
  BY TaskStates, Zenon DEF Reply, TypeOK
<1>2. TypeOK'
  BY <1>0, <1>1, Zenon DEF TypeOK, clientVars
<1>3. LiveIsRegistered' /\ OneOwner' /\ OwnLinks'
  BY Zenon DEF LiveIsRegistered, OneOwner, OwnLinks, clientVars
<1>4. SessionsOpen'
  BY <1>1, Zenon DEF SessionsOpen, TypeOK
<1>5. \A d \in Conns : Admitted(d)' => Admitted(d)
  BY <1>1, Zenon DEF Admitted
<1>6. \A u \in Clients : phase'[u] = "register" /\ link'[u] # None =>
        /\ phase[u] = "register" /\ link'[u] = link[u] /\ starts'[u] = starts[u]
        /\ Range(up'[link[u]]) \subseteq Range(up[link[u]])
  BY <1>0, Zenon DEF TypeOK, clientVars
<1> QED BY <1>0, <1>2, <1>3, <1>4, <1>5, <1>6, Quiet, Zenon

\* A frame is answered by letting the connection of the account's owner in.
LEMMA Admit ==
  ASSUME IInv, NEW c \in Conns, NEW t, NextFrame(c, t), c \notin authed,
         task' = [task EXCEPT ![c] = Entering],
         account' \in Keys, account = None \/ account' = account,
         Identity(account') = Owner[c],
         \A u \in Clients : phase[u] = "register" /\ link[u] = c =>
           account' = <<u, starts[u]>>,
         challenge' \in [Conns -> {"none", "pending", "late"}],
         UNCHANGED <<clientVars, reg, authed, cancelled, out, pushes, drops>>
  PROVE  IInv'
<1> USE DEF IInv
<1>0. /\ up' \in [Conns -> Seq(Requests)]
      /\ \A d \in Conns : Range(up'[d]) \subseteq Range(up[d])
  BY ReadFrame, Zenon
<1>1. /\ task' \in [Conns -> Tasks]
      /\ \A d \in Conns \ {c} : task'[d] = task[d]
  BY TaskStates, Zenon DEF TypeOK
<1>2. TypeOK'
  BY <1>0, <1>1, Zenon DEF TypeOK, clientVars
<1>3. LiveIsRegistered' /\ OwnLinks'
  BY Zenon DEF LiveIsRegistered, OwnLinks, clientVars
<1>n. None \notin Keys
  BY ConnectionsAssumption, Zenon DEF Keys
<1>4. OneOwner'
  BY <1>n, Zenon DEF OneOwner, clientVars, TypeOK
<1>5. SessionsOpen'
  BY <1>1, Zenon DEF SessionsOpen, TypeOK
<1>6. \A d \in Conns : Admitted(d)' => d = c \/ Admitted(d)
  BY <1>1, Zenon DEF Admitted
<1>7. OwnRequests'
  BY <1>0, Zenon DEF OwnRequests
<1>8. OwnersAdmitted'
  BY <1>6, <1>n, Zenon DEF OwnersAdmitted, AccountOf, Admitted
<1>9. RegisterAlone'
  <2> SUFFICES ASSUME NEW u \in Clients, phase'[u] = "register", link'[u] # None
               PROVE  /\ \A f \in Range(up'[link'[u]]) : f = Register(<<u, starts'[u]>>)
                      /\ Admitted(link[u])' => account' = <<u, starts'[u]>>
    BY Zenon DEF RegisterAlone
  <2>1. /\ link'[u] = link[u] /\ phase[u] = "register" /\ starts'[u] = starts[u]
        /\ link[u] \in Conns
    BY Zenon DEF clientVars, TypeOK
  <2>2. /\ \A f \in Range(up[link[u]]) : f = Register(<<u, starts[u]>>)
        /\ Admitted(link[u]) => account = <<u, starts[u]>>
    BY <2>1, Zenon DEF RegisterAlone
  <2>3. Admitted(link[u])' => link[u] = c \/ Admitted(link[u])
    BY <2>1, <1>6, Zenon DEF Admitted
  <2>4. account = <<u, starts[u]>> => account # None
    BY <2>1, <1>n DEF TypeOK, Keys
  <2> QED BY <2>1, <2>2, <2>3, <2>4, <1>0, Zenon
<1> QED BY <1>2, <1>3, <1>4, <1>5, <1>7, <1>8, <1>9, Zenon

\* Registration, the challenge and the response.
LEMMA AuthSteps ==
  ASSUME IInv, NEW c \in Conns,
         HandleRegister(c) \/ HandleAuthChallenge(c) \/ HandleAuthResponse(c)
  PROVE  IInv'
<1>0. "failure" \in Replies \ {"success"} /\ "challenge" \in Replies \ {"success"}
  BY Zenon DEF Replies
<1>c. challenge \in [Conns -> {"none", "pending", "late"}] /\ account \in Keys \cup {None}
  BY Zenon DEF IInv, TypeOK
<1>1. CASE HandleRegister(c)
  <2> DEFINE k == Head(up[c]).keys
  <2>1. NextFrame(c, "register") /\ challenge' = challenge
    BY <1>1, Zenon DEF HandleRegister, sessionVars
  <2>2. Head(up[c]) \in Range(up[c]) /\ Head(up[c]) \in Requests
        /\ Head(up[c]).type = "register"
    BY <2>1, ReadFrame, Zenon
  <2>3. k \in Keys /\ Identity(k) = Owner[c] /\ Head(up[c]) = Register(k)
    BY <2>2, RequestTypes, Zenon DEF IInv, OwnRequests
  <2>4. CASE Reply(c, "failure") /\ UNCHANGED account
    BY <1>0, <1>1, <1>c, <2>1, <2>4, Refuse, Zenon DEF HandleRegister, sessionVars
  <2>5. CASE c \notin authed /\ RegisterAtomic(k)
    <3>1. CASE account' = k
      <4>1. task' = [task EXCEPT ![c] = Entering]
        BY <1>1, <2>5, <3>1, Zenon DEF HandleRegister
      <4>2. account = None \/ account' = account
        BY <2>5, Zenon DEF RegisterAtomic
      <4>3. \A u \in Clients : phase[u] = "register" /\ link[u] = c =>
              k = <<u, starts[u]>>
        <5> SUFFICES ASSUME NEW u \in Clients, phase[u] = "register", link[u] = c
                     PROVE  k = <<u, starts[u]>>
          OBVIOUS
        <5>1. Head(up[c]) = Register(<<u, starts[u]>>)
          BY <2>2, ConnectionsAssumption, Zenon DEF IInv, RegisterAlone
        <5> QED BY <5>1 DEF Register
      <4> HIDE DEF k
      <4> QED BY <1>1, <1>c, <2>1, <2>3, <2>5, <3>1, <4>1, <4>2, <4>3, Admit, Zenon
              DEF HandleRegister, sessionVars
    <3>2. CASE account' # k
      <4>1. Reply(c, "failure") /\ UNCHANGED account
        BY <1>1, <2>5, <3>2, Zenon DEF HandleRegister, RegisterAtomic
      <4> QED BY <4>1, <2>4, Zenon
    <3> QED BY <3>1, <3>2, Zenon
  <2> QED BY <1>1, <2>4, <2>5, Zenon DEF HandleRegister
<1>2. CASE HandleAuthChallenge(c)
  <2>1. challenge' \in [Conns -> {"none", "pending", "late"}]
    BY <1>2, <1>c, Zenon DEF HandleAuthChallenge
  <2> QED BY <1>0, <1>2, <2>1, Refuse, Zenon DEF HandleAuthChallenge
<1>3. CASE HandleAuthResponse(c)
  <2>1. challenge' \in [Conns -> {"none", "pending", "late"}]
    BY <1>3, <1>c, Zenon DEF HandleAuthResponse
  <2>2. CASE Reply(c, "failure")
    BY <1>0, <1>3, <2>1, <2>2, Refuse, Zenon DEF HandleAuthResponse
  <2>3. CASE c \notin authed /\ Verified(c) /\ task' = [task EXCEPT ![c] = Entering]
    <3>1. NextFrame(c, "answer") /\ account' = account
      BY <1>3, Zenon DEF HandleAuthResponse
    <3>2. Head(up[c]) \in Range(up[c]) /\ Head(up[c]).type = "answer"
      BY <3>1, ReadFrame, Zenon
    <3>3. ASSUME NEW u \in Clients, phase[u] = "register", link[u] = c
          PROVE  FALSE
      <4>1. Head(up[c]) = Register(<<u, starts[u]>>)
        BY <3>2, <3>3, ConnectionsAssumption, Zenon DEF IInv, RegisterAlone
      <4> QED BY <3>2, <4>1 DEF Register
    <3>4. account' \in Keys /\ Identity(account') = Owner[c]
      BY <1>c, <2>3, <3>1, Zenon DEF Verified
    <3> QED BY <1>3, <2>1, <2>3, <3>1, <3>3, <3>4, Admit, Zenon DEF HandleAuthResponse
  <2> QED BY <1>3, <2>2, <2>3, Zenon DEF HandleAuthResponse
<1> QED BY <1>1, <1>2, <1>3, Zenon

\* A step of the relay on one connection: its task changes, and frames are
\* added to or cut from its channel, but a success only when it is due.
LEMMA RelayMoves ==
  ASSUME IInv, NEW c \in Conns, NEW t \in Tasks, NEW o \in Seq(Replies), Len(o) <= Capacity,
         task' = [task EXCEPT ![c] = t], out' = [out EXCEPT ![c] = o],
         t # Entering, t = Closed => c \notin authed',
         t = Responding("success") \/ "success" \in Range(o) => Admitted(c),
         authed' \subseteq authed, cancelled' \subseteq authed', LiveIsRegistered',
         reg' \in {None, reg},
         challenge' \in [Conns -> {"none", "pending", "late"}],
         up' = up \/ up' = [up EXCEPT ![c] = <<>>],
         pushes' \in 0 .. MaxPushes,
         UNCHANGED <<clientVars, account, drops>>
  PROVE  IInv'
<1> USE DEF IInv
<1>1. /\ task' \in [Conns -> Tasks] /\ task'[c] = t
      /\ \A d \in Conns \ {c} : task'[d] = task[d]
      /\ out' \in [Conns -> Seq(Replies)] /\ out'[c] = o
      /\ \A d \in Conns \ {c} : out'[d] = out[d]
  BY Zenon DEF TypeOK
<1>2. \A d \in Conns : Len(out'[d]) <= Capacity
  BY <1>1, Zenon DEF TypeOK
<1>3. /\ up' \in [Conns -> Seq(Requests)]
      /\ \A d \in Conns : Range(up'[d]) \subseteq Range(up[d])
  <2>1. CASE up' = up
    BY <2>1, Zenon DEF TypeOK
  <2>2. CASE up' = [up EXCEPT ![c] = <<>>]
    BY <2>2, RangeEmpty DEF TypeOK
  <2> QED BY <2>1, <2>2, Zenon
<1>4. TypeOK'
  BY <1>1, <1>2, <1>3, Zenon DEF TypeOK, clientVars
<1>5. OneOwner' /\ OwnLinks'
  BY Zenon DEF OneOwner, OwnLinks, clientVars
<1>6. SessionsOpen'
  BY <1>1, Zenon DEF SessionsOpen, TypeOK
<1>7. \A d \in Conns : Admitted(d)' => Admitted(d)
  BY <1>1, Zenon DEF Admitted
<1>8. \A u \in Clients : phase'[u] = "register" /\ link'[u] # None =>
        /\ phase[u] = "register" /\ link'[u] = link[u] /\ starts'[u] = starts[u]
        /\ Range(up'[link[u]]) \subseteq Range(up[link[u]])
  BY <1>3, Zenon DEF TypeOK, clientVars
<1> QED BY <1>3, <1>4, <1>5, <1>6, <1>7, <1>8, Quiet, Zenon

\* A task ends, at whatever point: its entry is removed only if it is its own.
LEMMA FinishStep ==
  ASSUME IInv, NEW c \in Conns, Finish(c), UNCHANGED <<clientVars, account, pushes, drops>>
  PROVE  IInv'
<1>1. PICK n \in 0 .. Len(out[c]) : out' = [out EXCEPT ![c] = SubSeq(out[c], 1, n)]
  BY Zenon DEF Finish, IInv, TypeOK
<1>2. /\ SubSeq(out[c], 1, n) \in Seq(Replies)
      /\ Len(SubSeq(out[c], 1, n)) <= Capacity
      /\ Range(SubSeq(out[c], 1, n)) \subseteq Range(out[c])
  BY OutSteps, Zenon DEF IInv
<1>3. "success" \in Range(SubSeq(out[c], 1, n)) => Admitted(c)
  BY <1>2, Zenon DEF Admitted
<1>4. Closed \in Tasks /\ Closed # Entering /\ Closed # Responding("success")
  BY TaskStates, Zenon DEF Replies
<1>5. LiveIsRegistered'
  BY Zenon DEF Finish, RemoveIfMatch, IInv, LiveIsRegistered, TypeOK
<1>6. /\ authed' \subseteq authed /\ cancelled' \subseteq authed' /\ c \notin authed'
      /\ reg' \in {None, reg} /\ task' = [task EXCEPT ![c] = Closed]
      /\ challenge' \in [Conns -> {"none", "pending", "late"}]
      /\ up' = [up EXCEPT ![c] = <<>>]
  BY Zenon DEF Finish, RemoveIfMatch, IInv, TypeOK
<1>7. pushes' \in 0 .. MaxPushes
  BY Zenon DEF IInv, TypeOK
<1> QED BY <1>1, <1>2, <1>3, <1>4, <1>5, <1>6, <1>7, RelayMoves, Zenon

\* The login takes effect: the displaced connection, if any, is told.
LEMMA EnterStep ==
  ASSUME IInv, NEW c \in Conns, Enter(c)
  PROVE  IInv'
<1> USE DEF IInv
<1>0. /\ task[c] = Entering /\ reg' = c /\ authed' = authed \cup {c}
      /\ task' = [task EXCEPT ![c] = Responding("success")]
      /\ UNCHANGED <<clientVars, account, challenge, up, pushes, drops>>
  BY Zenon DEF Enter, Insert, Reply
<1>1. /\ Admitted(c) /\ c \notin authed /\ AccountOf(Owner[c])
  BY <1>0, Zenon DEF Admitted, SessionsOpen, OwnersAdmitted
<1>2. cancelled' = IF reg = None THEN cancelled ELSE cancelled \cup {reg}
  BY Zenon DEF Enter, Insert
<1>3. LiveIsRegistered' /\ cancelled' \subseteq authed'
  <2>1. cancelled \subseteq authed /\ c \notin cancelled /\ None \notin authed
    BY <1>1, ConnectionsAssumption, Zenon DEF TypeOK
  <2>2. \A d \in authed \ cancelled : reg = d
    BY Zenon DEF LiveIsRegistered
  <2>3. reg # None => reg \in authed /\ reg # c
    BY <1>1, Zenon DEF LiveIsRegistered
  <2>4. c \in authed' \ cancelled'
    BY <1>0, <1>2, <2>1, <2>3, Zenon
  <2>5. ASSUME NEW d \in authed' \ cancelled' PROVE d = c
    BY <1>0, <1>2, <2>1, <2>2, <2>3, Zenon
  <2>6. cancelled' \subseteq authed'
    BY <1>0, <1>2, <2>1, <2>3, Zenon
  <2> QED BY <1>0, <2>4, <2>5, <2>6, Zenon DEF LiveIsRegistered
<1>4. /\ task' \in [Conns -> Tasks] /\ task'[c] = Responding("success")
      /\ Responding("success") # Closed /\ Responding("success") # Entering
      /\ \A d \in Conns \ {c} : task'[d] = task[d]
  BY <1>0, TaskStates, Zenon DEF TypeOK, Replies
<1>5. /\ out' \in [Conns -> Seq(Replies)]
      /\ \A d \in Conns : Len(out'[d]) <= Capacity
      /\ \A d \in Conns : "success" \in Range(out'[d]) => "success" \in Range(out[d])
  <2>1. CASE reg = None
    BY <2>1, Zenon DEF Enter, Insert, TypeOK
  <2>2. CASE reg # None
    <3>1. reg \in Conns /\ out' = [out EXCEPT ![reg] = TrySend(reg, "replaced")]
      BY <2>2, Zenon DEF Enter, Insert, TypeOK
    <3>2. /\ TrySend(reg, "replaced") \in Seq(Replies)
          /\ Len(TrySend(reg, "replaced")) <= Capacity
          /\ Range(TrySend(reg, "replaced")) \subseteq Range(out[reg]) \cup {"replaced"}
      BY <3>1, OutSteps, Zenon DEF Replies
    <3> QED BY <3>1, <3>2, Zenon DEF TypeOK
  <2> QED BY <2>1, <2>2, Zenon
<1>6. TypeOK'
  BY <1>0, <1>3, <1>4, <1>5, Zenon DEF TypeOK, clientVars
<1>7. OneOwner' /\ OwnLinks'
  BY <1>0, <1>1, Zenon DEF OneOwner, OwnLinks, AccountOf, clientVars
<1>8. SessionsOpen'
  BY <1>0, <1>4, Zenon DEF SessionsOpen, TypeOK
<1>9. \A d \in Conns : Admitted(d)' => Admitted(d)
  BY <1>1, <1>4, <1>5, Zenon DEF Admitted
<1>10. \A d \in authed' : d \in authed \/ Admitted(d)
  BY <1>0, <1>1, Zenon
<1>11. \A u \in Clients : phase'[u] = "register" /\ link'[u] # None =>
         /\ phase[u] = "register" /\ link'[u] = link[u] /\ starts'[u] = starts[u]
         /\ Range(up'[link[u]]) \subseteq Range(up[link[u]])
  BY <1>0, Zenon DEF clientVars
<1> QED BY <1>0, <1>3, <1>6, <1>7, <1>8, <1>9, <1>10, <1>11, Quiet, Zenon

\* Answers, deliveries and pushes.
LEMMA SendSteps ==
  ASSUME IInv, NEW c \in Conns,
         Respond(c) \/ Deliver(c) \/ Leave(c) \/ ChallengeExpires(c) \/ (reg = c /\ Push)
  PROVE  IInv'
<1>t. /\ pushes \in 0 .. MaxPushes /\ task[c] \in Tasks /\ cancelled \subseteq authed
      /\ challenge \in [Conns -> {"none", "pending", "late"}]
      /\ out[c] \in Seq(Replies) /\ Len(out[c]) <= Capacity
      /\ task = [task EXCEPT ![c] = task[c]] /\ out = [out EXCEPT ![c] = out[c]]
      /\ "data" \in Replies /\ MaxPages \in Nat
      /\ c \in authed => task[c] # Closed /\ task[c] # Entering
  BY ConnectionsAssumption, Zenon DEF IInv, TypeOK, Replies, SessionsOpen
<1>s. (UNCHANGED <<reg, authed, cancelled>>) => LiveIsRegistered'
  BY Zenon DEF IInv, LiveIsRegistered
<1>1. CASE Respond(c)
  <2>1. CASE Finish(c) /\ UNCHANGED <<clientVars, account, pushes, drops>>
    BY <2>1, FinishStep, Zenon
  <2>2. CASE HasRoom(c) /\ UNCHANGED <<reg, sessionVars, up>>
             /\ out' = [out EXCEPT ![c] = Append(@, task[c].reply)]
             /\ \E n \in 0 .. MaxPages :
                  task' = [task EXCEPT ![c] = IF n = 0 THEN Reading ELSE Delivering(n)]
    <3>1. task[c].reply \in Replies /\ task[c] = Responding(task[c].reply)
      BY <1>1, <1>t DEF Respond, Tasks, Closed, Reading, Entering, Responding
    <3>2. PICK n \in 0 .. MaxPages :
            task' = [task EXCEPT ![c] = IF n = 0 THEN Reading ELSE Delivering(n)]
      BY <2>2, Zenon
    <3> DEFINE t == IF n = 0 THEN Reading ELSE Delivering(n)
               o == Append(out[c], task[c].reply)
    <3>3. t \in Tasks /\ t # Entering /\ t # Closed /\ t # Responding("success")
      BY <1>t, TaskStates DEF Replies
    <3>4. /\ o \in Seq(Replies) /\ Len(o) <= Capacity
          /\ Range(o) = Range(out[c]) \cup {task[c].reply}
      BY <2>2, <3>1, OutSteps, Zenon DEF IInv
    <3>5. "success" \in Range(o) => Admitted(c)
      BY <3>1, <3>4, Zenon DEF Admitted
    <3>6. task' = [task EXCEPT ![c] = t] /\ out' = [out EXCEPT ![c] = o]
      BY <2>2, <3>2, Zenon DEF IInv, TypeOK
    <3> HIDE DEF t, o
    <3> QED BY <1>1, <1>t, <1>s, <2>2, <3>3, <3>4, <3>5, <3>6, RelayMoves, Zenon
            DEF Respond, sessionVars
  <2> QED BY <1>1, <2>1, <2>2, Zenon DEF Respond
<1>2. CASE Deliver(c)
  <2>1. task[c] = Delivering(task[c].left) /\ task[c].left \in 1 .. MaxPages
    BY <1>2, <1>t DEF Deliver, Tasks, Closed, Reading, Entering, Delivering
  <2>2. CASE HasRoom(c) /\ out' = [out EXCEPT ![c] = Append(@, "data")]
             /\ task' = [task EXCEPT ![c] = IF task[c].left = 1 THEN Reading
                                            ELSE Delivering(task[c].left - 1)]
    <3> DEFINE t == IF task[c].left = 1 THEN Reading ELSE Delivering(task[c].left - 1)
               o == Append(out[c], "data")
    <3>3. t \in Tasks /\ t # Entering /\ t # Closed /\ t # Responding("success")
      <4>1. task[c].left # 1 => task[c].left - 1 \in 1 .. MaxPages
        BY <1>t, <2>1
      <4> QED BY <4>1, TaskStates, Zenon DEF Replies
    <3>4. /\ o \in Seq(Replies) /\ Len(o) <= Capacity
          /\ Range(o) = Range(out[c]) \cup {"data"}
      BY <1>t, <2>2, OutSteps, Zenon DEF IInv
    <3>5. "success" \in Range(o) => Admitted(c)
      BY <3>4, Zenon DEF Admitted
    <3>6. task' = [task EXCEPT ![c] = t] /\ out' = [out EXCEPT ![c] = o]
      BY <2>2, Zenon DEF IInv, TypeOK
    <3> HIDE DEF t, o
    <3> QED BY <1>2, <1>t, <1>s, <2>2, <3>3, <3>4, <3>5, <3>6, RelayMoves, Zenon
            DEF Deliver, sessionVars
  <2>3. CASE task' = [task EXCEPT ![c] = Reading] /\ UNCHANGED out
    <3>1. /\ Reading \in Tasks /\ Reading # Entering /\ Reading # Closed
          /\ Reading # Responding("success")
      BY TaskStates, Zenon DEF Replies
    <3>2. "success" \in Range(out[c]) => Admitted(c)
      BY Zenon DEF Admitted
    <3> QED BY <1>2, <1>t, <1>s, <2>3, <3>1, <3>2, RelayMoves, Zenon DEF Deliver, sessionVars
  <2> QED BY <1>2, <2>2, <2>3, Zenon DEF Deliver
<1>3. CASE Leave(c)
  BY <1>3, FinishStep, Zenon DEF Leave
<1>4. CASE ChallengeExpires(c)
  <2>1. TypeOK'
    <3>1. challenge' \in [Conns -> {"none", "pending", "late"}]
      BY <1>4, <1>t, Zenon DEF ChallengeExpires
    <3>2. drops' \in 0 .. MaxDrops
      <4>1. drops \in 0 .. MaxDrops
        BY Zenon DEF IInv, TypeOK
      <4>2. drops < MaxDrops /\ drops' = drops + 1
        BY <1>4, Zenon DEF ChallengeExpires
      <4> QED BY <4>1, <4>2, ConnectionsAssumption
    <3> QED BY <1>4, <3>1, <3>2, Zenon DEF ChallengeExpires, IInv, TypeOK, clientVars
  <2> QED BY <1>4, <2>1, Zenon DEF ChallengeExpires, IInv, LiveIsRegistered, OneOwner,
             SessionsOpen, OwnRequests, OwnersAdmitted, OwnLinks, RegisterAlone,
             AccountOf, Admitted, clientVars
<1>5. CASE reg = c /\ Push
  <2>1. /\ TrySend(c, "data") \in Seq(Replies) /\ Len(TrySend(c, "data")) <= Capacity
        /\ Range(TrySend(c, "data")) \subseteq Range(out[c]) \cup {"data"}
    BY <1>t, OutSteps, Zenon DEF IInv
  <2>2. "success" \in Range(TrySend(c, "data")) \/ task[c] = Responding("success")
          => Admitted(c)
    BY <2>1, Zenon DEF Admitted
  <2>3. c \in authed
    BY <1>5, ConnectionsAssumption, Zenon DEF IInv, LiveIsRegistered
  <2>4. /\ pushes' \in 0 .. MaxPushes
        /\ out' = [out EXCEPT ![c] = TrySend(c, "data")] /\ task' = task
        /\ UNCHANGED <<clientVars, account, drops, reg, authed, cancelled, challenge, up>>
    BY <1>5, <1>t, ConnectionsAssumption DEF Push, sessionVars
  <2> QED BY <1>t, <1>s, <2>1, <2>2, <2>3, <2>4, RelayMoves, Zenon
<1> QED BY <1>1, <1>2, <1>3, <1>4, <1>5, Zenon

-----------------------------------------------------------------------------
(* The theorems *)

\* Every step keeps the invariant.
LEMMA NextIInv == IInv /\ [Next]_vars => IInv'
<1> SUFFICES ASSUME IInv, [Next]_vars PROVE IInv'
  OBVIOUS
<1>1. CASE UNCHANGED vars
  <2>1. TypeOK'
    BY <1>1, Zenon DEF vars, clientVars, sessionVars, IInv, TypeOK
  <2>2. LiveIsRegistered' /\ OneOwner' /\ SessionsOpen' /\ OwnRequests' /\ OwnLinks'
    BY <1>1, Zenon DEF vars, clientVars, sessionVars, IInv, LiveIsRegistered, OneOwner,
       SessionsOpen, OwnRequests, OwnLinks
  <2>3. OwnersAdmitted' /\ RegisterAlone'
    BY <1>1, Zenon DEF vars, clientVars, sessionVars, IInv, OwnersAdmitted, RegisterAlone,
       AccountOf, Admitted
  <2> QED BY <2>1, <2>2, <2>3, Zenon DEF IInv
<1>2. CASE \E u \in Clients : ClientStep(u) \/ Drop(u) \/ Quit(u)
  BY <1>2, ClientSteps, Zenon
<1>3. CASE \E c \in Conns : ServerStep(c) \/ ChallengeExpires(c)
  BY <1>3, AuthSteps, EnterStep, SendSteps, Zenon DEF ServerStep
<1>4. CASE Push
  <2>1. reg \in Conns
    BY <1>4, Zenon DEF Push, IInv, TypeOK
  <2> QED BY <1>4, <2>1, SendSteps, Zenon
<1> QED BY <1>1, <1>2, <1>3, <1>4, Zenon DEF Next

\* The inductive invariant of the connection handling (client net.rs, relay
\* ws.rs, auth.rs and connection.rs) holds in every reachable state.
THEOREM IInvHolds == Spec => []IInv
<1>1. Init => IInv
  BY InitIInv, Zenon
<1>2. IInv /\ [Next]_vars => IInv'
  BY NextIInv, Zenon
<1> QED BY <1>1, <1>2, PTL DEF Spec

\* The registry (connection.rs) holds the connection that is authenticated
\* and was not displaced, whatever the order of logins and clean-ups.
THEOREM LiveConnectionRegistered == Spec => []LiveIsRegistered
<1>1. IInv => LiveIsRegistered
  BY Zenon DEF IInv
<1> QED BY <1>1, IInvHolds, PTL

\* A name belongs to the identity that registered it first (register_atomic):
\* nobody else is reached or logged in under it, and the keys a client saved
\* are the ones the relay publishes.
THEOREM NameHasOneOwner == Spec => []OneOwner
<1>1. IInv => OneOwner
  BY Zenon DEF IInv
<1> QED BY <1>1, IInvHolds, PTL

=============================================================================
