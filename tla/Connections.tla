----------------------------- MODULE Connections -----------------------------
(***************************************************************************)
(* How a client gets an account and an authenticated connection: the       *)
(* one-shot registration at the first start, the challenge and response on *)
(* every later connection, the relay's task per connection, and the        *)
(* registry that says which connection an account is reached on.           *)
(*                                                                         *)
(* There is one user name.  Every client has an identity key of its own:   *)
(* the clients are people who chose the same name.  Each has a few         *)
(* connection slots; a slot is used again only when both ends have left    *)
(* it, so that comparing slots is comparing the relay's connection         *)
(* numbers.                                                                *)
(*                                                                         *)
(* `out' is what the relay has accepted for a connection and the client    *)
(* has not read: the bounded channel in front of the writer task, with a   *)
(* socket that buffers nothing, the slowest client there can be.  Other    *)
(* users' handlers push to the registered connection at any time.          *)
(***************************************************************************)
EXTENDS Integers, Sequences, Functions

CONSTANTS
  Clients,        \* client installations, one identity key each
  Conns, Owner,   \* connection slots, [Conns -> Clients]
  None,
  Capacity,       \* OUTBOUND_CHANNEL_CAPACITY
  MaxStarts,      \* bound: [Clients -> Nat], starts of each client program
  MaxPages,       \* bound: frames sent unasked after a login
  MaxPushes,      \* bound: frames pushed by other users' handlers
  MaxDrops        \* bound: broken connections, failed writes, late answers

ASSUME ConnectionsAssumption ==
  /\ Owner \in [Conns -> Clients]
  /\ None \notin Conns \cup Clients \cup (Clients \X Nat)
  /\ MaxStarts \in [Clients -> Nat]
  /\ {Capacity, MaxPages, MaxPushes, MaxDrops} \subseteq Nat

VARIABLES
  phase,      \* what each client's network code is doing
  link,       \* the connection it is using
  starts,     \* how often it was started
  held,       \* registration keys saved in its crypto.db
  account,    \* keys stored for the user name, with the identity they are of
  reg,        \* registry entry of the user
  task,       \* what each connection's task is doing
  authed,     \* connections whose session has an authenticated user
  challenge,  \* "none", "pending", or "late" when 60 seconds have passed
  cancelled,  \* connections whose cancel signal was sent
  up,         \* frames each connection has not read yet
  out,        \* frames each client has not read yet
  pushes, drops

clientVars == <<phase, link, starts, held>>
sessionVars == <<authed, challenge, cancelled>>
vars == <<clientVars, account, reg, task, sessionVars, up, out, pushes,
          drops>>

-----------------------------------------------------------------------------
(* Keys a client publishes at its n-th start, frames and task states *)

Keys        == Clients \X Nat
Identity(k) == k[1]

Register(k) == [type |-> "register", keys |-> k]
Hello       == [type |-> "hello"]
Answer      == [type |-> "answer"]
Requests    == [type : {"register"}, keys : Keys] \cup {Hello, Answer}
Replies     == {"challenge", "success", "failure", "replaced", "data"}

Closed        == [st |-> "closed"]
Reading       == [st |-> "read"]
Entering      == [st |-> "enter"]
Responding(r) == [st |-> "respond", reply |-> r]
Delivering(n) == [st |-> "deliver", left |-> n]
Tasks == {Closed, Reading, Entering} \cup [st : {"respond"}, reply : Replies]
           \cup [st : {"deliver"}, left : 1 .. MaxPages]

Init ==
  /\ phase = [u \in Clients |-> "down"]
  /\ link = [u \in Clients |-> None]
  /\ starts = [u \in Clients |-> 0]
  /\ held = [u \in Clients |-> None]
  /\ account = None /\ reg = None
  /\ task = [c \in Conns |-> Closed]
  /\ authed = {} /\ cancelled = {}
  /\ challenge = [c \in Conns |-> "none"]
  /\ up = [c \in Conns |-> <<>>]
  /\ out = [c \in Conns |-> <<>>]
  /\ pushes = 0 /\ drops = 0

-----------------------------------------------------------------------------
(* The client: registration, then the connection loop *)

NeedsRegistration(u) == held[u] = None

Free(u) == {c \in Conns : Owner[c] = u /\ task[c] = Closed}

\* Client u opens a connection (any free slot will do) and writes f as its
\* first frame.
Dial(u, f) ==
  /\ link[u] = None /\ Free(u) # {}
  /\ LET c == CHOOSE c \in Free(u) : TRUE IN
       /\ link' = [link EXCEPT ![u] = c]
       /\ task' = [task EXCEPT ![c] = Reading]
       /\ up' = [up EXCEPT ![c] = <<f>>]
       /\ out' = [out EXCEPT ![c] = <<>>]

HangUp(u, next) ==
  /\ link' = [link EXCEPT ![u] = None]
  /\ phase' = [phase EXCEPT ![u] = next]

\* The program starts; without registration keys it registers first, and
\* goes on to the connection loop whether or not that succeeds.
Start(u) ==
  /\ phase[u] = "down" /\ starts[u] < MaxStarts[u]
  /\ starts' = [starts EXCEPT ![u] = @ + 1]
  /\ \/ /\ NeedsRegistration(u)
        /\ Dial(u, Register(<<u, starts[u] + 1>>))
        /\ phase' = [phase EXCEPT ![u] = "register"]
     \/ /\ NeedsRegistration(u) => drops < MaxDrops
        /\ phase' = [phase EXCEPT ![u] = "wait"]
        /\ UNCHANGED <<link, task, up, out>>
  /\ drops' = IF NeedsRegistration(u) /\ phase'[u] = "wait" THEN drops + 1 ELSE drops
  /\ UNCHANGED <<held, account, reg, sessionVars, pushes>>

Incoming(u, p) == phase[u] = p /\ link[u] # None /\ out[link[u]] # <<>>
FirstIn(u)     == Head(out[link[u]])
TakeIn(u)      == out' = [out EXCEPT ![link[u]] = Tail(@)]

\* The keys of this start are saved only when the first frame is the
\* success; every other answer, and a failing write, leaves none.
HandleRegistered(u) ==
  /\ Incoming(u, "register") /\ TakeIn(u)
  /\ \/ /\ FirstIn(u) = "success"
        /\ held' = [held EXCEPT ![u] = <<u, starts[u]>>]
        /\ UNCHANGED drops
     \/ /\ FirstIn(u) = "success" /\ drops < MaxDrops
        /\ drops' = drops + 1 /\ UNCHANGED held
     \/ /\ FirstIn(u) # "success" /\ UNCHANGED <<held, drops>>
  /\ HangUp(u, "wait")
  /\ UNCHANGED <<starts, account, reg, task, sessionVars, up, pushes>>

Connect(u) ==
  /\ phase[u] = "wait"
  /\ Dial(u, Hello)
  /\ phase' = [phase EXCEPT ![u] = "challenge"]
  /\ UNCHANGED <<starts, held, account, reg, sessionVars, pushes, drops>>

\* What is written to a connection that the relay has closed is lost.
HandleAuthFlow(u) ==
  /\ Incoming(u, "challenge") /\ TakeIn(u)
  /\ \/ /\ FirstIn(u) = "challenge"
        /\ up' = IF task[link[u]] = Closed THEN up
                 ELSE [up EXCEPT ![link[u]] = Append(@, Answer)]
        /\ phase' = [phase EXCEPT ![u] = "response"]
        /\ UNCHANGED link
     \/ /\ FirstIn(u) # "challenge"
        /\ HangUp(u, "wait") /\ UNCHANGED up
  /\ UNCHANGED <<starts, held, account, reg, task, sessionVars, pushes, drops>>

\* Bug: a refused response ends the connection loop.
HandleAuthResultReturning(u) ==
  /\ Incoming(u, "response") /\ TakeIn(u)
  /\ \/ /\ FirstIn(u) = "success"
        /\ phase' = [phase EXCEPT ![u] = "relay"]
        /\ UNCHANGED link
     \/ /\ FirstIn(u) # "success" /\ HangUp(u, "down")
  /\ UNCHANGED <<starts, held, account, reg, task, sessionVars, up, pushes, drops>>

\* Only a success as the very next frame counts.
HandleAuthResult(u) ==
  /\ Incoming(u, "response") /\ TakeIn(u)
  /\ \/ /\ FirstIn(u) = "success"
        /\ phase' = [phase EXCEPT ![u] = "relay"]
        /\ UNCHANGED link
     \/ /\ FirstIn(u) # "success" /\ HangUp(u, "wait")
  /\ UNCHANGED <<starts, held, account, reg, task, sessionVars, up, pushes,
                 drops>>

RelayLoop(u) ==
  /\ Incoming(u, "relay") /\ TakeIn(u)
  /\ UNCHANGED <<clientVars, account, reg, task, sessionVars, up, pushes, drops>>

\* The stream ends.
NoticeEnd(u) ==
  /\ link[u] # None /\ task[link[u]] = Closed /\ out[link[u]] = <<>>
  /\ HangUp(u, "wait")
  /\ UNCHANGED <<starts, held, account, reg, task, sessionVars, up, out,
                 pushes, drops>>

\* The connection breaks, or the program ends; the relay notices later.
Drop(u) ==
  /\ link[u] # None /\ drops < MaxDrops
  /\ HangUp(u, "wait")
  /\ drops' = drops + 1
  /\ UNCHANGED <<starts, held, account, reg, task, sessionVars, up, out, pushes>>

Quit(u) ==
  /\ phase[u] # "down" /\ starts[u] < MaxStarts[u]
  /\ HangUp(u, "down")
  /\ UNCHANGED <<starts, held, account, reg, task, sessionVars, up, out,
                 pushes, drops>>

-----------------------------------------------------------------------------
(* The relay: one task per connection *)

\* Bug: the channel takes one frame too many.
HasRoomForOneMore(c) == Len(out[c]) <= Capacity

HasRoom(c) == Len(out[c]) < Capacity

\* try_send: the frame is dropped when the channel is full.
TrySend(c, f) == IF HasRoom(c) THEN Append(out[c], f) ELSE out[c]

\* The select is biased to the cancel signal, which is looked at again once
\* a frame was read.
NextFrame(c, t) ==
  /\ task[c] = Reading /\ c \notin cancelled
  /\ up[c] # <<>> /\ Head(up[c]).type = t
  /\ up' = [up EXCEPT ![c] = Tail(@)]

Reply(c, r) == task' = [task EXCEPT ![c] = Responding(r)]

\* Bug: the newest registration wins.
RegisterReplacing(k) == account' = k

\* TOFU: the first registration wins, in one transaction.
RegisterAtomic(k) == account' = IF account = None THEN k ELSE account

HandleRegister(c) ==
  /\ NextFrame(c, "register")
  /\ LET k == Head(up[c]).keys IN
       \/ /\ c \in authed
          /\ Reply(c, "failure") /\ UNCHANGED account
       \/ /\ c \notin authed /\ RegisterAtomic(k)
          /\ IF account' = k THEN task' = [task EXCEPT ![c] = Entering]
                             ELSE Reply(c, "failure")
  /\ UNCHANGED <<clientVars, reg, sessionVars, out, pushes, drops>>

HandleAuthChallenge(c) ==
  /\ NextFrame(c, "hello")
  /\ \/ /\ c \in authed \/ account = None
        /\ Reply(c, "failure") /\ UNCHANGED challenge
     \/ /\ c \notin authed /\ account # None
        /\ challenge' = [challenge EXCEPT ![c] = "pending"]
        /\ Reply(c, "challenge")
  /\ UNCHANGED <<clientVars, account, reg, authed, cancelled, out, pushes, drops>>

\* The signature verifies under the identity key stored for the name.
Verified(c) == account # None /\ Identity(account) = Owner[c]

\* The pending challenge is taken whatever comes of it.
HandleAuthResponse(c) ==
  /\ NextFrame(c, "answer")
  /\ \/ /\ c \in authed
        /\ Reply(c, "failure") /\ UNCHANGED challenge
     \/ /\ c \notin authed
        /\ challenge' = [challenge EXCEPT ![c] = "none"]
        /\ IF challenge[c] = "pending" /\ Verified(c)
             THEN task' = [task EXCEPT ![c] = Entering]
             ELSE Reply(c, "failure")
  /\ UNCHANGED <<clientVars, account, reg, authed, cancelled, out, pushes, drops>>

\* Registry insert: the connection it displaces is told, and cancelled.
Insert(c) ==
  /\ reg' = c
  /\ IF reg = None THEN UNCHANGED <<out, cancelled>>
     ELSE /\ out' = [out EXCEPT ![reg] = TrySend(reg, "replaced")]
          /\ cancelled' = cancelled \cup {reg}

Enter(c) ==
  /\ task[c] = Entering
  /\ Insert(c)
  /\ authed' = authed \cup {c}
  /\ Reply(c, "success")
  /\ UNCHANGED <<clientVars, account, challenge, up, pushes, drops>>

\* Bug: the entry is removed whichever connection it is for.
RemoveAny(c) == reg' = IF c \in authed THEN None ELSE reg

\* remove_if_match
RemoveIfMatch(c) == reg' = IF reg = c THEN None ELSE reg

\* The task ends.  Of what it had queued for a client that is still there a
\* part goes out: the writer is given a second when the session was
\* replaced, and is aborted otherwise.
Finish(c) ==
  /\ RemoveIfMatch(c)
  /\ task' = [task EXCEPT ![c] = Closed]
  /\ authed' = authed \ {c} /\ cancelled' = cancelled \ {c}
  /\ challenge' = [challenge EXCEPT ![c] = "none"]
  /\ up' = [up EXCEPT ![c] = <<>>]
  /\ \E n \in 0 .. Len(out[c]) :
       /\ link[Owner[c]] # c => n = 0
       /\ out' = [out EXCEPT ![c] = SubSeq(@, 1, n)]

\* The answer is put in the channel; when that is full the connection ends.
\* After a login the waiting messages, receipts and confirmations follow.
Respond(c) ==
  /\ task[c].st = "respond"
  /\ \/ /\ ~HasRoom(c) /\ Finish(c)
     \/ /\ HasRoom(c)
        /\ out' = [out EXCEPT ![c] = Append(@, task[c].reply)]
        /\ \E n \in 0 .. MaxPages :
             task' = [task EXCEPT ![c] = IF n = 0 THEN Reading ELSE Delivering(n)]
             /\ (n > 0 => task[c].reply = "success")
        /\ UNCHANGED <<reg, sessionVars, up>>
  /\ UNCHANGED <<clientVars, account, pushes, drops>>

\* These frames wait for room; they are given up once the socket is broken.
Deliver(c) ==
  /\ task[c].st = "deliver"
  /\ LET n == task[c].left IN
       \/ /\ HasRoom(c)
          /\ out' = [out EXCEPT ![c] = Append(@, "data")]
          /\ task' = [task EXCEPT ![c] = IF n = 1 THEN Reading ELSE Delivering(n - 1)]
       \/ /\ link[Owner[c]] # c
          /\ task' = [task EXCEPT ![c] = Reading]
          /\ UNCHANGED out
  /\ UNCHANGED <<clientVars, account, reg, sessionVars, up, pushes, drops>>

\* The loop ends: cancelled, or the client has left (frames it had sent may
\* be lost with the connection).
Leave(c) ==
  /\ task[c] = Reading
  /\ c \in cancelled \/ link[Owner[c]] # c
  /\ Finish(c)
  /\ UNCHANGED <<clientVars, account, pushes, drops>>

\* send_to by another user's handler
Push ==
  /\ reg # None /\ pushes < MaxPushes
  /\ out' = [out EXCEPT ![reg] = TrySend(reg, "data")]
  /\ pushes' = pushes + 1
  /\ UNCHANGED <<clientVars, account, reg, task, sessionVars, up, drops>>

\* More than a minute passes since the challenge was made.
ChallengeExpires(c) ==
  /\ challenge[c] = "pending" /\ drops < MaxDrops
  /\ challenge' = [challenge EXCEPT ![c] = "late"]
  /\ drops' = drops + 1
  /\ UNCHANGED <<clientVars, account, reg, task, authed, cancelled, up, out, pushes>>

-----------------------------------------------------------------------------
ClientStep(u) ==
  Start(u) \/ HandleRegistered(u) \/ Connect(u) \/ HandleAuthFlow(u)
    \/ HandleAuthResult(u) \/ RelayLoop(u) \/ NoticeEnd(u)

ServerStep(c) ==
  HandleRegister(c) \/ HandleAuthChallenge(c) \/ HandleAuthResponse(c)
    \/ Enter(c) \/ Respond(c) \/ Deliver(c) \/ Leave(c)

Next == \/ \E u \in Clients : ClientStep(u) \/ Drop(u) \/ Quit(u)
        \/ \E c \in Conns : ServerStep(c) \/ ChallengeExpires(c)
        \/ Push

Spec == Init /\ [][Next]_vars

(* Both event loops keep running; a user whose client has stopped starts it *)
(* again; the operating system tells the relay about a connection whose     *)
(* client has left.  Nothing makes connections break or others push.        *)
FairSpec == Spec /\ \A u \in Clients : WF_vars(ClientStep(u))
                 /\ \A c \in Conns : WF_vars(ServerStep(c))

-----------------------------------------------------------------------------
(* The type invariant, with the bound of the outbound channel. *)
TypeOK ==
  /\ phase \in [Clients -> {"down", "register", "wait", "challenge", "response",
                            "relay"}]
  /\ link \in [Clients -> Conns \cup {None}]
  /\ starts \in [Clients -> Nat]
  /\ held \in [Clients -> Keys \cup {None}]
  /\ account \in Keys \cup {None}
  /\ reg \in Conns \cup {None}
  /\ task \in [Conns -> Tasks]
  /\ authed \subseteq Conns /\ cancelled \subseteq authed
  /\ challenge \in [Conns -> {"none", "pending", "late"}]
  /\ up \in [Conns -> Seq(Requests)]
  /\ out \in [Conns -> Seq(Replies)]
  /\ \A c \in Conns : Len(out[c]) <= Capacity
  /\ pushes \in 0 .. MaxPushes /\ drops \in 0 .. MaxDrops

(* A connection whose session is authenticated and that was not told to    *)
(* stop is the one the registry holds: the clean-up of an older connection *)
(* (remove_if_match, in any order with the newer one's login) never takes  *)
(* the entry of a live one, and a displaced connection always learns of it.*)
LiveIsRegistered ==
  /\ \A c \in authed \ cancelled : reg = c
  /\ reg # None => reg \in authed \ cancelled

(* A name belongs to one identity: whoever is reached under it, whoever    *)
(* believes to be logged in and whoever has saved registration keys is the *)
(* client that registered it, and the saved keys are the published ones,   *)
(* also when registrations of several starts and clients arrive late.      *)
OneOwner ==
  /\ reg # None => account # None /\ Identity(account) = Owner[reg]
  /\ \A u \in Clients :
       /\ phase[u] = "relay" => account # None /\ Identity(account) = u
       /\ held[u] # None => account = held[u]

AccountOf(u) == account # None /\ Identity(account) = u

\* The relay has let connection c in, or is about to.
Admitted(c) == task[c] = Entering \/ task[c] = Responding("success")
                 \/ "success" \in Range(out[c])

SessionsOpen == \A c \in authed : task[c] # Closed /\ task[c] # Entering

OwnRequests == \A c \in Conns : \A f \in Range(up[c]) :
                 f.type = "register" => Identity(f.keys) = Owner[c]

OwnersAdmitted ==
  \A c \in Conns : c \in authed \/ Admitted(c) => AccountOf(Owner[c])

OwnLinks == \A u \in Clients : link[u] # None => Owner[link[u]] = u

RegisterAlone ==
  \A u \in Clients : phase[u] = "register" /\ link[u] # None =>
    /\ \A f \in Range(up[link[u]]) : f = Register(<<u, starts[u]>>)
    /\ Admitted(link[u]) => account = <<u, starts[u]>>

(* The inductive invariant behind LiveIsRegistered and OneOwner: a client  *)
(* asks for its own keys only, so that only the owner of the account is    *)
(* let in; the connection it registers on carries nothing but that         *)
(* registration, so that being let in there means its keys were stored.    *)
IInv ==
  /\ TypeOK /\ LiveIsRegistered /\ OneOwner
  /\ SessionsOpen /\ OwnRequests /\ OwnersAdmitted /\ OwnLinks /\ RegisterAlone

(* Once connections stop breaking, the owner of the name ends up logged in *)
(* for good, on the connection others reach it on, whatever half-open      *)
(* connections, expired challenges and frames pushed ahead of the success  *)
(* it met before.                                                          *)
Reconnects ==
  <>[](account # None =>
         /\ phase[Identity(account)] = "relay"
         /\ reg = link[Identity(account)])

=============================================================================
