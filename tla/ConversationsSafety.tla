------------------------ MODULE ConversationsSafety ------------------------
(***************************************************************************)
(* Conversations, for every value of its constants: a contact counts as    *)
(* verified only for the key in use, and never beside a warning.           *)
(***************************************************************************)
EXTENDS Conversations, TLAPS

\* The inductive invariant: the property itself, with the types it needs.
VInv ==
  /\ DOMAIN key = Peers /\ DOMAIN verified = Peers
  /\ key = [p \in Peers |-> key[p]] /\ verified = [p \in Peers |-> verified[p]]
  /\ VerifiedIsCurrent

\* A step that touches neither the keys nor the verifications, and warns of
\* nobody.
LEMMA TrustUnchanged ==
  ASSUME VInv, UNCHANGED <<key, verified>>, warnings' \subseteq warnings
  PROVE  VInv'
  BY DEF VInv, VerifiedIsCurrent

\* track_peer_identity: a changed key takes the verification with it.
LEMMA TrackKeeps ==
  ASSUME VInv, NEW p \in Peers, NEW k, TrackPeerIdentity(p, k)
  PROVE  VInv'
<1>1. key' = [key EXCEPT ![p] = k]
  BY DEF TrackPeerIdentity, StoreIdentity
<1>2. CASE Changed(p, k)
  <2>1. verified' = [verified EXCEPT ![p] = None] /\ warnings' = warnings \cup {p}
    BY <1>2 DEF TrackPeerIdentity, StoreIdentity
  <2>2. /\ DOMAIN key' = Peers /\ DOMAIN verified' = Peers
        /\ key' = [q \in Peers |-> key'[q]] /\ verified' = [q \in Peers |-> verified'[q]]
    BY <1>1, <2>1, Zenon DEF VInv
  <2>3. verified'[p] = None /\ \A q \in Peers \ {p} : verified'[q] = verified[q]
                                                     /\ key'[q] = key[q]
    BY <1>1, <2>1 DEF VInv
  <2> QED BY <2>1, <2>2, <2>3 DEF VInv, VerifiedIsCurrent
<1>3. CASE ~Changed(p, k)
  <2>1. verified' = verified /\ warnings' = warnings
    BY <1>3 DEF TrackPeerIdentity, StoreIdentity
  <2>2. /\ DOMAIN key' = Peers /\ key' = [q \in Peers |-> key'[q]] /\ key'[p] = k
        /\ \A q \in Peers \ {p} : key'[q] = key[q]
    BY <1>1 DEF VInv
  <2>3. verified[p] # None => verified[p] = k
    BY <1>3 DEF Changed, VInv, VerifiedIsCurrent
  <2> QED BY <2>1, <2>2, <2>3 DEF VInv, VerifiedIsCurrent
<1> QED BY <1>2, <1>3

\* The user's steps.
LEMMA UserSteps ==
  ASSUME VInv, UserStep
  PROVE  VInv'
<1>1. ASSUME NEW p, OpenConversation(p) PROVE UNCHANGED <<key, verified, warnings>>
  BY <1>1 DEF OpenConversation, clientDb
<1>2. CASE \E p \in Peers \cup {Self} : Choose(p)
  BY <1>1, <1>2, TrustUnchanged DEF Choose
<1>3. CASE CloseDialog \/ ViewVerification \/ \E t \in Texts : Enter(t)
  BY <1>3, TrustUnchanged DEF CloseDialog, ViewVerification, ShowVerification, Enter, clientDb
<1>4. CASE ConfirmVerification
  <2>1. target \in Peers /\ key' = key
    BY <1>4 DEF ConfirmVerification, ShowVerification
  <2>2. verified' = verified \/ verified' = [verified EXCEPT ![target] = key[target]]
    BY <1>4 DEF ConfirmVerification
  <2>3. warnings' = IF verified'[target] # None THEN warnings \ {target} ELSE warnings
    BY <1>4 DEF ConfirmVerification
  <2>4. CASE verified' = verified
    BY <2>1, <2>3, <2>4, TrustUnchanged, Zenon
  <2>5. CASE verified' = [verified EXCEPT ![target] = key[target]]
    <3>1. /\ verified'[target] = key[target]
          /\ \A q \in Peers \ {target} : verified'[q] = verified[q]
          /\ DOMAIN verified' = Peers /\ verified' = [q \in Peers |-> verified'[q]]
      BY <2>1, <2>5 DEF VInv
    <3> QED BY <2>1, <2>3, <3>1, Zenon DEF VInv, VerifiedIsCurrent
  <2> QED BY <2>2, <2>4, <2>5
<1>5. CASE ClearVerification
  <2>1. /\ target \in Peers /\ key' = key /\ warnings' = warnings
        /\ verified' = [verified EXCEPT ![target] = None]
    BY <1>5 DEF ClearVerification, ShowVerification
  <2>2. /\ verified'[target] = None
        /\ \A q \in Peers \ {target} : verified'[q] = verified[q]
        /\ DOMAIN verified' = Peers /\ verified' = [q \in Peers |-> verified'[q]]
    BY <2>1 DEF VInv
  <2> QED BY <2>1, <2>2 DEF VInv, VerifiedIsCurrent
<1> QED BY <1>2, <1>3, <1>4, <1>5 DEF UserStep

\* What arrives from the relay, and what is worked off.
LEMMA InboundSteps ==
  ASSUME VInv, NetworkStep \/ PageStep,
         work.todo # <<>> => Head(work.todo) \in Msgs
  PROVE  VInv'
<1>1. CASE \E p \in Peers : HandleBundle(p)
  BY <1>1, TrackKeeps DEF HandleBundle
<1>2. CASE \E p \in Peers : RefreshSession(p)
  BY <1>2, TrustUnchanged DEF RefreshSession, clientDb, screen
<1>3. ASSUME NEW s, NEW by, Arrive(s, by) PROVE VInv'
  BY <1>3, TrustUnchanged DEF Arrive, clientDb, screen
<1>4. CASE ProcessInbound
  <2> DEFINE m == Head(work.todo)
  <2>1. From[m] \in Peers
    BY <1>4, ConversationsAssumption, Zenon DEF ProcessInbound
  <2>2. CASE Decrypts(m) /\ Identified(m)
    BY <1>4, <2>1, <2>2, TrackKeeps, Zenon DEF ProcessInbound, Opened
  <2>3. CASE Decrypts(m) /\ ~Identified(m)
    BY <1>4, <2>3, TrustUnchanged, Zenon DEF ProcessInbound, Opened
  <2>4. CASE ~Decrypts(m)
    BY <1>4, <2>4, TrustUnchanged, Zenon DEF ProcessInbound, Unopened, clientDb
  <2> QED BY <2>2, <2>3, <2>4, Zenon
<1>5. CASE OpenSender
  BY <1>5, TrustUnchanged, Zenon DEF OpenSender, OpenConversation, clientDb
<1>6. CASE ReadLive \/ ReadQueued \/ EndPage
  BY <1>6, TrustUnchanged DEF ReadLive, ReadQueued, EndPage, clientDb, screen
<1> QED BY <1>1, <1>2, <1>3, <1>4, <1>5, <1>6, Zenon DEF NetworkStep, PageStep

-----------------------------------------------------------------------------
\* What is being worked off is a sequence of inbound messages, and there is a
\* message in it while one is fresh.
WorkOK ==
  /\ work \in [todo : Seq(Msgs), by : {"none", "push", "page"}, fresh : BOOLEAN]
  /\ work.fresh => work.todo # <<>>

LEMMA WorkKeeps ==
  ASSUME WorkOK, [Next]_vars
  PROVE  WorkOK'
<1>0. work.todo # <<>> => Tail(work.todo) \in Seq(Msgs)
  BY DEF WorkOK
<1>1. ASSUME NEW s \in Seq(Msgs), NEW by \in {"push", "page"}, Arrive(s, by)
      PROVE  WorkOK'
  BY <1>1 DEF Arrive, WorkOK
<1>2. CASE NetworkStep
  <2>1. CASE \E p \in Peers : HandleBundle(p) \/ RefreshSession(p)
    BY <2>1 DEF HandleBundle, RefreshSession, WorkOK
  <2>2. CASE \E m \in Msgs : Arrive(<<m>>, "push")
    <3>1. PICK m \in Msgs : Arrive(<<m>>, "push")
      BY <2>2
    <3>2. <<m>> \in Seq(Msgs)
      OBVIOUS
    <3> QED BY <1>1, <3>1, <3>2, Zenon
  <2>3. CASE \E s \in Pages : Arrive(s, "page")
    BY <1>1, <2>3, ConversationsAssumption, Zenon
  <2> QED BY <1>2, <2>1, <2>2, <2>3, Zenon DEF NetworkStep
<1>3. CASE UserStep
  <2>1. work' = work
    BY <1>3 DEF UserStep, Choose, CloseDialog, ViewVerification, ConfirmVerification,
                ClearVerification, ShowVerification, Enter
  <2> QED BY <2>1, Zenon DEF WorkOK
<1>4. CASE ProcessInbound
  <2>1. ThisIs(TRUE) \/ ThisDone
    BY <1>4, Zenon DEF ProcessInbound
  <2>2. work.todo # <<>> /\ ~work.fresh
    BY <1>4 DEF ProcessInbound
  <2>3. CASE ThisIs(TRUE)
    BY <2>2, <2>3, Zenon DEF ThisIs, WorkOK
  <2>4. CASE ThisDone
    <3>1. work'.todo = Tail(work.todo) /\ work'.by = work.by /\ work'.fresh = FALSE
      BY <2>2, <2>4 DEF ThisDone, WorkOK
    <3>2. work' = [todo |-> Tail(work.todo), by |-> work.by, fresh |-> FALSE]
      BY <2>2, <2>4, <1>0, <3>1, Zenon DEF ThisDone, WorkOK
    <3> QED BY <1>0, <2>2, <3>2 DEF WorkOK
  <2> QED BY <2>1, <2>3, <2>4, Zenon
<1>5. CASE OpenSender
  BY <1>5 DEF OpenSender, WorkOK
<1>6. CASE ReadLive \/ ReadQueued
  <2>1. work.fresh /\ FreshDone
    BY <1>6 DEF ReadLive, ReadQueued
  <2>2. work.todo # <<>>
    BY <2>1 DEF WorkOK
  <2>3. work' = [todo |-> Tail(work.todo), by |-> work.by, fresh |-> FALSE]
    BY <2>1, <2>2, <1>0, Zenon DEF FreshDone, WorkOK
  <2> QED BY <1>0, <2>2, <2>3 DEF WorkOK
<1>7. CASE EndPage \/ Restart
  <2>1. work' = Idle
    BY <1>7 DEF EndPage, Restart
  <2> QED BY <2>1 DEF Idle, WorkOK
<1>8. CASE UNCHANGED vars
  BY <1>8 DEF vars, WorkOK
<1> QED BY <1>2, <1>3, <1>4, <1>5, <1>6, <1>7, <1>8, Zenon DEF Next, PageStep

LEMMA NextVInv ==
  ASSUME VInv, WorkOK, [Next]_vars
  PROVE  VInv'
<1>1. work.todo # <<>> => Head(work.todo) \in Msgs
  BY DEF WorkOK
<1>2. CASE Restart \/ UNCHANGED vars
  BY <1>2, TrustUnchanged DEF Restart, vars, clientDb, screen
<1> QED BY <1>1, <1>2, UserSteps, InboundSteps DEF Next

\* A contact is verified only for the key in use and never beside a warning,
\* whatever arrives, is confirmed, fails or is restarted in between
\* (track_peer_identity, store_peer_identity_key, confirm_verification).
THEOREM VerifiedKeyInUse == Spec => []VerifiedIsCurrent
<1>1. Init => VInv /\ WorkOK
  BY DEF Init, VInv, WorkOK, Idle, VerifiedIsCurrent
<1>2. VInv /\ WorkOK /\ [Next]_vars => VInv' /\ WorkOK'
  BY NextVInv, WorkKeeps
<1>3. VInv => VerifiedIsCurrent
  BY DEF VInv
<1> QED BY <1>1, <1>2, <1>3, PTL DEF Spec

=============================================================================
