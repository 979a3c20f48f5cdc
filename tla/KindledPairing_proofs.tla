----------------------- MODULE KindledPairing_proofs -----------------------
(***************************************************************************)
(* Proofs about KindledPairing, for any number of HTTP threads, connect     *)
(* codes, rotations and crashes.                                           *)
(***************************************************************************)
EXTENDS KindledPairing, TLAPS

-----------------------------------------------------------------------------
(* Types: the two databases, the relay, and what a request has established  *)
(* by the step it stands before.                                           *)

HttpRequest == [pc : {"idle", "consume", "upsert", "confirm", "write"},
                job : {"none", "connect", "accept", "consent"},
                invite : InviteRef, peer : Key \cup {None}, new : Consent \cup {"none"}]
PeerRow == [consent : Consent, identity_pub : Key, previous : Key \cup {None}]

KeeperType ==
    /\ peers \in [Key -> {NoRow} \cup PeerRow]
    /\ consumed \subseteq InviteId
    /\ http \in [Thread -> HttpRequest]
    /\ \A t \in Thread : http[t].pc \in {"consume", "upsert"} =>
         http[t].invite \in InviteId /\ http[t].peer \in Key
    /\ \A t \in Thread : http[t].pc \in {"confirm", "write"} =>
         http[t].peer \in Key /\ http[t].new \in Consent

MailType ==
    /\ mailbox \in Seq(Notices)
    /\ poll \in [pc : {"idle", "handle"}, todo : Seq(Notices), got : Nat]
    /\ poll.got <= Len(mailbox)

RotatorType ==
    /\ key \in Key /\ invites \in [InviteId -> Key \cup {None}]
    /\ keeperState \in {"paired", "paused"} /\ notice \in Notices \cup {NoNotice}
    /\ rotate \in [Rotator -> [pc : {"idle", "write", "queue"}, old : Key \cup {None}, new : Key \cup {None}]]
    /\ \A r \in Rotator : /\ rotate[r].pc \in {"write", "queue"} => rotate[r].old \in Key
                          /\ rotate[r].pc = "queue" => rotate[r].new \in Key
    /\ tick \in [pc : {"idle", "drain", "push", "clear"}, idn : Key \cup {None}, env : Notices \cup {NoNotice}]
    /\ tick.pc \in {"push", "clear"} => tick.env \in Notices
    /\ owner \in Key \cup {None}

HistoryType ==
    /\ fresh \in 1..MaxRotations + 1 /\ crashes \in 0..MaxCrashes
    /\ imports \in [InviteId -> Nat] /\ told \subseteq Key

TypeInv == KeeperType /\ MailType /\ RotatorType /\ HistoryType

LEMMA TypeInit == Init => TypeInv
<1> SUFFICES ASSUME Init PROVE TypeInv
  OBVIOUS
<1>0. 0 \in Key
  BY PairingAssumption DEF Key
<1>1. KeeperType
  BY <1>0 DEF Init, KeeperType, PairedRow, PeerRow, Consent, Idle, HttpRequest, InviteRef
<1>2. MailType
  BY DEF Init, MailType, NoPoll
<1>3. RotatorType
  BY <1>0 DEF Init, RotatorType, NoRotate, NoTick
<1>4. HistoryType
  BY PairingAssumption DEF Init, HistoryType
<1> QED
  BY <1>1, <1>2, <1>3, <1>4 DEF TypeInv

\* What the handlers leave alone keeps its type.
LEMMA Untouched ==
    ASSUME TypeInv
    PROVE  /\ UNCHANGED keeperVars => KeeperType'
           /\ UNCHANGED <<poll, mailbox>> => MailType'
           /\ UNCHANGED <<rotatorVars, owner>> => RotatorType'
           /\ UNCHANGED historyVars => HistoryType'
BY DEF TypeInv, KeeperType, MailType, RotatorType, HistoryType, keeperVars, rotatorVars, historyVars

\* A request's slot may be freed.
LEMMA IdleRequest == Idle \in HttpRequest /\ Idle.pc = "idle"
BY DEF Idle, HttpRequest, InviteRef

\* The state that decides a move belongs to a row that exists, and the move
\* leads to a consent state.
LEMMA Moves ==
    ASSUME NEW from, NEW new \in AllowedTransitions(from)
    PROVE  from \in Consent /\ new \in Consent
BY DEF AllowedTransitions, Consent

LEMMA RequestTypes ==
    ASSUME TypeInv, NEW t \in Thread, Request(t)
    PROVE  KeeperType' /\ HistoryType' /\ UNCHANGED <<poll, rotatorVars, relayVars>>
<1>0. /\ KeeperType /\ HistoryType
      /\ http \in [Thread -> HttpRequest] /\ http[t] \in HttpRequest
      /\ invites \in [InviteId -> Key \cup {None}]
  BY DEF TypeInv, KeeperType, RotatorType
<1>1. ASSUME NEW p \in HttpRequest, http' = [http EXCEPT ![t] = p],
             p.pc \in {"consume", "upsert"} => p.invite \in InviteId /\ p.peer \in Key,
             p.pc \in {"confirm", "write"} => p.peer \in Key /\ p.new \in Consent,
             peers' \in [Key -> {NoRow} \cup PeerRow], consumed' \subseteq InviteId
      PROVE  KeeperType'
  BY <1>0, <1>1 DEF KeeperType
<1>2. ASSUME NEW i \in InviteId, Connect(t, i) \/ Accept(t, i)
      PROVE  KeeperType' /\ UNCHANGED <<poll, rotatorVars, relayVars, historyVars>>
  <2>1. PICK job \in {"connect", "accept"} : Start(t, job, i)
    BY <1>2 DEF Connect, Accept
  <2>2. invites[i] \in Key
    BY <1>0, <1>2 DEF Connect, Accept, ImportInvite
  <2> DEFINE p == [Idle EXCEPT !.pc = "consume", !.job = job, !.invite = i, !.peer = invites[i]]
  <2>3. http' = [http EXCEPT ![t] = p]
    BY <2>1 DEF Start
  <2>4. p \in HttpRequest /\ p.pc = "consume" /\ p.invite = i /\ p.peer = invites[i]
    BY <2>2 DEF HttpRequest, InviteRef, Idle
  <2> HIDE DEF p
  <2> QED
    BY <1>0, <1>1, <1>2, <2>2, <2>3, <2>4 DEF Connect, Accept, KeeperType
<1>3. ASSUME MarkInviteConsumed(t) PROVE KeeperType' /\ UNCHANGED <<poll, rotatorVars, relayVars, historyVars>>
  <2>1. http[t].invite \in InviteId /\ http[t].peer \in Key
    BY <1>0, <1>3 DEF MarkInviteConsumed, At, KeeperType
  <2>2. CASE http' = [http EXCEPT ![t] = Idle]
    BY <1>0, <1>1, <1>3, <2>1, <2>2, IdleRequest DEF MarkInviteConsumed, KeeperType
  <2>3. CASE Goto(t, "upsert")
    <3> DEFINE p == [http[t] EXCEPT !.pc = "upsert"]
    <3>1. p \in HttpRequest /\ p.invite = http[t].invite /\ p.peer = http[t].peer /\ p.pc = "upsert"
      BY <1>0 DEF HttpRequest
    <3>2. http' = [http EXCEPT ![t] = p]
      BY <2>3, <1>0 DEF Goto
    <3> HIDE DEF p
    <3> QED
      BY <1>0, <1>1, <1>3, <2>1, <3>1, <3>2 DEF MarkInviteConsumed, KeeperType
  <2> QED
    BY <1>3, <2>2, <2>3 DEF MarkInviteConsumed, Return
<1>4. ASSUME UpsertPeer(t) PROVE KeeperType' /\ HistoryType' /\ UNCHANGED <<poll, rotatorVars, relayVars>>
  <2>1. http[t].invite \in InviteId /\ http[t].peer \in Key
    BY <1>0, <1>4 DEF UpsertPeer, At, KeeperType
  <2> DEFINE k == http[t].peer
             row == [peers[k] EXCEPT !.consent = "pending_local", !.identity_pub = k]
             p == [http[t] EXCEPT !.pc = "confirm", !.new = "pending_remote"]
  <2>2. peers[k] \in {NoRow} \cup PeerRow
    BY <1>0, <2>1 DEF KeeperType
  <2>3. row \in PeerRow
    <3>1. CASE peers[k] = NoRow
      <4>1. [NoRow EXCEPT !.consent = "pending_local", !.identity_pub = k] \in PeerRow
        BY <2>1 DEF PeerRow, NoRow, Consent
      <4> QED
        BY <3>1, <4>1
    <3>2. CASE peers[k] \in PeerRow
      BY <2>1, <3>2 DEF PeerRow, Consent
    <3> QED
      BY <2>2, <3>1, <3>2
  <2>4. peers' = [peers EXCEPT ![k] = row]
    BY <1>4 DEF UpsertPeer
  <2>5. p \in HttpRequest /\ p.peer = k /\ p.pc = "confirm" /\ p.new = "pending_remote"
    BY <1>0 DEF HttpRequest, Consent
  <2>6. http' = [http EXCEPT ![t] = p]
    BY <1>0, <1>4 DEF UpsertPeer
  <2>7. HistoryType'
    BY <1>0, <1>4, <2>1 DEF UpsertPeer, HistoryType
  <2> HIDE DEF row, p
  <2>8. peers' \in [Key -> {NoRow} \cup PeerRow]
    BY <1>0, <2>1, <2>3, <2>4 DEF KeeperType
  <2>9. KeeperType'
    BY <1>0, <1>1, <1>4, <2>1, <2>5, <2>6, <2>8 DEF UpsertPeer, KeeperType, Consent
  <2> QED
    BY <1>4, <2>7, <2>9 DEF UpsertPeer
<1>5. ASSUME NEW k \in Key, NEW new \in Actions, AskConsent(t, k, new)
      PROVE  KeeperType' /\ UNCHANGED <<poll, rotatorVars, relayVars, historyVars>>
  <2> DEFINE p == [Idle EXCEPT !.pc = "confirm", !.job = "consent", !.peer = k, !.new = new]
  <2>1. new \in Consent
    BY PairingAssumption DEF Consent
  <2>2. http' = [http EXCEPT ![t] = p]
    BY <1>5 DEF AskConsent
  <2>3. p \in HttpRequest /\ p.pc = "confirm" /\ p.peer = k /\ p.new = new
    BY <2>1 DEF HttpRequest, InviteRef, Idle
  <2> HIDE DEF p
  <2> QED
    BY <1>0, <1>1, <1>5, <2>1, <2>2, <2>3 DEF AskConsent, KeeperType
<1>6. ASSUME CheckTransition(t) PROVE KeeperType' /\ UNCHANGED <<poll, rotatorVars, relayVars, historyVars>>
  <2>1. http[t].peer \in Key /\ http[t].new \in Consent
    BY <1>0, <1>6 DEF CheckTransition, At, KeeperType
  <2>2. CASE http' = [http EXCEPT ![t] = Idle]
    BY <1>0, <1>1, <1>6, <2>2, IdleRequest DEF CheckTransition, KeeperType
  <2>3. CASE Goto(t, "write")
    <3> DEFINE p == [http[t] EXCEPT !.pc = "write"]
    <3>1. p \in HttpRequest /\ p.new = http[t].new /\ p.peer = http[t].peer /\ p.pc = "write"
      BY <1>0 DEF HttpRequest
    <3>2. http' = [http EXCEPT ![t] = p]
      BY <2>3, <1>0 DEF Goto
    <3> HIDE DEF p
    <3> QED
      BY <1>0, <1>1, <1>6, <2>1, <3>1, <3>2 DEF CheckTransition, KeeperType
  <2> QED
    BY <1>6, <2>2, <2>3 DEF CheckTransition, Return
<1>7. ASSUME WriteConsent(t) PROVE KeeperType' /\ UNCHANGED <<poll, rotatorVars, relayVars, historyVars>>
  <2>1. http[t].peer \in Key /\ http[t].new \in Consent
    BY <1>0, <1>7 DEF WriteConsent, At, KeeperType
  <2>2. peers' \in [Key -> {NoRow} \cup PeerRow]
    <3> DEFINE row == [peers[http[t].peer] EXCEPT !.consent = http[t].new]
    <3>1. CASE peers' = peers
      BY <1>0, <3>1 DEF KeeperType
    <3>2. CASE peers[http[t].peer] # NoRow /\ peers' = [peers EXCEPT ![http[t].peer] = row]
      <4>1. peers[http[t].peer] \in PeerRow
        BY <1>0, <2>1, <3>2 DEF KeeperType
      <4>2. row \in PeerRow
        BY <2>1, <4>1 DEF PeerRow
      <4> HIDE DEF row
      <4> QED
        BY <1>0, <2>1, <3>2, <4>2 DEF KeeperType
    <3> QED
      BY <1>7, <3>1, <3>2 DEF WriteConsent
  <2>3. CASE http' = [http EXCEPT ![t] = Idle]
    BY <1>0, <1>1, <1>7, <2>2, <2>3, IdleRequest DEF WriteConsent, KeeperType
  <2>4. CASE http' = [http EXCEPT ![t].pc = "confirm", ![t].new = "paired"]
    <3> DEFINE p == [http[t] EXCEPT !.pc = "confirm", !.new = "paired"]
    <3>1. p \in HttpRequest /\ p.new = "paired" /\ p.peer = http[t].peer /\ p.pc = "confirm"
      BY <1>0 DEF HttpRequest, Consent
    <3>2. http' = [http EXCEPT ![t] = p]
      BY <2>4, <1>0
    <3> HIDE DEF p
    <3> QED
      BY <1>0, <1>1, <1>7, <2>1, <2>2, <3>1, <3>2 DEF WriteConsent, KeeperType, Consent
  <2> QED
    BY <1>7, <2>3, <2>4 DEF WriteConsent, Return
<1> QED
  BY <1>0, <1>2, <1>3, <1>4, <1>5, <1>6, <1>7, Untouched DEF Request, historyVars

\* The keeper's poll.
LEMMA PollTypes ==
    ASSUME TypeInv, Poll
    PROVE  KeeperType' /\ MailType' /\ HistoryType' /\ UNCHANGED <<rotatorVars, owner>>
<1>0. /\ KeeperType /\ MailType /\ HistoryType
      /\ poll \in [pc : {"idle", "handle"}, todo : Seq(Notices), got : Nat]
      /\ mailbox \in Seq(Notices) /\ Len(mailbox) \in Nat
  BY DEF TypeInv, MailType
<1>1. CASE Fetch
  <2>1. MailType'
    BY <1>0, <1>1 DEF Fetch, MailType, relayVars
  <2> QED
    BY <1>1, <2>1, Untouched DEF Fetch, relayVars, keeperVars, historyVars, KeeperType, TypeInv
<1>2. CASE HandleNotice
  <2> DEFINE n == Head(poll.todo)
  <2>1. n \in Notices /\ Tail(poll.todo) \in Seq(Notices)
    BY <1>0, <1>2 DEF HandleNotice
  <2>2. n.old \in Key /\ n.new \in Key
    BY <2>1 DEF Notices
  <2>3. MailType'
    BY <1>0, <1>2, <2>1 DEF HandleNotice, MailType, relayVars
  <2>4. HistoryType'
    BY <1>0, <1>2 DEF HandleNotice, HistoryType
  <2> HIDE DEF n
  <2>5. peers' \in [Key -> {NoRow} \cup PeerRow]
    <3>1. CASE peers' = peers
      BY <1>0, <3>1 DEF KeeperType
    <3>2. CASE NoticeApplies(n) /\ peers' = UpdatePeerIdentity(peers, n.old, n.new)
      <4> DEFINE row == [peers[n.old] EXCEPT !.identity_pub = n.new, !.previous = peers[n.old].identity_pub]
      <4>1. peers[n.old] \in PeerRow
        BY <1>0, <2>2, <3>2 DEF NoticeApplies, KeeperType
      <4>2. row \in PeerRow
        BY <2>2, <4>1 DEF PeerRow
      <4>3. peers' = [peers EXCEPT ![n.new] = row, ![n.old] = NoRow]
        BY <3>2 DEF UpdatePeerIdentity
      <4> HIDE DEF row
      <4> QED
        BY <1>0, <2>2, <4>2, <4>3 DEF KeeperType
    <3> QED
      BY <1>2, <3>1, <3>2 DEF HandleNotice, n
  <2>6. KeeperType'
    BY <1>0, <1>2, <2>5 DEF HandleNotice, KeeperType
  <2> QED
    BY <1>2, <2>3, <2>4, <2>6 DEF HandleNotice, relayVars
<1>3. CASE UpdateRaises
  <2>1. MailType'
    BY <1>0, <1>3 DEF UpdateRaises, MailType, NoPoll, relayVars
  <2> QED
    BY <1>0, <1>3, <2>1, Untouched DEF UpdateRaises, relayVars, KeeperType
<1>4. CASE Ack
  <2>1. SubSeq(mailbox, poll.got + 1, Len(mailbox)) \in Seq(Notices)
    BY <1>0
  <2>2. MailType'
    <3>1. mailbox' \in Seq(Notices) /\ Len(mailbox') \in Nat /\ poll' = NoPoll
      BY <1>4, <2>1 DEF Ack
    <3> QED
      BY <3>1 DEF MailType, NoPoll
  <2> QED
    BY <1>0, <1>4, <2>2, Untouched DEF Ack, KeeperType
<1> QED
  BY <1>1, <1>2, <1>3, <1>4 DEF Poll

\* The rotator's endpoints and its tick.
LEMMA RotatorTypes ==
    ASSUME TypeInv,
           \/ \E i \in InviteId : CreateInvite(i)
           \/ PauseKeeper \/ Tick
           \/ \E r \in Rotator : Rotate(r)
    PROVE  RotatorType' /\ MailType' /\ HistoryType' /\ UNCHANGED keeperVars
<1>0. RotatorType /\ MailType /\ HistoryType
  BY DEF TypeInv
<1>1. CASE \E i \in InviteId : CreateInvite(i)
  <2>1. RotatorType'
    BY <1>0, <1>1 DEF CreateInvite, RotatorType, relayVars
  <2> QED
    BY <1>1, <2>1, Untouched DEF CreateInvite, keeperVars, relayVars
<1>2. CASE PauseKeeper
  <2>1. RotatorType'
    BY <1>0, <1>2 DEF PauseKeeper, RotatorType, relayVars
  <2> QED
    BY <1>2, <2>1, Untouched DEF PauseKeeper, keeperVars, relayVars
<1>3. ASSUME NEW r \in Rotator, RotateLoad(r)
      PROVE  RotatorType' /\ UNCHANGED <<keeperVars, relayVars, historyVars>>
  BY <1>0, <1>3 DEF RotateLoad, RotatorType, relayVars
<1>4. ASSUME NEW r \in Rotator, RotateWrite(r)
      PROVE  RotatorType' /\ HistoryType' /\ UNCHANGED <<keeperVars, relayVars>>
  <2>1. fresh \in Key /\ fresh + 1 \in 1..MaxRotations + 1
    BY <1>0, <1>4, PairingAssumption DEF RotateWrite, HistoryType, Key
  <2>2. HistoryType'
    BY <1>0, <1>4, <2>1 DEF RotateWrite, HistoryType
  <2>3. RotatorType'
    BY <1>0, <1>4, <2>1 DEF RotateWrite, RotatorType, relayVars
  <2> QED
    BY <1>4, <2>2, <2>3 DEF RotateWrite
<1>5. ASSUME NEW r \in Rotator, QueueRotationNotice(r)
      PROVE  RotatorType' /\ HistoryType' /\ UNCHANGED <<keeperVars, relayVars>>
  <2>1. rotate[r].old \in Key /\ rotate[r].new \in Key
    BY <1>0, <1>5 DEF QueueRotationNotice, RotatorType
  <2>2. [old |-> rotate[r].old, new |-> rotate[r].new] \in Notices
    BY <2>1 DEF Notices
  <2>3. NoRotate \in [pc : {"idle", "write", "queue"}, old : Key \cup {None}, new : Key \cup {None}]
        /\ NoRotate.pc = "idle"
    BY DEF NoRotate
  <2>4. RotatorType'
    BY <1>0, <1>5, <2>2, <2>3 DEF QueueRotationNotice, RotatorType, relayVars
  <2>5. HistoryType'
    BY <1>0, <1>5, <2>1 DEF QueueRotationNotice, HistoryType
  <2> QED
    BY <1>5, <2>4, <2>5 DEF QueueRotationNotice
<1>6. CASE Tick
  <2> DEFINE Ticks == [pc : {"idle", "drain", "push", "clear"}, idn : Key \cup {None}, env : Notices \cup {NoNotice}]
  <2>1. tick \in Ticks /\ NoTick \in Ticks /\ NoTick.pc = "idle"
    BY <1>0 DEF RotatorType, NoTick
  <2>2. CASE StartTick
    <3>1. RotatorType'
      BY <1>0, <2>2 DEF StartTick, RotatorType
    <3> QED
      BY <2>2, <3>1, Untouched DEF StartTick, keeperVars
  <2>3. CASE Drain
    <3>1. RotatorType'
      BY <1>0, <2>1, <2>3 DEF Drain, RotatorType, relayVars
    <3> QED
      BY <2>3, <3>1, Untouched DEF Drain, keeperVars, relayVars
  <2>4. CASE NoticeExpired
    <3>1. RotatorType' /\ HistoryType'
      BY <1>0, <2>1, <2>4 DEF NoticeExpired, RotatorType, HistoryType, relayVars
    <3> QED
      BY <2>4, <3>1, Untouched DEF NoticeExpired, keeperVars, relayVars
  <2>5. ASSUME NEW ok \in BOOLEAN, PushNotice(ok)
        PROVE  RotatorType' /\ MailType' /\ HistoryType' /\ UNCHANGED keeperVars
    <3>1. tick.env \in Notices
      BY <1>0, <2>5 DEF PushNotice, RotatorType
    <3>2. mailbox' \in Seq(Notices) /\ Len(mailbox') \in Nat /\ Len(mailbox) \in Nat /\ Len(mailbox) <= Len(mailbox')
      BY <1>0, <2>5, <3>1 DEF PushNotice, MailType
    <3>3. MailType'
      BY <1>0, <2>5, <3>2 DEF PushNotice, MailType, keeperVars
    <3>4. RotatorType'
      BY <1>0, <2>1, <2>5, <3>1 DEF PushNotice, RotatorType
    <3> QED
      BY <2>5, <3>3, <3>4, Untouched DEF PushNotice
  <2>6. CASE ClearRotationNotice
    <3>1. RotatorType'
      BY <1>0, <2>1, <2>6 DEF ClearRotationNotice, RotatorType, relayVars
    <3> QED
      BY <2>6, <3>1, Untouched DEF ClearRotationNotice, keeperVars, relayVars
  <2> QED
    BY <1>6, <2>2, <2>3, <2>4, <2>5, <2>6 DEF Tick
<1> QED
  BY <1>0, <1>1, <1>2, <1>3, <1>4, <1>5, <1>6, Untouched DEF Rotate, keeperVars, relayVars

LEMMA CrashTypes ==
    ASSUME TypeInv, CrashKeeper \/ CrashRotator
    PROVE  TypeInv'
<1>0. KeeperType /\ MailType /\ RotatorType /\ HistoryType
  BY DEF TypeInv
<1>1. HistoryType'
  BY <1>0, PairingAssumption DEF CrashKeeper, CrashRotator, HistoryType
<1>2. CASE CrashKeeper
  <2>1. KeeperType'
    BY <1>0, <1>2, IdleRequest DEF CrashKeeper, KeeperType
  <2>2. MailType'
    BY <1>0, <1>2 DEF CrashKeeper, MailType, NoPoll, relayVars
  <2> QED
    BY <1>1, <1>2, <2>1, <2>2, Untouched DEF CrashKeeper, TypeInv, relayVars
<1>3. CASE CrashRotator
  <2>1. RotatorType'
    BY <1>0, <1>3 DEF CrashRotator, RotatorType, NoRotate, NoTick, relayVars
  <2> QED
    BY <1>1, <1>3, <2>1, Untouched DEF CrashRotator, TypeInv, keeperVars, relayVars
<1> QED
  BY <1>2, <1>3

LEMMA TypeNext == TypeInv /\ [Next]_vars => TypeInv'
<1> SUFFICES ASSUME TypeInv, [Next]_vars PROVE TypeInv'
  OBVIOUS
<1>1. CASE \E t \in Thread : Request(t)
  BY <1>1, RequestTypes, Untouched DEF TypeInv, relayVars
<1>2. CASE Poll
  BY <1>2, PollTypes, Untouched DEF TypeInv
<1>3. CASE UNCHANGED vars
  BY <1>3, Untouched DEF vars, keeperVars, relayVars, TypeInv
<1> QED
  BY <1>1, <1>2, <1>3, RotatorTypes, CrashTypes, Untouched DEF Next, TypeInv

LEMMA TypeAlways == Spec => []TypeInv
BY TypeInit, TypeNext, PTL DEF Spec

\* Both databases, the key file, the mailbox and the locals of every request and
\* tick hold what their columns allow, and a poll never counts more envelopes
\* than the relay still has (KindledLinkStore, poll_and_ingest).
THEOREM TypeCorrect == Spec => []TypeOK
<1>1. ASSUME TypeInv PROVE TypeOK
  <2>1. \A t \in Thread : http[t] \in HttpRequest
    BY <1>1 DEF TypeInv, KeeperType
  <2>2. \A t \in Thread :
        /\ http[t].pc \in {"idle", "consume", "upsert", "confirm", "write"}
        /\ http[t].job \in {"none", "connect", "accept", "consent"}
        /\ http[t].invite \in InviteRef
        /\ http[t].peer \in Key \cup {None}
        /\ http[t].new \in Consent \cup {"none"}
    BY <2>1 DEF HttpRequest
  <2>3. /\ poll.pc \in {"idle", "handle"} /\ poll.got \in 0..Len(mailbox)
        /\ \A i \in DOMAIN poll.todo : poll.todo[i] \in Notices
        /\ \A i \in DOMAIN mailbox : mailbox[i] \in Notices
    BY <1>1 DEF TypeInv, MailType
  <2>4. peers \in [Key -> {NoRow} \cup [consent : Consent, identity_pub : Key, previous : Key \cup {None}]]
        /\ consumed \subseteq InviteId
    BY <1>1 DEF TypeInv, KeeperType, PeerRow
  <2> QED
    BY <1>1, <2>2, <2>3, <2>4 DEF TypeOK, TypeInv, RotatorType, HistoryType
<1> QED
  BY <1>1, TypeAlways, PTL

-----------------------------------------------------------------------------
(* A code pairs once. *)

\* The requests that have consumed code i and not yet written its peer.
Importing(t, i) == http[t].pc = "upsert" /\ http[t].invite = i

\* Nobody imports a code that is not consumed; of those that bring a consumed one
\* at most one imports it, and only if nobody has.
OnceInv == \A i \in InviteId :
    /\ imports[i] <= 1
    /\ i \notin consumed => imports[i] = 0 /\ \A t \in Thread : ~Importing(t, i)
    /\ \A t \in Thread : Importing(t, i) => imports[i] = 0
    /\ \A t, u \in Thread : Importing(t, i) /\ Importing(u, i) => t = u

\* Where nobody starts to import and nothing is imported, nothing changes.
LEMMA NobodyImports ==
    ASSUME TypeInv, OnceInv, consumed \subseteq consumed', UNCHANGED imports,
           \A t \in Thread, i \in InviteId : Importing(t, i)' => Importing(t, i)
    PROVE  OnceInv'
BY DEF OnceInv

LEMMA OnceStep ==
    ASSUME TypeInv, OnceInv, NEW t \in Thread, Request(t)
    PROVE  OnceInv'
<1>0. /\ http \in [Thread -> HttpRequest] /\ http[t] \in HttpRequest /\ imports \in [InviteId -> Nat]
      /\ http[t].pc \in {"consume", "upsert"} => http[t].invite \in InviteId
  BY DEF TypeInv, KeeperType, HistoryType
<1>1. ASSUME NEW i \in InviteId, Connect(t, i) \/ Accept(t, i) PROVE OnceInv'
  <2>1. \A u \in Thread, j \in InviteId : Importing(u, j)' => Importing(u, j)
    BY <1>0, <1>1 DEF Connect, Accept, Start, Idle, Importing
  <2> QED
    BY <1>1, <2>1, NobodyImports DEF Connect, Accept, historyVars
<1>2. CASE MarkInviteConsumed(t)
  <2> DEFINE i == http[t].invite
  <2>1. i \in InviteId /\ consumed' = consumed \cup {i} /\ UNCHANGED imports
    BY <1>0, <1>2 DEF MarkInviteConsumed, At, historyVars
  <2>2. CASE i \in consumed /\ Return(t)
    <3>1. \A u \in Thread, j \in InviteId : Importing(u, j)' => Importing(u, j)
      BY <1>0, <2>2 DEF Return, Idle, Importing
    <3> QED
      BY <2>1, <3>1, NobodyImports
  <2>3. CASE i \notin consumed /\ Goto(t, "upsert")
    <3>1. \A u \in Thread, j \in InviteId : Importing(u, j)' => Importing(u, j) \/ (u = t /\ j = i)
      <4>1. http'[t] = [http[t] EXCEPT !.pc = "upsert"] /\ \A u \in Thread \ {t} : http'[u] = http[u]
        BY <1>0, <2>3 DEF Goto
      <4>2. http'[t].invite = i
        BY <1>0, <4>1 DEF HttpRequest
      <4> QED
        BY <4>1, <4>2 DEF Importing
    <3>2. imports[i] = 0 /\ \A u \in Thread : ~Importing(u, i)
      BY <2>1, <2>3 DEF OnceInv
    <3> HIDE DEF i
    <3> QED
      BY <1>0, <2>1, <3>1, <3>2 DEF OnceInv
  <2> QED
    BY <1>2, <2>2, <2>3 DEF MarkInviteConsumed
<1>3. CASE UpsertPeer(t)
  <2> DEFINE i == http[t].invite
  <2>1. i \in InviteId /\ Importing(t, i)
    BY <1>0, <1>3 DEF UpsertPeer, At, Importing
  <2>2. \A u \in Thread, j \in InviteId : Importing(u, j)' => Importing(u, j) /\ u # t
    BY <1>0, <1>3 DEF UpsertPeer, Importing
  <2>3. imports' = [imports EXCEPT ![i] = @ + 1] /\ UNCHANGED consumed
    BY <1>3 DEF UpsertPeer
  <2>4. imports[i] = 0 /\ i \in consumed /\ \A u \in Thread : Importing(u, i) => u = t
    BY <2>1 DEF OnceInv
  <2> HIDE DEF i
  <2> QED
    BY <1>0, <2>1, <2>2, <2>3, <2>4 DEF OnceInv
<1>4. ASSUME NEW k \in Key, NEW new \in Actions, AskConsent(t, k, new) PROVE OnceInv'
  <2>1. \A u \in Thread, j \in InviteId : Importing(u, j)' => Importing(u, j)
    BY <1>0, <1>4 DEF AskConsent, Idle, Importing
  <2> QED
    BY <1>4, <2>1, NobodyImports DEF AskConsent, historyVars
<1>5. CASE CheckTransition(t)
  <2>1. \A u \in Thread, j \in InviteId : Importing(u, j)' => Importing(u, j)
    <3>1. http'[t].pc # "upsert" /\ \A u \in Thread \ {t} : http'[u] = http[u]
      BY <1>0, <1>5 DEF CheckTransition, Goto, Return, Idle, HttpRequest
    <3> QED
      BY <3>1 DEF Importing
  <2> QED
    BY <1>5, <2>1, NobodyImports DEF CheckTransition, historyVars
<1>6. CASE WriteConsent(t)
  <2>1. \A u \in Thread, j \in InviteId : Importing(u, j)' => Importing(u, j)
    <3>1. http'[t].pc # "upsert" /\ \A u \in Thread \ {t} : http'[u] = http[u]
      BY <1>0, <1>6 DEF WriteConsent, Return, Idle, HttpRequest
    <3> QED
      BY <3>1 DEF Importing
  <2> QED
    BY <1>6, <2>1, NobodyImports DEF WriteConsent, historyVars
<1> QED
  BY <1>1, <1>2, <1>3, <1>4, <1>5, <1>6 DEF Request

\* However many requests bring one connect code, at once or after a crash,
\* import_invite succeeds for at most one of them: the row of consumed_invites is
\* inserted before the peer is written.
THEOREM CodePairsOnce == Spec => []InviteUsedOnce
<1>1. Init => OnceInv
  BY DEF Init, OnceInv, Importing, Idle
<1>2. TypeInv /\ OnceInv /\ [Next]_vars => OnceInv'
  <2> SUFFICES ASSUME TypeInv, OnceInv, [Next]_vars PROVE OnceInv'
    OBVIOUS
  <2>1. CASE \E t \in Thread : Request(t)
    BY <2>1, OnceStep
  <2>2. CASE UNCHANGED <<http, consumed, imports>>
    BY <2>2 DEF OnceInv, Importing
  <2>3. CASE CrashKeeper
    <3>1. \A t \in Thread, i \in InviteId : ~Importing(t, i)'
      BY <2>3 DEF CrashKeeper, Idle, Importing
    <3> QED
      BY <2>3, <3>1, NobodyImports DEF CrashKeeper
  <2>4. UNCHANGED vars \/ Poll \/ (\E i \in InviteId : CreateInvite(i)) \/ PauseKeeper
        \/ (\E r \in Rotator : Rotate(r)) \/ Tick \/ CrashRotator => UNCHANGED <<http, consumed, imports>>
    BY DEF vars, keeperVars, historyVars, Poll, Fetch, HandleNotice, UpdateRaises, Ack, CreateInvite, PauseKeeper,
       Rotate, RotateLoad, RotateWrite, QueueRotationNotice, Tick, StartTick, Drain, NoticeExpired, PushNotice,
       ClearRotationNotice, CrashRotator
  <2> QED
    BY <2>1, <2>2, <2>3, <2>4 DEF Next
<1>3. OnceInv => InviteUsedOnce
  BY DEF OnceInv, InviteUsedOnce
<1> QED
  BY <1>1, <1>2, <1>3, TypeAlways, PTL DEF Spec

-----------------------------------------------------------------------------
(* A row stands under the key it stores. *)

LEMMA RowStep ==
    ASSUME TypeInv, RowUnderItsKey, Next
    PROVE  RowUnderItsKey'
<1>0. /\ peers \in [Key -> {NoRow} \cup PeerRow] /\ http \in [Thread -> HttpRequest]
      /\ \A k \in Key : peers[k] # NoRow => peers[k].identity_pub = k
  BY DEF TypeInv, KeeperType, RowUnderItsKey
<1>1. ASSUME NEW t \in Thread, UpsertPeer(t) PROVE RowUnderItsKey'
  <2> DEFINE k == http[t].peer
             row == [peers[k] EXCEPT !.consent = "pending_local", !.identity_pub = k]
  <2>1. k \in Key
    BY <1>1 DEF UpsertPeer, At, TypeInv, KeeperType
  <2>2. peers' = [peers EXCEPT ![k] = row]
    BY <1>1 DEF UpsertPeer
  <2>3. row.identity_pub = k
    BY <1>0, <2>1 DEF PeerRow, NoRow
  <2> HIDE DEF row
  <2> QED
    BY <1>0, <2>1, <2>2, <2>3 DEF RowUnderItsKey
<1>2. ASSUME NEW t \in Thread, WriteConsent(t) PROVE RowUnderItsKey'
  <2> DEFINE row == [peers[http[t].peer] EXCEPT !.consent = http[t].new]
  <2>1. http[t].peer \in Key
    BY <1>2 DEF WriteConsent, At, TypeInv, KeeperType
  <2>2. CASE peers' = peers
    BY <2>2 DEF RowUnderItsKey
  <2>3. CASE peers[http[t].peer] # NoRow /\ peers' = [peers EXCEPT ![http[t].peer] = row]
    <3>1. row.identity_pub = http[t].peer
      BY <1>0, <2>1, <2>3 DEF PeerRow
    <3> HIDE DEF row
    <3> QED
      BY <1>0, <2>1, <2>3, <3>1 DEF RowUnderItsKey
  <2> QED
    BY <1>2, <2>2, <2>3 DEF WriteConsent
<1>3. ASSUME HandleNotice PROVE RowUnderItsKey'
  <2> DEFINE n == Head(poll.todo)
  <2>1. n.old \in Key /\ n.new \in Key
    <3>1. n \in Notices
      BY <1>3 DEF HandleNotice, TypeInv, MailType
    <3> QED
      BY <3>1 DEF Notices
  <2> HIDE DEF n
  <2>2. CASE peers' = peers
    BY <2>2 DEF RowUnderItsKey
  <2>3. CASE NoticeApplies(n) /\ peers' = UpdatePeerIdentity(peers, n.old, n.new)
    <3> DEFINE row == [peers[n.old] EXCEPT !.identity_pub = n.new, !.previous = peers[n.old].identity_pub]
    <3>1. peers[n.old] \in PeerRow
      BY <1>0, <2>1, <2>3 DEF NoticeApplies
    <3>2. row.identity_pub = n.new
      BY <3>1 DEF PeerRow
    <3>3. peers' = [peers EXCEPT ![n.new] = row, ![n.old] = NoRow]
      BY <2>3 DEF UpdatePeerIdentity
    <3> HIDE DEF row
    <3> QED
      BY <1>0, <2>1, <3>2, <3>3 DEF RowUnderItsKey
  <2> QED
    BY <1>3, <2>2, <2>3 DEF HandleNotice, n
<1>4. ASSUME NEW t \in Thread, Request(t), ~UpsertPeer(t), ~WriteConsent(t) PROVE UNCHANGED peers
  BY <1>4 DEF Request, Connect, Accept, MarkInviteConsumed, AskConsent, CheckTransition
<1>5. ASSUME Fetch \/ UpdateRaises \/ Ack \/ (\E i \in InviteId : CreateInvite(i)) \/ PauseKeeper
             \/ (\E r \in Rotator : Rotate(r)) \/ Tick \/ CrashKeeper \/ CrashRotator
      PROVE  UNCHANGED peers
  BY <1>5 DEF keeperVars, Fetch, UpdateRaises, Ack, CreateInvite, PauseKeeper, Rotate, RotateLoad, RotateWrite,
     QueueRotationNotice, Tick, StartTick, Drain, NoticeExpired, PushNotice, ClearRotationNotice, CrashKeeper, CrashRotator
<1>6. CASE UNCHANGED peers
  BY <1>6 DEF RowUnderItsKey
<1> QED
  BY <1>1, <1>2, <1>3, <1>4, <1>5, <1>6 DEF Next, Poll

\* The primary key of a row of peers stays the fingerprint of the key it stores,
\* whatever codes, consent changes and rotation notices interleave
\* (upsert_peer_from_invite, update_peer_identity).
THEOREM RowFound == Spec => []RowUnderItsKey
<1>1. Init => RowUnderItsKey
  BY DEF Init, RowUnderItsKey, PairedRow
<1>2. TypeInv /\ RowUnderItsKey /\ [Next]_vars => RowUnderItsKey'
  <2>1. ASSUME RowUnderItsKey, UNCHANGED vars PROVE RowUnderItsKey'
    BY <2>1 DEF vars, keeperVars, RowUnderItsKey
  <2> QED
    BY <2>1, RowStep
<1> QED
  BY <1>1, <1>2, TypeAlways, PTL DEF Spec
=============================================================================
