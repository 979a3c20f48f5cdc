--------------------------- MODULE KindledPairing ---------------------------
(***************************************************************************)
(* Pairing, consent and key rotation of a Kindled link.                     *)
(*                                                                          *)
(* Two Kindleds, each in the role the other one lacks.  The keeper holds a  *)
(* row of `peers' for the other: its user pastes connect codes, accepts     *)
(* invites and changes consent over HTTP, its tick applies rotation         *)
(* notices.  The rotator owns the identity: it issues codes, replaces its   *)
(* key file, queues notices and sends them from its tick.  The HTTP         *)
(* endpoints run in threads of their own.  Every method of KindledLinkStore *)
(* commits by itself, and set_consent reads before it writes.               *)
(*                                                                          *)
(* A key is the number of its generation; its fingerprint, which is the     *)
(* peer_id of a row, is injective and so is the number again.               *)
(***************************************************************************)
EXTENDS Integers, Sequences, FiniteSets

CONSTANTS
    Thread,          \* HTTP threads of the keeper
    Rotator,         \* HTTP threads of the rotator that run the rotate endpoint
    InviteId,        \* ids of the codes the rotator's user may generate
    MaxRotations,    \* bound: keys generated after the first
    MaxCrashes,      \* bound: crashes of either process
    Actions          \* consent states the keeper's user may ask for

ASSUME PairingAssumption ==
    /\ IsFiniteSet(Thread) /\ IsFiniteSet(Rotator) /\ IsFiniteSet(InviteId)
    /\ MaxRotations \in Nat /\ MaxCrashes \in Nat
    /\ Actions \subseteq {"paused", "paired", "revoked", "blocked"}

VARIABLES
    \* the keeper's kindled_link.db and threads
    peers,      \* peer_id -> [consent, identity_pub, previous] or NoRow
    consumed,   \* consumed_invites
    http,       \* thread -> the request it serves and where it stands
    poll,       \* the tick's poll_and_ingest: what it fetched and has handled
    \* the rotator's files, rows and threads
    key,        \* the key file
    invites,    \* invite_id -> the identity_pub signed into it
    keeperState,\* consent_state of the rotator's own row for the keeper
    notice,     \* the row of pending_rotation_notices for the keeper
    rotate,     \* thread -> the rotate request
    tick,       \* the rotator's tick: the identity it loaded, the notice in hand
    \* the relay
    owner,      \* registered owner of the rotator's mailbox
    mailbox,    \* the keeper's mailbox: rotation notices, oldest first
    \* bounds and history
    fresh,      \* next key generation
    crashes,
    imports,    \* invite_id -> successful imports
    told        \* old keys whose notice was queued while the keeper had their row

keeperVars  == <<peers, consumed, http, poll>>
rotatorVars == <<key, invites, keeperState, notice, rotate, tick>>
relayVars   == <<owner, mailbox>>
historyVars == <<fresh, crashes, imports, told>>
vars == <<keeperVars, rotatorVars, relayVars, historyVars>>

Key    == 0..MaxRotations
None   == -1
NoRow  == [consent |-> "none", identity_pub |-> None, previous |-> None]
NoNotice == [old |-> None, new |-> None]
Notices  == [old : Key, new : Key]

Consent == {"pending_local", "pending_remote", "paired", "paused", "revoked", "blocked"}

AllowedTransitions(from) ==
    CASE from = "pending_local"  -> {"pending_remote", "paired", "revoked", "blocked"}
      [] from = "pending_remote" -> {"paired", "revoked", "blocked"}
      [] from = "paired"         -> {"paused", "revoked", "blocked"}
      [] from = "paused"         -> {"paired", "revoked", "blocked"}
      [] from = "revoked"        -> {"blocked"}
      [] OTHER                   -> {}

\* A request that is not running.
Idle    == [pc |-> "idle", job |-> "none", invite |-> None, peer |-> None, new |-> "none"]
NoPoll  == [pc |-> "idle", todo |-> <<>>, got |-> 0]
NoTick  == [pc |-> "idle", idn |-> None, env |-> NoNotice]
NoRotate == [pc |-> "idle", old |-> None, new |-> None]

InviteRef == InviteId \cup {None}

\* The type invariant: both databases, the mailboxes and the locals of each side.
TypeOK ==
    /\ peers \in [Key -> {NoRow} \cup [consent : Consent, identity_pub : Key,
                                        previous : Key \cup {None}]]
    /\ consumed \subseteq InviteId
    /\ \A t \in Thread :
        /\ http[t].pc \in {"idle", "consume", "upsert", "confirm", "write"}
        /\ http[t].job \in {"none", "connect", "accept", "consent"}
        /\ http[t].invite \in InviteRef
        /\ http[t].peer \in Key \cup {None}
        /\ http[t].new \in Consent \cup {"none"}
    /\ poll.pc \in {"idle", "handle"} /\ poll.got \in 0..Len(mailbox)
    /\ \A i \in DOMAIN poll.todo : poll.todo[i] \in Notices
    /\ key \in Key
    /\ invites \in [InviteId -> Key \cup {None}]
    /\ keeperState \in {"paired", "paused"}
    /\ notice \in Notices \cup {NoNotice}
    /\ rotate \in [Rotator -> [pc : {"idle", "write", "queue"}, old : Key \cup {None},
                               new : Key \cup {None}]]
    /\ tick \in [pc : {"idle", "drain", "push", "clear"},
                 idn : Key \cup {None}, env : Notices \cup {NoNotice}]
    /\ owner \in Key \cup {None}
    /\ \A i \in DOMAIN mailbox : mailbox[i] \in Notices
    /\ fresh \in 1..MaxRotations + 1
    /\ crashes \in 0..MaxCrashes
    /\ imports \in [InviteId -> Nat]
    /\ told \subseteq Key

PairedRow == [consent |-> "paired", identity_pub |-> 0, previous |-> None]

\* The two have paired before; a new key has no row yet.
Init ==
    /\ peers = [k \in Key |-> IF k = 0 THEN PairedRow ELSE NoRow]
    /\ consumed = {}
    /\ http = [t \in Thread |-> Idle]
    /\ poll = NoPoll
    /\ key = 0
    /\ invites = [i \in InviteId |-> None]
    /\ keeperState = "paired"
    /\ notice = NoNotice
    /\ rotate = [r \in Rotator |-> NoRotate]
    /\ tick = NoTick
    /\ owner = None
    /\ mailbox = <<>>
    /\ fresh = 1
    /\ crashes = 0
    /\ imports = [i \in InviteId |-> 0]
    /\ told = {}

-----------------------------------------------------------------------------
(* The keeper's endpoints: connect, invite/accept and consent.              *)

At(t, pc) == http[t].pc = pc
Goto(t, pc) == http' = [http EXCEPT ![t].pc = pc]
Return(t) == http' = [http EXCEPT ![t] = Idle]

Start(t, job, i) ==
    http' = [http EXCEPT ![t] = [Idle EXCEPT !.pc = "consume", !.job = job,
                                             !.invite = i, !.peer = invites[i]]]

\* The checks of import_invite before its first write: a consumed code is
\* refused.  Consumption is for ever, so that reading it together with the
\* peer's row lets no request through that the INSERT does not stop.
ImportInvite(i) == invites[i] # None /\ i \notin consumed

\* connect reads the peer the code names and stops if it is already paired.
Connect(t, i) ==
    /\ At(t, "idle") /\ ImportInvite(i)
    /\ peers[invites[i]].consent # "paired"
    /\ Start(t, "connect", i)
    /\ UNCHANGED <<peers, consumed, poll, rotatorVars, relayVars, historyVars>>

Accept(t, i) ==
    /\ At(t, "idle") /\ ImportInvite(i)
    /\ Start(t, "accept", i)
    /\ UNCHANGED <<peers, consumed, poll, rotatorVars, relayVars, historyVars>>

\* Mutant: the key of consumed_invites is not unique.
MarkAgain(t) ==
    /\ At(t, "consume")
    /\ consumed' = consumed \cup {http[t].invite}
    /\ Goto(t, "upsert")
    /\ UNCHANGED <<peers, poll, rotatorVars, relayVars, historyVars>>

\* The INSERT raises when another thread consumed the invite in between.
MarkInviteConsumed(t) ==
    /\ At(t, "consume")
    /\ consumed' = consumed \cup {http[t].invite}
    /\ IF http[t].invite \in consumed THEN Return(t) ELSE Goto(t, "upsert")
    /\ UNCHANGED <<peers, poll, rotatorVars, relayVars, historyVars>>

\* The upsert writes pending_local over whatever the row said and keeps its
\* previous_identity_pub.
UpsertPeer(t) ==
    /\ At(t, "upsert")
    /\ peers' = [peers EXCEPT ![http[t].peer] =
                    [@ EXCEPT !.consent = "pending_local", !.identity_pub = http[t].peer]]
    /\ imports' = [imports EXCEPT ![http[t].invite] = @ + 1]
    /\ told' = told \ {http[t].peer}
    /\ http' = [http EXCEPT ![t].pc = "confirm", ![t].new = "pending_remote"]
    /\ UNCHANGED <<consumed, poll, rotatorVars, relayVars, fresh, crashes>>

\* The consent endpoint, with the action already mapped to a state.  The app
\* offers the peers it listed, so the row was there when the user asked.
AskConsent(t, k, new) ==
    /\ At(t, "idle") /\ peers[k] # NoRow
    /\ http' = [http EXCEPT ![t] = [Idle EXCEPT !.pc = "confirm", !.job = "consent",
                                                !.peer = k, !.new = new]]
    /\ UNCHANGED <<peers, consumed, poll, rotatorVars, relayVars, historyVars>>

\* set_consent, first half: the current state decides whether the move is legal.
CheckTransition(t) ==
    LET new == http[t].new IN
    /\ At(t, "confirm")
    /\ IF new \in AllowedTransitions(peers[http[t].peer].consent)
       THEN Goto(t, "write") ELSE Return(t)
    /\ UNCHANGED <<peers, consumed, poll, rotatorVars, relayVars, historyVars>>

\* set_consent, second half: UPDATE ... WHERE peer_id = ?.  The row may have
\* moved to another key meanwhile; then nothing is updated.  connect goes on
\* from pending_remote to paired, the others answer.
WriteConsent(t) ==
    LET r == http[t] IN
    /\ At(t, "write")
    /\ peers' = IF peers[r.peer] = NoRow THEN peers
                ELSE [peers EXCEPT ![r.peer].consent = r.new]
    /\ IF r.job = "connect" /\ r.new = "pending_remote"
       THEN http' = [http EXCEPT ![t].pc = "confirm", ![t].new = "paired"]
       ELSE Return(t)
    /\ UNCHANGED <<consumed, poll, rotatorVars, relayVars, historyVars>>

-----------------------------------------------------------------------------
(* The keeper's tick: rotation notices in poll_and_ingest.                  *)

InboundBlocked == {"paused", "revoked", "blocked"}

Fetch ==
    /\ poll.pc = "idle" /\ mailbox # <<>>
    /\ poll' = [pc |-> "handle", todo |-> mailbox, got |-> Len(mailbox)]
    /\ UNCHANGED <<peers, consumed, http, rotatorVars, relayVars, historyVars>>

\* Mutant: the identity changes and the primary key does not.
UpdateIdentityOnly(rows, old, new) ==
    [rows EXCEPT ![old].identity_pub = new, ![old].previous = rows[old].identity_pub]

UpdatePeerIdentity(rows, old, new) ==
    [rows EXCEPT ![new] = [rows[old] EXCEPT !.identity_pub = new,
                                            !.previous = rows[old].identity_pub],
                 ![old] = NoRow]

\* _handle_key_rotation_notice: the sender is looked up by its old key, the
\* signature is checked against the stored key, and a notice that says nothing
\* new or goes back to the previous key is ignored.
NoticeApplies(n) ==
    LET row == peers[n.old] IN
    /\ row # NoRow
    /\ row.consent \notin InboundBlocked
    /\ row.identity_pub = n.old
    /\ n.new \notin {row.identity_pub, row.previous}

HandleNotice ==
    LET n == Head(poll.todo) IN
    /\ poll.pc = "handle" /\ poll.todo # <<>>
    /\ NoticeApplies(n) => peers[n.new] = NoRow
    /\ peers' = IF NoticeApplies(n) THEN UpdatePeerIdentity(peers, n.old, n.new) ELSE peers
    /\ poll' = [poll EXCEPT !.todo = Tail(@)]
    /\ told' = IF peers[n.old].consent \in InboundBlocked THEN told \ {n.old} ELSE told
    /\ UNCHANGED <<consumed, http, rotatorVars, relayVars, fresh, crashes, imports>>

\* The new key has a row already, from a code the user pasted: the UPDATE of
\* the primary key raises, and the poll ends before it acks anything.
UpdateRaises ==
    LET n == Head(poll.todo) IN
    /\ poll.pc = "handle" /\ poll.todo # <<>>
    /\ NoticeApplies(n) /\ peers[n.new] # NoRow
    /\ poll' = NoPoll
    /\ UNCHANGED <<peers, consumed, http, rotatorVars, relayVars, historyVars>>

\* Mutant: the poll's list is not reset.
AckKeepsPoll ==
    /\ poll.pc = "handle" /\ poll.todo = <<>>
    /\ mailbox' = SubSeq(mailbox, poll.got + 1, Len(mailbox))
    /\ poll' = [poll EXCEPT !.pc = "idle"]
    /\ UNCHANGED <<peers, consumed, http, rotatorVars, owner, historyVars>>

\* Everything that was fetched is acked; what arrived meanwhile stays.
Ack ==
    /\ poll.pc = "handle" /\ poll.todo = <<>>
    /\ mailbox' = SubSeq(mailbox, poll.got + 1, Len(mailbox))
    /\ poll' = NoPoll
    /\ UNCHANGED <<peers, consumed, http, rotatorVars, owner, historyVars>>

-----------------------------------------------------------------------------
(* The rotator's endpoints: my-code, consent for the keeper, rotate.        *)

CreateInvite(i) ==
    /\ invites[i] = None
    /\ invites' = [invites EXCEPT ![i] = key]
    /\ UNCHANGED <<keeperVars, key, keeperState, notice, rotate, tick, relayVars, historyVars>>

\* The rotator's user pauses and resumes the keeper.
PauseKeeper ==
    /\ keeperState' = IF keeperState = "paired" THEN "paused" ELSE "paired"
    /\ UNCHANGED <<keeperVars, key, invites, notice, rotate, tick, relayVars, historyVars>>

\* KindledIdentity.rotate loads the old key before it takes the file lock.
RotateLoad(r) ==
    /\ rotate[r].pc = "idle" /\ fresh <= MaxRotations
    /\ rotate' = [rotate EXCEPT ![r] = [pc |-> "write", old |-> key, new |-> None]]
    /\ UNCHANGED <<keeperVars, key, invites, keeperState, notice, tick, relayVars, historyVars>>

RotateWrite(r) ==
    /\ rotate[r].pc = "write" /\ fresh <= MaxRotations
    /\ key' = fresh
    /\ fresh' = fresh + 1
    /\ rotate' = [rotate EXCEPT ![r].pc = "queue", ![r].new = fresh]
    /\ UNCHANGED <<keeperVars, invites, keeperState, notice, tick, relayVars, crashes,
                   imports, told>>

\* Mutant: the notice is announced in the name of the new key.
QueueSignedByNew(r) ==
    /\ rotate[r].pc = "queue"
    /\ notice' = IF keeperState = "paired"
                 THEN [old |-> rotate[r].new, new |-> rotate[r].new] ELSE notice
    /\ told' = IF keeperState = "paired" /\ peers[rotate[r].old] # NoRow
               THEN told \cup {rotate[r].old} ELSE told
    /\ rotate' = [rotate EXCEPT ![r] = NoRotate]
    /\ UNCHANGED <<keeperVars, key, invites, keeperState, tick, relayVars, fresh, crashes,
                   imports>>

\* list_paired_peers, then one notice per paired peer; a second rotation
\* replaces a notice that is still queued.
QueueRotationNotice(r) ==
    /\ rotate[r].pc = "queue"
    /\ notice' = IF keeperState = "paired"
                 THEN [old |-> rotate[r].old, new |-> rotate[r].new] ELSE notice
    /\ told' = IF keeperState = "paired" /\ peers[rotate[r].old] # NoRow
               THEN told \cup {rotate[r].old} ELSE told
    /\ rotate' = [rotate EXCEPT ![r] = NoRotate]
    /\ UNCHANGED <<keeperVars, key, invites, keeperState, tick, relayVars, fresh, crashes,
                   imports>>

-----------------------------------------------------------------------------
(* The rotator's tick.                                                      *)

\* _run_kindled_link_tick loads the identity and registers the mailbox, of
\* which the relay keeps the first owner.  The poll that follows is refused to
\* anyone else, and survives that as it survives any RelayUnavailableError.
StartTick ==
    /\ tick.pc = "idle"
    /\ tick' = [tick EXCEPT !.pc = "drain", !.idn = key]
    /\ owner' = IF owner = None THEN key ELSE owner
    /\ UNCHANGED <<keeperVars, key, invites, keeperState, notice, rotate, mailbox, historyVars>>

\* _drain_pending_rotation_notices reads the queue ...
Drain ==
    /\ tick.pc = "drain"
    /\ tick' = IF notice = NoNotice THEN NoTick
               ELSE [tick EXCEPT !.pc = "push", !.env = notice]
    /\ UNCHANGED <<keeperVars, key, invites, keeperState, notice, rotate, relayVars, historyVars>>

\* ... drops an expired notice ...
NoticeExpired ==
    /\ tick.pc = "push"
    /\ notice' = NoNotice
    /\ told' = told \ {tick.env.old}
    /\ tick' = NoTick
    /\ UNCHANGED <<keeperVars, key, invites, keeperState, rotate, relayVars, fresh, crashes,
                   imports>>

\* ... pushes it, or leaves it queued when the relay does not answer ...
PushNotice(ok) ==
    /\ tick.pc = "push"
    /\ mailbox' = IF ok THEN Append(mailbox, tick.env) ELSE mailbox
    /\ tick' = IF ok THEN [tick EXCEPT !.pc = "clear"] ELSE NoTick
    /\ UNCHANGED <<keeperVars, key, invites, keeperState, notice, rotate, owner, historyVars>>

\* ... and deletes the row of the peer, whatever it holds by now.
ClearRotationNotice ==
    /\ tick.pc = "clear"
    /\ notice' = NoNotice
    /\ tick' = NoTick
    /\ UNCHANGED <<keeperVars, key, invites, keeperState, rotate, relayVars, historyVars>>

-----------------------------------------------------------------------------
(* Either process may die; rows, key file and relay stay.                   *)

CrashKeeper ==
    /\ crashes < MaxCrashes /\ crashes' = crashes + 1
    /\ http' = [t \in Thread |-> Idle]
    /\ poll' = NoPoll
    /\ UNCHANGED <<peers, consumed, rotatorVars, relayVars, fresh, imports, told>>

CrashRotator ==
    /\ crashes < MaxCrashes /\ crashes' = crashes + 1
    /\ rotate' = [r \in Rotator |-> NoRotate]
    /\ tick' = NoTick
    /\ UNCHANGED <<keeperVars, key, invites, keeperState, notice, relayVars, fresh, imports, told>>

Request(t) ==
    \/ \E i \in InviteId : Connect(t, i) \/ Accept(t, i)
    \/ MarkInviteConsumed(t) \/ UpsertPeer(t)
    \/ \E k \in Key, new \in Actions : AskConsent(t, k, new)
    \/ CheckTransition(t) \/ WriteConsent(t)

Poll == Fetch \/ HandleNotice \/ UpdateRaises \/ Ack

Rotate(r) == RotateLoad(r) \/ RotateWrite(r) \/ QueueRotationNotice(r)

Tick ==
    \/ StartTick \/ Drain \/ NoticeExpired
    \/ \E ok \in BOOLEAN : PushNotice(ok)
    \/ ClearRotationNotice

Next ==
    \/ \E t \in Thread : Request(t)
    \/ Poll
    \/ \E i \in InviteId : CreateInvite(i)
    \/ PauseKeeper
    \/ \E r \in Rotator : Rotate(r)
    \/ Tick
    \/ CrashKeeper \/ CrashRotator

Spec == Init /\ [][Next]_vars

(* The two ticks are called again and again by their supervisors, and a     *)
(* request that has begun runs to its end.  The relay answers in the end.   *)
FairSpec ==
    /\ Spec
    /\ WF_vars(Poll)
    /\ WF_vars(StartTick \/ Drain \/ ClearRotationNotice)
    /\ SF_vars(PushNotice(TRUE))
    /\ \A r \in Rotator : WF_vars(QueueRotationNotice(r))
    /\ \A t \in Thread : WF_vars(MarkInviteConsumed(t) \/ UpsertPeer(t)
                                   \/ CheckTransition(t) \/ WriteConsent(t))

-----------------------------------------------------------------------------
(* Properties.                                                              *)

\* A connect code pairs once: however many requests bring the same code, at
\* the same time or after a crash, import_invite succeeds for one of them.
InviteUsedOnce == \A i \in InviteId : imports[i] <= 1

\* The primary key of a row is the fingerprint of the identity it stores, so
\* that the next envelope of the peer finds it.
RowUnderItsKey == \A k \in Key : peers[k] # NoRow => peers[k].identity_pub = k

\* A key rotation reaches the peers it is announced to: once the notice is
\* queued, the row the keeper has for the old key is moved to the new one or
\* joined by a row of it, whatever the relay refuses and wherever either
\* process dies, unless the notice expires, arrives while the keeper has cut
\* the peer off, or is overtaken by a code of the old key pasted again.
RotationLearned ==
    \A k \in Key : k \in told ~> (k \notin told \/ peers[k] = NoRow \/ peers[key] # NoRow)

\* A Kindled that rotated its key still reads its mailbox: when its tick
\* polls, the relay knows it as the owner.
RotatedStillReads == tick.pc = "drain" => owner = tick.idn
=============================================================================
