-------------------------- MODULE KindledTransport --------------------------
(***************************************************************************)
(* The kindled-link/1 transport of brain/kindled_link: the three-leg       *)
(* session handshake (session.py), sealed messages (transport.py,          *)
(* protocol.py), the SQLite rows they keep (store.py) and the relay         *)
(* mailbox they meet in (relay/cf-worker/src/storage.ts).                  *)
(*                                                                         *)
(* Every node runs one supervisor tick at a time: poll_and_ingest, then    *)
(* the outbound half of run_kindled_link_tick.  Each store method commits   *)
(* on its own, so every commit and every relay call is a step, and a crash *)
(* may fall between any two of them.  What is durable is a table; what the *)
(* tick keeps in local variables is lost in a crash.                       *)
(***************************************************************************)
EXTENDS Naturals, FiniteSets

CONSTANTS
    Node,            \* the Kindleds, each named by its key id
    Sid,             \* session ids (secrets.token_hex: never drawn twice)
    Text,            \* message bodies
    FloodCap,        \* KINDLED_LINK_INBOUND_FLOOD_CAP
    MaxSeq,          \* bound: messages sealed per node, peer and session
    MaxCrashes,      \* bound: process crashes
    PushCopies,      \* copies of one push the relay may end up storing
    RelayMayFail,    \* fetch and ack may raise RelayUnavailableError
    MayExpire,       \* envelopes may outlive expires_at or the relay's gc
    ConsentChoices   \* consent states the HTTP endpoints may write

ASSUME TransportAssumption ==
    /\ FloodCap \in Nat \ {0}
    /\ MaxSeq \in Nat
    /\ MaxCrashes \in Nat
    /\ PushCopies \subseteq Nat
    /\ RelayMayFail \in BOOLEAN
    /\ MayExpire \in BOOLEAN
    /\ ConsentChoices \subseteq {"pending_local", "pending_remote", "paired",
                                "paused", "revoked", "blocked"}

VARIABLES
    \* ---- durable, per node: kindled_link.db ----
    consent,             \* peers.consent_state, by <<node, peer>>
    pending_handshakes,  \* rows [me, peer, sid, eph]
    session_keys,        \* rows [me, peer, sid, key, my_role]
    sessions,            \* sessions.state, by <<node, peer, sid>>
    outbound_seq,        \* last sequence drawn, by <<node, peer, sid>>
    seq_high_water,      \* last sequence accepted, by <<node, peer, sid>>
    transcript,          \* rows [me, peer, sid, seq, text]
    \* ---- durable, at the relay ----
    envelopes,           \* rows [id, env]; ids grow in queued_at order
    nextId,              \* the next row id
    \* ---- volatile, per node: the running tick ----
    pc,                  \* where the tick stands
    batch,               \* fetched items whose sender group is still to come
    group,               \* items of the current sender still to handle
    cur,                 \* the item being handled, if any
    acks,                \* to_ack
    readConsent,         \* consent_state as on_session_open read it
    out,                 \* the envelope about to be pushed, if any
    \* ---- history and bounds ----
    nextEph,             \* ephemerals generated so far
    wire,                \* every envelope ever handed to RelayClient.push
    lapsed,              \* envelopes a tick has found expired: they stay so
    crashes

tables == <<pending_handshakes, session_keys, sessions, outbound_seq,
            seq_high_water, transcript>>
relay == <<envelopes, nextId>>
local == <<pc, batch, group, cur, acks, readConsent, out>>
ghosts == <<nextEph, wire, lapsed, crashes>>
vars == <<consent, pending_handshakes, session_keys, sessions, outbound_seq,
          seq_high_water, transcript, envelopes, nextId, pc, batch, group,
          cur, acks, readConsent, out, nextEph, wire, lapsed, crashes>>

-----------------------------------------------------------------------------
(* Consent (store.py). *)

ConsentStates ==
    {"pending_local", "pending_remote", "paired", "paused", "revoked", "blocked"}

InboundBlockedConsent == {"blocked", "revoked", "paused"}

-----------------------------------------------------------------------------
(* Envelopes and keys.  An ephemeral key pair is a number, its public half  *)
(* the same number; the initiator's bootstrap nonce is drawn with its       *)
(* ephemeral, so one number stands for both.  derive_session_key is          *)
(* symbolic: the X25519 exchange is commutative and the HKDF info sorts the *)
(* fingerprints, so a key is the set of ephemerals, the set of parties, the *)
(* session and the salt.                                                    *)

Roles == {"initiator", "responder"}
OtherRole(r) == IF r = "initiator" THEN "responder" ELSE "initiator"

Keys == [ephs : SUBSET Nat, nonce : Nat, sid : Sid, fps : SUBSET Node]

DeriveSessionKey(myEph, peerEph, me, peer, s, nonce) ==
    [ephs |-> {myEph, peerEph}, nonce |-> nonce, sid |-> s, fps |-> {me, peer}]

SessionOpens == [type : {"session_open"}, from : Node, to : Node, sid : Sid,
                 eph : Nat, nonce : Nat]
Messages == [type : {"message"}, from : Node, to : Node, sid : Sid,
             seq : Nat, role : Roles, key : Keys, text : Text]

BuildSessionOpen(me, peer, s, eph, nonce) ==
    [type |-> "session_open", from |-> me, to |-> peer, sid |-> s,
     eph |-> eph, nonce |-> nonce]

BuildEnvelope(row, seq, text) ==
    [type |-> "message", from |-> row.me, to |-> row.peer, sid |-> row.sid,
     seq |-> seq, role |-> row.my_role, key |-> row.key, text |-> text]

-----------------------------------------------------------------------------
(* The tables (store.py). *)

SessionKey(n, p, s) ==
    {r \in session_keys : r.me = n /\ r.peer = p /\ r.sid = s}

PendingHandshake(n, p, s) ==
    {r \in pending_handshakes : r.me = n /\ r.peer = p /\ r.sid = s}

\* INSERT OR IGNORE: an existing row is never replaced.
SaveSessionKey(n, p, s, key, role) ==
    session_keys' =
        IF SessionKey(n, p, s) # {} THEN session_keys
        ELSE session_keys \cup
               {[me |-> n, peer |-> p, sid |-> s, key |-> key, my_role |-> role]}

ActiveSessions(n, p) == {s \in Sid : sessions[<<n, p, s>>] = "open"}

\* secrets.token_hex never repeats: a drawn id is in no row of any node.
FreshSid(s) ==
    /\ \A r \in pending_handshakes : r.sid # s
    /\ \A r \in session_keys : r.sid # s

-----------------------------------------------------------------------------
(* The relay's mailboxes (storage.ts push, fetch, ack). *)

Mailbox(n) == {i \in envelopes : i.env.to = n}

\* RelayClient._post retries on a transport error, so one push may be stored
\* several times, or not at all; the callers only log which it was.
Push(env, copies) ==
    /\ envelopes' = envelopes \cup
          {[id |-> k, env |-> env] : k \in nextId .. (nextId + copies - 1)}
    /\ nextId' = nextId + copies
    /\ wire' = wire \cup {env}

-----------------------------------------------------------------------------
Init ==
    /\ consent = [np \in Node \X Node |-> "paired"]
    /\ pending_handshakes = {}
    /\ session_keys = {}
    /\ sessions = [k \in Node \X Node \X Sid |-> "none"]
    /\ outbound_seq = [k \in Node \X Node \X Sid |-> 0]
    /\ seq_high_water = [k \in Node \X Node \X Sid |-> 0]
    /\ transcript = {}
    /\ envelopes = {}
    /\ nextId = 1
    /\ pc = [n \in Node |-> "idle"]
    /\ batch = [n \in Node |-> {}]
    /\ group = [n \in Node |-> {}]
    /\ cur = [n \in Node |-> {}]
    /\ acks = [n \in Node |-> {}]
    /\ readConsent = [n \in Node |-> "paired"]
    /\ out = [n \in Node |-> {}]
    /\ nextEph = 1
    /\ wire = {}
    /\ lapsed = {}
    /\ crashes = 0

\* The tick is over: its locals are gone.
Forget(n) ==
    /\ pc' = [pc EXCEPT ![n] = "idle"]
    /\ batch' = [batch EXCEPT ![n] = {}]
    /\ group' = [group EXCEPT ![n] = {}]
    /\ cur' = [cur EXCEPT ![n] = {}]
    /\ acks' = [acks EXCEPT ![n] = {}]
    /\ out' = [out EXCEPT ![n] = {}]
    /\ UNCHANGED readConsent

-----------------------------------------------------------------------------
(* poll_and_ingest: fetch, and one sender group after another. *)

Fetch(n) ==
    /\ pc[n] = "idle"
    /\ pc' = [pc EXCEPT ![n] = "groups"]
    /\ batch' = [batch EXCEPT ![n] = Mailbox(n)]
    /\ UNCHANGED <<consent, tables, relay, group, cur, acks, readConsent, out, ghosts>>

\* The relay error degrades to an empty poll; the tick goes on to outbound.
FetchFails(n) ==
    /\ RelayMayFail
    /\ pc[n] = "idle"
    /\ pc' = [pc EXCEPT ![n] = "outbound"]
    /\ UNCHANGED <<consent, tables, relay, batch, group, cur, acks, readConsent, out, ghosts>>

Oldest(items) == {i \in items : \A j \in items : i.id <= j.id}

\* Mutant: the clamp keeps the newest items of the group.
FloodClampNewest(items) ==
    {i \in items : Cardinality({j \in items : j.id > i.id}) < FloodCap}

FloodClamp(items) ==
    {i \in items : Cardinality({j \in items : j.id < i.id}) < FloodCap}

\* Groups come in the order of their first item; a blocked, revoked or paused
\* sender's items are all acked unread; items past the flood cap stay un-acked.
NextGroup(n) ==
    /\ pc[n] = "groups" /\ group[n] = {}
    /\ \E first \in Oldest(batch[n]) :
         LET items == {i \in batch[n] : i.env.from = first.env.from}
             gated == consent[<<n, first.env.from>>] \in InboundBlockedConsent
         IN /\ batch' = [batch EXCEPT ![n] = @ \ items]
            /\ acks' = [acks EXCEPT ![n] = IF gated THEN @ \cup items ELSE @]
            /\ group' = [group EXCEPT ![n] = IF gated THEN {} ELSE FloodClamp(items)]
    /\ UNCHANGED <<consent, tables, relay, pc, cur, readConsent, out, ghosts>>

\* sorted(..., key=session_open first), stable in arrival order.
IsOpen(i) == i.env.type = "session_open"

NextItem(items) ==
    Oldest(IF \E i \in items : IsOpen(i) THEN {i \in items : IsOpen(i)} ELSE items)

\* The tick takes the next item of the group off the list.
Take(n, i) ==
    /\ pc[n] = "groups"
    /\ i \in NextItem(group[n])
    /\ group' = [group EXCEPT ![n] = @ \ {i}]

\* to_ack.append(env_id); continue
AckAndContinue(n, i) ==
    /\ acks' = [acks EXCEPT ![n] = @ \cup {i}]
    /\ pc' = [pc EXCEPT ![n] = "groups"]
    /\ cur' = [cur EXCEPT ![n] = {}]

-----------------------------------------------------------------------------
(* The handshake. *)

\* open_session, tick side: a fresh id and ephemeral are saved, then leg 1 is
\* built for the push.  can_start_session: paired, and no open session.
OpenSession(n, p, s) ==
    /\ pc[n] = "outbound"
    /\ n # p
    /\ consent[<<n, p>>] = "paired"
    /\ ActiveSessions(n, p) = {}
    /\ FreshSid(s)
    /\ pending_handshakes' = pending_handshakes \cup
           {[me |-> n, peer |-> p, sid |-> s, eph |-> nextEph]}
    /\ nextEph' = nextEph + 1
    /\ out' = [out EXCEPT ![n] = {BuildSessionOpen(n, p, s, nextEph, nextEph)}]
    /\ pc' = [pc EXCEPT ![n] = "push"]
    /\ UNCHANGED <<consent, session_keys, sessions, outbound_seq, seq_high_water,
                   transcript, relay, batch, group, cur, acks, readConsent, wire,
                   lapsed, crashes>>

\* _expired: now has passed expires_at.
Expired(env) == MayExpire /\ lapsed' = lapsed \cup {env}

\* A handshake envelope that is expired, or whose session already has a key,
\* changes nothing and is acked.
DropOpen(n) ==
    \E i \in group[n] :
        /\ Take(n, i)
        /\ IsOpen(i)
        /\ IF SessionKey(n, i.env.from, i.env.sid) = {}
           THEN Expired(i.env) ELSE UNCHANGED lapsed
        /\ AckAndContinue(n, i)
        /\ UNCHANGED <<consent, tables, relay, batch, readConsent, out, nextEph, wire,
                       crashes>>

\* Mutant: the clobber guard is dropped, so a redelivered leg 1, or a leg 2
\* that finds a pending handshake, starts another response.
BeginRespondUnguarded(n) ==
    \E i \in group[n] :
        /\ Take(n, i)
        /\ IsOpen(i)
        /\ i.env \notin lapsed
        /\ SessionKey(n, i.env.from, i.env.sid) = {}
        /\ cur' = [cur EXCEPT ![n] = {i}]
        /\ readConsent' = [readConsent EXCEPT ![n] = consent[<<n, i.env.from>>]]
        /\ pc' = [pc EXCEPT ![n] = "upsert_peer"]
        /\ UNCHANGED <<consent, tables, relay, batch, acks, out, ghosts>>

\* on_session_open up to the clobber guard: no pending handshake, no key.
\* The peer row, consent_state included, is read here and written back later.
BeginRespond(n) ==
    \E i \in group[n] :
        /\ Take(n, i)
        /\ IsOpen(i)
        /\ i.env \notin lapsed
        /\ PendingHandshake(n, i.env.from, i.env.sid) = {}
        /\ SessionKey(n, i.env.from, i.env.sid) = {}
        /\ cur' = [cur EXCEPT ![n] = {i}]
        /\ readConsent' = [readConsent EXCEPT ![n] = consent[<<n, i.env.from>>]]
        /\ pc' = [pc EXCEPT ![n] = "upsert_peer"]
        /\ UNCHANGED <<consent, tables, relay, batch, acks, out, ghosts>>

\* upsert_peer learns the sender's mailbox and writes the consent read above.
UpsertPeer(n) ==
    /\ pc[n] = "upsert_peer"
    /\ \E i \in cur[n] :
          consent' = [consent EXCEPT ![<<n, i.env.from>>] = readConsent[n]]
    /\ pc' = [pc EXCEPT ![n] = "responder_key"]
    /\ UNCHANGED <<tables, relay, batch, group, cur, acks, readConsent, out, ghosts>>

\* Mutant: the reply is built and pushed but the key is not committed.
ReplyWithoutKey(n) ==
    /\ pc[n] = "responder_key"
    /\ \E i \in cur[n] :
         out' = [out EXCEPT ![n] =
                {BuildSessionOpen(n, i.env.from, i.env.sid, nextEph, i.env.nonce)}]
    /\ nextEph' = nextEph + 1
    /\ pc' = [pc EXCEPT ![n] = "responder_session"]
    /\ UNCHANGED <<consent, tables, relay, batch, group, cur, acks, readConsent,
                   wire, lapsed, crashes>>

\* Leg 2: our ephemeral, the key, and the reply with the initiator's nonce.
SaveResponderKey(n) ==
    /\ pc[n] = "responder_key"
    /\ \E i \in cur[n] :
         /\ SaveSessionKey(n, i.env.from, i.env.sid,
                DeriveSessionKey(nextEph, i.env.eph, n, i.env.from, i.env.sid, i.env.nonce),
                "responder")
         /\ out' = [out EXCEPT ![n] =
                {BuildSessionOpen(n, i.env.from, i.env.sid, nextEph, i.env.nonce)}]
    /\ nextEph' = nextEph + 1
    /\ pc' = [pc EXCEPT ![n] = "responder_session"]
    /\ UNCHANGED <<consent, pending_handshakes, sessions, outbound_seq,
                   seq_high_water, transcript, relay, batch, group, cur, acks,
                   readConsent, wire, lapsed, crashes>>

\* complete_session, leg 3: the pending ephemeral meets the reply's.
SaveInitiatorKey(n) ==
    \E i \in group[n] :
      \E row \in PendingHandshake(n, i.env.from, i.env.sid) :
        /\ Take(n, i)
        /\ IsOpen(i)
        /\ i.env \notin lapsed
        /\ SessionKey(n, i.env.from, i.env.sid) = {}
        /\ SaveSessionKey(n, i.env.from, i.env.sid,
               DeriveSessionKey(row.eph, i.env.eph, n, i.env.from, i.env.sid, row.eph),
               "initiator")
        /\ cur' = [cur EXCEPT ![n] = {i}]
        /\ pc' = [pc EXCEPT ![n] = "initiator_session"]
        /\ UNCHANGED <<consent, pending_handshakes, sessions, outbound_seq,
                       seq_high_water, transcript, relay, batch, acks,
                       readConsent, out, ghosts>>

\* Mutant: a state the sessions table does not know.
CreateActiveSession(n) ==
    /\ pc[n] \in {"responder_session", "initiator_session"}
    /\ \E i \in cur[n] :
          sessions' = [sessions EXCEPT ![<<n, i.env.from, i.env.sid>>] = "active"]
    /\ pc' = [pc EXCEPT ![n] =
                 IF @ = "responder_session" THEN "push" ELSE "clear_pending"]
    /\ UNCHANGED <<consent, pending_handshakes, session_keys, outbound_seq,
                   seq_high_water, transcript, relay, batch, group, cur, acks,
                   readConsent, out, ghosts>>

\* create_session: INSERT OR IGNORE of an open row.
CreateSession(n) ==
    /\ pc[n] \in {"responder_session", "initiator_session"}
    /\ \E i \in cur[n] :
          LET k == <<n, i.env.from, i.env.sid>>
          IN sessions' = [sessions EXCEPT ![k] = IF @ = "none" THEN "open" ELSE @]
    /\ pc' = [pc EXCEPT ![n] =
                 IF @ = "responder_session" THEN "push" ELSE "clear_pending"]
    /\ UNCHANGED <<consent, pending_handshakes, session_keys, outbound_seq,
                   seq_high_water, transcript, relay, batch, group, cur, acks,
                   readConsent, out, ghosts>>

ClearPendingHandshake(n) ==
    /\ pc[n] = "clear_pending"
    /\ \E i \in cur[n] :
         /\ pending_handshakes' =
                pending_handshakes \ PendingHandshake(n, i.env.from, i.env.sid)
         /\ AckAndContinue(n, i)
    /\ UNCHANGED <<consent, session_keys, sessions, outbound_seq, seq_high_water,
                   transcript, relay, batch, group, readConsent, out, ghosts>>

-----------------------------------------------------------------------------
(* Messages. *)

\* verify_and_open under the stored key: replay first, then the AEAD, whose
\* nonce is the sender's role and the sequence.
Replayed(n, e) == e.seq <= seq_high_water[<<n, e.from, e.sid>>]
Decrypts(row, e) == e.key = row.key /\ e.role = OtherRole(row.my_role)

Acceptable(n, e) ==
    /\ ~Replayed(n, e)
    /\ \E row \in SessionKey(n, e.from, e.sid) : Decrypts(row, e)

\* No key for the session, a replay, an expired or undecryptable envelope:
\* all are terminal and acked.
DropMessage(n) ==
    \E i \in group[n] :
        /\ Take(n, i)
        /\ ~IsOpen(i)
        /\ IF Acceptable(n, i.env) THEN Expired(i.env) ELSE UNCHANGED lapsed
        /\ AckAndContinue(n, i)
        /\ UNCHANGED <<consent, tables, relay, batch, readConsent, out, nextEph, wire,
                       crashes>>

\* The primary key of the transcript table is (peer_id, session_id, seq).
InTranscript(n, e) ==
    \E r \in transcript : r.me = n /\ r.peer = e.from /\ r.sid = e.sid /\ r.seq = e.seq

\* Mutant: the row takes the next expected sequence, not the envelope's.
AppendAtHighWater(n) ==
    \E i \in group[n] :
        /\ Take(n, i)
        /\ ~IsOpen(i)
        /\ Acceptable(n, i.env) /\ i.env \notin lapsed
        /\ transcript' = transcript \cup
             {[me |-> n, peer |-> i.env.from, sid |-> i.env.sid,
               seq |-> seq_high_water[<<n, i.env.from, i.env.sid>>] + 1,
               text |-> i.env.text]}
        /\ cur' = [cur EXCEPT ![n] = {i}]
        /\ pc' = [pc EXCEPT ![n] = "high_water"]
        /\ UNCHANGED <<consent, pending_handshakes, session_keys, sessions,
                       outbound_seq, seq_high_water, relay, batch, acks,
                       readConsent, out, ghosts>>

AppendTranscript(n) ==
    \E i \in group[n] :
        /\ Take(n, i)
        /\ ~IsOpen(i)
        /\ Acceptable(n, i.env) /\ i.env \notin lapsed
        /\ ~InTranscript(n, i.env)
        /\ transcript' = transcript \cup
             {[me |-> n, peer |-> i.env.from, sid |-> i.env.sid,
               seq |-> i.env.seq, text |-> i.env.text]}
        /\ cur' = [cur EXCEPT ![n] = {i}]
        /\ pc' = [pc EXCEPT ![n] = "high_water"]
        /\ UNCHANGED <<consent, pending_handshakes, session_keys, sessions,
                       outbound_seq, seq_high_water, relay, batch, acks,
                       readConsent, out, ghosts>>

\* The plain INSERT of a row that is there raises IntegrityError: the whole
\* tick ends, and nothing of this poll is acked.
AppendRaises(n) ==
    \E i \in NextItem(group[n]) :
        /\ pc[n] = "groups"
        /\ ~IsOpen(i)
        /\ Acceptable(n, i.env) /\ i.env \notin lapsed
        /\ InTranscript(n, i.env)
        /\ Forget(n)
        /\ UNCHANGED <<consent, tables, relay, ghosts>>

SetSeqHighWater(n) ==
    /\ pc[n] = "high_water"
    /\ \E i \in cur[n] :
         /\ seq_high_water' =
                [seq_high_water EXCEPT ![<<n, i.env.from, i.env.sid>>] = i.env.seq]
         /\ AckAndContinue(n, i)
    /\ UNCHANGED <<consent, pending_handshakes, session_keys, sessions,
                   outbound_seq, transcript, relay, batch, group, readConsent,
                   out, ghosts>>

\* Mutant: the sequence is drawn but not committed before the push.
DrawWithoutCommit(n, row, text) ==
    /\ pc[n] = "outbound"
    /\ row.me = n
    /\ sessions[<<n, row.peer, row.sid>>] = "open"
    /\ LET k == <<n, row.peer, row.sid>>
       IN /\ outbound_seq[k] < MaxSeq
          /\ out' = [out EXCEPT ![n] = {BuildEnvelope(row, outbound_seq[k] + 1, text)}]
    /\ pc' = [pc EXCEPT ![n] = "push"]
    /\ UNCHANGED <<consent, tables, relay, batch, group, cur, acks, readConsent,
                   ghosts>>

\* send_message draws and commits the sequence, then builds and pushes.  The
\* engine sends on any open session; without a key send_message returns False.
NextOutboundSequence(n, row, text) ==
    /\ pc[n] = "outbound"
    /\ row.me = n
    /\ sessions[<<n, row.peer, row.sid>>] = "open"
    /\ LET k == <<n, row.peer, row.sid>>
       IN /\ outbound_seq[k] < MaxSeq
          /\ outbound_seq' = [outbound_seq EXCEPT ![k] = @ + 1]
          /\ out' = [out EXCEPT ![n] = {BuildEnvelope(row, outbound_seq[k] + 1, text)}]
    /\ pc' = [pc EXCEPT ![n] = "push"]
    /\ UNCHANGED <<consent, pending_handshakes, session_keys, sessions,
                   seq_high_water, transcript, relay, batch, group, cur, acks,
                   readConsent, ghosts>>

\* A gate verdict of end_or_pause closes the session.
EndSession(n, p, s) ==
    /\ pc[n] = "outbound"
    /\ sessions[<<n, p, s>>] = "open"
    /\ sessions' = [sessions EXCEPT ![<<n, p, s>>] = "ended"]
    /\ UNCHANGED <<consent, pending_handshakes, session_keys, outbound_seq,
                   seq_high_water, transcript, relay, local, ghosts>>

-----------------------------------------------------------------------------
(* Push, ack and the end of the tick. *)

\* A leg-2 reply returns to the item loop and acks leg 1 whatever the push
\* did; a leg 1 or a message returns to the outbound half.
PushOut(n) ==
    /\ pc[n] = "push"
    /\ \E env \in out[n], copies \in PushCopies : Push(env, copies)
    /\ out' = [out EXCEPT ![n] = {}]
    /\ acks' = [acks EXCEPT ![n] = @ \cup cur[n]]
    /\ pc' = [pc EXCEPT ![n] = IF cur[n] = {} THEN "outbound" ELSE "groups"]
    /\ cur' = [cur EXCEPT ![n] = {}]
    /\ UNCHANGED <<consent, tables, batch, group, readConsent, nextEph, lapsed,
                   crashes>>

PollDone(n) == pc[n] = "groups" /\ batch[n] = {} /\ group[n] = {}

Ack(n) ==
    /\ PollDone(n)
    /\ envelopes' = envelopes \ acks[n]
    /\ acks' = [acks EXCEPT ![n] = {}]
    /\ pc' = [pc EXCEPT ![n] = "outbound"]
    /\ UNCHANGED <<consent, tables, nextId, batch, group, cur, readConsent, out, ghosts>>

\* The ack is not guarded: RelayUnavailableError ends the tick, whether or
\* not the relay applied it.
AckFails(n) ==
    /\ RelayMayFail
    /\ PollDone(n)
    /\ acks[n] # {}
    /\ envelopes' \in {envelopes, envelopes \ acks[n]}
    /\ Forget(n)
    /\ UNCHANGED <<consent, tables, nextId, ghosts>>

EndTick(n) ==
    /\ pc[n] = "outbound"
    /\ Forget(n)
    /\ UNCHANGED <<consent, tables, relay, ghosts>>

-----------------------------------------------------------------------------
(* The environment. *)

\* An HTTP thread of the node writes the peer's row: set_consent, or the
\* upsert_peer of import_invite (connect and invite/accept).  What it checked
\* it checked earlier, in a statement of its own, so by now any state may stand
\* there; KindledPairing has the endpoints step by step, here are their writes.
ConsentWritten(n, p, new) ==
    /\ n # p
    /\ consent' = [consent EXCEPT ![<<n, p>>] = new]
    /\ UNCHANGED <<tables, relay, local, ghosts>>

Crash(n) ==
    /\ crashes < MaxCrashes
    /\ pc[n] # "idle"
    /\ crashes' = crashes + 1
    /\ Forget(n)
    /\ UNCHANGED <<consent, tables, relay, nextEph, wire, lapsed>>

\* The relay's seven-day collection, by queued_at: the oldest row goes first.
RelayGc(i) ==
    /\ MayExpire
    /\ i \in Oldest(envelopes)
    /\ envelopes' = envelopes \ {i}
    /\ UNCHANGED <<consent, tables, nextId, local, ghosts>>

Poll(n) ==
    \/ Fetch(n) \/ FetchFails(n) \/ NextGroup(n) \/ DropOpen(n) \/ BeginRespond(n)
    \/ UpsertPeer(n) \/ SaveResponderKey(n) \/ SaveInitiatorKey(n)
    \/ CreateSession(n) \/ ClearPendingHandshake(n)
    \/ DropMessage(n) \/ AppendTranscript(n) \/ AppendRaises(n) \/ SetSeqHighWater(n)
    \/ PushOut(n) \/ Ack(n) \/ AckFails(n)

Outbound(n) ==
    \/ \E p \in Node, s \in Sid : OpenSession(n, p, s)
    \/ \E row \in session_keys, text \in Text : NextOutboundSequence(n, row, text)
    \/ \E p \in Node, s \in Sid : EndSession(n, p, s)
    \/ EndTick(n)

Environment ==
    \/ \E n \in Node : Crash(n)
    \/ \E n, p \in Node, new \in ConsentChoices : ConsentWritten(n, p, new)
    \/ \E i \in envelopes : RelayGc(i)

Next == (\E n \in Node : Poll(n) \/ Outbound(n)) \/ Environment

Spec == Init /\ [][Next]_vars

-----------------------------------------------------------------------------
(* Properties. *)

Items == [id : Nat, env : SessionOpens \cup Messages]
PcStates == {"idle", "groups", "upsert_peer", "responder_key",
             "responder_session", "initiator_session", "clear_pending",
             "high_water", "push", "outbound"}

DbType ==
    /\ consent \in [Node \X Node -> ConsentStates]
    /\ pending_handshakes \subseteq [me : Node, peer : Node, sid : Sid, eph : Nat]
    /\ session_keys \subseteq
          [me : Node, peer : Node, sid : Sid, key : Keys, my_role : Roles]
    /\ sessions \in [Node \X Node \X Sid -> {"none", "open", "ended"}]
    /\ outbound_seq \in [Node \X Node \X Sid -> Nat]
    /\ seq_high_water \in [Node \X Node \X Sid -> Nat]
    /\ transcript \subseteq
          [me : Node, peer : Node, sid : Sid, seq : Nat, text : Text]

RelayType ==
    /\ envelopes \subseteq Items
    /\ nextId \in Nat

TickType ==
    /\ pc \in [Node -> PcStates]
    /\ batch \in [Node -> SUBSET Items]
    /\ group \in [Node -> SUBSET Items]
    /\ cur \in [Node -> SUBSET Items]
    /\ acks \in [Node -> SUBSET Items]
    /\ readConsent \in [Node -> ConsentStates]
    /\ out \in [Node -> SUBSET (SessionOpens \cup Messages)]

HistoryType ==
    /\ nextEph \in Nat
    /\ wire \subseteq SessionOpens \cup Messages
    /\ lapsed \subseteq SessionOpens \cup Messages
    /\ crashes \in Nat

\* Every table and every local of the tick holds what its column or variable
\* is declared to hold.
TypeOK == DbType /\ RelayType /\ TickType /\ HistoryType

\* Whenever both ends hold a key for a session it is the same key, under
\* opposite roles: redelivered or duplicated legs, crashes between the commits
\* of on_session_open or complete_session and simultaneous opens never leave
\* two ends that cannot read each other.
KeyAgreement ==
    \A r1, r2 \in session_keys :
        (r1.me = r2.peer /\ r1.peer = r2.me /\ r1.sid = r2.sid)
            => (r1.key = r2.key /\ r1.my_role # r2.my_role)

\* An initiator that has completed leg 3 has a responder that holds the key:
\* on_session_open commits the key before its reply can exist, so whatever the
\* initiator sends can be opened, wherever the responder crashed.
InitiatorHasResponder ==
    \A r1 \in session_keys : r1.my_role = "initiator" =>
        \E r2 \in session_keys :
            r2.me = r1.peer /\ r2.peer = r1.me /\ r2.sid = r1.sid

\* aead_nonce is role and sequence: no two different envelopes are ever sealed
\* under one key with the same nonce, across crashes, failed pushes and both
\* directions of a session.
NonceNeverReused ==
    \A m1, m2 \in wire :
        ( /\ m1.type = "message" /\ m2.type = "message"
          /\ m1.key = m2.key /\ m1.role = m2.role /\ m1.seq = m2.seq )
            => m1 = m2

\* A message waiting in a mailbox that verify_and_open would reject as a
\* replay has been ingested, or was dropped as expired before: the sequence
\* high-water never passes over a message that is still to come, whatever the
\* flood cap cut off and however often the mailbox is fetched again.
ReplayRejectsOnlyIngested ==
    \A i \in envelopes :
        (~IsOpen(i) /\ Replayed(i.env.to, i.env))
            => InTranscript(i.env.to, i.env) \/ i.env \in lapsed

\* What the users of the transport see: the messages handed to the relay and
\* the rows of the transcripts.
Sent == {[from |-> m.from, to |-> m.to, sid |-> m.sid, seq |-> m.seq, text |-> m.text] :
            m \in {e \in wire : e.type = "message"}}
Received == {[from |-> r.peer, to |-> r.me, sid |-> r.sid, seq |-> r.seq, text |-> r.text] :
                r \in transcript}

Channel == INSTANCE KindledChannel WITH sent <- Sent, received <- Received

\* The transport implements the channel: with relay errors, duplicated pushes,
\* expiry and crashes, every transcript row is a message its peer pushed,
\* appended once and in order.
ImplementsChannel == Channel!Spec
=============================================================================
