----------------------- MODULE KindledTransport_proofs -----------------------
(***************************************************************************)
(* Proofs about KindledTransport, for any nodes, sessions, texts, bounds    *)
(* and faults: its types, its cut-offs, and that the two ends of a session   *)
(* never disagree on its key and use no nonce twice.                        *)
(***************************************************************************)
EXTENDS KindledTransport, TLAPS

-----------------------------------------------------------------------------
(* Type correctness, part by part.  A part whose variables do not change    *)
(* keeps its type; what is left to show for an action is what it assigns.   *)

\* Tables that nothing writes keep their type.
LEMMA DbSame == ASSUME DbType, UNCHANGED <<consent, tables>> PROVE DbType'
BY DEF DbType, tables

\* A relay that nothing writes keeps its type.
LEMMA RelaySame == ASSUME RelayType, UNCHANGED relay PROVE RelayType'
BY DEF RelayType, relay

\* Locals that nothing writes keep their type.
LEMMA TickSame == ASSUME TickType, UNCHANGED local PROVE TickType'
BY DEF TickType, local

\* History that nothing writes keeps its type.
LEMMA HistorySame == ASSUME HistoryType, UNCHANGED ghosts PROVE HistoryType'
BY DEF HistoryType, ghosts

\* A tick that ends, by crash, by error or in order, leaves empty locals.
LEMMA ForgetType == ASSUME TickType, NEW n \in Node, Forget(n) PROVE TickType'
BY DEF TickType, Forget, PcStates

\* Updating a table at one key keeps its type.
LEMMA UpdateType ==
    ASSUME NEW D, NEW S, NEW f \in [D -> S], NEW x, NEW v \in S
    PROVE  [f EXCEPT ![x] = v] \in [D -> S]
OBVIOUS

\* An item's envelope has a sender, a receiver and a session.
LEMMA ItemType ==
    ASSUME NEW i \in Items
    PROVE  /\ i.env \in SessionOpens \cup Messages
           /\ i.env.from \in Node /\ i.env.to \in Node /\ i.env.sid \in Sid
           /\ IsOpen(i) => i.env.eph \in Nat /\ i.env.nonce \in Nat
           /\ ~IsOpen(i) => i.env.seq \in Nat /\ i.env.text \in Text
BY DEF Items, SessionOpens, Messages, IsOpen

\* A derived key is a key, and a handshake envelope built from typed parts is
\* well formed.
LEMMA HandshakeTypes ==
    ASSUME NEW me \in Node, NEW peer \in Node, NEW s \in Sid,
           NEW e1 \in Nat, NEW e2 \in Nat, NEW nonce \in Nat
    PROVE  /\ DeriveSessionKey(e1, e2, me, peer, s, nonce) \in Keys
           /\ BuildSessionOpen(me, peer, s, e1, nonce) \in SessionOpens
BY DEF DeriveSessionKey, BuildSessionOpen, Keys, SessionOpens

\* A stored key is a row of the table.
LEMMA SaveSessionKeyType ==
    ASSUME DbType, NEW n \in Node, NEW p \in Node, NEW s \in Sid,
           NEW key \in Keys, NEW role \in Roles,
           SaveSessionKey(n, p, s, key, role)
    PROVE  session_keys' \subseteq
               [me : Node, peer : Node, sid : Sid, key : Keys, my_role : Roles]
BY DEF DbType, SaveSessionKey

\* A push stores well-formed rows, however many copies the relay keeps.
LEMMA PushType ==
    ASSUME RelayType, HistoryType, NEW env \in SessionOpens \cup Messages,
           NEW copies \in Nat, Push(env, copies)
    PROVE  RelayType' /\ wire' \subseteq SessionOpens \cup Messages
<1>1. \A k \in nextId .. (nextId + copies - 1) : [id |-> k, env |-> env] \in Items
    BY DEF RelayType, Items
<1>2. envelopes' \subseteq Items
    BY <1>1 DEF RelayType, Push
<1>. QED  BY <1>2 DEF RelayType, HistoryType, Push

\* Taking the next item and acking it moves items between well-typed lists.
LEMMA TakeType ==
    ASSUME TickType, NEW n \in Node, NEW i \in group[n], Take(n, i)
    PROVE  i \in Items /\ group' \in [Node -> SUBSET Items]
BY DEF TickType, Take

\* Marking an item for the ack keeps the locals well typed.
LEMMA AckType ==
    ASSUME TickType, NEW n \in Node, NEW i \in Items, AckAndContinue(n, i)
    PROVE  /\ acks' \in [Node -> SUBSET Items]
           /\ pc' \in [Node -> PcStates]
           /\ cur' \in [Node -> SUBSET Items]
BY DEF TickType, AckAndContinue, PcStates

\* An item that may be found expired leaves a well-typed history.
LEMMA ExpiredType ==
    ASSUME TickType, HistoryType, NEW n \in Node, NEW i \in group[n],
           Expired(i.env) \/ UNCHANGED lapsed, UNCHANGED <<nextEph, wire, crashes>>
    PROVE  HistoryType'
BY ItemType DEF TickType, HistoryType, Expired

\* The item being handled is of the kind its handler expects: needed for the
\* types, since a handshake handler reads the ephemeral and the nonce of the
\* item, and SetSeqHighWater its sequence.
CurShape ==
    \A n \in Node :
        /\ pc[n] \in {"upsert_peer", "responder_key", "responder_session",
                     "initiator_session", "clear_pending", "push"}
               => \A i \in cur[n] : IsOpen(i)
        /\ pc[n] = "high_water" => \A i \in cur[n] : ~IsOpen(i)
        /\ pc[n] \in {"idle", "groups", "outbound"} => cur[n] = {}

\* Every step of a poll keeps the types.
LEMMA PollType ==
    ASSUME TypeOK, CurShape, NEW n \in Node, Poll(n) PROVE TypeOK'
<1>. USE TransportAssumption DEF TypeOK
<1>1. CASE Fetch(n)
    <2>1. TickType'
        BY <1>1 DEF Fetch, Mailbox, TickType, RelayType, PcStates
    <2>. QED  BY <1>1, <2>1, DbSame, RelaySame, HistorySame DEF Fetch
<1>2. CASE FetchFails(n)
    <2>1. TickType'
        BY <1>2 DEF FetchFails, TickType, PcStates
    <2>. QED  BY <1>2, <2>1, DbSame, RelaySame, HistorySame DEF FetchFails
<1>3. CASE NextGroup(n)
    <2>1. PICK first \in Oldest(batch[n]) :
            LET items == {i \in batch[n] : i.env.from = first.env.from}
                gated == consent[<<n, first.env.from>>] \in InboundBlockedConsent
            IN /\ batch' = [batch EXCEPT ![n] = @ \ items]
               /\ acks' = [acks EXCEPT ![n] = IF gated THEN @ \cup items ELSE @]
               /\ group' = [group EXCEPT ![n] = IF gated THEN {} ELSE FloodClamp(items)]
        BY <1>3 DEF NextGroup
    <2>2. batch' \in [Node -> SUBSET Items] /\ acks' \in [Node -> SUBSET Items]
        BY <2>1 DEF TickType
    <2>3. group' \in [Node -> SUBSET Items]
        BY <2>1 DEF TickType, FloodClamp
    <2>4. TickType'
        BY <1>3, <2>2, <2>3 DEF NextGroup, TickType
    <2>. QED  BY <1>3, <2>4, DbSame, RelaySame, HistorySame DEF NextGroup
<1>4. CASE DropOpen(n)
    <2>1. TickType'
        BY <1>4, TakeType, AckType DEF DropOpen, TickType
    <2>2. HistoryType'
        BY <1>4, ExpiredType DEF DropOpen
    <2>. QED  BY <1>4, <2>1, <2>2, DbSame, RelaySame DEF DropOpen
<1>5. CASE DropMessage(n)
    <2>1. TickType'
        BY <1>5, TakeType, AckType DEF DropMessage, TickType
    <2>2. HistoryType'
        BY <1>5, ExpiredType DEF DropMessage
    <2>. QED  BY <1>5, <2>1, <2>2, DbSame, RelaySame DEF DropMessage
<1>6. CASE BeginRespond(n)
    <2>1. PICK i \in group[n] :
            /\ Take(n, i)
            /\ cur' = [cur EXCEPT ![n] = {i}]
            /\ readConsent' = [readConsent EXCEPT ![n] = consent[<<n, i.env.from>>]]
            /\ pc' = [pc EXCEPT ![n] = "upsert_peer"]
            /\ UNCHANGED <<batch, acks, out>>
        BY <1>6 DEF BeginRespond
    <2>2. i \in Items /\ group' \in [Node -> SUBSET Items]
        BY <2>1, TakeType
    <2>3. consent[<<n, i.env.from>>] \in ConsentStates
        BY <2>2, ItemType DEF DbType
    <2>4. TickType'
        BY <2>1, <2>2, <2>3 DEF TickType, PcStates
    <2>. QED  BY <1>6, <2>4, DbSame, RelaySame, HistorySame DEF BeginRespond
<1>7. CASE UpsertPeer(n)
    <2>1. PICK i \in cur[n] :
            consent' = [consent EXCEPT ![<<n, i.env.from>>] = readConsent[n]]
        BY <1>7 DEF UpsertPeer
    <2>2. readConsent[n] \in ConsentStates
        BY DEF TickType
    <2>3. consent' \in [Node \X Node -> ConsentStates]
        BY <2>1, <2>2, UpdateType DEF DbType
    <2>4. DbType'
        BY <1>7, <2>3 DEF UpsertPeer, DbType, tables
    <2>5. TickType'
        BY <1>7 DEF UpsertPeer, TickType, PcStates
    <2>. QED  BY <1>7, <2>4, <2>5, RelaySame, HistorySame DEF UpsertPeer
<1>8. CASE SaveResponderKey(n)
    <2>1. PICK i \in cur[n] :
         /\ SaveSessionKey(n, i.env.from, i.env.sid,
                DeriveSessionKey(nextEph, i.env.eph, n, i.env.from, i.env.sid, i.env.nonce),
                "responder")
         /\ out' = [out EXCEPT ![n] =
                {BuildSessionOpen(n, i.env.from, i.env.sid, nextEph, i.env.nonce)}]
        BY <1>8 DEF SaveResponderKey
    <2>2. i \in Items /\ IsOpen(i) /\ nextEph \in Nat
        BY <1>8 DEF SaveResponderKey, CurShape, TickType, HistoryType
    <2>3. /\ i.env.from \in Node /\ i.env.sid \in Sid
          /\ i.env.eph \in Nat /\ i.env.nonce \in Nat
        BY <2>2, ItemType
    <2>4. session_keys' \subseteq
               [me : Node, peer : Node, sid : Sid, key : Keys, my_role : Roles]
        BY <2>1, <2>2, <2>3, HandshakeTypes, SaveSessionKeyType DEF Roles
    <2>5. BuildSessionOpen(n, i.env.from, i.env.sid, nextEph, i.env.nonce) \in SessionOpens
        BY <2>2, <2>3, HandshakeTypes
    <2>6. DbType'
        BY <1>8, <2>4 DEF SaveResponderKey, DbType
    <2>7. TickType'
        BY <1>8, <2>1, <2>5 DEF SaveResponderKey, TickType, PcStates
    <2>8. HistoryType'
        BY <1>8 DEF SaveResponderKey, HistoryType
    <2>. QED  BY <1>8, <2>6, <2>7, <2>8, RelaySame DEF SaveResponderKey
<1>9. CASE SaveInitiatorKey(n)
    <2>0. PICK i \in group[n] : \E row \in PendingHandshake(n, i.env.from, i.env.sid) :
            /\ Take(n, i)
            /\ IsOpen(i)
            /\ SaveSessionKey(n, i.env.from, i.env.sid,
                   DeriveSessionKey(row.eph, i.env.eph, n, i.env.from, i.env.sid, row.eph),
                   "initiator")
            /\ cur' = [cur EXCEPT ![n] = {i}]
            /\ pc' = [pc EXCEPT ![n] = "initiator_session"]
            /\ UNCHANGED <<batch, acks, readConsent, out>>
        BY <1>9 DEF SaveInitiatorKey
    <2>1. PICK row \in PendingHandshake(n, i.env.from, i.env.sid) :
            /\ Take(n, i)
            /\ IsOpen(i)
            /\ SaveSessionKey(n, i.env.from, i.env.sid,
                   DeriveSessionKey(row.eph, i.env.eph, n, i.env.from, i.env.sid, row.eph),
                   "initiator")
            /\ cur' = [cur EXCEPT ![n] = {i}]
            /\ pc' = [pc EXCEPT ![n] = "initiator_session"]
            /\ UNCHANGED <<batch, acks, readConsent, out>>
        BY <2>0
    <2>2. i \in Items /\ group' \in [Node -> SUBSET Items]
        BY <2>1, TakeType
    <2>3. i.env.from \in Node /\ i.env.sid \in Sid /\ i.env.eph \in Nat
        BY <2>1, <2>2, ItemType
    <2>4. row.eph \in Nat
        BY DEF PendingHandshake, DbType
    <2>5. session_keys' \subseteq
               [me : Node, peer : Node, sid : Sid, key : Keys, my_role : Roles]
        BY <2>1, <2>3, <2>4, HandshakeTypes, SaveSessionKeyType DEF Roles
    <2>6. DbType'
        BY <1>9, <2>5 DEF SaveInitiatorKey, DbType
    <2>7. TickType'
        BY <2>1, <2>2 DEF TickType, PcStates
    <2>. QED  BY <1>9, <2>6, <2>7, RelaySame, HistorySame DEF SaveInitiatorKey
<1>10. CASE CreateSession(n)
    <2>0. PICK i \in cur[n] :
            LET k == <<n, i.env.from, i.env.sid>>
            IN sessions' = [sessions EXCEPT ![k] = IF @ = "none" THEN "open" ELSE @]
        BY <1>10 DEF CreateSession
    <2>1. sessions' \in [Node \X Node \X Sid -> {"none", "open", "ended"}]
        <3>. DEFINE k == <<n, i.env.from, i.env.sid>>
                    v == IF sessions[k] = "none" THEN "open" ELSE sessions[k]
        <3>1. k \in Node \X Node \X Sid
            BY ItemType DEF TickType
        <3>2. v \in {"none", "open", "ended"}
            BY <3>1 DEF DbType
        <3>3. sessions' = [sessions EXCEPT ![k] = v]
            BY <2>0
        <3>. HIDE DEF k, v
        <3>. QED  BY <3>2, <3>3, UpdateType DEF DbType
    <2>2. DbType'
        BY <1>10, <2>1 DEF CreateSession, DbType
    <2>3. TickType'
        BY <1>10 DEF CreateSession, TickType, PcStates
    <2>. QED  BY <1>10, <2>2, <2>3, RelaySame, HistorySame DEF CreateSession
<1>11. CASE ClearPendingHandshake(n)
    <2>1. DbType'
        BY <1>11 DEF ClearPendingHandshake, DbType
    <2>2. cur[n] \subseteq Items
        BY DEF TickType
    <2>3. TickType'
        BY <1>11, <2>2, AckType DEF ClearPendingHandshake, TickType
    <2>. QED  BY <1>11, <2>1, <2>3, RelaySame, HistorySame DEF ClearPendingHandshake
<1>12. CASE AppendTranscript(n)
    <2>1. PICK i \in group[n] :
            /\ Take(n, i)
            /\ ~IsOpen(i)
            /\ transcript' = transcript \cup
                 {[me |-> n, peer |-> i.env.from, sid |-> i.env.sid,
                   seq |-> i.env.seq, text |-> i.env.text]}
            /\ cur' = [cur EXCEPT ![n] = {i}]
            /\ pc' = [pc EXCEPT ![n] = "high_water"]
            /\ UNCHANGED <<batch, acks, readConsent, out>>
        BY <1>12 DEF AppendTranscript
    <2>2. i \in Items /\ group' \in [Node -> SUBSET Items]
        BY <2>1, TakeType
    <2>3. transcript' \subseteq
              [me : Node, peer : Node, sid : Sid, seq : Nat, text : Text]
        BY <2>1, <2>2, ItemType DEF DbType
    <2>4. DbType'
        BY <1>12, <2>3 DEF AppendTranscript, DbType
    <2>5. TickType'
        BY <2>1, <2>2 DEF TickType, PcStates
    <2>. QED  BY <1>12, <2>4, <2>5, RelaySame, HistorySame DEF AppendTranscript
<1>13. CASE AppendRaises(n)
    BY <1>13, ForgetType, DbSame, RelaySame, HistorySame DEF AppendRaises
<1>14. CASE SetSeqHighWater(n)
    <2>1. PICK i \in cur[n] :
            /\ seq_high_water' =
                  [seq_high_water EXCEPT ![<<n, i.env.from, i.env.sid>>] = i.env.seq]
            /\ AckAndContinue(n, i)
        BY <1>14 DEF SetSeqHighWater
    <2>2. i \in Items /\ ~IsOpen(i)
        BY <1>14 DEF SetSeqHighWater, CurShape, TickType
    <2>3. seq_high_water' \in [Node \X Node \X Sid -> Nat]
        <3>1. i.env.seq \in Nat
            BY <2>2, ItemType
        <3>. QED  BY <2>1, <3>1, UpdateType DEF DbType
    <2>4. DbType'
        BY <1>14, <2>3 DEF SetSeqHighWater, DbType
    <2>5. TickType'
        BY <1>14, <2>1, <2>2, AckType DEF SetSeqHighWater, TickType
    <2>. QED  BY <1>14, <2>4, <2>5, RelaySame, HistorySame DEF SetSeqHighWater
<1>15. CASE PushOut(n)
    <2>1. PICK env \in out[n], copies \in PushCopies : Push(env, copies)
        BY <1>15 DEF PushOut
    <2>2. env \in SessionOpens \cup Messages /\ copies \in Nat
        BY DEF TickType, TransportAssumption
    <2>3. RelayType' /\ wire' \subseteq SessionOpens \cup Messages
        BY <2>1, <2>2, PushType
    <2>4. HistoryType'
        BY <1>15, <2>3 DEF PushOut, HistoryType
    <2>5. TickType'
        BY <1>15 DEF PushOut, TickType, PcStates
    <2>. QED  BY <1>15, <2>3, <2>4, <2>5, DbSame DEF PushOut
<1>16. CASE Ack(n)
    <2>1. RelayType'
        BY <1>16 DEF Ack, RelayType
    <2>2. TickType'
        BY <1>16 DEF Ack, TickType, PcStates
    <2>. QED  BY <1>16, <2>1, <2>2, DbSame, HistorySame DEF Ack
<1>17. CASE AckFails(n)
    <2>1. RelayType'
        BY <1>17 DEF AckFails, RelayType
    <2>. QED  BY <1>17, <2>1, ForgetType, DbSame, HistorySame DEF AckFails
<1>. QED
    BY <1>1, <1>2, <1>3, <1>4, <1>5, <1>6, <1>7, <1>8, <1>9, <1>10, <1>11, <1>12,
       <1>13, <1>14, <1>15, <1>16, <1>17
    DEF Poll

\* So does every step of the outbound half of a tick.
LEMMA OutboundType ==
    ASSUME TypeOK, NEW n \in Node, Outbound(n) PROVE TypeOK'
<1>. USE TransportAssumption DEF TypeOK
<1>1. ASSUME NEW p \in Node, NEW s \in Sid, OpenSession(n, p, s) PROVE TypeOK'
    <2>1. nextEph \in Nat
        BY DEF HistoryType
    <2>2. BuildSessionOpen(n, p, s, nextEph, nextEph) \in SessionOpens
        BY <2>1, HandshakeTypes
    <2>3. pending_handshakes' \subseteq [me : Node, peer : Node, sid : Sid, eph : Nat]
        BY <1>1, <2>1 DEF OpenSession, DbType
    <2>4. DbType'
        BY <1>1, <2>3 DEF OpenSession, DbType
    <2>5. TickType'
        BY <1>1, <2>2 DEF OpenSession, TickType, PcStates
    <2>6. HistoryType'
        BY <1>1 DEF OpenSession, HistoryType
    <2>. QED  BY <1>1, <2>4, <2>5, <2>6, RelaySame DEF OpenSession
<1>2. ASSUME NEW row \in session_keys, NEW text \in Text,
             NextOutboundSequence(n, row, text)
      PROVE  TypeOK'
    <2>. DEFINE k == <<n, row.peer, row.sid>>
    <2>1. /\ row.peer \in Node /\ row.sid \in Sid /\ row.key \in Keys
          /\ row.my_role \in Roles /\ row.me = n
        BY <1>2 DEF DbType, NextOutboundSequence
    <2>2. outbound_seq[k] \in Nat
        BY <2>1 DEF DbType
    <2>3. BuildEnvelope(row, outbound_seq[k] + 1, text) \in Messages
        BY <2>1, <2>2 DEF BuildEnvelope, Messages
    <2>4. outbound_seq' = [outbound_seq EXCEPT ![k] = outbound_seq[k] + 1]
        BY <1>2 DEF NextOutboundSequence
    <2>5. outbound_seq' \in [Node \X Node \X Sid -> Nat]
        <3>1. outbound_seq[k] + 1 \in Nat
            BY <2>2
        <3>. HIDE DEF k
        <3>. QED  BY <2>4, <3>1, UpdateType DEF DbType
    <2>6. DbType'
        BY <1>2, <2>5 DEF NextOutboundSequence, DbType
    <2>7. TickType'
        BY <1>2, <2>3 DEF NextOutboundSequence, TickType, PcStates
    <2>. QED  BY <1>2, <2>6, <2>7, RelaySame, HistorySame DEF NextOutboundSequence
<1>3. ASSUME NEW p \in Node, NEW s \in Sid, EndSession(n, p, s) PROVE TypeOK'
    <2>1. sessions' \in [Node \X Node \X Sid -> {"none", "open", "ended"}]
        BY <1>3, UpdateType DEF EndSession, DbType
    <2>2. DbType'
        BY <1>3, <2>1 DEF EndSession, DbType
    <2>. QED  BY <1>3, <2>2, RelaySame, TickSame, HistorySame DEF EndSession
<1>4. CASE EndTick(n)
    BY <1>4, ForgetType, DbSame, RelaySame, HistorySame DEF EndTick
<1>. QED  BY <1>1, <1>2, <1>3, <1>4 DEF Outbound

\* And so do crashes, consent writes and the relay's garbage collection.
LEMMA EnvironmentType ==
    ASSUME TypeOK, Environment PROVE TypeOK'
<1>. USE TransportAssumption DEF TypeOK
<1>1. ASSUME NEW n \in Node, Crash(n) PROVE TypeOK'
    <2>1. HistoryType'
        BY <1>1 DEF Crash, HistoryType
    <2>. QED  BY <1>1, <2>1, ForgetType, DbSame, RelaySame DEF Crash
<1>2. ASSUME NEW n \in Node, NEW p \in Node, NEW new \in ConsentChoices,
             ConsentWritten(n, p, new)
      PROVE  TypeOK'
    <2>1. new \in ConsentStates
        BY DEF TransportAssumption, ConsentStates
    <2>2. consent' \in [Node \X Node -> ConsentStates]
        BY <1>2, <2>1, UpdateType DEF ConsentWritten, DbType
    <2>3. DbType'
        BY <1>2, <2>2 DEF ConsentWritten, DbType, tables
    <2>. QED  BY <1>2, <2>3, RelaySame, TickSame, HistorySame DEF ConsentWritten
<1>3. ASSUME NEW i \in envelopes, RelayGc(i) PROVE TypeOK'
    <2>1. RelayType'
        BY <1>3 DEF RelayGc, RelayType
    <2>. QED  BY <1>3, <2>1, DbSame, TickSame, HistorySame DEF RelayGc
<1>. QED  BY <1>1, <1>2, <1>3 DEF Environment

\* The kind of the item in hand, step by step.
LEMMA CurShapeStep == TypeOK /\ CurShape /\ [Next]_vars => CurShape'
<1>. SUFFICES ASSUME TypeOK, CurShape, [Next]_vars PROVE CurShape'
    OBVIOUS
<1>1. /\ pc \in [Node -> PcStates]
      /\ cur \in [Node -> SUBSET Items]
    BY DEF TypeOK, TickType
<1>2. ASSUME NEW n \in Node, Forget(n) PROVE CurShape'
    BY <1>1, <1>2 DEF CurShape, Forget, IsOpen
<1>3. ASSUME NEW n \in Node, NEW i, AckAndContinue(n, i) PROVE CurShape'
    BY <1>1, <1>3 DEF CurShape, AckAndContinue, IsOpen
<1>4. ASSUME NEW n \in Node, Poll(n) PROVE CurShape'
    <2>1. CASE Fetch(n) \/ FetchFails(n) \/ NextGroup(n) \/ UpsertPeer(n) \/ Ack(n)
        BY <1>1, <2>1 DEF CurShape, Fetch, FetchFails, NextGroup, UpsertPeer, Ack, PollDone,
                          IsOpen
    <2>2. CASE DropOpen(n) \/ DropMessage(n) \/ ClearPendingHandshake(n) \/ SetSeqHighWater(n)
        BY <1>3, <2>2 DEF DropOpen, DropMessage, ClearPendingHandshake, SetSeqHighWater
    <2>3. CASE BeginRespond(n) \/ SaveInitiatorKey(n) \/ AppendTranscript(n)
        <3>1. PICK i \in group[n] :
                  /\ cur' = [cur EXCEPT ![n] = {i}]
                  /\ \/ IsOpen(i) /\ pc' = [pc EXCEPT ![n] = "upsert_peer"]
                     \/ IsOpen(i) /\ pc' = [pc EXCEPT ![n] = "initiator_session"]
                     \/ ~IsOpen(i) /\ pc' = [pc EXCEPT ![n] = "high_water"]
            BY <2>3, Zenon DEF BeginRespond, SaveInitiatorKey, AppendTranscript
        <3>. QED  BY <1>1, <3>1 DEF CurShape, IsOpen
    <2>4. CASE SaveResponderKey(n) \/ CreateSession(n)
        BY <1>1, <2>4 DEF CurShape, SaveResponderKey, CreateSession, IsOpen
    <2>5. CASE PushOut(n)
        BY <1>1, <2>5 DEF CurShape, PushOut, IsOpen
    <2>6. CASE AppendRaises(n) \/ AckFails(n)
        BY <1>2, <2>6 DEF AppendRaises, AckFails
    <2>. QED  BY <1>4, <2>1, <2>2, <2>3, <2>4, <2>5, <2>6 DEF Poll
<1>5. ASSUME NEW n \in Node, Outbound(n) PROVE CurShape'
    <2>1. CASE \E p \in Node, s \in Sid : OpenSession(n, p, s)
        BY <1>1, <2>1 DEF CurShape, OpenSession, IsOpen
    <2>2. CASE \E row \in session_keys, text \in Text : NextOutboundSequence(n, row, text)
        BY <1>1, <2>2 DEF CurShape, NextOutboundSequence, IsOpen
    <2>3. CASE \E p \in Node, s \in Sid : EndSession(n, p, s)
        BY <2>3 DEF CurShape, EndSession, local, IsOpen
    <2>4. CASE EndTick(n)
        BY <1>2, <2>4 DEF EndTick
    <2>. QED  BY <1>5, <2>1, <2>2, <2>3, <2>4 DEF Outbound
<1>6. CASE Environment
    BY <1>2, <1>6 DEF Environment, Crash, ConsentWritten, RelayGc, CurShape, local, IsOpen
<1>7. CASE UNCHANGED vars
    BY <1>7 DEF CurShape, vars, IsOpen
<1>. QED  BY <1>4, <1>5, <1>6, <1>7 DEF Next

\* The initial state is well typed.
LEMMA TypeInit == Init => TypeOK /\ CurShape
BY TransportAssumption
DEF Init, TypeOK, DbType, RelayType, TickType, HistoryType, CurShape, ConsentStates, PcStates

\* Every step keeps the types.
LEMMA TypeStep == TypeOK /\ CurShape /\ [Next]_vars => TypeOK'
<1>. SUFFICES ASSUME TypeOK, CurShape, [Next]_vars PROVE TypeOK'
    OBVIOUS
<1>1. CASE UNCHANGED vars
    BY <1>1, DbSame, RelaySame, TickSame, HistorySame
    DEF vars, TypeOK, tables, relay, local, ghosts
<1>. QED  BY <1>1, PollType, OutboundType, EnvironmentType DEF Next

\* In every reachable state the tables, the relay and the ticks hold what
\* they are declared to hold, for any number of nodes, sessions and faults.
THEOREM TypeCorrect == Spec => []TypeOK
<1>1. TypeOK /\ CurShape /\ [Next]_vars => (TypeOK /\ CurShape)'
    BY TypeStep, CurShapeStep
<1>. QED  BY <1>1, TypeInit, PTL DEF Spec
-----------------------------------------------------------------------------
(* Keys.  KeyAgreement is not inductive.  The argument follows the legs: a   *)
(* leg 1 is the only one of its session and its sender keeps a row for it; a *)
(* leg 2 exists only when its sender has committed the responder's key; a    *)
(* responder's key exists only when a leg 1 was pushed.  So an initiator     *)
(* that finds a reply finds the key the reply stands for.                    *)

\* Every envelope that exists: pushed, or built and about to be pushed.
Sealed == wire \cup UNION {out[n] : n \in Node}

Leg1(e) == e.type = "session_open" /\ e.eph = e.nonce
Leg2(e) == e.type = "session_open" /\ e.eph # e.nonce

KeyOf(e) == DeriveSessionKey(e.eph, e.nonce, e.from, e.to, e.sid, e.nonce)

\* Ephemerals in use were generated.
Generated ==
    \A e \in Sealed : e.type = "session_open" => e.eph < nextEph /\ e.nonce < nextEph

\* One leg 1 per session, to another node.
Leg1Unique ==
    \A e1 \in Sealed : Leg1(e1) =>
        /\ e1.from # e1.to
        /\ \A e2 \in Sealed : Leg1(e2) /\ e2.sid = e1.sid => e1 = e2

\* A pending handshake and the leg 1 of its session belong together.
Leg1Pending ==
    \A e \in Sealed, r \in pending_handshakes :
        Leg1(e) /\ e.sid = r.sid => r.me = e.from /\ r.peer = e.to /\ r.eph = e.eph

\* The sender of a leg 1 keeps its pending row until it has the key.
Leg1Held ==
    \A e \in Sealed : Leg1(e) =>
        \/ PendingHandshake(e.from, e.to, e.sid) # {}
        \/ SessionKey(e.from, e.to, e.sid) # {}

\* The sender of a leg 2 has committed the key it stands for.
Leg2Held ==
    \A e \in Sealed : Leg2(e) =>
        \E r \in SessionKey(e.from, e.to, e.sid) :
            r.my_role = "responder" /\ r.key = KeyOf(e)

\* A responder answered a leg 1 of its peer.
ResponderAnswers ==
    \A r \in session_keys : r.my_role = "responder" =>
        \E e \in wire : /\ Leg1(e) /\ e.from = r.peer /\ e.to = r.me /\ e.sid = r.sid
                        /\ r.key.nonce = e.eph

\* An initiator's key is its responder's.
InitiatorMirrored ==
    \A r1 \in session_keys : r1.my_role = "initiator" =>
        \E r2 \in session_keys :
            /\ r2.me = r1.peer /\ r2.peer = r1.me /\ r2.sid = r1.sid
            /\ r2.my_role = "responder" /\ r2.key = r1.key

\* The primary key of session_keys, and what a key is bound to.
KeyRows ==
    \A r1 \in session_keys :
        /\ r1.key.sid = r1.sid /\ r1.key.fps = {r1.me, r1.peer}
        /\ \A r2 \in session_keys :
              r1.me = r2.me /\ r1.peer = r2.peer /\ r1.sid = r2.sid => r1 = r2

HandshakeInv ==
    /\ Generated /\ Leg1Unique /\ Leg1Pending /\ Leg1Held /\ Leg2Held
    /\ ResponderAnswers /\ InitiatorMirrored /\ KeyRows

\* What a node holds was pushed, and to it.
Delivered ==
    /\ \A i \in envelopes : i.env \in wire
    /\ \A n \in Node : \A i \in batch[n] \cup group[n] \cup cur[n] :
          i.env \in wire /\ i.env.to = n

\* While a node answers, the item in hand is a leg 1 without a key; while it
\* completes, the key is there.
Handling ==
    \A n \in Node : \A i \in cur[n] :
        /\ pc[n] \in {"upsert_peer", "responder_key"} =>
              Leg1(i.env) /\ SessionKey(n, i.env.from, i.env.sid) = {}
        /\ pc[n] \in {"initiator_session", "clear_pending"} =>
              SessionKey(n, i.env.from, i.env.sid) # {}

\* A sealed message was sealed under its sender's row, with a committed
\* sequence, and no other message of its stream has that sequence.
SealedUnder ==
    \A m \in Sealed : m.type = "message" =>
        /\ \E r \in SessionKey(m.from, m.to, m.sid) : r.key = m.key /\ r.my_role = m.role
        /\ m.seq <= outbound_seq[<<m.from, m.to, m.sid>>]

SealedOnce ==
    \A m1, m2 \in Sealed :
        ( /\ m1.type = "message" /\ m2.type = "message"
          /\ m1.from = m2.from /\ m1.to = m2.to /\ m1.sid = m2.sid /\ m1.seq = m2.seq )
            => m1 = m2

KeyInv == HandshakeInv /\ Delivered /\ Handling /\ SealedUnder /\ SealedOnce

-----------------------------------------------------------------------------
(* What a step leaves alone. *)

\* Membership in Sealed, before and after a step.
LEMMA SealedDef == \A e : e \in Sealed <=> e \in wire \/ \E n \in Node : e \in out[n]
BY DEF Sealed

\* The same after a step.
LEMMA SealedDefNext ==
    \A e : e \in Sealed' <=> e \in wire' \/ \E n \in Node : e \in out'[n]
BY DEF Sealed

\* A step that touches neither handshake table, generates no ephemeral and
\* seals at most messages keeps the handshake invariant.
LEMMA HandshakeSame ==
    ASSUME HandshakeInv, UNCHANGED <<pending_handshakes, session_keys, nextEph>>,
           wire \subseteq wire', \A e \in Sealed' : e \in Sealed \/ e.type = "message"
    PROVE  HandshakeInv'
<1>1. \A e \in Sealed' : e.type = "session_open" => e \in Sealed
    OBVIOUS
<1>2. \A e \in Sealed' : Leg1(e) \/ Leg2(e) => e \in Sealed
    BY <1>1 DEF Leg1, Leg2
<1>3. Generated' /\ Leg1Unique' /\ Leg1Pending'
    BY <1>1, <1>2 DEF HandshakeInv, Generated, Leg1Unique, Leg1Pending, Leg1
<1>4. Leg1Held' /\ Leg2Held'
    BY <1>2 DEF HandshakeInv, Leg1Held, Leg2Held, PendingHandshake, SessionKey, KeyOf, Leg1, Leg2
<1>5. ResponderAnswers' /\ InitiatorMirrored' /\ KeyRows'
    BY DEF HandshakeInv, ResponderAnswers, InitiatorMirrored, KeyRows, Leg1
<1>. QED  BY <1>3, <1>4, <1>5 DEF HandshakeInv

\* A step that draws no sequence and seals at most handshake envelopes keeps
\* the message invariant; session_keys may grow.
LEMMA SealedSame ==
    ASSUME SealedUnder, SealedOnce, UNCHANGED outbound_seq,
           session_keys \subseteq session_keys',
           \A e \in Sealed' : e \in Sealed \/ e.type = "session_open"
    PROVE  SealedUnder' /\ SealedOnce'
<1>1. \A m \in Sealed' : m.type = "message" => m \in Sealed
    OBVIOUS
<1>. QED  BY <1>1 DEF SealedUnder, SealedOnce, SessionKey

\* A step that only drops mail and built envelopes, from either list, touches
\* neither invariant about keys.
LEMMA QuietStep ==
    ASSUME HandshakeInv, SealedUnder, SealedOnce,
           UNCHANGED <<pending_handshakes, session_keys, outbound_seq, nextEph, wire>>,
           \A m \in Node : out'[m] \subseteq out[m]
    PROVE  HandshakeInv' /\ SealedUnder' /\ SealedOnce'
<1>1. \A e \in Sealed' : e \in Sealed
    BY SealedDef, SealedDefNext
<1>. QED  BY <1>1, HandshakeSame, SealedSame

\* What a node holds shrinks, and so does the relay.
LEMMA DeliveredSame ==
    ASSUME Delivered, envelopes' \subseteq envelopes, wire \subseteq wire',
           \A m \in Node : batch'[m] \cup group'[m] \cup cur'[m]
                              \subseteq batch[m] \cup group[m] \cup cur[m]
    PROVE  Delivered'
BY DEF Delivered

Answering == {"upsert_peer", "responder_key"}
Completing == {"initiator_session", "clear_pending"}

\* No node takes up an item, or starts to answer or complete one.
LEMMA HandlingSame ==
    ASSUME Handling, UNCHANGED session_keys,
           \A m \in Node : /\ cur'[m] \subseteq cur[m]
                           /\ cur'[m] = {} \/ (pc'[m] \in Answering => pc[m] \in Answering)
                           /\ cur'[m] = {} \/ (pc'[m] \in Completing => pc[m] \in Completing)
    PROVE  Handling'
BY DEF Handling, Answering, Completing, SessionKey

\* A tick that ends forgets; nothing else changes.
LEMMA ForgetKeyInv ==
    ASSUME TypeOK, KeyInv, NEW n \in Node, Forget(n), envelopes' \subseteq envelopes,
           UNCHANGED <<pending_handshakes, session_keys, outbound_seq, nextEph, wire>>
    PROVE  KeyInv'
<1>1. \A m \in Node : /\ out'[m] \subseteq out[m] /\ cur'[m] \subseteq cur[m]
                      /\ batch'[m] \subseteq batch[m] /\ group'[m] \subseteq group[m]
                      /\ cur'[m] = {} \/ pc'[m] = pc[m]
    BY DEF TypeOK, TickType, Forget
<1>2. HandshakeInv' /\ SealedUnder' /\ SealedOnce'
    BY <1>1, QuietStep DEF KeyInv
<1>3. Delivered'
    BY <1>1, DeliveredSame DEF KeyInv
<1>4. Handling'
    BY <1>1, HandlingSame DEF KeyInv
<1>. QED  BY <1>2, <1>3, <1>4 DEF KeyInv

-----------------------------------------------------------------------------
(* The steps of the handshake. *)

\* save_session_key for a session without a key adds exactly one row.
LEMMA SaveSessionKeyAdds ==
    ASSUME NEW n, NEW p, NEW s, NEW key, NEW role, SessionKey(n, p, s) = {},
           SaveSessionKey(n, p, s, key, role)
    PROVE  session_keys' = session_keys \cup
             {[me |-> n, peer |-> p, sid |-> s, key |-> key, my_role |-> role]}
BY DEF SaveSessionKey

\* An open in a node's hands is a leg 1 or a reply whose key its sender holds.
LEMMA RepliesAreBacked ==
    ASSUME TypeOK, KeyInv, NEW n \in Node, NEW i \in group[n], IsOpen(i)
    PROVE  /\ i.env \in wire /\ i.env \in Sealed /\ i.env.to = n
           /\ Leg1(i.env) \/ Leg2(i.env)
           /\ Leg2(i.env) =>
                \E e \in wire : /\ Leg1(e) /\ e.from = n /\ e.to = i.env.from
                                /\ e.sid = i.env.sid /\ e.eph = i.env.nonce
<1>1. i.env \in wire /\ i.env.to = n
    BY DEF KeyInv, Delivered
<1>2. i.env \in Sealed
    BY <1>1, SealedDef
<1>3. Leg1(i.env) \/ Leg2(i.env)
    BY DEF Leg1, Leg2, IsOpen
<1>4. ASSUME Leg2(i.env)
      PROVE  \E e \in wire : /\ Leg1(e) /\ e.from = n /\ e.to = i.env.from
                             /\ e.sid = i.env.sid /\ e.eph = i.env.nonce
    <2>1. PICK r \in SessionKey(i.env.from, i.env.to, i.env.sid) :
              r.my_role = "responder" /\ r.key = KeyOf(i.env)
        BY <1>2, <1>4 DEF KeyInv, HandshakeInv, Leg2Held
    <2>2. /\ r \in session_keys /\ r.me = i.env.from /\ r.peer = n /\ r.sid = i.env.sid
          /\ r.key.nonce = i.env.nonce
        BY <1>1, <2>1 DEF SessionKey, KeyOf, DeriveSessionKey
    <2>. QED  BY <2>1, <2>2 DEF KeyInv, HandshakeInv, ResponderAnswers
<1>. QED  BY <1>1, <1>2, <1>3, <1>4

\* on_session_open answers only a leg 1: a reply would find the pending row or
\* the key of the session this node opened.
LEMMA BeginRespondKeyInv ==
    ASSUME TypeOK, KeyInv, NEW n \in Node, BeginRespond(n)
    PROVE  KeyInv'
<1>1. PICK i \in group[n] :
          /\ IsOpen(i)
          /\ PendingHandshake(n, i.env.from, i.env.sid) = {}
          /\ SessionKey(n, i.env.from, i.env.sid) = {}
          /\ group' = [group EXCEPT ![n] = @ \ {i}]
          /\ cur' = [cur EXCEPT ![n] = {i}]
          /\ pc' = [pc EXCEPT ![n] = "upsert_peer"]
          /\ UNCHANGED <<consent, tables, relay, batch, acks, out, ghosts>>
    BY DEF BeginRespond, Take
<1>2. HandshakeInv' /\ SealedUnder' /\ SealedOnce'
    BY <1>1, QuietStep DEF KeyInv, tables, ghosts
<1>3. Delivered'
    <2>1. \A m \in Node : batch'[m] \cup group'[m] \cup cur'[m]
                             \subseteq batch[m] \cup group[m] \cup cur[m]
        BY <1>1 DEF TypeOK, TickType
    <2>. QED  BY <1>1, <2>1, DeliveredSame DEF KeyInv, relay, ghosts
<1>4. Leg1(i.env)
    <2>1. SUFFICES ASSUME Leg2(i.env) PROVE FALSE
        BY <1>1, RepliesAreBacked
    <2>2. PICK e \in wire : Leg1(e) /\ e.from = n /\ e.to = i.env.from /\ e.sid = i.env.sid
        BY <1>1, <2>1, RepliesAreBacked
    <2>. QED  BY <1>1, <2>2, SealedDef DEF KeyInv, HandshakeInv, Leg1Held
<1>5. Handling'
    <2>1. UNCHANGED session_keys
        BY <1>1 DEF tables
    <2>2. \A m \in Node : m # n => cur'[m] = cur[m] /\ pc'[m] = pc[m]
        BY <1>1 DEF TypeOK, TickType
    <2>3. cur'[n] = {i} /\ pc'[n] = "upsert_peer"
        BY <1>1 DEF TypeOK, TickType
    <2>. QED  BY <1>1, <1>4, <2>1, <2>2, <2>3 DEF KeyInv, Handling, SessionKey, Leg1
<1>. QED  BY <1>2, <1>3, <1>5 DEF KeyInv

\* open_session: the id is in no row, so no other leg 1 carries it.
LEMMA OpenSessionKeyInv ==
    ASSUME TypeOK, KeyInv, NEW n \in Node, NEW p \in Node, NEW s \in Sid,
           OpenSession(n, p, s)
    PROVE  KeyInv'
<1>. DEFINE leg == BuildSessionOpen(n, p, s, nextEph, nextEph)
            row == [me |-> n, peer |-> p, sid |-> s, eph |-> nextEph]
<1>1. /\ n # p /\ FreshSid(s)
      /\ pending_handshakes' = pending_handshakes \cup {row}
      /\ nextEph' = nextEph + 1
      /\ out' = [out EXCEPT ![n] = {leg}]
      /\ pc' = [pc EXCEPT ![n] = "push"]
      /\ UNCHANGED <<session_keys, outbound_seq, envelopes, batch, group, cur, wire>>
    BY DEF OpenSession, relay
<1>2. nextEph \in Nat /\ \A e \in Sealed : e \in SessionOpens \cup Messages
    BY SealedDef DEF TypeOK, HistoryType, TickType
<1>3. \A e \in Sealed' : e \in Sealed \/ e = leg
    BY <1>1, SealedDef, SealedDefNext DEF TypeOK, TickType
<1>4. /\ Leg1(leg) /\ leg.type = "session_open" /\ leg.from = n /\ leg.to = p
      /\ leg.sid = s /\ leg.eph = nextEph /\ leg.nonce = nextEph
    BY DEF BuildSessionOpen, Leg1
<1>5. \A e \in Sealed : Leg1(e) => e.sid # s
    BY <1>1 DEF KeyInv, HandshakeInv, Leg1Held, PendingHandshake, SessionKey, FreshSid
<1>. HIDE DEF leg
<1>6. HandshakeInv'
    <2>1. Generated'
        BY <1>1, <1>2, <1>3, <1>4 DEF KeyInv, HandshakeInv, Generated, SessionOpens, Messages
    <2>2. Leg1Unique'
        BY <1>1, <1>3, <1>4, <1>5 DEF KeyInv, HandshakeInv, Leg1Unique, Leg1
    <2>3. Leg1Pending'
        <3>1. \A r \in pending_handshakes : r.sid # s
            BY <1>1 DEF FreshSid
        <3>. QED  BY <1>1, <1>3, <1>4, <1>5, <3>1 DEF KeyInv, HandshakeInv, Leg1Pending, Leg1
    <2>4. Leg1Held'
        <3>1. row \in pending_handshakes'
            BY <1>1
        <3>2. PendingHandshake(n, p, s)' # {}
            BY <3>1 DEF PendingHandshake
        <3>3. ASSUME NEW e \in Sealed, Leg1(e)
              PROVE  \/ PendingHandshake(e.from, e.to, e.sid)' # {}
                     \/ SessionKey(e.from, e.to, e.sid)' # {}
            BY <1>1, <3>3 DEF KeyInv, HandshakeInv, Leg1Held, PendingHandshake, SessionKey
        <3>. QED  BY <1>3, <1>4, <3>2, <3>3 DEF Leg1Held, Leg1
    <2>5. Leg2Held'
        BY <1>1, <1>3, <1>4 DEF KeyInv, HandshakeInv, Leg2Held, Leg1, Leg2, SessionKey, KeyOf
    <2>6. ResponderAnswers' /\ InitiatorMirrored' /\ KeyRows'
        BY <1>1 DEF KeyInv, HandshakeInv, ResponderAnswers, InitiatorMirrored, KeyRows, Leg1
    <2>. QED  BY <2>1, <2>2, <2>3, <2>4, <2>5, <2>6 DEF HandshakeInv
<1>7. SealedUnder' /\ SealedOnce'
    BY <1>1, <1>3, <1>4, SealedSame DEF KeyInv
<1>8. Delivered'
    BY <1>1, DeliveredSame DEF KeyInv
<1>9. Handling'
    <2>1. \A m \in Node : pc'[m] = pc[m] \/ pc'[m] = "push"
        BY <1>1 DEF TypeOK, TickType
    <2>. QED  BY <1>1, <2>1, HandlingSame DEF KeyInv, Answering, Completing
<1>. QED  BY <1>6, <1>7, <1>8, <1>9 DEF KeyInv

\* on_session_open commits the key with the reply that stands for it.
LEMMA SaveResponderKeyKeyInv ==
    ASSUME TypeOK, KeyInv, NEW n \in Node, SaveResponderKey(n)
    PROVE  KeyInv'
<1>1. PICK i \in cur[n] :
          /\ SaveSessionKey(n, i.env.from, i.env.sid,
                 DeriveSessionKey(nextEph, i.env.eph, n, i.env.from, i.env.sid, i.env.nonce),
                 "responder")
          /\ out' = [out EXCEPT ![n] =
                 {BuildSessionOpen(n, i.env.from, i.env.sid, nextEph, i.env.nonce)}]
    BY DEF SaveResponderKey
<1>2. /\ pc[n] = "responder_key"
      /\ nextEph' = nextEph + 1
      /\ pc' = [pc EXCEPT ![n] = "responder_session"]
      /\ UNCHANGED <<pending_handshakes, outbound_seq, envelopes, batch, group, cur, wire>>
    BY DEF SaveResponderKey, relay
<1>3. /\ Leg1(i.env) /\ SessionKey(n, i.env.from, i.env.sid) = {}
      /\ i.env \in wire /\ i.env \in Sealed /\ i.env.to = n
    BY <1>2, SealedDef DEF KeyInv, Handling, Delivered
<1>. DEFINE leg == BuildSessionOpen(n, i.env.from, i.env.sid, nextEph, i.env.nonce)
            key == DeriveSessionKey(nextEph, i.env.eph, n, i.env.from, i.env.sid, i.env.nonce)
            row == [me |-> n, peer |-> i.env.from, sid |-> i.env.sid, key |-> key,
                    my_role |-> "responder"]
<1>4. session_keys' = session_keys \cup {row}
    BY <1>1, <1>3, SaveSessionKeyAdds
<1>5. \A e \in Sealed' : e \in Sealed \/ e = leg
    BY <1>1, <1>2, SealedDef, SealedDefNext DEF TypeOK, TickType
<1>6. nextEph \in Nat /\ i.env.nonce < nextEph /\ i.env.eph = i.env.nonce
    BY <1>3 DEF TypeOK, HistoryType, KeyInv, HandshakeInv, Generated, Leg1
<1>7. /\ Leg2(leg) /\ ~Leg1(leg) /\ leg.type = "session_open"
      /\ leg.from = n /\ leg.to = i.env.from /\ leg.sid = i.env.sid
      /\ leg.eph = nextEph /\ leg.nonce = i.env.nonce /\ KeyOf(leg) = key
    BY <1>3, <1>6 DEF BuildSessionOpen, Leg1, Leg2, KeyOf
<1>8. key.nonce = i.env.eph /\ key.sid = i.env.sid /\ key.fps = {n, i.env.from}
    BY <1>6 DEF DeriveSessionKey
<1>9. row \in session_keys' /\ session_keys \subseteq session_keys'
    BY <1>4
<1>. HIDE DEF leg, key
<1>10. HandshakeInv'
    <2>1. Generated'
        <3>1. \A e \in Sealed : e.type = "session_open" => e.eph \in Nat /\ e.nonce \in Nat
            BY SealedDef DEF TypeOK, HistoryType, TickType, SessionOpens, Messages
        <3>2. i.env.nonce \in Nat
            BY <1>3, <3>1 DEF Leg1
        <3>. QED  BY <1>2, <1>5, <1>6, <1>7, <3>1, <3>2 DEF KeyInv, HandshakeInv, Generated
    <2>2. Leg1Unique' /\ Leg1Pending'
        BY <1>2, <1>5, <1>7 DEF KeyInv, HandshakeInv, Leg1Unique, Leg1Pending, Leg1
    <2>3. Leg1Held'
        BY <1>2, <1>5, <1>7, <1>9 DEF KeyInv, HandshakeInv, Leg1Held, Leg1,
                                      PendingHandshake, SessionKey
    <2>4. Leg2Held'
        <3>1. ASSUME NEW e \in Sealed, Leg2(e)
              PROVE  \E r \in SessionKey(e.from, e.to, e.sid)' :
                         r.my_role = "responder" /\ r.key = KeyOf(e)
            BY <1>9, <3>1 DEF KeyInv, HandshakeInv, Leg2Held, SessionKey
        <3>2. row \in SessionKey(n, i.env.from, i.env.sid)'
            BY <1>9 DEF SessionKey
        <3>3. \A e \in Sealed' : Leg2(e) =>
                  \E r \in SessionKey(e.from, e.to, e.sid)' :
                      r.my_role = "responder" /\ r.key = KeyOf(e)
            BY <1>5, <1>7, <3>1, <3>2
        <3>. QED  BY <3>3 DEF Leg2Held, Leg2, KeyOf
    <2>5. ResponderAnswers'
        BY <1>2, <1>3, <1>4, <1>8 DEF KeyInv, HandshakeInv, ResponderAnswers, Leg1
    <2>6. InitiatorMirrored'
        BY <1>4 DEF KeyInv, HandshakeInv, InitiatorMirrored
    <2>7. KeyRows'
        BY <1>3, <1>4, <1>8 DEF KeyInv, HandshakeInv, KeyRows, SessionKey
    <2>. QED  BY <2>1, <2>2, <2>3, <2>4, <2>5, <2>6, <2>7 DEF HandshakeInv
<1>11. SealedUnder' /\ SealedOnce'
    BY <1>2, <1>5, <1>7, <1>9, SealedSame DEF KeyInv
<1>12. Delivered'
    BY <1>2, DeliveredSame DEF KeyInv
<1>13. Handling'
    <2>1. pc'[n] = "responder_session" /\ \A m \in Node : m # n => pc'[m] = pc[m]
        BY <1>2 DEF TypeOK, TickType
    <2>2. \A m, q, s : m # n => SessionKey(m, q, s)' = SessionKey(m, q, s)
        BY <1>4 DEF SessionKey
    <2>. QED  BY <1>2, <2>1, <2>2 DEF KeyInv, Handling, Leg1
<1>. QED  BY <1>10, <1>11, <1>12, <1>13 DEF KeyInv

\* complete_session: the open is a reply, for this node's own leg 1 cannot come
\* back to it, and the reply's nonce is the pending ephemeral's.
LEMMA SaveInitiatorKeyKeyInv ==
    ASSUME TypeOK, KeyInv, NEW n \in Node, SaveInitiatorKey(n)
    PROVE  KeyInv'
<1>1. PICK i \in group[n] :
        \E pend \in PendingHandshake(n, i.env.from, i.env.sid) :
          /\ IsOpen(i)
          /\ SessionKey(n, i.env.from, i.env.sid) = {}
          /\ SaveSessionKey(n, i.env.from, i.env.sid,
                 DeriveSessionKey(pend.eph, i.env.eph, n, i.env.from, i.env.sid, pend.eph),
                 "initiator")
          /\ group' = [group EXCEPT ![n] = @ \ {i}]
          /\ cur' = [cur EXCEPT ![n] = {i}]
          /\ pc' = [pc EXCEPT ![n] = "initiator_session"]
          /\ UNCHANGED <<pending_handshakes, outbound_seq, envelopes, batch, out, nextEph, wire>>
    BY DEF SaveInitiatorKey, Take, relay, ghosts
<1>2. PICK pend \in PendingHandshake(n, i.env.from, i.env.sid) :
          /\ IsOpen(i)
          /\ SessionKey(n, i.env.from, i.env.sid) = {}
          /\ SaveSessionKey(n, i.env.from, i.env.sid,
                 DeriveSessionKey(pend.eph, i.env.eph, n, i.env.from, i.env.sid, pend.eph),
                 "initiator")
          /\ group' = [group EXCEPT ![n] = @ \ {i}]
          /\ cur' = [cur EXCEPT ![n] = {i}]
          /\ pc' = [pc EXCEPT ![n] = "initiator_session"]
          /\ UNCHANGED <<pending_handshakes, outbound_seq, envelopes, batch, out, nextEph, wire>>
    BY <1>1
<1>3. pend \in pending_handshakes /\ pend.me = n /\ pend.peer = i.env.from
      /\ pend.sid = i.env.sid
    BY <1>2 DEF PendingHandshake
<1>4. Leg2(i.env)
    <2>1. SUFFICES ASSUME Leg1(i.env) PROVE FALSE
        BY <1>2, RepliesAreBacked
    <2>. QED  BY <1>2, <1>3, <2>1, RepliesAreBacked
              DEF KeyInv, HandshakeInv, Leg1Pending, Leg1Unique
<1>5. pend.eph = i.env.nonce
    <2>1. PICK e \in wire : Leg1(e) /\ e.sid = i.env.sid /\ e.eph = i.env.nonce
        BY <1>2, <1>4, RepliesAreBacked
    <2>. QED  BY <1>3, <2>1, SealedDef DEF KeyInv, HandshakeInv, Leg1Pending
<1>6. i.env \in Sealed /\ i.env.to = n
    BY <1>2, RepliesAreBacked
<1>. DEFINE key == DeriveSessionKey(pend.eph, i.env.eph, n, i.env.from, i.env.sid, pend.eph)
            row == [me |-> n, peer |-> i.env.from, sid |-> i.env.sid, key |-> key,
                    my_role |-> "initiator"]
<1>7. session_keys' = session_keys \cup {row}
    BY <1>2, SaveSessionKeyAdds
<1>8. key = KeyOf(i.env)
    BY <1>5, <1>6 DEF KeyOf, DeriveSessionKey
<1>9. key.sid = i.env.sid /\ key.fps = {n, i.env.from}
    BY DEF DeriveSessionKey
<1>10. row \in session_keys' /\ session_keys \subseteq session_keys'
    BY <1>7
<1>11. \A e : e \in Sealed' <=> e \in Sealed
    BY <1>2, SealedDef, SealedDefNext
<1>. HIDE DEF key
<1>12. HandshakeInv'
    <2>1. Generated' /\ Leg1Unique' /\ Leg1Pending'
        BY <1>2, <1>11 DEF KeyInv, HandshakeInv, Generated, Leg1Unique, Leg1Pending, Leg1
    <2>2. Leg1Held'
        BY <1>2, <1>10, <1>11 DEF KeyInv, HandshakeInv, Leg1Held, Leg1,
                                  PendingHandshake, SessionKey
    <2>3. Leg2Held'
        BY <1>10, <1>11 DEF KeyInv, HandshakeInv, Leg2Held, Leg2, SessionKey, KeyOf
    <2>4. ResponderAnswers'
        BY <1>2, <1>7 DEF KeyInv, HandshakeInv, ResponderAnswers, Leg1
    <2>5. InitiatorMirrored'
        <3>1. PICK r2 \in SessionKey(i.env.from, n, i.env.sid) :
                  r2.my_role = "responder" /\ r2.key = KeyOf(i.env)
            BY <1>4, <1>6 DEF KeyInv, HandshakeInv, Leg2Held
        <3>2. /\ r2 \in session_keys' /\ r2.me = row.peer /\ r2.peer = row.me
              /\ r2.sid = row.sid /\ r2.key = row.key
            BY <1>8, <1>10, <3>1 DEF SessionKey
        <3>. QED  BY <1>7, <3>1, <3>2 DEF KeyInv, HandshakeInv, InitiatorMirrored
    <2>6. KeyRows'
        BY <1>2, <1>7, <1>9 DEF KeyInv, HandshakeInv, KeyRows, SessionKey
    <2>. QED  BY <2>1, <2>2, <2>3, <2>4, <2>5, <2>6 DEF HandshakeInv
<1>13. SealedUnder' /\ SealedOnce'
    BY <1>2, <1>10, <1>11, SealedSame DEF KeyInv
<1>14. Delivered'
    <2>1. \A m \in Node : batch'[m] \cup group'[m] \cup cur'[m]
                             \subseteq batch[m] \cup group[m] \cup cur[m]
        BY <1>2 DEF TypeOK, TickType
    <2>. QED  BY <1>2, <2>1, DeliveredSame DEF KeyInv
<1>15. Handling'
    <2>1. \A m \in Node : m # n => pc'[m] = pc[m] /\ cur'[m] = cur[m]
        BY <1>2 DEF TypeOK, TickType
    <2>2. pc'[n] = "initiator_session" /\ cur'[n] = {i}
        BY <1>2 DEF TypeOK, TickType
    <2>3. \A m, q, s : m # n => SessionKey(m, q, s)' = SessionKey(m, q, s)
        BY <1>7 DEF SessionKey
    <2>4. SessionKey(n, i.env.from, i.env.sid)' # {}
        BY <1>10 DEF SessionKey
    <2>. QED  BY <2>1, <2>2, <2>3, <2>4 DEF KeyInv, Handling, Leg1
<1>. QED  BY <1>12, <1>13, <1>14, <1>15 DEF KeyInv

\* The pending row goes only when the key is there.
LEMMA ClearPendingKeyInv ==
    ASSUME TypeOK, KeyInv, NEW n \in Node, ClearPendingHandshake(n)
    PROVE  KeyInv'
<1>1. PICK i \in cur[n] :
          /\ pending_handshakes' =
                 pending_handshakes \ PendingHandshake(n, i.env.from, i.env.sid)
          /\ cur' = [cur EXCEPT ![n] = {}]
          /\ pc' = [pc EXCEPT ![n] = "groups"]
    BY DEF ClearPendingHandshake, AckAndContinue
<1>2. /\ pc[n] = "clear_pending"
      /\ UNCHANGED <<session_keys, outbound_seq, envelopes, batch, group, out, nextEph, wire>>
    BY DEF ClearPendingHandshake, relay, ghosts
<1>3. SessionKey(n, i.env.from, i.env.sid) # {}
    BY <1>2 DEF KeyInv, Handling
<1>4. \A e : e \in Sealed' <=> e \in Sealed
    BY <1>2, SealedDef, SealedDefNext
<1>5. HandshakeInv'
    <2>1. Generated' /\ Leg1Unique' /\ Leg1Pending'
        BY <1>1, <1>2, <1>4 DEF KeyInv, HandshakeInv, Generated, Leg1Unique, Leg1Pending, Leg1
    <2>2. Leg1Held'
        <3>1. SUFFICES ASSUME NEW e \in Sealed, Leg1(e)
                       PROVE  \/ PendingHandshake(e.from, e.to, e.sid)' # {}
                              \/ SessionKey(e.from, e.to, e.sid)' # {}
            BY <1>4 DEF Leg1Held, Leg1
        <3>2. CASE SessionKey(e.from, e.to, e.sid) # {}
            BY <1>2, <3>2 DEF SessionKey
        <3>3. CASE PendingHandshake(e.from, e.to, e.sid) # {}
            <4>1. PICK r \in pending_handshakes :
                      r.me = e.from /\ r.peer = e.to /\ r.sid = e.sid
                BY <3>3 DEF PendingHandshake
            <4>2. CASE r.me = n /\ r.peer = i.env.from /\ r.sid = i.env.sid
                BY <1>2, <1>3, <4>1, <4>2 DEF SessionKey
            <4>3. CASE ~(r.me = n /\ r.peer = i.env.from /\ r.sid = i.env.sid)
                BY <1>1, <4>1, <4>3 DEF PendingHandshake
            <4>. QED  BY <4>2, <4>3
        <3>. QED  BY <3>1, <3>2, <3>3 DEF KeyInv, HandshakeInv, Leg1Held
    <2>3. Leg2Held' /\ ResponderAnswers' /\ InitiatorMirrored' /\ KeyRows'
        BY <1>2, <1>4 DEF KeyInv, HandshakeInv, Leg2Held, ResponderAnswers,
                          InitiatorMirrored, KeyRows, Leg1, Leg2, SessionKey, KeyOf
    <2>. QED  BY <2>1, <2>2, <2>3 DEF HandshakeInv
<1>6. SealedUnder' /\ SealedOnce'
    BY <1>2, <1>4, SealedSame DEF KeyInv
<1>7. \A m \in Node : cur'[m] \subseteq cur[m] /\ (cur'[m] = {} \/ pc'[m] = pc[m])
    BY <1>1 DEF TypeOK, TickType
<1>8. Delivered'
    BY <1>2, <1>7, DeliveredSame DEF KeyInv
<1>9. Handling'
    BY <1>2, <1>7, HandlingSame DEF KeyInv
<1>. QED  BY <1>5, <1>6, <1>8, <1>9 DEF KeyInv

-----------------------------------------------------------------------------
(* Sealing, pushing, fetching. *)

\* send_message seals above every sequence of the stream.
LEMMA NextOutboundKeyInv ==
    ASSUME TypeOK, KeyInv, NEW n \in Node, NEW row \in session_keys, NEW text \in Text,
           NextOutboundSequence(n, row, text)
    PROVE  KeyInv'
<1>. DEFINE k == <<n, row.peer, row.sid>>
            new == BuildEnvelope(row, outbound_seq[k] + 1, text)
<1>1. /\ row.me = n
      /\ outbound_seq' = [outbound_seq EXCEPT ![k] = @ + 1]
      /\ out' = [out EXCEPT ![n] = {new}]
      /\ pc' = [pc EXCEPT ![n] = "push"]
      /\ UNCHANGED <<pending_handshakes, session_keys, envelopes, batch, group, cur,
                     nextEph, wire>>
    BY DEF NextOutboundSequence, relay, ghosts
<1>2. \A e \in Sealed' : e \in Sealed \/ e = new
    BY <1>1, SealedDef, SealedDefNext DEF TypeOK, TickType
<1>3. /\ new.type = "message" /\ new.from = n /\ new.to = row.peer /\ new.sid = row.sid
      /\ new.key = row.key /\ new.role = row.my_role /\ new.seq = outbound_seq[k] + 1
    BY <1>1 DEF BuildEnvelope
<1>4. k \in Node \X Node \X Sid /\ outbound_seq \in [Node \X Node \X Sid -> Nat]
    BY DEF TypeOK, DbType
<1>5. /\ outbound_seq'[k] = outbound_seq[k] + 1
      /\ outbound_seq[k] \in Nat
      /\ \A j \in Node \X Node \X Sid : j # k => outbound_seq'[j] = outbound_seq[j]
    BY <1>1, <1>4
<1>6. \A m \in Sealed : m.type = "message" =>
          m.from \in Node /\ m.to \in Node /\ m.sid \in Sid /\ m.seq \in Nat
    BY SealedDef DEF TypeOK, HistoryType, TickType, SessionOpens, Messages
<1>. HIDE DEF new
<1>7. HandshakeInv'
    BY <1>1, <1>2, <1>3, HandshakeSame DEF KeyInv
<1>8. SealedUnder'
    <2>1. ASSUME NEW m \in Sealed, m.type = "message"
          PROVE  m.seq <= outbound_seq'[<<m.from, m.to, m.sid>>]
        <3>1. <<m.from, m.to, m.sid>> \in Node \X Node \X Sid
            BY <1>6, <2>1
        <3>2. m.seq <= outbound_seq[<<m.from, m.to, m.sid>>]
            BY <2>1 DEF KeyInv, SealedUnder
        <3>3. CASE <<m.from, m.to, m.sid>> = k
            BY <1>5, <1>6, <2>1, <3>2, <3>3
        <3>4. CASE <<m.from, m.to, m.sid>> # k
            BY <1>5, <3>1, <3>2, <3>4
        <3>. QED  BY <3>3, <3>4
    <2>2. new.seq <= outbound_seq'[<<new.from, new.to, new.sid>>]
        BY <1>3, <1>5
    <2>3. row \in SessionKey(n, row.peer, row.sid)
        BY <1>1 DEF SessionKey
    <2>4. \A m \in Sealed' : m.type = "message" =>
              \E r \in SessionKey(m.from, m.to, m.sid) : r.key = m.key /\ r.my_role = m.role
        BY <1>2, <1>3, <2>3 DEF KeyInv, SealedUnder
    <2>5. \A m \in Sealed' : m.type = "message" =>
              m.seq <= outbound_seq'[<<m.from, m.to, m.sid>>]
        BY <1>2, <2>1, <2>2
    <2>. QED  BY <1>1, <2>4, <2>5 DEF SealedUnder, SessionKey
<1>9. SealedOnce'
    <2>1. \A m \in Sealed :
              m.type = "message" /\ m.from = n /\ m.to = row.peer /\ m.sid = row.sid
                  => m.seq # new.seq
        BY <1>3, <1>5, <1>6 DEF KeyInv, SealedUnder
    <2>. QED  BY <1>2, <1>3, <2>1 DEF KeyInv, SealedOnce
<1>10. Delivered'
    BY <1>1, DeliveredSame DEF KeyInv
<1>11. Handling'
    <2>1. \A m \in Node : pc'[m] = pc[m] \/ pc'[m] = "push"
        BY <1>1 DEF TypeOK, TickType
    <2>. QED  BY <1>1, <2>1, HandlingSame DEF KeyInv, Answering, Completing
<1>. QED  BY <1>7, <1>8, <1>9, <1>10, <1>11 DEF KeyInv

\* A push moves the envelope from the tick to the wire, in any number of copies.
LEMMA PushOutKeyInv ==
    ASSUME TypeOK, KeyInv, NEW n \in Node, PushOut(n)
    PROVE  KeyInv'
<1>1. PICK env \in out[n] : \E copies \in PushCopies : Push(env, copies)
    BY DEF PushOut
<1>2. /\ wire' = wire \cup {env}
      /\ \A i \in envelopes' : i \in envelopes \/ i.env = env
    BY <1>1 DEF Push
<1>3. /\ out' = [out EXCEPT ![n] = {}]
      /\ pc' = [pc EXCEPT ![n] = IF cur[n] = {} THEN "outbound" ELSE "groups"]
      /\ cur' = [cur EXCEPT ![n] = {}]
      /\ UNCHANGED <<pending_handshakes, session_keys, outbound_seq, batch, group, nextEph>>
    BY DEF PushOut, tables
<1>4. \A e \in Sealed' : e \in Sealed
    BY <1>1, <1>2, <1>3, SealedDef, SealedDefNext DEF TypeOK, TickType
<1>5. HandshakeInv' /\ SealedUnder' /\ SealedOnce'
    BY <1>2, <1>3, <1>4, HandshakeSame, SealedSame DEF KeyInv
<1>6. \A m \in Node : cur'[m] \subseteq cur[m] /\ (cur'[m] = {} \/ pc'[m] = pc[m])
    BY <1>3 DEF TypeOK, TickType
<1>7. Delivered'
    BY <1>2, <1>3, <1>6 DEF KeyInv, Delivered
<1>8. Handling'
    BY <1>3, <1>6, HandlingSame DEF KeyInv
<1>. QED  BY <1>5, <1>7, <1>8 DEF KeyInv

\* A fetched batch is what was pushed to this mailbox.
LEMMA FetchKeyInv ==
    ASSUME TypeOK, KeyInv, NEW n \in Node, Fetch(n)
    PROVE  KeyInv'
<1>1. /\ pc' = [pc EXCEPT ![n] = "groups"]
      /\ batch' = [batch EXCEPT ![n] = Mailbox(n)]
      /\ UNCHANGED <<pending_handshakes, session_keys, outbound_seq, envelopes, group, cur,
                     out, nextEph, wire>>
    BY DEF Fetch, tables, relay, ghosts
<1>2. HandshakeInv' /\ SealedUnder' /\ SealedOnce'
    BY <1>1, QuietStep DEF KeyInv
<1>3. Delivered'
    BY <1>1 DEF KeyInv, Delivered, Mailbox, TypeOK, TickType
<1>4. Handling'
    <2>1. \A m \in Node : pc'[m] = pc[m] \/ pc'[m] = "groups"
        BY <1>1 DEF TypeOK, TickType
    <2>. QED  BY <1>1, <2>1, HandlingSame DEF KeyInv, Answering, Completing
<1>. QED  BY <1>2, <1>3, <1>4 DEF KeyInv

-----------------------------------------------------------------------------
(* Everything else only moves the tick along. *)

Moves ==
    /\ UNCHANGED <<pending_handshakes, session_keys, outbound_seq, nextEph, wire>>
    /\ envelopes' \subseteq envelopes
    /\ \A m \in Node :
          /\ out'[m] \subseteq out[m]
          /\ batch'[m] \cup group'[m] \cup cur'[m] \subseteq batch[m] \cup group[m] \cup cur[m]
          /\ \/ /\ cur'[m] \subseteq cur[m]
                /\ pc'[m] \in Answering => pc[m] \in Answering
                /\ pc'[m] \in Completing => pc[m] \in Completing
             \/ pc'[m] \notin Answering \cup Completing

\* Such a step keeps the invariant.
LEMMA MovesKeyInv == ASSUME KeyInv, Moves PROVE KeyInv'
<1>1. HandshakeInv' /\ SealedUnder' /\ SealedOnce'
    BY QuietStep DEF KeyInv, Moves
<1>2. Delivered'
    BY DeliveredSame DEF KeyInv, Moves
<1>3. Handling'
    BY DEF KeyInv, Moves, Handling, Answering, Completing, SessionKey, Leg1
<1>. QED  BY <1>1, <1>2, <1>3 DEF KeyInv

\* Dropping or acking an item, taking up the next group or a message.
LEMMA AckMoves ==
    ASSUME TypeOK, NEW n \in Node, NEW i, AckAndContinue(n, i), envelopes' \subseteq envelopes,
           UNCHANGED <<pending_handshakes, session_keys, outbound_seq, nextEph, wire>>,
           UNCHANGED <<batch, out>>,
           \A m \in Node : group'[m] \subseteq group[m]
    PROVE  Moves
<1>1. \A m \in Node : /\ m # n => cur'[m] = cur[m] /\ pc'[m] = pc[m]
                      /\ m = n => cur'[m] = {} /\ pc'[m] = "groups"
    BY DEF AckAndContinue, TypeOK, TickType
<1>. QED  BY <1>1 DEF Moves, Answering, Completing

\* The steps of a poll that the lemmas above leave.
LEMMA PollMoves ==
    ASSUME TypeOK, NEW n \in Node,
           \/ FetchFails(n) \/ NextGroup(n) \/ DropOpen(n) \/ UpsertPeer(n) \/ CreateSession(n)
           \/ DropMessage(n) \/ AppendTranscript(n) \/ SetSeqHighWater(n) \/ Ack(n)
    PROVE  Moves
<1>. USE DEF tables, relay, ghosts
<1>1. CASE FetchFails(n)
    BY <1>1 DEF FetchFails, Moves, Answering, Completing, TypeOK, TickType
<1>2. CASE NextGroup(n)
    <2>1. PICK first \in Oldest(batch[n]) :
            LET items == {i \in batch[n] : i.env.from = first.env.from}
                gated == consent[<<n, first.env.from>>] \in InboundBlockedConsent
            IN /\ batch' = [batch EXCEPT ![n] = @ \ items]
               /\ group' = [group EXCEPT ![n] = IF gated THEN {} ELSE FloodClamp(items)]
        BY <1>2 DEF NextGroup
    <2>2. \A m \in Node : batch'[m] \subseteq batch[m]
        BY <2>1 DEF TypeOK, TickType
    <2>3. \A m \in Node : group'[m] \subseteq group[m] \cup batch[m]
        BY <2>1 DEF TypeOK, TickType, FloodClamp
    <2>. QED  BY <1>2, <2>2, <2>3 DEF NextGroup, Moves
<1>3. CASE DropOpen(n) \/ DropMessage(n)
    <2>1. PICK i \in group[n] :
            /\ AckAndContinue(n, i)
            /\ group' = [group EXCEPT ![n] = @ \ {i}]
            /\ UNCHANGED <<consent, tables, relay, batch, out, nextEph, wire>>
        BY <1>3 DEF DropOpen, DropMessage, Take
    <2>2. \A m \in Node : group'[m] \subseteq group[m]
        BY <2>1 DEF TypeOK, TickType
    <2>. QED  BY <2>1, <2>2, AckMoves
<1>4. CASE UpsertPeer(n)
    BY <1>4 DEF UpsertPeer, Moves, Answering, Completing, TypeOK, TickType
<1>5. CASE CreateSession(n)
    BY <1>5 DEF CreateSession, Moves, Answering, Completing, TypeOK, TickType
<1>6. CASE AppendTranscript(n)
    <2>1. PICK i \in group[n] :
            /\ group' = [group EXCEPT ![n] = @ \ {i}]
            /\ cur' = [cur EXCEPT ![n] = {i}]
            /\ pc' = [pc EXCEPT ![n] = "high_water"]
            /\ UNCHANGED <<pending_handshakes, session_keys, outbound_seq, relay, batch, out,
                           ghosts>>
        BY <1>6 DEF AppendTranscript, Take
    <2>. QED  BY <2>1 DEF Moves, Answering, Completing, TypeOK, TickType
<1>7. CASE SetSeqHighWater(n)
    <2>1. PICK i \in cur[n] : AckAndContinue(n, i)
        BY <1>7 DEF SetSeqHighWater
    <2>. QED  BY <1>7, <2>1, AckMoves DEF SetSeqHighWater
<1>8. CASE Ack(n)
    BY <1>8 DEF Ack, Moves, Answering, Completing, TypeOK, TickType
<1>. QED  BY <1>1, <1>2, <1>3, <1>4, <1>5, <1>6, <1>7, <1>8

\* The key invariant holds at first: no key, no leg, no message exists.
LEMMA KeyInvInit == Init => KeyInv
<1>1. ASSUME Init PROVE \A e : e \notin Sealed
    BY <1>1, SealedDef DEF Init
<1>. QED
    BY <1>1 DEF Init, KeyInv, HandshakeInv, Generated, Leg1Unique, Leg1Pending, Leg1Held,
                Leg2Held, ResponderAnswers, InitiatorMirrored, KeyRows, Delivered, Handling,
                SealedUnder, SealedOnce

\* Every step keeps the key invariant.
LEMMA KeyInvStep == TypeOK /\ KeyInv /\ [Next]_vars => KeyInv'
<1>. SUFFICES ASSUME TypeOK, KeyInv, [Next]_vars PROVE KeyInv'
    OBVIOUS
<1>1. ASSUME NEW n \in Node, Poll(n) PROVE KeyInv'
    <2>1. CASE AppendRaises(n) \/ AckFails(n)
        BY <2>1, ForgetKeyInv DEF AppendRaises, AckFails, tables, relay, ghosts
    <2>. QED
        BY <1>1, <2>1, FetchKeyInv, BeginRespondKeyInv, SaveResponderKeyKeyInv,
           SaveInitiatorKeyKeyInv, ClearPendingKeyInv, PushOutKeyInv, PollMoves, MovesKeyInv
        DEF Poll
<1>2. ASSUME NEW n \in Node, Outbound(n) PROVE KeyInv'
    <2>1. CASE \E p \in Node, s \in Sid : EndSession(n, p, s)
        <3>1. Moves
            BY <2>1 DEF EndSession, Moves, local, relay, ghosts
        <3>. QED  BY <3>1, MovesKeyInv
    <2>2. CASE EndTick(n)
        BY <2>2, ForgetKeyInv DEF EndTick, tables, relay, ghosts
    <2>. QED  BY <1>2, <2>1, <2>2, OpenSessionKeyInv, NextOutboundKeyInv DEF Outbound
<1>3. CASE Environment
    <2>1. CASE \E n \in Node : Crash(n)
        BY <2>1, ForgetKeyInv DEF Crash, tables, relay
    <2>2. CASE \E n, p \in Node, new \in ConsentChoices : ConsentWritten(n, p, new)
        <3>1. Moves
            BY <2>2 DEF ConsentWritten, Moves, local, tables, relay, ghosts
        <3>. QED  BY <3>1, MovesKeyInv
    <2>3. CASE \E i \in envelopes : RelayGc(i)
        <3>1. Moves
            BY <2>3 DEF RelayGc, Moves, local, tables, ghosts
        <3>. QED  BY <3>1, MovesKeyInv
    <2>. QED  BY <1>3, <2>1, <2>2, <2>3 DEF Environment
<1>4. CASE UNCHANGED vars
    <2>1. Moves
        BY <1>4 DEF Moves, vars
    <2>. QED  BY <2>1, MovesKeyInv
<1>. QED  BY <1>1, <1>2, <1>3, <1>4 DEF Next

-----------------------------------------------------------------------------
(* The theorems. *)

\* Two responders would need two legs 1 of one session; two initiators would
\* each need the other to be a responder.
LEMMA KeyInvAgreement == TypeOK /\ KeyInv => KeyAgreement
<1>. SUFFICES ASSUME TypeOK, KeyInv, NEW r1 \in session_keys, NEW r2 \in session_keys,
                     r1.me = r2.peer, r1.peer = r2.me, r1.sid = r2.sid
              PROVE  r1.key = r2.key /\ r1.my_role # r2.my_role
    BY DEF KeyAgreement
<1>1. ~(r1.my_role = "responder" /\ r2.my_role = "responder")
    <2>. SUFFICES ASSUME r1.my_role = "responder", r2.my_role = "responder" PROVE FALSE
        OBVIOUS
    <2>1. PICK e1 \in wire : Leg1(e1) /\ e1.from = r1.peer /\ e1.to = r1.me /\ e1.sid = r1.sid
        BY DEF KeyInv, HandshakeInv, ResponderAnswers
    <2>2. PICK e2 \in wire : Leg1(e2) /\ e2.from = r2.peer /\ e2.to = r2.me /\ e2.sid = r2.sid
        BY DEF KeyInv, HandshakeInv, ResponderAnswers
    <2>. QED  BY <2>1, <2>2, SealedDef DEF KeyInv, HandshakeInv, Leg1Unique
<1>2. ASSUME r1.my_role = "initiator" PROVE r2.my_role = "responder" /\ r2.key = r1.key
    BY <1>2 DEF KeyInv, HandshakeInv, InitiatorMirrored, KeyRows
<1>3. ASSUME r2.my_role = "initiator" PROVE r1.my_role = "responder" /\ r2.key = r1.key
    BY <1>3 DEF KeyInv, HandshakeInv, InitiatorMirrored, KeyRows
<1>4. r1.my_role \in {"initiator", "responder"} /\ r2.my_role \in {"initiator", "responder"}
    BY DEF TypeOK, DbType, Roles
<1>. QED  BY <1>1, <1>2, <1>3, <1>4

\* In every reachable state the two ends of a session that both hold a key hold
\* the same one under opposite roles (derive_session_key, save_session_key).
THEOREM KeysAgree == Spec => []KeyAgreement
<1>1. TypeOK /\ CurShape /\ KeyInv /\ [Next]_vars => (TypeOK /\ CurShape /\ KeyInv)'
    BY TypeStep, CurShapeStep, KeyInvStep
<1>2. Init => TypeOK /\ CurShape /\ KeyInv
    BY TypeInit, KeyInvInit
<1>3. TypeOK /\ KeyInv => KeyAgreement
    BY KeyInvAgreement
<1>. QED  BY <1>1, <1>2, <1>3, PTL DEF Spec

\* An initiator that completed leg 3 always has a responder with the key:
\* on_session_open commits before it replies.
THEOREM InitiatorNeverAlone == Spec => []InitiatorHasResponder
<1>1. TypeOK /\ CurShape /\ KeyInv /\ [Next]_vars => (TypeOK /\ CurShape /\ KeyInv)'
    BY TypeStep, CurShapeStep, KeyInvStep
<1>2. Init => TypeOK /\ CurShape /\ KeyInv
    BY TypeInit, KeyInvInit
<1>3. KeyInv => InitiatorHasResponder
    BY DEF KeyInv, HandshakeInv, InitiatorMirrored, InitiatorHasResponder
<1>. QED  BY <1>1, <1>2, <1>3, PTL DEF Spec

\* A key names its session and its parties, so two messages under one key are of
\* one stream, where sequences differ, or of the two directions, where roles do.
LEMMA KeyInvNonces == TypeOK /\ KeyInv => NonceNeverReused
<1>. SUFFICES ASSUME TypeOK, KeyInv, NEW m1 \in wire, NEW m2 \in wire,
                     m1.type = "message", m2.type = "message",
                     m1.key = m2.key, m1.role = m2.role, m1.seq = m2.seq
              PROVE  m1 = m2
    BY DEF NonceNeverReused
<1>1. m1 \in Sealed /\ m2 \in Sealed
    BY SealedDef
<1>2. PICK r1 \in SessionKey(m1.from, m1.to, m1.sid) : r1.key = m1.key /\ r1.my_role = m1.role
    BY <1>1 DEF KeyInv, SealedUnder
<1>3. PICK r2 \in SessionKey(m2.from, m2.to, m2.sid) : r2.key = m2.key /\ r2.my_role = m2.role
    BY <1>1 DEF KeyInv, SealedUnder
<1>4. /\ r1 \in session_keys /\ r1.me = m1.from /\ r1.peer = m1.to /\ r1.sid = m1.sid
      /\ r2 \in session_keys /\ r2.me = m2.from /\ r2.peer = m2.to /\ r2.sid = m2.sid
    BY <1>2, <1>3 DEF SessionKey
<1>5. m1.sid = m2.sid /\ {m1.from, m1.to} = {m2.from, m2.to}
    BY <1>2, <1>3, <1>4 DEF KeyInv, HandshakeInv, KeyRows
<1>6. CASE m1.from = m2.from
    <2>1. m1.to = m2.to
        BY <1>5, <1>6
    <2>. QED  BY <1>1, <1>5, <1>6, <2>1 DEF KeyInv, SealedOnce
<1>7. CASE m1.from # m2.from
    <2>1. m1.from = m2.to /\ m1.to = m2.from
        BY <1>5, <1>7
    <2>. QED  BY <1>2, <1>3, <1>4, <1>5, <2>1, KeyInvAgreement DEF KeyAgreement
<1>. QED  BY <1>6, <1>7

\* No two different messages are ever sealed under one key with one AEAD nonce,
\* whatever crashes, failed pushes and directions (aead_nonce,
\* next_outbound_sequence).
THEOREM NoncesUnique == Spec => []NonceNeverReused
<1>1. TypeOK /\ CurShape /\ KeyInv /\ [Next]_vars => (TypeOK /\ CurShape /\ KeyInv)'
    BY TypeStep, CurShapeStep, KeyInvStep
<1>2. Init => TypeOK /\ CurShape /\ KeyInv
    BY TypeInit, KeyInvInit
<1>3. TypeOK /\ KeyInv => NonceNeverReused
    BY KeyInvNonces
<1>. QED  BY <1>1, <1>2, <1>3, PTL DEF Spec
=============================================================================
