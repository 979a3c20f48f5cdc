------------------------- MODULE KindledChannel_proofs -------------------------
(***************************************************************************)
(* Proofs that the replay guard never costs a message and that the         *)
(* transport implements KindledChannel, for any nodes, sessions, flood cap,  *)
(* crashes, copies and expiries.                                           *)
(*                                                                         *)
(* ReplayRejectsOnlyIngested is not inductive: the mailbox may be fetched    *)
(* again at any time, so it must be known what a batch, a group and a       *)
(* mailbox hold relative to one another.  In a mailbox a stream's messages    *)
(* lie in the order of their sequences (HeldOrder), since a sequence is      *)
(* drawn above all that were pushed (OutFresh).  A batch holds everything   *)
(* older than its items (BatchWhole) and the clamp cuts at the new end, so   *)
(* what is older than an item in hand is in hand too, or done with           *)
(* (InTurn).  Hence what the transcript has overtaken is settled            *)
(* (NonePassed), and the high water is a sequence of the transcript         *)
(* (RowsTrue).                                                             *)
(***************************************************************************)
EXTENDS KindledTransport_proofs, FiniteSetTheorems

\* The items that node n may still come to handle.
Held(n) == Mailbox(n) \cup batch[n] \cup group[n]

MessagesIn(items) == {i \in items : ~IsOpen(i)}
SameStream(e1, e2) == e1.from = e2.from /\ e1.to = e2.to /\ e1.sid = e2.sid

\* A message about to be pushed has a sequence above all that were.
OutFresh ==
    /\ \A w \in wire : w.type = "message" => w.seq > 0
    /\ \A n \in Node : \A m \in out[n] : m.type = "message" =>
          /\ m.from = n /\ m.seq > 0
          /\ \A w \in wire : w.type = "message" /\ SameStream(w, m) => w.seq < m.seq

\* The messages of a stream lie in the order of their sequences.
HeldOrder ==
    \A n \in Node :
        /\ IsFiniteSet(Held(n))
        /\ \A i \in Held(n) : i.id < nextId
        /\ \A i, j \in MessagesIn(Held(n)) :
              SameStream(i.env, j.env) /\ i.env.seq < j.env.seq => i.id < j.id

\* A batch holds what is older than its items, and nothing of the senders
\* whose group was taken out.
BatchWhole ==
    \A n \in Node :
        /\ pc[n] = "idle" => batch[n] = {} /\ group[n] = {}
        /\ \A j \in batch[n] : \A i \in Mailbox(n) :
              i.id < j.id /\ i.env.from = j.env.from => i \in batch[n]
        /\ \A j \in group[n] : \A i \in batch[n] : i.env.from # j.env.from

\* A transcript row was pushed by its peer; the high water, and the item whose
\* high water is to be set, are in the transcript.
RowsTrue ==
    /\ \A r \in transcript : \E w \in wire :
          /\ w.type = "message" /\ w.from = r.peer /\ w.to = r.me /\ w.sid = r.sid
          /\ w.seq = r.seq /\ w.text = r.text
    /\ \A n, p \in Node, s \in Sid :
          \/ seq_high_water[<<n, p, s>>] = 0
          \/ \E r \in transcript : /\ r.me = n /\ r.peer = p /\ r.sid = s
                                   /\ r.seq = seq_high_water[<<n, p, s>>]
    /\ \A n \in Node : pc[n] = "high_water" => \A i \in cur[n] : InTranscript(n, i.env)

Settled(n, i) == InTranscript(n, i.env) \/ i.env \in lapsed

\* What the transcript has overtaken is in it, or was found expired.
NonePassed ==
    \A n \in Node : \A i \in MessagesIn(Held(n)) : \A r \in transcript :
        /\ r.me = n /\ r.peer = i.env.from /\ r.sid = i.env.sid
        /\ i.env.seq <= r.seq
        => Settled(n, i)

\* What is older than a message in hand is in hand or settled, or was dropped
\* for want of a key that this poll can no longer bring.
InTurn ==
    \A n \in Node : \A j \in MessagesIn(group[n]) : \A i \in MessagesIn(Mailbox(n)) :
        SameStream(i.env, j.env) /\ i.id < j.id =>
            \/ i \in group[n]
            \/ Settled(n, i)
            \/ /\ \A k \in group[n] \cup cur[n] : ~IsOpen(k)
               /\ SessionKey(n, j.env.from, j.env.sid) = {}

OrderInv == OutFresh /\ HeldOrder /\ BatchWhole /\ RowsTrue /\ NonePassed /\ InTurn

-----------------------------------------------------------------------------
(* Facts about the operators. *)

\* Whoever holds a key for the session of a message it was sent can open it.
LEMMA KeyOpens ==
    ASSUME TypeOK, KeyInv, NEW n \in Node, NEW i \in group[n], ~IsOpen(i),
           NEW row \in SessionKey(n, i.env.from, i.env.sid)
    PROVE  Decrypts(row, i.env)
<1>1. i \in Items
    BY DEF TypeOK, TickType
<1>2. i.env.type = "message"
    BY <1>1, ItemType DEF IsOpen, SessionOpens, Messages
<1>3. i.env \in Sealed /\ i.env.to = n
    BY SealedDef DEF KeyInv, Delivered
<1>4. PICK r \in SessionKey(i.env.from, n, i.env.sid) :
          r.key = i.env.key /\ r.my_role = i.env.role
    BY <1>2, <1>3 DEF KeyInv, SealedUnder
<1>5. /\ r \in session_keys /\ r.me = i.env.from /\ r.peer = n /\ r.sid = i.env.sid
      /\ row \in session_keys /\ row.me = n /\ row.peer = i.env.from /\ row.sid = i.env.sid
    BY <1>4 DEF SessionKey
<1>6. r.key = row.key /\ r.my_role # row.my_role
    BY <1>5, KeyInvAgreement DEF KeyAgreement
<1>7. r.my_role \in Roles /\ row.my_role \in Roles
    BY <1>5 DEF TypeOK, DbType
<1>. QED  BY <1>4, <1>6, <1>7 DEF Decrypts, OtherRole, Roles

\* A message is taken up when no handshake is left in the group, oldest first.
LEMMA NextMessage ==
    ASSUME NEW items, NEW i \in NextItem(items), ~IsOpen(i)
    PROVE  /\ i \in items
           /\ \A k \in items : ~IsOpen(k)
           /\ \A k \in items : i.id <= k.id
BY DEF NextItem, Oldest

\* The clamp keeps what is older than an item it keeps.
LEMMA ClampOldest ==
    ASSUME NEW items \in SUBSET Items, IsFiniteSet(items),
           NEW j \in FloodClamp(items), NEW i \in items, i.id < j.id
    PROVE  i \in FloodClamp(items)
<1> DEFINE Before(x) == {k \in items : k.id < x.id}
<1>1. Before(i) \subseteq Before(j)
    BY DEF Items, FloodClamp
<1>2. IsFiniteSet(Before(j)) /\ IsFiniteSet(Before(i))
    BY FS_Subset
<1>3. Cardinality(Before(i)) <= Cardinality(Before(j))
    BY <1>1, <1>2, FS_Subset
<1>4. Cardinality(Before(i)) \in Nat /\ Cardinality(Before(j)) \in Nat
    BY <1>2, FS_CardinalityType
<1>5. Cardinality(Before(j)) < FloodCap
    BY DEF FloodClamp
<1>6. Cardinality(Before(i)) < FloodCap
    BY <1>3, <1>4, <1>5, TransportAssumption
<1>. QED  BY <1>6 DEF FloodClamp

\* What a node holds are well-typed items, addressed to it, that were pushed.
LEMMA HeldItems ==
    ASSUME TypeOK, KeyInv, NEW n \in Node, NEW i \in Held(n)
    PROVE  /\ i \in Items /\ i.id \in Nat
           /\ i.env \in wire /\ i.env.to = n /\ i.env.from \in Node /\ i.env.sid \in Sid
           /\ ~IsOpen(i) => i.env.type = "message" /\ i.env.seq \in Nat
<1>1. i \in Items
    BY DEF Held, Mailbox, TypeOK, RelayType, TickType
<1>2. i.env \in wire /\ i.env.to = n
    BY DEF Held, Mailbox, KeyInv, Delivered
<1>3. ~IsOpen(i) => i.env.type = "message"
    BY <1>1 DEF Items, IsOpen, SessionOpens, Messages
<1>. QED  BY <1>1, <1>2, <1>3, ItemType DEF Items
-----------------------------------------------------------------------------
(* What a step leaves alone, part by part. *)

\* Nothing is pushed, and only handshakes are built.
LEMMA OutSame ==
    ASSUME OutFresh, UNCHANGED wire,
           \A m \in Node : \A e \in out'[m] : e \in out[m] \/ e.type = "session_open"
    PROVE  OutFresh'
<1>1. \A m \in Node : \A e \in out'[m] : e.type = "message" => e \in out[m]
    OBVIOUS
<1>. QED  BY <1>1 DEF OutFresh, SameStream

\* Items only leave.
LEMMA HeldSame ==
    ASSUME HeldOrder, UNCHANGED nextId, \A m \in Node : Held(m)' \subseteq Held(m)
    PROVE  HeldOrder'
<1>1. \A m \in Node : IsFiniteSet(Held(m)')
    BY FS_Subset DEF HeldOrder
<1>2. \A m \in Node : MessagesIn(Held(m)') \subseteq MessagesIn(Held(m))
    BY DEF MessagesIn
<1>3. ASSUME NEW n \in Node
      PROVE  /\ IsFiniteSet(Held(n)')
             /\ \A i \in Held(n)' : i.id < nextId'
             /\ \A i, j \in MessagesIn(Held(n)') :
                   SameStream(i.env, j.env) /\ i.env.seq < j.env.seq => i.id < j.id
    BY <1>1, <1>2 DEF HeldOrder
<1>. QED  BY <1>3 DEF HeldOrder, MessagesIn, IsOpen, SameStream

\* Neither the transcript nor the high water is written.
LEMMA RowsSame ==
    ASSUME RowsTrue, UNCHANGED <<transcript, seq_high_water>>, wire \subseteq wire',
           \A m \in Node : pc'[m] = "high_water" => pc[m] = "high_water" /\ cur'[m] \subseteq cur[m]
    PROVE  RowsTrue'
<1>1. ASSUME NEW r \in transcript
      PROVE  \E w \in wire' : /\ w.type = "message" /\ w.from = r.peer /\ w.to = r.me
                              /\ w.sid = r.sid /\ w.seq = r.seq /\ w.text = r.text
    BY DEF RowsTrue
<1>2. \A n \in Node : pc'[n] = "high_water" => \A i \in cur'[n] : InTranscript(n, i.env)
    BY DEF RowsTrue
<1>. QED  BY <1>1, <1>2 DEF RowsTrue, InTranscript

\* What is settled stays so.
LEMMA SettledStays ==
    ASSUME transcript \subseteq transcript', lapsed \subseteq lapsed',
           NEW n, NEW i, Settled(n, i)
    PROVE  Settled(n, i)'
BY DEF Settled, InTranscript

\* Items only leave, and the transcript is not written.
LEMMA NonePassedSame ==
    ASSUME NonePassed, UNCHANGED transcript, lapsed \subseteq lapsed',
           \A m \in Node : Held(m)' \subseteq Held(m)
    PROVE  NonePassed'
<1>. SUFFICES ASSUME NEW n \in Node, NEW i \in Held(n)', ~IsOpen(i), NEW r \in transcript,
                     r.me = n, r.peer = i.env.from, r.sid = i.env.sid, i.env.seq <= r.seq
              PROVE  Settled(n, i)'
    BY DEF NonePassed, MessagesIn, IsOpen
<1>1. i \in MessagesIn(Held(n))
    BY DEF MessagesIn
<1>2. Settled(n, i)
    BY <1>1 DEF NonePassed
<1>. QED  BY <1>2, SettledStays

\* A node whose group stands, whose mailbox got nothing and whose keys did not
\* grow, unless a handshake is in hand, keeps its turn.
LEMMA TurnSame ==
    ASSUME InTurn, NEW n \in Node,
           transcript \subseteq transcript', lapsed \subseteq lapsed',
           Mailbox(n)' \subseteq Mailbox(n), group'[n] = group[n], cur'[n] \subseteq cur[n],
           \/ \A p \in Node, s \in Sid : SessionKey(n, p, s)' = SessionKey(n, p, s)
           \/ \E k \in cur[n] : IsOpen(k),
           group[n] \subseteq Items
    PROVE  \A j \in MessagesIn(group[n]') : \A i \in MessagesIn(Mailbox(n)') :
               SameStream(i.env, j.env) /\ i.id < j.id =>
                   \/ i \in group[n]'
                   \/ Settled(n, i)'
                   \/ /\ \A k \in group[n]' \cup cur[n]' : ~IsOpen(k)
                      /\ SessionKey(n, j.env.from, j.env.sid)' = {}
<1>. SUFFICES ASSUME NEW j \in MessagesIn(group[n]), NEW i \in MessagesIn(Mailbox(n)),
                     SameStream(i.env, j.env), i.id < j.id,
                     i \notin group[n], ~Settled(n, i)'
              PROVE  /\ \A k \in group[n] \cup cur'[n] : ~IsOpen(k)
                     /\ SessionKey(n, j.env.from, j.env.sid)' = {}
    BY DEF MessagesIn, IsOpen
<1>1. /\ \A k \in group[n] \cup cur[n] : ~IsOpen(k)
      /\ SessionKey(n, j.env.from, j.env.sid) = {}
    BY SettledStays DEF InTurn
<1>2. j.env.from \in Node /\ j.env.sid \in Sid
    BY ItemType DEF MessagesIn
<1>. QED  BY <1>1, <1>2
-----------------------------------------------------------------------------
(* Steps that take up no item, push nothing and write no transcript row.      *)

Lull ==
    /\ UNCHANGED <<nextId, wire, transcript, seq_high_water, lapsed>>
    /\ envelopes' \subseteq envelopes
    /\ \A m \in Node :
          /\ \/ batch'[m] = {} /\ group'[m] = {}
             \/ /\ batch'[m] = batch[m] /\ group'[m] = group[m]
                /\ pc'[m] = "idle" => pc[m] = "idle"
          /\ cur'[m] \subseteq cur[m]
          /\ pc'[m] = "high_water" => pc[m] = "high_water"
          /\ \/ \A p \in Node, s \in Sid : SessionKey(m, p, s)' = SessionKey(m, p, s)
             \/ \E k \in cur[m] : IsOpen(k)

\* They keep the order of the mail.
LEMMA LullKeeps ==
    ASSUME TypeOK, OrderInv, Lull
    PROVE  HeldOrder' /\ BatchWhole' /\ RowsTrue' /\ NonePassed' /\ InTurn'
<1>1. \A m \in Node : Mailbox(m)' \subseteq Mailbox(m)
    BY DEF Lull, Mailbox
<1>2. \A m \in Node : Held(m)' \subseteq Held(m)
    BY <1>1 DEF Lull, Held
<1>3. HeldOrder'
    BY <1>2, HeldSame DEF OrderInv, Lull
<1>4. BatchWhole'
    BY <1>1 DEF OrderInv, Lull, BatchWhole
<1>5. RowsTrue'
    BY RowsSame DEF OrderInv, Lull
<1>6. NonePassed'
    BY <1>2, NonePassedSame DEF OrderInv, Lull
<1>7. InTurn'
    <2>1. ASSUME NEW n \in Node
          PROVE  \A j \in MessagesIn(group[n]') : \A i \in MessagesIn(Mailbox(n)') :
                     SameStream(i.env, j.env) /\ i.id < j.id =>
                         \/ i \in group[n]'
                         \/ Settled(n, i)'
                         \/ /\ \A k \in group[n]' \cup cur[n]' : ~IsOpen(k)
                            /\ SessionKey(n, j.env.from, j.env.sid)' = {}
        <3>1. CASE group'[n] = {}
            BY <3>1 DEF MessagesIn
        <3>2. CASE group'[n] = group[n]
            <4>1. group[n] \subseteq Items
                BY DEF TypeOK, TickType
            <4>2. cur'[n] \subseteq cur[n] /\ transcript \subseteq transcript' /\ lapsed \subseteq lapsed'
                BY DEF Lull
            <4>3. \/ \A p \in Node, s \in Sid : SessionKey(n, p, s)' = SessionKey(n, p, s)
                  \/ \E k \in cur[n] : IsOpen(k)
                BY DEF Lull
            <4>. QED  BY <1>1, <3>2, <4>1, <4>2, <4>3, TurnSame DEF OrderInv
        <3>. QED  BY <3>1, <3>2 DEF Lull
    <2>. QED  BY <2>1 DEF InTurn, MessagesIn, IsOpen, SameStream
<1>. QED  BY <1>3, <1>4, <1>5, <1>6, <1>7

\* A tick that ends is one of them.
LEMMA ForgetLull ==
    ASSUME TypeOK, NEW n \in Node, Forget(n), envelopes' \subseteq envelopes,
           UNCHANGED <<tables, nextId, wire, lapsed>>
    PROVE  Lull /\ \A m \in Node : out'[m] \subseteq out[m]
<1>1. \A m \in Node : \/ batch'[m] = {} /\ group'[m] = {} /\ cur'[m] = {} /\ out'[m] = {}
                          /\ pc'[m] = "idle"
                      \/ /\ batch'[m] = batch[m] /\ group'[m] = group[m] /\ cur'[m] = cur[m]
                         /\ out'[m] = out[m] /\ pc'[m] = pc[m]
    BY DEF TypeOK, TickType, Forget
<1>2. \A m, p, s : SessionKey(m, p, s)' = SessionKey(m, p, s)
    BY DEF SessionKey, tables
<1>. QED  BY <1>1, <1>2 DEF Lull, tables

\* Most steps are lulls.
LEMMA PollLull ==
    ASSUME TypeOK, CurShape, NEW n \in Node,
           \/ FetchFails(n) \/ UpsertPeer(n) \/ SaveResponderKey(n) \/ CreateSession(n)
           \/ ClearPendingHandshake(n) \/ AppendRaises(n) \/ Ack(n) \/ AckFails(n)
    PROVE  /\ Lull
           /\ UNCHANGED wire
           /\ \A m \in Node : \A e \in out'[m] : e \in out[m] \/ e.type = "session_open"
<1>. USE DEF tables, relay, ghosts
<1>1. CASE FetchFails(n) \/ UpsertPeer(n) \/ CreateSession(n) \/ Ack(n)
    <2>1. \A m, p, s : SessionKey(m, p, s)' = SessionKey(m, p, s)
        BY <1>1 DEF FetchFails, UpsertPeer, CreateSession, Ack, SessionKey
    <2>. QED
        BY <1>1, <2>1 DEF FetchFails, UpsertPeer, CreateSession, Ack, PollDone, Lull, TypeOK, TickType
<1>2. CASE ClearPendingHandshake(n)
    <2>1. \A m, p, s : SessionKey(m, p, s)' = SessionKey(m, p, s)
        BY <1>2 DEF ClearPendingHandshake, SessionKey
    <2>2. \A m \in Node : cur'[m] \subseteq cur[m] /\ (pc'[m] = pc[m] \/ pc'[m] = "groups")
        BY <1>2 DEF ClearPendingHandshake, AckAndContinue, TypeOK, TickType
    <2>. QED  BY <1>2, <2>1, <2>2 DEF ClearPendingHandshake, Lull
<1>3. CASE SaveResponderKey(n)
    <2>1. PICK i \in cur[n] :
              /\ SaveSessionKey(n, i.env.from, i.env.sid,
                   DeriveSessionKey(nextEph, i.env.eph, n, i.env.from, i.env.sid, i.env.nonce),
                   "responder")
              /\ out' = [out EXCEPT ![n] =
                   {BuildSessionOpen(n, i.env.from, i.env.sid, nextEph, i.env.nonce)}]
        BY <1>3 DEF SaveResponderKey
    <2>2. IsOpen(i)
        BY <1>3, <2>1 DEF SaveResponderKey, CurShape
    <2>3. \A m \in Node : m # n => \A p, s : SessionKey(m, p, s)' = SessionKey(m, p, s)
        BY <2>1 DEF SaveSessionKey, SessionKey
    <2>4. \A m \in Node : \A e \in out'[m] : e \in out[m] \/ e.type = "session_open"
        BY <2>1 DEF BuildSessionOpen, TypeOK, TickType
    <2>5. Lull
        BY <1>3, <2>1, <2>2, <2>3 DEF SaveResponderKey, Lull, TypeOK, TickType
    <2>. QED  BY <1>3, <2>4, <2>5 DEF SaveResponderKey
<1>4. CASE AppendRaises(n) \/ AckFails(n)
    <2>1. Forget(n) /\ envelopes' \subseteq envelopes /\ UNCHANGED <<tables, nextId, wire, lapsed>>
        BY <1>4 DEF AppendRaises, AckFails
    <2>. QED  BY <2>1, ForgetLull
<1>. QED  BY <1>1, <1>2, <1>3, <1>4
\* So are most steps outside a poll.
LEMMA OtherLull ==
    ASSUME TypeOK,
           \/ \E n, p \in Node, s \in Sid : OpenSession(n, p, s) \/ EndSession(n, p, s)
           \/ \E n \in Node : EndTick(n)
           \/ Environment
           \/ UNCHANGED vars
    PROVE  /\ Lull
           /\ UNCHANGED wire
           /\ \A m \in Node : \A e \in out'[m] : e \in out[m] \/ e.type = "session_open"
<1>. USE DEF tables, relay, local, ghosts
<1>1. ASSUME NEW n \in Node, EndTick(n) \/ Crash(n)
      PROVE  Lull /\ UNCHANGED wire /\ \A m \in Node : out'[m] \subseteq out[m]
    <2>1. Forget(n) /\ UNCHANGED envelopes /\ UNCHANGED <<tables, nextId, wire, lapsed>>
        BY <1>1 DEF EndTick, Crash
    <2>. QED  BY <2>1, ForgetLull
<1>2. CASE \E n, p \in Node, s \in Sid : OpenSession(n, p, s)
    <2>1. PICK n \in Node, p \in Node, s \in Sid : OpenSession(n, p, s)
        BY <1>2
    <2>2. \A m \in Node : \A e \in out'[m] : e \in out[m] \/ e.type = "session_open"
        BY <2>1 DEF OpenSession, BuildSessionOpen, TypeOK, TickType
    <2>3. Lull
        BY <2>1 DEF OpenSession, Lull, SessionKey, TypeOK, TickType
    <2>. QED  BY <2>1, <2>2, <2>3 DEF OpenSession
<1>3. CASE \/ \E n, p \in Node, s \in Sid : EndSession(n, p, s)
           \/ \E n, p \in Node, new \in ConsentChoices : ConsentWritten(n, p, new)
           \/ \E i \in envelopes : RelayGc(i)
           \/ UNCHANGED vars
    <2>1. /\ UNCHANGED <<session_keys, nextId, wire, transcript, seq_high_water, lapsed>>
          /\ UNCHANGED <<batch, group, cur, pc, out>> /\ envelopes' \subseteq envelopes
        BY <1>3 DEF EndSession, ConsentWritten, RelayGc, vars
    <2>. QED  BY <2>1 DEF Lull, SessionKey
<1>. QED  BY <1>1, <1>2, <1>3 DEF Environment

-----------------------------------------------------------------------------
(* The steps that move mail. *)

\* A fetch brings the whole mailbox.
LEMMA FetchOrder ==
    ASSUME TypeOK, OrderInv, NEW n \in Node, Fetch(n)
    PROVE  OrderInv'
<1>1. /\ batch' = [batch EXCEPT ![n] = Mailbox(n)] /\ pc' = [pc EXCEPT ![n] = "groups"]
      /\ UNCHANGED <<consent, tables, relay, group, cur, acks, readConsent, out, ghosts>>
      /\ pc[n] = "idle"
    BY DEF Fetch
<1>2. \A m \in Node : /\ m # n => batch'[m] = batch[m] /\ pc'[m] = pc[m]
                      /\ Mailbox(m)' = Mailbox(m)
    BY <1>1 DEF TypeOK, TickType, Mailbox, relay
<1>3. batch'[n] = Mailbox(n) /\ pc'[n] = "groups" /\ group[n] = {}
    BY <1>1 DEF TypeOK, TickType, OrderInv, BatchWhole
<1>4. \A m \in Node : Held(m)' \subseteq Held(m)
    BY <1>1, <1>2, <1>3 DEF Held
<1>5. OutFresh'
    BY <1>1, OutSame DEF OrderInv, ghosts
<1>6. HeldOrder' /\ NonePassed'
    BY <1>1, <1>4, HeldSame, NonePassedSame DEF OrderInv, relay, ghosts, tables
<1>7. BatchWhole'
    BY <1>1, <1>2, <1>3 DEF OrderInv, BatchWhole
<1>8. RowsTrue'
    BY <1>1, <1>2, <1>3, RowsSame DEF OrderInv, tables, ghosts
<1>9. InTurn'
    <2>1. UNCHANGED <<envelopes, group, cur, transcript, lapsed, session_keys>>
        BY <1>1 DEF relay, tables, ghosts
    <2>. QED
        BY <2>1 DEF OrderInv, InTurn, MessagesIn, IsOpen, SameStream, Mailbox, Settled, InTranscript,
                    SessionKey
<1>. QED  BY <1>5, <1>6, <1>7, <1>8, <1>9 DEF OrderInv

\* The next group is the oldest part of what its sender has in the mailbox.
LEMMA NextGroupOrder ==
    ASSUME TypeOK, KeyInv, OrderInv, NEW n \in Node, NextGroup(n)
    PROVE  OrderInv'
<1>1. PICK first \in Oldest(batch[n]) :
        LET items == {i \in batch[n] : i.env.from = first.env.from}
            gated == consent[<<n, first.env.from>>] \in InboundBlockedConsent
        IN /\ batch' = [batch EXCEPT ![n] = @ \ items]
           /\ group' = [group EXCEPT ![n] = IF gated THEN {} ELSE FloodClamp(items)]
    BY DEF NextGroup
<1> DEFINE items == {i \in batch[n] : i.env.from = first.env.from}
<1>2. /\ pc[n] = "groups"
      /\ UNCHANGED <<consent, tables, relay, pc, cur, readConsent, out, ghosts>>
    BY DEF NextGroup
<1>3. /\ batch'[n] = batch[n] \ items
      /\ group'[n] = {} \/ group'[n] = FloodClamp(items)
      /\ group'[n] \subseteq items
      /\ \A m \in Node : m # n => batch'[m] = batch[m] /\ group'[m] = group[m]
    BY <1>1 DEF TypeOK, TickType, FloodClamp
<1>4. \A m \in Node : Mailbox(m)' = Mailbox(m)
    BY <1>2 DEF Mailbox, relay
<1>5. \A m \in Node : Held(m)' \subseteq Held(m)
    BY <1>3, <1>4 DEF Held
<1>6. OutFresh'
    BY <1>2, OutSame DEF OrderInv, ghosts
<1>7. HeldOrder' /\ NonePassed'
    BY <1>2, <1>5, HeldSame, NonePassedSame DEF OrderInv, relay, ghosts, tables
<1>8. BatchWhole'
    BY <1>2, <1>3, <1>4 DEF OrderInv, BatchWhole
<1>9. RowsTrue'
    BY <1>2, RowsSame DEF OrderInv, tables, ghosts
<1>10. InTurn'
    <2>0. UNCHANGED <<envelopes, cur, transcript, lapsed, session_keys>>
        BY <1>2 DEF relay, tables, ghosts
    <2>1. ASSUME NEW j \in group'[n], NEW i \in Mailbox(n), SameStream(i.env, j.env), i.id < j.id
          PROVE  i \in group'[n]
        <3>1. j \in batch[n] /\ j \in items /\ group'[n] = FloodClamp(items)
            BY <1>3, <2>1
        <3>2. i \in items
            BY <2>1, <3>1 DEF OrderInv, BatchWhole, SameStream
        <3>3. items \in SUBSET Items /\ IsFiniteSet(items)
            <4>1. items \subseteq Held(n) /\ IsFiniteSet(Held(n))
                BY DEF OrderInv, HeldOrder, Held
            <4>2. items \subseteq Items
                BY DEF TypeOK, TickType
            <4>. QED  BY <4>1, <4>2, FS_Subset
        <3>. QED  BY <2>1, <3>1, <3>2, <3>3, ClampOldest
    <2>2. \A m \in Node : m # n => group'[m] = group[m]
        BY <1>3
    <2>3. ASSUME NEW m \in Node, NEW j \in MessagesIn(group'[m]), NEW i \in MessagesIn(Mailbox(m)),
                 SameStream(i.env, j.env), i.id < j.id
          PROVE  \/ i \in group'[m]
                 \/ Settled(m, i)
                 \/ /\ \A k \in group'[m] \cup cur[m] : ~IsOpen(k)
                    /\ SessionKey(m, j.env.from, j.env.sid) = {}
        <3>1. CASE m = n
            BY <2>1, <2>3, <3>1 DEF MessagesIn
        <3>2. CASE m # n
            BY <2>2, <2>3, <3>2 DEF OrderInv, InTurn
        <3>. QED  BY <3>1, <3>2
    <2>. QED
        BY <2>0, <2>3 DEF InTurn, MessagesIn, IsOpen, SameStream, Mailbox, Settled, InTranscript,
                          SessionKey
<1>. QED  BY <1>6, <1>7, <1>8, <1>9, <1>10 DEF OrderInv
\* An item leaves the group of a node and the rest of the mail stands.
LEMMA TakeFacts ==
    ASSUME TypeOK, OrderInv, NEW n \in Node, NEW i \in group[n],
           group' = [group EXCEPT ![n] = @ \ {i}], UNCHANGED <<envelopes, batch, nextId>>,
           \A m \in Node : pc'[m] = "idle" => pc[m] = "idle"
    PROVE  /\ group'[n] = group[n] \ {i}
           /\ \A m \in Node : /\ m # n => group'[m] = group[m]
                              /\ Mailbox(m)' = Mailbox(m)
                              /\ Held(m)' \subseteq Held(m)
           /\ HeldOrder' /\ BatchWhole'
<1>1. /\ group'[n] = group[n] \ {i}
      /\ \A m \in Node : m # n => group'[m] = group[m]
    BY DEF TypeOK, TickType
<1>2. \A m \in Node : Mailbox(m)' = Mailbox(m)
    BY DEF Mailbox
<1>3. \A m \in Node : Held(m)' \subseteq Held(m)
    BY <1>1, <1>2 DEF Held
<1>4. HeldOrder'
    BY <1>3, HeldSame DEF OrderInv
<1>5. BatchWhole'
    BY <1>1, <1>2 DEF OrderInv, BatchWhole
<1>. QED  BY <1>1, <1>2, <1>3, <1>4, <1>5

\* Handshakes go first: while one is left, no message was passed over for want
\* of a key.
LEMMA OpenTaken ==
    ASSUME TypeOK, OrderInv, NEW n \in Node, NEW i \in group[n], IsOpen(i),
           group' = [group EXCEPT ![n] = @ \ {i}],
           UNCHANGED <<envelopes, nextId, batch, wire, transcript, seq_high_water, out>>,
           lapsed \subseteq lapsed',
           pc'[n] \notin {"idle", "high_water"},
           \A m \in Node : m # n =>
               /\ pc'[m] = pc[m] /\ cur'[m] = cur[m]
               /\ \A p, s : SessionKey(m, p, s)' = SessionKey(m, p, s)
    PROVE  OrderInv'
<1>1. /\ group'[n] = group[n] \ {i}
      /\ \A m \in Node : /\ m # n => group'[m] = group[m]
                         /\ Mailbox(m)' = Mailbox(m)
                         /\ Held(m)' \subseteq Held(m)
      /\ HeldOrder' /\ BatchWhole'
    BY TakeFacts
<1>2. OutFresh' /\ NonePassed'
    BY <1>1, OutSame, NonePassedSame DEF OrderInv
<1>3. RowsTrue'
    BY RowsSame DEF OrderInv
<1>4. ASSUME NEW m \in Node, NEW j \in MessagesIn(group[m]'), NEW k \in MessagesIn(Mailbox(m)'),
             SameStream(k.env, j.env), k.id < j.id
      PROVE  \/ k \in group[m]'
             \/ Settled(m, k)'
             \/ /\ \A x \in group[m]' \cup cur[m]' : ~IsOpen(x)
                /\ SessionKey(m, j.env.from, j.env.sid)' = {}
    <2>1. j \in MessagesIn(group[m]) /\ k \in MessagesIn(Mailbox(m))
        BY <1>1, <1>4 DEF MessagesIn
    <2>2. \/ k \in group[m]
          \/ Settled(m, k)
          \/ /\ \A x \in group[m] \cup cur[m] : ~IsOpen(x)
             /\ SessionKey(m, j.env.from, j.env.sid) = {}
        BY <1>4, <2>1 DEF OrderInv, InTurn
    <2>3. Settled(m, k) => Settled(m, k)'
        BY SettledStays
    <2>4. CASE m = n
        BY <1>1, <2>1, <2>2, <2>3, <2>4 DEF MessagesIn
    <2>5. CASE m # n
        BY <1>1, <2>2, <2>3, <2>5
    <2>. QED  BY <2>4, <2>5
<1>5. InTurn'
    BY <1>4 DEF InTurn, MessagesIn, IsOpen, SameStream
<1>. QED  BY <1>1, <1>2, <1>3, <1>5 DEF OrderInv

\* The steps that take up a handshake.
LEMMA OpenOrder ==
    ASSUME TypeOK, OrderInv, NEW n \in Node,
           DropOpen(n) \/ BeginRespond(n) \/ SaveInitiatorKey(n)
    PROVE  OrderInv'
<1>. USE DEF tables, relay, ghosts
<1>1. CASE DropOpen(n)
    <2>1. PICK i \in group[n] :
              /\ Take(n, i) /\ IsOpen(i) /\ AckAndContinue(n, i)
              /\ Expired(i.env) \/ UNCHANGED lapsed
              /\ UNCHANGED <<consent, tables, relay, batch, readConsent, out, nextEph, wire, crashes>>
        BY <1>1 DEF DropOpen
    <2>2. /\ pc'[n] = "groups" /\ lapsed \subseteq lapsed'
          /\ \A m \in Node : m # n => pc'[m] = pc[m] /\ cur'[m] = cur[m]
          /\ \A m, p, s : SessionKey(m, p, s)' = SessionKey(m, p, s)
        BY <2>1 DEF AckAndContinue, Expired, SessionKey, TypeOK, TickType
    <2>. QED  BY <2>1, <2>2, OpenTaken DEF Take
<1>2. CASE BeginRespond(n)
    <2>1. PICK i \in group[n] :
              /\ Take(n, i) /\ IsOpen(i)
              /\ cur' = [cur EXCEPT ![n] = {i}]
              /\ pc' = [pc EXCEPT ![n] = "upsert_peer"]
              /\ UNCHANGED <<consent, tables, relay, batch, acks, out, ghosts>>
        BY <1>2 DEF BeginRespond
    <2>2. /\ pc'[n] = "upsert_peer"
          /\ \A m \in Node : m # n => pc'[m] = pc[m] /\ cur'[m] = cur[m]
          /\ \A m, p, s : SessionKey(m, p, s)' = SessionKey(m, p, s)
        BY <2>1 DEF SessionKey, TypeOK, TickType
    <2>. QED  BY <2>1, <2>2, OpenTaken DEF Take
<1>3. CASE SaveInitiatorKey(n)
    <2>1. PICK i \in group[n] :
              /\ Take(n, i) /\ IsOpen(i)
              /\ \E row \in PendingHandshake(n, i.env.from, i.env.sid) :
                    SaveSessionKey(n, i.env.from, i.env.sid,
                        DeriveSessionKey(row.eph, i.env.eph, n, i.env.from, i.env.sid, row.eph),
                        "initiator")
              /\ cur' = [cur EXCEPT ![n] = {i}]
              /\ pc' = [pc EXCEPT ![n] = "initiator_session"]
              /\ UNCHANGED <<seq_high_water, transcript, relay, batch, out, ghosts>>
        BY <1>3 DEF SaveInitiatorKey
    <2>2. /\ pc'[n] = "initiator_session"
          /\ \A m \in Node : m # n => pc'[m] = pc[m] /\ cur'[m] = cur[m]
        BY <2>1 DEF TypeOK, TickType
    <2>3. \A m \in Node : m # n => \A p, s : SessionKey(m, p, s)' = SessionKey(m, p, s)
        BY <2>1 DEF SaveSessionKey, SessionKey
    <2>. QED  BY <2>1, <2>2, <2>3, OpenTaken DEF Take
<1>. QED  BY <1>1, <1>2, <1>3
\* The next message leaves the group, settled or for want of a key: no
\* handshake is left that could bring the key in this poll.
LEMMA MessageTaken ==
    ASSUME TypeOK, OrderInv, NEW n \in Node, NEW i \in NextItem(group[n]), ~IsOpen(i),
           group' = [group EXCEPT ![n] = @ \ {i}],
           UNCHANGED <<envelopes, nextId, batch, wire, session_keys, out>>,
           transcript \subseteq transcript', lapsed \subseteq lapsed',
           cur'[n] \subseteq {i}, pc'[n] # "idle",
           \A m \in Node : m # n => pc'[m] = pc[m] /\ cur'[m] = cur[m],
           Settled(n, i)' \/ SessionKey(n, i.env.from, i.env.sid) = {}
    PROVE  /\ group'[n] = group[n] \ {i}
           /\ \A m \in Node : Held(m)' \subseteq Held(m)
           /\ OutFresh' /\ HeldOrder' /\ BatchWhole' /\ InTurn'
<1>1. i \in group[n] /\ \A k \in group[n] : ~IsOpen(k)
    BY NextMessage
<1>2. /\ group'[n] = group[n] \ {i}
      /\ \A m \in Node : /\ m # n => group'[m] = group[m]
                         /\ Mailbox(m)' = Mailbox(m)
                         /\ Held(m)' \subseteq Held(m)
      /\ HeldOrder' /\ BatchWhole'
    BY <1>1, TakeFacts
<1>3. OutFresh'
    BY OutSame DEF OrderInv
<1>4. ASSUME NEW m \in Node, NEW j \in MessagesIn(group[m]'), NEW k \in MessagesIn(Mailbox(m)'),
             SameStream(k.env, j.env), k.id < j.id
      PROVE  \/ k \in group[m]'
             \/ Settled(m, k)'
             \/ /\ \A x \in group[m]' \cup cur[m]' : ~IsOpen(x)
                /\ SessionKey(m, j.env.from, j.env.sid)' = {}
    <2>1. j \in MessagesIn(group[m]) /\ k \in MessagesIn(Mailbox(m))
        BY <1>2, <1>4 DEF MessagesIn
    <2>2. \/ k \in group[m]
          \/ Settled(m, k)
          \/ /\ \A x \in group[m] \cup cur[m] : ~IsOpen(x)
             /\ SessionKey(m, j.env.from, j.env.sid) = {}
        BY <1>4, <2>1 DEF OrderInv, InTurn
    <2>3. Settled(m, k) => Settled(m, k)'
        BY SettledStays
    <2>4. SessionKey(m, j.env.from, j.env.sid)' = SessionKey(m, j.env.from, j.env.sid)
        BY DEF SessionKey
    <2>5. CASE m # n
        BY <1>2, <2>2, <2>3, <2>4, <2>5
    <2>6. CASE m = n
        <3>1. \A x \in group[m]' \cup cur[m]' : ~IsOpen(x)
            BY <1>1, <1>2, <2>6
        <3>2. CASE k = i
            <4>1. SessionKey(n, i.env.from, i.env.sid) = SessionKey(n, j.env.from, j.env.sid)
                BY <1>4, <3>2 DEF SameStream
            <4>. QED  BY <2>4, <2>6, <3>1, <3>2, <4>1
        <3>3. CASE k # i
            BY <1>2, <2>2, <2>3, <2>4, <2>6, <3>1, <3>3
        <3>. QED  BY <3>2, <3>3
    <2>. QED  BY <2>5, <2>6
<1>5. InTurn'
    BY <1>4 DEF InTurn, MessagesIn, IsOpen, SameStream
<1>. QED  BY <1>2, <1>3, <1>5

\* A message that is dropped is expired, overtaken, and then settled, or has no
\* key.
LEMMA DropMessageOrder ==
    ASSUME TypeOK, KeyInv, OrderInv, NEW n \in Node, DropMessage(n)
    PROVE  OrderInv'
<1>1. PICK i \in group[n] :
          /\ Take(n, i) /\ ~IsOpen(i)
          /\ IF Acceptable(n, i.env) THEN Expired(i.env) ELSE UNCHANGED lapsed
          /\ AckAndContinue(n, i)
          /\ UNCHANGED <<consent, tables, relay, batch, readConsent, out, nextEph, wire, crashes>>
    BY DEF DropMessage
<1>2. i \in NextItem(group[n]) /\ group' = [group EXCEPT ![n] = @ \ {i}]
    BY <1>1 DEF Take
<1>3. /\ UNCHANGED <<envelopes, nextId, batch, wire, session_keys, out>>
      /\ UNCHANGED <<transcript, seq_high_water>> /\ lapsed \subseteq lapsed'
    BY <1>1 DEF tables, relay, Expired
<1>4. /\ cur'[n] = {} /\ pc'[n] = "groups"
      /\ \A m \in Node : m # n => pc'[m] = pc[m] /\ cur'[m] = cur[m]
    BY <1>1 DEF AckAndContinue, TypeOK, TickType
<1>5. Settled(n, i)' \/ SessionKey(n, i.env.from, i.env.sid) = {}
    <2>1. i \in Held(n)
        BY DEF Held
    <2>2. CASE Acceptable(n, i.env)
        BY <1>1, <2>2 DEF Expired, Settled
    <2>3. CASE Replayed(n, i.env)
        <3>1. i.env.from \in Node /\ i.env.sid \in Sid /\ i.env.seq \in Nat /\ i.env.seq > 0
            BY <1>1, <2>1, HeldItems DEF OrderInv, OutFresh
        <3>2. i.env.seq <= seq_high_water[<<n, i.env.from, i.env.sid>>]
            BY <2>3 DEF Replayed
        <3>3. seq_high_water[<<n, i.env.from, i.env.sid>>] # 0
            BY <3>1, <3>2
        <3>4. PICK r \in transcript : /\ r.me = n /\ r.peer = i.env.from /\ r.sid = i.env.sid
                                      /\ r.seq = seq_high_water[<<n, i.env.from, i.env.sid>>]
            BY <3>1, <3>3 DEF OrderInv, RowsTrue
        <3>5. Settled(n, i)
            BY <1>1, <2>1, <3>2, <3>4 DEF OrderInv, NonePassed, MessagesIn
        <3>. QED  BY <1>3, <3>5, SettledStays
    <2>4. CASE ~Replayed(n, i.env) /\ ~Acceptable(n, i.env)
        BY <1>1, <2>4, KeyOpens DEF Acceptable
    <2>. QED  BY <2>2, <2>3, <2>4
<1>6. /\ \A m \in Node : Held(m)' \subseteq Held(m)
      /\ OutFresh' /\ HeldOrder' /\ BatchWhole' /\ InTurn'
    BY <1>1, <1>2, <1>3, <1>4, <1>5, MessageTaken
<1>7. NonePassed'
    BY <1>3, <1>6, NonePassedSame DEF OrderInv
<1>8. RowsTrue'
    BY <1>3, <1>4, RowsSame DEF OrderInv
<1>. QED  BY <1>6, <1>7, <1>8 DEF OrderInv
\* What append_transcript takes up is older than nothing unsettled.
LEMMA AppendOrder ==
    ASSUME TypeOK, KeyInv, OrderInv, NEW n \in Node, AppendTranscript(n)
    PROVE  OrderInv'
<1>1. PICK i \in group[n] :
          /\ Take(n, i) /\ ~IsOpen(i) /\ Acceptable(n, i.env)
          /\ transcript' = transcript \cup
                {[me |-> n, peer |-> i.env.from, sid |-> i.env.sid,
                  seq |-> i.env.seq, text |-> i.env.text]}
          /\ cur' = [cur EXCEPT ![n] = {i}]
          /\ pc' = [pc EXCEPT ![n] = "high_water"]
          /\ UNCHANGED <<session_keys, seq_high_water, relay, batch, out, ghosts>>
    BY DEF AppendTranscript
<1> DEFINE row == [me |-> n, peer |-> i.env.from, sid |-> i.env.sid,
                   seq |-> i.env.seq, text |-> i.env.text]
<1>2. i \in NextItem(group[n]) /\ group' = [group EXCEPT ![n] = @ \ {i}]
    BY <1>1 DEF Take
<1>3. UNCHANGED <<envelopes, nextId, batch, wire, session_keys, out, seq_high_water, lapsed>>
    BY <1>1 DEF relay, ghosts
<1>4. /\ cur'[n] = {i} /\ pc'[n] = "high_water"
      /\ \A m \in Node : m # n => pc'[m] = pc[m] /\ cur'[m] = cur[m]
    BY <1>1 DEF TypeOK, TickType
<1>5. row \in transcript' /\ transcript' = transcript \cup {row}
    BY <1>1
<1>6. InTranscript(n, i.env)' /\ Settled(n, i)'
    BY <1>5 DEF InTranscript, Settled
<1>7. /\ \A m \in Node : Held(m)' \subseteq Held(m)
      /\ OutFresh' /\ HeldOrder' /\ BatchWhole' /\ InTurn'
    BY <1>1, <1>2, <1>3, <1>4, <1>5, <1>6, MessageTaken
<1>8. i \in Held(n) /\ i \in MessagesIn(Held(n)) /\ i \in MessagesIn(group[n])
    BY <1>1 DEF Held, MessagesIn
<1>9. i.env.type = "message" /\ i.env \in wire /\ i.env.to = n
    BY <1>1, <1>8, HeldItems
<1>10. RowsTrue'
    <2>1. ASSUME NEW r \in transcript'
          PROVE  \E w \in wire' : /\ w.type = "message" /\ w.from = r.peer /\ w.to = r.me
                                  /\ w.sid = r.sid /\ w.seq = r.seq /\ w.text = r.text
        BY <1>3, <1>5, <1>9 DEF OrderInv, RowsTrue
    <2>2. ASSUME NEW m \in Node, NEW p \in Node, NEW s \in Sid
          PROVE  \/ seq_high_water'[<<m, p, s>>] = 0
                 \/ \E r \in transcript' : /\ r.me = m /\ r.peer = p /\ r.sid = s
                                           /\ r.seq = seq_high_water'[<<m, p, s>>]
        BY <1>3, <1>5 DEF OrderInv, RowsTrue
    <2>3. ASSUME NEW m \in Node, pc'[m] = "high_water", NEW k \in cur'[m]
          PROVE  InTranscript(m, k.env)'
        <3>1. CASE m = n
            BY <1>4, <1>6, <2>3, <3>1
        <3>2. CASE m # n
            BY <1>4, <1>5, <2>3, <3>2 DEF OrderInv, RowsTrue, InTranscript
        <3>. QED  BY <3>1, <3>2
    <2>. QED  BY <2>1, <2>2, <2>3 DEF RowsTrue
<1>11. ASSUME NEW k \in MessagesIn(Held(n)), k.env.from = i.env.from, k.env.sid = i.env.sid,
              k.env.seq <= i.env.seq
       PROVE  Settled(n, k)'
    <2>1. /\ k \in Held(n) /\ ~IsOpen(k) /\ k.env.to = n /\ k.env.seq \in Nat /\ k.id \in Nat
          /\ i.env.seq \in Nat /\ i.id \in Nat
        BY <1>8, <1>11, HeldItems DEF MessagesIn
    <2>2. CASE k.env.seq = i.env.seq
        BY <1>5, <1>11, <2>2 DEF InTranscript, Settled
    <2>3. CASE k.env.seq < i.env.seq
        <3>1. k.id < i.id /\ SameStream(k.env, i.env)
            BY <1>8, <1>9, <1>11, <2>1, <2>3 DEF OrderInv, HeldOrder, SameStream
        <3>2. k \notin group[n]
            BY <1>1, <1>2, <2>1, <3>1, NextMessage
        <3>3. k \notin batch[n]
            BY <1>11 DEF OrderInv, BatchWhole
        <3>4. k \in MessagesIn(Mailbox(n))
            BY <2>1, <3>2, <3>3 DEF Held, MessagesIn
        <3>5. SessionKey(n, i.env.from, i.env.sid) # {}
            BY <1>1 DEF Acceptable
        <3>6. Settled(n, k)
            BY <1>8, <3>1, <3>2, <3>4, <3>5 DEF OrderInv, InTurn
        <3>. QED  BY <1>3, <1>5, <3>6, SettledStays
    <2>. QED  BY <1>11, <2>1, <2>2, <2>3
<1>12. NonePassed'
    <2>. SUFFICES ASSUME NEW m \in Node, NEW k \in Held(m)', ~IsOpen(k), NEW r \in transcript',
                         r.me = m, r.peer = k.env.from, r.sid = k.env.sid, k.env.seq <= r.seq
                  PROVE  Settled(m, k)'
        BY DEF NonePassed, MessagesIn, IsOpen
    <2>1. k \in MessagesIn(Held(m))
        BY <1>7 DEF MessagesIn
    <2>2. CASE r \in transcript
        <3>1. Settled(m, k)
            BY <2>1, <2>2 DEF OrderInv, NonePassed
        <3>. QED  BY <1>3, <1>5, <3>1, SettledStays
    <2>3. CASE r = row
        BY <1>11, <2>1, <2>3
    <2>. QED  BY <1>5, <2>2, <2>3
<1>. QED  BY <1>7, <1>10, <1>12 DEF OrderInv

\* The high water is set to a sequence of the transcript.
LEMMA HighWaterOrder ==
    ASSUME TypeOK, OrderInv, NEW n \in Node, SetSeqHighWater(n)
    PROVE  OrderInv'
<1>1. PICK i \in cur[n] :
          /\ seq_high_water' =
                [seq_high_water EXCEPT ![<<n, i.env.from, i.env.sid>>] = i.env.seq]
          /\ AckAndContinue(n, i)
    BY DEF SetSeqHighWater
<1>2. /\ pc[n] = "high_water"
      /\ UNCHANGED <<session_keys, transcript, relay, batch, group, out, ghosts>>
    BY DEF SetSeqHighWater
<1>3. /\ cur'[n] = {} /\ pc'[n] = "groups"
      /\ \A m \in Node : m # n => pc'[m] = pc[m] /\ cur'[m] = cur[m]
    BY <1>1 DEF AckAndContinue, TypeOK, TickType
<1>4. \A m, p, s : SessionKey(m, p, s)' = SessionKey(m, p, s)
    BY <1>2 DEF SessionKey
<1>5. \A m \in Node : Mailbox(m)' = Mailbox(m) /\ Held(m)' = Held(m)
    BY <1>2 DEF Held, Mailbox, relay
<1>6. OutFresh' /\ HeldOrder' /\ NonePassed'
    BY <1>2, <1>5, OutSame, HeldSame, NonePassedSame DEF OrderInv, relay, ghosts
<1>7. BatchWhole'
    BY <1>2, <1>3, <1>5 DEF OrderInv, BatchWhole
<1>8. RowsTrue'
    <2>1. InTranscript(n, i.env)
        BY <1>2 DEF OrderInv, RowsTrue
    <2>2. ASSUME NEW m \in Node, NEW p \in Node, NEW s \in Sid
          PROVE  \/ seq_high_water'[<<m, p, s>>] = 0
                 \/ \E r \in transcript : /\ r.me = m /\ r.peer = p /\ r.sid = s
                                          /\ r.seq = seq_high_water'[<<m, p, s>>]
        <3>1. seq_high_water \in [Node \X Node \X Sid -> Nat]
            BY DEF TypeOK, DbType
        <3>2. CASE <<m, p, s>> = <<n, i.env.from, i.env.sid>>
            <4>1. seq_high_water'[<<m, p, s>>] = i.env.seq
                BY <1>1, <3>1, <3>2
            <4>. QED  BY <2>1, <3>2, <4>1 DEF InTranscript
        <3>3. CASE <<m, p, s>> # <<n, i.env.from, i.env.sid>>
            <4>1. seq_high_water'[<<m, p, s>>] = seq_high_water[<<m, p, s>>]
                BY <1>1, <3>1, <3>3
            <4>. QED  BY <4>1 DEF OrderInv, RowsTrue
        <3>. QED  BY <3>2, <3>3
    <2>3. ASSUME NEW m \in Node, pc'[m] = "high_water", NEW k \in cur'[m]
          PROVE  InTranscript(m, k.env)
        BY <1>3, <2>3 DEF OrderInv, RowsTrue
    <2>4. UNCHANGED <<transcript, wire>>
        BY <1>2 DEF ghosts
    <2>. QED  BY <2>2, <2>3, <2>4 DEF OrderInv, RowsTrue, InTranscript
<1>9. InTurn'
    <2>1. UNCHANGED <<group, transcript, lapsed>> /\ \A m \in Node : cur'[m] \subseteq cur[m]
        BY <1>2, <1>3 DEF ghosts
    <2>2. ASSUME NEW m \in Node, NEW j \in MessagesIn(group[m]), NEW x \in MessagesIn(Mailbox(m)),
                 SameStream(x.env, j.env), x.id < j.id
          PROVE  \/ x \in group[m]
                 \/ Settled(m, x)
                 \/ /\ \A k \in group[m] \cup cur'[m] : ~IsOpen(k)
                    /\ SessionKey(m, j.env.from, j.env.sid) = {}
        BY <2>1, <2>2 DEF OrderInv, InTurn
    <2>. QED
        BY <1>4, <1>5, <2>1, <2>2
        DEF InTurn, MessagesIn, IsOpen, SameStream, Settled, InTranscript
<1>. QED  BY <1>6, <1>7, <1>8, <1>9 DEF OrderInv
\* A push adds copies of one envelope at the new end; a message among them has
\* a sequence above all that were pushed.
LEMMA PushOrder ==
    ASSUME TypeOK, KeyInv, OrderInv, NEW n \in Node, PushOut(n)
    PROVE  OrderInv'
<1>1. PICK env \in out[n], copies \in PushCopies : Push(env, copies)
    BY DEF PushOut
<1> DEFINE New == {[id |-> k, env |-> env] : k \in nextId .. (nextId + copies - 1)}
<1>2. /\ envelopes' = envelopes \cup New
      /\ nextId' = nextId + copies /\ wire' = wire \cup {env}
    BY <1>1 DEF Push
<1>3. UNCHANGED <<session_keys, transcript, seq_high_water, batch, group, lapsed>>
    BY DEF PushOut, tables
<1>4. /\ out'[n] = {} /\ cur'[n] = {} /\ pc'[n] \in {"outbound", "groups"}
      /\ \A m \in Node : m # n => out'[m] = out[m] /\ cur'[m] = cur[m] /\ pc'[m] = pc[m]
    BY DEF PushOut, TypeOK, TickType
<1>5. nextId \in Nat /\ copies \in Nat
    BY TransportAssumption DEF TypeOK, RelayType
<1>6. \A x \in New : x.env = env /\ x.id \in Nat /\ nextId <= x.id /\ x.id < nextId'
    BY <1>2, <1>5
<1>7. \A m \in Node : /\ Mailbox(m)' \subseteq Mailbox(m) \cup New
                      /\ Held(m)' \subseteq Held(m) \cup New
    BY <1>2, <1>3 DEF Held, Mailbox
<1>8. env.type = "message" =>
          /\ env.from = n /\ env.seq \in Nat /\ env.seq > 0
          /\ \A w \in wire : w.type = "message" /\ SameStream(w, env) => w.seq < env.seq
    BY DEF OrderInv, OutFresh, TypeOK, TickType, SessionOpens, Messages
<1>9. \A m \in Node : \A i \in Held(m) :
          /\ i.id \in Nat /\ i.id < nextId /\ i.env \in wire
          /\ ~IsOpen(i) => i.env.type = "message" /\ i.env.seq \in Nat
    BY HeldItems DEF OrderInv, HeldOrder
<1>10. \A x \in New : ~IsOpen(x) => env.type = "message"
    BY <1>6 DEF IsOpen, TypeOK, TickType, SessionOpens, Messages
<1>11. OutFresh'
    <2>1. \A w \in wire' : w.type = "message" => w.seq > 0
        BY <1>2, <1>8 DEF OrderInv, OutFresh
    <2>2. ASSUME NEW m \in Node, NEW e \in out'[m], e.type = "message"
          PROVE  /\ e.from = m /\ e.seq > 0
                 /\ \A w \in wire' : w.type = "message" /\ SameStream(w, e) => w.seq < e.seq
        <3>1. m # n /\ e \in out[m]
            BY <1>4, <2>2
        <3>2. e.from = m /\ e.seq > 0
            BY <2>2, <3>1 DEF OrderInv, OutFresh
        <3>3. \A w \in wire : w.type = "message" /\ SameStream(w, e) => w.seq < e.seq
            BY <2>2, <3>1 DEF OrderInv, OutFresh
        <3>4. ~(env.type = "message" /\ SameStream(env, e))
            BY <1>8, <3>1, <3>2 DEF SameStream
        <3>. QED  BY <1>2, <3>2, <3>3, <3>4
    <2>. QED  BY <2>1, <2>2 DEF OutFresh, SameStream
<1>12. HeldOrder'
    <2>1. ASSUME NEW m \in Node PROVE IsFiniteSet(Held(m)')
        <3>1. IsFiniteSet(nextId .. (nextId + copies - 1))
            BY <1>5, FS_Interval
        <3>2. IsFiniteSet(New)
            <4> DEFINE ids == nextId .. (nextId + copies - 1)
                       f == [k \in ids |-> [id |-> k, env |-> env]]
            <4>1. f \in Surjection(ids, New)
                BY DEF Surjection
            <4>. QED  BY <3>1, <4>1, FS_Surjection
        <3>3. IsFiniteSet(Held(m) \cup New)
            BY <3>2, FS_Union DEF OrderInv, HeldOrder
        <3>. QED  BY <1>7, <3>3, FS_Subset
    <2>2. ASSUME NEW m \in Node, NEW i \in Held(m)'
          PROVE  i.id < nextId'
        BY <1>2, <1>5, <1>6, <1>7, <1>9
    <2>3. ASSUME NEW m \in Node, NEW i \in MessagesIn(Held(m)'), NEW j \in MessagesIn(Held(m)'),
                 SameStream(i.env, j.env), i.env.seq < j.env.seq
          PROVE  i.id < j.id
        <3>1. ~IsOpen(i) /\ ~IsOpen(j)
            BY DEF MessagesIn
        <3>2. i \in Held(m) \/ i \in New
            BY <1>7 DEF MessagesIn
        <3>3. j \in Held(m) \/ j \in New
            BY <1>7 DEF MessagesIn
        <3>4. CASE i \in Held(m) /\ j \in Held(m)
            BY <2>3, <3>1, <3>4 DEF OrderInv, HeldOrder, MessagesIn
        <3>5. CASE i \in Held(m) /\ j \in New
            BY <1>5, <1>6, <1>9, <3>5
        <3>6. CASE i \in New /\ j \in Held(m)
            <4>1. i.env = env /\ env.type = "message" /\ env.seq \in Nat
                BY <1>6, <1>8, <1>10, <3>1, <3>6
            <4>2. j.env \in wire /\ j.env.type = "message" /\ j.env.seq \in Nat
                BY <1>9, <3>1, <3>6
            <4>3. j.env.seq < env.seq
                BY <1>8, <2>3, <4>1, <4>2 DEF SameStream
            <4>. QED  BY <2>3, <4>1, <4>2, <4>3
        <3>7. CASE i \in New /\ j \in New
            BY <1>6, <1>8, <1>10, <2>3, <3>1, <3>7
        <3>. QED  BY <3>2, <3>3, <3>4, <3>5, <3>6, <3>7
    <2>. QED  BY <2>1, <2>2, <2>3 DEF HeldOrder, MessagesIn, IsOpen, SameStream
<1>13. BatchWhole'
    <2>1. ASSUME NEW m \in Node, NEW j \in batch[m], NEW i \in Mailbox(m)',
                 i.id < j.id, i.env.from = j.env.from
          PROVE  i \in batch[m]
        <3>1. j.id \in Nat /\ j.id < nextId
            BY <1>9 DEF Held
        <3>2. i \in Mailbox(m)
            BY <1>5, <1>6, <1>7, <2>1, <3>1
        <3>. QED  BY <2>1, <3>2 DEF OrderInv, BatchWhole
    <2>2. \A m \in Node : pc'[m] = "idle" => pc[m] = "idle"
        BY <1>4
    <2>. QED  BY <1>3, <2>1, <2>2 DEF OrderInv, BatchWhole
<1>14. RowsTrue'
    BY <1>2, <1>3, <1>4, RowsSame DEF OrderInv
<1>15. NonePassed'
    <2>. SUFFICES ASSUME NEW m \in Node, NEW i \in Held(m)', ~IsOpen(i), NEW r \in transcript,
                         r.me = m, r.peer = i.env.from, r.sid = i.env.sid, i.env.seq <= r.seq
                  PROVE  Settled(m, i)'
        BY <1>3 DEF NonePassed, MessagesIn, IsOpen
    <2>1. CASE i \in Held(m)
        <3>1. Settled(m, i)
            BY <2>1 DEF OrderInv, NonePassed, MessagesIn
        <3>. QED  BY <1>3, <3>1, SettledStays
    <2>2. CASE i \in New
        <3>1. i.env = env /\ env.type = "message" /\ env.seq \in Nat
            BY <1>6, <1>8, <1>10, <2>2
        <3>2. PICK w \in wire : /\ w.type = "message" /\ w.from = r.peer /\ w.to = r.me
                                /\ w.sid = r.sid /\ w.seq = r.seq
            BY DEF OrderInv, RowsTrue
        <3>3. CASE env.to = m
            <4>1. w.seq < env.seq
                BY <1>8, <3>1, <3>2, <3>3 DEF SameStream
            <4>2. r.seq \in Nat
                BY DEF TypeOK, DbType
            <4>. QED  BY <3>1, <3>2, <4>1, <4>2
        <3>4. CASE env.to # m
            <4>1. i \in Held(m)
                BY <1>3, <3>1, <3>4, <1>7 DEF Held, Mailbox
            <4>. QED  BY <2>1, <4>1
        <3>. QED  BY <3>3, <3>4
    <2>. QED  BY <1>7, <2>1, <2>2
<1>16. InTurn'
    <2>. SUFFICES ASSUME NEW m \in Node, NEW j \in MessagesIn(group[m]),
                         NEW i \in MessagesIn(Mailbox(m)'), SameStream(i.env, j.env), i.id < j.id
                  PROVE  \/ i \in group[m]
                         \/ Settled(m, i)
                         \/ /\ \A k \in group[m] \cup cur'[m] : ~IsOpen(k)
                            /\ SessionKey(m, j.env.from, j.env.sid) = {}
        BY <1>3 DEF InTurn, MessagesIn, IsOpen, SameStream, Settled, InTranscript, SessionKey
    <2>1. j.id \in Nat /\ j.id < nextId
        BY <1>9 DEF Held, MessagesIn
    <2>2. i \in MessagesIn(Mailbox(m))
        BY <1>5, <1>6, <1>7, <2>1 DEF MessagesIn
    <2>3. cur'[m] \subseteq cur[m]
        BY <1>4
    <2>. QED  BY <2>2, <2>3 DEF OrderInv, InTurn
<1>. QED  BY <1>11, <1>12, <1>13, <1>14, <1>15, <1>16 DEF OrderInv
\* A sequence is drawn above all that were sealed.
LEMMA DrawOrder ==
    ASSUME TypeOK, KeyInv, OrderInv, NEW n \in Node, NEW row \in session_keys, NEW text \in Text,
           NextOutboundSequence(n, row, text)
    PROVE  OrderInv'
<1> DEFINE k == <<n, row.peer, row.sid>>
           m == BuildEnvelope(row, outbound_seq[k] + 1, text)
<1>1. /\ row.me = n /\ out' = [out EXCEPT ![n] = {m}] /\ pc' = [pc EXCEPT ![n] = "push"]
      /\ UNCHANGED <<session_keys, seq_high_water, transcript, relay, batch, group, cur, ghosts>>
    BY DEF NextOutboundSequence
<1>2. Lull
    BY <1>1 DEF Lull, relay, ghosts, SessionKey, TypeOK, TickType
<1>3. /\ m.type = "message" /\ m.from = n /\ m.to = row.peer /\ m.sid = row.sid
      /\ m.seq = outbound_seq[k] + 1
    BY <1>1 DEF BuildEnvelope
<1>4. outbound_seq[k] \in Nat
    BY DEF TypeOK, DbType
<1>5. ASSUME NEW w \in wire, w.type = "message", SameStream(w, m)
      PROVE  w.seq < m.seq
    <2>1. w.seq <= outbound_seq[<<w.from, w.to, w.sid>>]
        BY <1>5, SealedDef DEF KeyInv, SealedUnder
    <2>2. w.seq \in Nat
        BY <1>5 DEF TypeOK, HistoryType, SessionOpens, Messages
    <2>. QED  BY <1>3, <1>4, <1>5, <2>1, <2>2 DEF SameStream
<1>6. \A x \in Node : \A e \in out'[x] : e \in out[x] \/ (x = n /\ e = m)
    BY <1>1 DEF TypeOK, TickType
<1>7. OutFresh'
    <2>1. ASSUME NEW x \in Node, NEW e \in out'[x], e.type = "message"
          PROVE  /\ e.from = x /\ e.seq > 0
                 /\ \A w \in wire : w.type = "message" /\ SameStream(w, e) => w.seq < e.seq
        <3>1. CASE e \in out[x]
            BY <2>1, <3>1 DEF OrderInv, OutFresh
        <3>2. CASE x = n /\ e = m
            BY <1>3, <1>4, <1>5, <3>2
        <3>. QED  BY <1>6, <3>1, <3>2
    <2>. QED  BY <1>1, <2>1 DEF OrderInv, OutFresh, SameStream, ghosts
<1>. QED  BY <1>2, <1>7, LullKeeps DEF OrderInv

-----------------------------------------------------------------------------
(* The invariant. *)

\* Nothing is held, sent or received at first.
LEMMA OrderInit == Init => OrderInv
<1>. SUFFICES ASSUME Init PROVE OrderInv
    OBVIOUS
<1>1. \A n \in Node : Held(n) = {} /\ Mailbox(n) = {} /\ group[n] = {} /\ batch[n] = {}
    BY DEF Init, Held, Mailbox
<1>2. HeldOrder /\ NonePassed /\ InTurn /\ BatchWhole
    BY <1>1, FS_EmptySet DEF HeldOrder, NonePassed, InTurn, BatchWhole, MessagesIn
<1>3. OutFresh /\ RowsTrue
    BY DEF Init, OutFresh, RowsTrue
<1>. QED  BY <1>2, <1>3 DEF OrderInv

\* Every step keeps the order of the mail.
LEMMA OrderStep == TypeOK /\ CurShape /\ KeyInv /\ OrderInv /\ [Next]_vars => OrderInv'
<1>. SUFFICES ASSUME TypeOK, CurShape, KeyInv, OrderInv, [Next]_vars PROVE OrderInv'
    OBVIOUS
<1>1. ASSUME Lull, UNCHANGED wire,
             \A m \in Node : \A e \in out'[m] : e \in out[m] \/ e.type = "session_open"
      PROVE  OrderInv'
    BY <1>1, LullKeeps, OutSame DEF OrderInv
<1>2. ASSUME NEW n \in Node, Poll(n) PROVE OrderInv'
    <2>1. CASE \/ FetchFails(n) \/ UpsertPeer(n) \/ SaveResponderKey(n) \/ CreateSession(n)
               \/ ClearPendingHandshake(n) \/ AppendRaises(n) \/ Ack(n) \/ AckFails(n)
        BY <1>1, <2>1, PollLull
    <2>2. CASE DropOpen(n) \/ BeginRespond(n) \/ SaveInitiatorKey(n)
        BY <2>2, OpenOrder
    <2>. QED
        BY <1>2, <2>1, <2>2, FetchOrder, NextGroupOrder, DropMessageOrder, AppendOrder,
           HighWaterOrder, PushOrder
        DEF Poll
<1>3. ASSUME NEW n \in Node, Outbound(n) PROVE OrderInv'
    <2>1. CASE \E row \in session_keys, text \in Text : NextOutboundSequence(n, row, text)
        BY <2>1, DrawOrder
    <2>2. CASE \/ \E p \in Node, s \in Sid : OpenSession(n, p, s) \/ EndSession(n, p, s)
               \/ EndTick(n)
        BY <1>1, <2>2, OtherLull
    <2>. QED  BY <1>3, <2>1, <2>2 DEF Outbound
<1>4. CASE Environment \/ UNCHANGED vars
    BY <1>1, <1>4, OtherLull
<1>. QED  BY <1>2, <1>3, <1>4 DEF Next
\* What the invariant says of the mail holds in every reachable state.
LEMMA OrderAlways == Spec => [](TypeOK /\ CurShape /\ KeyInv /\ OrderInv)
<1>1. Init => TypeOK /\ CurShape /\ KeyInv /\ OrderInv
    BY TypeInit, KeyInvInit, OrderInit
<1>2. TypeOK /\ CurShape /\ KeyInv /\ OrderInv /\ [Next]_vars
      => (TypeOK /\ CurShape /\ KeyInv /\ OrderInv)'
    BY TypeStep, CurShapeStep, KeyInvStep, OrderStep
<1>. QED  BY <1>1, <1>2, PTL DEF Spec

-----------------------------------------------------------------------------
(* The theorems. *)

\* Whatever verify_and_open would reject as a replay has been ingested, or was
\* found expired before: the high water passes over nothing that is to come,
\* under any flood cap, crash, duplicate or refetch.
THEOREM ReplayCostsNothing == Spec => []ReplayRejectsOnlyIngested
<1>1. ASSUME TypeOK, KeyInv, OrderInv,
             NEW i \in envelopes, ~IsOpen(i), Replayed(i.env.to, i.env)
      PROVE  InTranscript(i.env.to, i.env) \/ i.env \in lapsed
    <2> DEFINE n == i.env.to
    <2>1. n \in Node
        BY <1>1, ItemType DEF TypeOK, RelayType
    <2>2. i \in Held(n)
        BY DEF Held, Mailbox
    <2>3. /\ i.env.from \in Node /\ i.env.sid \in Sid /\ i.env.seq \in Nat
          /\ i.env \in wire /\ i.env.type = "message"
        BY <1>1, <2>1, <2>2, HeldItems
    <2>4. i.env.seq > 0
        BY <1>1, <2>3 DEF OrderInv, OutFresh
    <2>5. i.env.seq <= seq_high_water[<<n, i.env.from, i.env.sid>>]
        BY <1>1 DEF Replayed
    <2>6. seq_high_water[<<n, i.env.from, i.env.sid>>] # 0
        BY <2>3, <2>4, <2>5
    <2>7. PICK r \in transcript : /\ r.me = n /\ r.peer = i.env.from /\ r.sid = i.env.sid
                                  /\ r.seq = seq_high_water[<<n, i.env.from, i.env.sid>>]
        BY <1>1, <2>1, <2>3, <2>6 DEF OrderInv, RowsTrue
    <2>. QED
        BY <1>1, <2>1, <2>2, <2>5, <2>7 DEF OrderInv, NonePassed, MessagesIn, Settled
<1>2. TypeOK /\ KeyInv /\ OrderInv => ReplayRejectsOnlyIngested
    BY <1>1 DEF ReplayRejectsOnlyIngested
<1>. QED  BY <1>2, OrderAlways, PTL

\* A push of a message is a Send, the append of a row a Receive.
LEMMA ChannelStep ==
    TypeOK /\ CurShape /\ KeyInv /\ OrderInv /\ [Next]_vars => [Channel!Next]_<<Sent, Received>>
<1>. SUFFICES ASSUME TypeOK, CurShape, KeyInv, OrderInv, [Next]_vars
              PROVE  Channel!Next \/ UNCHANGED <<Sent, Received>>
    OBVIOUS
<1> DEFINE Msg(m) == [from |-> m.from, to |-> m.to, sid |-> m.sid, seq |-> m.seq,
                      text |-> m.text]
           Row(r) == [from |-> r.peer, to |-> r.me, sid |-> r.sid, seq |-> r.seq,
                      text |-> r.text]
<1>0. ASSUME UNCHANGED <<wire, transcript>> PROVE UNCHANGED <<Sent, Received>>
    BY <1>0 DEF Sent, Received
<1>1. ASSUME NEW n \in Node, PushOut(n) PROVE Channel!Next \/ UNCHANGED <<Sent, Received>>
    <2>1. PICK env \in out[n] : wire' = wire \cup {env}
        BY <1>1 DEF PushOut, Push
    <2>2. Received' = Received
        BY <1>1 DEF PushOut, tables, Received
    <2>3. CASE env.type # "message"
        BY <2>1, <2>2, <2>3 DEF Sent
    <2>4. CASE env.type = "message"
        <3>1. Sent' = Sent \cup {Msg(env)}
            BY <2>1, <2>4 DEF Sent
        <3>2. ASSUME NEW x \in Sent, Channel!SameStream(x, Msg(env))
              PROVE  x.seq < Msg(env).seq
            <4>1. PICK w \in wire : w.type = "message" /\ x = Msg(w)
                BY DEF Sent
            <4>2. w.from = env.from /\ w.to = env.to /\ w.sid = env.sid
                BY <3>2, <4>1 DEF Channel!SameStream
            <4>3. w.seq < env.seq
                BY <2>4, <4>1, <4>2 DEF OrderInv, OutFresh, SameStream
            <4>. QED  BY <4>1, <4>3
        <3>3. Channel!Send(Msg(env))
            BY <2>2, <3>1, <3>2 DEF Channel!Send
        <3>. QED  BY <3>1, <3>3 DEF Channel!Next
    <2>. QED  BY <2>3, <2>4
<1>2. ASSUME NEW n \in Node, AppendTranscript(n) PROVE Channel!Next
    <2>1. PICK i \in group[n] :
              /\ ~IsOpen(i) /\ ~InTranscript(n, i.env) /\ i.env \notin lapsed
              /\ transcript' = transcript \cup
                    {[me |-> n, peer |-> i.env.from, sid |-> i.env.sid,
                      seq |-> i.env.seq, text |-> i.env.text]}
              /\ UNCHANGED wire
        BY <1>2 DEF AppendTranscript, ghosts
    <2>2. /\ i \in Held(n) /\ i \in MessagesIn(Held(n))
          /\ i.env \in wire /\ i.env.to = n /\ i.env.type = "message" /\ i.env.seq \in Nat
        BY <2>1, HeldItems DEF Held, MessagesIn
    <2>3. Msg(i.env) \in Sent
        BY <2>2 DEF Sent
    <2>4. Received' = Received \cup {Msg(i.env)}
        <3> DEFINE row == [me |-> n, peer |-> i.env.from, sid |-> i.env.sid,
                           seq |-> i.env.seq, text |-> i.env.text]
        <3>1. Row(row) = Msg(i.env)
            BY <2>2
        <3>2. transcript' = transcript \cup {row}
            BY <2>1
        <3>3. Received = {Row(r) : r \in transcript}
            BY DEF Received
        <3>4. Received' = {Row(r) : r \in transcript'}
            BY DEF Received
        <3> HIDE DEF row, Row
        <3>5. {Row(r) : r \in transcript \cup {row}} = {Row(r) : r \in transcript} \cup {Row(row)}
            OBVIOUS
        <3>. QED  BY <3>1, <3>2, <3>3, <3>4, <3>5
    <2>5. ASSUME NEW x \in Received, Channel!SameStream(x, Msg(i.env))
          PROVE  x.seq < Msg(i.env).seq
        <3>1. PICK r \in transcript : x = Row(r)
            BY DEF Received
        <3>2. r.me = n /\ r.peer = i.env.from /\ r.sid = i.env.sid
            BY <2>2, <2>5, <3>1 DEF Channel!SameStream
        <3>3. r.seq \in Nat
            BY DEF TypeOK, DbType
        <3>4. ~(i.env.seq <= r.seq)
            BY <2>1, <2>2, <3>2 DEF OrderInv, NonePassed, Settled
        <3>. QED  BY <2>2, <3>1, <3>3, <3>4
    <2>6. Sent' = Sent
        BY <2>1 DEF Sent
    <2>7. Channel!Receive(Msg(i.env))
        BY <2>3, <2>4, <2>5, <2>6 DEF Channel!Receive
    <2>. QED  BY <2>3, <2>7 DEF Channel!Next
<1>3. ASSUME NEW n \in Node, Poll(n), ~PushOut(n), ~AppendTranscript(n)
      PROVE  UNCHANGED <<wire, transcript>>
    <2>1. CASE \/ FetchFails(n) \/ UpsertPeer(n) \/ SaveResponderKey(n) \/ CreateSession(n)
               \/ ClearPendingHandshake(n) \/ AppendRaises(n) \/ Ack(n) \/ AckFails(n)
        BY <2>1, PollLull DEF Lull
    <2>2. CASE Fetch(n) \/ NextGroup(n) \/ DropOpen(n) \/ BeginRespond(n)
        BY <2>2 DEF Fetch, NextGroup, DropOpen, BeginRespond, tables, ghosts
    <2>3. CASE SaveInitiatorKey(n) \/ DropMessage(n) \/ SetSeqHighWater(n)
        BY <2>3 DEF SaveInitiatorKey, DropMessage, SetSeqHighWater, tables, ghosts
    <2>. QED  BY <1>3, <2>1, <2>2, <2>3 DEF Poll
<1>4. ASSUME NEW n \in Node, Outbound(n) PROVE UNCHANGED <<wire, transcript>>
    <2>1. CASE \E row \in session_keys, text \in Text : NextOutboundSequence(n, row, text)
        BY <2>1 DEF NextOutboundSequence, ghosts
    <2>2. CASE \/ \E p \in Node, s \in Sid : OpenSession(n, p, s) \/ EndSession(n, p, s)
               \/ EndTick(n)
        BY <2>2, OtherLull DEF Lull
    <2>. QED  BY <1>4, <2>1, <2>2 DEF Outbound
<1>5. CASE Environment \/ UNCHANGED vars
    <2>1. UNCHANGED <<wire, transcript>>
        BY <1>5, OtherLull DEF Lull
    <2>. QED  BY <1>0, <2>1
<1>. QED  BY <1>0, <1>1, <1>2, <1>3, <1>4, <1>5 DEF Next

\* The transport implements the channel: every row of a transcript is a message
\* its peer pushed, appended once and in the order of the sequences, whatever
\* crashes, duplicates, expiries and consent changes fall in between.
THEOREM ChannelImplemented == Spec => ImplementsChannel
<1>1. Init => Channel!Init
    BY DEF Init, Channel!Init, Sent, Received
<1>. QED
    BY <1>1, ChannelStep, OrderAlways, PTL DEF Spec, ImplementsChannel, Channel!Spec
=============================================================================
