------------------------- MODULE Conversation_proofs -------------------------
(***************************************************************************)
(* Proofs about Conversation, for any number of rows, sessions, summary     *)
(* generations, faults and failures, any tail and any ages.                *)
(***************************************************************************)
EXTENDS Conversation, WellFoundedInduction, TLAPS

-----------------------------------------------------------------------------
(* Least and greatest numbers, and the end of a rollover chain. *)

LEMMA LeastNatural ==
    ASSUME NEW S, S \subseteq Nat, S # {}
    PROVE  \E m \in S : \A n \in S : m <= n
<1>1. PICK m \in S : \A n \in S : ~(<<n, m>> \in OpToRel(<, Nat))
  BY NatLessThanWellFounded, WFMin
<1>2. \A n \in S : ~(n < m)
  BY <1>1 DEF OpToRel
<1> QED
  BY <1>2

LEMMA GreatestNatural ==
    ASSUME NEW S, NEW k \in Nat, S \subseteq 0..k, S # {}
    PROVE  /\ Max(S) \in S
           /\ \A n \in S : n <= Max(S)
<1> DEFINE U == {b \in Nat : \A n \in S : n <= b}
<1>1. PICK b \in U : \A c \in U : b <= c
  <2>1. k \in U
    OBVIOUS
  <2> QED
    BY <2>1, LeastNatural
<1>2. b \in S
  <2>1. SUFFICES ASSUME b \notin S PROVE FALSE
    OBVIOUS
  <2>2. \A n \in S : n <= b - 1 /\ n \in Nat
    BY <1>1, <2>1
  <2>3. PICK x : x \in S
    OBVIOUS
  <2>4. b - 1 \in Nat
    BY <2>2, <2>3
  <2>5. b - 1 \in U
    BY <2>2, <2>4
  <2> QED
    BY <1>1, <2>5
<1>3. \E x \in S : \A n \in S : x >= n
  BY <1>1, <1>2
<1>4. Max(S) \in S /\ \A n \in S : Max(S) >= n
  BY <1>3, Zenon DEF Max
<1> QED
  BY <1>4

\* The pointers lead to sessions created later.
RolledInv == \A s \in Sessions : rolled[s] # 0 => rolled[s] \in (s + 1)..sessions

\* The recursion of resolve_successor has a solution: of the sessions from
\* which on it has one, the least is the first.
LEMMA ChainExists ==
    ASSUME NEW f, f \in [Sessions -> Nat], \A s \in Sessions : f[s] # 0 => f[s] \in (s + 1)..MaxSessions
    PROVE  \E g : g = [i \in Sessions |-> IF f[i] = 0 THEN i ELSE g[f[i]]]
<1> DEFINE Solves(g, n) == \A i \in Sessions : i >= n => g[i] = IF f[i] = 0 THEN i ELSE g[f[i]]
           G == {n \in Nat : \E g \in [Sessions -> Nat] : Solves(g, n)}
<1>a. MaxSessions \in Nat
  BY ConversationAssumption
<1>1. MaxSessions + 1 \in G
  <2>1. Solves([i \in Sessions |-> 0], MaxSessions + 1)
    BY <1>a DEF Sessions
  <2>2. [i \in Sessions |-> 0] \in [Sessions -> Nat]
    OBVIOUS
  <2> QED
    BY <1>a, <2>1, <2>2
<1>2. PICK n \in G : \A k \in G : n <= k
  <2>1. G \subseteq Nat /\ G # {}
    BY <1>1
  <2> HIDE DEF G
  <2> QED
    BY <2>1, LeastNatural
<1>3. PICK g \in [Sessions -> Nat] : Solves(g, n)
  BY <1>2
<1>4. n <= 1
  <2>1. SUFFICES ASSUME n > 1 PROVE n - 1 \in G
    BY <1>2
  <2>2. n - 1 \in Nat
    BY <1>2, <2>1
  <2>3. CASE n - 1 \notin Sessions
    <3>1. Solves(g, n - 1)
      <4>1. \A i \in Sessions : i >= n - 1 => i >= n
        BY <2>2, <2>3, <1>a, <1>2 DEF Sessions
      <4> QED
        BY <4>1, <1>3
    <3> QED
      BY <3>1, <2>2
  <2>4. CASE n - 1 \in Sessions
    <3> DEFINE h == [g EXCEPT ![n - 1] = IF f[n - 1] = 0 THEN n - 1 ELSE g[f[n - 1]]]
    <3>1. h \in [Sessions -> Nat]
      <4>1. f[n - 1] # 0 => f[n - 1] \in Sessions
        BY <2>4, <1>a DEF Sessions
      <4> QED
        BY <1>3, <2>2, <4>1
    <3>2. Solves(h, n - 1)
      <4> SUFFICES ASSUME NEW i \in Sessions, i >= n - 1
                   PROVE  h[i] = IF f[i] = 0 THEN i ELSE h[f[i]]
        OBVIOUS
      <4>0. i \in Nat /\ i >= 1 /\ n \in Nat
        BY <1>a, <1>2 DEF Sessions
      <4>1. f[i] # 0 => f[i] \in Sessions /\ f[i] # n - 1
        <5> SUFFICES ASSUME f[i] # 0 PROVE f[i] \in Sessions /\ f[i] # n - 1
          OBVIOUS
        <5>1. f[i] \in (i + 1)..MaxSessions
          OBVIOUS
        <5>2. f[i] \in Sessions
          BY <5>1, <4>0, <1>a DEF Sessions
        <5>3. i >= n - 1
          OBVIOUS
        <5>4. f[i] # n - 1
          BY ONLY <5>1, <5>3, <4>0, <1>a
        <5> QED
          BY <5>2, <5>4
      <4>2. CASE i = n - 1
        BY <4>1, <4>2, <1>3, <2>4
      <4>3. CASE i # n - 1
        <5>1. i >= n
          BY <4>3, <1>2 DEF Sessions
        <5>2. h[i] = g[i] /\ (f[i] # 0 => h[f[i]] = g[f[i]])
          BY <4>1, <4>3, <1>3
        <5> QED
          BY <5>1, <5>2, <1>3
      <4> QED
        BY <4>2, <4>3
    <3> QED
      BY <3>1, <3>2, <2>2
  <2> QED
    BY <2>3, <2>4
<1>5. \A i \in Sessions : i >= n
  BY <1>4, <1>2 DEF Sessions
<1>6. g = [i \in Sessions |-> IF f[i] = 0 THEN i ELSE g[f[i]]]
  BY <1>3, <1>5
<1> QED
  BY <1>6

\* It leads from a session that exists to one that exists.
LEMMA ResolveExists ==
    ASSUME RolledInv, rolled \in [Sessions -> 0..MaxSessions], sessions \in Sessions,
           NEW s \in 1..sessions
    PROVE  Resolve(s) \in 1..sessions /\ rolled[Resolve(s)] = 0
<1>a. MaxSessions \in Nat
  BY ConversationAssumption
<1> DEFINE Solution(g) == g = [i \in Sessions |-> IF rolled[i] = 0 THEN i ELSE g[rolled[i]]]
           chain == CHOOSE g : Solution(g)
           Astray == {i \in 1..sessions : ~(chain[i] \in 1..sessions /\ rolled[chain[i]] = 0)}
<1>1. \E g : Solution(g)
  <2>1. rolled \in [Sessions -> Nat]
    BY <1>a
  <2>2. \A i \in Sessions : rolled[i] # 0 => rolled[i] \in (i + 1)..MaxSessions
    BY <1>a DEF RolledInv, Sessions
  <2> QED
    BY <2>1, <2>2, ChainExists
<1>2. Solution(chain)
  BY <1>1, Zenon
<1>3. Resolve(s) = chain[s]
  BY DEF Resolve
<1>4. Astray = {}
  <2>1. SUFFICES ASSUME Astray # {} PROVE FALSE
    OBVIOUS
  <2>2. Astray \subseteq 0..sessions /\ sessions \in Nat
    BY DEF Sessions
  <2>3. PICK m \in Astray : \A i \in Astray : i <= m
    <3> HIDE DEF Astray
    <3> QED
      BY <2>1, <2>2, GreatestNatural
  <2>4. m \in Sessions /\ m \in 1..sessions
    BY <1>a DEF Sessions
  <2> HIDE DEF chain
  <2>5. chain[m] = IF rolled[m] = 0 THEN m ELSE chain[rolled[m]]
    BY <1>2, <2>4
  <2>6. rolled[m] # 0
    BY <2>4, <2>5
  <2>7. rolled[m] \in 1..sessions /\ rolled[m] > m
    BY <2>4, <2>6, <1>a DEF RolledInv, Sessions
  <2> QED
    BY <2>3, <2>5, <2>6, <2>7
<1> QED
  BY <1>3, <1>4

-----------------------------------------------------------------------------
(* The rows of a chunk. *)

LEMMA RowFields ==
    ASSUME NEW r \in RowType
    PROVE  r.id \in 1..MaxRows /\ r.ts \in 1..MaxTime
BY DEF RowType

\* A chunk of some rows is some of them, and every row it leaves is newer
\* than all of its own: the cursor may move to its newest stamp.
LEMMA ChunkCut ==
    ASSUME NEW rows, rows \subseteq RowType, rows # {}
    PROVE  /\ Chunk(rows) \subseteq rows
           /\ Max(Stamps(Chunk(rows))) \in 1..MaxTime /\ Max(Stamps(Chunk(rows))) \in Stamps(Chunk(rows))
           /\ \A r \in Chunk(rows) : r.ts <= Max(Stamps(Chunk(rows)))
           /\ \A r \in rows : r.ts <= Max(Stamps(Chunk(rows))) => r \in Chunk(rows)
<1>a. MaxRows \in Nat /\ MaxTime \in Nat
  BY ConversationAssumption
<1>b. \A r \in rows : r.id \in Nat /\ r.id <= MaxRows /\ r.ts \in Nat /\ r.ts \in 1..MaxTime
  BY RowFields, <1>a
<1>1. Chunk(rows) \subseteq rows
  BY DEF Chunk
<1>2. Chunk(rows) # {}
  <2>1. Ids(rows) \subseteq Nat /\ Ids(rows) # {}
    BY <1>b DEF Ids
  <2>2. PICK m \in Ids(rows) : \A n \in Ids(rows) : m <= n
    BY <2>1, LeastNatural
  <2>3. PICK r \in rows : r.id = m
    BY DEF Ids
  <2>4. \A q \in rows : r.id <= q.id
    BY <2>2, <2>3 DEF Ids
  <2>5. ASSUME NEW c \in Cuts(rows) PROVE r.id < c.id
    <3>1. PICK q \in rows : q.id < c.id /\ c \in rows
      BY <2>5 DEF Cuts
    <3> QED
      BY <3>1, <2>4, <1>b
  <2> QED
    BY <2>5 DEF Chunk
<1>3. Stamps(Chunk(rows)) \subseteq 0..MaxTime /\ Stamps(Chunk(rows)) # {}
  BY <1>1, <1>2, <1>b DEF Stamps
<1>4. /\ Max(Stamps(Chunk(rows))) \in Stamps(Chunk(rows))
      /\ \A x \in Stamps(Chunk(rows)) : x <= Max(Stamps(Chunk(rows)))
  BY <1>3, <1>a, GreatestNatural
<1>5. PICK top \in Chunk(rows) : top.ts = Max(Stamps(Chunk(rows)))
  BY <1>4 DEF Stamps
<1>6. \A r \in Chunk(rows) : r.ts <= top.ts
  BY <1>4, <1>5 DEF Stamps
<1>7. ASSUME NEW r \in rows, r \notin Chunk(rows) PROVE top.ts < r.ts
  <2>1. PICK c \in Cuts(rows) : ~(r.id < c.id)
    BY <1>7 DEF Chunk
  <2>2. c \in rows /\ CutAllowed(rows, c)
    BY DEF Cuts
  <2>3. top.id < c.id /\ c.id <= r.id /\ top \in rows
    BY <2>1, <2>2, <1>1, <1>5, <1>b DEF Chunk
  <2> QED
    BY <2>2, <2>3 DEF CutAllowed
<1>8. \A r \in rows : r.ts <= top.ts => r \in Chunk(rows)
  <2> SUFFICES ASSUME NEW r \in rows, r.ts <= top.ts PROVE r \in Chunk(rows)
    OBVIOUS
  <2>1. top \in rows
    BY <1>1
  <2> QED
    BY <2>1, <1>7, <1>b
<1>9. top.ts \in 1..MaxTime
  BY <1>1, <1>b
<1> QED
  BY <1>1, <1>4, <1>5, <1>6, <1>8, <1>9

-----------------------------------------------------------------------------
(* What a step does to the jobs of the workers. *)

\* The job of p becomes this one; the other worker's stays.
Becomes(p, job, pc, sid, rows, batch) ==
    /\ w' \in [Workers -> JobType]
    /\ w'[p].job = job /\ w'[p].pc = pc /\ w'[p].sid = sid
    /\ w'[p].rows = rows /\ w'[p].batch = batch
    /\ \A q \in Workers \ {p} : w'[q] = w[q]

\* A worker goes idle, or comes to a stage that holds nothing it will use.
QuietPcs == {"idle", "gate", "again", "fold", "seed"}
Rests(p) ==
    /\ w'[p].pc \in QuietPcs
    /\ w'[p].pc = "idle" \/ (w'[p].sid = w[p].sid /\ w[p].pc # "idle")
    /\ w'[p].rows \subseteq w[p].rows /\ w'[p].batch \subseteq w[p].batch
    /\ w'[p].pc = "idle" \/ w'[p].job # "close"

\* The rows, what was done with them and where they are stay as they are.
SameRows == UNCHANGED <<appended, buf, cursor, rolled, sessions, archive, marker, memory,
                        poison, overrun, behind, outran>>

ClockInv == now \in 1..MaxTime
TurnInv == turn \in [sid : 0..MaxSessions, start : 0..MaxTime, stage : {"none", "reply", "assistant"}]
BackoffInv == backoff \in [Sessions -> BackoffType]
TurnSidInv == turn.stage # "none" => turn.sid \in 1..sessions /\ turn.start > 0

SmallInv == ClockInv /\ TurnInv /\ BackoffInv /\ TurnSidInv

\* A step that touches no row and puts workers at rest at most.
Quiet ==
    /\ SameRows
    /\ w' \in [Workers -> JobType] /\ \A q \in Workers : w'[q] = w[q] \/ Rests(q)
    /\ SmallInv'

LEMMA JobFields ==
    ASSUME TypeOK, NEW p \in Workers
    PROVE  /\ w[p] \in JobType
           /\ w[p].job \in Jobs /\ w[p].pc \in Pcs /\ w[p].sid \in 0..MaxSessions
           /\ w[p].rows \in SUBSET RowType /\ w[p].batch \in SUBSET RowType
           /\ w[p].gen \in 0..MaxGen /\ w[p].again \in BOOLEAN
<1>1. w[p] \in JobType
  BY DEF TypeOK
<1> QED
  BY <1>1 DEF JobType

LEMMA BufferFields ==
    ASSUME TypeOK, NEW s \in Sessions
    PROVE  buf[s].rows \in SUBSET RowType /\ buf[s].gen \in 0..MaxGen
<1>1. buf[s] \in BufferType
  BY DEF TypeOK
<1> QED
  BY <1>1 DEF BufferType

LEMMA JobBecomes ==
    ASSUME TypeOK, NEW p \in Workers, NEW j, j \in JobType, w' = [w EXCEPT ![p] = j]
    PROVE  Becomes(p, j.job, j.pc, j.sid, j.rows, j.batch)
<1>1. w \in [Workers -> JobType]
  BY DEF TypeOK
<1>2. w'[p] = j /\ \A q \in Workers \ {p} : w'[q] = w[q]
  BY <1>1
<1>3. w' \in [Workers -> JobType]
  BY <1>1
<1> QED
  BY <1>2, <1>3 DEF Becomes

LEMMA IdleTyped == Idle \in JobType /\ Idle.pc = "idle" /\ Idle.rows = {} /\ Idle.batch = {}
BY ConversationAssumption DEF Idle, JobType, Jobs, Pcs

LEMMA EndBecomes ==
    ASSUME TypeOK, NEW p \in Workers, w' = [w EXCEPT ![p] = Idle]
    PROVE  Becomes(p, "none", "idle", 0, {}, {})
<1>1. Becomes(p, Idle.job, Idle.pc, Idle.sid, Idle.rows, Idle.batch)
  BY IdleTyped, JobBecomes
<1> QED
  BY <1>1 DEF Idle

LEMMA GoBecomes ==
    ASSUME TypeOK, NEW p \in Workers, NEW pc \in Pcs, Go(p, pc)
    PROVE  Becomes(p, w[p].job, pc, w[p].sid, w[p].rows, w[p].batch)
<1> DEFINE j == [w[p] EXCEPT !.pc = pc]
<1>1. j \in JobType /\ j.job = w[p].job /\ j.pc = pc /\ j.sid = w[p].sid /\ j.rows = w[p].rows
      /\ j.batch = w[p].batch
  BY JobFields DEF JobType
<1>2. w' = [w EXCEPT ![p] = j]
  BY DEF Go, TypeOK
<1> HIDE DEF j
<1>3. Becomes(p, j.job, j.pc, j.sid, j.rows, j.batch)
  BY <1>1, <1>2, JobBecomes
<1> QED
  BY <1>1, <1>3

LEMMA StageBecomes ==
    ASSUME TypeOK, NEW p \in Workers, NEW pc \in Pcs, w' = [w EXCEPT ![p] = NextStage(w[p], pc)]
    PROVE  Becomes(p, w[p].job, pc, w[p].sid, {}, {})
<1> DEFINE j == NextStage(w[p], pc)
<1>0. 0 \in 0..MaxGen /\ {} \in SUBSET RowType
  BY ConversationAssumption
<1>1. j \in JobType /\ j.job = w[p].job /\ j.pc = pc /\ j.sid = w[p].sid /\ j.rows = {} /\ j.batch = {}
  BY <1>0, JobFields DEF JobType, NextStage
<1>2. w' = [w EXCEPT ![p] = j]
  OBVIOUS
<1> HIDE DEF j
<1>3. Becomes(p, j.job, j.pc, j.sid, j.rows, j.batch)
  BY <1>1, <1>2, JobBecomes
<1> QED
  BY <1>1, <1>3

LEMMA FoldBecomes ==
    ASSUME TypeOK, NEW p \in Workers, NEW job \in Jobs, NEW s \in Sessions, NEW batch \in SUBSET RowType,
           BeginFold(p, job, s, batch), buf[s].gen < MaxGen
    PROVE  Becomes(p, job, "summarise", s, {}, batch)
<1> DEFINE j == [Idle EXCEPT !.job = job, !.pc = "summarise", !.sid = s, !.batch = batch, !.gen = buf[s].gen + 1]
<1>1. buf[s].gen + 1 \in 0..MaxGen
  BY BufferFields, ConversationAssumption
<1>2. s \in 0..MaxSessions /\ "summarise" \in Pcs
  BY ConversationAssumption DEF Sessions, Pcs, FoldPcs
<1>3. j \in JobType /\ j.job = job /\ j.pc = "summarise" /\ j.sid = s /\ j.rows = {} /\ j.batch = batch
  BY <1>1, <1>2 DEF JobType, Idle
<1>4. w' = [w EXCEPT ![p] = j]
  BY DEF BeginFold
<1> HIDE DEF j
<1>5. Becomes(p, j.job, j.pc, j.sid, j.rows, j.batch)
  BY <1>3, <1>4, JobBecomes
<1> QED
  BY <1>3, <1>5

LEMMA EndRests ==
    ASSUME TypeOK, NEW p \in Workers, w' = [w EXCEPT ![p] = Idle]
    PROVE  w' \in [Workers -> JobType] /\ Rests(p) /\ \A q \in Workers : w'[q] = w[q] \/ Rests(q)
<1>1. Becomes(p, "none", "idle", 0, {}, {})
  BY EndBecomes
<1>2. Rests(p)
  BY <1>1 DEF Becomes, Rests, QuietPcs
<1> QED
  BY <1>1, <1>2 DEF Becomes

LEMMA StageRests ==
    ASSUME TypeOK, NEW p \in Workers, NEW pc \in QuietPcs \ {"idle"},
           w' = [w EXCEPT ![p] = NextStage(w[p], pc)], w[p].job # "close", w[p].pc # "idle"
    PROVE  w' \in [Workers -> JobType] /\ Rests(p) /\ \A q \in Workers : w'[q] = w[q] \/ Rests(q)
<1>1. pc \in Pcs /\ pc \in QuietPcs
  BY DEF QuietPcs, Pcs
<1>2. Becomes(p, w[p].job, pc, w[p].sid, {}, {})
  BY <1>1, StageBecomes
<1>3. Rests(p)
  BY <1>1, <1>2 DEF Becomes, Rests
<1> QED
  BY <1>2, <1>3 DEF Becomes

LEMMA GoRests ==
    ASSUME TypeOK, NEW p \in Workers, NEW pc \in QuietPcs \ {"idle"},
           Go(p, pc), w[p].job # "close", w[p].pc # "idle"
    PROVE  w' \in [Workers -> JobType] /\ \A q \in Workers : w'[q] = w[q] \/ Rests(q)
<1>1. pc \in Pcs /\ pc \in QuietPcs
  BY DEF QuietPcs, Pcs
<1>2. Becomes(p, w[p].job, pc, w[p].sid, w[p].rows, w[p].batch)
  BY <1>1, GoBecomes
<1>3. Rests(p)
  BY <1>1, <1>2 DEF Becomes, Rests
<1> QED
  BY <1>2, <1>3 DEF Becomes

\* How a pass goes on.
LEMMA StopRests ==
    ASSUME TypeOK, NEW p \in Workers, NEW raised, AfterStop(p, raised), w[p].pc # "idle"
    PROVE  w' \in [Workers -> JobType] /\ \A q \in Workers : w'[q] = w[q] \/ Rests(q)
<1>1. CASE w[p].job = "finalize" \/ (Rolling(w[p].job) /\ raised /\ ~w[p].again)
  <2>1. w' = [w EXCEPT ![p] = NextStage(w[p], "gate")]
    BY <1>1 DEF AfterStop
  <2> QED
    BY <1>1, <2>1, StageRests DEF QuietPcs, Rolling
<1>2. CASE ~(w[p].job = "finalize" \/ (Rolling(w[p].job) /\ raised /\ ~w[p].again))
  <2>1. w' = [w EXCEPT ![p] = Idle]
    BY <1>2 DEF AfterStop
  <2> QED
    BY <2>1, EndRests
<1> QED
  BY <1>1, <1>2

LEMMA EndsRests ==
    ASSUME TypeOK, NEW p \in Workers, AfterEnd(p), w[p].pc # "idle", w[p].job # "close"
    PROVE  w' \in [Workers -> JobType] /\ \A q \in Workers : w'[q] = w[q] \/ Rests(q)
<1>1. CASE w[p].job = "snapshot"
  <2>1. w' = [w EXCEPT ![p] = Idle]
    BY <1>1 DEF AfterEnd
  <2> QED
    BY <2>1, EndRests
<1>2. CASE w[p].job = "finalize"
  <2>1. w' = [w EXCEPT ![p] = NextStage(w[p], "gate")]
    BY <1>2 DEF AfterEnd
  <2> QED
    BY <2>1, StageRests DEF QuietPcs
<1>3. CASE w[p].job \notin {"snapshot", "finalize"}
  <2>1. w' = [w EXCEPT ![p] = NextStage(w[p], "fold")]
    BY <1>3 DEF AfterEnd
  <2> QED
    BY <2>1, StageRests DEF QuietPcs
<1> QED
  BY <1>1, <1>2, <1>3

LEMMA AfterFoldRests ==
    ASSUME TypeOK, NEW p \in Workers, AfterFold(p), w[p].pc # "idle"
    PROVE  w' \in [Workers -> JobType] /\ Rests(p) /\ \A q \in Workers : w'[q] = w[q] \/ Rests(q)
<1>1. CASE Rolling(w[p].job)
  <2>1. w' = [w EXCEPT ![p] = NextStage(w[p], "seed")]
    BY <1>1 DEF AfterFold
  <2> QED
    BY <1>1, <2>1, StageRests DEF QuietPcs, Rolling
<1>2. CASE ~Rolling(w[p].job)
  <2>1. w' = [w EXCEPT ![p] = Idle]
    BY <1>2 DEF AfterFold
  <2> QED
    BY <2>1, EndRests
<1> QED
  BY <1>1, <1>2

-----------------------------------------------------------------------------
(* The invariant behind the types: what exists, and what it may name. *)

\* A job that runs, and a turn, are about a session that exists.
SidInv ==
    /\ \A p \in Workers : w[p].pc # "idle" => w[p].sid \in 1..sessions
    /\ \A p \in Workers : w[p].pc = "seedPoint" => w[p].sid < sessions

\* Nothing is there of a session that was not created.
FreshInv == \A s \in Sessions : s > sessions => buf[s] = Absent /\ cursor[s] = 0

\* Only rows that were persisted are anywhere.
BufferIdsInv == \A s \in Sessions : Ids(buf[s].rows) \subseteq 1..appended
JobIdsInv == \A p \in Workers : Ids(w[p].rows) \cup Ids(w[p].batch) \subseteq 1..appended

\* A close never comes to the stages of a finalize or a rollover.
StageInv == \A p \in Workers : w[p].pc \in QuietPcs \ {"idle"} => w[p].job # "close"

TypeInv == TypeOK /\ SidInv /\ TurnSidInv /\ StageInv /\ FreshInv /\ RolledInv
             /\ BufferIdsInv /\ JobIdsInv

LEMMA QuietFacts ==
    ASSUME TypeInv, NEW p \in Workers
    PROVE  /\ Tick => Quiet
           /\ Crash => Quiet
           /\ \A s \in Sessions : StartTurn(s) => Quiet
           /\ PersistFails => Quiet
           /\ ChunkDeferred(p) => Quiet
           /\ ChunkFailed(p) => Quiet
           /\ ExtractEnds(p) /\ w[p].job # "close" => Quiet
           /\ FoldDeferred(p) => Quiet
           /\ WriteFails(p) => Quiet
<1>a. /\ TypeOK /\ TurnSidInv /\ w \in [Workers -> JobType]
      /\ ClockInv /\ TurnInv /\ BackoffInv /\ sessions \in Nat
      /\ MaxTime \in Nat /\ MaxSessions \in Nat /\ sessions \in 1..MaxSessions
  <2>1. TypeOK /\ TurnSidInv
    BY DEF TypeInv
  <2>2. w \in [Workers -> JobType] /\ ClockInv /\ TurnInv /\ BackoffInv /\ sessions \in Sessions
    BY <2>1 DEF TypeOK, ClockInv, TurnInv, BackoffInv
  <2> QED
    BY <2>1, <2>2, ConversationAssumption DEF Sessions
<1>b. UNCHANGED turn => (TurnInv' /\ (UNCHANGED sessions => TurnSidInv'))
  BY <1>a DEF TurnInv, TurnSidInv
<1>c. turn' = NoTurn => TurnInv' /\ TurnSidInv'
  BY <1>a DEF TurnInv, TurnSidInv, NoTurn
<1>d. (UNCHANGED now => ClockInv') /\ (UNCHANGED backoff => BackoffInv')
  BY <1>a DEF ClockInv, BackoffInv
<1>e. UNCHANGED w => w' \in [Workers -> JobType] /\ \A q \in Workers : w'[q] = w[q] \/ Rests(q)
  BY <1>a
<1>1. ASSUME Tick PROVE Quiet
  <2>1. ClockInv'
    BY <1>1, <1>a DEF Tick, ClockInv
  <2> QED
    BY <1>1, <1>b, <1>d, <1>e, <2>1 DEF Tick, Quiet, SmallInv, SameRows, files, history
<1>2. ASSUME Crash PROVE Quiet
  <2>1. w' = [q \in Workers |-> Idle] /\ turn' = NoTurn
        /\ UNCHANGED <<now, appended, files, history>>
    BY <1>2 DEF Crash
  <2>2. w' \in [Workers -> JobType] /\ \A q \in Workers : Rests(q)
    BY <2>1, IdleTyped DEF Rests, QuietPcs
  <2> QED
    BY <1>c, <1>d, <2>1, <2>2 DEF Quiet, SmallInv, SameRows, files, history
<1>3. ASSUME NEW s \in Sessions, StartTurn(s) PROVE Quiet
  <2>1. TurnInv' /\ TurnSidInv'
    BY <1>3, <1>a DEF StartTurn, TurnInv, TurnSidInv, ClockInv, Sessions, files
  <2> QED
    BY <1>3, <1>d, <1>e, <2>1 DEF StartTurn, Quiet, SmallInv, SameRows, files, history
<1>4. ASSUME PersistFails PROVE Quiet
  BY <1>4, <1>c, <1>d, <1>e DEF PersistFails, Quiet, SmallInv, SameRows, files, history
<1>5. ASSUME ChunkDeferred(p) PROVE Quiet
  <2>1. w' \in [Workers -> JobType] /\ \A q \in Workers : w'[q] = w[q] \/ Rests(q)
    BY <1>5, <1>a, StopRests DEF ChunkDeferred
  <2> QED
    BY <1>5, <1>b, <1>d, <2>1 DEF ChunkDeferred, Quiet, SmallInv, SameRows, files, history
<1>6. ASSUME ChunkFailed(p) PROVE Quiet
  <2>1. w' \in [Workers -> JobType] /\ \A q \in Workers : w'[q] = w[q] \/ Rests(q)
    BY <1>6, <1>a, StopRests DEF ChunkFailed
  <2>2. BackoffInv'
    <3>1. CASE w[p].job = "close"
      BY <1>6, <1>d, <3>1 DEF ChunkFailed
    <3>2. CASE w[p].job # "close"
      <4> DEFINE s == w[p].sid
                 end == Max(Stamps(Chunk(w[p].rows)))
      <4>1. RecordFailure(s, end) /\ w[p].rows # {} /\ w[p].pc = "extract"
        BY <1>6, <3>2 DEF ChunkFailed
      <4>2. end \in 0..MaxTime
        <5>1. w[p].rows \subseteq RowType
          BY <1>a, JobFields
        <5> QED
          BY <4>1, <5>1, <1>a, ChunkCut
      <4>3. s \in Sessions
        BY <1>a, <4>1 DEF TypeInv, SidInv, Sessions
      <4> HIDE DEF s, end
      <4>4. backoff[s] \in BackoffType
        BY <4>3, <1>a DEF BackoffInv
      <4>5. backoff[s].failures \in 0..FailureThreshold /\ backoff[s].first \in 0..MaxTime
        BY <4>4 DEF BackoffType
      <4>6. FailureThreshold \in Nat /\ FailureThreshold >= 1
        BY ConversationAssumption
      <4>7. Min({backoff[s].failures + 1, FailureThreshold}) \in 0..FailureThreshold
        <5> DEFINE S == {backoff[s].failures + 1, FailureThreshold}
        <5>1. \E x \in S : \A y \in S : x =< y
          BY <4>5, <4>6
        <5>2. Min(S) \in S /\ \A y \in S : Min(S) =< y
          BY <5>1, Zenon DEF Min
        <5> HIDE DEF S
        <5>3. Min(S) \in Nat /\ Min(S) =< FailureThreshold
          BY <5>2, <4>5, <4>6 DEF S
        <5> QED
          BY <5>3, <4>6 DEF S
      <4> DEFINE b == [failures |-> Min({backoff[s].failures + 1, FailureThreshold}),
                       first    |-> IF backoff[s].failures = 0 THEN now ELSE backoff[s].first,
                       end      |-> end]
      <4>8. now \in 0..MaxTime
        BY <1>a DEF ClockInv
      <4>9. b \in BackoffType
        BY <4>2, <4>5, <4>7, <4>8 DEF BackoffType
      <4>10. backoff' = [backoff EXCEPT ![s] = b]
        BY <4>1 DEF RecordFailure
      <4> HIDE DEF b
      <4> QED
        BY <4>3, <4>9, <4>10, <1>a DEF BackoffInv
    <3> QED
      BY <3>1, <3>2
  <2> QED
    BY <1>6, <1>b, <1>d, <2>1, <2>2 DEF ChunkFailed, Quiet, SmallInv, SameRows
<1>7. ASSUME ExtractEnds(p), w[p].job # "close" PROVE Quiet
  <2>1. w' \in [Workers -> JobType] /\ \A q \in Workers : w'[q] = w[q] \/ Rests(q)
    BY <1>7, <1>a, EndsRests DEF ExtractEnds
  <2> QED
    BY <1>7, <1>b, <1>d, <2>1 DEF ExtractEnds, Quiet, SmallInv, SameRows, files, history
<1>8. ASSUME FoldDeferred(p) PROVE Quiet
  <2>1. w' \in [Workers -> JobType] /\ \A q \in Workers : w'[q] = w[q] \/ Rests(q)
    BY <1>8, <1>a, EndRests DEF FoldDeferred, End
  <2> QED
    BY <1>8, <1>b, <1>d, <2>1 DEF FoldDeferred, Quiet, SmallInv, SameRows, files, history
<1>9. ASSUME WriteFails(p) PROVE Quiet
  <2>1. w' \in [Workers -> JobType] /\ \A q \in Workers : w'[q] = w[q] \/ Rests(q)
    <3>1. CASE AfterFold(p) /\ w[p].pc \in {"summarise", "mark"}
      BY <3>1, <1>a, AfterFoldRests
    <3>2. CASE End(p)
      BY <3>2, <1>a, EndRests DEF End
    <3> QED
      BY <1>9, <3>1, <3>2 DEF WriteFails
  <2> QED
    BY <1>9, <1>b, <1>d, <2>1 DEF WriteFails, Quiet, SmallInv, SameRows, files, history
<1> QED
  BY <1>1, <1>2, <1>3, <1>4, <1>5, <1>6, <1>7, <1>8, <1>9

-----------------------------------------------------------------------------
(* What each of the other steps does. *)

LEMMA SmallFacts ==
    ASSUME TypeInv
    PROVE  /\ SmallInv /\ sessions \in 1..MaxSessions /\ MaxSessions \in Nat /\ MaxTime \in Nat
           /\ MaxRows \in Nat /\ appended \in 0..MaxRows
           /\ UNCHANGED <<now, turn, backoff, sessions>> => SmallInv'
           /\ UNCHANGED <<now, turn, sessions>> /\ BackoffInv' => SmallInv'
<1>1. SmallInv /\ sessions \in 1..MaxSessions /\ MaxSessions \in Nat /\ MaxTime \in Nat
      /\ MaxRows \in Nat /\ appended \in 0..MaxRows
  BY ConversationAssumption
     DEF TypeInv, TypeOK, SmallInv, ClockInv, TurnInv, BackoffInv, Sessions
<1> QED
  BY <1>1 DEF SmallInv, ClockInv, TurnInv, BackoffInv, TurnSidInv

LEMMA SidFacts ==
    ASSUME TypeInv, NEW p \in Workers, w[p].pc # "idle"
    PROVE  TypeOK /\ w[p].sid \in 1..sessions /\ w[p].sid \in Sessions
<1>1. TypeOK /\ w[p].sid \in 1..sessions
  BY DEF TypeInv, SidInv
<1> QED
  BY <1>1, SmallFacts DEF Sessions

LEMMA StartExtractFacts ==
    ASSUME TypeInv, NEW p \in Workers, NEW job \in Jobs, NEW s \in Sessions, StartExtract(p, job, s)
    PROVE  /\ SameRows /\ SmallInv' /\ s \in 1..sessions
           /\ \/ job = "finalize" /\ Becomes(p, job, "gate", s, {}, {})
              \/ Becomes(p, job, "extract", s, RowsAfter(s), IF job = "close" THEN RowsAfter(s) ELSE {})
<1>1. TypeOK /\ s \in 1..sessions /\ s \in 0..MaxSessions
  BY SmallFacts DEF TypeInv, StartExtract, Sessions
<1>2. RowsAfter(s) \in SUBSET RowType
  BY <1>1, BufferFields DEF RowsAfter
<1>3. SameRows /\ SmallInv'
  BY SmallFacts DEF StartExtract, SameRows, files, history
<1> DEFINE J(pc, rows, batch) == [Idle EXCEPT !.job = job, !.sid = s, !.pc = pc, !.rows = rows, !.batch = batch]
<1>4. ASSUME NEW pc \in Pcs, NEW rows \in SUBSET RowType, NEW batch \in SUBSET RowType,
             w' = [w EXCEPT ![p] = J(pc, rows, batch)]
      PROVE  Becomes(p, job, pc, s, rows, batch)
  <2> DEFINE j == J(pc, rows, batch)
  <2>0. 0 \in 0..MaxGen
    BY ConversationAssumption
  <2>1. j \in JobType /\ j.job = job /\ j.pc = pc /\ j.sid = s /\ j.rows = rows /\ j.batch = batch
    BY <1>1, <2>0 DEF JobType, Idle
  <2>2. w' = [w EXCEPT ![p] = j]
    BY <1>4
  <2> HIDE DEF j, J
  <2>3. Becomes(p, j.job, j.pc, j.sid, j.rows, j.batch)
    BY <1>1, <2>1, <2>2, JobBecomes
  <2> QED
    BY <2>1, <2>3
<1>5. "gate" \in Pcs /\ "extract" \in Pcs
  BY DEF Pcs
<1>6. CASE job = "finalize" /\ BackingOff(s)
  <2>1. w' = [w EXCEPT ![p] = J("gate", {}, {})]
    BY <1>6 DEF StartExtract
  <2> HIDE DEF J
  <2>2. Becomes(p, job, "gate", s, {}, {})
    BY <2>1, <1>4, <1>5
  <2> QED
    BY <1>1, <1>3, <1>6, <2>2
<1>7. CASE ~(job = "finalize" /\ BackingOff(s))
  <2> DEFINE batch == IF job = "close" THEN RowsAfter(s) ELSE {}
  <2>1. w' = [w EXCEPT ![p] = J("extract", RowsAfter(s), batch)]
    BY <1>7 DEF StartExtract
  <2>2. batch \in SUBSET RowType
    BY <1>2
  <2> HIDE DEF J, batch
  <2>3. Becomes(p, job, "extract", s, RowsAfter(s), batch)
    BY <2>1, <2>2, <1>2, <1>4, <1>5
  <2> QED
    BY <1>1, <1>3, <2>3 DEF batch
<1> QED
  BY <1>6, <1>7

LEMMA ChunkCommittedFacts ==
    ASSUME TypeInv, NEW p \in Workers, ChunkCommitted(p)
    PROVE  LET s == w[p].sid
               chunk == Chunk(w[p].rows)
           IN  /\ w[p].pc = "extract" /\ w[p].rows # {} /\ SmallInv'
               /\ memory' = memory \cup Ids(chunk)
               /\ cursor' = cursor \/ cursor' = [cursor EXCEPT ![s] = Max(Stamps(chunk))]
               /\ \/ Becomes(p, w[p].job, "extract", s, Rest(w[p].rows), w[p].batch)
                  \/ w' \in [Workers -> JobType] /\ \A q \in Workers : w'[q] = w[q] \/ Rests(q)
               /\ UNCHANGED <<appended, buf, rolled, sessions, archive, marker, poison,
                              overrun, behind, outran>>
<1> DEFINE s == w[p].sid
           chunk == Chunk(w[p].rows)
<1>1. TypeOK /\ w[p].pc = "extract" /\ w[p].rows # {}
  BY DEF TypeInv, ChunkCommitted
<1>2. BackoffInv'
  <2>1. backoff' = IF w[p].job = "close" THEN backoff ELSE [backoff EXCEPT ![s] = NoBackoff]
    BY DEF ChunkCommitted
  <2>2. NoBackoff \in BackoffType
    BY ConversationAssumption DEF NoBackoff, BackoffType
  <2> QED
    BY <2>1, <2>2, <1>1 DEF BackoffInv, TypeOK
<1>3. SmallInv'
  BY <1>2, SmallFacts DEF ChunkCommitted
<1>4. CASE w[p].job \in {"snapshot", "finalize"}
  <2>1. AfterEnd(p)
    BY <1>4 DEF ChunkCommitted
  <2>2. w' \in [Workers -> JobType] /\ \A q \in Workers : w'[q] = w[q] \/ Rests(q)
    BY <1>1, <1>4, <2>1, EndsRests
  <2> QED
    BY <1>1, <1>3, <2>2 DEF ChunkCommitted, history
<1>5. CASE w[p].job \notin {"snapshot", "finalize"}
  <2> DEFINE rest == Rest(w[p].rows)
             j == [w[p] EXCEPT !.rows = rest]
  <2>1. rest \in SUBSET RowType
    BY <1>1, JobFields DEF Rest
  <2>2. w' = [w EXCEPT ![p].rows = rest]
    BY <1>5 DEF ChunkCommitted
  <2> HIDE DEF rest
  <2>3. j \in JobType /\ j.job = w[p].job /\ j.pc = "extract" /\ j.sid = s /\ j.rows = rest /\ j.batch = w[p].batch
    BY <1>1, <2>1, JobFields DEF JobType
  <2>4. w' = [w EXCEPT ![p] = j]
    BY <2>2
  <2> HIDE DEF j
  <2>5. Becomes(p, j.job, j.pc, j.sid, j.rows, j.batch)
    BY <1>1, <2>3, <2>4, JobBecomes
  <2>6. Becomes(p, w[p].job, "extract", s, Rest(w[p].rows), w[p].batch)
    BY <2>3, <2>5 DEF rest
  <2> QED
    BY <1>1, <1>3, <2>6 DEF ChunkCommitted, history
<1> QED
  BY <1>4, <1>5

\* A gate sets the first chunk of some of the rows after the cursor aside.
LEMMA GateFacts ==
    ASSUME TypeInv, NEW p \in Workers, Gate(p)
    PROVE  \/ Quiet
           \/ LET s == w[p].sid
              IN  /\ w[p].pc = "gate" /\ SmallInv'
                  /\ \E tried \in SUBSET RowsAfter(s) :
                        /\ tried # {} /\ \A r \in RowsAfter(s), q \in tried : r.ts <= q.ts => r \in tried
                        /\ poison' = poison \cup Ids(Chunk(tried))
                        /\ cursor' = cursor \/ cursor' = [cursor EXCEPT ![s] = Max(Stamps(Chunk(tried)))]
                  /\ w' \in [Workers -> JobType] /\ \A q \in Workers : w'[q] = w[q] \/ Rests(q)
                  /\ UNCHANGED <<appended, buf, rolled, sessions, archive, marker, memory,
                                 overrun, behind, outran>>
<1> DEFINE s == w[p].sid
           tried == {r \in RowsAfter(s) : r.ts <= backoff[s].end}
<1>0. w[p].pc = "gate"
  BY DEF Gate
<1>1. TypeOK /\ w[p].pc = "gate" /\ s \in Sessions
  BY <1>0, SidFacts
<1>2. w' \in [Workers -> JobType] /\ \A q \in Workers : w'[q] = w[q] \/ Rests(q)
  <2>1. CASE End(p)
    BY <1>1, <2>1, EndRests DEF End
  <2>2. CASE Go(p, "again") /\ Rolling(w[p].job)
    BY <1>1, <2>2, GoRests DEF QuietPcs, Rolling
  <2> QED
    BY <2>1, <2>2 DEF Gate
<1>3. UNCHANGED <<now, turn, appended, buf, rolled, sessions, archive, marker, memory, overrun, behind, outran>>
  BY DEF Gate, history
<1>4. NoBackoff \in BackoffType
  BY ConversationAssumption DEF NoBackoff, BackoffType
<1>5. CASE UNCHANGED <<poison, cursor, backoff>>
  BY <1>2, <1>3, <1>5, SmallFacts DEF Quiet, SameRows
<1>6. CASE PoisonSpan(s)
  <2>1. BackoffInv'
    <3>1. backoff' = backoff \/ backoff' = [backoff EXCEPT ![s] = NoBackoff]
      BY <1>6 DEF PoisonSpan
    <3> QED
      BY <3>1, <1>1, <1>4 DEF BackoffInv, TypeOK
  <2>2. SmallInv'
    BY <2>1, <1>3, SmallFacts
  <2>3. CASE tried = {}
    <3>1. UNCHANGED <<poison, cursor>>
      BY <1>6, <2>3 DEF PoisonSpan
    <3> QED
      BY <3>1, <1>2, <1>3, <2>2 DEF Quiet, SameRows
  <2>4. CASE tried # {}
    <3>1. /\ poison' = poison \cup Ids(Chunk(tried))
          /\ cursor' = cursor \/ cursor' = [cursor EXCEPT ![s] = Max(Stamps(Chunk(tried)))]
      BY <1>6, <2>4 DEF PoisonSpan
    <3>2. \A r \in RowsAfter(s), q \in tried : r.ts <= q.ts => r \in tried
      <4>1. \A r \in RowsAfter(s) : r.ts \in Nat
        <5>1. \A r \in RowsAfter(s) : r \in RowType
          BY <1>1, BufferFields DEF RowsAfter
        <5> QED
          BY <5>1, RowFields, SmallFacts
      <4>2. backoff[s].end \in Nat
        <5>1. backoff[s] \in BackoffType
          BY <1>1 DEF TypeOK
        <5> QED
          BY <5>1, SmallFacts DEF BackoffType
      <4> QED
        BY <4>1, <4>2
    <3>3. tried \in SUBSET RowsAfter(s)
      OBVIOUS
    <3> HIDE DEF tried
    <3> QED
      BY <1>1, <1>2, <1>3, <2>2, <2>4, <3>1, <3>2, <3>3
  <2> QED
    BY <2>3, <2>4
<1> QED
  BY <1>5, <1>6 DEF Gate

LEMMA ExtractAgainFacts ==
    ASSUME TypeInv, NEW p \in Workers, ExtractAgain(p)
    PROVE  /\ SameRows /\ SmallInv'  /\ w[p].pc = "again"
           /\ \/ Quiet
              \/ Becomes(p, w[p].job, "extract", w[p].sid, RowsAfter(w[p].sid), w[p].batch)
<1> DEFINE s == w[p].sid
           rows == RowsAfter(s)
           j == [w[p] EXCEPT !.pc = "extract", !.again = TRUE, !.rows = rows]
<1>0. w[p].pc = "again"
  BY DEF ExtractAgain
<1>1. TypeOK /\ w[p].pc = "again" /\ s \in Sessions
  BY <1>0, SidFacts
<1>2. SameRows /\ SmallInv'
  BY SmallFacts DEF ExtractAgain, SameRows, files, history
<1>3. CASE ExtractLocked(s) \/ BackingOff(s)
  <2>1. w' \in [Workers -> JobType] /\ \A q \in Workers : w'[q] = w[q] \/ Rests(q)
    BY <1>1, <1>3, EndRests DEF ExtractAgain, End
  <2> QED
    BY <1>1, <1>2, <2>1 DEF Quiet
<1>4. CASE ~(ExtractLocked(s) \/ BackingOff(s))
  <2>1. rows \in SUBSET RowType
    BY <1>1, BufferFields DEF RowsAfter
  <2>2. w' = [w EXCEPT ![p].pc = "extract", ![p].again = TRUE, ![p].rows = rows]
    BY <1>4 DEF ExtractAgain
  <2> HIDE DEF rows
  <2>3. j \in JobType /\ j.job = w[p].job /\ j.pc = "extract" /\ j.sid = s /\ j.rows = rows /\ j.batch = w[p].batch
    BY <1>1, <2>1, JobFields DEF JobType, Pcs
  <2>4. w' = [w EXCEPT ![p] = j]
    BY <2>2, <1>1 DEF TypeOK
  <2> HIDE DEF j
  <2>5. Becomes(p, j.job, j.pc, j.sid, j.rows, j.batch)
    BY <1>1, <2>3, <2>4, JobBecomes
  <2> QED
    BY <1>1, <1>2, <2>3, <2>5 DEF rows
<1> QED
  BY <1>3, <1>4

LEMMA BufferBecomes ==
    ASSUME TypeOK, NEW s \in Sessions, NEW gen \in 0..MaxGen, NEW rows \in SUBSET RowType,
           buf' = [buf EXCEPT ![s] = [gen |-> gen, rows |-> rows]]
    PROVE  /\ buf' \in [Sessions -> BufferType] /\ buf'[s].rows = rows
           /\ \A t \in Sessions \ {s} : buf'[t] = buf[t]
<1>1. [gen |-> gen, rows |-> rows] \in BufferType
  BY DEF BufferType
<1> QED
  BY <1>1 DEF TypeOK

\* A row is appended to the live end of the chain, or nowhere.
LEMMA IngestFacts ==
    ASSUME TypeInv, PersistUser \/ PersistAssistant
    PROVE  \E s \in 1..sessions, row \in RowType :
              /\ row.id = appended + 1 /\ appended' = appended + 1 /\ appended' \in 0..MaxRows
              /\ ~AppendLocked(s) /\ rolled[s] = 0
              /\ buf' \in [Sessions -> BufferType] /\ buf'[s].rows = buf[s].rows \cup {row}
              /\ \A t \in Sessions \ {s} : buf'[t] = buf[t]
              /\ overrun \subseteq overrun' /\ behind \subseteq behind'
              /\ \A p \in Workers : w[p].sid = s /\ w[p].pc = "replace" => row.id \in overrun'
              /\ AlreadyPassed(s, row.ts) => row.id \in behind'
              /\ SmallInv'
              /\ UNCHANGED <<cursor, rolled, sessions, archive, marker, memory, poison, w, outran>>
<1> DEFINE s == Resolve(turn.sid)
<1>1. PICK ts \in {turn.start, now}, user \in BOOLEAN :
        /\ IngestTurn(s, ts, user)
        /\ turn.stage # "none"
        /\ turn' = NoTurn \/ turn' = [turn EXCEPT !.stage = "assistant"]
  <2>1. CASE PersistUser
    BY <2>1, Zenon DEF PersistUser
  <2>2. CASE PersistAssistant
    BY <2>2, Zenon DEF PersistAssistant
  <2> QED
    BY <2>1, <2>2
<1>2. TypeOK /\ turn.sid \in 1..sessions /\ turn.start \in 1..MaxTime /\ now \in 1..MaxTime
  <2>1. TypeOK /\ TurnInv /\ ClockInv /\ TurnSidInv
    BY SmallFacts DEF TypeInv, SmallInv
  <2>2. turn.start \in 0..MaxTime
    BY <2>1 DEF TurnInv
  <2>3. turn.start > 0 /\ turn.sid \in 1..sessions
    BY <1>1, <2>1 DEF TurnSidInv
  <2> QED
    BY <2>1, <2>2, <2>3, SmallFacts DEF ClockInv
<1>3. s \in 1..sessions /\ s \in Sessions /\ rolled[s] = 0
  <2>1. RolledInv /\ rolled \in [Sessions -> 0..MaxSessions] /\ sessions \in Sessions
    BY DEF TypeInv, TypeOK
  <2>2. s \in 1..sessions /\ rolled[s] = 0
    BY <1>2, <2>1, ResolveExists
  <2> QED
    BY <2>2, SmallFacts DEF Sessions
<1> HIDE DEF s
<1> DEFINE row == [id |-> appended + 1, ts |-> ts, user |-> user]
<1>4. appended + 1 \in 1..MaxRows /\ appended < MaxRows
  BY <1>1, SmallFacts DEF IngestTurn
<1>5. row \in RowType /\ row.id = appended + 1 /\ row.ts = ts
  BY <1>1, <1>2, <1>4 DEF RowType
<1>6. /\ ~AppendLocked(s) /\ appended' = appended + 1
      /\ buf' = [buf EXCEPT ![s].rows = buf[s].rows \cup {row}]
      /\ overrun' = IF \E p \in Workers : w[p].sid = s /\ w[p].pc = "replace"
                    THEN overrun \cup {row.id} ELSE overrun
      /\ behind' = IF AlreadyPassed(s, ts) THEN behind \cup {row.id} ELSE behind
      /\ UNCHANGED <<now, cursor, backoff, rolled, sessions, archive, marker, memory, poison, w, outran>>
  BY <1>1 DEF IngestTurn
<1>7. SmallInv'
  <2>1. ClockInv' /\ BackoffInv' /\ UNCHANGED sessions
    BY <1>6, SmallFacts DEF SmallInv, ClockInv, BackoffInv
  <2>2. TurnInv' /\ TurnSidInv'
    BY <1>1, <1>2, <2>1, SmallFacts DEF SmallInv, TurnInv, TurnSidInv, NoTurn
  <2> QED
    BY <2>1, <2>2 DEF SmallInv
<1> HIDE DEF row
<1>8. /\ buf' \in [Sessions -> BufferType] /\ buf'[s].rows = buf[s].rows \cup {row}
      /\ \A t \in Sessions \ {s} : buf'[t] = buf[t]
  <2> DEFINE rows == buf[s].rows \cup {row}
  <2>1. buf[s].gen \in 0..MaxGen /\ rows \in SUBSET RowType /\ buf[s] \in BufferType
    BY <1>2, <1>3, <1>5, BufferFields DEF TypeOK
  <2>2. [buf[s] EXCEPT !.rows = rows] = [gen |-> buf[s].gen, rows |-> rows]
    BY <2>1 DEF BufferType
  <2>3. buf' = [buf EXCEPT ![s] = [buf[s] EXCEPT !.rows = rows]]
    BY <1>6, <1>2 DEF TypeOK
  <2> HIDE DEF rows
  <2>4. /\ buf' \in [Sessions -> BufferType] /\ buf'[s].rows = rows
        /\ \A t \in Sessions \ {s} : buf'[t] = buf[t]
    BY <1>2, <1>3, <2>1, <2>2, <2>3, BufferBecomes
  <2> QED
    BY <2>4 DEF rows
<1>9. appended' \in 0..MaxRows
  BY <1>4, <1>6, SmallFacts
<1> QED
  BY <1>3, <1>5, <1>6, <1>7, <1>8, <1>9

\* archive_once puts the batch into the archive and nothing else.
LEMMA ArchiveFacts ==
    ASSUME NEW s, NEW rows, NEW gen, AppendArchive(s, rows, gen)
    PROVE  /\ archive \subseteq archive' /\ archive' \subseteq archive \cup Ids(rows)
           /\ Ids(marker[s].batch) \subseteq archive => Ids(rows) \subseteq archive'
<1>1. CASE Archived(s, rows, gen)
  <2>1. marker[s].batch = rows /\ archive' = archive
    BY <1>1 DEF Archived, BatchKey, AppendArchive
  <2> QED
    BY <2>1
<1>2. CASE ~Archived(s, rows, gen)
  BY <1>2 DEF AppendArchive
<1> QED
  BY <1>1, <1>2

LEMMA MarkerFacts ==
    ASSUME TypeOK, NEW s \in Sessions, NEW rows \in SUBSET RowType, NEW gen \in 0..MaxGen,
           WriteMarker(s, rows, gen)
    PROVE  /\ marker' \in [Sessions -> [gen : 0..MaxGen, batch : SUBSET RowType]]
           /\ marker'[s].batch = rows /\ \A t \in Sessions \ {s} : marker'[t] = marker[t]
<1>1. BatchKey(rows, gen) \in [gen : 0..MaxGen, batch : SUBSET RowType] /\ BatchKey(rows, gen).batch = rows
  BY DEF BatchKey
<1>2. marker' = [marker EXCEPT ![s] = BatchKey(rows, gen)]
  BY DEF WriteMarker
<1> QED
  BY <1>1, <1>2 DEF TypeOK

LEMMA CloseArchiveFacts ==
    ASSUME TypeInv, NEW p \in Workers, CloseArchive(p)
    PROVE  \/ Quiet
           \/ LET s == w[p].sid
              IN  /\ w[p].pc = "close" /\ ~AppendLocked(s) /\ SmallInv'
                  /\ Ids(RowsAfter(s)) \subseteq Ids(w[p].batch)
                  /\ AppendArchive(s, buf[s].rows, 0)
                  /\ \E pc \in {"closeMark", "closeConfirm"} :
                        Becomes(p, w[p].job, pc, s, buf[s].rows, w[p].batch)
                  /\ UNCHANGED <<appended, buf, cursor, rolled, sessions, marker, memory, poison,
                                 overrun, behind, outran>>
<1> DEFINE s == w[p].sid
           rows == buf[s].rows
           gen == buf[s].gen
<1>0. w[p].pc = "close" /\ ~AppendLocked(s)
  BY DEF CloseArchive
<1>1. TypeOK /\ s \in Sessions
  BY <1>0, SidFacts
<1>2. SmallInv' /\ UNCHANGED <<appended, buf, cursor, rolled, sessions, marker, memory, poison,
                               overrun, behind, outran>>
  BY SmallFacts DEF CloseArchive, history
<1>3. CASE End(p) /\ UNCHANGED archive
  <2>1. w' \in [Workers -> JobType] /\ \A q \in Workers : w'[q] = w[q] \/ Rests(q)
    BY <1>1, <1>3, EndRests DEF End
  <2> QED
    BY <1>2, <1>3, <2>1 DEF Quiet, SameRows
<1>4. CASE ~(End(p) /\ UNCHANGED archive)
  <2> DEFINE pc == IF buf[s] = Absent \/ Archived(s, rows, 0) THEN "closeConfirm" ELSE "closeMark"
             j == [w[p] EXCEPT !.rows = rows, !.gen = gen, !.pc = pc]
  <2>1. /\ Ids(RowsAfter(s)) \ Ids(w[p].batch) = {} /\ AppendArchive(s, rows, 0)
        /\ w' = [w EXCEPT ![p].rows = rows, ![p].gen = gen, ![p].pc = pc]
    BY <1>4 DEF CloseArchive
  <2>2. rows \in SUBSET RowType /\ gen \in 0..MaxGen
    BY <1>1, BufferFields
  <2>3. pc \in {"closeMark", "closeConfirm"} /\ pc \in Pcs
    BY DEF Pcs, ClosePcs
  <2> HIDE DEF rows, gen, pc
  <2>4. j \in JobType /\ j.job = w[p].job /\ j.pc = pc /\ j.sid = s /\ j.rows = rows /\ j.batch = w[p].batch
    BY <1>1, <2>2, <2>3, JobFields DEF JobType
  <2>5. w' = [w EXCEPT ![p] = j]
    BY <2>1, <1>1 DEF TypeOK
  <2> HIDE DEF j
  <2>6. Becomes(p, j.job, j.pc, j.sid, j.rows, j.batch)
    BY <1>1, <2>4, <2>5, JobBecomes
  <2> QED
    BY <1>0, <1>2, <2>1, <2>3, <2>4, <2>6 DEF rows
<1> QED
  BY <1>3, <1>4

LEMMA CloseMarkFacts ==
    ASSUME TypeInv, NEW p \in Workers, CloseMark(p)
    PROVE  LET s == w[p].sid
           IN  /\ w[p].pc = "closeMark" /\ SmallInv'
               /\ marker' \in [Sessions -> [gen : 0..MaxGen, batch : SUBSET RowType]]
               /\ marker'[s].batch = w[p].rows /\ \A t \in Sessions \ {s} : marker'[t] = marker[t]
               /\ Becomes(p, w[p].job, "closeConfirm", s, w[p].rows, w[p].batch)
               /\ UNCHANGED <<appended, buf, cursor, rolled, sessions, archive, memory, poison,
                              overrun, behind, outran>>
<1> DEFINE s == w[p].sid
<1>0. w[p].pc = "closeMark" /\ WriteMarker(s, w[p].rows, 0) /\ Go(p, "closeConfirm")
  BY DEF CloseMark
<1>1. TypeOK /\ s \in Sessions
  BY <1>0, SidFacts
<1>2. w[p].rows \in SUBSET RowType /\ 0 \in 0..MaxGen /\ "closeConfirm" \in Pcs
  BY <1>1, JobFields, ConversationAssumption DEF Pcs, ClosePcs
<1>3. Becomes(p, w[p].job, "closeConfirm", s, w[p].rows, w[p].batch)
  BY <1>0, <1>1, <1>2, GoBecomes
<1>4. /\ marker' \in [Sessions -> [gen : 0..MaxGen, batch : SUBSET RowType]]
      /\ marker'[s].batch = w[p].rows /\ \A t \in Sessions \ {s} : marker'[t] = marker[t]
  BY <1>0, <1>1, <1>2, MarkerFacts
<1> QED
  BY <1>0, <1>3, <1>4, SmallFacts DEF CloseMark, history

LEMMA CloseConfirmFacts ==
    ASSUME TypeInv, NEW p \in Workers, CloseConfirm(p)
    PROVE  \/ Quiet
           \/ /\ SameRows /\ SmallInv' /\ w[p].pc = "closeConfirm"
              /\ Becomes(p, w[p].job, "closeDelete", w[p].sid, w[p].rows, w[p].batch)
<1>1. TypeOK /\ w[p].pc = "closeConfirm" /\ SameRows /\ SmallInv'
  BY SmallFacts DEF TypeInv, CloseConfirm, SameRows, files, history
<1>2. CASE End(p)
  BY <1>1, <1>2, EndRests DEF End, Quiet
<1>3. CASE Go(p, "closeDelete")
  <2>1. "closeDelete" \in Pcs
    BY DEF Pcs, ClosePcs
  <2> QED
    BY <1>1, <1>3, <2>1, GoBecomes
<1> QED
  BY <1>2, <1>3 DEF CloseConfirm

\* The files of a session go, and the job that removed them with them.
LEMMA DeleteFacts ==
    ASSUME TypeInv, NEW p \in Workers, CloseDelete(p) \/ SeedDelete(p)
    PROVE  LET s == w[p].sid
           IN  /\ w[p].pc = (IF CloseDelete(p) THEN "closeDelete" ELSE "seedDelete")
               /\ SmallInv' /\ s \in 1..sessions
               /\ buf' \in [Sessions -> BufferType] /\ buf'[s].rows = {}
               /\ buf'[s] = Absent /\ \A t \in Sessions \ {s} : buf'[t] = buf[t]
               /\ cursor' = [cursor EXCEPT ![s] = 0]
               /\ w' \in [Workers -> JobType] /\ Rests(p) /\ \A q \in Workers : w'[q] = w[q] \/ Rests(q)
               /\ UNCHANGED <<appended, rolled, sessions, archive, marker, memory, poison,
                              overrun, behind, outran>>
<1> DEFINE s == w[p].sid
<1>0. /\ w[p].pc = (IF CloseDelete(p) THEN "closeDelete" ELSE "seedDelete")
      /\ buf' = [buf EXCEPT ![s] = Absent] /\ cursor' = [cursor EXCEPT ![s] = 0]
      /\ backoff' = [backoff EXCEPT ![s] = NoBackoff] /\ End(p)
      /\ UNCHANGED <<now, turn, appended, rolled, sessions, archive, marker, memory, poison,
                     overrun, behind, outran>>
  BY DEF CloseDelete, SeedDelete, DeleteFiles, history
<1>1. TypeOK /\ s \in Sessions /\ s \in 1..sessions
  BY <1>0, SidFacts
<1>2. SmallInv'
  <2>1. NoBackoff \in BackoffType
    BY ConversationAssumption DEF NoBackoff, BackoffType
  <2>2. BackoffInv'
    BY <1>0, <1>1, <2>1 DEF BackoffInv, TypeOK
  <2> QED
    BY <1>0, <2>2, SmallFacts
<1>3. /\ buf' \in [Sessions -> BufferType] /\ buf'[s].rows = {}
      /\ \A t \in Sessions \ {s} : buf'[t] = buf[t]
  <2>1. 0 \in 0..MaxGen /\ {} \in SUBSET RowType
    BY ConversationAssumption
  <2> QED
    BY <1>0, <1>1, <2>1, BufferBecomes DEF Absent
<1>4. buf'[s] = Absent
  BY <1>0, <1>1 DEF TypeOK
<1>5. w' \in [Workers -> JobType] /\ Rests(p) /\ \A q \in Workers : w'[q] = w[q] \/ Rests(q)
  BY <1>0, <1>1, EndRests DEF End
<1> QED
  BY <1>0, <1>1, <1>2, <1>3, <1>4, <1>5

\* A fold starts on rows the cursor has passed, under the compaction lock.
LEMMA StartFoldFacts ==
    ASSUME TypeInv, NEW p \in Workers,
           \/ p = "supervisor" /\ \E s \in Sessions : StartCascade(s)
           \/ p = "request" /\ StartTurnFold
           \/ RollFold(p)
    PROVE  \/ Quiet
           \/ /\ SameRows /\ SmallInv'
              /\ \E s \in 1..sessions, job \in Jobs, batch \in SUBSET RowType :
                    /\ \A r \in batch : r \in buf[s].rows /\ r.ts <= cursor[s]
                    /\ ~CompactionLocked(p, s) /\ cursor[s] # 0
                    /\ Becomes(p, job, "summarise", s, {}, batch)
<1>1. TypeOK /\ "cascade" \in Jobs /\ "fold" \in Jobs /\ w[p].job \in Jobs
  BY JobFields DEF TypeInv, Jobs
<1>2. SameRows /\ SmallInv'
  BY SmallFacts DEF StartCascade, StartTurnFold, RollFold, SameRows, files, history
<1>3. ASSUME NEW s \in Sessions, NEW age, NEW keep, NEW job \in Jobs, NEW cascade,
             CanFold(p, s, Removable(s, age, keep), cascade), BeginFold(p, job, s, Removable(s, age, keep))
      PROVE  \E z \in 1..sessions, j \in Jobs, batch \in SUBSET RowType :
                    /\ \A r \in batch : r \in buf[z].rows /\ r.ts <= cursor[z]
                    /\ ~CompactionLocked(p, z) /\ cursor[z] # 0
                    /\ Becomes(p, j, "summarise", z, {}, batch)
  <2> DEFINE batch == Removable(s, age, keep)
  <2>1. s \in 1..sessions
    <3>1. cursor[s] # 0
      BY <1>3 DEF CanFold
    <3> QED
      BY <3>1, SmallFacts DEF TypeInv, FreshInv, Sessions
  <2>2. \A r \in batch : r \in buf[s].rows /\ r.ts <= cursor[s]
    BY DEF Removable
  <2>3. batch \in SUBSET RowType
    BY <1>1, <2>2, BufferFields
  <2>4. ~CompactionLocked(p, s) /\ cursor[s] # 0 /\ buf[s].gen < MaxGen /\ BeginFold(p, job, s, batch)
    BY <1>3 DEF CanFold
  <2> HIDE DEF batch
  <2>5. Becomes(p, job, "summarise", s, {}, batch)
    BY <1>1, <2>3, <2>4, FoldBecomes
  <2> QED
    BY <2>1, <2>2, <2>3, <2>4, <2>5
<1>4. CASE p = "supervisor" /\ \E s \in Sessions : StartCascade(s)
  <2>1. PICK s \in Sessions : StartCascade(s)
    BY <1>4
  <2>2. /\ CanFold(p, s, Removable(s, StaleAge, KeepTail), TRUE)
        /\ BeginFold(p, "cascade", s, Removable(s, StaleAge, KeepTail))
    BY <1>4, <2>1 DEF StartCascade
  <2> QED
    BY <1>1, <1>2, <1>3, <2>2
<1>5. CASE p = "request" /\ StartTurnFold
  <2> DEFINE s == turn.sid
  <2>1. /\ CanFold(p, s, Removable(s, 0, KeepTail), FALSE) /\ turn.stage = "reply"
        /\ BeginFold(p, "fold", s, Removable(s, 0, KeepTail))
    BY <1>5 DEF StartTurnFold
  <2>2. s \in Sessions
    BY <2>1, SmallFacts DEF SmallInv, TurnSidInv, Sessions
  <2> HIDE DEF s
  <2> QED
    BY <1>1, <1>2, <1>3, <2>1, <2>2
<1>6. CASE RollFold(p)
  <2> DEFINE s == w[p].sid
             launch == w[p].job = "launch"
             age == IF launch THEN 0 ELSE StaleAge
             keep == IF launch THEN 0 ELSE KeepTail
  <2>1. w[p].pc = "fold" /\ w[p].job # "close"
    BY <1>6 DEF RollFold, TypeInv, StageInv, QuietPcs
  <2>2. s \in Sessions
    BY <2>1, SidFacts
  <2>3. CASE Go(p, "seed")
    <3>1. w' \in [Workers -> JobType] /\ \A q \in Workers : w'[q] = w[q] \/ Rests(q)
      BY <1>1, <2>1, <2>3, GoRests DEF QuietPcs
    <3> QED
      BY <1>2, <3>1 DEF Quiet
  <2>4. CASE ~Go(p, "seed")
    <3>1. CanFold(p, s, Removable(s, age, keep), ~launch) /\ BeginFold(p, w[p].job, s, Removable(s, age, keep))
      BY <1>6, <2>4 DEF RollFold
    <3> HIDE DEF s, age, keep, launch
    <3> QED
      BY <1>1, <1>2, <1>3, <2>2, <3>1
  <2> QED
    BY <2>3, <2>4
<1> QED
  BY <1>4, <1>5, <1>6

LEMMA FoldArchiveFacts ==
    ASSUME TypeInv, NEW p \in Workers, FoldArchive(p)
    PROVE  LET s == w[p].sid
           IN  /\ w[p].pc = "summarise" /\ SmallInv' /\ s \in Sessions
               /\ AppendArchive(s, w[p].batch, w[p].gen)
               /\ \E pc \in {"reread", "mark"} : Becomes(p, w[p].job, pc, s, w[p].rows, w[p].batch)
               /\ UNCHANGED <<appended, buf, cursor, rolled, sessions, marker, memory, poison,
                              overrun, behind, outran>>
<1>0. w[p].pc = "summarise" /\ AppendArchive(w[p].sid, w[p].batch, w[p].gen)
  BY DEF FoldArchive
<1>1. TypeOK /\ w[p].sid \in Sessions
  BY <1>0, SidFacts
<1>2. PICK pc \in {"reread", "mark"} : Go(p, pc)
  BY DEF FoldArchive
<1>3. pc \in Pcs
  BY DEF Pcs, FoldPcs
<1>4. Becomes(p, w[p].job, pc, w[p].sid, w[p].rows, w[p].batch)
  BY <1>1, <1>2, <1>3, GoBecomes
<1> QED
  BY <1>0, <1>1, <1>4, SmallFacts DEF FoldArchive, history

\* The marker of an archived batch, of a fold or of a rollover.
LEMMA BatchMarkFacts ==
    ASSUME TypeInv, NEW p \in Workers, FoldMark(p) \/ SeedMark(p)
    PROVE  LET s == w[p].sid
           IN  /\ SmallInv'
               /\ marker' \in [Sessions -> [gen : 0..MaxGen, batch : SUBSET RowType]]
               /\ marker'[s].batch = w[p].batch /\ \A t \in Sessions \ {s} : marker'[t] = marker[t]
               /\ \/ w[p].pc = "mark" /\ Becomes(p, w[p].job, "reread", s, w[p].rows, w[p].batch)
                  \/ w[p].pc = "seedMark" /\ Becomes(p, w[p].job, "seedTrim", s, w[p].rows, w[p].batch)
               /\ UNCHANGED <<appended, buf, cursor, rolled, sessions, archive, memory, poison,
                              overrun, behind, outran>>
<1> DEFINE s == w[p].sid
<1>0. /\ \/ w[p].pc = "mark" /\ Go(p, "reread")
         \/ w[p].pc = "seedMark" /\ Go(p, "seedTrim")
      /\ WriteMarker(s, w[p].batch, w[p].gen)
  BY DEF FoldMark, SeedMark
<1>1. TypeOK /\ s \in Sessions
  BY <1>0, SidFacts
<1>2. w[p].batch \in SUBSET RowType /\ w[p].gen \in 0..MaxGen /\ "reread" \in Pcs /\ "seedTrim" \in Pcs
  BY <1>1, JobFields DEF Pcs, FoldPcs, SeedPcs
<1>3. \/ w[p].pc = "mark" /\ Becomes(p, w[p].job, "reread", s, w[p].rows, w[p].batch)
      \/ w[p].pc = "seedMark" /\ Becomes(p, w[p].job, "seedTrim", s, w[p].rows, w[p].batch)
  BY <1>0, <1>1, <1>2, GoBecomes
<1>4. /\ marker' \in [Sessions -> [gen : 0..MaxGen, batch : SUBSET RowType]]
      /\ marker'[s].batch = w[p].batch /\ \A t \in Sessions \ {s} : marker'[t] = marker[t]
  BY <1>0, <1>1, <1>2, MarkerFacts
<1>5. SmallInv' /\ UNCHANGED <<appended, buf, cursor, rolled, sessions, archive, memory, poison,
                               overrun, behind, outran>>
  BY SmallFacts DEF FoldMark, SeedMark, history
<1> QED
  BY <1>3, <1>4, <1>5

LEMMA FoldRereadFacts ==
    ASSUME TypeInv, NEW p \in Workers, FoldReread(p)
    PROVE  /\ SameRows /\ SmallInv' /\ w[p].pc = "reread"
           /\ Becomes(p, w[p].job, "replace", w[p].sid,
                      {r \in buf[w[p].sid].rows : r.id \notin Ids(w[p].batch)}, w[p].batch)
<1> DEFINE s == w[p].sid
           rows == {r \in buf[s].rows : r.id \notin Ids(w[p].batch)}
           j == [w[p] EXCEPT !.pc = "replace", !.rows = rows]
<1>0. w[p].pc = "reread" /\ w' = [w EXCEPT ![p].pc = "replace", ![p].rows = rows]
  BY DEF FoldReread
<1>1. TypeOK /\ s \in Sessions
  BY <1>0, SidFacts
<1>2. rows \in SUBSET RowType /\ "replace" \in Pcs
  BY <1>1, BufferFields DEF Pcs, FoldPcs
<1>3. SameRows /\ SmallInv'
  BY SmallFacts DEF FoldReread, SameRows, files, history
<1> HIDE DEF rows
<1>4. j \in JobType /\ j.job = w[p].job /\ j.pc = "replace" /\ j.sid = s /\ j.rows = rows /\ j.batch = w[p].batch
  BY <1>1, <1>2, JobFields DEF JobType
<1>5. w' = [w EXCEPT ![p] = j]
  BY <1>0, <1>1 DEF TypeOK
<1> HIDE DEF j
<1>6. Becomes(p, j.job, j.pc, j.sid, j.rows, j.batch)
  BY <1>1, <1>4, <1>5, JobBecomes
<1> QED
  BY <1>0, <1>3, <1>4, <1>6 DEF rows

LEMMA FoldReplaceFacts ==
    ASSUME TypeInv, NEW p \in Workers, FoldReplace(p)
    PROVE  LET s == w[p].sid
           IN  /\ w[p].pc = "replace" /\ SmallInv' /\ s \in 1..sessions
               /\ buf' \in [Sessions -> BufferType] /\ buf'[s].rows = w[p].rows
               /\ \A t \in Sessions \ {s} : buf'[t] = buf[t]
               /\ w' \in [Workers -> JobType] /\ Rests(p) /\ \A q \in Workers : w'[q] = w[q] \/ Rests(q)
               /\ UNCHANGED <<appended, cursor, rolled, sessions, archive, marker, memory, poison,
                              overrun, behind, outran>>
<1> DEFINE s == w[p].sid
<1>0. w[p].pc = "replace" /\ buf' = [buf EXCEPT ![s] = [gen |-> w[p].gen, rows |-> w[p].rows]] /\ AfterFold(p)
  BY DEF FoldReplace
<1>1. TypeOK /\ s \in Sessions /\ s \in 1..sessions
  BY <1>0, SidFacts
<1>2. /\ buf' \in [Sessions -> BufferType] /\ buf'[s].rows = w[p].rows
      /\ \A t \in Sessions \ {s} : buf'[t] = buf[t]
  BY <1>0, <1>1, JobFields, BufferBecomes
<1>3. w' \in [Workers -> JobType] /\ Rests(p) /\ \A q \in Workers : w'[q] = w[q] \/ Rests(q)
  BY <1>0, <1>1, AfterFoldRests
<1> QED
  BY <1>0, <1>1, <1>2, <1>3, SmallFacts DEF FoldReplace, history

\* A rollover takes the locks and splits the rows in what it carries and
\* what it archives.
LEMMA SeedArchiveFacts ==
    ASSUME TypeInv, NEW p \in Workers, SeedArchive(p)
    PROVE  \/ Quiet
           \/ LET s == w[p].sid
              IN  /\ w[p].pc = "seed" /\ SmallInv' /\ s \in Sessions
                  /\ ~CompactionLocked(p, s) /\ ~RegistryLocked /\ ~AppendLocked(s)
                  /\ \E rows, out \in SUBSET buf[s].rows, pc \in {"seedNew", "seedMark", "seedTrim"} :
                        /\ rows \cup out = buf[s].rows
                        /\ pc = "seedNew" => out = {}
                        /\ AppendArchive(s, out, buf[s].gen)
                        /\ outran' = outran \cup (Ids(out \cap RowsAfter(s)) \ (memory \cup poison))
                        /\ Becomes(p, w[p].job, pc, s, rows, out)
                  /\ UNCHANGED <<appended, buf, cursor, rolled, sessions, marker, memory, poison,
                                 overrun, behind>>
<1> DEFINE s == w[p].sid
           rows == SeedRows(p)
           out == NotCarried(p)
           gen == buf[s].gen
           pc == IF out = {} THEN "seedNew" ELSE IF Archived(s, out, gen) THEN "seedTrim" ELSE "seedMark"
           j == [w[p] EXCEPT !.pc = pc, !.rows = rows, !.batch = out, !.gen = gen]
<1>0. w[p].pc = "seed"
  BY DEF SeedArchive
<1>1. TypeOK /\ s \in Sessions
  BY <1>0, SidFacts
<1>2. SmallInv' /\ UNCHANGED <<appended, buf, cursor, rolled, sessions, marker, memory, poison,
                               overrun, behind>>
  BY SmallFacts DEF SeedArchive
<1>3. CASE End(p) /\ UNCHANGED <<archive, outran>>
  <2>1. w' \in [Workers -> JobType] /\ \A q \in Workers : w'[q] = w[q] \/ Rests(q)
    BY <1>1, <1>3, EndRests DEF End
  <2> QED
    BY <1>2, <1>3, <2>1 DEF Quiet, SameRows
<1>4. CASE ~(End(p) /\ UNCHANGED <<archive, outran>>)
  <2>1. /\ ~CompactionLocked(p, s) /\ ~RegistryLocked /\ ~AppendLocked(s)
        /\ AppendArchive(s, out, gen)
        /\ outran' = outran \cup (Ids(out \cap RowsAfter(s)) \ (memory \cup poison))
        /\ w' = [w EXCEPT ![p].pc = pc, ![p].rows = rows, ![p].batch = out, ![p].gen = gen]
    BY <1>4 DEF SeedArchive
  <2>2. rows \in SUBSET buf[s].rows /\ out \in SUBSET buf[s].rows /\ rows \cup out = buf[s].rows
    BY DEF SeedRows, NotCarried, Newest
  <2>3. rows \in SUBSET RowType /\ out \in SUBSET RowType /\ gen \in 0..MaxGen
    BY <1>1, <2>2, BufferFields
  <2>4. pc \in {"seedNew", "seedMark", "seedTrim"} /\ pc \in Pcs /\ (pc = "seedNew" => out = {})
    BY DEF Pcs, SeedPcs
  <2> HIDE DEF rows, out, gen, pc
  <2>5. j \in JobType /\ j.job = w[p].job /\ j.pc = pc /\ j.sid = s /\ j.rows = rows /\ j.batch = out
    BY <1>1, <2>3, <2>4, JobFields DEF JobType
  <2>6. w' = [w EXCEPT ![p] = j]
    BY <2>1, <1>1 DEF TypeOK
  <2> HIDE DEF j
  <2>7. Becomes(p, j.job, j.pc, j.sid, j.rows, j.batch)
    BY <1>1, <2>5, <2>6, JobBecomes
  <2>8. Becomes(p, w[p].job, pc, s, rows, out)
    BY <2>5, <2>7
  <2> QED
    BY <1>0, <1>1, <1>2, <2>1, <2>2, <2>4, <2>8 DEF gen
<1> QED
  BY <1>3, <1>4

LEMMA SeedTrimFacts ==
    ASSUME TypeInv, NEW p \in Workers, SeedTrim(p)
    PROVE  LET s == w[p].sid
           IN  /\ w[p].pc = "seedTrim" /\ SmallInv' /\ s \in 1..sessions
               /\ buf' \in [Sessions -> BufferType] /\ buf'[s].rows = w[p].rows
               /\ \A t \in Sessions \ {s} : buf'[t] = buf[t]
               /\ Becomes(p, w[p].job, "seedNew", s, w[p].rows, w[p].batch)
               /\ UNCHANGED <<appended, cursor, rolled, sessions, archive, marker, memory, poison,
                              overrun, behind, outran>>
<1> DEFINE s == w[p].sid
<1>0. w[p].pc = "seedTrim" /\ buf' = [buf EXCEPT ![s] = [gen |-> w[p].gen, rows |-> w[p].rows]] /\ Go(p, "seedNew")
  BY DEF SeedTrim
<1>1. TypeOK /\ s \in Sessions /\ s \in 1..sessions
  BY <1>0, SidFacts
<1>2. /\ buf' \in [Sessions -> BufferType] /\ buf'[s].rows = w[p].rows
      /\ \A t \in Sessions \ {s} : buf'[t] = buf[t]
  BY <1>0, <1>1, JobFields, BufferBecomes
<1>3. "seedNew" \in Pcs
  BY DEF Pcs, SeedPcs
<1>4. Becomes(p, w[p].job, "seedNew", s, w[p].rows, w[p].batch)
  BY <1>0, <1>1, <1>3, GoBecomes
<1> QED
  BY <1>0, <1>1, <1>2, <1>4, SmallFacts DEF SeedTrim, history

LEMMA SeedNewFacts ==
    ASSUME TypeInv, NEW p \in Workers, SeedNew(p)
    PROVE  LET s == w[p].sid
               new == sessions + 1
           IN  /\ w[p].pc = "seedNew" /\ SmallInv' /\ s \in 1..sessions
               /\ new \in Sessions /\ sessions' = new
               /\ buf' \in [Sessions -> BufferType] /\ buf'[new].rows = w[p].rows
               /\ \A t \in Sessions \ {new} : buf'[t] = buf[t]
               /\ cursor' = [cursor EXCEPT ![new] = cursor[s]]
               /\ Becomes(p, w[p].job, "seedPoint", s, w[p].rows, w[p].batch)
               /\ UNCHANGED <<appended, rolled, archive, marker, memory, poison, overrun, behind, outran>>
<1> DEFINE s == w[p].sid
           new == sessions + 1
<1>0. /\ w[p].pc = "seedNew" /\ sessions < MaxSessions /\ sessions' = new
      /\ buf' = [buf EXCEPT ![new] = [gen |-> w[p].gen, rows |-> w[p].rows]]
      /\ cursor' = [cursor EXCEPT ![new] = cursor[s]] /\ Go(p, "seedPoint")
  BY DEF SeedNew
<1>1. TypeOK /\ s \in Sessions /\ s \in 1..sessions
  BY <1>0, SidFacts
<1>2. new \in Sessions
  BY <1>0, SmallFacts DEF Sessions
<1>3. /\ buf' \in [Sessions -> BufferType] /\ buf'[new].rows = w[p].rows
      /\ \A t \in Sessions \ {new} : buf'[t] = buf[t]
  BY <1>0, <1>1, <1>2, JobFields, BufferBecomes
<1>4. "seedPoint" \in Pcs
  BY DEF Pcs, SeedPcs
<1>5. Becomes(p, w[p].job, "seedPoint", s, w[p].rows, w[p].batch)
  BY <1>0, <1>1, <1>4, GoBecomes
<1>6. UNCHANGED <<now, turn, appended, backoff, rolled, archive, marker, memory, poison, overrun, behind, outran>>
  BY DEF SeedNew, history
<1>7. SmallInv'
  BY <1>0, <1>6, SmallFacts DEF SmallInv, ClockInv, TurnInv, BackoffInv, TurnSidInv
<1> QED
  BY <1>0, <1>1, <1>2, <1>3, <1>5, <1>6, <1>7

LEMMA SeedPointFacts ==
    ASSUME TypeInv, NEW p \in Workers, SeedPoint(p)
    PROVE  /\ w[p].pc = "seedPoint" /\ SmallInv' /\ w[p].sid \in 1..sessions
           /\ rolled' = [rolled EXCEPT ![w[p].sid] = sessions]
           /\ Becomes(p, w[p].job, "seedDelete", w[p].sid, w[p].rows, w[p].batch)
           /\ UNCHANGED <<appended, buf, cursor, sessions, archive, marker, memory, poison,
                          overrun, behind, outran>>
<1>0. w[p].pc = "seedPoint" /\ rolled' = [rolled EXCEPT ![w[p].sid] = sessions] /\ Go(p, "seedDelete")
  BY DEF SeedPoint
<1>1. TypeOK /\ w[p].sid \in 1..sessions
  BY <1>0, SidFacts
<1>2. "seedDelete" \in Pcs
  BY DEF Pcs
<1>3. Becomes(p, w[p].job, "seedDelete", w[p].sid, w[p].rows, w[p].batch)
  BY <1>0, <1>1, <1>2, GoBecomes
<1> QED
  BY <1>0, <1>1, <1>3, SmallFacts DEF SeedPoint, history

LEMMA CloseBeginsFacts ==
    ASSUME TypeInv, NEW p \in Workers, ExtractEnds(p), w[p].job = "close"
    PROVE  /\ SameRows /\ SmallInv' /\ w[p].pc = "extract" /\ w[p].rows = {}
           /\ Becomes(p, "close", "close", w[p].sid, w[p].rows, w[p].batch)
<1>1. TypeOK /\ w[p].pc = "extract" /\ w[p].rows = {} /\ "close" \in Pcs
  BY DEF TypeInv, ExtractEnds, Pcs
<1>2. w' = [w EXCEPT ![p].pc = "close"]
  <2>1. w' = [w EXCEPT ![p] = [w[p] EXCEPT !.pc = "close"]]
    BY DEF ExtractEnds, AfterEnd
  <2> QED
    BY <2>1, <1>1 DEF TypeOK
<1>3. Becomes(p, w[p].job, "close", w[p].sid, w[p].rows, w[p].batch)
  BY <1>1, <1>2, GoBecomes DEF Go
<1> QED
  BY <1>1, <1>3, SmallFacts DEF ExtractEnds, SameRows, files, history

-----------------------------------------------------------------------------
(* The steps, and the type invariant. *)

\* A worker starts to fold.
StartFold(p) ==
    \/ p = "supervisor" /\ \E s \in Sessions : StartCascade(s)
    \/ p = "request" /\ StartTurnFold
    \/ RollFold(p)

\* Some row, or what is known of it, changes, or a worker takes rows.
Works(p) ==
    \/ \E job \in Jobs, s \in Sessions : StartExtract(p, job, s)
    \/ ChunkCommitted(p) \/ (ExtractEnds(p) /\ w[p].job = "close") \/ Gate(p) \/ ExtractAgain(p)
    \/ CloseArchive(p) \/ CloseMark(p) \/ CloseConfirm(p) \/ CloseDelete(p)
    \/ StartFold(p) \/ FoldArchive(p) \/ FoldMark(p) \/ FoldReread(p) \/ FoldReplace(p)
    \/ SeedArchive(p) \/ SeedMark(p) \/ SeedTrim(p) \/ SeedNew(p) \/ SeedPoint(p) \/ SeedDelete(p)

LEMMA Steps ==
    ASSUME TypeInv, [Next]_vars
    PROVE  \/ Quiet \/ PersistUser \/ PersistAssistant
           \/ \E p \in Workers : Works(p)
<1>1. CASE UNCHANGED vars
  <2>1. SameRows /\ SmallInv' /\ UNCHANGED w
    BY <1>1, SmallFacts DEF vars, SameRows, files, history
  <2>2. w' \in [Workers -> JobType]
    BY <2>1 DEF TypeInv, TypeOK
  <2> QED
    BY <2>1, <2>2 DEF Quiet
<1>2. CASE Tick \/ Crash \/ PersistFails \/ (\E s \in Sessions : StartTurn(s))
  <2>1. "request" \in Workers
    BY DEF Workers
  <2> QED
    BY <1>2, <2>1, QuietFacts
<1>3. CASE (\E s \in Sessions : StartCascade(s)) \/ StartTurnFold
  BY <1>3 DEF Works, StartFold, Workers
<1>4. ASSUME NEW p \in Workers, Extract(p)
      PROVE  Quiet \/ Works(p)
  <2>1. CASE ChunkDeferred(p) \/ ChunkFailed(p) \/ (ExtractEnds(p) /\ w[p].job # "close")
    BY <2>1, QuietFacts
  <2>2. ASSUME NEW job \in {"snapshot", "finalize", "weekly", "close", "launch"}, NEW s \in Sessions,
               StartExtract(p, job, s)
        PROVE  Works(p)
    <3>1. job \in Jobs
      BY DEF Jobs
    <3> QED
      BY <2>2, <3>1 DEF Works
  <2>3. CASE ChunkCommitted(p) \/ (ExtractEnds(p) /\ w[p].job = "close") \/ Gate(p) \/ ExtractAgain(p)
    BY <2>3 DEF Works
  <2> QED
    BY <1>4, <2>1, <2>2, <2>3 DEF Extract
<1>5. ASSUME NEW p \in Workers, Close(p) \/ Fold(p) \/ Seed(p) \/ WriteFails(p)
      PROVE  Quiet \/ Works(p)
  <2>1. CASE WriteFails(p) \/ FoldDeferred(p)
    BY <2>1, QuietFacts
  <2>2. CASE ~(WriteFails(p) \/ FoldDeferred(p))
    BY <1>5, <2>2 DEF Close, Fold, Seed, Works, StartFold
  <2> QED
    BY <2>1, <2>2
<1> QED
  BY <1>1, <1>2, <1>3, <1>4, <1>5 DEF Next, Chat

\* The parts of the invariant that are about the jobs.
JobInv == SidInv /\ StageInv /\ JobIdsInv

LEMMA JobAfter ==
    ASSUME TypeInv, NEW p \in Workers, NEW job, NEW pc, NEW sid, NEW rows, NEW batch,
           Becomes(p, job, pc, sid, rows, batch),
           sessions' \in Nat, sessions <= sessions', appended' = appended,
           sid \in 1..sessions, pc = "seedPoint" => sid < sessions',
           pc \in QuietPcs => job # "close",
           Ids(rows) \subseteq 1..appended, Ids(batch) \subseteq 1..appended
    PROVE  JobInv'
<1>1. SidInv'
  <2>1. \A q \in Workers \ {p} : w'[q].pc # "idle" => w'[q].sid \in 1..sessions'
    BY SmallFacts DEF Becomes, TypeInv, SidInv
  <2>2. \A q \in Workers \ {p} : w'[q].pc = "seedPoint" => w'[q].sid < sessions'
    <3> SUFFICES ASSUME NEW q \in Workers \ {p}, w'[q].pc = "seedPoint" PROVE w'[q].sid < sessions'
      OBVIOUS
    <3>1. w'[q] = w[q]
      BY DEF Becomes
    <3>2. w[q].sid < sessions /\ w[q].sid \in 1..sessions
      BY <3>1 DEF TypeInv, SidInv
    <3> QED
      BY <3>1, <3>2, SmallFacts
  <2>3. sid \in 1..sessions'
    BY SmallFacts
  <2> QED
    BY <2>1, <2>2, <2>3 DEF Becomes, SidInv
<1>2. StageInv'
  BY DEF Becomes, TypeInv, StageInv
<1>3. JobIdsInv'
  BY DEF Becomes, TypeInv, JobIdsInv
<1> QED
  BY <1>1, <1>2, <1>3 DEF JobInv

LEMMA JobAtRest ==
    ASSUME TypeInv, \A q \in Workers : w'[q] = w[q] \/ Rests(q),
           sessions' = sessions, appended' = appended
    PROVE  JobInv'
<1>1. SidInv'
  BY DEF TypeInv, SidInv, Rests, QuietPcs
<1>2. StageInv'
  BY DEF TypeInv, StageInv, Rests
<1>3. JobIdsInv'
  BY DEF TypeInv, JobIdsInv, Rests, Ids
<1> QED
  BY <1>1, <1>2, <1>3 DEF JobInv

\* The parts of the invariant that are about the files.
FilesInv ==
    /\ appended \in 0..MaxRows
    /\ buf \in [Sessions -> BufferType]
    /\ cursor \in [Sessions -> 0..MaxTime]
    /\ rolled \in [Sessions -> 0..MaxSessions] /\ sessions \in Sessions
    /\ archive \cup memory \cup poison \subseteq 1..appended
    /\ marker \in [Sessions -> [gen : 0..MaxGen, batch : SUBSET RowType]]
    /\ FreshInv /\ RolledInv /\ BufferIdsInv

LEMMA TypeParts ==
    /\ TypeInv => FilesInv /\ SmallInv /\ JobInv /\ w \in [Workers -> JobType]
    /\ FilesInv' /\ SmallInv' /\ JobInv' /\ w' \in [Workers -> JobType] => TypeInv'
<1>1. TypeInv => FilesInv /\ SmallInv /\ JobInv /\ w \in [Workers -> JobType]
  BY DEF TypeInv, TypeOK, FilesInv, SmallInv, JobInv, ClockInv, TurnInv, BackoffInv
<1>2. FilesInv' /\ SmallInv' /\ JobInv' /\ w' \in [Workers -> JobType] => TypeInv'
  BY DEF TypeInv, TypeOK, FilesInv, SmallInv, JobInv, ClockInv, TurnInv, BackoffInv
<1> QED
  BY <1>1, <1>2

LEMMA FilesSame ==
    ASSUME TypeInv, UNCHANGED <<appended, buf, rolled, sessions>>,
           cursor' = cursor
             \/ \E s \in 1..sessions, x \in 0..MaxTime : cursor' = [cursor EXCEPT ![s] = x],
           archive' \cup memory' \cup poison' \subseteq 1..appended,
           marker' \in [Sessions -> [gen : 0..MaxGen, batch : SUBSET RowType]]
    PROVE  FilesInv'
<1>1. FilesInv
  BY TypeParts
<1>2. cursor' \in [Sessions -> 0..MaxTime] /\ \A s \in Sessions : s > sessions => cursor'[s] = 0
  <2>1. CASE cursor' = cursor
    BY <1>1, <2>1 DEF FilesInv, FreshInv
  <2>2. ASSUME NEW s \in 1..sessions, NEW x \in 0..MaxTime, cursor' = [cursor EXCEPT ![s] = x]
        PROVE  cursor' \in [Sessions -> 0..MaxTime] /\ \A t \in Sessions : t > sessions => cursor'[t] = 0
    <3>1. \A t \in Sessions : t > sessions => t # s
      BY SmallFacts DEF Sessions
    <3> QED
      BY <1>1, <2>2, <3>1 DEF FilesInv, FreshInv
  <2> QED
    BY <2>1, <2>2
<1>3. FreshInv' /\ RolledInv' /\ BufferIdsInv'
  BY <1>1, <1>2 DEF FilesInv, FreshInv, RolledInv, BufferIdsInv
<1> QED
  BY <1>1, <1>2, <1>3 DEF FilesInv

\* A session that exists gets other rows.
LEMMA FilesRewritten ==
    ASSUME TypeInv, UNCHANGED <<rolled, sessions, archive, memory, poison, marker>>,
           appended' \in 0..MaxRows, appended <= appended',
           NEW s \in 1..sessions, buf' \in [Sessions -> BufferType],
           \A t \in Sessions \ {s} : buf'[t] = buf[t],
           Ids(buf'[s].rows) \subseteq 1..appended',
           cursor' = cursor \/ cursor' = [cursor EXCEPT ![s] = 0]
    PROVE  FilesInv'
<1>1. FilesInv /\ s \in Sessions /\ sessions \in Nat
  BY TypeParts, SmallFacts DEF Sessions
<1>2. \A t \in Sessions : t > sessions => t # s
  BY SmallFacts DEF Sessions
<1>3. cursor' \in [Sessions -> 0..MaxTime] /\ FreshInv'
  <2>1. 0 \in 0..MaxTime
    BY SmallFacts
  <2> QED
    BY <1>1, <1>2, <2>1 DEF FilesInv, FreshInv
<1>4. BufferIdsInv'
  BY <1>1, SmallFacts DEF FilesInv, BufferIdsInv
<1>5. archive' \cup memory' \cup poison' \subseteq 1..appended'
  BY <1>1, SmallFacts DEF FilesInv
<1> QED
  BY <1>1, <1>3, <1>4, <1>5 DEF FilesInv, RolledInv

LEMMA RowIds ==
    ASSUME TypeInv
    PROVE  /\ \A s \in Sessions : \A rows \in SUBSET buf[s].rows : Ids(rows) \subseteq 1..appended
           /\ \A p \in Workers : \A rows \in SUBSET w[p].rows : Ids(rows) \subseteq 1..appended
           /\ \A p \in Workers : \A rows \in SUBSET w[p].batch : Ids(rows) \subseteq 1..appended
           /\ archive \cup memory \cup poison \subseteq 1..appended
BY DEF TypeInv, TypeOK, BufferIdsInv, JobIdsInv, Ids

LEMMA QuietTypes ==
    ASSUME TypeInv, Quiet
    PROVE  TypeInv'
<1>1. FilesInv'
  BY TypeParts, FilesSame, RowIds DEF Quiet, SameRows, FilesInv
<1>2. JobInv'
  BY JobAtRest DEF Quiet, SameRows
<1> QED
  BY <1>1, <1>2, TypeParts DEF Quiet

LEMMA PersistTypes ==
    ASSUME TypeInv, PersistUser \/ PersistAssistant
    PROVE  TypeInv'
<1>1. PICK s \in 1..sessions, row \in RowType :
        /\ row.id = appended + 1 /\ appended' = appended + 1 /\ appended' \in 0..MaxRows
        /\ buf' \in [Sessions -> BufferType] /\ buf'[s].rows = buf[s].rows \cup {row}
        /\ \A t \in Sessions \ {s} : buf'[t] = buf[t]
        /\ SmallInv'
        /\ UNCHANGED <<cursor, rolled, sessions, archive, marker, memory, poison, w>>
  BY IngestFacts
<1>2. s \in Sessions /\ appended \in Nat
  BY SmallFacts DEF Sessions
<1>3. Ids(buf'[s].rows) \subseteq 1..appended'
  <2>1. Ids(buf[s].rows) \subseteq 1..appended
    BY <1>2, RowIds
  <2> QED
    BY <1>1, <1>2, <2>1 DEF Ids
<1>4. FilesInv'
  <2>1. appended <= appended' /\ UNCHANGED <<rolled, sessions, archive, memory, poison, marker>> /\ cursor' = cursor
    BY <1>1, <1>2
  <2> QED
    BY <2>1, <1>1, <1>3, FilesRewritten
<1>5. JobInv'
  <2>1. SidInv /\ StageInv /\ JobIdsInv
    BY DEF TypeInv
  <2> QED
    BY <1>1, <1>2, <2>1 DEF JobInv, SidInv, StageInv, JobIdsInv
<1>6. w' \in [Workers -> JobType]
  BY <1>1, TypeParts
<1> QED
  BY <1>1, <1>4, <1>5, <1>6, TypeParts

\* A pass: what it reads, extracts or sets aside was persisted.
LEMMA ExtractTypes ==
    ASSUME TypeInv, NEW p \in Workers,
           \/ \E job \in Jobs, s \in Sessions : StartExtract(p, job, s)
           \/ ChunkCommitted(p) \/ (ExtractEnds(p) /\ w[p].job = "close") \/ Gate(p) \/ ExtractAgain(p)
    PROVE  TypeInv'
<1>a. FilesInv /\ TypeOK
  BY TypeParts DEF TypeInv
<1>b. SameRows => FilesInv'
  BY <1>a, FilesSame, RowIds DEF SameRows, FilesInv
<1>1. ASSUME NEW job \in Jobs, NEW s \in Sessions, StartExtract(p, job, s) PROVE TypeInv'
  <2>1. /\ SameRows /\ SmallInv' /\ s \in 1..sessions
        /\ \/ job = "finalize" /\ Becomes(p, job, "gate", s, {}, {})
           \/ Becomes(p, job, "extract", s, RowsAfter(s), IF job = "close" THEN RowsAfter(s) ELSE {})
    BY <1>1, StartExtractFacts
  <2>2. sessions' = sessions /\ appended' = appended /\ sessions \in Nat
    BY <2>1, SmallFacts DEF SameRows
  <2>3. Ids({}) \subseteq 1..appended /\ Ids(RowsAfter(s)) \subseteq 1..appended
    <3>1. RowsAfter(s) \subseteq buf[s].rows
      BY DEF RowsAfter
    <3> QED
      BY <3>1, RowIds DEF Ids
  <2>4. CASE job = "finalize" /\ Becomes(p, job, "gate", s, {}, {})
    <3>1. JobInv'
      BY <2>1, <2>2, <2>3, <2>4, JobAfter
    <3> QED
      BY <1>b, <2>1, <2>4, <3>1, TypeParts DEF Becomes
  <2>5. ASSUME NEW batch, batch \in {RowsAfter(s), {}}, Becomes(p, job, "extract", s, RowsAfter(s), batch)
        PROVE  TypeInv'
    <3>1. JobInv'
      BY <2>1, <2>2, <2>3, <2>5, JobAfter DEF QuietPcs
    <3> QED
      BY <1>b, <2>1, <2>5, <3>1, TypeParts DEF Becomes
  <2> QED
    BY <2>1, <2>4, <2>5
<1>2. ASSUME ChunkCommitted(p) PROVE TypeInv'
  <2> DEFINE s == w[p].sid
             chunk == Chunk(w[p].rows)
  <2>1. /\ w[p].pc = "extract" /\ w[p].rows # {} /\ SmallInv'
        /\ memory' = memory \cup Ids(chunk)
        /\ cursor' = cursor \/ cursor' = [cursor EXCEPT ![s] = Max(Stamps(chunk))]
        /\ \/ Becomes(p, w[p].job, "extract", s, Rest(w[p].rows), w[p].batch)
           \/ w' \in [Workers -> JobType] /\ \A q \in Workers : w'[q] = w[q] \/ Rests(q)
        /\ UNCHANGED <<appended, buf, rolled, sessions, archive, marker, poison, overrun, behind, outran>>
    BY <1>2, ChunkCommittedFacts
  <2>2. s \in 1..sessions /\ sessions \in Nat
    BY <2>1, SidFacts, SmallFacts
  <2>3. chunk \subseteq w[p].rows /\ Max(Stamps(chunk)) \in 0..MaxTime
    <3>1. w[p].rows \subseteq RowType
      BY <1>a, JobFields
    <3> QED
      BY <2>1, <3>1, ChunkCut, SmallFacts
  <2> HIDE DEF chunk
  <2>4. FilesInv'
    <3>1. Ids(chunk) \subseteq 1..appended
      BY <2>3, RowIds
    <3>2. archive' \cup memory' \cup poison' \subseteq 1..appended
      BY <2>1, <3>1, RowIds
    <3>3. marker' \in [Sessions -> [gen : 0..MaxGen, batch : SUBSET RowType]]
      BY <2>1, <1>a DEF FilesInv
    <3> HIDE DEF s
    <3> QED
      BY <2>1, <2>2, <2>3, <3>2, <3>3, FilesSame
  <2>5. JobInv' /\ w' \in [Workers -> JobType]
    <3>1. CASE Becomes(p, w[p].job, "extract", s, Rest(w[p].rows), w[p].batch)
      <4>1. Ids(Rest(w[p].rows)) \subseteq 1..appended /\ Ids(w[p].batch) \subseteq 1..appended
        BY RowIds DEF Rest
      <4>2. JobInv'
        BY <2>1, <2>2, <3>1, <4>1, JobAfter DEF QuietPcs
      <4> QED
        BY <3>1, <4>2 DEF Becomes
    <3>2. CASE w' \in [Workers -> JobType] /\ \A q \in Workers : w'[q] = w[q] \/ Rests(q)
      BY <2>1, <3>2, JobAtRest
    <3> QED
      BY <2>1, <3>1, <3>2
  <2> QED
    BY <2>1, <2>4, <2>5, TypeParts
<1>3. ASSUME ExtractEnds(p), w[p].job = "close" PROVE TypeInv'
  <2>1. /\ SameRows /\ SmallInv' /\ w[p].pc = "extract"
        /\ Becomes(p, "close", "close", w[p].sid, w[p].rows, w[p].batch)
    BY <1>3, CloseBeginsFacts
  <2>2. JobInv'
    BY <2>1, SidFacts, RowIds, SmallFacts, JobAfter DEF QuietPcs, SameRows
  <2> QED
    BY <1>b, <2>1, <2>2, TypeParts DEF Becomes
<1>4. ASSUME Gate(p), ~Quiet PROVE TypeInv'
  <2> DEFINE s == w[p].sid
  <2>1. /\ w[p].pc = "gate" /\ SmallInv'
        /\ \E tried \in SUBSET RowsAfter(s) :
              /\ tried # {}
              /\ poison' = poison \cup Ids(Chunk(tried))
              /\ cursor' = cursor \/ cursor' = [cursor EXCEPT ![s] = Max(Stamps(Chunk(tried)))]
        /\ w' \in [Workers -> JobType] /\ \A q \in Workers : w'[q] = w[q] \/ Rests(q)
        /\ UNCHANGED <<appended, buf, rolled, sessions, archive, marker, memory, overrun, behind, outran>>
    BY <1>4, GateFacts
  <2>2. s \in 1..sessions /\ s \in Sessions
    BY <2>1, SidFacts
  <2>3. PICK tried \in SUBSET RowsAfter(s) :
              /\ tried # {}
              /\ poison' = poison \cup Ids(Chunk(tried))
              /\ cursor' = cursor \/ cursor' = [cursor EXCEPT ![s] = Max(Stamps(Chunk(tried)))]
    BY <2>1
  <2> DEFINE x == Max(Stamps(Chunk(tried)))
  <2>4. Chunk(tried) \subseteq buf[s].rows /\ x \in 0..MaxTime
    <3>1. tried \subseteq buf[s].rows /\ tried \subseteq RowType
      BY <1>a, <2>2, BufferFields DEF RowsAfter
    <3> QED
      BY <2>3, <3>1, ChunkCut, SmallFacts
  <2> HIDE DEF x
  <2>5. FilesInv'
    <3>1. Ids(Chunk(tried)) \subseteq 1..appended
      BY <2>2, <2>4, RowIds
    <3>2. archive' \cup memory' \cup poison' \subseteq 1..appended
      BY <2>1, <2>3, <3>1, RowIds
    <3>3. marker' \in [Sessions -> [gen : 0..MaxGen, batch : SUBSET RowType]]
      BY <2>1, <1>a DEF FilesInv
    <3>4. cursor' = cursor \/ cursor' = [cursor EXCEPT ![s] = x]
      BY <2>3 DEF x
    <3> HIDE DEF s
    <3> QED
      BY <2>1, <2>2, <2>4, <3>2, <3>3, <3>4, FilesSame
  <2>6. JobInv'
    BY <2>1, JobAtRest
  <2> QED
    BY <2>1, <2>5, <2>6, TypeParts
<1>5. ASSUME ExtractAgain(p), ~Quiet PROVE TypeInv'
  <2>1. /\ SameRows /\ SmallInv' /\ w[p].pc = "again"
        /\ Becomes(p, w[p].job, "extract", w[p].sid, RowsAfter(w[p].sid), w[p].batch)
    BY <1>5, ExtractAgainFacts
  <2>2. w[p].sid \in 1..sessions /\ w[p].sid \in Sessions
    BY <2>1, SidFacts
  <2>3. Ids(RowsAfter(w[p].sid)) \subseteq 1..appended /\ Ids(w[p].batch) \subseteq 1..appended
    BY <2>2, RowIds DEF RowsAfter
  <2>4. sessions' = sessions /\ appended' = appended /\ sessions \in Nat
    BY <2>1, SmallFacts DEF SameRows
  <2>5. JobInv'
    BY <2>1, <2>2, <2>3, <2>4, JobAfter DEF QuietPcs
  <2> QED
    BY <1>b, <2>1, <2>5, TypeParts DEF Becomes
<1> QED
  BY <1>1, <1>2, <1>3, <1>4, <1>5, QuietTypes

\* A worker moves on with rows it held; the archive or a marker may grow.
LEMMA MoveTypes ==
    ASSUME TypeInv, NEW p \in Workers, NEW job, NEW pc, NEW rows, NEW batch,
           w[p].pc # "idle", pc # "seedPoint", pc \in QuietPcs => job # "close",
           Becomes(p, job, pc, w[p].sid, rows, batch),
           Ids(rows) \subseteq 1..appended, Ids(batch) \subseteq 1..appended,
           SmallInv', UNCHANGED <<appended, buf, cursor, rolled, sessions, memory, poison>>,
           archive' \subseteq 1..appended,
           marker' \in [Sessions -> [gen : 0..MaxGen, batch : SUBSET RowType]]
    PROVE  TypeInv'
<1>1. FilesInv'
  <2>1. archive' \cup memory' \cup poison' \subseteq 1..appended
    BY RowIds
  <2> QED
    BY <2>1, FilesSame
<1>2. JobInv'
  <2>1. w[p].sid \in 1..sessions
    BY SidFacts
  <2> QED
    BY <2>1, SmallFacts, JobAfter
<1> QED
  BY <1>1, <1>2, TypeParts DEF Becomes

LEMMA CloseTypes ==
    ASSUME TypeInv, NEW p \in Workers,
           CloseArchive(p) \/ CloseMark(p) \/ CloseConfirm(p) \/ CloseDelete(p) \/ SeedDelete(p)
    PROVE  TypeInv'
<1> DEFINE s == w[p].sid
<1>a. FilesInv
  BY TypeParts
<1>1. ASSUME CloseArchive(p), ~Quiet PROVE TypeInv'
  <2>1. /\ w[p].pc = "close" /\ SmallInv'
        /\ AppendArchive(s, buf[s].rows, 0)
        /\ UNCHANGED <<appended, buf, cursor, rolled, sessions, marker, memory, poison>>
    BY <1>1, CloseArchiveFacts
  <2>2. PICK pc \in {"closeMark", "closeConfirm"} : Becomes(p, w[p].job, pc, s, buf[s].rows, w[p].batch)
    BY <1>1, CloseArchiveFacts
  <2>3. s \in Sessions
    BY <2>1, SidFacts
  <2>4. Ids(buf[s].rows) \subseteq 1..appended /\ Ids(w[p].batch) \subseteq 1..appended
    BY <2>3, RowIds
  <2>5. archive' \subseteq 1..appended
    BY <2>1, <2>4, ArchiveFacts, RowIds
  <2>6. marker' \in [Sessions -> [gen : 0..MaxGen, batch : SUBSET RowType]]
    BY <2>1, <1>a DEF FilesInv
  <2>7. w[p].pc # "idle" /\ pc # "seedPoint" /\ pc \notin QuietPcs
    BY <2>1 DEF QuietPcs
  <2> DEFINE rows == buf[s].rows
             batch == w[p].batch
             job == w[p].job
  <2>8. Becomes(p, job, pc, s, rows, batch) /\ Ids(rows) \subseteq 1..appended /\ Ids(batch) \subseteq 1..appended
    BY <2>2, <2>4
  <2>9. SmallInv' /\ UNCHANGED <<appended, buf, cursor, rolled, sessions, memory, poison>>
    BY <2>1
  <2> HIDE DEF rows, batch, job
  <2> QED
    BY ONLY TypeInv, p \in Workers, <2>5, <2>6, <2>7, <2>8, <2>9, MoveTypes
<1>2. ASSUME CloseMark(p) PROVE TypeInv'
  <2>1. /\ w[p].pc = "closeMark" /\ SmallInv'
        /\ marker' \in [Sessions -> [gen : 0..MaxGen, batch : SUBSET RowType]]
        /\ Becomes(p, w[p].job, "closeConfirm", s, w[p].rows, w[p].batch)
        /\ UNCHANGED <<appended, buf, cursor, rolled, sessions, archive, memory, poison>>
    BY <1>2, CloseMarkFacts
  <2> QED
    BY <2>1, MoveTypes, RowIds DEF QuietPcs
<1>3. ASSUME CloseConfirm(p), ~Quiet PROVE TypeInv'
  <2>1. /\ SameRows /\ SmallInv' /\ w[p].pc = "closeConfirm"
        /\ Becomes(p, w[p].job, "closeDelete", s, w[p].rows, w[p].batch)
    BY <1>3, CloseConfirmFacts
  <2>2. Ids(w[p].rows) \subseteq 1..appended /\ Ids(w[p].batch) \subseteq 1..appended
    BY RowIds
  <2>3. /\ UNCHANGED <<appended, buf, cursor, rolled, sessions, memory, poison>>
        /\ archive' \subseteq 1..appended
        /\ marker' \in [Sessions -> [gen : 0..MaxGen, batch : SUBSET RowType]]
    BY <2>1, <1>a DEF SameRows, FilesInv
  <2>4. w[p].pc # "idle" /\ "closeDelete" \notin QuietPcs
    BY <2>1 DEF QuietPcs
  <2> QED
    BY <2>1, <2>2, <2>3, <2>4, MoveTypes
<1>4. ASSUME CloseDelete(p) \/ SeedDelete(p) PROVE TypeInv'
  <2>1. /\ SmallInv' /\ s \in 1..sessions
        /\ buf' \in [Sessions -> BufferType] /\ buf'[s].rows = {}
        /\ \A t \in Sessions \ {s} : buf'[t] = buf[t]
        /\ cursor' = [cursor EXCEPT ![s] = 0]
        /\ w' \in [Workers -> JobType] /\ \A q \in Workers : w'[q] = w[q] \/ Rests(q)
        /\ UNCHANGED <<appended, rolled, sessions, archive, marker, memory, poison>>
    BY <1>4, DeleteFacts
  <2>2. appended' \in 0..MaxRows /\ appended <= appended' /\ Ids(buf'[s].rows) \subseteq 1..appended'
    BY <2>1, SmallFacts DEF Ids
  <2>3. FilesInv'
    <3>1. UNCHANGED <<rolled, sessions, archive, memory, poison, marker>>
      BY <2>1
    <3> HIDE DEF s
    <3> QED
      BY <2>1, <2>2, <3>1, FilesRewritten
  <2>4. JobInv'
    BY <2>1, JobAtRest
  <2> QED
    BY <2>1, <2>3, <2>4, TypeParts
<1> QED
  BY <1>1, <1>2, <1>3, <1>4, QuietTypes

LEMMA FoldTypes ==
    ASSUME TypeInv, NEW p \in Workers,
           StartFold(p) \/ FoldArchive(p) \/ FoldMark(p) \/ SeedMark(p) \/ FoldReread(p) \/ FoldReplace(p)
    PROVE  TypeInv'
<1> DEFINE s == w[p].sid
<1>a. FilesInv
  BY TypeParts
<1>1. ASSUME StartFold(p), ~Quiet PROVE TypeInv'
  <2>1. /\ SameRows /\ SmallInv'
        /\ \E t \in 1..sessions, job \in Jobs, batch \in SUBSET RowType :
              /\ \A r \in batch : r \in buf[t].rows /\ r.ts <= cursor[t]
              /\ Becomes(p, job, "summarise", t, {}, batch)
    BY <1>1, StartFoldFacts DEF StartFold
  <2>2. PICK t \in 1..sessions, job \in Jobs, batch \in SUBSET RowType :
              /\ batch \subseteq buf[t].rows
              /\ Becomes(p, job, "summarise", t, {}, batch)
    BY <2>1
  <2>3. t \in Sessions /\ sessions' = sessions /\ appended' = appended /\ sessions \in Nat
    BY <2>1, SmallFacts DEF Sessions, SameRows
  <2>4. Ids({}) \subseteq 1..appended /\ Ids(batch) \subseteq 1..appended
    BY <2>2, <2>3, RowIds DEF Ids
  <2>5. FilesInv'
    BY <2>1, <1>a, FilesSame, RowIds DEF SameRows, FilesInv
  <2>6. JobInv'
    BY <2>2, <2>3, <2>4, JobAfter DEF QuietPcs
  <2> QED
    BY <2>1, <2>2, <2>5, <2>6, TypeParts DEF Becomes
<1>2. ASSUME FoldArchive(p) PROVE TypeInv'
  <2>1. /\ w[p].pc = "summarise" /\ SmallInv' /\ s \in Sessions
        /\ AppendArchive(s, w[p].batch, w[p].gen)
        /\ UNCHANGED <<appended, buf, cursor, rolled, sessions, marker, memory, poison>>
    BY <1>2, FoldArchiveFacts
  <2>2. PICK pc \in {"reread", "mark"} : Becomes(p, w[p].job, pc, s, w[p].rows, w[p].batch)
    BY <1>2, FoldArchiveFacts
  <2>3. Ids(w[p].rows) \subseteq 1..appended /\ Ids(w[p].batch) \subseteq 1..appended
    BY RowIds
  <2>4. archive' \subseteq 1..appended
    BY <2>1, <2>3, ArchiveFacts, RowIds
  <2>5. marker' \in [Sessions -> [gen : 0..MaxGen, batch : SUBSET RowType]]
    BY <2>1, <1>a DEF FilesInv
  <2>6. w[p].pc # "idle" /\ pc # "seedPoint" /\ pc \notin QuietPcs
    BY <2>1 DEF QuietPcs
  <2> QED
    BY <2>1, <2>2, <2>3, <2>4, <2>5, <2>6, MoveTypes
<1>3. ASSUME FoldMark(p) \/ SeedMark(p) PROVE TypeInv'
  <2>1. /\ SmallInv'
        /\ marker' \in [Sessions -> [gen : 0..MaxGen, batch : SUBSET RowType]]
        /\ \/ w[p].pc = "mark" /\ Becomes(p, w[p].job, "reread", s, w[p].rows, w[p].batch)
           \/ w[p].pc = "seedMark" /\ Becomes(p, w[p].job, "seedTrim", s, w[p].rows, w[p].batch)
        /\ UNCHANGED <<appended, buf, cursor, rolled, sessions, archive, memory, poison>>
    BY <1>3, BatchMarkFacts
  <2>2. Ids(w[p].rows) \subseteq 1..appended /\ Ids(w[p].batch) \subseteq 1..appended
    BY RowIds
  <2>3. archive' \subseteq 1..appended
    BY <2>1, <1>a DEF FilesInv
  <2>4. PICK pc \in {"reread", "seedTrim"} : Becomes(p, w[p].job, pc, s, w[p].rows, w[p].batch)
    BY <2>1
  <2>5. w[p].pc # "idle" /\ pc # "seedPoint" /\ pc \notin QuietPcs
    BY <2>1 DEF QuietPcs
  <2>6. UNCHANGED <<appended, buf, cursor, rolled, sessions, memory, poison>>
    BY <2>1
  <2> QED
    BY <2>1, <2>2, <2>3, <2>4, <2>5, <2>6, MoveTypes
<1>4. ASSUME FoldReread(p) PROVE TypeInv'
  <2> DEFINE rows == {r \in buf[s].rows : r.id \notin Ids(w[p].batch)}
  <2>1. /\ SameRows /\ SmallInv' /\ w[p].pc = "reread"
        /\ Becomes(p, w[p].job, "replace", s, rows, w[p].batch)
    BY <1>4, FoldRereadFacts
  <2>2. s \in Sessions
    BY <2>1, SidFacts
  <2>3. Ids(rows) \subseteq 1..appended
    BY <2>2, RowIds
  <2> HIDE DEF rows
  <2> QED
    BY <2>1, <2>3, <1>a, MoveTypes, RowIds DEF QuietPcs, SameRows, FilesInv
<1>5. ASSUME FoldReplace(p) PROVE TypeInv'
  <2>1. /\ SmallInv' /\ s \in 1..sessions
        /\ buf' \in [Sessions -> BufferType] /\ buf'[s].rows = w[p].rows
        /\ \A t \in Sessions \ {s} : buf'[t] = buf[t]
        /\ w' \in [Workers -> JobType] /\ \A q \in Workers : w'[q] = w[q] \/ Rests(q)
        /\ UNCHANGED <<appended, cursor, rolled, sessions, archive, marker, memory, poison>>
    BY <1>5, FoldReplaceFacts
  <2>2. appended' \in 0..MaxRows /\ appended <= appended' /\ Ids(buf'[s].rows) \subseteq 1..appended'
    BY <2>1, SmallFacts, RowIds
  <2>3. FilesInv'
    <3>1. UNCHANGED <<rolled, sessions, archive, memory, poison, marker>> /\ cursor' = cursor
      BY <2>1
    <3> HIDE DEF s
    <3> QED
      BY <2>1, <2>2, <3>1, FilesRewritten
  <2>4. JobInv'
    BY <2>1, JobAtRest
  <2> QED
    BY <2>1, <2>3, <2>4, TypeParts
<1> QED
  BY <1>1, <1>2, <1>3, <1>4, <1>5, QuietTypes

LEMMA SeedTypes ==
    ASSUME TypeInv, NEW p \in Workers,
           SeedArchive(p) \/ SeedTrim(p) \/ SeedNew(p) \/ SeedPoint(p)
    PROVE  TypeInv'
<1> DEFINE s == w[p].sid
<1>a. FilesInv
  BY TypeParts
<1>1. ASSUME SeedArchive(p), ~Quiet PROVE TypeInv'
  <2>1. w[p].pc = "seed" /\ SmallInv' /\ s \in Sessions
        /\ UNCHANGED <<appended, buf, cursor, rolled, sessions, marker, memory, poison>>
    BY <1>1, SeedArchiveFacts
  <2>2. PICK rows \in SUBSET buf[s].rows, out \in SUBSET buf[s].rows, pc \in {"seedNew", "seedMark", "seedTrim"} :
              /\ AppendArchive(s, out, buf[s].gen)
              /\ Becomes(p, w[p].job, pc, s, rows, out)
    <3>1. \E rows, out \in SUBSET buf[s].rows, pc \in {"seedNew", "seedMark", "seedTrim"} :
              /\ rows \cup out = buf[s].rows
              /\ pc = "seedNew" => out = {}
              /\ AppendArchive(s, out, buf[s].gen)
              /\ outran' = outran \cup (Ids(out \cap RowsAfter(s)) \ (memory \cup poison))
              /\ Becomes(p, w[p].job, pc, s, rows, out)
      BY <1>1, SeedArchiveFacts
    <3> QED
      BY <3>1
  <2>3. Ids(rows) \subseteq 1..appended /\ Ids(out) \subseteq 1..appended
    BY <2>1, <2>2, RowIds
  <2>4. archive' \subseteq 1..appended
    BY <2>2, <2>3, ArchiveFacts, RowIds
  <2>5. marker' \in [Sessions -> [gen : 0..MaxGen, batch : SUBSET RowType]]
    BY <2>1, <1>a DEF FilesInv
  <2>6. w[p].pc # "idle" /\ pc # "seedPoint" /\ pc \notin QuietPcs
    BY <2>1 DEF QuietPcs
  <2> DEFINE job == w[p].job
  <2>7. Becomes(p, job, pc, s, rows, out)
    BY <2>2
  <2>8. SmallInv' /\ UNCHANGED <<appended, buf, cursor, rolled, sessions, memory, poison>>
    BY <2>1
  <2> HIDE DEF job
  <2> QED
    BY ONLY TypeInv, p \in Workers, <2>3, <2>4, <2>5, <2>6, <2>7, <2>8, MoveTypes
<1>2. ASSUME SeedTrim(p) PROVE TypeInv'
  <2>1. /\ w[p].pc = "seedTrim" /\ SmallInv' /\ s \in 1..sessions
        /\ buf' \in [Sessions -> BufferType] /\ buf'[s].rows = w[p].rows
        /\ \A t \in Sessions \ {s} : buf'[t] = buf[t]
        /\ Becomes(p, w[p].job, "seedNew", s, w[p].rows, w[p].batch)
        /\ UNCHANGED <<appended, cursor, rolled, sessions, archive, marker, memory, poison>>
    BY <1>2, SeedTrimFacts
  <2>2. Ids(w[p].rows) \subseteq 1..appended /\ Ids(w[p].batch) \subseteq 1..appended
    BY RowIds
  <2>3. FilesInv'
    <3>1. appended' \in 0..MaxRows /\ appended <= appended' /\ Ids(buf'[s].rows) \subseteq 1..appended'
      BY <2>1, <2>2, SmallFacts
    <3>2. UNCHANGED <<rolled, sessions, archive, memory, poison, marker>> /\ cursor' = cursor
      BY <2>1
    <3> HIDE DEF s
    <3> QED
      BY <2>1, <3>1, <3>2, FilesRewritten
  <2>4. JobInv'
    <3>1. sessions \in Nat /\ sessions' = sessions /\ appended' = appended
      BY <2>1, SmallFacts
    <3>2. "seedNew" \notin QuietPcs
      BY DEF QuietPcs
    <3> QED
      BY <2>1, <2>2, <3>1, <3>2, JobAfter
  <2> QED
    BY <2>1, <2>3, <2>4, TypeParts DEF Becomes
<1>3. ASSUME SeedNew(p) PROVE TypeInv'
  <2> DEFINE new == sessions + 1
  <2>1. /\ w[p].pc = "seedNew" /\ SmallInv' /\ s \in 1..sessions
        /\ new \in Sessions /\ sessions' = new
        /\ buf' \in [Sessions -> BufferType] /\ buf'[new].rows = w[p].rows
        /\ \A t \in Sessions \ {new} : buf'[t] = buf[t]
        /\ cursor' = [cursor EXCEPT ![new] = cursor[s]]
        /\ Becomes(p, w[p].job, "seedPoint", s, w[p].rows, w[p].batch)
        /\ UNCHANGED <<appended, rolled, archive, marker, memory, poison>>
    BY <1>3, SeedNewFacts
  <2>2. Ids(w[p].rows) \subseteq 1..appended /\ Ids(w[p].batch) \subseteq 1..appended
    BY RowIds
  <2>3. sessions \in Nat /\ s \in Sessions /\ s < new
    BY <2>1, SmallFacts DEF Sessions
  <2>4. cursor' \in [Sessions -> 0..MaxTime] /\ \A t \in Sessions : t > new => cursor'[t] = 0 /\ t # new
    <3>1. cursor[s] \in 0..MaxTime
      BY <2>3, <1>a DEF FilesInv
    <3>2. \A t \in Sessions : t > new => t > sessions /\ t # new
      BY <2>3 DEF Sessions
    <3> QED
      BY <2>1, <3>1, <3>2, <1>a DEF FilesInv, FreshInv
  <2>5. FreshInv'
    <3>1. \A t \in Sessions : t > new => t > sessions
      BY <2>3 DEF Sessions
    <3> QED
      BY <2>1, <2>4, <3>1, <1>a DEF FilesInv, FreshInv
  <2>6. RolledInv'
    BY <2>1, <2>3, <1>a DEF FilesInv, RolledInv, Sessions
  <2>7. BufferIdsInv'
    BY <2>1, <2>2, <1>a DEF FilesInv, BufferIdsInv
  <2>8. FilesInv'
    <3>1. sessions' \in Sessions /\ rolled' \in [Sessions -> 0..MaxSessions]
      BY <2>1, <1>a DEF FilesInv
    <3> QED
      BY <2>1, <2>4, <2>5, <2>6, <2>7, <3>1, <1>a DEF FilesInv
  <2>9. JobInv'
    <3>1. "seedPoint" \notin QuietPcs /\ sessions' \in Nat /\ sessions <= sessions'
      BY <2>1, <2>3 DEF QuietPcs
    <3> QED
      BY <2>1, <2>2, <2>3, <3>1, JobAfter
  <2> QED
    BY <2>1, <2>8, <2>9, TypeParts DEF Becomes
<1>4. ASSUME SeedPoint(p) PROVE TypeInv'
  <2>1. /\ w[p].pc = "seedPoint" /\ SmallInv' /\ s \in 1..sessions
        /\ rolled' = [rolled EXCEPT ![s] = sessions]
        /\ Becomes(p, w[p].job, "seedDelete", s, w[p].rows, w[p].batch)
        /\ UNCHANGED <<appended, buf, cursor, sessions, archive, marker, memory, poison>>
    BY <1>4, SeedPointFacts
  <2>2. Ids(w[p].rows) \subseteq 1..appended /\ Ids(w[p].batch) \subseteq 1..appended
    BY RowIds
  <2>3. s < sessions /\ sessions \in 0..MaxSessions /\ s \in Nat
    BY <2>1, SmallFacts DEF TypeInv, SidInv
  <2>4. rolled' \in [Sessions -> 0..MaxSessions] /\ RolledInv'
    <3>1. sessions \in (s + 1)..sessions
      BY <2>3
    <3>2. RolledInv /\ rolled \in [Sessions -> 0..MaxSessions]
      BY <1>a DEF FilesInv
    <3>3. rolled' \in [Sessions -> 0..MaxSessions]
      BY <2>1, <2>3, <3>2
    <3>4. \A t \in Sessions : rolled'[t] = rolled[t] \/ (t = s /\ rolled'[t] = sessions)
      BY <2>1, <3>2
    <3> QED
      BY <2>1, <3>1, <3>2, <3>3, <3>4 DEF RolledInv
  <2>5. FilesInv'
    BY <2>1, <2>4, <1>a DEF FilesInv, FreshInv, BufferIdsInv
  <2>6. JobInv'
    <3>1. "seedDelete" \notin QuietPcs /\ sessions' = sessions /\ appended' = appended
      BY <2>1 DEF QuietPcs
    <3> QED
      BY <2>1, <2>2, <2>3, <3>1, JobAfter
  <2> QED
    BY <2>1, <2>5, <2>6, TypeParts DEF Becomes
<1> QED
  BY <1>1, <1>2, <1>3, <1>4, QuietTypes

LEMMA TypeInit == Init => TypeInv
<1> SUFFICES ASSUME Init PROVE TypeInv
  OBVIOUS
<1>1. /\ MaxSessions \in Nat /\ MaxSessions >= 1 /\ MaxTime \in Nat /\ MaxTime >= 1
      /\ MaxRows \in Nat /\ MaxGen \in Nat /\ FailureThreshold \in Nat
  BY ConversationAssumption
<1>2. Absent \in BufferType /\ NoBackoff \in BackoffType /\ Absent.rows = {} /\ Idle \in JobType
      /\ NoMarker \in [gen : 0..MaxGen, batch : SUBSET RowType]
  BY <1>1, IdleTyped DEF Absent, BufferType, NoBackoff, BackoffType, NoMarker
<1>3. FilesInv
  <2>1. \A s \in Sessions : buf[s] = Absent /\ cursor[s] = 0 /\ rolled[s] = 0 /\ Ids(buf[s].rows) = {}
    BY <1>2 DEF Init, Ids
  <2>2. FreshInv /\ RolledInv /\ BufferIdsInv
    BY <2>1 DEF FreshInv, RolledInv, BufferIdsInv
  <2> QED
    BY <1>1, <1>2, <2>2 DEF Init, FilesInv, Sessions
<1>4. SmallInv
  BY <1>1, <1>2 DEF Init, SmallInv, ClockInv, TurnInv, BackoffInv, TurnSidInv, NoTurn
<1>5. JobInv /\ w \in [Workers -> JobType]
  <2>1. \A p \in Workers : w[p] = Idle
    BY DEF Init
  <2> QED
    BY <1>2, <2>1, IdleTyped DEF Init, JobInv, SidInv, StageInv, JobIdsInv, QuietPcs, Ids
<1> QED
  BY <1>3, <1>4, <1>5
     DEF TypeInv, TypeOK, FilesInv, SmallInv, JobInv, ClockInv, TurnInv, BackoffInv

LEMMA TypeNext == TypeInv /\ [Next]_vars => TypeInv'
<1> SUFFICES ASSUME TypeInv, [Next]_vars PROVE TypeInv'
  OBVIOUS
<1>1. ASSUME NEW p \in Workers, Works(p) PROVE TypeInv'
  <2>1. CASE \/ \E job \in Jobs, s \in Sessions : StartExtract(p, job, s)
             \/ ChunkCommitted(p) \/ (ExtractEnds(p) /\ w[p].job = "close") \/ Gate(p) \/ ExtractAgain(p)
    BY <2>1, ExtractTypes
  <2>2. CASE CloseArchive(p) \/ CloseMark(p) \/ CloseConfirm(p) \/ CloseDelete(p) \/ SeedDelete(p)
    BY <2>2, CloseTypes
  <2>3. CASE StartFold(p) \/ FoldArchive(p) \/ FoldMark(p) \/ SeedMark(p) \/ FoldReread(p) \/ FoldReplace(p)
    BY <2>3, FoldTypes
  <2>4. CASE SeedArchive(p) \/ SeedTrim(p) \/ SeedNew(p) \/ SeedPoint(p)
    BY <2>4, SeedTypes
  <2> QED
    BY <1>1, <2>1, <2>2, <2>3, <2>4 DEF Works
<1> QED
  BY <1>1, Steps, QuietTypes, PersistTypes

LEMMA TypeAlways == Spec => []TypeInv
BY TypeInit, TypeNext, PTL DEF Spec

\* The files and what the workers hold of them are of their types: a job and
\* a turn are about a session that exists, resolve_successor ends in one, and
\* no id is anywhere that ingest_turn did not give out.
THEOREM TypeCorrect == Spec => []TypeOK
<1>1. TypeInv => TypeOK
  BY DEF TypeInv
<1> QED
  BY <1>1, TypeAlways, PTL

-----------------------------------------------------------------------------
(* Where a row is, and what was done with it: the inductive invariant      *)
(* behind "nothing is lost".                                               *)

\* Extracted or set aside, or one of the kinds that the cursor passed: a fold
\* that outlasts its lock can put back what a rollover left out.
Extracted ==
    memory \cup poison \cup behind \cup overrun \cup (IF LockGoesStale THEN outran ELSE {})
\* May leave the buffers: archived and extracted, or of the rewrite window.
Safe == overrun \cup (archive \cap Extracted)
\* The same, or left out of a rollover's tail.
Settled == Safe \cup (archive \cap outran)
\* In the buffer of a session created after s.
Above(s) == UNION {Ids(buf[t].rows) : t \in {x \in Sessions : x > s}}

\* The session that q folds was rolled over and its buffer deleted meanwhile:
\* nobody else comes to it any more, and its cursor is gone.
Deserted(q) ==
    LET s == w[q].sid
    IN  /\ buf[s] = Absent /\ cursor[s] = 0 /\ rolled[s] # 0
        /\ \A p \in Workers \ {q} : w[p].pc # "idle" => w[p].sid # s

RollPcs == SeedPcs \cup {"seedDelete"}

\* Who holds the append or the registry lock holds it alone, and so does who
\* holds the compaction lock while it lasts.
LockInv ==
    \A p, q \in Workers : p # q =>
        /\ w[p].pc \in SeedPcs => w[q].pc \notin SeedPcs
        /\ w[p].sid = w[q].sid =>
              /\ w[p].pc \in ClosePcs \cup RollPcs => w[q].pc \notin ClosePcs \cup RollPcs
              /\ w[p].pc \in FoldPcs \cup RollPcs => LockGoesStale \/ w[q].pc \notin FoldPcs \cup RollPcs

\* A marker is written after its batch was archived.
MarkerInv == \A s \in Sessions : Ids(marker[s].batch) \subseteq archive

\* A row at or before the cursor was extracted.
CursorInv == \A s \in Sessions : \A r \in buf[s].rows : r.ts <= cursor[s] => r.id \in Extracted

\* Every row that was persisted is in a buffer, or may be in none.
Kept == 1..appended \subseteq Live \cup Settled

\* A pass has in hand, or has behind it, whatever is not newer than its rows.
PassInv(p) ==
    w[p].pc = "extract" =>
        \A r \in buf[w[p].sid].rows :
            r.id \in Extracted \/ r \in w[p].rows \/ \A x \in w[p].rows : x.ts < r.ts

\* A close remembers what it set out to extract, then what it archived.
ClosingInv(p) ==
    /\ w[p].pc = "extract" /\ w[p].job = "close" => Ids(w[p].batch) \subseteq Extracted \cup Ids(w[p].rows)
    /\ w[p].pc = "close" => Ids(w[p].batch) \subseteq Extracted
    /\ w[p].pc \in ClosePcs => Ids(w[p].rows) \subseteq archive /\ Ids(buf[w[p].sid].rows) \subseteq Safe

\* What a fold removes was extracted and archived; what it writes back is
\* the buffer without it, but for rows appended or deleted meanwhile.
FoldingInv(p) ==
    /\ w[p].pc \in FoldPcs => Ids(w[p].batch) \subseteq Extracted
    /\ w[p].pc \in FoldPcs \ {"summarise"} => Ids(w[p].batch) \subseteq archive
    /\ w[p].pc = "replace" =>
          /\ \A r \in buf[w[p].sid].rows : r \in w[p].rows \/ r.id \in Safe
          /\ \/ \A r \in w[p].rows : r \in buf[w[p].sid].rows \/ r.id \in Safe
             \/ Deserted(p)

\* A rollover archives what it leaves out before the buffer loses it, and
\* deletes the buffer when the successor has the rest.
SeedingInv(p) ==
    /\ w[p].pc \in {"seedMark", "seedTrim"} =>
          /\ Ids(w[p].batch) \subseteq archive \cap Settled
          /\ \A r \in buf[w[p].sid].rows : r \in w[p].rows \cup w[p].batch \/ r.id \in Safe
    /\ w[p].pc \in SeedPcs =>
          \A r \in w[p].rows : r \in buf[w[p].sid].rows \/ r.id \in Safe
    /\ w[p].pc \in {"seedNew", "seedPoint", "seedDelete"} =>
          \A r \in buf[w[p].sid].rows : r \in w[p].rows \/ r.id \in Safe
    /\ w[p].pc \in {"seedPoint", "seedDelete"} => Ids(w[p].rows) \subseteq Above(w[p].sid) \cup Settled
    /\ w[p].pc = "seedDelete" => rolled[w[p].sid] # 0

WorkInv(p) == PassInv(p) /\ ClosingInv(p) /\ FoldingInv(p) /\ SeedingInv(p)

HonestInv == LockInv /\ MarkerInv /\ CursorInv /\ Kept /\ \A p \in Workers : WorkInv(p)

\* What is known of a row is not forgotten.
Grows ==
    /\ archive \subseteq archive' /\ memory \subseteq memory' /\ poison \subseteq poison'
    /\ behind \subseteq behind' /\ overrun \subseteq overrun' /\ outran \subseteq outran'

\* A pointer is not taken back, and who folds a deserted session stays alone.
Stays ==
    /\ \A s \in Sessions : rolled[s] # 0 => rolled'[s] # 0
    /\ \A q \in Workers : w[q].pc = "replace" /\ w'[q] = w[q] /\ Deserted(q) => Deserted(q)'

LEMMA StaysBy ==
    ASSUME TypeInv,
           \A q \in Workers : \/ w'[q] = w[q] \/ w'[q].pc = "idle"
                              \/ w[q].pc # "idle" /\ w'[q].sid = w[q].sid,
           \A s \in 1..sessions :
               \/ buf'[s] = buf[s] /\ cursor'[s] = cursor[s]
               \/ \E p \in Workers : w[p].pc # "idle" /\ w[p].sid = s /\ (w[p].pc = "replace" => w'[p] # w[p]),
           \A s \in Sessions : rolled[s] # 0 => rolled'[s] # 0
    PROVE  Stays
<1> SUFFICES ASSUME NEW q \in Workers, w[q].pc = "replace", w'[q] = w[q], Deserted(q)
             PROVE  Deserted(q)'
  BY DEF Stays
<1> DEFINE s == w[q].sid
<1>1. s \in 1..sessions /\ s \in Sessions
  BY SidFacts
<1>2. /\ buf[s] = Absent /\ cursor[s] = 0 /\ rolled[s] # 0
      /\ \A p \in Workers \ {q} : w[p].pc # "idle" => w[p].sid # s
  BY DEF Deserted
<1>3. buf'[s] = buf[s] /\ cursor'[s] = cursor[s]
  BY <1>1, <1>2
<1>4. \A p \in Workers \ {q} : w'[p].pc # "idle" => w'[p].sid # s
  BY <1>2
<1> QED
  BY <1>1, <1>2, <1>3, <1>4 DEF Deserted

\* A worker that comes to a session finds something there.
LEMMA StaysFrom ==
    ASSUME TypeInv, NEW p \in Workers, UNCHANGED <<buf, cursor, rolled>>, w[p].pc # "replace",
           \A q \in Workers \ {p} : w'[q] = w[q],
           NEW s, w'[p].sid = s, buf[s] # Absent \/ rolled[s] = 0 \/ cursor[s] # 0
    PROVE  Stays
<1> SUFFICES ASSUME NEW q \in Workers, w[q].pc = "replace", w'[q] = w[q], Deserted(q)
             PROVE  Deserted(q)'
  BY DEF Stays
<1>1. w[q].sid # s
  BY DEF Deserted
<1> QED
  BY <1>1 DEF Deserted

LEMMA StaysWork ==
    ASSUME TypeInv, NEW p \in Workers, Works(p)
    PROVE  Stays
<1> DEFINE s == w[p].sid
<1>1. ASSUME NEW job \in Jobs, NEW t \in Sessions, StartExtract(p, job, t) PROVE Stays
  <2>1. SameRows /\ w'[p].sid = t /\ \A q \in Workers \ {p} : w'[q] = w[q]
    BY <1>1, StartExtractFacts DEF Becomes
  <2>2. buf[t] # Absent \/ rolled[t] = 0
    BY <1>1 DEF StartExtract, Due, SnapshotDue, FinalizeDue, WeeklyDue, RouteDue, LaunchDue, Silent
  <2>3. w[p].pc # "replace"
    BY <1>1 DEF StartExtract
  <2> QED
    BY <2>1, <2>2, <2>3, StaysFrom DEF SameRows
<1>2. ASSUME StartFold(p), ~Quiet PROVE Stays
  <2>1. SameRows /\ \E t \in 1..sessions, job \in Jobs, batch \in SUBSET RowType :
              /\ \A r \in batch : r \in buf[t].rows /\ r.ts <= cursor[t]
              /\ ~CompactionLocked(p, t) /\ cursor[t] # 0
              /\ Becomes(p, job, "summarise", t, {}, batch)
    BY <1>2, StartFoldFacts DEF StartFold
  <2>2. PICK t \in 1..sessions : cursor[t] # 0 /\ w'[p].sid = t /\ \A q \in Workers \ {p} : w'[q] = w[q]
    BY <2>1 DEF Becomes
  <2>3. w[p].pc # "replace"
    BY <1>2 DEF StartFold, StartCascade, StartTurnFold, RollFold
  <2> QED
    BY <2>1, <2>2, <2>3, StaysFrom DEF SameRows
<1>3. CASE Quiet
  BY <1>3, StaysBy DEF Quiet, SameRows, Rests
<1>4. ASSUME \/ ChunkCommitted(p) \/ (ExtractEnds(p) /\ w[p].job = "close") \/ Gate(p) \/ ExtractAgain(p), ~Quiet
      PROVE  Stays
  <2>1. UNCHANGED <<buf, rolled, sessions>> /\ w[p].pc \notin {"idle", "replace"}
        /\ \E x : cursor' = cursor \/ cursor' = [cursor EXCEPT ![s] = x]
    <3>1. CASE ChunkCommitted(p)
      BY <3>1, ChunkCommittedFacts
    <3>2. CASE ExtractEnds(p) /\ w[p].job = "close"
      BY <3>2, CloseBeginsFacts DEF SameRows
    <3>3. CASE Gate(p)
      BY <3>3, <1>4, GateFacts
    <3>4. CASE ExtractAgain(p)
      BY <3>4, ExtractAgainFacts DEF SameRows
    <3> QED
      BY <1>4, <3>1, <3>2, <3>3, <3>4
  <2>2. \A q \in Workers : \/ w'[q] = w[q] \/ w'[q].pc = "idle"
                           \/ w[q].pc # "idle" /\ w'[q].sid = w[q].sid
    <3>1. \/ \A q \in Workers : w'[q] = w[q] \/ Rests(q)
          \/ \E job, pc, rows, batch : Becomes(p, job, pc, s, rows, batch)
      BY <1>4, ChunkCommittedFacts, CloseBeginsFacts, GateFacts, ExtractAgainFacts
    <3> QED
      BY <3>1, <2>1 DEF Rests, Becomes
  <2>3. \A t \in 1..sessions : t # s => cursor'[t] = cursor[t]
    BY <2>1, SmallFacts DEF TypeInv, TypeOK, Sessions
  <2> QED
    BY <2>1, <2>2, <2>3, StaysBy
<1>5. ASSUME CloseArchive(p) \/ CloseMark(p) \/ CloseConfirm(p) \/ FoldArchive(p) \/ FoldMark(p)
               \/ FoldReread(p) \/ SeedArchive(p) \/ SeedMark(p), ~Quiet
      PROVE  Stays
  <2>1. UNCHANGED <<buf, cursor, rolled>> /\ w[p].pc # "idle"
    BY <1>5 DEF CloseArchive, CloseMark, CloseConfirm, FoldArchive, FoldMark, FoldReread,
                SeedArchive, SeedMark, files
  <2>2. \E job, pc, rows, batch : Becomes(p, job, pc, s, rows, batch)
    BY <1>5, CloseArchiveFacts, CloseMarkFacts, CloseConfirmFacts, FoldArchiveFacts,
       BatchMarkFacts, FoldRereadFacts, SeedArchiveFacts
  <2>3. w'[p].sid = s /\ \A q \in Workers \ {p} : w'[q] = w[q]
    BY <2>2 DEF Becomes
  <2> QED
    BY <2>1, <2>3, StaysBy
<1>6. CASE CloseDelete(p) \/ SeedDelete(p)
  <2>1. /\ w[p].pc \in {"closeDelete", "seedDelete"} /\ s \in 1..sessions
        /\ \A t \in Sessions \ {s} : buf'[t] = buf[t]
        /\ cursor' = [cursor EXCEPT ![s] = 0] /\ UNCHANGED rolled
        /\ \A q \in Workers : w'[q] = w[q] \/ Rests(q)
    BY <1>6, DeleteFacts
  <2>2. cursor \in [Sessions -> 0..MaxTime]
    BY DEF TypeInv, TypeOK
  <2>3. 1..sessions \subseteq Sessions
    BY SmallFacts DEF Sessions
  <2>4. \A t \in 1..sessions : t # s => buf'[t] = buf[t] /\ cursor'[t] = cursor[t]
    BY <2>1, <2>2, <2>3
  <2> QED
    BY <2>1, <2>4, StaysBy DEF Rests
<1>7. CASE FoldReplace(p)
  <2>1. /\ w[p].pc = "replace" /\ Rests(p) /\ UNCHANGED <<cursor, rolled>>
        /\ \A t \in Sessions \ {s} : buf'[t] = buf[t]
        /\ \A q \in Workers : w'[q] = w[q] \/ Rests(q)
    BY <1>7, FoldReplaceFacts
  <2>2. w'[p] # w[p]
    BY <2>1 DEF Rests, QuietPcs
  <2>3. \A t \in 1..sessions : t # s => buf'[t] = buf[t]
    BY <2>1, SmallFacts DEF Sessions
  <2> QED
    BY <2>1, <2>2, <2>3, StaysBy DEF Rests
<1>8. CASE SeedTrim(p) \/ SeedNew(p) \/ SeedPoint(p)
  <2>1. \E job, pc, rows, batch : Becomes(p, job, pc, s, rows, batch)
    BY <1>8, SeedTrimFacts, SeedNewFacts, SeedPointFacts
  <2>2. w'[p].sid = s /\ \A q \in Workers \ {p} : w'[q] = w[q]
    BY <2>1 DEF Becomes
  <2>3. w[p].pc \in SeedPcs /\ w[p].pc \notin {"idle", "replace"}
    BY <1>8 DEF SeedTrim, SeedNew, SeedPoint, SeedPcs
  <2>4. \A t \in 1..sessions : t # s => buf'[t] = buf[t] /\ cursor'[t] = cursor[t]
    <3>1. 1..sessions \subseteq Sessions \ {sessions + 1}
      BY SmallFacts DEF Sessions
    <3>2. CASE SeedTrim(p)
      BY <3>1, <3>2, SeedTrimFacts
    <3>3. CASE SeedNew(p)
      <4>1. cursor' = [cursor EXCEPT ![sessions + 1] = cursor[s]]
            /\ \A t \in Sessions \ {sessions + 1} : buf'[t] = buf[t]
        BY <3>3, SeedNewFacts
      <4> QED
        BY <3>1, <4>1 DEF TypeInv, TypeOK
    <3>4. CASE SeedPoint(p)
      BY <3>4, SeedPointFacts
    <3> QED
      BY <1>8, <3>2, <3>3, <3>4
  <2>5. \A t \in Sessions : rolled[t] # 0 => rolled'[t] # 0
    <3>1. UNCHANGED rolled \/ rolled' = [rolled EXCEPT ![s] = sessions]
      BY <1>8, SeedTrimFacts, SeedNewFacts, SeedPointFacts
    <3> QED
      BY <3>1, SmallFacts DEF TypeInv, TypeOK
  <2> QED
    BY <2>2, <2>3, <2>4, <2>5, StaysBy
<1> QED
  BY <1>1, <1>2, <1>3, <1>4, <1>5, <1>6, <1>7, <1>8 DEF Works

LEMMA StaysNext ==
    ASSUME TypeInv, [Next]_vars
    PROVE  Stays
<1>1. CASE Quiet
  BY <1>1, StaysBy DEF Quiet, SameRows, Rests
<1>2. CASE PersistUser \/ PersistAssistant
  <2>1. PICK s \in 1..sessions : /\ rolled[s] = 0 /\ \A t \in Sessions \ {s} : buf'[t] = buf[t]
                                 /\ UNCHANGED <<cursor, rolled, w>>
    BY <1>2, IngestFacts
  <2> SUFFICES ASSUME NEW q \in Workers, w[q].pc = "replace", Deserted(q) PROVE Deserted(q)'
    BY <2>1 DEF Stays
  <2>2. w[q].sid \in Sessions /\ w[q].sid # s
    BY <2>1, SidFacts DEF Deserted
  <2> QED
    BY <2>1, <2>2 DEF Deserted
<1> QED
  BY <1>1, <1>2, Steps, StaysWork

LEMMA GrowFacts ==
    ASSUME Grows
    PROVE  Extracted \subseteq Extracted' /\ Safe \subseteq Safe' /\ Settled \subseteq Settled'
BY DEF Grows, Extracted, Safe, Settled

\* A row leaves a buffer when it may, or when a later session has it.
Sheds == \A s \in Sessions : \A r \in buf[s].rows :
            r \in buf'[s].rows \/ r.id \in Settled' \cup Above(s)'

LEMMA ShedFacts ==
    ASSUME Sheds, Grows
    PROVE  /\ \A s \in Sessions : Above(s) \subseteq Above(s)' \cup Settled'
           /\ Live \subseteq Live' \cup Settled'
<1>1. \A s, t \in Sessions : t > s => Above(t)' \subseteq Above(s)'
  BY ConversationAssumption DEF Above, Sessions
<1>2. ASSUME NEW s \in Sessions, NEW t \in Sessions, t > s, NEW r \in buf[t].rows
      PROVE  r.id \in Above(s)' \cup Settled'
  <2>1. CASE r \in buf'[t].rows
    BY <1>2, <2>1 DEF Above, Ids
  <2>2. CASE r.id \in Settled' \cup Above(t)'
    BY <1>1, <1>2, <2>2
  <2> QED
    BY <2>1, <2>2 DEF Sheds
<1>3. ASSUME NEW t \in Sessions, NEW r \in buf[t].rows
      PROVE  r.id \in Live' \cup Settled'
  <2>1. CASE r \in buf'[t].rows
    BY <2>1 DEF Live, Ids
  <2>2. CASE r.id \in Settled' \cup Above(t)'
    <3>1. Above(t)' \subseteq Live'
      BY DEF Above, Live
    <3> QED
      BY <2>2, <3>1
  <2> QED
    BY <2>1, <2>2 DEF Sheds
<1>4. \A s \in Sessions : Above(s) \subseteq Above(s)' \cup Settled'
  BY <1>2 DEF Above, Ids
<1>5. Live \subseteq Live' \cup Settled'
  BY <1>3 DEF Live, Ids
<1> QED
  BY <1>4, <1>5

\* A worker at rest holds nothing that matters.
LEMMA RestWorks ==
    ASSUME NEW q \in Workers, Rests(q)
    PROVE  WorkInv(q)'
BY DEF Rests, QuietPcs, WorkInv, PassInv, ClosingInv, FoldingInv, SeedingInv, ClosePcs, FoldPcs, SeedPcs

\* A worker whose session's buffer stays is not disturbed.
LEMMA OtherWorks ==
    ASSUME TypeInv, HonestInv, Stays, Grows, Sheds, NEW q \in Workers, w'[q] = w[q],
           w[q].pc # "idle" => buf'[w[q].sid].rows = buf[w[q].sid].rows
    PROVE  WorkInv(q)'
<1> DEFINE s == w[q].sid
<1>0. Extracted \subseteq Extracted' /\ Safe \subseteq Safe' /\ Settled \subseteq Settled' /\ WorkInv(q)
      /\ archive \subseteq archive' /\ overrun \subseteq overrun'
  BY GrowFacts DEF HonestInv, Grows
<1>1. CASE w[q].pc = "idle"
  BY <1>1 DEF WorkInv, PassInv, ClosingInv, FoldingInv, SeedingInv, ClosePcs, FoldPcs, SeedPcs
<1>2. CASE w[q].pc # "idle"
  <2>1. s \in Sessions
    BY <1>2, SidFacts
  <2>2. buf'[s].rows = buf[s].rows
    BY <1>2
  <2>3. PassInv(q)'
    BY <1>0, <2>2 DEF WorkInv, PassInv
  <2>a. Above(s) \subseteq Above(s)' \cup Settled'
    BY <2>1, ShedFacts
  <2>4. ClosingInv(q)'
    BY <1>0, <2>2 DEF WorkInv, ClosingInv
  <2>5. FoldingInv(q)'
    BY <1>0, <2>2 DEF WorkInv, FoldingInv, Stays
  <2>6. SeedingInv(q)'
    BY <1>0, <2>1, <2>2, <2>a DEF WorkInv, SeedingInv, Stays
  <2> QED
    BY <2>3, <2>4, <2>5, <2>6 DEF WorkInv
<1> QED
  BY <1>1, <1>2

\* Nothing is disturbed where the buffers stay.
LEMMA SameBuffers ==
    ASSUME TypeInv, HonestInv, Stays, Grows, UNCHANGED <<appended, buf>>
    PROVE  /\ Kept' /\ Sheds
           /\ \A q \in Workers : w'[q] = w[q] \/ Rests(q) => WorkInv(q)'
           /\ UNCHANGED cursor => CursorInv'
<1>1. Sheds
  BY DEF Sheds
<1>2. Kept'
  BY <1>1, ShedFacts, GrowFacts DEF HonestInv, Kept
<1>3. \A q \in Workers : w'[q] = w[q] \/ Rests(q) => WorkInv(q)'
  BY <1>1, OtherWorks, RestWorks
<1>4. UNCHANGED cursor => CursorInv'
  BY GrowFacts DEF HonestInv, CursorInv
<1> QED
  BY <1>1, <1>2, <1>3, <1>4

\* The locks, when worker p moves: what it takes was free.
LEMMA LockMoves ==
    ASSUME LockInv, NEW p \in Workers, NEW job, NEW pc, NEW sid, NEW rows, NEW batch,
           Becomes(p, job, pc, sid, rows, batch),
           pc \in SeedPcs => w[p].pc \in SeedPcs \/ \A q \in Workers \ {p} : w[q].pc \notin SeedPcs,
           pc \in ClosePcs \cup RollPcs =>
               \/ w[p].pc \in ClosePcs \cup RollPcs /\ w[p].sid = sid
               \/ \A q \in Workers \ {p} : w[q].sid = sid => w[q].pc \notin ClosePcs \cup RollPcs,
           pc \in FoldPcs \cup RollPcs =>
               \/ LockGoesStale
               \/ w[p].pc \in FoldPcs \cup RollPcs /\ w[p].sid = sid
               \/ \A q \in Workers \ {p} : w[q].sid = sid => w[q].pc \notin FoldPcs \cup RollPcs
    PROVE  LockInv'
<1> DEFINE A == ClosePcs \cup RollPcs
           C == FoldPcs \cup RollPcs
<1>1. w'[p].pc = pc /\ w'[p].sid = sid /\ \A q \in Workers \ {p} : w'[q] = w[q]
  BY DEF Becomes
<1>2. \A a, b \in Workers : a # b =>
          /\ w[a].pc \in SeedPcs => w[b].pc \notin SeedPcs
          /\ w[a].sid = w[b].sid => /\ w[a].pc \in A => w[b].pc \notin A
                                    /\ w[a].pc \in C => LockGoesStale \/ w[b].pc \notin C
  BY DEF LockInv
<1>3. /\ pc \in SeedPcs => w[p].pc \in SeedPcs \/ \A q \in Workers \ {p} : w[q].pc \notin SeedPcs
      /\ pc \in A => \/ w[p].pc \in A /\ w[p].sid = sid
                     \/ \A q \in Workers \ {p} : w[q].sid = sid => w[q].pc \notin A
      /\ pc \in C => \/ LockGoesStale
                     \/ w[p].pc \in C /\ w[p].sid = sid
                     \/ \A q \in Workers \ {p} : w[q].sid = sid => w[q].pc \notin C
  OBVIOUS
<1> HIDE DEF A, C
<1>4. \A a, b \in Workers : a # b =>
          /\ w'[a].pc \in SeedPcs => w'[b].pc \notin SeedPcs
          /\ w'[a].sid = w'[b].sid => /\ w'[a].pc \in A => w'[b].pc \notin A
                                      /\ w'[a].pc \in C => LockGoesStale \/ w'[b].pc \notin C
  <2> SUFFICES ASSUME NEW a \in Workers, NEW b \in Workers, a # b
               PROVE  /\ w'[a].pc \in SeedPcs => w'[b].pc \notin SeedPcs
                      /\ w'[a].sid = w'[b].sid => /\ w'[a].pc \in A => w'[b].pc \notin A
                                                  /\ w'[a].pc \in C => LockGoesStale \/ w'[b].pc \notin C
    OBVIOUS
  <2>1. CASE a # p /\ b # p
    BY <1>1, <1>2, <2>1
  <2>2. CASE a = p
    <3>1. w'[b] = w[b] /\ b \in Workers \ {p}
      BY <1>1, <2>2
    <3> QED
      BY <1>1, <1>2, <1>3, <2>2, <3>1
  <2>3. CASE b = p
    <3>1. w'[a] = w[a] /\ a \in Workers \ {p}
      BY <1>1, <2>3
    <3> QED
      BY <1>1, <1>2, <1>3, <2>3, <3>1
  <2> QED
    BY <2>1, <2>2, <2>3
<1> QED
  BY <1>4 DEF LockInv, A, C

LEMMA LockAtRest ==
    ASSUME LockInv, \A q \in Workers : w'[q] = w[q] \/ Rests(q)
    PROVE  LockInv'
<1>1. \A q \in Workers : w'[q] = w[q] \/ w'[q].pc \notin SeedPcs \cup ClosePcs \cup RollPcs \cup FoldPcs
  BY DEF Rests, QuietPcs, SeedPcs, ClosePcs, RollPcs, FoldPcs
<1> QED
  BY <1>1 DEF LockInv

LEMMA QuietHonest ==
    ASSUME TypeInv, HonestInv, Stays, Quiet
    PROVE  HonestInv'
<1>1. Grows /\ UNCHANGED <<appended, buf, cursor, marker, archive>>
      /\ \A q \in Workers : w'[q] = w[q] \/ Rests(q)
  BY DEF Quiet, SameRows, Grows
<1>2. LockInv'
  BY <1>1, LockAtRest DEF HonestInv
<1>3. MarkerInv'
  BY <1>1 DEF HonestInv, MarkerInv
<1> QED
  BY <1>1, <1>2, <1>3, SameBuffers DEF HonestInv

\* A row comes in: nobody rewrites the buffer for good, a fold that would
\* is told, and a pass that has gone by too.
LEMMA PersistHonest ==
    ASSUME TypeInv, HonestInv, Stays, PersistUser \/ PersistAssistant
    PROVE  HonestInv'
<1>1. PICK s \in 1..sessions, row \in RowType :
        /\ row.id = appended + 1 /\ appended' = appended + 1
        /\ ~AppendLocked(s)
        /\ buf'[s].rows = buf[s].rows \cup {row}
        /\ \A t \in Sessions \ {s} : buf'[t] = buf[t]
        /\ overrun \subseteq overrun' /\ behind \subseteq behind'
        /\ \A p \in Workers : w[p].sid = s /\ w[p].pc = "replace" => row.id \in overrun'
        /\ AlreadyPassed(s, row.ts) => row.id \in behind'
        /\ UNCHANGED <<cursor, sessions, archive, marker, memory, poison, w, outran>>
  BY IngestFacts
<1>2. s \in Sessions /\ appended \in Nat
  BY SmallFacts DEF Sessions
<1>3. Grows
  BY <1>1 DEF Grows
<1>4. Sheds
  BY <1>1, <1>2 DEF Sheds
<1>5. Kept'
  <2>1. row.id \in Live'
    BY <1>1, <1>2 DEF Live, Ids
  <2>2. 1..appended \subseteq Live' \cup Settled'
    BY <1>3, <1>4, ShedFacts, GrowFacts DEF HonestInv, Kept
  <2>3. 1..appended' = 1..appended \cup {row.id}
    BY <1>1, <1>2
  <2> QED
    BY <2>1, <2>2, <2>3 DEF Kept
<1>6. LockInv' /\ MarkerInv'
  BY <1>1 DEF HonestInv, LockInv, MarkerInv
<1>7. row.ts \in Nat
  BY RowFields, SmallFacts
<1>8. CursorInv'
  <2> SUFFICES ASSUME NEW t \in Sessions, NEW r \in buf'[t].rows, r.ts <= cursor[t]
               PROVE  r.id \in Extracted'
    BY <1>1 DEF CursorInv
  <2>1. CASE r \in buf[t].rows
    BY <2>1, <1>3, GrowFacts DEF HonestInv, CursorInv
  <2>2. CASE r \notin buf[t].rows
    <3>1. r = row /\ t = s
      BY <2>2, <1>1
    <3> QED
      BY <3>1, <1>1 DEF AlreadyPassed, Extracted
  <2> QED
    BY <2>1, <2>2
<1>9. ASSUME NEW q \in Workers PROVE WorkInv(q)'
  <2>1. w'[q] = w[q] /\ WorkInv(q) /\ Extracted \subseteq Extracted'
    BY <1>1, <1>3, GrowFacts DEF HonestInv
  <2>2. CASE w[q].sid # s \/ w[q].pc = "idle"
    BY <1>1, <1>3, <1>4, <2>1, <2>2, SidFacts, OtherWorks
  <2>3. CASE w[q].sid = s /\ w[q].pc # "idle"
    <3>1. w[q].pc \notin ClosePcs \cup RollPcs
      BY <1>1, <2>3 DEF AppendLocked, RollPcs
    <3>2. PassInv(q)'
      <4> SUFFICES ASSUME w[q].pc = "extract", NEW r \in buf'[s].rows
                   PROVE  r.id \in Extracted' \/ r \in w[q].rows \/ \A x \in w[q].rows : x.ts < r.ts
        BY <2>1, <2>3 DEF PassInv
      <4>1. CASE r \in buf[s].rows
        BY <2>1, <2>3, <4>1 DEF WorkInv, PassInv
      <4>2. CASE r = row
        <5>1. CASE \E x \in Stamps(w[q].rows) : row.ts <= x
          BY <2>3, <4>2, <5>1, <1>1 DEF AlreadyPassed, Extracted
        <5>2. CASE ~\E x \in Stamps(w[q].rows) : row.ts <= x
          <6>1. \A x \in w[q].rows : x.ts \in Nat
            <7>1. w[q].rows \subseteq RowType
              BY JobFields DEF TypeInv
            <7> QED
              BY <7>1, RowFields, SmallFacts
          <6> QED
            BY <4>2, <5>2, <6>1, <1>7 DEF Stamps
        <5> QED
          BY <5>1, <5>2
      <4> QED
        BY <4>1, <4>2, <1>1
    <3>3. ClosingInv(q)'
      BY <2>1, <3>1 DEF WorkInv, ClosingInv
    <3>4. FoldingInv(q)'
      <4>0. Safe \subseteq Safe' /\ overrun' \subseteq Safe'
        BY <1>3, GrowFacts DEF Safe
      <4>1. w[q].pc = "replace" => \A r \in buf'[s].rows : r \in w[q].rows \/ r.id \in Safe'
        BY <1>1, <2>1, <2>3, <4>0 DEF WorkInv, FoldingInv
      <4>2. w[q].pc = "replace" =>
                (\A r \in w[q].rows : r \in buf'[s].rows \/ r.id \in Safe') \/ Deserted(q)'
        BY <1>1, <2>1, <2>3, <4>0 DEF WorkInv, FoldingInv, Stays
      <4> QED
        BY <1>1, <2>1, <2>3, <4>1, <4>2 DEF WorkInv, FoldingInv
    <3>5. SeedingInv(q)'
      BY <2>1, <3>1 DEF SeedingInv, RollPcs, SeedPcs
    <3> QED
      BY <3>2, <3>3, <3>4, <3>5 DEF WorkInv
  <2> QED
    BY <2>2, <2>3
<1> QED
  BY <1>5, <1>6, <1>8, <1>9 DEF HonestInv

\* A pass reads what the cursor has not passed.
LEMMA ReadHonest ==
    ASSUME TypeInv, HonestInv, Stays, SameRows, NEW p \in Workers, NEW job, NEW s \in Sessions, NEW batch,
           Becomes(p, job, "extract", s, RowsAfter(s), batch),
           job = "close" => Ids(batch) \subseteq Extracted \cup Ids(RowsAfter(s))
    PROVE  HonestInv'
<1>1. Grows /\ UNCHANGED <<appended, buf, cursor, marker, archive>>
  BY DEF SameRows, Grows
<1>2. w'[p].pc = "extract" /\ w'[p].sid = s /\ w'[p].rows = RowsAfter(s) /\ w'[p].job = job /\ w'[p].batch = batch
      /\ \A q \in Workers \ {p} : w'[q] = w[q]
  BY DEF Becomes
<1>3. Extracted \subseteq Extracted'
  BY <1>1, GrowFacts
<1>4. LockInv'
  BY LockMoves DEF HonestInv, SeedPcs, ClosePcs, RollPcs, FoldPcs
<1>5. PassInv(p)'
  <2>1. \A r \in buf[s].rows : r.id \in Extracted \/ r \in RowsAfter(s)
    <3>1. \A r \in buf[s].rows : r.ts \in Nat /\ cursor[s] \in Nat
      <4>1. buf[s].rows \subseteq RowType /\ cursor[s] \in 0..MaxTime
        BY BufferFields DEF TypeInv, TypeOK
      <4> QED
        BY <4>1, RowFields, SmallFacts
    <3> QED
      BY <3>1 DEF HonestInv, CursorInv, RowsAfter, Extracted
  <2> QED
    BY <1>1, <1>2, <1>3, <2>1 DEF PassInv
<1>6. WorkInv(p)'
  BY <1>2, <1>3, <1>5 DEF WorkInv, ClosingInv, FoldingInv, SeedingInv, ClosePcs, FoldPcs, SeedPcs
<1>7. \A q \in Workers : WorkInv(q)'
  BY <1>1, <1>2, <1>6, SameBuffers
<1>8. MarkerInv'
  BY <1>1 DEF HonestInv, MarkerInv
<1> QED
  BY <1>1, <1>4, <1>7, <1>8, SameBuffers DEF HonestInv

LEMMA CommitHonest ==
    ASSUME TypeInv, HonestInv, Stays, NEW p \in Workers, ChunkCommitted(p)
    PROVE  HonestInv'
<1> DEFINE s == w[p].sid
           rows == w[p].rows
           chunk == Chunk(rows)
           x == Max(Stamps(chunk))
<1>1. /\ w[p].pc = "extract" /\ rows # {}
      /\ memory' = memory \cup Ids(chunk)
      /\ cursor' = cursor \/ cursor' = [cursor EXCEPT ![s] = x]
      /\ \/ Becomes(p, w[p].job, "extract", s, Rest(rows), w[p].batch)
         \/ \A q \in Workers : w'[q] = w[q] \/ Rests(q)
      /\ UNCHANGED <<appended, buf, sessions, archive, marker, poison, overrun, behind, outran>>
  BY ChunkCommittedFacts
<1>2. /\ chunk \subseteq rows /\ \A r \in chunk : r.ts <= x
      /\ \A r \in rows : r.ts <= x => r \in chunk
      /\ x \in Nat /\ x \in Stamps(chunk)
  <2>1. rows \subseteq RowType
    BY JobFields DEF TypeInv
  <2> QED
    BY <1>1, <2>1, ChunkCut, SmallFacts
<1>3. s \in Sessions
  BY <1>1, SidFacts
<1>4. Grows /\ Extracted' = Extracted \cup Ids(chunk)
  BY <1>1 DEF Grows, Extracted
<1>5. PassInv(p)
  BY DEF HonestInv, WorkInv
<1>6. CursorInv'
  <2>1. ASSUME NEW r \in buf[s].rows, r.ts <= x PROVE r.id \in Extracted'
    <3>1. CASE r \in rows
      BY <3>1, <2>1, <1>2, <1>4 DEF Ids
    <3>2. CASE \A y \in rows : y.ts < r.ts
      <4>1. PICK y \in chunk : y.ts = x
        BY <1>2 DEF Stamps
      <4>2. y.ts < r.ts /\ r.ts \in Nat
        <5>1. buf[s].rows \subseteq RowType
          BY <1>3, BufferFields DEF TypeInv
        <5> QED
          BY <3>2, <4>1, <1>2, <5>1, RowFields, SmallFacts
      <4> QED
        BY <2>1, <4>1, <4>2, <1>2
    <3> QED
      BY <3>1, <3>2, <1>1, <1>4, <1>5 DEF PassInv
  <2>2. \A t \in Sessions : cursor'[t] = cursor[t] \/ (t = s /\ cursor'[t] = x)
    BY <1>1, <1>3 DEF TypeInv, TypeOK
  <2> SUFFICES ASSUME NEW t \in Sessions, NEW r \in buf[t].rows, r.ts <= cursor'[t]
               PROVE  r.id \in Extracted'
    BY <1>1 DEF CursorInv
  <2>3. CASE cursor'[t] = cursor[t]
    BY <2>3, <1>4 DEF HonestInv, CursorInv
  <2>4. CASE t = s /\ cursor'[t] = x
    BY <2>1, <2>4
  <2> QED
    BY <2>2, <2>3, <2>4
<1>7. MarkerInv'
  BY <1>1 DEF HonestInv, MarkerInv
<1> HIDE DEF chunk
<1>8. CASE \A q \in Workers : w'[q] = w[q] \/ Rests(q)
  <2>1. LockInv'
    BY <1>8, LockAtRest DEF HonestInv
  <2> QED
    BY <1>1, <1>4, <1>6, <1>7, <1>8, <2>1, SameBuffers DEF HonestInv
<1>9. CASE Becomes(p, w[p].job, "extract", s, Rest(rows), w[p].batch)
  <2>1. w'[p].pc = "extract" /\ w'[p].sid = s /\ w'[p].rows = Rest(rows) /\ w'[p].job = w[p].job
        /\ w'[p].batch = w[p].batch /\ \A q \in Workers \ {p} : w'[q] = w[q]
    BY <1>9 DEF Becomes
  <2>2. LockInv'
    BY <1>9, LockMoves DEF HonestInv, SeedPcs, ClosePcs, RollPcs, FoldPcs
  <2>3. Rest(rows) = rows \ chunk
    BY DEF Rest, chunk
  <2>4. PassInv(p)'
    <3>1. \A r \in rows : r.id \in Extracted' \/ r \in Rest(rows)
      BY <2>3, <1>4 DEF Ids
    <3> QED
      BY <1>1, <1>4, <1>5, <2>1, <2>3, <3>1 DEF PassInv
  <2>5. ClosingInv(p)'
    <3>1. Ids(rows) \subseteq Extracted' \cup Ids(Rest(rows))
      BY <2>3, <1>4 DEF Ids
    <3>2. w[p].job = "close" => Ids(w[p].batch) \subseteq Extracted' \cup Ids(Rest(rows))
      BY <1>1, <1>4, <3>1 DEF HonestInv, WorkInv, ClosingInv
    <3> QED
      BY <2>1, <3>2 DEF ClosingInv, ClosePcs
  <2>6. WorkInv(p)'
    BY <2>1, <2>4, <2>5 DEF WorkInv, FoldingInv, SeedingInv, FoldPcs, SeedPcs
  <2>7. \A q \in Workers : WorkInv(q)'
    BY <1>1, <1>4, <2>1, <2>6, SameBuffers
  <2> QED
    BY <1>1, <1>4, <1>6, <1>7, <2>2, <2>7, SameBuffers DEF HonestInv
<1> QED
  BY <1>1, <1>8, <1>9

LEMMA GateHonest ==
    ASSUME TypeInv, HonestInv, Stays, NEW p \in Workers, Gate(p)
    PROVE  HonestInv'
<1> DEFINE s == w[p].sid
<1>1. CASE Quiet
  BY <1>1, QuietHonest
<1>2. CASE ~Quiet
  <2>1. /\ w[p].pc = "gate"
        /\ \E tried \in SUBSET RowsAfter(s) :
              /\ tried # {} /\ \A r \in RowsAfter(s), q \in tried : r.ts <= q.ts => r \in tried
              /\ poison' = poison \cup Ids(Chunk(tried))
              /\ cursor' = cursor \/ cursor' = [cursor EXCEPT ![s] = Max(Stamps(Chunk(tried)))]
        /\ \A q \in Workers : w'[q] = w[q] \/ Rests(q)
        /\ UNCHANGED <<appended, buf, sessions, archive, marker, memory, overrun, behind, outran>>
    BY <1>2, GateFacts
  <2>2. PICK tried \in SUBSET RowsAfter(s) :
              /\ tried # {} /\ \A r \in RowsAfter(s), q \in tried : r.ts <= q.ts => r \in tried
              /\ poison' = poison \cup Ids(Chunk(tried))
              /\ cursor' = cursor \/ cursor' = [cursor EXCEPT ![s] = Max(Stamps(Chunk(tried)))]
    BY <2>1
  <2> DEFINE chunk == Chunk(tried)
             x == Max(Stamps(chunk))
  <2>3. s \in Sessions /\ buf[s].rows \subseteq RowType /\ cursor[s] \in Nat
    BY <2>1, SidFacts, BufferFields, SmallFacts DEF TypeOK
  <2>4. /\ chunk \subseteq tried /\ x \in Nat
        /\ \A r \in tried : r.ts <= x => r \in chunk
        /\ \E y \in tried : y.ts = x
    <3>1. tried \subseteq RowType
      BY <2>3 DEF RowsAfter
    <3>2. /\ chunk \subseteq tried /\ x \in Nat /\ x \in Stamps(chunk)
          /\ \A r \in tried : r.ts <= x => r \in chunk
      BY <2>2, <3>1, ChunkCut, SmallFacts
    <3> QED
      BY <3>2 DEF Stamps
  <2>5. Grows /\ Extracted' = Extracted \cup Ids(chunk)
    BY <2>1, <2>2 DEF Grows, Extracted
  <2> HIDE DEF chunk
  <2>6. ASSUME NEW r \in buf[s].rows, r.ts <= x PROVE r.id \in Extracted'
    <3>1. CASE r \in RowsAfter(s)
      BY <3>1, <2>2, <2>4, <2>5, <2>6 DEF Ids
    <3>2. CASE r \notin RowsAfter(s)
      <4>1. r.ts \in Nat
        BY <2>3, RowFields, SmallFacts
      <4>2. r.ts <= cursor[s]
        BY <3>2, <4>1, <2>3 DEF RowsAfter
      <4> QED
        BY <4>2, <2>3, <2>5 DEF HonestInv, CursorInv
    <3> QED
      BY <3>1, <3>2
  <2>7. CursorInv'
    <3>1. \A t \in Sessions : cursor'[t] = cursor[t] \/ (t = s /\ cursor'[t] = x)
      BY <2>2, <2>3 DEF TypeInv, TypeOK, chunk
    <3> HIDE DEF x
    <3> SUFFICES ASSUME NEW t \in Sessions, NEW r \in buf[t].rows, r.ts <= cursor'[t]
                 PROVE  r.id \in Extracted'
      BY <2>1 DEF CursorInv
    <3>2. CASE cursor'[t] = cursor[t]
      BY <3>2, <2>5 DEF HonestInv, CursorInv
    <3>3. CASE t = s /\ cursor'[t] = x
      BY <2>6, <3>3
    <3> QED
      BY <3>1, <3>2, <3>3
  <2>8. LockInv' /\ MarkerInv'
    BY <2>1, LockAtRest DEF HonestInv, MarkerInv
  <2> QED
    BY <2>1, <2>5, <2>7, <2>8, SameBuffers DEF HonestInv
<1> QED
  BY <1>1, <1>2

\* A pass, whatever it does next.
LEMMA ExtractHonest ==
    ASSUME TypeInv, HonestInv, Stays, NEW p \in Workers,
           \/ \E job \in Jobs, s \in Sessions : StartExtract(p, job, s)
           \/ ChunkCommitted(p) \/ (ExtractEnds(p) /\ w[p].job = "close") \/ Gate(p) \/ ExtractAgain(p)
    PROVE  HonestInv'
<1>1. ASSUME NEW job \in Jobs, NEW s \in Sessions, StartExtract(p, job, s) PROVE HonestInv'
  <2>1. /\ SameRows /\ SmallInv'
        /\ \/ job = "finalize" /\ Becomes(p, job, "gate", s, {}, {})
           \/ Becomes(p, job, "extract", s, RowsAfter(s), IF job = "close" THEN RowsAfter(s) ELSE {})
    BY <1>1, StartExtractFacts
  <2>2. CASE Becomes(p, job, "gate", s, {}, {})
    <3>1. WorkInv(p)'
      BY <2>2 DEF Becomes, WorkInv, PassInv, ClosingInv, FoldingInv, SeedingInv, ClosePcs, FoldPcs, SeedPcs
    <3>2. LockInv'
      BY <2>2, LockMoves DEF HonestInv, SeedPcs, ClosePcs, RollPcs, FoldPcs
    <3>3. Grows /\ UNCHANGED <<appended, buf, cursor, marker, archive>> /\ \A q \in Workers \ {p} : w'[q] = w[q]
      BY <2>1, <2>2 DEF SameRows, Grows, Becomes
    <3>4. MarkerInv'
      BY <3>3 DEF HonestInv, MarkerInv
    <3> QED
      BY <3>1, <3>2, <3>3, <3>4, SameBuffers DEF HonestInv
  <2>3. CASE Becomes(p, job, "extract", s, RowsAfter(s), IF job = "close" THEN RowsAfter(s) ELSE {})
    <3> DEFINE batch == IF job = "close" THEN RowsAfter(s) ELSE {}
    <3>1. job = "close" => Ids(batch) \subseteq Extracted \cup Ids(RowsAfter(s))
      OBVIOUS
    <3>2. Becomes(p, job, "extract", s, RowsAfter(s), batch)
      BY <2>3
    <3> HIDE DEF batch
    <3> QED
      BY <2>1, <3>1, <3>2, ReadHonest
  <2> QED
    BY <2>1, <2>2, <2>3
<1>2. ASSUME ExtractEnds(p), w[p].job = "close" PROVE HonestInv'
  <2>1. /\ SameRows /\ w[p].pc = "extract" /\ w[p].rows = {}
        /\ Becomes(p, "close", "close", w[p].sid, w[p].rows, w[p].batch)
    BY <1>2, CloseBeginsFacts
  <2>2. Grows /\ UNCHANGED <<appended, buf, cursor, marker, archive>>
    BY <2>1 DEF SameRows, Grows
  <2>3. w'[p].pc = "close" /\ w'[p].batch = w[p].batch /\ \A q \in Workers \ {p} : w'[q] = w[q]
    BY <2>1 DEF Becomes
  <2>4. LockInv'
    BY <2>1, LockMoves DEF HonestInv, SeedPcs, ClosePcs, RollPcs, FoldPcs
  <2>5. Ids(w[p].batch) \subseteq Extracted'
    <3>1. Ids(w[p].batch) \subseteq Extracted \cup Ids(w[p].rows)
      BY <1>2, <2>1 DEF HonestInv, WorkInv, ClosingInv
    <3> QED
      BY <2>1, <2>2, <3>1, GrowFacts DEF Ids
  <2>6. WorkInv(p)'
    BY <2>3, <2>5 DEF WorkInv, PassInv, ClosingInv, FoldingInv, SeedingInv, ClosePcs, FoldPcs, SeedPcs
  <2>7. MarkerInv'
    BY <2>2 DEF HonestInv, MarkerInv
  <2> QED
    BY <2>2, <2>3, <2>4, <2>6, <2>7, SameBuffers DEF HonestInv
<1>3. ASSUME ExtractAgain(p), ~Quiet PROVE HonestInv'
  <2>1. /\ SameRows /\ w[p].pc = "again"
        /\ Becomes(p, w[p].job, "extract", w[p].sid, RowsAfter(w[p].sid), w[p].batch)
    BY <1>3, ExtractAgainFacts
  <2>2. w[p].sid \in Sessions /\ w[p].job # "close"
    BY <2>1, SidFacts DEF TypeInv, StageInv, QuietPcs
  <2> QED
    BY <2>1, <2>2, ReadHonest
<1> QED
  BY <1>1, <1>2, <1>3, CommitHonest, GateHonest, QuietHonest

\* A worker moves on where the buffers stay: what is left to show is its own
\* part, and that it took no lock somebody had.
LEMMA MoveHonest ==
    ASSUME TypeInv, HonestInv, Stays, Grows, UNCHANGED <<appended, buf, cursor>>, NEW p \in Workers,
           \A q \in Workers \ {p} : w'[q] = w[q],
           LockInv', MarkerInv', WorkInv(p)'
    PROVE  HonestInv'
BY SameBuffers DEF HonestInv

LEMMA CloseHonest ==
    ASSUME TypeInv, HonestInv, Stays, NEW p \in Workers, CloseArchive(p) \/ CloseMark(p) \/ CloseConfirm(p)
    PROVE  HonestInv'
<1>a. PICK s \in Sessions : s = w[p].sid
  BY SidFacts DEF CloseArchive, CloseMark, CloseConfirm
<1>1. ASSUME CloseArchive(p), ~Quiet PROVE HonestInv'
  <2>1. /\ w[p].pc = "close" /\ ~AppendLocked(s)
        /\ Ids(RowsAfter(s)) \subseteq Ids(w[p].batch)
        /\ AppendArchive(s, buf[s].rows, 0)
        /\ UNCHANGED <<appended, buf, cursor, marker, memory, poison, overrun, behind, outran>>
    BY <1>a, <1>1, CloseArchiveFacts
  <2>2. PICK pc \in {"closeMark", "closeConfirm"} : Becomes(p, w[p].job, pc, s, buf[s].rows, w[p].batch)
    BY <1>a, <1>1, CloseArchiveFacts
  <2>3. s \in Sessions /\ buf[s].rows \subseteq RowType /\ cursor[s] \in Nat
    BY BufferFields, SmallFacts DEF TypeInv, TypeOK
  <2>4. archive \subseteq archive' /\ Ids(buf[s].rows) \subseteq archive'
    BY <2>1, <2>3, ArchiveFacts DEF HonestInv, MarkerInv
  <2>5. Grows
    BY <2>1, <2>4 DEF Grows
  <2>6. Ids(buf[s].rows) \subseteq Extracted
    <3> SUFFICES ASSUME NEW r \in buf[s].rows PROVE r.id \in Extracted
      BY DEF Ids
    <3>1. CASE r \in RowsAfter(s)
      BY <1>a, <2>1, <3>1 DEF HonestInv, WorkInv, ClosingInv, Ids
    <3>2. CASE r \notin RowsAfter(s)
      <4>1. r.ts \in Nat
        BY <2>3, RowFields, SmallFacts
      <4>2. r.ts <= cursor[s]
        BY <3>2, <4>1, <2>3 DEF RowsAfter
      <4> QED
        BY <4>2, <2>3 DEF HonestInv, CursorInv
    <3> QED
      BY <3>1, <3>2
  <2>7. Ids(buf[s].rows) \subseteq Safe'
    BY <2>4, <2>5, <2>6, GrowFacts DEF Safe
  <2>8. w'[p].pc = pc /\ w'[p].sid = s /\ w'[p].rows = buf[s].rows /\ \A q \in Workers \ {p} : w'[q] = w[q]
    BY <2>2 DEF Becomes
  <2>9. WorkInv(p)'
    BY <2>1, <2>4, <2>7, <2>8 DEF WorkInv, PassInv, ClosingInv, FoldingInv, SeedingInv, ClosePcs, FoldPcs, SeedPcs
  <2>10. LockInv'
    <3>1. \A q \in Workers \ {p} : w[q].sid = s => w[q].pc \notin ClosePcs \cup RollPcs
      BY <2>1 DEF AppendLocked, RollPcs
    <3>2. pc \notin SeedPcs /\ pc \notin FoldPcs \cup RollPcs
      BY DEF SeedPcs, RollPcs, FoldPcs
    <3> DEFINE rows == buf[s].rows
               batch == w[p].batch
               job == w[p].job
    <3>3. Becomes(p, job, pc, s, rows, batch)
      BY <2>2
    <3> HIDE DEF rows, batch, job
    <3> QED
      BY <1>a, <3>1, <3>2, <3>3, LockMoves DEF HonestInv
  <2>11. MarkerInv'
    BY <2>1, <2>4 DEF HonestInv, MarkerInv
  <2> QED
    BY <2>1, <2>5, <2>8, <2>9, <2>10, <2>11, MoveHonest
<1>2. ASSUME CloseMark(p) PROVE HonestInv'
  <2>1. /\ w[p].pc = "closeMark"
        /\ marker'[s].batch = w[p].rows /\ \A t \in Sessions \ {s} : marker'[t] = marker[t]
        /\ Becomes(p, w[p].job, "closeConfirm", s, w[p].rows, w[p].batch)
        /\ UNCHANGED <<appended, buf, cursor, archive, memory, poison, overrun, behind, outran>>
    BY <1>a, <1>2, CloseMarkFacts
  <2>2. Grows
    BY <2>1 DEF Grows
  <2>3. w'[p].pc = "closeConfirm" /\ w'[p].sid = s /\ w'[p].rows = w[p].rows /\ \A q \in Workers \ {p} : w'[q] = w[q]
    BY <2>1 DEF Becomes
  <2>4. Ids(w[p].rows) \subseteq archive /\ Ids(buf[s].rows) \subseteq Safe
    BY <1>a, <2>1 DEF HonestInv, WorkInv, ClosingInv, ClosePcs
  <2>5. Ids(buf[s].rows) \subseteq Safe'
    BY <2>1, <2>2, <2>4, GrowFacts
  <2>6. WorkInv(p)'
    BY <2>1, <2>3, <2>4, <2>5 DEF WorkInv, PassInv, ClosingInv, FoldingInv, SeedingInv, ClosePcs, FoldPcs, SeedPcs
  <2>7. LockInv'
    BY <1>a, <2>1, LockMoves DEF HonestInv, SeedPcs, ClosePcs, RollPcs, FoldPcs
  <2>8. MarkerInv'
    BY <2>1, <2>4 DEF HonestInv, MarkerInv
  <2> QED
    BY <2>1, <2>2, <2>3, <2>6, <2>7, <2>8, MoveHonest
<1>3. ASSUME CloseConfirm(p), ~Quiet PROVE HonestInv'
  <2>1. /\ SameRows /\ w[p].pc = "closeConfirm"
        /\ Becomes(p, w[p].job, "closeDelete", s, w[p].rows, w[p].batch)
    BY <1>a, <1>3, CloseConfirmFacts
  <2>2. Grows /\ UNCHANGED <<appended, buf, cursor, marker, archive>>
    BY <2>1 DEF SameRows, Grows
  <2>3. w'[p].pc = "closeDelete" /\ w'[p].sid = s /\ w'[p].rows = w[p].rows /\ \A q \in Workers \ {p} : w'[q] = w[q]
    BY <2>1 DEF Becomes
  <2>4. Ids(w[p].rows) \subseteq archive /\ Ids(buf[s].rows) \subseteq Safe
    BY <1>a, <2>1 DEF HonestInv, WorkInv, ClosingInv, ClosePcs
  <2>5. Ids(buf[s].rows) \subseteq Safe'
    BY <2>1, <2>2, <2>4, GrowFacts
  <2>6. WorkInv(p)'
    BY <2>2, <2>3, <2>4, <2>5 DEF WorkInv, PassInv, ClosingInv, FoldingInv, SeedingInv, ClosePcs, FoldPcs, SeedPcs
  <2>7. LockInv'
    BY <1>a, <2>1, LockMoves DEF HonestInv, SeedPcs, ClosePcs, RollPcs, FoldPcs
  <2>8. MarkerInv'
    BY <2>2 DEF HonestInv, MarkerInv
  <2> QED
    BY <2>2, <2>3, <2>6, <2>7, <2>8, MoveHonest
<1> QED
  BY <1>1, <1>2, <1>3, QuietHonest

\* A buffer is rewritten by the one worker that may.
LEMMA RewriteHonest ==
    ASSUME TypeInv, HonestInv, Stays, NEW p \in Workers, NEW s \in Sessions,
           UNCHANGED <<appended, archive, marker, memory, poison, overrun, behind, outran>>,
           \A t \in Sessions \ {s} : buf'[t] = buf[t],
           Sheds,
           \/ \A r \in buf'[s].rows : r \in buf[s].rows \/ r.id \in Safe
           \/ /\ \A r \in buf'[s].rows : ~(r.ts <= cursor[s])
              /\ \A q \in Workers \ {p} : w[q].pc # "idle" => w[q].sid # s,
           \A t \in Sessions : cursor'[t] = cursor[t] \/ buf'[t].rows = {},
           \A q \in Workers \ {p} : w'[q] = w[q] \/ Rests(q),
           \A q \in Workers \ {p} : w[q].pc \in RollPcs \cup {"replace"} /\ w[q].sid = s =>
               \/ \A r \in buf[s].rows : r \in buf'[s].rows \/ r.id \in Safe
               \/ w[q].pc = "replace" /\ buf'[s].rows = {} /\ Deserted(q)'
    PROVE  CursorInv' /\ Kept' /\ MarkerInv' /\ \A q \in Workers \ {p} : WorkInv(q)'
<1>1. Grows
  BY DEF Grows
<1>2. Extracted' = Extracted /\ Settled' = Settled /\ Safe' = Safe /\ Safe \subseteq Extracted
  BY DEF Extracted, Safe, Settled
<1>3. CursorInv'
  <2> SUFFICES ASSUME NEW t \in Sessions, NEW r \in buf'[t].rows, r.ts <= cursor'[t]
               PROVE  r.id \in Extracted
    BY <1>2 DEF CursorInv
  <2>1. cursor'[t] = cursor[t]
    OBVIOUS
  <2>2. r \in buf[t].rows \/ r.id \in Extracted
    BY <1>2, <2>1
  <2> QED
    BY <2>1, <2>2 DEF HonestInv, CursorInv
<1>4. Kept'
  BY <1>1, <1>2, ShedFacts DEF HonestInv, Kept
<1>5. MarkerInv'
  BY DEF HonestInv, MarkerInv
<1>6. ASSUME NEW q \in Workers \ {p} PROVE WorkInv(q)'
  <2>1. CASE Rests(q)
    BY <2>1, RestWorks
  <2>2. CASE w'[q] = w[q] /\ (w[q].pc = "idle" \/ w[q].sid # s)
    BY <1>1, <2>2, SidFacts, OtherWorks
  <2>3. CASE w'[q] = w[q] /\ w[q].pc # "idle" /\ w[q].sid = s
    <3>1. WorkInv(q) /\ \A r \in buf'[s].rows : r \in buf[s].rows \/ r.id \in Safe
      BY <2>3 DEF HonestInv
    <3>2. w[q].pc \in RollPcs => \A r \in buf[s].rows : r \in buf'[s].rows \/ r.id \in Safe
      BY <2>3 DEF RollPcs, SeedPcs
    <3>3. PassInv(q)'
      BY <1>2, <2>3, <3>1 DEF WorkInv, PassInv
    <3>4. ClosingInv(q)'
      <4>1. w[q].pc \in ClosePcs => Ids(buf'[s].rows) \subseteq Safe
        BY <2>3, <3>1 DEF WorkInv, ClosingInv, Ids
      <4> QED
        BY <1>2, <2>3, <3>1, <4>1 DEF WorkInv, ClosingInv
    <3>5. FoldingInv(q)'
      <4>1. w[q].pc = "replace" => \A r \in buf'[s].rows : r \in w[q].rows \/ r.id \in Safe
        BY <2>3, <3>1 DEF WorkInv, FoldingInv
      <4>2. w[q].pc = "replace" => (\A r \in w[q].rows : r \in buf'[s].rows \/ r.id \in Safe) \/ Deserted(q)'
        BY <2>3, <3>1 DEF WorkInv, FoldingInv, Stays
      <4> QED
        BY <1>2, <2>3, <3>1, <4>1, <4>2 DEF WorkInv, FoldingInv
    <3>6. SeedingInv(q)'
      <4>1. w[q].pc \in {"seedMark", "seedTrim"} =>
                \A r \in buf'[s].rows : r \in w[q].rows \cup w[q].batch \/ r.id \in Safe
        BY <2>3, <3>1 DEF WorkInv, SeedingInv
      <4>2. w[q].pc \in SeedPcs => \A r \in w[q].rows : r \in buf'[s].rows \/ r.id \in Safe
        BY <2>3, <3>1, <3>2 DEF WorkInv, SeedingInv, RollPcs
      <4>3. w[q].pc \in {"seedNew", "seedPoint", "seedDelete"} =>
                \A r \in buf'[s].rows : r \in w[q].rows \/ r.id \in Safe
        BY <2>3, <3>1 DEF WorkInv, SeedingInv
      <4>4. w[q].pc \in {"seedPoint", "seedDelete"} => Ids(w[q].rows) \subseteq Above(s)' \cup Settled'
        BY <1>1, <1>2, <2>3, <3>1, ShedFacts DEF WorkInv, SeedingInv
      <4>5. w[q].pc = "seedDelete" => rolled'[s] # 0
        BY <2>3, <3>1 DEF WorkInv, SeedingInv, Stays
      <4> QED
        BY <1>2, <2>3, <3>1, <4>1, <4>2, <4>3, <4>4, <4>5 DEF WorkInv, SeedingInv
    <3> QED
      BY <3>3, <3>4, <3>5, <3>6 DEF WorkInv
  <2> QED
    BY <2>1, <2>2, <2>3
<1> QED
  BY <1>3, <1>4, <1>5, <1>6

LEMMA DeleteHonest ==
    ASSUME TypeInv, HonestInv, Stays, NEW p \in Workers, CloseDelete(p) \/ SeedDelete(p)
    PROVE  HonestInv'
<1>a. PICK s \in Sessions : s = w[p].sid
  BY SidFacts DEF CloseDelete, SeedDelete
<1>1. /\ w[p].pc = (IF CloseDelete(p) THEN "closeDelete" ELSE "seedDelete")
      /\ s \in 1..sessions
      /\ buf'[s] = Absent /\ buf'[s].rows = {} /\ \A t \in Sessions \ {s} : buf'[t] = buf[t]
      /\ cursor' = [cursor EXCEPT ![s] = 0]
      /\ Rests(p) /\ \A q \in Workers : w'[q] = w[q] \/ Rests(q)
      /\ UNCHANGED <<appended, sessions, archive, marker, memory, poison, overrun, behind, outran>>
  BY <1>a, DeleteFacts
<1>2. w[p].pc \in {"closeDelete", "seedDelete"} /\ WorkInv(p)
  BY <1>1 DEF HonestInv
<1>3. Safe' = Safe /\ Settled' = Settled /\ Safe \subseteq Settled
  BY <1>1 DEF Safe, Settled, Extracted
<1>4. /\ Ids(buf[s].rows) \subseteq Settled \cup Above(s)
      /\ w[p].pc = "closeDelete" => Ids(buf[s].rows) \subseteq Safe
  BY <1>a, <1>2, <1>3 DEF WorkInv, ClosingInv, SeedingInv, ClosePcs, Ids
<1>5. Sheds
  <2>1. \A t \in Sessions : t > s => buf'[t] = buf[t]
    BY <1>1, SmallFacts DEF Sessions
  <2>2. Above(s) \subseteq Above(s)'
    BY <2>1 DEF Above
  <2>3. \A r \in buf[s].rows : r.id \in Settled' \cup Above(s)'
    BY <1>3, <1>4, <2>2 DEF Ids
  <2> QED
    BY <1>1, <2>3 DEF Sheds
<1>6. cursor'[s] = 0 /\ \A t \in Sessions : cursor'[t] = cursor[t] \/ buf'[t].rows = {}
  BY <1>1 DEF TypeInv, TypeOK
<1>7. ASSUME NEW q \in Workers \ {p}, w[q].pc \in RollPcs \cup {"replace"}, w[q].sid = s
      PROVE  \/ \A r \in buf[s].rows : r \in buf'[s].rows \/ r.id \in Safe
             \/ w[q].pc = "replace" /\ buf'[s].rows = {} /\ Deserted(q)'
  <2>1. w[p].pc \in ClosePcs \cup RollPcs
    BY <1>2 DEF ClosePcs, RollPcs
  <2>2. w[q].pc = "replace"
    BY <1>a, <1>7, <2>1 DEF HonestInv, LockInv
  <2>3. CASE w[p].pc = "closeDelete"
    BY <1>4, <2>3 DEF Ids
  <2>4. CASE w[p].pc = "seedDelete"
    <3>1. rolled'[s] # 0
      BY <1>a, <1>2, <2>4 DEF WorkInv, SeedingInv, Stays
    <3>2. w' = [w EXCEPT ![p] = Idle] /\ w \in [Workers -> JobType]
      BY <2>4 DEF CloseDelete, SeedDelete, End, TypeInv, TypeOK
    <3>3. w'[q] = w[q] /\ w'[p].pc = "idle"
      BY <1>7, <3>2 DEF Idle
    <3>4. Workers \ {q} = {p}
      BY <1>7 DEF Workers
    <3> QED
      BY <1>1, <1>6, <1>7, <2>2, <3>1, <3>3, <3>4 DEF Deserted
  <2> QED
    BY <1>2, <2>3, <2>4
<1>8. CursorInv' /\ Kept' /\ MarkerInv' /\ \A q \in Workers \ {p} : WorkInv(q)'
  <2>1. \A q \in Workers \ {p} : w'[q] = w[q] \/ Rests(q)
    BY <1>1
  <2>2. \A r \in buf'[s].rows : r \in buf[s].rows \/ r.id \in Safe
    BY <1>1
  <2>3. UNCHANGED <<appended, archive, marker, memory, poison, overrun, behind, outran>>
        /\ \A t \in Sessions \ {s} : buf'[t] = buf[t]
    BY <1>1
  <2> QED
    BY <1>5, <1>6, <1>7, <2>1, <2>2, <2>3, RewriteHonest
<1>9. LockInv'
  BY <1>1, LockAtRest DEF HonestInv
<1> QED
  BY <1>1, <1>8, <1>9, RestWorks DEF HonestInv

LEMMA ReplaceHonest ==
    ASSUME TypeInv, HonestInv, Stays, NEW p \in Workers, FoldReplace(p)
    PROVE  HonestInv'
<1>a. PICK s \in Sessions : s = w[p].sid
  BY SidFacts DEF FoldReplace
<1>1. /\ w[p].pc = "replace" /\ s \in 1..sessions
      /\ buf'[s].rows = w[p].rows /\ \A t \in Sessions \ {s} : buf'[t] = buf[t]
      /\ Rests(p) /\ \A q \in Workers : w'[q] = w[q] \/ Rests(q)
      /\ UNCHANGED <<appended, cursor, sessions, archive, marker, memory, poison, overrun, behind, outran>>
  BY <1>a, FoldReplaceFacts
<1>2. WorkInv(p)
  BY DEF HonestInv
<1>3. Safe' = Safe /\ Settled' = Settled /\ Safe \subseteq Settled
  BY <1>1 DEF Safe, Settled, Extracted
<1>4. /\ \A r \in buf[s].rows : r \in w[p].rows \/ r.id \in Safe
      /\ (\A r \in w[p].rows : r \in buf[s].rows \/ r.id \in Safe) \/ Deserted(p)
  BY <1>a, <1>1, <1>2 DEF WorkInv, FoldingInv
<1>5. Sheds
  BY <1>1, <1>3, <1>4 DEF Sheds
<1>6. \/ \A r \in buf'[s].rows : r \in buf[s].rows \/ r.id \in Safe
      \/ /\ \A r \in buf'[s].rows : ~(r.ts <= cursor[s])
         /\ \A q \in Workers \ {p} : w[q].pc # "idle" => w[q].sid # s
  <2>1. CASE Deserted(p)
    <3>1. w[p].rows \subseteq RowType
      BY JobFields DEF TypeInv
    <3>2. \A r \in w[p].rows : ~(r.ts <= 0)
      BY <3>1, RowFields, SmallFacts
    <3> QED
      BY <1>a, <1>1, <2>1, <3>2 DEF Deserted
  <2> QED
    BY <1>1, <1>4, <2>1
<1>7. CursorInv' /\ Kept' /\ MarkerInv' /\ \A q \in Workers \ {p} : WorkInv(q)'
  <2>1. UNCHANGED <<appended, archive, marker, memory, poison, overrun, behind, outran>>
        /\ \A t \in Sessions \ {s} : buf'[t] = buf[t]
    BY <1>1
  <2>2. \A q \in Workers \ {p} : w[q].pc \in RollPcs \cup {"replace"} /\ w[q].sid = s =>
            \/ \A r \in buf[s].rows : r \in buf'[s].rows \/ r.id \in Safe
            \/ w[q].pc = "replace" /\ buf'[s].rows = {} /\ Deserted(q)'
    BY <1>1, <1>4
  <2>3. \A q \in Workers \ {p} : w'[q] = w[q] \/ Rests(q)
    BY <1>1
  <2>4. \A t \in Sessions : cursor'[t] = cursor[t] \/ buf'[t].rows = {}
    BY <1>1
  <2> QED
    BY <1>5, <1>6, <2>1, <2>2, <2>3, <2>4, RewriteHonest
<1>8. LockInv'
  BY <1>1, LockAtRest DEF HonestInv
<1> QED
  BY <1>1, <1>7, <1>8, RestWorks DEF HonestInv

LEMMA TrimHonest ==
    ASSUME TypeInv, HonestInv, Stays, NEW p \in Workers, SeedTrim(p)
    PROVE  HonestInv'
<1>a. PICK s \in Sessions : s = w[p].sid
  BY SidFacts DEF SeedTrim
<1>1. /\ w[p].pc = "seedTrim" /\ s \in 1..sessions
      /\ buf'[s].rows = w[p].rows /\ \A t \in Sessions \ {s} : buf'[t] = buf[t]
      /\ Becomes(p, w[p].job, "seedNew", s, w[p].rows, w[p].batch)
      /\ UNCHANGED <<appended, cursor, sessions, archive, marker, memory, poison, overrun, behind, outran>>
  BY <1>a, SeedTrimFacts
<1>2. WorkInv(p)
  BY DEF HonestInv
<1>3. Settled' = Settled
  BY <1>1 DEF Safe, Settled, Extracted
<1>4. /\ Ids(w[p].batch) \subseteq Settled
      /\ \A r \in buf[s].rows : r \in w[p].rows \cup w[p].batch \/ r.id \in Safe
      /\ \A r \in w[p].rows : r \in buf[s].rows \/ r.id \in Safe
  BY <1>a, <1>1, <1>2 DEF WorkInv, SeedingInv, SeedPcs
<1>5. Sheds
  <2>1. \A r \in buf[s].rows : r \in buf'[s].rows \/ r.id \in Settled'
    BY <1>1, <1>3, <1>4 DEF Ids, Settled
  <2> QED
    BY <1>1, <2>1 DEF Sheds
<1>6. ASSUME NEW q \in Workers \ {p}, w[q].pc \in RollPcs \cup {"replace"}, w[q].sid = s, NEW r \in w[p].batch
      PROVE  r.id \in Safe
  <2>1. w[p].pc \in ClosePcs \cup RollPcs /\ w[p].pc \in FoldPcs \cup RollPcs
    BY <1>1 DEF RollPcs, SeedPcs
  <2>2. w[q].pc \notin ClosePcs \cup RollPcs
    BY <1>a, <1>6, <2>1 DEF HonestInv, LockInv
  <2>3. w[q].pc \in FoldPcs \cup RollPcs
    BY <1>6 DEF FoldPcs
  <2>4. LockGoesStale
    BY <1>a, <1>6, <2>1, <2>3 DEF HonestInv, LockInv
  <2> QED
    BY <2>4, <1>4 DEF Settled, Safe, Extracted, Ids
<1>7. w'[p].pc = "seedNew" /\ w'[p].sid = s /\ w'[p].rows = w[p].rows /\ \A q \in Workers \ {p} : w'[q] = w[q]
  BY <1>1 DEF Becomes
<1>8. CursorInv' /\ Kept' /\ MarkerInv' /\ \A q \in Workers \ {p} : WorkInv(q)'
  <2>1. UNCHANGED <<appended, archive, marker, memory, poison, overrun, behind, outran>>
        /\ \A t \in Sessions \ {s} : buf'[t] = buf[t]
    BY <1>1
  <2>2. \A r \in buf'[s].rows : r \in buf[s].rows \/ r.id \in Safe
    BY <1>1, <1>4
  <2>3. \A q \in Workers \ {p} : w[q].pc \in RollPcs \cup {"replace"} /\ w[q].sid = s =>
            \A r \in buf[s].rows : r \in buf'[s].rows \/ r.id \in Safe
    BY <1>1, <1>4, <1>6
  <2>4. \A q \in Workers \ {p} : w'[q] = w[q] \/ Rests(q)
    BY <1>7
  <2>5. \A t \in Sessions : cursor'[t] = cursor[t] \/ buf'[t].rows = {}
    BY <1>1
  <2> QED
    BY <1>5, <2>1, <2>2, <2>3, <2>4, <2>5, RewriteHonest
<1>9. WorkInv(p)'
  <2>1. SeedingInv(p)'
    BY <1>1, <1>7 DEF SeedingInv, SeedPcs
  <2> QED
    BY <1>7, <2>1 DEF WorkInv, PassInv, ClosingInv, FoldingInv, ClosePcs, FoldPcs
<1>10. LockInv'
  BY <1>a, <1>1, LockMoves DEF HonestInv, SeedPcs, ClosePcs, RollPcs, FoldPcs
<1> QED
  BY <1>8, <1>9, <1>10 DEF HonestInv

\* The successor gets what the rollover carries, in a session nobody is at.
LEMMA SeedNewHonest ==
    ASSUME TypeInv, HonestInv, Stays, NEW p \in Workers, SeedNew(p)
    PROVE  HonestInv'
<1>a. PICK s \in Sessions : s = w[p].sid
  BY SidFacts DEF SeedNew
<1>b. PICK new \in Sessions : new = sessions + 1
  BY SeedNewFacts
<1>1. /\ w[p].pc = "seedNew" /\ s \in 1..sessions
      /\ buf'[new].rows = w[p].rows /\ \A t \in Sessions \ {new} : buf'[t] = buf[t]
      /\ cursor' = [cursor EXCEPT ![new] = cursor[s]]
      /\ Becomes(p, w[p].job, "seedPoint", s, w[p].rows, w[p].batch)
      /\ UNCHANGED <<appended, archive, marker, memory, poison, overrun, behind, outran>>
  BY <1>a, <1>b, SeedNewFacts
<1>2. WorkInv(p) /\ sessions \in Nat
  BY SmallFacts DEF HonestInv
<1>3. w'[p].pc = "seedPoint" /\ w'[p].sid = s /\ w'[p].rows = w[p].rows /\ \A q \in Workers \ {p} : w'[q] = w[q]
  BY <1>1 DEF Becomes
<1>4. buf[new].rows = {} /\ s < new
  <2>1. new > sessions /\ s < new
    BY <1>1, <1>2, <1>b
  <2> QED
    BY <2>1 DEF TypeInv, FreshInv, Absent
<1>5. /\ \A r \in w[p].rows : r \in buf[s].rows \/ r.id \in Safe
      /\ \A r \in buf[s].rows : r \in w[p].rows \/ r.id \in Safe
  BY <1>a, <1>1, <1>2 DEF WorkInv, SeedingInv, SeedPcs
<1>6. Grows /\ Sheds
  BY <1>1, <1>4 DEF Grows, Sheds
<1>7. CursorInv'
  <2> SUFFICES ASSUME NEW t \in Sessions, NEW r \in buf'[t].rows, r.ts <= cursor'[t]
               PROVE  r.id \in Extracted
    BY <1>1 DEF CursorInv, Extracted
  <2>1. cursor'[new] = cursor[s] /\ \A z \in Sessions \ {new} : cursor'[z] = cursor[z]
    BY <1>1 DEF TypeInv, TypeOK
  <2>2. CASE t = new
    <3>1. r \in w[p].rows /\ r.ts <= cursor[s]
      BY <2>1, <2>2, <1>1
    <3>2. CASE r \in buf[s].rows
      BY <3>1, <3>2 DEF HonestInv, CursorInv
    <3>3. CASE r \notin buf[s].rows
      BY <3>1, <3>3, <1>5 DEF Safe, Extracted
    <3> QED
      BY <3>2, <3>3
  <2>3. CASE t # new
    BY <2>1, <2>3, <1>1 DEF HonestInv, CursorInv
  <2> QED
    BY <2>2, <2>3
<1>8. Kept'
  BY <1>1, <1>6, ShedFacts, GrowFacts DEF HonestInv, Kept
<1>9. LockInv' /\ MarkerInv'
  <2>1. LockInv'
    BY <1>a, <1>1, LockMoves DEF HonestInv, SeedPcs, ClosePcs, RollPcs, FoldPcs
  <2> QED
    BY <2>1, <1>1 DEF HonestInv, MarkerInv
<1>10. ASSUME NEW q \in Workers \ {p} PROVE WorkInv(q)'
  <2>1. w[q].pc # "idle" => w[q].sid # new /\ w[q].sid \in Sessions
    <3>1. w[q].pc # "idle" => w[q].sid \in 1..sessions /\ w[q].sid \in Sessions
      BY SidFacts
    <3> QED
      BY <3>1, <1>2, <1>b
  <2> QED
    BY <2>1, <1>1, <1>3, <1>6, OtherWorks
<1>11. WorkInv(p)'
  <2>1. Ids(w[p].rows) \subseteq Above(s)'
    BY <1>1, <1>4 DEF Above
  <2>2. buf'[s].rows = buf[s].rows
    <3>1. s # new
      BY <1>1, <1>2, <1>b
    <3> QED
      BY <3>1, <1>1
  <2>3. Safe \subseteq Safe'
    BY <1>6, GrowFacts
  <2>4. SeedingInv(p)'
    BY <2>1, <2>2, <2>3, <1>3, <1>5 DEF SeedingInv, SeedPcs
  <2> QED
    BY <1>3, <2>4 DEF WorkInv, PassInv, ClosingInv, FoldingInv, ClosePcs, FoldPcs
<1> QED
  BY <1>7, <1>8, <1>9, <1>10, <1>11 DEF HonestInv

LEMMA SeedPointHonest ==
    ASSUME TypeInv, HonestInv, Stays, NEW p \in Workers, SeedPoint(p)
    PROVE  HonestInv'
<1>a. PICK s \in Sessions : s = w[p].sid
  BY SidFacts DEF SeedPoint
<1>1. /\ w[p].pc = "seedPoint"
      /\ rolled' = [rolled EXCEPT ![s] = sessions]
      /\ Becomes(p, w[p].job, "seedDelete", s, w[p].rows, w[p].batch)
      /\ UNCHANGED <<appended, buf, cursor, archive, marker, memory, poison, overrun, behind, outran>>
  BY <1>a, SeedPointFacts
<1>2. Grows
  BY <1>1 DEF Grows
<1>3. w'[p].pc = "seedDelete" /\ w'[p].sid = s /\ w'[p].rows = w[p].rows /\ \A q \in Workers \ {p} : w'[q] = w[q]
  BY <1>1 DEF Becomes
<1>4. /\ \A r \in buf[s].rows : r \in w[p].rows \/ r.id \in Safe
      /\ Ids(w[p].rows) \subseteq Above(s) \cup Settled
  BY <1>a, <1>1 DEF HonestInv, WorkInv, SeedingInv
<1>5. Above(s) \subseteq Above(s)' /\ Settled \subseteq Settled' /\ Safe \subseteq Safe'
  BY <1>1, <1>2, GrowFacts DEF Above
<1>6. SeedingInv(p)'
  <2>1. rolled'[s] # 0
    BY <1>1, SmallFacts DEF TypeInv, TypeOK
  <2> QED
    BY <1>1, <1>3, <1>4, <1>5, <2>1 DEF SeedingInv, SeedPcs
<1>7. WorkInv(p)'
  BY <1>3, <1>6 DEF WorkInv, PassInv, ClosingInv, FoldingInv, ClosePcs, FoldPcs
<1>8. LockInv'
  BY <1>a, <1>1, LockMoves DEF HonestInv, SeedPcs, ClosePcs, RollPcs, FoldPcs
<1>9. MarkerInv'
  BY <1>1 DEF HonestInv, MarkerInv
<1> QED
  BY <1>1, <1>2, <1>3, <1>7, <1>8, <1>9, MoveHonest

LEMMA SeedArchiveHonest ==
    ASSUME TypeInv, HonestInv, Stays, NEW p \in Workers, SeedArchive(p), ~Quiet
    PROVE  HonestInv'
<1> DEFINE s == w[p].sid
<1>1. /\ w[p].pc = "seed" /\ s \in Sessions
      /\ ~CompactionLocked(p, s) /\ ~RegistryLocked /\ ~AppendLocked(s)
      /\ UNCHANGED <<appended, buf, cursor, marker, memory, poison, overrun, behind>>
  BY SeedArchiveFacts
<1>2. PICK rows \in SUBSET buf[s].rows, out \in SUBSET buf[s].rows, pc \in {"seedNew", "seedMark", "seedTrim"} :
          /\ rows \cup out = buf[s].rows
          /\ pc = "seedNew" => out = {}
          /\ AppendArchive(s, out, buf[s].gen)
          /\ outran' = outran \cup (Ids(out \cap RowsAfter(s)) \ (memory \cup poison))
          /\ Becomes(p, w[p].job, pc, s, rows, out)
  <2>1. \E rows, out \in SUBSET buf[s].rows, pc \in {"seedNew", "seedMark", "seedTrim"} :
          /\ rows \cup out = buf[s].rows
          /\ pc = "seedNew" => out = {}
          /\ AppendArchive(s, out, buf[s].gen)
          /\ outran' = outran \cup (Ids(out \cap RowsAfter(s)) \ (memory \cup poison))
          /\ Becomes(p, w[p].job, pc, s, rows, out)
    BY SeedArchiveFacts
  <2> QED
    BY <2>1
<1>3. archive \subseteq archive' /\ Ids(out) \subseteq archive'
  BY <1>1, <1>2, ArchiveFacts DEF HonestInv, MarkerInv
<1>4. Grows
  BY <1>1, <1>2, <1>3 DEF Grows
<1>5. w'[p].pc = pc /\ w'[p].sid = s /\ w'[p].rows = rows /\ w'[p].batch = out
      /\ \A q \in Workers \ {p} : w'[q] = w[q]
  BY <1>2 DEF Becomes
<1>6. Ids(out) \subseteq Extracted' \cup outran'
  <2> SUFFICES ASSUME NEW r \in out PROVE r.id \in Extracted' \cup outran'
    BY DEF Ids
  <2>1. CASE r \in RowsAfter(s)
    <3>1. r.id \in Ids(out \cap RowsAfter(s))
      BY <2>1 DEF Ids
    <3> QED
      BY <3>1, <1>2, <1>4 DEF Extracted, Grows
  <2>2. CASE r \notin RowsAfter(s)
    <3>1. r.ts \in Nat /\ cursor[s] \in Nat
      <4>1. buf[s].rows \subseteq RowType /\ cursor[s] \in 0..MaxTime
        BY <1>1, BufferFields DEF TypeInv, TypeOK
      <4> QED
        BY <4>1, RowFields, SmallFacts
    <3>2. r.ts <= cursor[s]
      BY <2>2, <3>1 DEF RowsAfter
    <3> QED
      BY <3>2, <1>1, <1>4, GrowFacts DEF HonestInv, CursorInv
  <2> QED
    BY <2>1, <2>2
<1>7. Ids(out) \subseteq archive' \cap Settled'
  BY <1>3, <1>6 DEF Settled, Safe
<1>8. SeedingInv(p)'
  BY <1>1, <1>2, <1>5, <1>7 DEF SeedingInv, SeedPcs
<1>9. WorkInv(p)'
  BY <1>5, <1>8 DEF WorkInv, PassInv, ClosingInv, FoldingInv, ClosePcs, FoldPcs
<1>10. LockInv'
  <2>1. \A q \in Workers \ {p} : w[q].pc \notin SeedPcs
    BY <1>1 DEF RegistryLocked
  <2>2. \A q \in Workers \ {p} : w[q].sid = s => w[q].pc \notin ClosePcs \cup RollPcs
    BY <1>1 DEF AppendLocked, RollPcs
  <2>3. LockGoesStale \/ \A q \in Workers \ {p} : w[q].sid = s => w[q].pc \notin FoldPcs \cup RollPcs
    BY <1>1 DEF CompactionLocked, CompactionHeld, RollPcs
  <2> DEFINE job == w[p].job
  <2>4. Becomes(p, job, pc, s, rows, out)
    BY <1>2
  <2> HIDE DEF job, s
  <2> QED
    BY <2>1, <2>2, <2>3, <2>4, LockMoves DEF HonestInv
<1>11. MarkerInv'
  BY <1>1, <1>3 DEF HonestInv, MarkerInv
<1> QED
  BY <1>1, <1>4, <1>5, <1>9, <1>10, <1>11, MoveHonest

\* A fold takes rows the cursor has passed, archives and then removes them.
LEMMA FoldHonest ==
    ASSUME TypeInv, HonestInv, Stays, NEW p \in Workers,
           StartFold(p) \/ FoldArchive(p) \/ FoldMark(p) \/ SeedMark(p) \/ FoldReread(p)
    PROVE  HonestInv'
<1>1. ASSUME StartFold(p), ~Quiet PROVE HonestInv'
  <2>1. SameRows /\ \E s \in 1..sessions, job \in Jobs, batch \in SUBSET RowType :
              /\ \A r \in batch : r \in buf[s].rows /\ r.ts <= cursor[s]
              /\ ~CompactionLocked(p, s) /\ cursor[s] # 0
              /\ Becomes(p, job, "summarise", s, {}, batch)
    BY <1>1, StartFoldFacts DEF StartFold
  <2>2. PICK s \in 1..sessions, job \in Jobs, batch \in SUBSET RowType :
              /\ \A r \in batch : r \in buf[s].rows /\ r.ts <= cursor[s]
              /\ ~CompactionLocked(p, s) /\ cursor[s] # 0
              /\ Becomes(p, job, "summarise", s, {}, batch)
    BY <2>1
  <2>3. s \in Sessions
    BY SmallFacts DEF Sessions
  <2>4. Grows /\ UNCHANGED <<appended, buf, cursor, marker, archive>>
    BY <2>1 DEF SameRows, Grows
  <2>5. w'[p].pc = "summarise" /\ w'[p].batch = batch /\ \A q \in Workers \ {p} : w'[q] = w[q]
    BY <2>2 DEF Becomes
  <2>6. Ids(batch) \subseteq Extracted'
    <3>1. \A r \in batch : r.id \in Extracted
      BY <2>2, <2>3 DEF HonestInv, CursorInv
    <3> QED
      BY <3>1, <2>4, GrowFacts DEF Ids
  <2>7. WorkInv(p)'
    BY <2>5, <2>6 DEF WorkInv, PassInv, ClosingInv, FoldingInv, SeedingInv, ClosePcs, SeedPcs
  <2>8. LockInv'
    <3>1. LockGoesStale \/ \A q \in Workers \ {p} : w[q].sid = s => w[q].pc \notin FoldPcs \cup RollPcs
      BY <2>2 DEF CompactionLocked, CompactionHeld, RollPcs
    <3>2. "summarise" \notin SeedPcs \cup ClosePcs \cup RollPcs
      BY DEF SeedPcs, ClosePcs, RollPcs
    <3> QED
      BY <2>2, <3>1, <3>2, LockMoves DEF HonestInv
  <2>9. MarkerInv'
    BY <2>4 DEF HonestInv, MarkerInv
  <2> QED
    BY <2>4, <2>5, <2>7, <2>8, <2>9, MoveHonest
<1>2. ASSUME FoldArchive(p) PROVE HonestInv'
  <2> DEFINE s == w[p].sid
  <2>1. /\ w[p].pc = "summarise" /\ s \in Sessions
        /\ AppendArchive(s, w[p].batch, w[p].gen)
        /\ UNCHANGED <<appended, buf, cursor, marker, memory, poison, overrun, behind, outran>>
    BY <1>2, FoldArchiveFacts
  <2>2. PICK pc \in {"reread", "mark"} : Becomes(p, w[p].job, pc, s, w[p].rows, w[p].batch)
    BY <1>2, FoldArchiveFacts
  <2>3. archive \subseteq archive' /\ Ids(w[p].batch) \subseteq archive'
    BY <2>1, ArchiveFacts DEF HonestInv, MarkerInv
  <2>4. Grows
    BY <2>1, <2>3 DEF Grows
  <2>5. w'[p].pc = pc /\ w'[p].sid = s /\ w'[p].batch = w[p].batch /\ \A q \in Workers \ {p} : w'[q] = w[q]
    BY <2>2 DEF Becomes
  <2>6. Ids(w[p].batch) \subseteq Extracted'
    BY <2>1, <2>4, GrowFacts DEF HonestInv, WorkInv, FoldingInv, FoldPcs
  <2>7. WorkInv(p)'
    BY <2>3, <2>5, <2>6 DEF WorkInv, PassInv, ClosingInv, FoldingInv, SeedingInv, ClosePcs, SeedPcs
  <2>8. LockInv'
    BY <2>1, <2>2, LockMoves DEF HonestInv, SeedPcs, ClosePcs, RollPcs, FoldPcs
  <2>9. MarkerInv'
    BY <2>1, <2>3 DEF HonestInv, MarkerInv
  <2> QED
    BY <2>1, <2>4, <2>5, <2>7, <2>8, <2>9, MoveHonest
<1>3. ASSUME FoldMark(p) \/ SeedMark(p) PROVE HonestInv'
  <2>0. PICK s \in Sessions : s = w[p].sid
    BY <1>3, SidFacts DEF FoldMark, SeedMark
  <2>1. /\ marker'[s].batch = w[p].batch /\ \A t \in Sessions \ {s} : marker'[t] = marker[t]
        /\ \/ w[p].pc = "mark" /\ Becomes(p, w[p].job, "reread", s, w[p].rows, w[p].batch)
           \/ w[p].pc = "seedMark" /\ Becomes(p, w[p].job, "seedTrim", s, w[p].rows, w[p].batch)
        /\ UNCHANGED <<appended, buf, cursor, archive, memory, poison, overrun, behind, outran>>
    BY <1>3, <2>0, BatchMarkFacts
  <2>2. Grows
    BY <2>1 DEF Grows
  <2>3. /\ w'[p].pc = (IF w[p].pc = "mark" THEN "reread" ELSE "seedTrim")
        /\ w'[p].sid = s /\ w'[p].rows = w[p].rows /\ w'[p].batch = w[p].batch
        /\ \A q \in Workers \ {p} : w'[q] = w[q]
    BY <2>1 DEF Becomes
  <2>4. WorkInv(p) /\ w[p].pc \in {"mark", "seedMark"}
    BY <2>1 DEF HonestInv
  <2>5. Ids(w[p].batch) \subseteq archive
    BY <2>4 DEF WorkInv, FoldingInv, SeedingInv, FoldPcs
  <2>6. Extracted \subseteq Extracted' /\ Settled \subseteq Settled'
    BY <2>2, GrowFacts
  <2>7. FoldingInv(p)'
    BY <2>1, <2>3, <2>4, <2>5, <2>6 DEF WorkInv, FoldingInv, FoldPcs
  <2>8. SeedingInv(p)'
    <3>1. Safe \subseteq Safe'
      BY <2>2, GrowFacts
    <3> QED
      BY <2>0, <2>1, <2>3, <2>4, <2>6, <3>1 DEF WorkInv, SeedingInv, SeedPcs
  <2>9. WorkInv(p)'
    BY <2>3, <2>7, <2>8 DEF WorkInv, PassInv, ClosingInv, ClosePcs
  <2>10. LockInv'
    BY <2>0, <2>1, LockMoves DEF HonestInv, SeedPcs, ClosePcs, RollPcs, FoldPcs
  <2>11. MarkerInv'
    BY <2>1, <2>5 DEF HonestInv, MarkerInv
  <2> QED
    BY <2>1, <2>2, <2>3, <2>9, <2>10, <2>11, MoveHonest
<1>4. ASSUME FoldReread(p) PROVE HonestInv'
  <2>0. PICK s \in Sessions : s = w[p].sid
    BY <1>4, SidFacts DEF FoldReread
  <2> DEFINE rows == {r \in buf[s].rows : r.id \notin Ids(w[p].batch)}
  <2>1. /\ SameRows /\ w[p].pc = "reread"
        /\ Becomes(p, w[p].job, "replace", s, rows, w[p].batch)
    BY <1>4, <2>0, FoldRereadFacts
  <2>2. Grows /\ UNCHANGED <<appended, buf, cursor, marker, archive>>
    BY <2>1 DEF SameRows, Grows
  <2>3. w'[p].pc = "replace" /\ w'[p].sid = s /\ w'[p].rows = rows /\ w'[p].batch = w[p].batch
        /\ \A q \in Workers \ {p} : w'[q] = w[q]
    BY <2>1 DEF Becomes
  <2>4. Ids(w[p].batch) \subseteq archive /\ Ids(w[p].batch) \subseteq Extracted'
    BY <2>1, <2>2, GrowFacts DEF HonestInv, WorkInv, FoldingInv, FoldPcs
  <2>5. FoldingInv(p)'
    <3>1. \A r \in buf[s].rows : r \in rows \/ r.id \in Safe'
      BY <2>2, <2>4, GrowFacts DEF Safe
    <3> QED
      BY <2>2, <2>3, <2>4, <3>1 DEF FoldingInv
  <2>6. WorkInv(p)'
    BY <2>3, <2>5 DEF WorkInv, PassInv, ClosingInv, SeedingInv, ClosePcs, SeedPcs
  <2> HIDE DEF rows
  <2>7. LockInv'
    BY <2>0, <2>1, LockMoves DEF HonestInv, SeedPcs, ClosePcs, RollPcs, FoldPcs
  <2>8. MarkerInv'
    BY <2>2 DEF HonestInv, MarkerInv
  <2> QED
    BY <2>2, <2>3, <2>6, <2>7, <2>8, MoveHonest
<1> QED
  BY <1>1, <1>2, <1>3, <1>4, QuietHonest

LEMMA HonestInit == Init => HonestInv
<1> SUFFICES ASSUME Init PROVE HonestInv
  OBVIOUS
<1>1. \A s \in Sessions : buf[s].rows = {} /\ marker[s].batch = {}
  BY DEF Init, Absent, NoMarker
<1>2. \A p \in Workers : w[p].pc = "idle"
  BY DEF Init, Idle
<1>3. LockInv /\ \A p \in Workers : WorkInv(p)
  BY <1>2 DEF LockInv, WorkInv, PassInv, ClosingInv, FoldingInv, SeedingInv, RollPcs, SeedPcs, ClosePcs, FoldPcs
<1>4. MarkerInv /\ CursorInv
  BY <1>1 DEF MarkerInv, CursorInv, Ids
<1>5. Kept
  BY DEF Init, Kept
<1> QED
  BY <1>3, <1>4, <1>5 DEF HonestInv

LEMMA HonestNext ==
    ASSUME TypeInv, HonestInv, [Next]_vars
    PROVE  HonestInv'
<1>0. Stays
  BY StaysNext
<1>1. ASSUME NEW p \in Workers, Works(p) PROVE HonestInv'
  <2>1. CASE \/ \E job \in Jobs, s \in Sessions : StartExtract(p, job, s)
             \/ ChunkCommitted(p) \/ (ExtractEnds(p) /\ w[p].job = "close") \/ Gate(p) \/ ExtractAgain(p)
    BY <1>0, <2>1, ExtractHonest
  <2>2. CASE CloseArchive(p) \/ CloseMark(p) \/ CloseConfirm(p)
    BY <1>0, <2>2, CloseHonest
  <2>3. CASE CloseDelete(p) \/ SeedDelete(p)
    BY <1>0, <2>3, DeleteHonest
  <2>4. CASE StartFold(p) \/ FoldArchive(p) \/ FoldMark(p) \/ SeedMark(p) \/ FoldReread(p)
    BY <1>0, <2>4, FoldHonest
  <2>5. CASE FoldReplace(p)
    BY <1>0, <2>5, ReplaceHonest
  <2>6. CASE SeedArchive(p) \/ SeedTrim(p) \/ SeedNew(p) \/ SeedPoint(p)
    BY <1>0, <2>6, SeedArchiveHonest, TrimHonest, SeedNewHonest, SeedPointHonest, QuietHonest
  <2> QED
    BY <1>1, <2>1, <2>2, <2>3, <2>4, <2>5, <2>6 DEF Works
<1> QED
  BY <1>0, <1>1, Steps, QuietHonest, PersistHonest

LEMMA HonestAlways == Spec => []HonestInv
<1>1. TypeInv /\ HonestInv /\ [Next]_vars => HonestInv'
  BY HonestNext
<1> QED
  BY <1>1, HonestInit, TypeAlways, PTL DEF Spec

\* Nothing the chat persisted is lost, whatever folds, closes, rollovers,
\* failed writes and restarts did: it is in a live buffer or in the archive,
\* or it came between a fold's re-read and its os.replace.
THEOREM NoneLost == Spec => []LostOnlyInRewriteWindow
<1>1. HonestInv => LostOnlyInRewriteWindow
  BY DEF HonestInv, Kept, LostOnlyInRewriteWindow, Settled, Safe
<1> QED
  BY <1>1, HonestAlways, PTL

\* How far the docstring of compaction.py is from true ("a turn is never
\* compacted away before it becomes a memory"): a row that is in no live buffer
\* and was neither extracted nor set aside came in a rewrite window, or with a
\* stamp the cursor had passed, or in a weekly rollover that neither extracted
\* nor carried it.  There is no fourth way.
UnextractedAreKnown ==
    1..appended \subseteq Live \cup memory \cup poison \cup overrun \cup behind \cup outran

THEOREM UnextractedKept == Spec => []UnextractedAreKnown
<1>1. HonestInv => UnextractedAreKnown
  BY DEF HonestInv, Kept, UnextractedAreKnown, Settled, Safe, Extracted
<1> QED
  BY <1>1, HonestAlways, PTL

\* A row at or before its buffer's cursor was extracted or set aside: folds
\* and closes may trust the cursor, the successor's carried one too.
THEOREM CursorTrusted == Spec => []CursorHonest
<1>1. HonestInv => CursorHonest
  BY DEF HonestInv, CursorInv, CursorHonest, Extracted
<1> QED
  BY <1>1, HonestAlways, PTL
=============================================================================
