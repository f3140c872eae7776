------------------------- MODULE ThreadQueueProofs -------------------------
(***************************************************************************)
(* Proofs about ThreadQueue for any number of writers, messages, sizes and *)
(* open messages, and one reader.                                          *)
(*                                                                         *)
(* The argument: the messages not yet fetched are the last ones that got a *)
(* place; they tile the blocks of the queue from `first' to `last', block  *)
(* by block.  A block with open messages is in thq->data, its ref counts   *)
(* them and its lock_non_0_ref is held, so the reader moves a block only   *)
(* when every message in it is complete.  The reader holds at most one     *)
(* block besides thq->read, and that one is exhausted.                     *)
(***************************************************************************)
EXTENDS ThreadQueue, FiniteSetTheorems, SequenceTheorems, TLAPS

OneReader == \A r, s \in Readers : r = s

Queued == {data[i] : i \in DOMAIN data}
Pooled == {pool[i] : i \in DOMAIN pool}
Waiting == {m \in Msg : at[m].blk # NULL}
Opened == UNION {Open(w) : w \in Writers}
OpenIn(b) == {m \in Opened : at[m].blk = b}

\* How many writers and readers are where.
WritersAt(ws, pcs) == Cardinality({w \in Writers : ws[w].pc \in pcs})
ReadersAt(rs, pcs, modes) ==
    Cardinality({r \in Readers : rs[r].pc \in pcs /\ rs[r].mode \in modes})

\* Every list holds a block once, and no block is on two of them.
Lists ==
    /\ \A i, j \in DOMAIN data : data[i] = data[j] => i = j
    /\ \A i, j \in DOMAIN pool : pool[i] = pool[j] => i = j
    /\ read \notin Queued
    /\ Pooled \cap QueueBlocks = {}
    /\ \A b \in QueueBlocks \cup Pooled : b < next

\* The messages of the queue are the last ones, and they tile its blocks.
Tiles ==
    /\ \E lo \in 1..next : Waiting = lo..(next - 1)
    /\ \A b \in QueueBlocks :
        /\ blk[b].first < blk[b].last
        /\ \E m \in Waiting : at[m].blk = b /\ at[m].pos = blk[b].first
    /\ \A m \in Waiting :
        /\ at[m].blk \in QueueBlocks /\ at[m].size > 0
        /\ at[m].pos >= blk[at[m].blk].first
        /\ at[m].pos + at[m].size <= blk[at[m].blk].last
        /\ at[m].pos + at[m].size = blk[at[m].blk].last
             \/ \E n \in Waiting : /\ at[n].blk = at[m].blk
                                   /\ at[n].pos = at[m].pos + at[m].size

\* A later message is behind an earlier one.
Ahead(b, c) ==
    \/ b = read /\ c \in Queued
    \/ \E i, j \in DOMAIN data : i < j /\ data[i] = b /\ data[j] = c

Order ==
    \A m, n \in Waiting : m < n =>
        \/ at[m].blk = at[n].blk /\ at[m].pos + at[m].size <= at[n].pos
        \/ Ahead(at[m].blk, at[n].blk)

\* An open message is in a block that the reader has not got.
Opens ==
    /\ \A w \in Writers : \A i \in DOMAIN wr[w].open :
        LET o == wr[w].open[i]
        IN  o[1] \in Waiting /\ at[o[1]].blk = o[2] /\ o[2] \in Queued
    /\ \A v, w \in Writers : \A i \in DOMAIN wr[v].open, j \in DOMAIN wr[w].open :
        wr[v].open[i][1] = wr[w].open[j][1] => v = w /\ i = j

Holding(r) == rd[r].pc \in {"sem", "count", "have"}

Refs ==
    /\ \A b \in Queued : blk[b].ref = Cardinality(OpenIn(b))
    /\ read # NULL /\ (\A r \in Readers : rd[r].blk # read) => blk[read].ref = 0
    /\ \A r \in Readers : rd[r].blk # NULL =>
         blk[rd[r].blk].ref = IF Holding(r) THEN 1 ELSE 0

\* lock_non_0_ref is held while messages of the block are open, from the time
\* the first writer took it to the time the last one releases it.
Locking(b) == \E w \in Writers : wr[w].pc = "lock" /\ wr[w].blk = b
Unlocking(b) == \E w \in Writers : wr[w].pc = "unlock" /\ wr[w].blk = b

Locks ==
    /\ \A b \in Blocks :
        /\ blk[b].lock <=> Unlocking(b) \/ (OpenIn(b) # {} /\ ~Locking(b))
        /\ Unlocking(b) /\ OpenIn(b) # {} => Locking(b)
    /\ \A v, w \in Writers :
        wr[v].pc = "unlock" /\ wr[w].pc = "unlock" /\ wr[v].blk = wr[w].blk => v = w

WriterOK(w) ==
    /\ wr[w].pc = "lock" <=> lockW = w
    /\ wr[w].pc = "lock" => OpenIn(wr[w].blk) = {next - 1} /\ next - 1 \in Open(w)
    /\ wr[w].pc \in {"lock", "pend"} =>
         \E i \in DOMAIN wr[w].open : wr[w].open[i][2] = wr[w].blk
    /\ wr[w].pc = "unlock" => /\ wr[w].blk \in Blocks /\ wr[w].blk < next
                              /\ ~blk[wr[w].blk].gone

ReaderOK(r) ==
    /\ lockR = r <=> rd[r].pc \in {"fetch", "lockB", "take", "ref"}
    /\ lockW = r <=> rd[r].pc = "lockB"
    /\ rd[r].pc \in {"fetch", "lockB"} => read = NULL
    /\ rd[r].pc = "lockB" => data # <<>>
    /\ rd[r].pc = "take" => read # NULL
    /\ rd[r].blk # NULL <=> rd[r].pc \in {"ref", "sem", "count", "have", "done"}
    /\ rd[r].msg # NULL <=> rd[r].pc \in {"ref", "sem", "count", "have"}
    /\ rd[r].msg \notin Waiting /\ rd[r].msg < next
    /\ rd[r].blk # NULL =>
         /\ rd[r].blk < next /\ rd[r].blk \notin Queued /\ rd[r].blk \notin Pooled
         /\ rd[r].blk # read => blk[rd[r].blk].first >= blk[rd[r].blk].last
    /\ rd[r].pc = "done" => rd[r].ref = 0
    /\ rd[r].pc = "sem" => rd[r].mode = "poll"

\* A block is freed once, out of all use.
Frees ==
    /\ \A b \in Blocks :
        /\ blk[b].frees <= 1
        /\ blk[b].frees > 0 => b \notin QueueBlocks /\ \A r \in Readers : rd[r].blk # b
        /\ blk[b].gone => blk[b].frees > 0
    /\ \A b \in Pooled : ~blk[b].gone

\* sem counts the complete messages, pending those that are counted.
Counts ==
    /\ sem + Cardinality(Opened) + WritersAt(wr, {"unlock", "post"})
         + ReadersAt(rd, {"lockR", "fetch", "lockB", "take"}, {"wait"})
       = Cardinality(Waiting) + ReadersAt(rd, {"ref", "sem"}, {"poll"})
    /\ pending + WritersAt(wr, {"lock", "pend"})
       = Cardinality(Waiting) + ReadersAt(rd, {"ref", "sem", "count"}, {"wait", "poll"})
    /\ next - 1 + WritersAt(wr, {"send"}) <= MaxMsg

QueueInv ==
    /\ TypeOK /\ Lists /\ Tiles /\ Order /\ Opens /\ Refs /\ Locks /\ Frees /\ Counts
    /\ (\A w \in Writers : WriterOK(w)) /\ (\A r \in Readers : ReaderOK(r))

-----------------------------------------------------------------------------
(* Facts *)

\* The parts of the state.
LEMMA TypeFacts ==
    ASSUME TypeOK
    PROVE  /\ Blocks = Msg /\ Msg \subseteq Nat /\ NULL \notin Msg /\ NULL \notin Blocks
           /\ data \in Seq(Blocks) /\ Len(data) \in Nat /\ DOMAIN data = 1..Len(data)
           /\ pool \in Seq(Blocks) /\ Len(pool) \in Nat /\ DOMAIN pool = 1..Len(pool)
           /\ Queued \subseteq Blocks /\ Pooled \subseteq Blocks /\ QueueBlocks \subseteq Blocks
           /\ QueueBlocks = IF read = NULL THEN Queued ELSE Queued \cup {read}
           /\ \A b \in Blocks : /\ blk[b] \in Block
                                /\ blk[b].first \in Nat /\ blk[b].last \in Nat /\ blk[b].cap \in Nat
                                /\ blk[b].ref \in Int /\ blk[b].frees \in Nat
                                /\ blk[b].lock \in BOOLEAN /\ blk[b].gone \in BOOLEAN
           /\ \A m \in Msg : /\ at[m] \in Place /\ at[m].blk \in Blocks \cup {NULL}
                             /\ at[m].pos \in Nat /\ at[m].size \in Nat
           /\ Waiting \subseteq Msg /\ next \in Nat /\ next > 0
<1>1. Blocks = Msg /\ Msg \subseteq Nat /\ NULL \notin Msg
  BY MsgAssumption DEF Blocks, Msg, NULL
<1>2. /\ data \in Seq(Blocks) /\ Len(data) \in Nat /\ DOMAIN data = 1..Len(data)
      /\ pool \in Seq(Blocks) /\ Len(pool) \in Nat /\ DOMAIN pool = 1..Len(pool)
      /\ \A i \in DOMAIN data : data[i] \in Blocks
      /\ \A i \in DOMAIN pool : pool[i] \in Blocks
  BY DEF TypeOK
<1>3. Queued \subseteq Blocks /\ Pooled \subseteq Blocks
  BY <1>2 DEF Queued, Pooled
<1>4. QueueBlocks = IF read = NULL THEN Queued ELSE Queued \cup {read}
  BY DEF QueueBlocks, Queued
<1>5. QueueBlocks \subseteq Blocks
  BY <1>3, <1>4 DEF TypeOK
<1>6. \A b \in Blocks : /\ blk[b] \in Block
                        /\ blk[b].first \in Nat /\ blk[b].last \in Nat /\ blk[b].cap \in Nat
                        /\ blk[b].ref \in Int /\ blk[b].frees \in Nat
                        /\ blk[b].lock \in BOOLEAN /\ blk[b].gone \in BOOLEAN
  BY DEF TypeOK, Block
<1>7. \A m \in Msg : /\ at[m] \in Place /\ at[m].blk \in Blocks \cup {NULL}
                     /\ at[m].pos \in Nat /\ at[m].size \in Nat
  BY DEF TypeOK, Place
<1>8. Waiting \subseteq Msg /\ next \in Nat /\ next > 0
  BY DEF TypeOK, Waiting
<1> QED
  BY <1>1, <1>2, <1>3, <1>4, <1>5, <1>6, <1>7, <1>8

\* The threads.
LEMMA ThreadFacts ==
    ASSUME TypeOK
    PROVE  /\ \A w \in Writers :
                /\ wr[w] \in Writer /\ wr[w].open \in Seq(Msg \X Blocks)
                /\ Len(wr[w].open) \in Nat /\ DOMAIN wr[w].open = 1..Len(wr[w].open)
                /\ \A i \in DOMAIN wr[w].open : wr[w].open[i][1] \in Msg /\ wr[w].open[i][2] \in Blocks
                /\ wr[w].blk \in Blocks \cup {NULL} /\ Open(w) \subseteq Msg
           /\ \A r \in Readers :
                /\ rd[r] \in Reader /\ rd[r].msg \in Msg \cup {NULL}
                /\ rd[r].blk \in Blocks \cup {NULL} /\ rd[r].ref \in Int
                /\ rd[r].mode \in {"wait", "poll"}
           /\ Opened \subseteq Msg
<1>1. ASSUME NEW w \in Writers
      PROVE  /\ wr[w] \in Writer /\ wr[w].open \in Seq(Msg \X Blocks)
             /\ Len(wr[w].open) \in Nat /\ DOMAIN wr[w].open = 1..Len(wr[w].open)
             /\ \A i \in DOMAIN wr[w].open : wr[w].open[i][1] \in Msg /\ wr[w].open[i][2] \in Blocks
             /\ wr[w].blk \in Blocks \cup {NULL} /\ Open(w) \subseteq Msg
  <2>1. wr[w] \in Writer /\ wr[w].open \in Seq(Msg \X Blocks) /\ wr[w].blk \in Blocks \cup {NULL}
    BY DEF TypeOK, Writer
  <2>2. /\ Len(wr[w].open) \in Nat /\ DOMAIN wr[w].open = 1..Len(wr[w].open)
        /\ \A i \in DOMAIN wr[w].open : wr[w].open[i] \in Msg \X Blocks
    BY <2>1
  <2>3. \A i \in DOMAIN wr[w].open : wr[w].open[i][1] \in Msg /\ wr[w].open[i][2] \in Blocks
    BY <2>2
  <2> QED
    BY <2>1, <2>2, <2>3 DEF Open
<1>2. \A r \in Readers :
        /\ rd[r] \in Reader /\ rd[r].msg \in Msg \cup {NULL}
        /\ rd[r].blk \in Blocks \cup {NULL} /\ rd[r].ref \in Int
        /\ rd[r].mode \in {"wait", "poll"}
  BY DEF TypeOK, Reader
<1>3. Opened \subseteq Msg
  BY <1>1 DEF Opened
<1> QED
  BY <1>1, <1>2, <1>3

\* Sets of messages and threads are finite.
LEMMA Finite ==
    ASSUME TypeOK
    PROVE  /\ \A S \in SUBSET Msg : IsFiniteSet(S) /\ Cardinality(S) \in Nat
           /\ IsFiniteSet(Waiting) /\ Cardinality(Waiting) \in Nat
           /\ IsFiniteSet(Opened) /\ Cardinality(Opened) \in Nat
           /\ \A b : IsFiniteSet(OpenIn(b)) /\ Cardinality(OpenIn(b)) \in Nat
           /\ \A b : OpenIn(b) = {} <=> Cardinality(OpenIn(b)) = 0
<1>1. IsFiniteSet(Msg)
  BY MsgAssumption, FS_Interval DEF Msg
<1>2. \A S \in SUBSET Msg : IsFiniteSet(S) /\ Cardinality(S) \in Nat
  BY <1>1, FS_Subset, FS_CardinalityType
<1>3. Waiting \in SUBSET Msg /\ Opened \in SUBSET Msg
  BY TypeFacts, ThreadFacts
<1>4. \A b : OpenIn(b) \in SUBSET Msg
  BY <1>3 DEF OpenIn
<1> QED
  BY <1>2, <1>3, <1>4, FS_EmptySet

\* One writer moves.
LEMMA MoveWriter ==
    ASSUME wr \in [Writers -> Writer], NEW w \in Writers, NEW v, wr' = [wr EXCEPT ![w] = v], NEW P
    PROVE  /\ WritersAt(wr, P) \in Nat /\ WritersAt(wr', P) \in Nat
           /\ WritersAt(wr', P) = WritersAt(wr, P) + (IF v.pc \in P THEN 1 ELSE 0)
                                    - (IF wr[w].pc \in P THEN 1 ELSE 0)
<1> DEFINE S == {x \in Writers : wr[x].pc \in P}
           T == {x \in Writers : wr'[x].pc \in P}
           R == S \ {w}
<1>1. IsFiniteSet(S) /\ IsFiniteSet(T) /\ Cardinality(S) \in Nat /\ Cardinality(T) \in Nat
  BY FiniteAssumption, FS_Subset, FS_CardinalityType
<1>2. T = IF v.pc \in P THEN R \cup {w} ELSE R
  OBVIOUS
<1>3. IsFiniteSet(R) /\ Cardinality(R) = IF wr[w].pc \in P THEN Cardinality(S) - 1 ELSE Cardinality(S)
  <2>1. w \in S <=> wr[w].pc \in P
    OBVIOUS
  <2> HIDE DEF S
  <2> QED
    BY <1>1, <2>1, FS_RemoveElement
<1>4. w \notin R
  OBVIOUS
<1> HIDE DEF R
<1>5. Cardinality(R \cup {w}) = Cardinality(R) + 1
  BY <1>3, <1>4, FS_AddElement
<1>6. WritersAt(wr, P) = Cardinality(S) /\ WritersAt(wr', P) = Cardinality(T)
  BY DEF WritersAt
<1> HIDE DEF S, T
<1> QED
  BY <1>1, <1>2, <1>3, <1>5, <1>6

\* One reader moves.
LEMMA MoveReader ==
    ASSUME NEW r \in Readers, \A s \in Readers : s # r => rd'[s] = rd[s]
    PROVE  \A P, M :
             /\ ReadersAt(rd, P, M) \in Nat /\ ReadersAt(rd', P, M) \in Nat
             /\ ReadersAt(rd', P, M) = ReadersAt(rd, P, M)
                  + (IF rd'[r].pc \in P /\ rd'[r].mode \in M THEN 1 ELSE 0)
                  - (IF rd[r].pc \in P /\ rd[r].mode \in M THEN 1 ELSE 0)
<1> TAKE P, M
<1> DEFINE S == {x \in Readers : rd[x].pc \in P /\ rd[x].mode \in M}
           T == {x \in Readers : rd'[x].pc \in P /\ rd'[x].mode \in M}
           R == S \ {r}
<1>1. IsFiniteSet(S) /\ IsFiniteSet(T) /\ Cardinality(S) \in Nat /\ Cardinality(T) \in Nat
  BY FiniteAssumption, FS_Subset, FS_CardinalityType
<1>2. T = IF rd'[r].pc \in P /\ rd'[r].mode \in M THEN R \cup {r} ELSE R
  OBVIOUS
<1>3. IsFiniteSet(R) /\ Cardinality(R) = IF rd[r].pc \in P /\ rd[r].mode \in M
                                         THEN Cardinality(S) - 1 ELSE Cardinality(S)
  <2>1. r \in S <=> rd[r].pc \in P /\ rd[r].mode \in M
    OBVIOUS
  <2> HIDE DEF S
  <2> QED
    BY <1>1, <2>1, FS_RemoveElement
<1>4. r \notin R
  OBVIOUS
<1> HIDE DEF R
<1>5. Cardinality(R \cup {r}) = Cardinality(R) + 1
  BY <1>3, <1>4, FS_AddElement
<1>6. ReadersAt(rd, P, M) = Cardinality(S) /\ ReadersAt(rd', P, M) = Cardinality(T)
  BY DEF ReadersAt
<1> HIDE DEF S, T
<1> QED
  BY <1>1, <1>2, <1>3, <1>5, <1>6


-----------------------------------------------------------------------------
(* What a step leaves alone *)

\* The shape of the queue is in the lists, the places, and first and last.
LEMMA KeepTiles ==
    ASSUME TypeOK, Tiles, Order, UNCHANGED <<data, read, at, next>>,
           \A b \in Blocks : blk'[b].first = blk[b].first /\ blk'[b].last = blk[b].last
    PROVE  /\ Tiles' /\ Order'
           /\ Waiting' = Waiting /\ Queued' = Queued /\ QueueBlocks' = QueueBlocks
<1>1. Waiting' = Waiting /\ Queued' = Queued /\ QueueBlocks' = QueueBlocks
  BY DEF Waiting, Queued, QueueBlocks
<1>2. Tiles'
  <2>1. \E lo \in 1..next' : Waiting' = lo..(next' - 1)
    BY <1>1 DEF Tiles
  <2>2. ASSUME NEW b \in QueueBlocks'
        PROVE  /\ blk'[b].first < blk'[b].last
               /\ \E m \in Waiting' : at'[m].blk = b /\ at'[m].pos = blk'[b].first
    <3>1. b \in QueueBlocks /\ b \in Blocks
      BY <1>1, <2>2, TypeFacts
    <3> QED
      BY <1>1, <3>1 DEF Tiles
  <2>3. ASSUME NEW m \in Waiting'
        PROVE  /\ at'[m].blk \in QueueBlocks' /\ at'[m].size > 0
               /\ at'[m].pos >= blk'[at'[m].blk].first
               /\ at'[m].pos + at'[m].size <= blk'[at'[m].blk].last
               /\ \/ at'[m].pos + at'[m].size = blk'[at'[m].blk].last
                  \/ \E n \in Waiting' : /\ at'[n].blk = at'[m].blk
                                         /\ at'[n].pos = at'[m].pos + at'[m].size
    <3>1. m \in Waiting /\ at[m].blk \in Blocks
      BY <1>1, <2>3, TypeFacts DEF Tiles
    <3> QED
      BY <1>1, <3>1 DEF Tiles
  <2> QED
    BY <2>1, <2>2, <2>3 DEF Tiles
<1>3. Order'
  BY <1>1 DEF Order, Ahead
<1> QED
  BY <1>1, <1>2, <1>3

\* The same with the pool.
LEMMA KeepShape ==
    ASSUME TypeOK, Lists, Tiles, Order, UNCHANGED <<data, pool, read, at, next>>,
           \A b \in Blocks : blk'[b].first = blk[b].first /\ blk'[b].last = blk[b].last
    PROVE  /\ Lists' /\ Tiles' /\ Order'
           /\ Waiting' = Waiting /\ Queued' = Queued /\ Pooled' = Pooled
           /\ QueueBlocks' = QueueBlocks
<1>1. Tiles' /\ Order' /\ Waiting' = Waiting /\ Queued' = Queued /\ QueueBlocks' = QueueBlocks
  BY KeepTiles
<1>2. Pooled' = Pooled
  BY DEF Pooled
<1>3. Lists'
  BY <1>1, <1>2 DEF Lists
<1> QED
  BY <1>1, <1>2, <1>3

\* The open messages are in the writers and the places.
LEMMA KeepOpens ==
    ASSUME UNCHANGED at, \A w \in Writers : wr'[w].open = wr[w].open
    PROVE  /\ \A w \in Writers : Open(w)' = Open(w)
           /\ Opened' = Opened
           /\ \A b : OpenIn(b)' = OpenIn(b)
           /\ Opens /\ Queued' = Queued => Opens'
<1>1. \A w \in Writers : Open(w)' = Open(w)
  BY DEF Open
<1>2. Opened' = Opened
  BY <1>1 DEF Opened
<1>3. \A b : OpenIn(b)' = OpenIn(b)
  BY <1>2 DEF OpenIn
<1>4. ASSUME Opens, Queued' = Queued
      PROVE  Opens'
  <2>1. Waiting' = Waiting
    BY DEF Waiting
  <2> QED
    BY <1>4, <2>1 DEF Opens
<1> QED
  BY <1>1, <1>2, <1>3, <1>4

\* Arithmetic.
LEMMA LessTrans ==
    ASSUME NEW a \in Nat, NEW b \in Nat, NEW c \in Nat, a < b, c >= b
    PROVE  a < c
OBVIOUS

\* Arithmetic.
LEMMA LessLeq ==
    ASSUME NEW a \in Nat, NEW b \in Nat, a < b
    PROVE  a <= b
OBVIOUS

\* A writer that a step does not touch.
LEMMA KeepWriter ==
    ASSUME NEW w \in Writers, WriterOK(w), wr'[w] = wr[w], lockW' = w <=> lockW = w,
           wr[w].pc = "lock" => OpenIn(wr[w].blk)' = OpenIn(wr[w].blk) /\ next' = next,
           next \in Nat, next' \in Nat, next' >= next,
           wr[w].pc = "unlock" => (blk'[wr[w].blk].gone => blk[wr[w].blk].gone),
           Blocks \subseteq Nat
    PROVE  WriterOK(w)'
<1>1. Open(w)' = Open(w)
  BY DEF Open
<1>2. wr'[w].pc = "lock" => OpenIn(wr[w].blk)' = {next' - 1} /\ next' - 1 \in Open(w)'
  BY <1>1 DEF WriterOK
<1>3. wr'[w].pc = "unlock" => /\ wr'[w].blk \in Blocks /\ wr'[w].blk < next'
                              /\ ~blk'[wr'[w].blk].gone
  <2> SUFFICES ASSUME wr[w].pc = "unlock"
               PROVE  wr[w].blk \in Blocks /\ wr[w].blk < next' /\ ~blk'[wr[w].blk].gone
    OBVIOUS
  <2>1. wr[w].blk \in Blocks /\ wr[w].blk < next /\ ~blk[wr[w].blk].gone
    BY DEF WriterOK
  <2>2. wr[w].blk \in Nat
    BY <2>1, Zenon
  <2>3. wr[w].blk < next'
    BY <2>1, <2>2, LessTrans
  <2>4. ~blk'[wr[w].blk].gone
    BY <2>1, Zenon
  <2> QED
    BY <2>1, <2>3, <2>4
<1>4. wr'[w].pc \in {"lock", "pend"} =>
         \E i \in DOMAIN wr'[w].open : wr'[w].open[i][2] = wr'[w].blk
  BY DEF WriterOK
<1>5. wr'[w].pc = "lock" <=> lockW' = w
  BY DEF WriterOK
<1> QED
  BY <1>1, <1>2, <1>3, <1>4, <1>5 DEF WriterOK

\* The reader moves on and leaves the queue as it is.
LEMMA ReaderMoves ==
    ASSUME QueueInv, OneReader, NEW r \in Readers, NEW q, rd' = [rd EXCEPT ![r] = q],
           q.blk = rd[r].blk, Holding(r)' <=> Holding(r),
           UNCHANGED <<blk, pool, data, read, wr, at, next>>,
           \A w \in Writers : lockW' = w <=> lockW = w,
           TypeOK', Counts', ReaderOK(r)'
    PROVE  QueueInv'
<1>1. /\ TypeOK /\ Lists /\ Tiles /\ Order /\ Opens /\ Refs /\ Locks /\ Frees
      /\ \A w \in Writers : WriterOK(w)
  BY DEF QueueInv
<1>2. /\ Lists' /\ Tiles' /\ Order'
      /\ Waiting' = Waiting /\ Queued' = Queued /\ Pooled' = Pooled /\ QueueBlocks' = QueueBlocks
  BY <1>1, KeepShape
<1>3. /\ Opens' /\ Opened' = Opened
      /\ \A b : OpenIn(b)' = OpenIn(b)
  BY <1>1, <1>2, KeepOpens
<1>4. rd'[r].blk = rd[r].blk /\ \A s \in Readers : s = r
  BY <1>1 DEF TypeOK, OneReader
<1>5. Refs'
  <2>1. \A b \in Queued' : blk'[b].ref = Cardinality(OpenIn(b)')
    BY <1>1, <1>2, <1>3 DEF Refs
  <2>2. read' # NULL /\ (\A s \in Readers : rd'[s].blk # read') => blk'[read'].ref = 0
    BY <1>1, <1>4 DEF Refs
  <2>3. rd'[r].blk # NULL => blk'[rd'[r].blk].ref = IF Holding(r)' THEN 1 ELSE 0
    BY <1>1, <1>4 DEF Refs
  <2> QED
    BY <1>4, <2>1, <2>2, <2>3 DEF Refs
<1>6. Locks'
  BY <1>1, <1>3 DEF Locks, Locking, Unlocking
<1>7. Frees'
  BY <1>1, <1>2, <1>4 DEF Frees
<1>8. ASSUME NEW w \in Writers PROVE WriterOK(w)'
  <2>1. WriterOK(w) /\ (lockW' = w <=> lockW = w) /\ next \in Nat /\ next' \in Nat /\ next' >= next
    BY <1>1, TypeFacts
  <2>2. OpenIn(wr[w].blk)' = OpenIn(wr[w].blk) /\ wr'[w] = wr[w] /\ Blocks \subseteq Nat
    BY <1>1, <1>3, TypeFacts
  <2> QED
    BY <2>1, <2>2, KeepWriter
<1> QED
  BY <1>2, <1>3, <1>4, <1>5, <1>6, <1>7, <1>8 DEF QueueInv

\* A writer moves on and leaves the queue and the locks as they are.
LEMMA WriterMoves ==
    ASSUME QueueInv, NEW w \in Writers, NEW v, wr' = [wr EXCEPT ![w] = v],
           v.open = wr[w].open, v.pc \notin {"lock", "pend", "unlock"},
           wr[w].pc \notin {"lock", "unlock"},
           UNCHANGED <<blk, pool, data, read, lockW, lockR, rd, at, next>>,
           TypeOK', Counts'
    PROVE  QueueInv'
<1>1. /\ TypeOK /\ Lists /\ Tiles /\ Order /\ Opens /\ Refs /\ Locks /\ Frees
      /\ \A x \in Writers : WriterOK(x)
      /\ \A r \in Readers : ReaderOK(r)
  BY DEF QueueInv
<1>2. /\ Lists' /\ Tiles' /\ Order'
      /\ Waiting' = Waiting /\ Queued' = Queued /\ Pooled' = Pooled /\ QueueBlocks' = QueueBlocks
  BY <1>1, KeepShape
<1>3. wr'[w] = v /\ \A x \in Writers : x # w => wr'[x] = wr[x]
  BY <1>1 DEF TypeOK
<1>4. \A x \in Writers : wr'[x].open = wr[x].open
  BY <1>3
<1>5. /\ Opens' /\ Opened' = Opened
      /\ \A b : OpenIn(b)' = OpenIn(b)
      /\ \A x \in Writers : Open(x)' = Open(x)
  BY <1>1, <1>2, <1>4, KeepOpens
<1>6. Refs'
  BY <1>1, <1>2, <1>5 DEF Refs, Holding
<1>7. \A b \in Blocks : (Locking(b)' <=> Locking(b)) /\ (Unlocking(b)' <=> Unlocking(b))
  BY <1>3 DEF Locking, Unlocking
<1>8. Locks'
  <2>1. ASSUME NEW x \in Writers, NEW y \in Writers, wr'[x].pc = "unlock", wr'[y].pc = "unlock",
               wr'[x].blk = wr'[y].blk
        PROVE  x = y
    BY <1>1, <1>3, <2>1 DEF Locks
  <2> QED
    BY <1>1, <1>5, <1>7, <2>1 DEF Locks
<1>9. Frees'
  BY <1>1, <1>2 DEF Frees
<1>10. ASSUME NEW x \in Writers PROVE WriterOK(x)'
  <2>1. CASE x = w
    BY <1>1, <1>3, <2>1 DEF WriterOK
  <2>2. CASE x # w
    <3>1. WriterOK(x) /\ (lockW' = x <=> lockW = x) /\ next \in Nat /\ next' \in Nat /\ next' >= next
      BY <1>1, TypeFacts
    <3>2. OpenIn(wr[x].blk)' = OpenIn(wr[x].blk) /\ wr'[x] = wr[x] /\ Blocks \subseteq Nat
      <4>1. wr'[x] = wr[x] /\ Blocks \subseteq Nat
        BY <1>1, <1>3, <2>2, TypeFacts
      <4>2. OpenIn(wr[x].blk)' = OpenIn(wr[x].blk)
        BY <1>5, <4>1 DEF OpenIn
      <4> QED
        BY <4>1, <4>2
    <3> QED
      BY <3>1, <3>2, KeepWriter
  <2> QED
    BY <2>1, <2>2
<1>11. ASSUME NEW r \in Readers PROVE ReaderOK(r)'
  BY <1>1, <1>2 DEF ReaderOK
<1> QED
  BY <1>2, <1>5, <1>6, <1>8, <1>9, <1>10, <1>11 DEF QueueInv

-----------------------------------------------------------------------------
(* The counts *)

\* What a thread still owes to the semaphore and to pending.
Owes(q) ==
    (IF q.pc \in {"lockR", "fetch", "lockB", "take"} /\ q.mode \in {"wait"} THEN 1 ELSE 0)
      - (IF q.pc \in {"ref", "sem"} /\ q.mode \in {"poll"} THEN 1 ELSE 0)
Uncounted(q) ==
    IF q.pc \in {"ref", "sem", "count"} /\ q.mode \in {"wait", "poll"} THEN 1 ELSE 0
Posts(v) == IF v.pc \in {"unlock", "post"} THEN 1 ELSE 0
Pends(v) == IF v.pc \in {"lock", "pend"} THEN 1 ELSE 0
Sends(v) == IF v.pc \in {"send"} THEN 1 ELSE 0

\* The counts after a step of a reader.
LEMMA CountsReader ==
    ASSUME TypeOK, Counts, NEW r \in Readers, NEW q, rd' = [rd EXCEPT ![r] = q],
           UNCHANGED <<wr, next>>, sem' \in Int, pending' \in Int,
           Cardinality(Opened') \in Nat, Cardinality(Waiting') \in Nat,
           sem' + Owes(q) + Cardinality(Opened') - Cardinality(Waiting')
             = sem + Owes(rd[r]) + Cardinality(Opened) - Cardinality(Waiting),
           pending' - Uncounted(q) - Cardinality(Waiting')
             = pending - Uncounted(rd[r]) - Cardinality(Waiting)
    PROVE  Counts'
<1> DEFINE W == WritersAt(wr, {"unlock", "post"})
           X == WritersAt(wr, {"lock", "pend"})
           Y == WritersAt(wr, {"send"})
           A(s) == ReadersAt(s, {"lockR", "fetch", "lockB", "take"}, {"wait"})
           B(s) == ReadersAt(s, {"ref", "sem"}, {"poll"})
           C(s) == ReadersAt(s, {"ref", "sem", "count"}, {"wait", "poll"})
           a(x) == IF x.pc \in {"lockR", "fetch", "lockB", "take"} /\ x.mode \in {"wait"} THEN 1 ELSE 0
           b(x) == IF x.pc \in {"ref", "sem"} /\ x.mode \in {"poll"} THEN 1 ELSE 0
<1>1. rd \in [Readers -> Reader] /\ wr \in [Writers -> Writer] /\ sem \in Int /\ pending \in Int
  BY DEF TypeOK
<1>a. rd'[r] = q /\ \A s \in Readers : s # r => rd'[s] = rd[s]
  BY <1>1
<1>0. \A P, M :
        /\ ReadersAt(rd, P, M) \in Nat /\ ReadersAt(rd', P, M) \in Nat
        /\ ReadersAt(rd', P, M) = ReadersAt(rd, P, M)
                + (IF rd'[r].pc \in P /\ rd'[r].mode \in M THEN 1 ELSE 0)
                - (IF rd[r].pc \in P /\ rd[r].mode \in M THEN 1 ELSE 0)
  BY <1>a, MoveReader, Zenon
<1>2. A(rd) \in Nat /\ A(rd') \in Nat /\ A(rd') = A(rd) + a(q) - a(rd[r])
  BY <1>0, <1>a, ZenonT(40)
<1>3. B(rd) \in Nat /\ B(rd') \in Nat /\ B(rd') = B(rd) + b(q) - b(rd[r])
  BY <1>0, <1>a, ZenonT(40)
<1>4. C(rd) \in Nat /\ C(rd') \in Nat /\ C(rd') = C(rd) + Uncounted(q) - Uncounted(rd[r])
  BY <1>0, <1>a, Zenon DEF Uncounted
<1>5. Owes(q) = a(q) - b(q) /\ Owes(rd[r]) = a(rd[r]) - b(rd[r])
  BY DEF Owes
<1>6. /\ a(q) \in Int /\ b(q) \in Int /\ a(rd[r]) \in Int /\ b(rd[r]) \in Int
      /\ Uncounted(q) \in Int /\ Uncounted(rd[r]) \in Int
  BY DEF Uncounted
<1>7. W \in Nat /\ X \in Nat /\ Y \in Nat
  BY FiniteAssumption, FS_Subset, FS_CardinalityType DEF WritersAt
<1>8. /\ sem + Cardinality(Opened) + W + A(rd) = Cardinality(Waiting) + B(rd)
      /\ pending + X = Cardinality(Waiting) + C(rd)
      /\ next - 1 + Y <= MaxMsg
  BY DEF Counts
<1>9. Cardinality(Opened) \in Nat /\ Cardinality(Waiting) \in Nat
  BY Finite
<1> HIDE DEF W, X, Y, A, B, C, a, b
<1>10. /\ sem' + Cardinality(Opened') + W + A(rd') = Cardinality(Waiting') + B(rd')
       /\ pending' + X = Cardinality(Waiting') + C(rd')
  BY <1>1, <1>2, <1>3, <1>4, <1>5, <1>6, <1>7, <1>8, <1>9
<1> USE DEF W, X, Y, A, B, C
<1> QED
  BY <1>8, <1>10 DEF Counts

\* The counts after a step of a writer.
LEMMA CountsWriter ==
    ASSUME TypeOK, Counts, NEW w \in Writers, NEW v, wr' = [wr EXCEPT ![w] = v],
           UNCHANGED rd, sem' \in Int, pending' \in Int, next' \in Int,
           Cardinality(Opened') \in Nat, Cardinality(Waiting') \in Nat,
           sem' + Posts(v) + Cardinality(Opened') - Cardinality(Waiting')
             = sem + Posts(wr[w]) + Cardinality(Opened) - Cardinality(Waiting),
           pending' + Pends(v) - Cardinality(Waiting')
             = pending + Pends(wr[w]) - Cardinality(Waiting),
           \/ next' + Sends(v) = next + Sends(wr[w])
           \/ next' - 1 + WritersAt(wr', {"send"}) <= MaxMsg
    PROVE  Counts'
<1> DEFINE W(s) == WritersAt(s, {"unlock", "post"})
           X(s) == WritersAt(s, {"lock", "pend"})
           Y(s) == WritersAt(s, {"send"})
           A == ReadersAt(rd, {"lockR", "fetch", "lockB", "take"}, {"wait"})
           B == ReadersAt(rd, {"ref", "sem"}, {"poll"})
           C == ReadersAt(rd, {"ref", "sem", "count"}, {"wait", "poll"})
<1>1. rd \in [Readers -> Reader] /\ wr \in [Writers -> Writer] /\ sem \in Int /\ pending \in Int /\ next \in Int
  BY DEF TypeOK
<1>2. W(wr) \in Nat /\ W(wr') \in Nat /\ W(wr') = W(wr) + Posts(v) - Posts(wr[w])
  BY <1>1, MoveWriter DEF Posts
<1>3. X(wr) \in Nat /\ X(wr') \in Nat /\ X(wr') = X(wr) + Pends(v) - Pends(wr[w])
  BY <1>1, MoveWriter DEF Pends
<1>4. Y(wr) \in Nat /\ Y(wr') \in Nat /\ Y(wr') = Y(wr) + Sends(v) - Sends(wr[w])
  BY <1>1, MoveWriter DEF Sends
<1>6. /\ Posts(v) \in Int /\ Pends(v) \in Int /\ Sends(v) \in Int
      /\ Posts(wr[w]) \in Int /\ Pends(wr[w]) \in Int /\ Sends(wr[w]) \in Int
  BY DEF Posts, Pends, Sends
<1>7. A \in Nat /\ B \in Nat /\ C \in Nat
  BY FiniteAssumption, FS_Subset, FS_CardinalityType DEF ReadersAt
<1>8. /\ sem + Cardinality(Opened) + W(wr) + A = Cardinality(Waiting) + B
      /\ pending + X(wr) = Cardinality(Waiting) + C
      /\ next - 1 + Y(wr) <= MaxMsg
  BY DEF Counts
<1>9. Cardinality(Opened) \in Nat /\ Cardinality(Waiting) \in Nat /\ MaxMsg \in Nat
  BY Finite, MsgAssumption
<1>10. \/ next' + Sends(v) = next + Sends(wr[w])
       \/ next' - 1 + Y(wr') <= MaxMsg
  OBVIOUS
<1> HIDE DEF W, X, Y, A, B, C
<1>11. /\ sem' + Cardinality(Opened') + W(wr') + A = Cardinality(Waiting') + B
       /\ pending' + X(wr') = Cardinality(Waiting') + C
  BY <1>1, <1>2, <1>3, <1>6, <1>7, <1>8, <1>9
<1>12. next' - 1 + Y(wr') <= MaxMsg
  BY <1>1, <1>4, <1>6, <1>8, <1>9, <1>10
<1> USE DEF W, X, Y, A, B, C
<1> QED
  BY <1>11, <1>12 DEF Counts

\* A step of the reader that only changes its counter and the locks.
LEMMA ReaderTurn ==
    ASSUME QueueInv, OneReader, NEW r \in Readers, NEW q \in Reader, rd' = [rd EXCEPT ![r] = q],
           q.blk = rd[r].blk,
           q.pc \in {"sem", "count", "have"} <=> rd[r].pc \in {"sem", "count", "have"},
           UNCHANGED <<blk, pool, data, read, wr, at, next>>,
           sem' \in Nat, pending' \in Int, sem' + Owes(q) = sem + Owes(rd[r]),
           pending' - Uncounted(q) = pending - Uncounted(rd[r]),
           UNCHANGED lockW \/ (lockW' \in {lockW, r} /\ lockW \in Readers \cup {NoThread}),
           lockR' \in Readers \cup {NoThread}, ReaderOK(r)'
    PROVE  QueueInv'
<1>1. TypeOK /\ Counts
  BY DEF QueueInv
<1>2. rd' \in [Readers -> Reader] /\ rd'[r] = q
  BY <1>1 DEF TypeOK
<1>3. lockW' \in Writers \cup Readers \cup {NoThread}
  BY <1>1 DEF TypeOK
<1>4. TypeOK'
  BY <1>1, <1>2, <1>3 DEF TypeOK
<1>5. Waiting' = Waiting /\ Opened' = Opened
  <2>1. \A w \in Writers : wr'[w].open = wr[w].open
    OBVIOUS
  <2> QED
    BY <2>1, KeepOpens DEF Waiting
<1>6. Counts'
  <2>1. /\ Cardinality(Opened') = Cardinality(Opened) /\ Cardinality(Waiting') = Cardinality(Waiting)
        /\ Cardinality(Opened) \in Nat /\ Cardinality(Waiting) \in Nat
    BY <1>1, <1>5, Finite
  <2>2. /\ Owes(q) \in Int /\ Owes(rd[r]) \in Int /\ Uncounted(q) \in Int /\ Uncounted(rd[r]) \in Int
        /\ sem \in Int /\ pending \in Int /\ sem' \in Int
    BY <1>1 DEF Owes, Uncounted, TypeOK
  <2>3. /\ sem' + Owes(q) + Cardinality(Opened') - Cardinality(Waiting')
             = sem + Owes(rd[r]) + Cardinality(Opened) - Cardinality(Waiting)
        /\ pending' - Uncounted(q) - Cardinality(Waiting')
             = pending - Uncounted(rd[r]) - Cardinality(Waiting)
    BY <2>1, <2>2
  <2> QED
    BY <1>1, <2>1, <2>2, <2>3, CountsReader
<1>7. \A w \in Writers : lockW' = w <=> lockW = w
  BY ThreadAssumption
<1>8. Holding(r)' <=> Holding(r)
  BY <1>2 DEF Holding
<1> QED
  BY <1>4, <1>6, <1>7, <1>8, ReaderMoves

\* A step of a writer that only changes its counter.
LEMMA WriterTurn ==
    ASSUME QueueInv, NEW w \in Writers, NEW v \in Writer, wr' = [wr EXCEPT ![w] = v],
           v.open = wr[w].open, v.pc \notin {"lock", "pend", "unlock"},
           wr[w].pc \notin {"lock", "unlock"},
           UNCHANGED <<blk, pool, data, read, lockW, lockR, rd, at, next>>,
           sem' \in Nat, pending' \in Int, sem' + Posts(v) = sem + Posts(wr[w]),
           pending' + Pends(v) = pending + Pends(wr[w]),
           \/ Sends(v) = Sends(wr[w])
           \/ next - 1 + WritersAt(wr', {"send"}) <= MaxMsg
    PROVE  QueueInv'
<1>1. TypeOK /\ Counts
  BY DEF QueueInv
<1>2. wr' \in [Writers -> Writer]
  BY <1>1 DEF TypeOK
<1>3. TypeOK'
  BY <1>1, <1>2 DEF TypeOK
<1>4. Waiting' = Waiting /\ Opened' = Opened
  <2>1. \A x \in Writers : wr'[x].open = wr[x].open
    BY <1>1 DEF TypeOK
  <2> QED
    BY <2>1, KeepOpens DEF Waiting
<1>5. Counts'
  <2>1. /\ Cardinality(Opened') = Cardinality(Opened) /\ Cardinality(Waiting') = Cardinality(Waiting)
        /\ Cardinality(Opened) \in Nat /\ Cardinality(Waiting) \in Nat
    BY <1>1, <1>4, Finite
  <2>2. /\ Posts(v) \in Int /\ Pends(v) \in Int /\ Sends(v) \in Int
        /\ Posts(wr[w]) \in Int /\ Pends(wr[w]) \in Int /\ Sends(wr[w]) \in Int
        /\ sem \in Int /\ pending \in Int /\ sem' \in Int /\ next' \in Int
    BY <1>1 DEF Posts, Pends, Sends, TypeOK
  <2>3. /\ sem' + Posts(v) + Cardinality(Opened') - Cardinality(Waiting')
             = sem + Posts(wr[w]) + Cardinality(Opened) - Cardinality(Waiting)
        /\ pending' + Pends(v) - Cardinality(Waiting')
             = pending + Pends(wr[w]) - Cardinality(Waiting)
    BY <2>1, <2>2
  <2>4. \/ next' + Sends(v) = next + Sends(wr[w])
        \/ next' - 1 + WritersAt(wr', {"send"}) <= MaxMsg
    BY <2>2
  <2> QED
    BY <1>1, <2>1, <2>2, <2>3, <2>4, CountsWriter
<1> QED
  BY <1>3, <1>5, WriterMoves

-----------------------------------------------------------------------------
(* Steps that leave the queue as it is *)

\* eina_thread_queue_send.
LEMMA StepSend ==
    ASSUME QueueInv, NEW w \in Writers, eina_thread_queue_send(w)
    PROVE  QueueInv'
<1> DEFINE v == [wr[w] EXCEPT !.pc = "send"]
<1>1. TypeOK
  BY DEF QueueInv
<1>2. v \in Writer /\ wr' = [wr EXCEPT ![w] = v] /\ v.pc = "send" /\ v.open = wr[w].open
  BY <1>1 DEF TypeOK, Writer, eina_thread_queue_send
<1>3. /\ wr[w].pc = "idle" /\ UNCHANGED <<blk, pool, data, read, sem, pending, lockW, lockR, rd, at, next>>
      /\ next + WritersAt(wr, {"send"}) \in Msg
  <2>1. {x \in Writers : wr[x].pc = "send"} = {x \in Writers : wr[x].pc \in {"send"}}
    OBVIOUS
  <2> QED
    BY <2>1 DEF eina_thread_queue_send, WritersAt
<1>4. sem' \in Nat /\ pending' \in Int /\ next \in Nat /\ sem \in Nat /\ pending \in Int
  BY <1>1, <1>3 DEF TypeOK
<1>5. Posts(v) = 0 /\ Posts(wr[w]) = 0 /\ Pends(v) = 0 /\ Pends(wr[w]) = 0 /\ Sends(v) = 1 /\ Sends(wr[w]) = 0
  BY <1>2, <1>3 DEF Posts, Pends, Sends
<1> HIDE DEF v
<1>6. next - 1 + WritersAt(wr', {"send"}) <= MaxMsg
  <2>1. /\ WritersAt(wr, {"send"}) \in Nat /\ WritersAt(wr', {"send"}) \in Nat
        /\ WritersAt(wr', {"send"}) = WritersAt(wr, {"send"}) + 1
    <3>1. wr \in [Writers -> Writer]
      BY <1>1 DEF TypeOK
    <3>2. /\ WritersAt(wr, {"send"}) \in Nat /\ WritersAt(wr', {"send"}) \in Nat
          /\ WritersAt(wr', {"send"}) = WritersAt(wr, {"send"})
               + (IF v.pc \in {"send"} THEN 1 ELSE 0) - (IF wr[w].pc \in {"send"} THEN 1 ELSE 0)
      BY <1>2, <3>1, MoveWriter
    <3> QED
      BY <1>2, <1>3, <3>2
  <2> QED
    BY <1>3, <1>4, <2>1, MsgAssumption DEF Msg
<1>7. sem' + Posts(v) = sem + Posts(wr[w]) /\ pending' + Pends(v) = pending + Pends(wr[w])
  BY <1>3, <1>4, <1>5
<1>8. v.pc \notin {"lock", "pend", "unlock"} /\ wr[w].pc \notin {"lock", "unlock"}
  BY <1>2, <1>3
<1> QED
  BY <1>2, <1>3, <1>4, <1>6, <1>7, <1>8, WriterTurn

\* The end of eina_thread_queue_send.
LEMMA StepCount ==
    ASSUME QueueInv, NEW w \in Writers, CountPending(w)
    PROVE  QueueInv'
<1> DEFINE v == [wr[w] EXCEPT !.pc = "idle", !.blk = NULL]
<1>1. TypeOK
  BY DEF QueueInv
<1>2. v \in Writer /\ wr' = [wr EXCEPT ![w] = v] /\ v.pc = "idle" /\ v.open = wr[w].open
  BY <1>1 DEF TypeOK, Writer, CountPending
<1>3. /\ wr[w].pc = "pend" /\ UNCHANGED <<blk, pool, data, read, sem, lockW, lockR, rd, at, next>>
      /\ pending' = pending + 1
  BY DEF CountPending
<1>4. sem' \in Nat /\ pending' \in Int /\ sem \in Nat /\ pending \in Int
  BY <1>1, <1>3 DEF TypeOK
<1>5. Posts(v) = 0 /\ Posts(wr[w]) = 0 /\ Pends(v) = 0 /\ Pends(wr[w]) = 1 /\ Sends(v) = Sends(wr[w])
  BY <1>2, <1>3 DEF Posts, Pends, Sends
<1> HIDE DEF v
<1>7. sem' + Posts(v) = sem + Posts(wr[w]) /\ pending' + Pends(v) = pending + Pends(wr[w])
  BY <1>3, <1>4, <1>5
<1>8. v.pc \notin {"lock", "pend", "unlock"} /\ wr[w].pc \notin {"lock", "unlock"}
  BY <1>2, <1>3
<1> QED
  BY <1>2, <1>3, <1>4, <1>5, <1>7, <1>8, WriterTurn

\* _eina_thread_queue_wake.
LEMMA StepWake ==
    ASSUME QueueInv, NEW w \in Writers, Wake(w)
    PROVE  QueueInv'
<1> DEFINE v == [wr[w] EXCEPT !.pc = "idle", !.blk = NULL]
<1>1. TypeOK
  BY DEF QueueInv
<1>2. v \in Writer /\ wr' = [wr EXCEPT ![w] = v] /\ v.pc = "idle" /\ v.open = wr[w].open
  BY <1>1 DEF TypeOK, Writer, Wake
<1>3. /\ wr[w].pc = "post" /\ UNCHANGED <<blk, pool, data, read, pending, lockW, lockR, rd, at, next>>
      /\ sem' = sem + 1
  BY DEF Wake
<1>4. sem' \in Nat /\ pending' \in Int /\ sem \in Nat /\ pending \in Int
  BY <1>1, <1>3 DEF TypeOK
<1>5. Posts(v) = 0 /\ Posts(wr[w]) = 1 /\ Pends(v) = 0 /\ Pends(wr[w]) = 0 /\ Sends(v) = Sends(wr[w])
  BY <1>2, <1>3 DEF Posts, Pends, Sends
<1> HIDE DEF v
<1>7. sem' + Posts(v) = sem + Posts(wr[w]) /\ pending' + Pends(v) = pending + Pends(wr[w])
  BY <1>3, <1>4, <1>5
<1>8. v.pc \notin {"lock", "pend", "unlock"} /\ wr[w].pc \notin {"lock", "unlock"}
  BY <1>2, <1>3
<1> QED
  BY <1>2, <1>3, <1>4, <1>5, <1>7, <1>8, WriterTurn

\* eina_thread_queue_wait and eina_thread_queue_poll.
LEMMA StepWait ==
    ASSUME QueueInv, OneReader, NEW r \in Readers,
           eina_thread_queue_wait(r) \/ eina_thread_queue_poll(r)
    PROVE  QueueInv'
<1> DEFINE mode == IF eina_thread_queue_wait(r) THEN "wait" ELSE "poll"
           q == [rd[r] EXCEPT !.pc = "lockR", !.mode = mode]
<1>1. TypeOK /\ ReaderOK(r)
  BY DEF QueueInv
<1>2. /\ rd[r].pc = "idle"
      /\ UNCHANGED <<blk, pool, data, read, pending, lockW, lockR, wr, at, next>>
      /\ rd' = [rd EXCEPT ![r].pc = "lockR", ![r].mode = mode]
      /\ IF mode = "wait" THEN sem > 0 /\ sem' = sem - 1 ELSE sem' = sem
      /\ mode \in {"wait", "poll"}
  BY DEF eina_thread_queue_wait, eina_thread_queue_poll
<1> HIDE DEF mode
<1>3. /\ q \in Reader /\ rd' = [rd EXCEPT ![r] = q] /\ rd'[r] = q
      /\ q.pc = "lockR" /\ q.mode = mode /\ q.blk = rd[r].blk /\ q.msg = rd[r].msg /\ q.ref = rd[r].ref
  BY <1>1, <1>2 DEF TypeOK, Reader
<1> HIDE DEF q
<1>4. sem' \in Nat /\ pending' \in Int /\ sem \in Nat /\ pending \in Int /\ lockR' \in Readers \cup {NoThread}
  BY <1>1, <1>2 DEF TypeOK
<1>5. /\ Owes(rd[r]) = 0 /\ Owes(q) = IF mode = "wait" THEN 1 ELSE 0
      /\ Uncounted(q) = 0 /\ Uncounted(rd[r]) = 0
  BY <1>2, <1>3 DEF Owes, Uncounted
<1>6. sem' + Owes(q) = sem + Owes(rd[r]) /\ pending' - Uncounted(q) = pending - Uncounted(rd[r])
  BY <1>2, <1>4, <1>5
<1>7. Waiting' = Waiting /\ Queued' = Queued /\ Pooled' = Pooled
  BY <1>2 DEF Waiting, Queued, Pooled
<1>8. ReaderOK(r)'
  BY <1>1, <1>2, <1>3, <1>7 DEF ReaderOK
<1>9. q.pc \in {"sem", "count", "have"} <=> rd[r].pc \in {"sem", "count", "have"}
  BY <1>2, <1>3
<1> QED
  BY <1>2, <1>3, <1>4, <1>6, <1>8, <1>9, ReaderTurn

\* The reader gets lock_read.
LEMMA StepLockRead ==
    ASSUME QueueInv, OneReader, NEW r \in Readers, LockRead(r)
    PROVE  QueueInv'
<1> DEFINE q == [rd[r] EXCEPT !.pc = IF read = NULL THEN "fetch" ELSE "take"]
<1>1. TypeOK /\ ReaderOK(r)
  BY DEF QueueInv
<1>2. /\ rd[r].pc = "lockR" /\ lockR' = r
      /\ UNCHANGED <<blk, pool, data, read, sem, pending, lockW, wr, at, next>>
  BY DEF LockRead
<1>3. /\ q \in Reader /\ rd' = [rd EXCEPT ![r] = q] /\ rd'[r] = q
      /\ q.pc = IF read = NULL THEN "fetch" ELSE "take"
      /\ q.mode = rd[r].mode /\ q.blk = rd[r].blk /\ q.msg = rd[r].msg /\ q.ref = rd[r].ref
  BY <1>1 DEF TypeOK, Reader, LockRead
<1> HIDE DEF q
<1>4. sem' \in Nat /\ pending' \in Int /\ sem \in Nat /\ pending \in Int /\ lockR' \in Readers \cup {NoThread}
  BY <1>1, <1>2 DEF TypeOK
<1>5. Owes(q) = Owes(rd[r]) /\ Uncounted(q) = 0 /\ Uncounted(rd[r]) = 0
  BY <1>2, <1>3 DEF Owes, Uncounted
<1>6. sem' + Owes(q) = sem + Owes(rd[r]) /\ pending' - Uncounted(q) = pending - Uncounted(rd[r])
  BY <1>2, <1>4, <1>5
<1>7. Waiting' = Waiting /\ Queued' = Queued /\ Pooled' = Pooled
  BY <1>2 DEF Waiting, Queued, Pooled
<1>8. ReaderOK(r)'
  BY <1>1, <1>2, <1>3, <1>7 DEF ReaderOK
<1>9. q.pc \in {"sem", "count", "have"} <=> rd[r].pc \in {"sem", "count", "have"}
  BY <1>2, <1>3
<1> QED
  BY <1>2, <1>3, <1>4, <1>6, <1>8, <1>9, ReaderTurn

\* A reader that looks for its first block finds one, unless it polls.
LEMMA BlockFound ==
    ASSUME QueueInv, OneReader, NEW r \in Readers, rd[r].pc = "fetch", rd[r].mode = "wait"
    PROVE  data # <<>>
<1> SUFFICES ASSUME data = <<>> PROVE FALSE
  OBVIOUS
<1>1. TypeOK /\ ReaderOK(r) /\ Tiles /\ Counts
  BY DEF QueueInv
<1>2. read = NULL /\ Queued = {}
  BY <1>1, TypeFacts DEF ReaderOK, Queued
<1>3. QueueBlocks = {}
  BY <1>1, <1>2, TypeFacts
<1>4. Waiting = {}
  BY <1>1, <1>3 DEF Tiles
<1>5. Cardinality(Waiting) = 0
  BY <1>4, FS_EmptySet
<1> DEFINE A == {s \in Readers : /\ rd[s].pc \in {"lockR", "fetch", "lockB", "take"}
                                 /\ rd[s].mode \in {"wait"}}
           B == {s \in Readers : rd[s].pc \in {"ref", "sem"} /\ rd[s].mode \in {"poll"}}
<1>6. B = {} /\ r \in A
  BY DEF OneReader
<1>7. IsFiniteSet(A) /\ IsFiniteSet(B) /\ Cardinality(A) \in Nat /\ Cardinality(B) \in Nat
  BY FiniteAssumption, FS_Subset, FS_CardinalityType
<1>8. Cardinality(B) = 0 /\ Cardinality(A) # 0
  BY <1>6, <1>7, FS_EmptySet
<1>9. sem + Cardinality(Opened) + WritersAt(wr, {"unlock", "post"}) + Cardinality(A)
        = Cardinality(Waiting) + Cardinality(B)
  BY <1>1 DEF Counts, ReadersAt
<1>10. WritersAt(wr, {"unlock", "post"}) \in Nat /\ Cardinality(Opened) \in Nat /\ sem \in Nat
  <2>1. WritersAt(wr, {"unlock", "post"}) \in Nat
    BY FiniteAssumption, FS_Subset, FS_CardinalityType DEF WritersAt
  <2> QED
    BY <1>1, <2>1, Finite DEF TypeOK
<1> HIDE DEF A, B
<1> QED
  BY <1>5, <1>7, <1>8, <1>9, <1>10

\* The reader finds nothing.
LEMMA StepNothing ==
    ASSUME QueueInv, OneReader, NEW r \in Readers, FetchNothing(r)
    PROVE  QueueInv'
<1> DEFINE q == [rd[r] EXCEPT !.pc = "idle"]
<1>1. TypeOK /\ ReaderOK(r)
  BY DEF QueueInv
<1>2. /\ rd[r].pc = "fetch" /\ data = <<>> /\ lockR' = NoThread /\ lockW = NoThread
      /\ UNCHANGED <<blk, pool, data, read, sem, pending, lockW, wr, at, next>>
  BY DEF FetchNothing
<1>a. rd[r].mode # "wait"
  BY <1>2, BlockFound
<1>3. /\ q \in Reader /\ rd' = [rd EXCEPT ![r] = q] /\ rd'[r] = q
      /\ q.pc = "idle"
      /\ q.mode = rd[r].mode /\ q.blk = rd[r].blk /\ q.msg = rd[r].msg /\ q.ref = rd[r].ref
  BY <1>1, <1>a DEF TypeOK, Reader, FetchNothing
<1> HIDE DEF q
<1>4. sem' \in Nat /\ pending' \in Int /\ sem \in Nat /\ pending \in Int /\ lockR' \in Readers \cup {NoThread}
  BY <1>1, <1>2 DEF TypeOK
<1>5. Owes(q) = 0 /\ Owes(rd[r]) = 0 /\ Uncounted(q) = 0 /\ Uncounted(rd[r]) = 0
  BY <1>2, <1>3, <1>a DEF Owes, Uncounted
<1>6. sem' + Owes(q) = sem + Owes(rd[r]) /\ pending' - Uncounted(q) = pending - Uncounted(rd[r])
  BY <1>2, <1>4, <1>5
<1>7. Waiting' = Waiting /\ Queued' = Queued /\ Pooled' = Pooled
  BY <1>2 DEF Waiting, Queued, Pooled
<1>8. ReaderOK(r)'
  BY <1>1, <1>2, <1>3, <1>7, ThreadAssumption DEF ReaderOK
<1>9. q.pc \in {"sem", "count", "have"} <=> rd[r].pc \in {"sem", "count", "have"}
  BY <1>2, <1>3
<1> QED
  BY <1>2, <1>3, <1>4, <1>6, <1>8, <1>9, ReaderTurn

\* The reader waits for the writers of the block.
LEMMA StepWaitBlock ==
    ASSUME QueueInv, OneReader, NEW r \in Readers, FetchBlock(r), blk[Head(data)].ref > 0
    PROVE  QueueInv'
<1> DEFINE q == [rd[r] EXCEPT !.pc = "lockB"]
<1>1. TypeOK /\ ReaderOK(r)
  BY DEF QueueInv
<1>2. /\ rd[r].pc = "fetch" /\ data # <<>> /\ lockW = NoThread /\ lockW' = r
      /\ UNCHANGED <<blk, pool, data, read, sem, pending, lockR, wr, at, next>>
  BY DEF FetchBlock
<1>3. /\ q \in Reader /\ rd' = [rd EXCEPT ![r] = q] /\ rd'[r] = q
      /\ q.pc = "lockB"
      /\ q.mode = rd[r].mode /\ q.blk = rd[r].blk /\ q.msg = rd[r].msg /\ q.ref = rd[r].ref
  BY <1>1 DEF TypeOK, Reader, FetchBlock
<1> HIDE DEF q
<1>4. sem' \in Nat /\ pending' \in Int /\ sem \in Nat /\ pending \in Int /\ lockR' \in Readers \cup {NoThread}
  BY <1>1, <1>2 DEF TypeOK
<1>5. Owes(q) = Owes(rd[r]) /\ Uncounted(q) = 0 /\ Uncounted(rd[r]) = 0
  BY <1>2, <1>3 DEF Owes, Uncounted
<1>6. sem' + Owes(q) = sem + Owes(rd[r]) /\ pending' - Uncounted(q) = pending - Uncounted(rd[r])
  BY <1>2, <1>4, <1>5
<1>7. Waiting' = Waiting /\ Queued' = Queued /\ Pooled' = Pooled
  BY <1>2 DEF Waiting, Queued, Pooled
<1>8. ReaderOK(r)'
  BY <1>1, <1>2, <1>3, <1>7 DEF ReaderOK
<1>9. q.pc \in {"sem", "count", "have"} <=> rd[r].pc \in {"sem", "count", "have"}
  BY <1>2, <1>3
<1>10. lockW' \in {lockW, r} /\ lockW \in Readers \cup {NoThread}
  BY <1>2
<1> QED
  BY <1>2, <1>3, <1>4, <1>6, <1>8, <1>9, <1>10, ReaderTurn

\* The semaphore after a poll.
LEMMA StepSemaphore ==
    ASSUME QueueInv, OneReader, NEW r \in Readers, PollSemaphore(r)
    PROVE  QueueInv'
<1> DEFINE q == [rd[r] EXCEPT !.pc = "count"]
<1>1. TypeOK /\ ReaderOK(r)
  BY DEF QueueInv
<1>2. /\ rd[r].pc = "sem" /\ sem > 0 /\ sem' = sem - 1
      /\ UNCHANGED <<blk, pool, data, read, pending, lockW, lockR, wr, at, next>>
  BY DEF PollSemaphore
<1>3. /\ q \in Reader /\ rd' = [rd EXCEPT ![r] = q] /\ rd'[r] = q
      /\ q.pc = "count"
      /\ q.mode = rd[r].mode /\ q.blk = rd[r].blk /\ q.msg = rd[r].msg /\ q.ref = rd[r].ref
  BY <1>1 DEF TypeOK, Reader, PollSemaphore
<1> HIDE DEF q
<1>4. sem' \in Nat /\ pending' \in Int /\ sem \in Nat /\ pending \in Int /\ lockR' \in Readers \cup {NoThread}
  BY <1>1, <1>2 DEF TypeOK
<1>a. rd[r].mode = "poll"
  BY <1>1, <1>2 DEF ReaderOK
<1>5. Owes(q) = 0 /\ Owes(rd[r]) = 0 - 1 /\ Uncounted(q) = 1 /\ Uncounted(rd[r]) = 1
  BY <1>2, <1>3, <1>a DEF Owes, Uncounted
<1>6. sem' + Owes(q) = sem + Owes(rd[r]) /\ pending' - Uncounted(q) = pending - Uncounted(rd[r])
  BY <1>2, <1>4, <1>5
<1>7. Waiting' = Waiting /\ Queued' = Queued /\ Pooled' = Pooled
  BY <1>2 DEF Waiting, Queued, Pooled
<1>8. ReaderOK(r)'
  BY <1>1, <1>2, <1>3, <1>7 DEF ReaderOK
<1>9. q.pc \in {"sem", "count", "have"} <=> rd[r].pc \in {"sem", "count", "have"}
  BY <1>2, <1>3
<1> QED
  BY <1>2, <1>3, <1>4, <1>6, <1>8, <1>9, ReaderTurn

\* thq->pending goes down.
LEMMA StepUncount ==
    ASSUME QueueInv, OneReader, NEW r \in Readers, UncountPending(r)
    PROVE  QueueInv'
<1> DEFINE q == [rd[r] EXCEPT !.pc = "have"]
<1>1. TypeOK /\ ReaderOK(r)
  BY DEF QueueInv
<1>2. /\ rd[r].pc = "count" /\ pending' = pending - 1
      /\ UNCHANGED <<blk, pool, data, read, sem, lockW, lockR, wr, at, next>>
  BY DEF UncountPending
<1>a. rd[r].msg # NULL /\ rd[r].mode \in {"wait", "poll"}
  BY <1>1, <1>2, ThreadFacts DEF ReaderOK
<1>3. /\ q \in Reader /\ rd' = [rd EXCEPT ![r] = q] /\ rd'[r] = q
      /\ q.pc = "have"
      /\ q.mode = rd[r].mode /\ q.blk = rd[r].blk /\ q.msg = rd[r].msg /\ q.ref = rd[r].ref
  BY <1>1, <1>a DEF TypeOK, Reader, UncountPending
<1> HIDE DEF q
<1>4. sem' \in Nat /\ pending' \in Int /\ sem \in Nat /\ pending \in Int /\ lockR' \in Readers \cup {NoThread}
  BY <1>1, <1>2 DEF TypeOK
<1>5. Owes(q) = 0 /\ Owes(rd[r]) = 0 /\ Uncounted(q) = 0 /\ Uncounted(rd[r]) = 1
  BY <1>2, <1>3, <1>a DEF Owes, Uncounted
<1>6. sem' + Owes(q) = sem + Owes(rd[r]) /\ pending' - Uncounted(q) = pending - Uncounted(rd[r])
  BY <1>2, <1>4, <1>5
<1>7. Waiting' = Waiting /\ Queued' = Queued /\ Pooled' = Pooled
  BY <1>2 DEF Waiting, Queued, Pooled
<1>8. ReaderOK(r)'
  BY <1>1, <1>2, <1>3, <1>7 DEF ReaderOK
<1>9. q.pc \in {"sem", "count", "have"} <=> rd[r].pc \in {"sem", "count", "have"}
  BY <1>2, <1>3
<1> QED
  BY <1>2, <1>3, <1>4, <1>6, <1>8, <1>9, ReaderTurn

-----------------------------------------------------------------------------
(* lock_non_0_ref *)

\* One writer at most has lock_write, and no reader then.
LEMMA OneLock ==
    ASSUME QueueInv, NEW w \in Writers, wr[w].pc = "lock"
    PROVE  /\ lockW = w
           /\ \A x \in Writers : x # w => wr[x].pc # "lock" /\ lockW # x
           /\ \A r \in Readers : rd[r].pc # "lockB" /\ lockW # r
<1>1. (\A x \in Writers : WriterOK(x)) /\ (\A r \in Readers : ReaderOK(r))
  BY DEF QueueInv
<1>2. lockW = w
  BY <1>1 DEF WriterOK
<1>3. \A x \in Writers : x # w => wr[x].pc # "lock" /\ lockW # x
  BY <1>1, <1>2 DEF WriterOK
<1>4. \A r \in Readers : lockW # r
  BY <1>2, ThreadAssumption
<1> QED
  BY <1>1, <1>2, <1>3, <1>4 DEF ReaderOK

\* The first writer of a block takes lock_non_0_ref.
LEMMA StepLock ==
    ASSUME QueueInv, NEW w \in Writers, LockNonZero(w)
    PROVE  QueueInv'
<1> DEFINE b == wr[w].blk
           v == [wr[w] EXCEPT !.pc = "pend"]
<1>1. /\ TypeOK /\ Lists /\ Tiles /\ Order /\ Opens /\ Refs /\ Locks /\ Frees /\ Counts
      /\ \A x \in Writers : WriterOK(x)
      /\ \A r \in Readers : ReaderOK(r)
  BY DEF QueueInv
<1>2. /\ wr[w].pc = "lock" /\ ~blk[b].lock /\ blk' = [blk EXCEPT ![b].lock = TRUE]
      /\ lockW' = NoThread
      /\ UNCHANGED <<pool, data, read, sem, pending, lockR, rd, at, next>>
  BY DEF LockNonZero
<1>3. v \in Writer /\ wr' = [wr EXCEPT ![w] = v] /\ v.pc = "pend" /\ v.open = wr[w].open /\ v.blk = b
  BY <1>1 DEF TypeOK, Writer, LockNonZero
<1>4. /\ wr'[w] = v /\ wr' \in [Writers -> Writer]
      /\ \A x \in Writers : x # w => wr'[x] = wr[x]
  BY <1>1, <1>3 DEF TypeOK
<1>5. b \in Blocks /\ OpenIn(b) = {next - 1} /\ next - 1 \in Open(w)
  <2>1. PICK i \in DOMAIN wr[w].open : wr[w].open[i][2] = wr[w].blk
    BY <1>1, <1>2 DEF WriterOK
  <2> QED
    BY <1>1, <1>2, <2>1, ThreadFacts DEF WriterOK
<1> HIDE DEF b, v
<1>6. /\ \A c \in Blocks : /\ blk'[c].first = blk[c].first /\ blk'[c].last = blk[c].last
                           /\ blk'[c].ref = blk[c].ref /\ blk'[c].frees = blk[c].frees
                           /\ blk'[c].gone = blk[c].gone
                           /\ c # b => blk'[c].lock = blk[c].lock
      /\ blk'[b].lock
      /\ blk' \in [Blocks -> Block]
  <2>1. blk \in [Blocks -> Block] /\ TRUE \in BOOLEAN
    BY <1>1 DEF TypeOK
  <2> QED
    BY <1>2, <1>5, <2>1 DEF Block
<1>7. TypeOK'
  BY <1>1, <1>2, <1>4, <1>6 DEF TypeOK
<1>8. /\ Lists' /\ Tiles' /\ Order'
      /\ Waiting' = Waiting /\ Queued' = Queued /\ Pooled' = Pooled /\ QueueBlocks' = QueueBlocks
  BY <1>1, <1>2, <1>6, KeepShape
<1>9. /\ Opens' /\ Opened' = Opened
      /\ \A c : OpenIn(c)' = OpenIn(c)
      /\ \A x \in Writers : Open(x)' = Open(x)
  <2>1. \A x \in Writers : wr'[x].open = wr[x].open
    BY <1>3, <1>4
  <2> QED
    BY <1>1, <1>2, <1>8, <2>1, KeepOpens
<1>10. Refs'
  <2>1. /\ read # NULL => blk'[read].ref = blk[read].ref
        /\ \A r \in Readers : rd[r].blk # NULL => blk'[rd[r].blk].ref = blk[rd[r].blk].ref
    BY <1>1, <1>6, ThreadFacts DEF TypeOK
  <2>2. \A c \in Queued' : blk'[c].ref = Cardinality(OpenIn(c)')
    BY <1>1, <1>6, <1>8, <1>9, TypeFacts DEF Refs
  <2> QED
    BY <1>1, <1>2, <2>1, <2>2 DEF Refs, Holding
<1>11. /\ \A c \in Blocks : ~Locking(c)' /\ (Locking(c) <=> c = b)
       /\ \A c \in Blocks : Unlocking(c)' <=> Unlocking(c)
  <2>1. \A x \in Writers : x # w => wr[x].pc # "lock"
    BY <1>2, OneLock
  <2> QED
    BY <1>2, <1>3, <1>4, <2>1 DEF Locking, Unlocking, b
<1>12. Locks'
  <2>1. ASSUME NEW x \in Writers, NEW y \in Writers, wr'[x].pc = "unlock", wr'[y].pc = "unlock",
               wr'[x].blk = wr'[y].blk
        PROVE  x = y
    BY <1>1, <1>3, <1>4, <2>1 DEF Locks
  <2>2. ASSUME NEW c \in Blocks
        PROVE  /\ blk'[c].lock <=> Unlocking(c)' \/ (OpenIn(c)' # {} /\ ~Locking(c)')
               /\ Unlocking(c)' /\ OpenIn(c)' # {} => Locking(c)'
    <3>1. CASE c = b
      <4>1. ~Unlocking(c) /\ OpenIn(c)' # {} /\ blk'[c].lock
        <5>1. OpenIn(c) # {} /\ ~blk[c].lock /\ blk'[c].lock
          BY <1>2, <1>5, <1>6, <3>1
        <5> QED
          BY <1>1, <1>9, <5>1 DEF Locks
      <4> QED
        BY <1>11, <4>1
    <3>2. CASE c # b
      BY <1>1, <1>6, <1>9, <1>11, <3>2 DEF Locks
    <3> QED
      BY <3>1, <3>2
  <2> QED
    BY <2>1, <2>2 DEF Locks
<1>13. Frees'
  BY <1>1, <1>2, <1>6, <1>8, TypeFacts DEF Frees
<1>14. Counts'
  <2>1. /\ Posts(v) = 0 /\ Posts(wr[w]) = 0 /\ Pends(v) = 1 /\ Pends(wr[w]) = 1
        /\ Sends(v) = Sends(wr[w]) /\ sem' = sem /\ pending' = pending /\ next' = next
        /\ sem \in Int /\ pending \in Int /\ next \in Int
        /\ Cardinality(Opened) \in Nat /\ Cardinality(Waiting) \in Nat
    BY <1>1, <1>2, <1>3, Finite DEF Posts, Pends, Sends, TypeOK
  <2> QED
    BY <1>1, <1>2, <1>3, <1>8, <1>9, <2>1, CountsWriter
<1>15. ASSUME NEW x \in Writers PROVE WriterOK(x)'
  <2>1. CASE x = w
    BY <1>1, <1>2, <1>3, <1>4, <2>1, ThreadAssumption DEF WriterOK, b
  <2>2. CASE x # w
    <3>1. /\ WriterOK(x) /\ (lockW' = x <=> lockW = x) /\ next \in Nat /\ next' \in Nat /\ next' >= next
          /\ wr[x].pc # "lock"
      BY <1>1, <1>2, <2>2, TypeFacts, ThreadAssumption, OneLock
    <3>2. wr'[x] = wr[x] /\ Blocks \subseteq Nat
      BY <1>1, <1>4, <2>2, TypeFacts
    <3>3. wr[x].pc = "unlock" => (blk'[wr[x].blk].gone => blk[wr[x].blk].gone)
      BY <1>1, <1>6 DEF WriterOK
    <3> QED
      BY <3>1, <3>2, <3>3, KeepWriter
  <2> QED
    BY <2>1, <2>2
<1>16. ASSUME NEW r \in Readers PROVE ReaderOK(r)'
  <2>1. lockW # r /\ lockW' # r
    BY <1>2, OneLock, ThreadAssumption
  <2>2. rd[r].blk # NULL => /\ blk'[rd[r].blk].first = blk[rd[r].blk].first
                            /\ blk'[rd[r].blk].last = blk[rd[r].blk].last
    BY <1>1, <1>6, ThreadFacts
  <2> QED
    BY <1>1, <1>2, <1>8, <2>1, <2>2 DEF ReaderOK
<1> QED
  BY <1>7, <1>8, <1>9, <1>10, <1>12, <1>13, <1>14, <1>15, <1>16 DEF QueueInv

\* The last writer of a block releases lock_non_0_ref.
LEMMA StepUnlock ==
    ASSUME QueueInv, NEW w \in Writers, UnlockNonZero(w)
    PROVE  QueueInv'
<1> DEFINE b == wr[w].blk
           v == [wr[w] EXCEPT !.pc = "post"]
<1>1. /\ TypeOK /\ Lists /\ Tiles /\ Order /\ Opens /\ Refs /\ Locks /\ Frees /\ Counts
      /\ \A x \in Writers : WriterOK(x)
      /\ \A r \in Readers : ReaderOK(r)
  BY DEF QueueInv
<1>2. /\ wr[w].pc = "unlock" /\ blk' = [blk EXCEPT ![b].lock = FALSE]
      /\ UNCHANGED <<pool, data, read, sem, pending, lockW, lockR, rd, at, next>>
  BY DEF UnlockNonZero
<1>3. v \in Writer /\ wr' = [wr EXCEPT ![w] = v] /\ v.pc = "post" /\ v.open = wr[w].open /\ v.blk = b
  BY <1>1 DEF TypeOK, Writer, UnlockNonZero
<1>4. /\ wr'[w] = v /\ wr' \in [Writers -> Writer]
      /\ \A x \in Writers : x # w => wr'[x] = wr[x]
  BY <1>1, <1>3 DEF TypeOK
<1>5. b \in Blocks /\ b < next /\ ~blk[b].gone
  BY <1>1, <1>2 DEF WriterOK
<1> HIDE DEF b, v
<1>6. /\ \A c \in Blocks : /\ blk'[c].first = blk[c].first /\ blk'[c].last = blk[c].last
                           /\ blk'[c].ref = blk[c].ref /\ blk'[c].frees = blk[c].frees
                           /\ blk'[c].gone = blk[c].gone
                           /\ c # b => blk'[c].lock = blk[c].lock
      /\ ~blk'[b].lock
      /\ blk' \in [Blocks -> Block]
  <2>1. blk \in [Blocks -> Block] /\ FALSE \in BOOLEAN
    BY <1>1 DEF TypeOK
  <2> QED
    BY <1>2, <1>5, <2>1 DEF Block
<1>7. TypeOK'
  BY <1>1, <1>2, <1>4, <1>6 DEF TypeOK
<1>8. /\ Lists' /\ Tiles' /\ Order'
      /\ Waiting' = Waiting /\ Queued' = Queued /\ Pooled' = Pooled /\ QueueBlocks' = QueueBlocks
  BY <1>1, <1>2, <1>6, KeepShape
<1>9. /\ Opens' /\ Opened' = Opened
      /\ \A c : OpenIn(c)' = OpenIn(c)
      /\ \A x \in Writers : Open(x)' = Open(x)
  <2>1. \A x \in Writers : wr'[x].open = wr[x].open
    BY <1>3, <1>4
  <2> QED
    BY <1>1, <1>2, <1>8, <2>1, KeepOpens
<1>10. Refs'
  <2>1. /\ read # NULL => blk'[read].ref = blk[read].ref
        /\ \A r \in Readers : rd[r].blk # NULL => blk'[rd[r].blk].ref = blk[rd[r].blk].ref
    BY <1>1, <1>6, ThreadFacts DEF TypeOK
  <2>2. \A c \in Queued' : blk'[c].ref = Cardinality(OpenIn(c)')
    BY <1>1, <1>6, <1>8, <1>9, TypeFacts DEF Refs
  <2> QED
    BY <1>1, <1>2, <2>1, <2>2 DEF Refs, Holding
<1>11. /\ \A c \in Blocks : Locking(c)' <=> Locking(c)
       /\ \A c \in Blocks : c # b => (Unlocking(c)' <=> Unlocking(c))
       /\ Unlocking(b)
       /\ \A c \in Blocks : c = b => ~Unlocking(c)'
  <2>1. \A x \in Writers : x # w /\ wr[x].pc = "unlock" => wr[x].blk # b
    BY <1>1, <1>2 DEF Locks, b
  <2> QED
    BY <1>2, <1>3, <1>4, <2>1 DEF Locking, Unlocking, b
<1>12. Locks'
  <2>1. ASSUME NEW x \in Writers, NEW y \in Writers, wr'[x].pc = "unlock", wr'[y].pc = "unlock",
               wr'[x].blk = wr'[y].blk
        PROVE  x = y
    BY <1>1, <1>3, <1>4, <2>1 DEF Locks
  <2>2. ASSUME NEW c \in Blocks
        PROVE  /\ blk'[c].lock <=> Unlocking(c)' \/ (OpenIn(c)' # {} /\ ~Locking(c)')
               /\ Unlocking(c)' /\ OpenIn(c)' # {} => Locking(c)'
    <3>1. CASE c = b
      <4>1. ~Unlocking(c)' /\ ~blk'[c].lock /\ (OpenIn(c)' # {} => Locking(c)')
        BY <1>1, <1>6, <1>9, <1>11, <3>1 DEF Locks
      <4> QED
        BY <4>1
    <3>2. CASE c # b
      BY <1>1, <1>6, <1>9, <1>11, <3>2 DEF Locks
    <3> QED
      BY <3>1, <3>2
  <2> QED
    BY <2>1, <2>2 DEF Locks
<1>13. Frees'
  BY <1>1, <1>2, <1>6, <1>8, TypeFacts DEF Frees
<1>14. Counts'
  <2>1. /\ Posts(v) = 1 /\ Posts(wr[w]) = 1 /\ Pends(v) = 0 /\ Pends(wr[w]) = 0
        /\ Sends(v) = Sends(wr[w]) /\ sem' = sem /\ pending' = pending /\ next' = next
        /\ sem \in Int /\ pending \in Int /\ next \in Int
        /\ Cardinality(Opened) \in Nat /\ Cardinality(Waiting) \in Nat
    BY <1>1, <1>2, <1>3, Finite DEF Posts, Pends, Sends, TypeOK
  <2> QED
    BY <1>1, <1>2, <1>3, <1>8, <1>9, <2>1, CountsWriter
<1>15. ASSUME NEW x \in Writers PROVE WriterOK(x)'
  <2>1. CASE x = w
    BY <1>1, <1>2, <1>3, <1>4, <2>1, ThreadAssumption DEF WriterOK, b
  <2>2. CASE x # w
    <3>1. /\ WriterOK(x) /\ (lockW' = x <=> lockW = x) /\ next \in Nat /\ next' \in Nat /\ next' >= next
          /\ OpenIn(wr[x].blk)' = OpenIn(wr[x].blk)
      <4>1. wr'[x] = wr[x]
        BY <1>4, <2>2
      <4>2. OpenIn(wr[x].blk)' = OpenIn(wr[x].blk)
        BY <1>2, <1>9, <4>1 DEF OpenIn
      <4> QED
        BY <1>1, <1>2, <4>2, TypeFacts
    <3>2. wr'[x] = wr[x] /\ Blocks \subseteq Nat
      BY <1>1, <1>4, <2>2, TypeFacts
    <3>3. wr[x].pc = "unlock" => (blk'[wr[x].blk].gone => blk[wr[x].blk].gone)
      BY <1>1, <1>6 DEF WriterOK
    <3> QED
      BY <3>1, <3>2, <3>3, <1>2, KeepWriter
  <2> QED
    BY <2>1, <2>2
<1>16. ASSUME NEW r \in Readers PROVE ReaderOK(r)'
  <2>1. lockW' = lockW
    BY <1>2
  <2>2. rd[r].blk # NULL => /\ blk'[rd[r].blk].first = blk[rd[r].blk].first
                            /\ blk'[rd[r].blk].last = blk[rd[r].blk].last
    BY <1>1, <1>6, ThreadFacts
  <2> QED
    BY <1>1, <1>2, <1>8, <2>1, <2>2 DEF ReaderOK
<1> QED
  BY <1>7, <1>8, <1>9, <1>10, <1>12, <1>13, <1>14, <1>15, <1>16 DEF QueueInv

-----------------------------------------------------------------------------
(* The reader and its block *)

\* A step of the reader that changes ref, frees and gone of a block at most.
LEMMA ReaderBlock ==
    ASSUME QueueInv, OneReader, NEW r \in Readers, NEW q \in Reader, rd' = [rd EXCEPT ![r] = q],
           UNCHANGED <<data, read, sem, pending, lockW, wr, at, next>>,
           blk' \in [Blocks -> Block], pool' \in Seq(Blocks), lockR' \in Readers \cup {NoThread},
           \A c \in Blocks : /\ blk'[c].first = blk[c].first /\ blk'[c].last = blk[c].last
                             /\ blk'[c].lock = blk[c].lock,
           \A w \in Writers : wr[w].pc = "unlock" => ~blk'[wr[w].blk].gone,
           Owes(q) = Owes(rd[r]), Uncounted(q) = Uncounted(rd[r]),
           Lists', Refs', Frees', ReaderOK(r)'
    PROVE  QueueInv'
<1>1. /\ TypeOK /\ Lists /\ Tiles /\ Order /\ Opens /\ Locks /\ Counts
      /\ \A x \in Writers : WriterOK(x)
  BY DEF QueueInv
<1>2. rd' \in [Readers -> Reader] /\ rd'[r] = q
  BY <1>1 DEF TypeOK
<1>3. TypeOK'
  BY <1>1, <1>2 DEF TypeOK
<1>4. Tiles' /\ Order' /\ Waiting' = Waiting /\ Queued' = Queued /\ QueueBlocks' = QueueBlocks
  BY <1>1, KeepTiles
<1>5. /\ Opens' /\ Opened' = Opened
      /\ \A c : OpenIn(c)' = OpenIn(c)
      /\ \A x \in Writers : Open(x)' = Open(x)
  <2>1. \A x \in Writers : wr'[x].open = wr[x].open
    OBVIOUS
  <2> QED
    BY <1>1, <1>4, <2>1, KeepOpens
<1>6. Locks'
  BY <1>1, <1>5 DEF Locks, Locking, Unlocking
<1>7. Counts'
  <2>1. /\ sem \in Int /\ pending \in Int /\ Owes(q) \in Int /\ Uncounted(q) \in Int
        /\ Cardinality(Opened) \in Nat /\ Cardinality(Waiting) \in Nat
    BY <1>1, Finite DEF Owes, Uncounted, TypeOK
  <2> QED
    BY <1>1, <1>4, <1>5, <2>1, CountsReader
<1>8. ASSUME NEW x \in Writers PROVE WriterOK(x)'
  <2>1. WriterOK(x) /\ (lockW' = x <=> lockW = x) /\ next \in Nat /\ next' \in Nat /\ next' >= next
    BY <1>1, TypeFacts
  <2>2. OpenIn(wr[x].blk)' = OpenIn(wr[x].blk) /\ wr'[x] = wr[x] /\ Blocks \subseteq Nat
    BY <1>1, <1>5, TypeFacts
  <2>3. wr[x].pc = "unlock" => (blk'[wr[x].blk].gone => blk[wr[x].blk].gone)
    OBVIOUS
  <2> QED
    BY <2>1, <2>2, <2>3, KeepWriter
<1>9. ASSUME NEW s \in Readers PROVE ReaderOK(s)'
  BY DEF OneReader
<1> QED
  BY <1>3, <1>4, <1>5, <1>6, <1>7, <1>8, <1>9 DEF QueueInv

\* The block the reader has.
LEMMA HeldBlock ==
    ASSUME QueueInv, NEW r \in Readers, rd[r].pc \in {"ref", "sem", "count", "have", "done"}
    PROVE  /\ rd[r].blk \in Blocks /\ rd[r].blk \notin Queued /\ rd[r].blk \notin Pooled
           /\ rd[r].blk < next /\ blk[rd[r].blk].ref = IF Holding(r) THEN 1 ELSE 0
           /\ blk[rd[r].blk].frees = 0 /\ ~blk[rd[r].blk].gone
<1>1. TypeOK /\ Refs /\ Frees /\ ReaderOK(r)
  BY DEF QueueInv
<1>2. rd[r].blk # NULL /\ rd[r].blk \in Blocks
  BY <1>1, ThreadFacts DEF ReaderOK
<1>3. blk[rd[r].blk].frees = 0
  BY <1>1, <1>2, TypeFacts DEF Frees
<1>4. ~blk[rd[r].blk].gone
  BY <1>1, <1>2, <1>3, TypeFacts DEF Frees
<1> QED
  BY <1>1, <1>2, <1>3, <1>4 DEF ReaderOK, Refs

\* The reader counts itself.
LEMMA StepRef ==
    ASSUME QueueInv, OneReader, NEW r \in Readers, RefBlock(r)
    PROVE  QueueInv'
<1> DEFINE q == [rd[r] EXCEPT !.pc = IF rd[r].mode = "wait" THEN "count" ELSE "sem"]
<1>1. /\ TypeOK /\ Lists /\ Tiles /\ Order /\ Refs /\ Frees /\ ReaderOK(r)
      /\ \A w \in Writers : WriterOK(w)
  BY DEF QueueInv
<1>2. PICK b \in Blocks : b = rd[r].blk
  BY HeldBlock DEF RefBlock
<1>3. /\ rd[r].pc = "ref" /\ lockR' = NoThread /\ blk' = [blk EXCEPT ![b].ref = @ + 1]
      /\ UNCHANGED <<pool, data, read, sem, pending, lockW, wr, at, next>>
  BY <1>2 DEF RefBlock
<1>4. /\ q \in Reader /\ rd' = [rd EXCEPT ![r] = q] /\ rd'[r] = q
      /\ q.pc = IF rd[r].mode = "wait" THEN "count" ELSE "sem"
      /\ q.mode = rd[r].mode /\ q.blk = b /\ q.msg = rd[r].msg /\ q.ref = rd[r].ref
  BY <1>1, <1>2 DEF TypeOK, Reader, RefBlock
<1>5. b \notin Queued /\ b \notin Pooled /\ blk[b].ref = 0
  BY <1>2, <1>3, HeldBlock DEF Holding
<1> HIDE DEF q
<1>6. /\ \A c \in Blocks : /\ blk'[c].first = blk[c].first /\ blk'[c].last = blk[c].last
                           /\ blk'[c].lock = blk[c].lock /\ blk'[c].frees = blk[c].frees
                           /\ blk'[c].gone = blk[c].gone
                           /\ c # b => blk'[c].ref = blk[c].ref
      /\ blk'[b].ref = 1
      /\ blk' \in [Blocks -> Block]
  <2>1. blk \in [Blocks -> Block]
    BY <1>1 DEF TypeOK
  <2> QED
    BY <1>3, <1>5, <2>1 DEF Block
<1>7. pool' \in Seq(Blocks) /\ lockR' \in Readers \cup {NoThread}
  BY <1>1, <1>3 DEF TypeOK
<1>8. /\ Lists' /\ Waiting' = Waiting /\ Queued' = Queued /\ Pooled' = Pooled
      /\ QueueBlocks' = QueueBlocks
  BY <1>1, <1>3, <1>6, KeepShape
<1>9. Owes(q) = Owes(rd[r]) /\ Uncounted(q) = Uncounted(rd[r])
  <2>1. rd[r].mode \in {"wait", "poll"}
    BY <1>1, ThreadFacts
  <2> QED
    BY <1>3, <1>4, <2>1 DEF Owes, Uncounted
<1>10. Refs'
  <2>1. \A c : OpenIn(c)' = OpenIn(c)
    BY <1>3, KeepOpens
  <2>2. \A c \in Queued' : blk'[c].ref = Cardinality(OpenIn(c)')
    BY <1>1, <1>5, <1>6, <1>8, <2>1, TypeFacts DEF Refs
  <2>3. ASSUME read' # NULL, \A s \in Readers : rd'[s].blk # read'
        PROVE  blk'[read'].ref = 0
    <3>1. read # b /\ read \in Blocks
      BY <1>1, <1>3, <1>4, <2>3 DEF TypeOK
    <3>2. \A s \in Readers : rd[s].blk # read
      BY <1>2, <3>1 DEF OneReader
    <3> QED
      BY <1>1, <1>3, <1>6, <2>3, <3>1, <3>2 DEF Refs
  <2>4. ASSUME NEW s \in Readers, rd'[s].blk # NULL
        PROVE  blk'[rd'[s].blk].ref = IF Holding(s)' THEN 1 ELSE 0
    <3>1. rd'[s] = q
      BY <1>4 DEF OneReader
    <3>2. Holding(s)'
      BY <1>4, <3>1 DEF Holding
    <3> QED
      BY <1>4, <1>6, <3>1, <3>2
  <2> QED
    BY <2>2, <2>3, <2>4 DEF Refs
<1>11. Frees'
  <2>1. \A s \in Readers : rd'[s].blk = rd[s].blk
    BY <1>2, <1>4 DEF OneReader
  <2>2. ASSUME NEW c \in Blocks
        PROVE  /\ blk'[c].frees <= 1
               /\ blk'[c].frees > 0 => c \notin QueueBlocks' /\ \A s \in Readers : rd'[s].blk # c
               /\ blk'[c].gone => blk'[c].frees > 0
    BY <1>1, <1>6, <1>8, <2>1 DEF Frees
  <2>3. \A c \in Pooled' : ~blk'[c].gone
    BY <1>1, <1>6, <1>8, TypeFacts DEF Frees
  <2> QED
    BY <2>2, <2>3 DEF Frees
<1>12. ReaderOK(r)'
  <2>1. blk'[b].first = blk[b].first /\ blk'[b].last = blk[b].last
    BY <1>6
  <2>2. /\ lockR' # r /\ lockW # r /\ q.pc \in {"count", "sem"} /\ rd[r].msg # NULL /\ b # NULL
        /\ q.msg \notin Waiting /\ q.msg < next /\ b < next
        /\ b # read => blk[b].first >= blk[b].last
        /\ q.pc = "sem" => q.mode = "poll"
    BY <1>1, <1>2, <1>3, <1>4, ThreadFacts, ThreadAssumption DEF ReaderOK
  <2> QED
    BY <1>3, <1>4, <1>5, <1>8, <2>1, <2>2 DEF ReaderOK
<1>13. \A w \in Writers : wr[w].pc = "unlock" => ~blk'[wr[w].blk].gone
  BY <1>1, <1>6 DEF WriterOK
<1> QED
  BY <1>3, <1>4, <1>6, <1>7, <1>8, <1>9, <1>10, <1>11, <1>12, <1>13, ReaderBlock

\* eina_thread_queue_wait_done: the reader is done with its message.
LEMMA StepDone ==
    ASSUME QueueInv, OneReader, NEW r \in Readers, eina_thread_queue_wait_done(r)
    PROVE  QueueInv'
<1> DEFINE q == [rd[r] EXCEPT !.pc = "done", !.msg = NULL, !.ref = 0]
<1>1. /\ TypeOK /\ Lists /\ Tiles /\ Order /\ Refs /\ Frees /\ ReaderOK(r)
      /\ \A w \in Writers : WriterOK(w)
  BY DEF QueueInv
<1>2. PICK b \in Blocks : b = rd[r].blk
  BY HeldBlock DEF eina_thread_queue_wait_done
<1>3. /\ rd[r].pc = "have" /\ blk' = [blk EXCEPT ![b].ref = @ - 1]
      /\ UNCHANGED <<pool, data, read, sem, pending, lockW, lockR, wr, at, next>>
  BY <1>2 DEF eina_thread_queue_wait_done
<1>5. b \notin Queued /\ b \notin Pooled /\ blk[b].ref = 1
  BY <1>2, <1>3, HeldBlock DEF Holding
<1>4. /\ q \in Reader /\ rd' = [rd EXCEPT ![r] = q] /\ rd'[r] = q
      /\ q.pc = "done" /\ q.blk = b /\ q.msg = NULL /\ q.ref = 0
  <2>1. blk[rd[r].blk].ref - 1 = 0
    BY <1>2, <1>5
  <2>2. rd' = [rd EXCEPT ![r].pc = "done", ![r].msg = NULL, ![r].ref = 0]
    BY <2>1 DEF eina_thread_queue_wait_done
  <2>3. q \in Reader
    <3>1. rd[r] \in Reader /\ NULL \in Msg \cup {NULL} /\ 0 \in Int
      BY <1>1, ThreadFacts
    <3>2. \A x \in Reader : \A m \in Msg \cup {NULL} : \A n \in Int :
            [x EXCEPT !.pc = "done", !.msg = m, !.ref = n] \in Reader
      BY DEF Reader
    <3> QED
      BY <3>1, <3>2
  <2>4. rd \in [Readers -> Reader]
    BY <1>1 DEF TypeOK
  <2> QED
    BY <1>2, <2>2, <2>3, <2>4 DEF Reader
<1> HIDE DEF q
<1>6. /\ \A c \in Blocks : /\ blk'[c].first = blk[c].first /\ blk'[c].last = blk[c].last
                           /\ blk'[c].lock = blk[c].lock /\ blk'[c].frees = blk[c].frees
                           /\ blk'[c].gone = blk[c].gone
                           /\ c # b => blk'[c].ref = blk[c].ref
      /\ blk'[b].ref = 0
      /\ blk' \in [Blocks -> Block]
  <2>1. blk \in [Blocks -> Block]
    BY <1>1 DEF TypeOK
  <2> QED
    BY <1>3, <1>5, <2>1 DEF Block
<1>7. pool' \in Seq(Blocks) /\ lockR' \in Readers \cup {NoThread}
  BY <1>1, <1>3 DEF TypeOK
<1>8. /\ Lists' /\ Waiting' = Waiting /\ Queued' = Queued /\ Pooled' = Pooled
      /\ QueueBlocks' = QueueBlocks
  BY <1>1, <1>3, <1>6, KeepShape
<1>9. Owes(q) = Owes(rd[r]) /\ Uncounted(q) = Uncounted(rd[r])
  BY <1>3, <1>4 DEF Owes, Uncounted
<1>10. Refs'
  <2>1. \A c : OpenIn(c)' = OpenIn(c)
    BY <1>3, KeepOpens
  <2>2. \A c \in Queued' : blk'[c].ref = Cardinality(OpenIn(c)')
    BY <1>1, <1>5, <1>6, <1>8, <2>1, TypeFacts DEF Refs
  <2>3. ASSUME read' # NULL, \A s \in Readers : rd'[s].blk # read'
        PROVE  blk'[read'].ref = 0
    <3>1. read # b /\ read \in Blocks
      BY <1>1, <1>3, <1>4, <2>3 DEF TypeOK
    <3>2. \A s \in Readers : rd[s].blk # read
      BY <1>2, <3>1 DEF OneReader
    <3> QED
      BY <1>1, <1>3, <1>6, <2>3, <3>1, <3>2 DEF Refs
  <2>4. ASSUME NEW s \in Readers, rd'[s].blk # NULL
        PROVE  blk'[rd'[s].blk].ref = IF Holding(s)' THEN 1 ELSE 0
    <3>1. rd'[s] = q
      BY <1>4 DEF OneReader
    <3>2. ~Holding(s)'
      BY <1>4, <3>1 DEF Holding
    <3> QED
      BY <1>4, <1>6, <3>1, <3>2
  <2> QED
    BY <2>2, <2>3, <2>4 DEF Refs
<1>11. Frees'
  <2>1. \A s \in Readers : rd'[s].blk = rd[s].blk
    BY <1>2, <1>4 DEF OneReader
  <2>2. ASSUME NEW c \in Blocks
        PROVE  /\ blk'[c].frees <= 1
               /\ blk'[c].frees > 0 => c \notin QueueBlocks' /\ \A s \in Readers : rd'[s].blk # c
               /\ blk'[c].gone => blk'[c].frees > 0
    BY <1>1, <1>6, <1>8, <2>1 DEF Frees
  <2>3. \A c \in Pooled' : ~blk'[c].gone
    BY <1>1, <1>6, <1>8, TypeFacts DEF Frees
  <2> QED
    BY <2>2, <2>3 DEF Frees
<1>12. ReaderOK(r)'
  <2>1. blk'[b].first = blk[b].first /\ blk'[b].last = blk[b].last
    BY <1>6
  <2>2. /\ lockR # r /\ lockW # r /\ b # NULL /\ b < next
        /\ b # read => blk[b].first >= blk[b].last
    BY <1>1, <1>2, <1>3, ThreadFacts DEF ReaderOK
  <2>3. NULL \notin Waiting /\ NULL < next
    BY <1>1, TypeFacts DEF NULL
  <2> QED
    BY <1>3, <1>4, <1>5, <1>8, <2>1, <2>2, <2>3 DEF ReaderOK
<1>13. \A w \in Writers : wr[w].pc = "unlock" => ~blk'[wr[w].blk].gone
  BY <1>1, <1>6 DEF WriterOK
<1> QED
  BY <1>3, <1>4, <1>6, <1>7, <1>8, <1>9, <1>10, <1>11, <1>12, <1>13, ReaderBlock

\* A block goes to the pool.
LEMMA PoolGrows ==
    ASSUME TypeOK, Lists, NEW b \in Blocks, b \notin Pooled, b \notin QueueBlocks, b < next,
           pool' = <<b>> \o pool, UNCHANGED <<data, read, next>>
    PROVE  Lists' /\ Pooled' = Pooled \cup {b} /\ pool' \in Seq(Blocks)
<1>1. pool \in Seq(Blocks) /\ <<b>> \in Seq(Blocks) /\ Len(<<b>>) = 1 /\ Len(pool) \in Nat
  BY DEF TypeOK
<1>2. /\ pool' \in Seq(Blocks) /\ Len(pool') = Len(pool) + 1
      /\ pool'[1] = b
      /\ \A i \in 1..Len(pool) : pool'[i + 1] = pool[i]
      /\ \A i \in 2..Len(pool') : i - 1 \in 1..Len(pool) /\ pool'[i] = pool[i - 1]
  BY <1>1
<1>3. DOMAIN pool' = 1..Len(pool') /\ DOMAIN pool = 1..Len(pool)
  BY <1>1, <1>2
<1>4. Pooled' = Pooled \cup {b}
  <2>1. ASSUME NEW i \in DOMAIN pool' PROVE pool'[i] \in Pooled \cup {b}
    BY <1>1, <1>2, <1>3 DEF Pooled
  <2>2. b \in Pooled'
    BY <1>1, <1>2, <1>3 DEF Pooled
  <2>3. ASSUME NEW i \in DOMAIN pool PROVE pool[i] \in Pooled'
    <3>1. i + 1 \in DOMAIN pool' /\ pool'[i + 1] = pool[i]
      BY <1>1, <1>2, <1>3
    <3> QED
      BY <3>1 DEF Pooled
  <2>4. Pooled \subseteq Pooled'
    BY <2>3 DEF Pooled
  <2>5. Pooled' \subseteq Pooled \cup {b}
    BY <2>1 DEF Pooled
  <2> QED
    BY <2>2, <2>4, <2>5
<1>5. ASSUME NEW i \in DOMAIN pool', NEW j \in DOMAIN pool', pool'[i] = pool'[j]
      PROVE  i = j
  <2>0. \A k \in DOMAIN pool : pool[k] # b
    BY DEF Pooled
  <2>1. CASE i = 1 /\ j = 1
    BY <2>1
  <2>2. CASE i = 1 /\ j # 1
    <3>1. j - 1 \in DOMAIN pool /\ pool'[j] = pool[j - 1]
      BY <1>1, <1>2, <1>3, <2>2
    <3> QED
      BY <1>2, <1>5, <2>0, <2>2, <3>1
  <2>3. CASE i # 1 /\ j = 1
    <3>1. i - 1 \in DOMAIN pool /\ pool'[i] = pool[i - 1]
      BY <1>1, <1>2, <1>3, <2>3
    <3> QED
      BY <1>2, <1>5, <2>0, <2>3, <3>1
  <2>4. CASE i # 1 /\ j # 1
    <3>1. /\ i - 1 \in DOMAIN pool /\ pool'[i] = pool[i - 1]
          /\ j - 1 \in DOMAIN pool /\ pool'[j] = pool[j - 1]
      BY <1>1, <1>2, <1>3, <2>4
    <3>2. i - 1 = j - 1
      BY <1>5, <3>1 DEF Lists
    <3> QED
      BY <1>1, <1>2, <1>3, <3>2
  <2> QED
    BY <2>1, <2>2, <2>3, <2>4
<1>6. Queued' = Queued /\ QueueBlocks' = QueueBlocks
  BY DEF Queued, QueueBlocks
<1>7. Lists'
  BY <1>4, <1>5, <1>6 DEF Lists
<1> QED
  BY <1>2, <1>4, <1>7

\* The reader lets its block go.
LEMMA StepFree ==
    ASSUME QueueInv, OneReader, NEW r \in Readers, FreeBlock(r)
    PROVE  QueueInv'
<1> DEFINE q == [rd[r] EXCEPT !.pc = "idle", !.blk = NULL, !.ref = 0]
<1>1. /\ TypeOK /\ Lists /\ Tiles /\ Order /\ Refs /\ Locks /\ Frees /\ ReaderOK(r)
      /\ \A w \in Writers : WriterOK(w)
  BY DEF QueueInv
<1>2. PICK b \in Blocks : b = rd[r].blk
  BY HeldBlock DEF FreeBlock
<1>3. /\ rd[r].pc = "done"
      /\ UNCHANGED <<data, read, sem, pending, lockW, lockR, wr, at, next>>
      /\ rd' = [rd EXCEPT ![r].pc = "idle", ![r].blk = NULL, ![r].ref = 0]
  BY DEF FreeBlock
<1>4. /\ b \notin Queued /\ b \notin Pooled /\ blk[b].ref = 0 /\ b < next
      /\ blk[b].frees = 0 /\ ~blk[b].gone /\ rd[r].ref = 0
  BY <1>1, <1>2, <1>3, HeldBlock DEF Holding, ReaderOK
<1>5. /\ q \in Reader /\ rd' = [rd EXCEPT ![r] = q] /\ rd'[r] = q
      /\ q.pc = "idle" /\ q.blk = NULL /\ q.ref = 0 /\ q.msg = rd[r].msg
  <2>1. rd[r] \in Reader /\ NULL \in Blocks \cup {NULL} /\ 0 \in Int /\ rd \in [Readers -> Reader]
    BY <1>1, ThreadFacts DEF TypeOK
  <2>2. \A x \in Reader : \A m \in Blocks \cup {NULL} : \A n \in Int :
          [x EXCEPT !.pc = "idle", !.blk = m, !.ref = n] \in Reader
    BY DEF Reader
  <2>3. q \in Reader
    BY <2>1, <2>2
  <2> QED
    BY <1>3, <2>1, <2>3 DEF Reader
<1> HIDE DEF q
<1>6. Owes(q) = Owes(rd[r]) /\ Uncounted(q) = Uncounted(rd[r])
  BY <1>3, <1>5 DEF Owes, Uncounted
<1>7. Waiting' = Waiting /\ Queued' = Queued /\ QueueBlocks' = QueueBlocks
  BY <1>3 DEF Waiting, Queued, QueueBlocks
<1>8. ReaderOK(r)'
  <2>1. /\ lockR # r /\ lockW # r /\ q.msg = NULL
        /\ NULL \notin Waiting /\ NULL < next
    BY <1>1, <1>3, <1>5, TypeFacts DEF ReaderOK, NULL
  <2> QED
    BY <1>3, <1>5, <1>7, <2>1 DEF ReaderOK
<1>9. \A s \in Readers : rd'[s].blk = NULL /\ rd[s].blk = b
  BY <1>2, <1>5 DEF OneReader
<1>10. ASSUME \A c \in Blocks : blk'[c].ref = blk[c].ref
       PROVE  Refs'
  <2>1. \A c : OpenIn(c)' = OpenIn(c)
    BY <1>3, KeepOpens
  <2>2. \A c \in Queued' : blk'[c].ref = Cardinality(OpenIn(c)')
    BY <1>1, <1>7, <1>10, <2>1, TypeFacts DEF Refs
  <2>3. ASSUME read' # NULL PROVE blk'[read'].ref = 0
    <3>1. read \in Blocks /\ read' = read
      BY <1>1, <1>3, <2>3 DEF TypeOK
    <3>2. CASE read = b
      BY <1>4, <1>10, <3>1, <3>2
    <3>3. CASE read # b
      BY <1>1, <1>9, <1>10, <2>3, <3>1, <3>3 DEF Refs
    <3> QED
      BY <3>2, <3>3
  <2> QED
    BY <1>9, <2>2, <2>3 DEF Refs
<1>11. CASE ~Exhausted(r) /\ UNCHANGED <<blk, pool>>
  <2>1. /\ blk' \in [Blocks -> Block] /\ pool' \in Seq(Blocks) /\ lockR' \in Readers \cup {NoThread}
        /\ \A c \in Blocks : /\ blk'[c].first = blk[c].first /\ blk'[c].last = blk[c].last
                             /\ blk'[c].lock = blk[c].lock
    BY <1>1, <1>3, <1>11 DEF TypeOK
  <2>2. Lists' /\ Pooled' = Pooled
    BY <1>1, <1>3, <1>11, KeepShape
  <2>3. Refs'
    BY <1>10, <1>11
  <2>4. Frees'
    <3>1. ASSUME NEW c \in Blocks
          PROVE  /\ blk'[c].frees <= 1
                 /\ blk'[c].frees > 0 => c \notin QueueBlocks' /\ \A s \in Readers : rd'[s].blk # c
                 /\ blk'[c].gone => blk'[c].frees > 0
      BY <1>1, <1>7, <1>9, <1>11, TypeFacts DEF Frees
    <3> QED
      BY <1>1, <1>11, <2>2, <3>1 DEF Frees
  <2>5. \A w \in Writers : wr[w].pc = "unlock" => ~blk'[wr[w].blk].gone
    BY <1>1, <1>11 DEF WriterOK
  <2> QED
    BY <1>3, <1>5, <1>6, <1>8, <2>1, <2>2, <2>3, <2>4, <2>5, ReaderBlock
<1>12. ASSUME Exhausted(r)
       PROVE  b \notin QueueBlocks
  <2>1. blk[b].first >= blk[b].last
    BY <1>2, <1>12 DEF Exhausted
  <2>2. b # read \/ read = NULL
    BY <1>1, <2>1, TypeFacts DEF Tiles
  <2> QED
    BY <1>1, <1>2, <1>4, <2>2, TypeFacts
<1>13. ASSUME Exhausted(r), ToPool(b), pool' = <<b>> \o pool, blk' = [blk EXCEPT ![b].frees = @ + 1]
       PROVE  QueueInv'
  <2>0. blk \in [Blocks -> Block] /\ lockR' \in Readers \cup {NoThread}
    BY <1>1, <1>3 DEF TypeOK
  <2>1. /\ blk' \in [Blocks -> Block]
        /\ \A c \in Blocks : /\ blk'[c].first = blk[c].first /\ blk'[c].last = blk[c].last
                             /\ blk'[c].lock = blk[c].lock /\ blk'[c].ref = blk[c].ref
                             /\ blk'[c].gone = blk[c].gone
                             /\ blk'[c].frees = IF c = b THEN 1 ELSE blk[c].frees
    <3>1. blk' = [blk EXCEPT ![b].frees = 1]
      BY <1>4, <1>13, <2>0
    <3> QED
      BY <2>0, <3>1 DEF Block
  <2>2. Lists' /\ Pooled' = Pooled \cup {b} /\ pool' \in Seq(Blocks)
    BY <1>1, <1>3, <1>4, <1>12, <1>13, PoolGrows
  <2>3. Refs'
    BY <1>10, <2>1
  <2>4. Frees'
    <3>1. ASSUME NEW c \in Blocks
          PROVE  /\ blk'[c].frees <= 1
                 /\ blk'[c].frees > 0 => c \notin QueueBlocks' /\ \A s \in Readers : rd'[s].blk # c
                 /\ blk'[c].gone => blk'[c].frees > 0
      <4>0. \A s \in Readers : rd'[s].blk # c
        BY <1>1, <1>9, TypeFacts
      <4>1. CASE c = b
        BY <1>7, <1>12, <1>13, <2>1, <4>0, <4>1
      <4>2. CASE c # b
        <5>1. blk'[c].frees = blk[c].frees /\ blk'[c].gone = blk[c].gone
          BY <2>1, <4>2
        <5> QED
          BY <1>1, <1>7, <4>0, <5>1 DEF Frees
      <4> QED
        BY <4>1, <4>2
    <3>2. \A c \in Pooled' : ~blk'[c].gone
      BY <1>1, <1>4, <2>1, <2>2, TypeFacts DEF Frees
    <3> QED
      BY <3>1, <3>2 DEF Frees
  <2>5. \A w \in Writers : wr[w].pc = "unlock" => ~blk'[wr[w].blk].gone
    BY <1>1, <2>1 DEF WriterOK
  <2> QED
    BY <1>3, <1>5, <1>6, <1>8, <2>0, <2>1, <2>2, <2>3, <2>4, <2>5, ReaderBlock
<1>14. ASSUME Exhausted(r), RealFreeReady(b), UNCHANGED pool,
              blk' = [blk EXCEPT ![b].frees = @ + 1, ![b].gone = TRUE]
       PROVE  QueueInv'
  <2>0. /\ blk \in [Blocks -> Block] /\ TRUE \in BOOLEAN
        /\ pool' \in Seq(Blocks) /\ lockR' \in Readers \cup {NoThread}
    BY <1>1, <1>3, <1>14 DEF TypeOK
  <2>1. /\ blk' \in [Blocks -> Block]
        /\ \A c \in Blocks : /\ blk'[c].first = blk[c].first /\ blk'[c].last = blk[c].last
                             /\ blk'[c].lock = blk[c].lock /\ blk'[c].ref = blk[c].ref
                             /\ c # b => blk'[c].gone = blk[c].gone
                             /\ blk'[c].frees = IF c = b THEN 1 ELSE blk[c].frees
    BY <1>4, <1>14, <2>0 DEF Block
  <2>2. Lists' /\ Pooled' = Pooled
    BY <1>1, <1>3, <1>14, <2>1, KeepShape
  <2>3. Refs'
    BY <1>10, <2>1
  <2>4. Frees'
    <3>1. ASSUME NEW c \in Blocks
          PROVE  /\ blk'[c].frees <= 1
                 /\ blk'[c].frees > 0 => c \notin QueueBlocks' /\ \A s \in Readers : rd'[s].blk # c
                 /\ blk'[c].gone => blk'[c].frees > 0
      <4>0. \A s \in Readers : rd'[s].blk # c
        BY <1>1, <1>9, TypeFacts
      <4>1. CASE c = b
        <5>1. blk'[c].frees = 1 /\ c \notin QueueBlocks'
          BY <1>7, <1>12, <1>14, <2>1, <4>1
        <5> QED
          BY <4>0, <5>1
      <4>2. CASE c # b
        <5>1. blk'[c].frees = blk[c].frees /\ blk'[c].gone = blk[c].gone
          BY <2>1, <4>2
        <5> QED
          BY <1>1, <1>7, <4>0, <5>1 DEF Frees
      <4> QED
        BY <4>1, <4>2
    <3>2. \A c \in Pooled' : ~blk'[c].gone
      BY <1>1, <1>4, <2>1, <2>2, TypeFacts DEF Frees
    <3> QED
      BY <3>1, <3>2 DEF Frees
  <2>5. ASSUME NEW w \in Writers, wr[w].pc = "unlock" PROVE ~blk'[wr[w].blk].gone
    <3>1. ~blk[b].lock
      BY <1>14 DEF RealFreeReady
    <3>2. ~Unlocking(b)
      BY <1>1, <3>1 DEF Locks
    <3>3. wr[w].blk # b /\ wr[w].blk \in Blocks /\ ~blk[wr[w].blk].gone
      BY <1>1, <2>5, <3>2 DEF Unlocking, WriterOK
    <3> QED
      BY <2>1, <3>3
  <2> QED
    BY <1>3, <1>5, <1>6, <1>8, <2>0, <2>1, <2>2, <2>3, <2>4, <2>5, ReaderBlock
<1>15. \/ ~Exhausted(r) /\ UNCHANGED <<blk, pool>>
       \/ /\ Exhausted(r) /\ ToPool(b) /\ pool' = <<b>> \o pool
          /\ blk' = [blk EXCEPT ![b].frees = @ + 1]
       \/ /\ Exhausted(r) /\ RealFreeReady(b) /\ UNCHANGED pool
          /\ blk' = [blk EXCEPT ![b].frees = @ + 1, ![b].gone = TRUE]
  BY <1>2 DEF FreeBlock
<1> QED
  BY <1>11, <1>13, <1>14, <1>15

\* The first block of thq->data has no open message when it is moved.
LEMMA MoveReady ==
    ASSUME QueueInv, NEW r \in Readers,
           FetchLocked(r) \/ (FetchBlock(r) /\ ~(blk[Head(data)].ref > 0))
    PROVE  /\ data # <<>> /\ Head(data) \in Queued /\ Head(data) \in Blocks
           /\ OpenIn(Head(data)) = {} /\ blk[Head(data)].ref = 0
           /\ \A w \in Writers : lockW # w
<1>1. /\ TypeOK /\ Refs /\ Locks /\ ReaderOK(r)
      /\ \A w \in Writers : WriterOK(w)
  BY DEF QueueInv
<1>2. data # <<>>
  BY <1>1 DEF FetchLocked, FetchBlock, ReaderOK
<1>3. PICK h \in Blocks : h = Head(data) /\ h \in Queued
  <2>1. 1 \in DOMAIN data /\ Head(data) = data[1]
    BY <1>1, <1>2, TypeFacts
  <2> QED
    BY <1>1, <2>1, TypeFacts DEF Queued
<1>4. \A w \in Writers : lockW # w
  BY <1>1, ThreadAssumption DEF FetchLocked, FetchBlock, ReaderOK
<1>5. /\ blk[h].ref = Cardinality(OpenIn(h)) /\ Cardinality(OpenIn(h)) \in Nat
      /\ OpenIn(h) = {} <=> Cardinality(OpenIn(h)) = 0
  BY <1>1, <1>3, Finite DEF Refs
<1>6. OpenIn(h) = {}
  <2>1. CASE FetchLocked(r)
    <3>1. ~blk[h].lock
      BY <1>3, <2>1 DEF FetchLocked
    <3>2. ~Locking(h)
      BY <1>1, <1>4 DEF Locking, WriterOK
    <3> QED
      BY <1>1, <3>1, <3>2 DEF Locks
  <2>2. CASE ~(blk[Head(data)].ref > 0)
    BY <1>3, <1>5, <2>2
  <2> QED
    BY <2>1, <2>2
<1> QED
  BY <1>2, <1>3, <1>4, <1>5, <1>6

\* The tail of a sequence of different blocks.
LEMMA TailFacts ==
    ASSUME NEW S, NEW s \in Seq(S), s # <<>>, \A i, j \in DOMAIN s : s[i] = s[j] => i = j
    PROVE  /\ Tail(s) \in Seq(S) /\ DOMAIN Tail(s) = 1..(Len(s) - 1)
           /\ DOMAIN s = 1..Len(s) /\ Len(s) \in Nat /\ Len(s) > 0
           /\ Head(s) = s[1] /\ 1 \in DOMAIN s /\ Head(s) \in S
           /\ \A i \in DOMAIN Tail(s) : i + 1 \in DOMAIN s /\ Tail(s)[i] = s[i + 1]
           /\ \A i \in DOMAIN s : i # 1 => i - 1 \in DOMAIN Tail(s) /\ Tail(s)[i - 1] = s[i]
           /\ \A i, j \in DOMAIN Tail(s) : Tail(s)[i] = Tail(s)[j] => i = j
           /\ {Tail(s)[i] : i \in DOMAIN Tail(s)} = {s[i] : i \in DOMAIN s} \ {Head(s)}
<1>1. /\ Tail(s) \in Seq(S) /\ DOMAIN Tail(s) = 1..(Len(s) - 1)
      /\ DOMAIN s = 1..Len(s) /\ Len(s) \in Nat /\ Len(s) > 0
      /\ Head(s) = s[1] /\ 1 \in DOMAIN s /\ Head(s) \in S
  OBVIOUS
<1>2. \A i \in DOMAIN Tail(s) : i + 1 \in DOMAIN s /\ Tail(s)[i] = s[i + 1]
  BY <1>1
<1>3. \A i \in DOMAIN s : i # 1 => i - 1 \in DOMAIN Tail(s) /\ Tail(s)[i - 1] = s[i]
  BY <1>1
<1>4. ASSUME NEW i \in DOMAIN Tail(s), NEW j \in DOMAIN Tail(s), Tail(s)[i] = Tail(s)[j]
      PROVE  i = j
  <2>1. i + 1 \in DOMAIN s /\ j + 1 \in DOMAIN s /\ s[i + 1] = s[j + 1]
    BY <1>2, <1>4
  <2>2. i + 1 = j + 1
    BY <2>1
  <2> QED
    BY <1>1, <2>2
<1>5. ASSUME NEW x PROVE x \in {Tail(s)[i] : i \in DOMAIN Tail(s)} <=> x \in {s[i] : i \in DOMAIN s} \ {Head(s)}
  <2>1. ASSUME NEW i \in DOMAIN Tail(s), x = Tail(s)[i]
        PROVE  x \in {s[k] : k \in DOMAIN s} \ {Head(s)}
    <3>1. i + 1 \in DOMAIN s /\ x = s[i + 1] /\ i + 1 # 1
      BY <1>1, <1>2, <2>1
    <3> QED
      BY <1>1, <3>1
  <2>2. ASSUME NEW i \in DOMAIN s, x = s[i], x # Head(s)
        PROVE  x \in {Tail(s)[k] : k \in DOMAIN Tail(s)}
    <3>1. i # 1
      BY <1>1, <2>2
    <3> QED
      BY <1>3, <2>2, <3>1
  <2> QED
    BY <2>1, <2>2
<1>6. {Tail(s)[i] : i \in DOMAIN Tail(s)} = {s[i] : i \in DOMAIN s} \ {Head(s)}
  BY <1>5
<1> QED
  BY <1>1, <1>2, <1>3, <1>4, <1>6

\* A block moves from thq->data to thq->read.
LEMMA StepMove ==
    ASSUME QueueInv, OneReader, NEW r \in Readers,
           FetchLocked(r) \/ (FetchBlock(r) /\ ~(blk[Head(data)].ref > 0))
    PROVE  QueueInv'
<1> DEFINE q == [rd[r] EXCEPT !.pc = "take"]
<1>1. /\ TypeOK /\ Lists /\ Tiles /\ Order /\ Opens /\ Refs /\ Locks /\ Frees /\ Counts
      /\ \A x \in Writers : WriterOK(x)
      /\ ReaderOK(r)
  BY DEF QueueInv
<1>2. PICK h \in Blocks : /\ data # <<>> /\ h = Head(data) /\ h \in Queued
                          /\ OpenIn(h) = {} /\ blk[h].ref = 0
                          /\ \A w \in Writers : lockW # w
  BY MoveReady
<1>3. /\ rd[r].pc \in {"fetch", "lockB"} /\ read' = h /\ data' = Tail(data) /\ lockW' = NoThread
      /\ rd' = [rd EXCEPT ![r].pc = "take"]
      /\ UNCHANGED <<blk, pool, sem, pending, lockR, wr, at, next>>
  BY <1>2 DEF FetchLocked, FetchBlock, MoveBlock
<1>4. /\ q \in Reader /\ rd' = [rd EXCEPT ![r] = q] /\ rd'[r] = q /\ rd' \in [Readers -> Reader]
      /\ q.pc = "take" /\ q.mode = rd[r].mode /\ q.blk = rd[r].blk /\ q.msg = rd[r].msg /\ q.ref = rd[r].ref
  BY <1>1, <1>3 DEF TypeOK, Reader
<1> HIDE DEF q
<1>5. read = NULL /\ rd[r].blk = NULL /\ rd[r].msg = NULL /\ lockR = r /\ h # NULL
  BY <1>1, <1>3, TypeFacts DEF ReaderOK
<1>6. /\ data' \in Seq(Blocks) /\ DOMAIN data = 1..Len(data) /\ DOMAIN data' = 1..(Len(data) - 1)
      /\ h = data[1] /\ 1 \in DOMAIN data /\ Len(data) \in Nat
      /\ \A i \in DOMAIN data' : i + 1 \in DOMAIN data /\ data'[i] = data[i + 1]
      /\ \A i \in DOMAIN data : i # 1 => i - 1 \in DOMAIN data' /\ data'[i - 1] = data[i]
      /\ \A i, j \in DOMAIN data' : data'[i] = data'[j] => i = j
      /\ Queued' = Queued \ {h}
  <2>1. /\ data \in Seq(Blocks) /\ data # <<>>
        /\ \A i, j \in DOMAIN data : data[i] = data[j] => i = j
    BY <1>1, <1>2 DEF TypeOK, Lists
  <2>2. Queued' = {Tail(data)[i] : i \in DOMAIN Tail(data)} /\ Queued = {data[i] : i \in DOMAIN data}
    BY <1>3 DEF Queued
  <2>3. /\ Tail(data) \in Seq(Blocks) /\ DOMAIN Tail(data) = 1..(Len(data) - 1)
        /\ DOMAIN data = 1..Len(data) /\ Len(data) \in Nat /\ Len(data) > 0
        /\ Head(data) = data[1] /\ 1 \in DOMAIN data /\ Head(data) \in Blocks
        /\ \A i \in DOMAIN Tail(data) : i + 1 \in DOMAIN data /\ Tail(data)[i] = data[i + 1]
        /\ \A i \in DOMAIN data : i # 1 => i - 1 \in DOMAIN Tail(data) /\ Tail(data)[i - 1] = data[i]
        /\ \A i, j \in DOMAIN Tail(data) : Tail(data)[i] = Tail(data)[j] => i = j
        /\ {Tail(data)[i] : i \in DOMAIN Tail(data)} = {data[i] : i \in DOMAIN data} \ {Head(data)}
    BY <2>1, TailFacts
  <2>4. Queued' = Queued \ {h}
    BY <1>2, <2>2, <2>3
  <2> QED
    BY <1>2, <1>3, <2>3, <2>4
<1>7. TypeOK'
  BY <1>1, <1>3, <1>4, <1>6 DEF TypeOK
<1>8. QueueBlocks' = QueueBlocks
  <2>1. QueueBlocks = Queued
    BY <1>1, <1>5, TypeFacts
  <2>2. QueueBlocks' = Queued' \cup {h}
    BY <1>3, <1>5 DEF QueueBlocks, Queued
  <2> QED
    BY <1>2, <1>6, <2>1, <2>2
<1>9. Waiting' = Waiting /\ Pooled' = Pooled
  BY <1>3 DEF Waiting, Pooled
<1>10. Lists'
  <2>1. read' \notin Queued'
    BY <1>3, <1>6
  <2> QED
    BY <1>1, <1>3, <1>6, <1>8, <1>9, <2>1 DEF Lists
<1>11. Tiles'
  BY <1>1, <1>3, <1>8, <1>9 DEF Tiles
<1>12. Order'
  <2> SUFFICES ASSUME NEW m \in Waiting, NEW n \in Waiting, m < n
               PROVE  \/ at[m].blk = at[n].blk /\ at[m].pos + at[m].size <= at[n].pos
                      \/ Ahead(at[m].blk, at[n].blk)'
    BY <1>3, <1>9 DEF Order
  <2>1. at[m].blk \in Queued
    BY <1>1, <1>5, TypeFacts DEF Tiles
  <2>2. CASE at[m].blk = at[n].blk /\ at[m].pos + at[m].size <= at[n].pos
    BY <2>2
  <2>3. ASSUME Ahead(at[m].blk, at[n].blk) PROVE Ahead(at[m].blk, at[n].blk)'
    <3>1. PICK i, j \in DOMAIN data : i < j /\ data[i] = at[m].blk /\ data[j] = at[n].blk
      BY <1>1, <1>5, <2>1, <2>3, TypeFacts DEF Ahead
    <3>2. j # 1 /\ j - 1 \in DOMAIN data' /\ data'[j - 1] = at[n].blk
      BY <1>6, <3>1
    <3>3. CASE i = 1
      <4>1. at'[m].blk = read' /\ at'[n].blk \in Queued'
        BY <1>3, <1>6, <3>1, <3>2, <3>3 DEF Queued
      <4> QED
        BY <4>1 DEF Ahead
    <3>4. CASE i # 1
      <4>1. i - 1 \in DOMAIN data' /\ data'[i - 1] = at'[m].blk /\ i - 1 < j - 1 /\ data'[j - 1] = at'[n].blk
        BY <1>3, <1>6, <3>1, <3>2, <3>4
      <4> QED
        BY <3>2, <4>1 DEF Ahead
    <3> QED
      BY <3>3, <3>4
  <2> QED
    BY <1>1, <2>2, <2>3 DEF Order
<1>13. /\ Opened' = Opened
       /\ \A c : OpenIn(c)' = OpenIn(c)
       /\ \A x \in Writers : Open(x)' = Open(x)
  <2>1. \A x \in Writers : wr'[x].open = wr[x].open
    BY <1>3
  <2> QED
    BY <1>3, <2>1, KeepOpens
<1>14. Opens'
  <2>1. ASSUME NEW w \in Writers, NEW i \in DOMAIN wr[w].open
        PROVE  /\ wr[w].open[i][1] \in Waiting /\ at[wr[w].open[i][1]].blk = wr[w].open[i][2]
               /\ wr[w].open[i][2] \in Queued \ {h}
    <3>1. /\ wr[w].open[i][1] \in Waiting /\ at[wr[w].open[i][1]].blk = wr[w].open[i][2]
          /\ wr[w].open[i][2] \in Queued
      BY <1>1 DEF Opens
    <3>2. wr[w].open[i][1] \in Opened
      BY DEF Opened, Open
    <3>3. wr[w].open[i][2] # h
      BY <1>2, <3>1, <3>2 DEF OpenIn
    <3> QED
      BY <3>1, <3>3
  <2> QED
    BY <1>1, <1>3, <1>6, <1>9, <2>1 DEF Opens
<1>15. Refs'
  <2>1. \A c \in Queued' : blk'[c].ref = Cardinality(OpenIn(c)')
    BY <1>1, <1>3, <1>6, <1>13 DEF Refs
  <2>2. \A s \in Readers : rd'[s].blk = NULL
    BY <1>4, <1>5 DEF OneReader
  <2> QED
    BY <1>2, <1>3, <2>1, <2>2 DEF Refs
<1>16. Locks'
  BY <1>1, <1>3, <1>13 DEF Locks, Locking, Unlocking
<1>17. Frees'
  <2>1. \A s \in Readers : rd'[s].blk = rd[s].blk
    BY <1>4 DEF OneReader
  <2> QED
    BY <1>1, <1>3, <1>8, <1>9, <2>1 DEF Frees
<1>18. Counts'
  <2>1. Owes(q) = Owes(rd[r]) /\ Uncounted(q) = Uncounted(rd[r])
    BY <1>3, <1>4 DEF Owes, Uncounted
  <2>2. /\ sem \in Int /\ pending \in Int /\ Owes(q) \in Int /\ Uncounted(q) \in Int
        /\ Cardinality(Opened) \in Nat /\ Cardinality(Waiting) \in Nat
    BY <1>1, Finite DEF Owes, Uncounted, TypeOK
  <2> QED
    BY <1>1, <1>3, <1>4, <1>9, <1>13, <2>1, <2>2, CountsReader
<1>19. ASSUME NEW x \in Writers PROVE WriterOK(x)'
  <2>1. WriterOK(x) /\ (lockW' = x <=> lockW = x) /\ next \in Nat /\ next' \in Nat /\ next' >= next
    BY <1>1, <1>2, <1>3, TypeFacts, ThreadAssumption
  <2>2. OpenIn(wr[x].blk)' = OpenIn(wr[x].blk) /\ wr'[x] = wr[x] /\ Blocks \subseteq Nat
    BY <1>1, <1>3, <1>13, TypeFacts DEF OpenIn
  <2> QED
    BY <1>3, <2>1, <2>2, KeepWriter
<1>20. ReaderOK(r)'
  <2>1. lockW' # r /\ lockR' = r /\ read' # NULL
    BY <1>3, <1>5, ThreadAssumption
  <2> QED
    BY <1>1, <1>3, <1>4, <1>5, <1>9, <2>1 DEF ReaderOK
<1>21. \A s \in Readers : ReaderOK(s)'
  BY <1>20 DEF OneReader
<1> QED
  BY <1>7, <1>10, <1>11, <1>12, <1>14, <1>15, <1>16, <1>17, <1>18, <1>19, <1>21 DEF QueueInv

-----------------------------------------------------------------------------
(* Taking a message *)

\* The message at the first position of thq->read is the oldest of the queue.
LEMMA OldestFirst ==
    ASSUME TypeOK, Lists, Tiles, Order, read # NULL
    PROVE  /\ MessageAt(read) \in Waiting /\ at[MessageAt(read)].blk = read
           /\ at[MessageAt(read)].pos = blk[read].first /\ at[MessageAt(read)].size > 0
           /\ Waiting = MessageAt(read)..(next - 1)
<1> DEFINE P(m) == at[m].blk = read /\ at[m].pos = blk[read].first
<1>1. read \in QueueBlocks /\ read \in Blocks /\ read \notin Queued
  BY TypeFacts DEF TypeOK, Lists
<1>2. PICK m \in Waiting : P(m)
  BY <1>1 DEF Tiles
<1>3. Waiting \subseteq Msg /\ Msg \subseteq Nat /\ blk[read].first \in Nat
  BY <1>1, TypeFacts
<1>4. \A c : ~Ahead(c, read)
  <2>1. \A i \in DOMAIN data : data[i] # read
    BY <1>1 DEF Queued
  <2> QED
    BY <1>1, <2>1 DEF Ahead
<1>5. ASSUME NEW n \in Waiting, n < m PROVE FALSE
  <2>1. at[n].blk = read /\ at[n].pos + at[n].size <= at[m].pos
    BY <1>2, <1>4, <1>5 DEF Order
  <2>2. at[n].size > 0 /\ at[n].pos >= blk[read].first
    BY <2>1 DEF Tiles
  <2>3. at[n].pos \in Nat /\ at[n].size \in Nat
    BY <1>3, TypeFacts
  <2> QED
    BY <1>2, <1>3, <2>1, <2>2, <2>3
<1>6. ASSUME NEW n \in Msg, P(n) PROVE n = m
  <2>1. n \in Waiting
    BY <1>1, <1>6, TypeFacts DEF Waiting
  <2>2. ~(n < m)
    BY <1>5, <2>1
  <2>3. ASSUME m < n PROVE FALSE
    <3>1. at[m].pos + at[m].size <= at[n].pos
      BY <1>2, <1>4, <1>6, <2>1, <2>3 DEF Order
    <3>2. at[m].size > 0 /\ at[m].size \in Nat /\ at[m].pos = blk[read].first /\ at[n].pos = blk[read].first
      BY <1>2, <1>3, <1>6, TypeFacts DEF Tiles
    <3> QED
      BY <1>3, <3>1, <3>2
  <2> QED
    BY <1>3, <2>2, <2>3
<1>7. MessageAt(read) = m
  BY <1>2, <1>3, <1>6 DEF MessageAt
<1>8. Waiting = m..(next - 1)
  <2>1. PICK lo \in 1..next : Waiting = lo..(next - 1)
    BY DEF Tiles
  <2>2. lo \in Nat /\ m \in Nat /\ next \in Nat /\ lo <= m /\ m <= next - 1
    BY <1>3, <2>1, TypeFacts
  <2>3. lo \in Waiting
    BY <2>1, <2>2
  <2>4. lo = m
    BY <1>5, <2>2, <2>3
  <2> QED
    BY <2>1, <2>4
<1>9. at[m].size > 0
  BY DEF Tiles
<1> QED
  BY <1>2, <1>7, <1>8, <1>9

\* The places and the lists when the oldest message is taken.
LEMMA TakeShape ==
    ASSUME TypeOK, Lists, Tiles, Order, read # NULL, NEW m, m = MessageAt(read),
           NEW f, f = blk[read].first + at[m].size,
           blk' = [blk EXCEPT ![read].first = f],
           read' = IF f >= blk[read].last THEN NULL ELSE read,
           at' = [at EXCEPT ![m].blk = NULL],
           UNCHANGED <<data, pool, next>>
    PROVE  /\ Lists' /\ Tiles' /\ Order'
           /\ m \in Waiting /\ Waiting' = Waiting \ {m} /\ Waiting = m..(next - 1)
           /\ f \in Nat /\ Queued' = Queued /\ Pooled' = Pooled /\ QueueBlocks' \subseteq QueueBlocks
<1>1. /\ m \in Waiting /\ at[m].blk = read /\ at[m].pos = blk[read].first /\ at[m].size > 0
      /\ Waiting = m..(next - 1)
  BY OldestFirst
<1>2. /\ read \in Blocks /\ read \notin Queued /\ m \in Msg /\ Msg \subseteq Nat /\ next \in Nat
      /\ blk[read].first \in Nat /\ blk[read].last \in Nat /\ at[m].size \in Nat
      /\ Waiting \subseteq Msg /\ Queued \subseteq Blocks
  BY <1>1, TypeFacts DEF TypeOK, Lists
<1>3. f \in Nat /\ f > blk[read].first
  BY <1>1, <1>2
<1>4. /\ \A c \in Blocks : blk'[c].last = blk[c].last /\ (c # read => blk'[c].first = blk[c].first)
      /\ blk'[read].first = f
  BY <1>2 DEF TypeOK, Block
<1>5. /\ \A n \in Msg : n # m => at'[n] = at[n]
      /\ at'[m].blk = NULL
  BY <1>2 DEF TypeOK, Place
<1>6. Waiting' = Waiting \ {m} /\ Queued' = Queued /\ Pooled' = Pooled
  <2>1. Waiting' = Waiting \ {m}
    BY <1>2, <1>5 DEF Waiting
  <2> QED
    BY <2>1 DEF Queued, Pooled
<1>7. QueueBlocks' = IF f >= blk[read].last THEN Queued ELSE Queued \cup {read}
  BY <1>2, <1>6 DEF QueueBlocks, Queued
<1>8. QueueBlocks = Queued \cup {read} /\ QueueBlocks' \subseteq QueueBlocks
  BY <1>7, TypeFacts
<1>9. ASSUME NEW n \in Waiting', at[n].blk = read
      PROVE  at[n].pos >= f /\ f < blk[read].last /\ read' = read
  <2>1. n \in Waiting /\ n # m /\ m < n
    BY <1>1, <1>2, <1>6
  <2>2. ~Ahead(read, read)
    BY <1>2 DEF Ahead, Queued
  <2>3. at[m].pos + at[m].size <= at[n].pos
    BY <1>1, <1>9, <2>1, <2>2 DEF Order
  <2>4. at[n].pos + at[n].size <= blk[read].last /\ at[n].size > 0 /\ at[n].pos \in Nat /\ at[n].size \in Nat
    BY <1>2, <1>9, <2>1, TypeFacts DEF Tiles
  <2> QED
    BY <1>1, <1>2, <1>3, <2>3, <2>4, SMTT(40)
<1>10. Lists'
  <2>1. read' \notin Queued'
    BY <1>2, <1>6, TypeFacts
  <2>2. Pooled' \cap QueueBlocks' = {} /\ \A c \in QueueBlocks' \cup Pooled' : c < next'
    BY <1>6, <1>8 DEF Lists
  <2> QED
    BY <2>1, <2>2 DEF Lists
<1>11. Tiles'
  <2>1. \E lo \in 1..next' : Waiting' = lo..(next' - 1)
    <3>1. m + 1 \in 1..next /\ Waiting' = (m + 1)..(next - 1)
      BY <1>1, <1>2, <1>6
    <3> QED
      BY <3>1
  <2>2. ASSUME NEW c \in QueueBlocks'
        PROVE  /\ blk'[c].first < blk'[c].last
               /\ \E n \in Waiting' : at'[n].blk = c /\ at'[n].pos = blk'[c].first
    <3>1. CASE c = read
      <4>1. f < blk[read].last
        BY <1>2, <1>3, <1>7, <2>2, <3>1
      <4>2. PICK n \in Waiting : at[n].blk = read /\ at[n].pos = f
        BY <1>1, <1>2, <1>3, <4>1, SMTT(40) DEF Tiles
      <4>3. n # m /\ n \in Msg
        BY <1>1, <1>2, <1>3, <4>2
      <4> QED
        BY <1>2, <1>4, <1>5, <1>6, <3>1, <4>1, <4>2, <4>3
    <3>2. CASE c # read
      <4>1. c \in QueueBlocks /\ c \in Blocks
        BY <1>2, <1>8, <2>2
      <4>2. blk[c].first < blk[c].last
        BY <4>1 DEF Tiles
      <4>3. PICK n \in Waiting : at[n].blk = c /\ at[n].pos = blk[c].first
        BY <4>1 DEF Tiles
      <4>4. n # m /\ n \in Msg
        BY <1>1, <1>2, <3>2, <4>3
      <4> QED
        BY <1>4, <1>5, <1>6, <3>2, <4>1, <4>2, <4>3, <4>4
    <3> QED
      BY <3>1, <3>2
  <2>3. ASSUME NEW n \in Waiting'
        PROVE  /\ at'[n].blk \in QueueBlocks' /\ at'[n].size > 0
               /\ at'[n].pos >= blk'[at'[n].blk].first
               /\ at'[n].pos + at'[n].size <= blk'[at'[n].blk].last
               /\ \/ at'[n].pos + at'[n].size = blk'[at'[n].blk].last
                  \/ \E k \in Waiting' : /\ at'[k].blk = at'[n].blk
                                         /\ at'[k].pos = at'[n].pos + at'[n].size
    <3>1. n \in Waiting /\ n # m /\ n \in Msg /\ at'[n] = at[n]
      BY <1>2, <1>5, <1>6
    <3>2. PICK c \in Blocks : c = at[n].blk /\ c \in QueueBlocks
      BY <1>2, <1>8, <3>1 DEF Tiles
    <3>3. /\ at[n].size > 0 /\ at[n].pos >= blk[c].first
          /\ at[n].pos + at[n].size <= blk[c].last
          /\ \/ at[n].pos + at[n].size = blk[c].last
             \/ \E k \in Waiting : at[k].blk = c /\ at[k].pos = at[n].pos + at[n].size
      BY <3>1, <3>2 DEF Tiles
    <3>4. c \in QueueBlocks' /\ at[n].pos >= blk'[c].first
      <4>1. CASE c = read
        BY <1>3, <1>4, <1>7, <1>9, <1>2, <3>2, <4>1
      <4>2. CASE c # read
        BY <1>4, <1>7, <1>8, <3>2, <3>3, <4>2
      <4> QED
        BY <4>1, <4>2
    <3>5. ASSUME NEW k \in Waiting, at[k].blk = c, at[k].pos = at[n].pos + at[n].size
          PROVE  k \in Waiting' /\ at'[k] = at[k]
      <4>1. k # m
        <5>1. CASE c = read
          BY <1>1, <1>2, <1>3, <1>9, <3>1, <3>2, <3>3, <3>5, <5>1, TypeFacts
        <5>2. CASE c # read
          BY <1>1, <3>5, <5>2
        <5> QED
          BY <5>1, <5>2
      <4> QED
        BY <1>2, <1>5, <1>6, <4>1
    <3>6. \/ at[n].pos + at[n].size = blk[c].last
          \/ \E k \in Waiting' : at'[k].blk = c /\ at'[k].pos = at[n].pos + at[n].size
      BY <3>3, <3>5
    <3>7. blk'[c].last = blk[c].last
      BY <1>4
    <3> QED
      BY <3>1, <3>2, <3>3, <3>4, <3>6, <3>7
  <2> QED
    BY <2>1, <2>2, <2>3 DEF Tiles
<1>12. Order'
  <2> SUFFICES ASSUME NEW k \in Waiting', NEW n \in Waiting', k < n
               PROVE  \/ at'[k].blk = at'[n].blk /\ at'[k].pos + at'[k].size <= at'[n].pos
                      \/ Ahead(at[k].blk, at[n].blk)'
    BY DEF Order
  <2>1. k \in Waiting /\ n \in Waiting /\ at'[k] = at[k] /\ at'[n] = at[n]
    BY <1>2, <1>5, <1>6
  <2>2. ASSUME Ahead(at[k].blk, at[n].blk) PROVE Ahead(at[k].blk, at[n].blk)'
    <3>1. CASE at[k].blk = read
      <4>1. read' = read
        BY <1>9, <3>1
      <4> QED
        BY <1>6, <2>1, <2>2, <4>1 DEF Ahead
    <3>2. CASE at[k].blk # read
      BY <1>6, <2>1, <2>2, <3>2 DEF Ahead
    <3> QED
      BY <3>1, <3>2
  <2> QED
    BY <2>1, <2>2 DEF Order
<1> QED
  BY <1>1, <1>3, <1>6, <1>8, <1>10, <1>11, <1>12

\* The reader takes the oldest message.
LEMMA StepTake ==
    ASSUME QueueInv, OneReader, NEW r \in Readers, TakeMessage(r)
    PROVE  /\ QueueInv' /\ next' = next
           /\ \E m \in Waiting : Waiting' = Waiting \ {m} /\ Waiting = m..(next - 1)
<1>1. /\ TypeOK /\ Lists /\ Tiles /\ Order /\ Opens /\ Refs /\ Locks /\ Frees /\ Counts
      /\ \A x \in Writers : WriterOK(x)
      /\ ReaderOK(r)
  BY DEF QueueInv
<1>2. rd[r].pc = "take" /\ read # NULL /\ lockR = r /\ lockW # r /\ rd[r].blk = NULL
  BY <1>1 DEF TakeMessage, ReaderOK
<1>3. PICK b \in Blocks : b = read
  BY <1>1, <1>2 DEF TypeOK
<1>4. PICK m : m = MessageAt(read)
  OBVIOUS
<1>5. PICK f : f = blk[read].first + at[m].size
  OBVIOUS
<1> DEFINE q == [rd[r] EXCEPT !.pc = "ref", !.msg = m, !.blk = b]
<1>6. /\ blk' = [blk EXCEPT ![read].first = f]
      /\ read' = IF f >= blk[read].last THEN NULL ELSE read
      /\ rd' = [rd EXCEPT ![r].pc = "ref", ![r].msg = m, ![r].blk = b]
      /\ at' = [at EXCEPT ![m].blk = NULL]
      /\ UNCHANGED <<pool, data, sem, pending, lockW, lockR, wr, next>>
  BY <1>3, <1>4, <1>5 DEF TakeMessage
<1>7. /\ Lists' /\ Tiles' /\ Order'
      /\ m \in Waiting /\ Waiting' = Waiting \ {m} /\ Waiting = m..(next - 1)
      /\ f \in Nat /\ Queued' = Queued /\ Pooled' = Pooled /\ QueueBlocks' \subseteq QueueBlocks
  BY <1>1, <1>2, <1>4, <1>5, <1>6, TakeShape
<1>8. m \in Msg /\ m # NULL /\ m < next /\ at[m].blk = read
  BY <1>1, <1>2, <1>4, <1>7, TypeFacts, OldestFirst
<1>9. /\ q \in Reader /\ rd' = [rd EXCEPT ![r] = q] /\ rd'[r] = q /\ rd' \in [Readers -> Reader]
      /\ q.pc = "ref" /\ q.mode = rd[r].mode /\ q.blk = b /\ q.msg = m
  <2>1. rd[r] \in Reader /\ rd \in [Readers -> Reader] /\ m \in Msg \cup {NULL} /\ b \in Blocks \cup {NULL}
    BY <1>1, <1>8 DEF TypeOK
  <2>2. \A x \in Reader : \A n \in Msg \cup {NULL} : \A c \in Blocks \cup {NULL} :
          [x EXCEPT !.pc = "ref", !.msg = n, !.blk = c] \in Reader
    BY DEF Reader
  <2>3. q \in Reader
    BY <2>1, <2>2
  <2> QED
    BY <1>6, <2>1, <2>3 DEF Reader
<1> HIDE DEF q
<1>10. /\ blk' \in [Blocks -> Block] /\ at' \in [Msg -> Place]
       /\ \A c \in Blocks : /\ blk'[c].last = blk[c].last /\ blk'[c].ref = blk[c].ref
                            /\ blk'[c].lock = blk[c].lock /\ blk'[c].frees = blk[c].frees
                            /\ blk'[c].gone = blk[c].gone
       /\ blk'[b].first = f
       /\ \A n \in Msg : n # m => at'[n] = at[n]
  <2>1. blk \in [Blocks -> Block] /\ at \in [Msg -> Place] /\ read \in Blocks
    BY <1>1, <1>3 DEF TypeOK
  <2>2. /\ blk' \in [Blocks -> Block]
        /\ \A c \in Blocks : /\ blk'[c].last = blk[c].last /\ blk'[c].ref = blk[c].ref
                            /\ blk'[c].lock = blk[c].lock /\ blk'[c].frees = blk[c].frees
                            /\ blk'[c].gone = blk[c].gone
        /\ blk'[b].first = f
    BY <1>3, <1>6, <1>7, <2>1 DEF Block
  <2>3. at' \in [Msg -> Place]
    BY <1>6, <1>8, <2>1 DEF Place
  <2>4. \A n \in Msg : n # m => at'[n] = at[n]
    BY <1>6, <2>1
  <2> QED
    BY <2>2, <2>3, <2>4
<1>11. TypeOK'
  BY <1>1, <1>6, <1>9, <1>10 DEF TypeOK
<1>12. m \notin Opened
  <2>1. ASSUME NEW w \in Writers, NEW i \in DOMAIN wr[w].open, wr[w].open[i][1] = m
        PROVE  FALSE
    BY <1>1, <1>8, <2>1 DEF Opens, Lists
  <2> QED
    BY <2>1 DEF Opened, Open
<1>13. /\ Opened' = Opened
       /\ \A c : OpenIn(c)' = OpenIn(c)
       /\ \A x \in Writers : Open(x)' = Open(x)
  <2>1. Opened' = Opened /\ \A x \in Writers : Open(x)' = Open(x)
    BY <1>6 DEF Opened, Open
  <2>2. \A n \in Opened : at'[n] = at[n]
    BY <1>1, <1>10, <1>12, ThreadFacts
  <2> QED
    BY <2>1, <2>2 DEF OpenIn
<1>14. Opens'
  <2>1. ASSUME NEW w \in Writers, NEW i \in DOMAIN wr[w].open
        PROVE  /\ wr[w].open[i][1] \in Waiting' /\ at'[wr[w].open[i][1]].blk = wr[w].open[i][2]
               /\ wr[w].open[i][2] \in Queued'
    <3>1. wr[w].open[i][1] \in Opened /\ wr[w].open[i][1] # m /\ wr[w].open[i][1] \in Msg
      BY <1>1, <1>12, ThreadFacts DEF Opened, Open
    <3>2. /\ wr[w].open[i][1] \in Waiting /\ at[wr[w].open[i][1]].blk = wr[w].open[i][2]
          /\ wr[w].open[i][2] \in Queued
      BY <1>1 DEF Opens
    <3> QED
      BY <1>7, <1>10, <3>1, <3>2
  <2> QED
    BY <1>1, <1>6, <2>1 DEF Opens
<1>15. Refs'
  <2>1. \A c \in Queued' : blk'[c].ref = Cardinality(OpenIn(c)')
    BY <1>1, <1>7, <1>10, <1>13, TypeFacts DEF Refs
  <2>2. \A s \in Readers : rd'[s] = q /\ rd[s].blk # read
    BY <1>2, <1>9 DEF OneReader
  <2>3. read' # NULL => ~ \A s \in Readers : rd'[s].blk # read'
    BY <1>3, <1>6, <1>9
  <2>4. blk'[b].ref = 0
    BY <1>1, <1>2, <1>3, <1>10, <2>2 DEF Refs
  <2>5. \A s \in Readers : ~Holding(s)'
    BY <1>9, <2>2 DEF Holding
  <2>6. \A s \in Readers : blk'[rd'[s].blk].ref = IF Holding(s)' THEN 1 ELSE 0
    BY <1>9, <2>2, <2>4, <2>5
  <2> QED
    BY <2>1, <2>3, <2>6 DEF Refs
<1>16. Locks'
  BY <1>1, <1>6, <1>10, <1>13 DEF Locks, Locking, Unlocking
<1>17. Frees'
  <2>1. ASSUME NEW c \in Blocks
        PROVE  /\ blk'[c].frees <= 1
               /\ blk'[c].frees > 0 => c \notin QueueBlocks' /\ \A s \in Readers : rd'[s].blk # c
               /\ blk'[c].gone => blk'[c].frees > 0
    <3>1. b \in QueueBlocks
      BY <1>1, <1>2, <1>3, TypeFacts
    <3>2. \A s \in Readers : rd'[s].blk = b
      BY <1>9 DEF OneReader
    <3>3. blk[c].frees <= 1 /\ (blk[c].frees > 0 => c \notin QueueBlocks) /\ (blk[c].gone => blk[c].frees > 0)
      BY <1>1 DEF Frees
    <3> QED
      BY <1>7, <1>10, <3>1, <3>2, <3>3
  <2>2. \A c \in Pooled' : ~blk'[c].gone
    BY <1>1, <1>7, <1>10, TypeFacts DEF Frees
  <2> QED
    BY <2>1, <2>2 DEF Frees
<1>18. Counts'
  <2>1. Owes(q) = Owes(rd[r]) - 1 /\ Uncounted(q) = 1 /\ Uncounted(rd[r]) = 0
    <3>1. rd[r].mode \in {"wait", "poll"}
      BY <1>1, ThreadFacts
    <3> QED
      BY <1>2, <1>9, <3>1 DEF Owes, Uncounted
  <2>2. /\ sem \in Int /\ pending \in Int /\ Owes(rd[r]) \in Int
        /\ Cardinality(Opened) \in Nat /\ Cardinality(Waiting) \in Nat /\ IsFiniteSet(Waiting)
    BY <1>1, Finite DEF Owes, TypeOK
  <2>3. Cardinality(Waiting') = Cardinality(Waiting) - 1 /\ Cardinality(Waiting') \in Nat
    <3>1. IsFiniteSet(Waiting \ {m}) /\ Cardinality(Waiting \ {m}) = Cardinality(Waiting) - 1
      BY <1>7, <2>2, FS_RemoveElement
    <3> QED
      BY <1>7, <3>1, FS_CardinalityType
  <2>4. /\ sem' \in Int /\ pending' \in Int
        /\ sem' + Owes(q) + Cardinality(Opened') - Cardinality(Waiting')
             = sem + Owes(rd[r]) + Cardinality(Opened) - Cardinality(Waiting)
        /\ pending' - Uncounted(q) - Cardinality(Waiting')
             = pending - Uncounted(rd[r]) - Cardinality(Waiting)
    BY <1>6, <1>13, <2>1, <2>2, <2>3
  <2>5. /\ TypeOK /\ Counts /\ rd' = [rd EXCEPT ![r] = q] /\ UNCHANGED <<wr, next>>
        /\ Cardinality(Opened') \in Nat /\ Cardinality(Waiting') \in Nat
    BY <1>1, <1>6, <1>9, <1>13, <2>2, <2>3
  <2> QED
    BY <2>4, <2>5, CountsReader
<1>19. ASSUME NEW x \in Writers PROVE WriterOK(x)'
  <2>1. WriterOK(x) /\ (lockW' = x <=> lockW = x) /\ next \in Nat /\ next' \in Nat /\ next' >= next
    BY <1>1, <1>6, TypeFacts
  <2>2. OpenIn(wr[x].blk)' = OpenIn(wr[x].blk) /\ wr'[x] = wr[x] /\ Blocks \subseteq Nat
    <3>1. wr'[x].blk = wr[x].blk
      BY <1>6
    <3> QED
      BY <1>1, <1>6, <1>13, TypeFacts
  <2>3. wr[x].pc = "unlock" => (blk'[wr[x].blk].gone => blk[wr[x].blk].gone)
    BY <1>1, <1>10 DEF WriterOK
  <2> QED
    BY <1>6, <2>1, <2>2, <2>3, KeepWriter
<1>20. ReaderOK(r)'
  <2>1. b \notin Queued /\ b \notin Pooled /\ b < next /\ b # NULL
    BY <1>1, <1>2, <1>3, TypeFacts DEF Lists
  <2>2. b # read' => blk'[b].first >= blk'[b].last
    BY <1>3, <1>6, <1>10
  <2>3. m \notin Waiting' /\ m < next' /\ lockR' = r /\ lockW' # r
    BY <1>2, <1>6, <1>7, <1>8
  <2> QED
    BY <1>6, <1>7, <1>8, <1>9, <2>1, <2>2, <2>3 DEF ReaderOK
<1>21. \A s \in Readers : ReaderOK(s)'
  BY <1>20 DEF OneReader
<1>22. /\ next' = next
       /\ \E n \in Waiting : Waiting' = Waiting \ {n} /\ Waiting = n..(next - 1)
  BY <1>6, <1>7
<1> QED
  BY <1>22, <1>7, <1>11, <1>14, <1>15, <1>16, <1>17, <1>18, <1>19, <1>21 DEF QueueInv

-----------------------------------------------------------------------------
(* The end of a message *)

\* Nobody is about to lock or unlock a block of an idle writer's message.
LEMMA OpenQuiet ==
    ASSUME QueueInv, NEW w \in Writers, wr[w].pc = "idle", NEW i \in DOMAIN wr[w].open,
           NEW b, b = wr[w].open[i][2]
    PROVE  /\ b \in Blocks /\ b \in Queued /\ wr[w].open[i][1] \in OpenIn(b)
           /\ ~Locking(b) /\ ~Unlocking(b) /\ blk[b].lock
<1>1. /\ TypeOK /\ Opens /\ Locks
      /\ \A x \in Writers : WriterOK(x)
  BY DEF QueueInv
<1>2. /\ wr[w].open[i][1] \in Waiting /\ at[wr[w].open[i][1]].blk = b /\ b \in Queued
      /\ b \in Blocks
  BY <1>1, ThreadFacts DEF Opens
<1>3. wr[w].open[i][1] \in OpenIn(b)
  BY <1>2 DEF OpenIn, Opened, Open
<1>4. ASSUME NEW x \in Writers, wr[x].pc = "lock", wr[x].blk = b PROVE FALSE
  <2>1. OpenIn(b) = {next - 1} /\ next - 1 \in Open(x)
    BY <1>1, <1>4 DEF WriterOK
  <2>2. wr[w].open[i][1] \in Open(x)
    BY <1>3, <2>1
  <2>3. PICK j \in DOMAIN wr[x].open : wr[x].open[j][1] = wr[w].open[i][1]
    BY <2>2 DEF Open
  <2>4. x = w
    BY <1>1, <2>3 DEF Opens
  <2> QED
    BY <1>4, <2>4
<1>5. ~Locking(b)
  BY <1>4 DEF Locking
<1> QED
  BY <1>1, <1>2, <1>3, <1>5 DEF Locks

\* The writer's first message is not open any more.
LEMMA CloseOpen ==
    ASSUME TypeOK, Opens, NEW w \in Writers, wr[w].open # <<>>, NEW v,
           wr' = [wr EXCEPT ![w] = v], v.open = Tail(wr[w].open),
           UNCHANGED <<at, data>>, NEW m, m = Head(wr[w].open)[1]
    PROVE  /\ Opens' /\ m \in Opened /\ Opened' = Opened \ {m}
           /\ \A c : OpenIn(c)' = OpenIn(c) \ {m}
           /\ \A x \in Writers : x # w => Open(x)' = Open(x)
<1> DEFINE o == wr[w].open
<1>0. wr'[w] = v /\ \A x \in Writers : x # w => wr'[x] = wr[x]
  BY DEF TypeOK
<1>1. /\ o \in Seq(Msg \X Blocks) /\ DOMAIN o = 1..Len(o) /\ Len(o) \in Nat /\ 1 \in DOMAIN o
      /\ m = o[1][1]
      /\ DOMAIN Tail(o) = 1..(Len(o) - 1)
      /\ \A i \in DOMAIN Tail(o) : i + 1 \in DOMAIN o /\ Tail(o)[i] = o[i + 1]
      /\ \A i \in DOMAIN o : i # 1 => i - 1 \in DOMAIN Tail(o) /\ Tail(o)[i - 1] = o[i]
  BY ThreadFacts
<1>2. wr'[w].open = Tail(o)
  BY <1>0
<1> HIDE DEF o
<1>3. \A x \in Writers : x # w => Open(x)' = Open(x)
  BY <1>0 DEF Open
<1>4. \A j \in DOMAIN o : o[j][1] = m => j = 1
  BY <1>1 DEF Opens, o
<1>5. Open(w)' = Open(w) \ {m} /\ m \in Open(w)
  <2>1. Open(w) = {o[i][1] : i \in DOMAIN o} /\ Open(w)' = {Tail(o)[i][1] : i \in DOMAIN Tail(o)}
    BY <1>2 DEF Open, o
  <2>2. ASSUME NEW n \in Open(w)' PROVE n \in Open(w) \ {m}
    <3>1. PICK i \in DOMAIN Tail(o) : n = Tail(o)[i][1]
      BY <2>1, <2>2
    <3>2. i + 1 \in DOMAIN o /\ n = o[i + 1][1] /\ i + 1 # 1
      BY <1>1, <3>1
    <3> QED
      BY <1>4, <2>1, <3>2
  <2>3. ASSUME NEW n \in Open(w), n # m PROVE n \in Open(w)'
    <3>1. PICK i \in DOMAIN o : n = o[i][1]
      BY <2>1, <2>3
    <3>2. i # 1 /\ i - 1 \in DOMAIN Tail(o) /\ n = Tail(o)[i - 1][1]
      BY <1>1, <2>3, <3>1
    <3> QED
      BY <2>1, <3>2
  <2>4. m \in Open(w)
    BY <1>1, <2>1
  <2> QED
    BY <2>2, <2>3, <2>4
<1>6. \A x \in Writers : x # w => m \notin Open(x)
  BY <1>1 DEF Opens, Open, o
<1>7. Opened' = Opened \ {m} /\ m \in Opened
  BY <1>3, <1>5, <1>6 DEF Opened
<1>8. \A c : OpenIn(c)' = OpenIn(c) \ {m}
  BY <1>7 DEF OpenIn
<1>9. Opens'
  <2>1. ASSUME NEW x \in Writers, NEW i \in DOMAIN wr'[x].open
        PROVE  \E j \in DOMAIN wr[x].open : wr'[x].open[i] = wr[x].open[j] /\ j = IF x = w THEN i + 1 ELSE i
    BY <1>0, <1>1, <1>2 DEF o
  <2>2. ASSUME NEW x \in Writers, NEW i \in DOMAIN wr'[x].open
        PROVE  /\ wr'[x].open[i][1] \in Waiting' /\ at'[wr'[x].open[i][1]].blk = wr'[x].open[i][2]
               /\ wr'[x].open[i][2] \in Queued'
    <3>1. Waiting' = Waiting /\ Queued' = Queued
      BY DEF Waiting, Queued
    <3> QED
      BY <2>1, <2>2, <3>1 DEF Opens
  <2>3. ASSUME NEW x \in Writers, NEW y \in Writers, NEW i \in DOMAIN wr'[x].open,
               NEW j \in DOMAIN wr'[y].open, wr'[x].open[i][1] = wr'[y].open[j][1]
        PROVE  x = y /\ i = j
    <3>1. PICK k \in DOMAIN wr[x].open : wr'[x].open[i] = wr[x].open[k] /\ k = IF x = w THEN i + 1 ELSE i
      BY <2>1
    <3>2. PICK l \in DOMAIN wr[y].open : wr'[y].open[j] = wr[y].open[l] /\ l = IF y = w THEN j + 1 ELSE j
      BY <2>1
    <3>3. x = y /\ k = l
      BY <2>3, <3>1, <3>2 DEF Opens
    <3>4. CASE x = w
      <4>1. i \in Int /\ j \in Int /\ i + 1 = j + 1
        BY <1>1, <1>2, <3>1, <3>2, <3>3, <3>4
      <4> QED
        BY <3>3, <4>1
    <3>5. CASE x # w
      BY <3>1, <3>2, <3>3, <3>5
    <3> QED
      BY <3>4, <3>5
  <2> QED
    BY <2>2, <2>3 DEF Opens
<1> QED
  BY <1>3, <1>7, <1>8, <1>9

\* eina_thread_queue_send_done: the message is complete.
LEMMA StepSendDone ==
    ASSUME QueueInv, NEW w \in Writers, eina_thread_queue_send_done(w)
    PROVE  QueueInv'
<1>1. /\ TypeOK /\ Lists /\ Tiles /\ Order /\ Opens /\ Refs /\ Locks /\ Frees /\ Counts
      /\ \A x \in Writers : WriterOK(x)
      /\ \A r \in Readers : ReaderOK(r)
  BY DEF QueueInv
<1>2. wr[w].pc = "idle" /\ wr[w].open # <<>>
  BY DEF eina_thread_queue_send_done
<1>3. /\ 1 \in DOMAIN wr[w].open /\ Head(wr[w].open) = wr[w].open[1]
      /\ Tail(wr[w].open) \in Seq(Msg \X Blocks)
  BY <1>1, <1>2, ThreadFacts
<1>4. PICK m : m = Head(wr[w].open)[1]
  OBVIOUS
<1>5. PICK b : b = Head(wr[w].open)[2]
  OBVIOUS
<1>6. /\ b \in Blocks /\ b \in Queued /\ m \in OpenIn(b)
      /\ ~Locking(b) /\ ~Unlocking(b) /\ blk[b].lock
  BY <1>2, <1>3, <1>4, <1>5, OpenQuiet
<1> DEFINE v == [wr[w] EXCEPT !.pc = IF blk[b].ref = 1 THEN "unlock" ELSE "post",
                              !.blk = b, !.open = Tail(wr[w].open)]
<1>7. /\ blk' = [blk EXCEPT ![b].ref = @ - 1]
      /\ wr' = [wr EXCEPT ![w].pc = IF blk[b].ref = 1 THEN "unlock" ELSE "post",
                           ![w].blk = b, ![w].open = Tail(@)]
      /\ UNCHANGED <<pool, data, read, sem, pending, lockW, lockR, rd, at, next>>
  BY <1>5 DEF eina_thread_queue_send_done
<1>8. /\ v \in Writer /\ wr' = [wr EXCEPT ![w] = v]
      /\ v.pc = IF blk[b].ref = 1 THEN "unlock" ELSE "post"
      /\ v.blk = b /\ v.open = Tail(wr[w].open)
  <2>1. /\ wr[w] \in Writer /\ wr \in [Writers -> Writer] /\ b \in Blocks \cup {NULL}
        /\ Tail(wr[w].open) \in Seq(Msg \X Blocks)
    BY <1>1, <1>3, <1>6 DEF TypeOK
  <2>2. \A x \in Writer : \A c \in Blocks \cup {NULL} : \A s \in Seq(Msg \X Blocks) :
           \A p \in {"unlock", "post"} : [x EXCEPT !.pc = p, !.blk = c, !.open = s] \in Writer
    BY DEF Writer
  <2>3. v \in Writer
    BY <2>1, <2>2
  <2> QED
    BY <1>7, <2>1, <2>3 DEF Writer
<1> HIDE DEF v
<1>9. /\ wr' \in [Writers -> Writer] /\ wr'[w] = v
      /\ \A x \in Writers : x # w => wr'[x] = wr[x]
  BY <1>1, <1>8 DEF TypeOK
<1>10. /\ \A c \in Blocks : /\ blk'[c].first = blk[c].first /\ blk'[c].last = blk[c].last
                            /\ blk'[c].lock = blk[c].lock /\ blk'[c].frees = blk[c].frees
                            /\ blk'[c].gone = blk[c].gone
                            /\ c # b => blk'[c].ref = blk[c].ref
       /\ blk'[b].ref = blk[b].ref - 1
       /\ blk' \in [Blocks -> Block]
  <2>1. blk \in [Blocks -> Block] /\ b \in Blocks
    BY <1>1, <1>6 DEF TypeOK
  <2>2. blk' = [blk EXCEPT ![b].ref = @ - 1]
    BY <1>7
  <2>3. blk[b].ref \in Int /\ blk[b].ref - 1 \in Int
    BY <2>1 DEF Block
  <2>4. blk' = [blk EXCEPT ![b].ref = blk[b].ref - 1]
    BY <2>1, <2>2
  <2> QED
    BY <2>1, <2>3, <2>4 DEF Block
<1>11. TypeOK'
  BY <1>1, <1>7, <1>9, <1>10 DEF TypeOK
<1>12. /\ Lists' /\ Tiles' /\ Order'
       /\ Waiting' = Waiting /\ Queued' = Queued /\ Pooled' = Pooled /\ QueueBlocks' = QueueBlocks
  BY <1>1, <1>7, <1>10, KeepShape
<1>13. /\ Opens' /\ m \in Opened /\ Opened' = Opened \ {m}
       /\ \A c : OpenIn(c)' = OpenIn(c) \ {m}
       /\ \A x \in Writers : x # w => Open(x)' = Open(x)
  BY <1>1, <1>2, <1>4, <1>7, <1>8, CloseOpen
<1>14. /\ at[m].blk = b
       /\ \A c : c # b => OpenIn(c)' = OpenIn(c)
  BY <1>6, <1>13 DEF OpenIn
<1>15. /\ blk[b].ref = Cardinality(OpenIn(b)) /\ Cardinality(OpenIn(b)) \in Nat
       /\ Cardinality(OpenIn(b) \ {m}) = blk[b].ref - 1
       /\ blk[b].ref = 1 <=> OpenIn(b) \ {m} = {}
  <2>1. IsFiniteSet(OpenIn(b)) /\ Cardinality(OpenIn(b)) \in Nat /\ blk[b].ref = Cardinality(OpenIn(b))
    BY <1>1, <1>6, Finite DEF Refs
  <2>2. IsFiniteSet(OpenIn(b) \ {m}) /\ Cardinality(OpenIn(b) \ {m}) = Cardinality(OpenIn(b)) - 1
    BY <1>6, <2>1, FS_RemoveElement
  <2>3. OpenIn(b) \ {m} = {} <=> Cardinality(OpenIn(b) \ {m}) = 0
    BY <2>2, FS_EmptySet
  <2> QED
    BY <2>1, <2>2, <2>3
<1>16. Refs'
  <2>1. b \notin {read} /\ \A r \in Readers : rd[r].blk # NULL => rd[r].blk # b
    BY <1>1, <1>6 DEF Lists, ReaderOK
  <2>2. /\ read # NULL => blk'[read].ref = blk[read].ref
        /\ \A r \in Readers : rd[r].blk # NULL => blk'[rd[r].blk].ref = blk[rd[r].blk].ref
    BY <1>1, <1>10, <2>1, ThreadFacts DEF TypeOK
  <2>3. ASSUME NEW c \in Queued' PROVE blk'[c].ref = Cardinality(OpenIn(c)')
    <3>1. c \in Queued /\ c \in Blocks
      BY <1>1, <1>12, TypeFacts
    <3>2. CASE c = b
      BY <1>10, <1>13, <1>15, <3>2
    <3>3. CASE c # b
      BY <1>1, <1>10, <1>14, <3>1, <3>3 DEF Refs
    <3> QED
      BY <3>2, <3>3
  <2> QED
    BY <1>1, <1>7, <2>2, <2>3 DEF Refs, Holding
<1>17. /\ \A c \in Blocks : Locking(c)' <=> Locking(c)
       /\ \A c \in Blocks : Unlocking(c)' <=> Unlocking(c) \/ (c = b /\ blk[b].ref = 1)
  BY <1>2, <1>8, <1>9 DEF Locking, Unlocking
<1>18. Locks'
  <2>1. ASSUME NEW c \in Blocks
        PROVE  /\ blk'[c].lock <=> Unlocking(c)' \/ (OpenIn(c)' # {} /\ ~Locking(c)')
               /\ Unlocking(c)' /\ OpenIn(c)' # {} => Locking(c)'
    <3>1. CASE c = b
      <4>1. blk'[c].lock /\ ~Locking(c)' /\ OpenIn(c)' = OpenIn(b) \ {m}
        BY <1>6, <1>10, <1>13, <1>17, <3>1
      <4>2. Unlocking(c)' <=> OpenIn(b) \ {m} = {}
        BY <1>6, <1>15, <1>17, <3>1
      <4> QED
        BY <4>1, <4>2
    <3>2. CASE c # b
      <4>1. blk'[c].lock = blk[c].lock /\ OpenIn(c)' = OpenIn(c)
        BY <1>10, <1>14, <3>2
      <4> QED
        BY <1>1, <1>17, <3>2, <4>1 DEF Locks
    <3> QED
      BY <3>1, <3>2
  <2>2. ASSUME NEW x \in Writers, NEW y \in Writers, wr'[x].pc = "unlock", wr'[y].pc = "unlock",
               wr'[x].blk = wr'[y].blk
        PROVE  x = y
    <3>1. \A z \in Writers : wr[z].pc = "unlock" => wr[z].blk # b
      BY <1>6 DEF Unlocking
    <3> QED
      BY <1>1, <1>8, <1>9, <2>2, <3>1 DEF Locks
  <2> QED
    BY <2>1, <2>2 DEF Locks
<1>19. Frees'
  BY <1>1, <1>7, <1>10, <1>12, TypeFacts DEF Frees
<1>20. Counts'
  <2>1. /\ Posts(v) = 1 /\ Posts(wr[w]) = 0 /\ Pends(v) = 0 /\ Pends(wr[w]) = 0
        /\ Sends(v) = 0 /\ Sends(wr[w]) = 0
    BY <1>2, <1>8 DEF Posts, Pends, Sends
  <2>2. /\ sem \in Int /\ pending \in Int /\ next \in Int
        /\ Cardinality(Opened) \in Nat /\ Cardinality(Waiting) \in Nat /\ IsFiniteSet(Opened)
    BY <1>1, Finite DEF TypeOK
  <2>3. Cardinality(Opened') = Cardinality(Opened) - 1 /\ Cardinality(Opened') \in Nat
    <3>1. IsFiniteSet(Opened \ {m}) /\ Cardinality(Opened \ {m}) = Cardinality(Opened) - 1
      BY <1>13, <2>2, FS_RemoveElement
    <3> QED
      BY <1>13, <3>1, FS_CardinalityType
  <2>4. /\ sem' \in Int /\ pending' \in Int /\ next' \in Int
        /\ Cardinality(Waiting') = Cardinality(Waiting)
        /\ sem' + Posts(v) + Cardinality(Opened') - Cardinality(Waiting')
             = sem + Posts(wr[w]) + Cardinality(Opened) - Cardinality(Waiting)
        /\ pending' + Pends(v) - Cardinality(Waiting')
             = pending + Pends(wr[w]) - Cardinality(Waiting)
        /\ next' + Sends(v) = next + Sends(wr[w])
    BY <1>7, <1>12, <2>1, <2>2, <2>3
  <2> QED
    BY <1>1, <1>7, <1>8, <1>12, <2>2, <2>3, <2>4, CountsWriter
<1>21. ASSUME NEW x \in Writers PROVE WriterOK(x)'
  <2>1. CASE x = w
    <3>1. b < next /\ ~blk[b].gone
      <4>1. b \in QueueBlocks
        BY <1>1, <1>6, TypeFacts
      <4> QED
        BY <1>1, <1>6, <4>1 DEF Lists, Frees
    <3>2. ~blk'[b].gone
      BY <1>6, <1>10, <3>1
    <3>3. lockW # w
      BY <1>1, <1>2 DEF WriterOK
    <3> QED
      BY <1>6, <1>7, <1>8, <1>9, <2>1, <3>1, <3>2, <3>3 DEF WriterOK
  <2>2. CASE x # w
    <3>1. WriterOK(x) /\ (lockW' = x <=> lockW = x) /\ next \in Nat /\ next' \in Nat /\ next' >= next
      BY <1>1, <1>7, TypeFacts
    <3>2. wr'[x] = wr[x] /\ Blocks \subseteq Nat /\ next' = next
      BY <1>1, <1>7, <1>9, <2>2, TypeFacts
    <3>3. wr[x].pc = "unlock" => (blk'[wr[x].blk].gone => blk[wr[x].blk].gone)
      BY <1>1, <1>10 DEF WriterOK
    <3>4. wr[x].pc = "lock" => OpenIn(wr[x].blk)' = OpenIn(wr[x].blk)
      <4> SUFFICES ASSUME wr[x].pc = "lock" PROVE OpenIn(wr[x].blk)' = OpenIn(wr[x].blk)
        OBVIOUS
      <4>1. wr[x].blk # b /\ wr'[x].blk = wr[x].blk
        BY <1>6, <3>2 DEF Locking
      <4>2. PICK c : c = wr[x].blk
        OBVIOUS
      <4>3. OpenIn(c)' = OpenIn(c)
        BY <1>14, <4>1, <4>2
      <4> QED
        BY <4>1, <4>2, <4>3 DEF OpenIn
    <3> QED
      BY <3>1, <3>2, <3>3, <3>4, KeepWriter
  <2> QED
    BY <2>1, <2>2
<1>22. ASSUME NEW r \in Readers PROVE ReaderOK(r)'
  <2>2. rd[r].blk # NULL => /\ blk'[rd[r].blk].first = blk[rd[r].blk].first
                            /\ blk'[rd[r].blk].last = blk[rd[r].blk].last
    BY <1>1, <1>10, ThreadFacts
  <2> QED
    BY <1>1, <1>7, <1>12, <2>2 DEF ReaderOK
<1> QED
  BY <1>11, <1>12, <1>13, <1>16, <1>18, <1>19, <1>20, <1>21, <1>22 DEF QueueInv

-----------------------------------------------------------------------------
(* A place for a message *)

\* A writer that asked for a place will have a message.
LEMMA NextMsg ==
    ASSUME QueueInv, NEW w \in Writers, wr[w].pc = "send"
    PROVE  next \in Msg /\ next \in Blocks /\ next \notin Waiting /\ next \notin Opened
<1>1. TypeOK /\ Counts /\ Tiles /\ Opens
  BY DEF QueueInv
<1> DEFINE S == {x \in Writers : wr[x].pc \in {"send"}}
<1>2. IsFiniteSet(S) /\ Cardinality(S) \in Nat /\ w \in S
  BY FiniteAssumption, FS_Subset, FS_CardinalityType
<1>3. Cardinality(S) # 0
  BY <1>2, FS_EmptySet
<1>4. next - 1 + Cardinality(S) <= MaxMsg
  BY <1>1 DEF Counts, WritersAt
<1> HIDE DEF S
<1>5. next \in Nat /\ next > 0
  BY <1>1, TypeFacts
<1>6. next \in Msg
  BY <1>2, <1>3, <1>4, <1>5, MsgAssumption DEF Msg
<1>7. next \notin Waiting
  BY <1>1, <1>5 DEF Tiles
<1>8. Opened \subseteq Waiting
  BY <1>1 DEF Opened, Open, Opens
<1> QED
  BY <1>6, <1>7, <1>8 DEF Blocks

\* A block of the pool is made empty.
LEMMA ResetBlock ==
    ASSUME NEW y \in Block
    PROVE  [y EXCEPT !.first = 0, !.last = 0, !.ref = 0, !.frees = 0] \in Block
<1>1. [y EXCEPT !.first = 0] \in Block
  BY DEF Block
<1>2. \A z \in Block : [z EXCEPT !.last = 0] \in Block
  BY DEF Block
<1>3. \A z \in Block : [z EXCEPT !.ref = 0] \in Block
  BY DEF Block
<1>4. \A z \in Block : [z EXCEPT !.frees = 0] \in Block
  BY DEF Block
<1>5. [[[[y EXCEPT !.first = 0] EXCEPT !.last = 0] EXCEPT !.ref = 0] EXCEPT !.frees = 0] \in Block
  BY <1>1, <1>2, <1>3, <1>4
<1> QED
  BY <1>5

\* The block a message goes to.
LEMMA TargetFacts ==
    ASSUME QueueInv, NEW w \in Writers, wr[w].pc = "send", NEW s \in Sizes,
           NEW b, b = Target(s), NEW old, old = BlockFor(s)
    PROVE  /\ s \in Nat /\ s > 0 /\ b \in Blocks /\ old \in Block
           /\ b <= next /\ b # read /\ b # NULL
           /\ \A r \in Readers : rd[r].blk # b
           /\ old.lock = blk[b].lock /\ ~old.gone /\ old.frees = 0
           /\ old.ref = Cardinality(OpenIn(b))
           /\ Fits(s) => b \in Queued /\ old = blk[b] /\ data # <<>> /\ b = data[Len(data)]
           /\ ~Fits(s) => b \notin QueueBlocks /\ old.first = 0 /\ old.last = 0
           /\ ~Fits(s) /\ FromPool(BlockSize(s)) => b = Head(pool) /\ pool # <<>>
           /\ ~Fits(s) /\ ~FromPool(BlockSize(s)) => b = next
<1>1. /\ TypeOK /\ Lists /\ Tiles /\ Opens /\ Refs /\ Locks /\ Frees
      /\ \A x \in Writers : WriterOK(x)
      /\ \A r \in Readers : ReaderOK(r)
  BY DEF QueueInv
<1>2. s \in Nat /\ s > 0 /\ BlockSize(s) \in Nat
  BY SizeAssumption DEF BlockSize
<1>3. next \in Blocks /\ next \in Nat /\ Blocks \subseteq Nat
  BY <1>1, NextMsg, TypeFacts
<1>4. blk \in [Blocks -> Block]
  BY <1>1 DEF TypeOK
<1>5. ASSUME NEW c \in Blocks, c \notin QueueBlocks
      PROVE  OpenIn(c) = {} /\ Cardinality(OpenIn(c)) = 0
  <2>1. ASSUME NEW m \in OpenIn(c) PROVE FALSE
    <3>1. m \in Opened /\ at[m].blk = c
      BY <2>1 DEF OpenIn
    <3>2. m \in Waiting
      BY <1>1, <3>1 DEF Opened, Open, Opens
    <3> QED
      BY <1>1, <1>5, <3>1, <3>2 DEF Tiles
  <2>2. OpenIn(c) = {}
    BY <2>1
  <2> QED
    BY <2>2, FS_EmptySet
<1>6. CASE Fits(s)
  <2>1. data # <<>> /\ b = data[Len(data)] /\ old = blk[b]
    BY <1>6 DEF Target, BlockFor, Fits
  <2>2. b \in Queued /\ b \in Blocks
    <3>1. Len(data) \in DOMAIN data
      BY <1>1, <2>1, TypeFacts
    <3> QED
      BY <1>1, <2>1, <3>1, TypeFacts DEF Queued
  <2>3. b \in QueueBlocks /\ b # NULL /\ b # read
    BY <1>1, <2>2, TypeFacts DEF Lists
  <2>4. b < next
    BY <1>1, <2>3 DEF Lists
  <2>5. blk[b].frees = 0 /\ ~blk[b].gone
    BY <1>1, <2>2, <2>3, TypeFacts DEF Frees
  <2>6. \A r \in Readers : rd[r].blk # b
    BY <1>1, <2>2, <2>3 DEF ReaderOK
  <2>7. blk[b].ref = Cardinality(OpenIn(b)) /\ blk[b] \in Block
    BY <1>1, <1>4, <2>2 DEF Refs
  <2>8. b <= next
    <3>1. b \in Nat /\ next \in Nat
      BY <1>3, <2>2
    <3> HIDE DEF Blocks
    <3> QED
      BY <2>4, <3>1, LessLeq
  <2> QED
    BY <1>2, <1>6, <2>1, <2>2, <2>3, <2>5, <2>6, <2>7, <2>8
<1>7. CASE ~Fits(s) /\ FromPool(BlockSize(s))
  <2>1. pool # <<>> /\ b = Head(pool)
    BY <1>7 DEF Target, FromPool
  <2>2. b \in Pooled /\ b \in Blocks
    <3>1. 1 \in DOMAIN pool /\ Head(pool) = pool[1]
      BY <1>1, <2>1, TypeFacts
    <3> QED
      BY <1>1, <2>1, <3>1, TypeFacts DEF Pooled
  <2>3. b \notin QueueBlocks /\ b < next
    BY <1>1, <2>2 DEF Lists
  <2>4. old = [blk[b] EXCEPT !.first = 0, !.last = 0, !.ref = 0, !.frees = 0] /\ blk[b] \in Block
    BY <1>4, <1>7, <2>1, <2>2 DEF BlockFor
  <2>5. PICK x \in Block : x = blk[b]
    BY <2>4
  <2>6. old \in Block /\ old.lock = blk[b].lock /\ old.gone = blk[b].gone /\ old.frees = 0
        /\ old.ref = 0 /\ old.first = 0 /\ old.last = 0
    <3>1. old = [x EXCEPT !.first = 0, !.last = 0, !.ref = 0, !.frees = 0]
      BY <2>4, <2>5
    <3>2. old.frees = 0 /\ old.ref = 0 /\ old.first = 0 /\ old.last = 0
      BY <3>1 DEF Block
    <3>3. old.lock = x.lock /\ old.gone = x.gone
      BY <3>1 DEF Block
    <3>4. old \in Block
      <4>1. \A y \in Block : [y EXCEPT !.first = 0, !.last = 0, !.ref = 0, !.frees = 0] \in Block
        BY ResetBlock
      <4> QED
        BY <3>1, <4>1
    <3> QED
      BY <2>5, <3>2, <3>3, <3>4
  <2>7. ~blk[b].gone
    BY <1>1, <2>2 DEF Frees
  <2>8. b # NULL /\ b # read /\ \A r \in Readers : rd[r].blk # b
    BY <1>1, <2>2, <2>3, TypeFacts DEF ReaderOK
  <2>9. b <= next /\ Cardinality(OpenIn(b)) = 0
    BY <1>3, <1>5, <2>2, <2>3
  <2>10. ~old.gone
    BY <2>6, <2>7, Zenon
  <2> QED
    BY <1>2, <1>7, <2>1, <2>2, <2>3, <2>6, <2>8, <2>9, <2>10
<1>8. CASE ~Fits(s) /\ ~FromPool(BlockSize(s))
  <2>1. b = next /\ old = NewBlock(BlockSize(s))
    BY <1>8 DEF Target, BlockFor
  <2>2. b \notin QueueBlocks /\ b # NULL /\ b # read
    <3>1. \A c \in QueueBlocks : c < next
      BY <1>1 DEF Lists
    <3> QED
      BY <1>1, <1>3, <2>1, <3>1, TypeFacts
  <2>3. \A r \in Readers : rd[r].blk # b
    BY <1>1, <1>3, <2>1, <2>2 DEF ReaderOK
  <2>4. /\ old \in Block /\ old.frees = 0 /\ old.ref = 0 /\ old.first = 0 /\ old.last = 0
        /\ old.lock = FALSE /\ old.gone = FALSE
    <3>1. FALSE \in BOOLEAN /\ 0 \in Nat /\ 0 \in Int
      OBVIOUS
    <3> QED
      BY <1>2, <2>1, <3>1 DEF NewBlock, Block
  <2>5. blk[b].lock = FALSE
    <3>1. OpenIn(b) = {}
      BY <1>3, <1>5, <2>1, <2>2
    <3>2. ~Unlocking(b)
      BY <1>1, <1>3, <2>1 DEF Unlocking, WriterOK
    <3>3. ~blk[b].lock
      BY <1>1, <1>3, <2>1, <3>1, <3>2 DEF Locks
    <3>4. blk[b].lock \in BOOLEAN
      BY <1>1, <1>3, <2>1, TypeFacts
    <3> QED
      BY <3>3, <3>4
  <2>6. b <= next /\ Cardinality(OpenIn(b)) = 0 /\ b \in Blocks
    BY <1>3, <1>5, <2>1, <2>2
  <2> QED
    BY <1>2, <1>8, <2>1, <2>2, <2>3, <2>4, <2>5, <2>6
<1> QED
  BY <1>6, <1>7, <1>8

\* The last element of a sequence.
LEMMA LastIn ==
    ASSUME NEW S, NEW s \in Seq(S), s # <<>>
    PROVE  Len(s) \in DOMAIN s
<1>1. Len(s) # 0
  BY EmptySeq
<1> QED
  BY <1>1

\* The lists when a message goes to block b.
LEMMA AllocLists ==
    ASSUME TypeOK, Lists, NEW s, NEW b \in Blocks, b <= next, b # read, b # NULL,
           Fits(s) => b \in Queued /\ data # <<>> /\ b = data[Len(data)],
           ~Fits(s) => b \notin QueueBlocks,
           ~Fits(s) /\ FromPool(BlockSize(s)) => b = Head(pool) /\ pool # <<>>,
           ~Fits(s) /\ ~FromPool(BlockSize(s)) => b = next,
           data' = IF Fits(s) THEN data ELSE Append(data, b),
           pool' = IF ~Fits(s) /\ FromPool(BlockSize(s)) THEN Tail(pool) ELSE pool,
           next' = next + 1, UNCHANGED read
    PROVE  /\ Lists' /\ data' \in Seq(Blocks) /\ pool' \in Seq(Blocks)
           /\ Queued' = Queued \cup {b} /\ QueueBlocks' = QueueBlocks \cup {b}
           /\ Pooled' \subseteq Pooled /\ b \notin Pooled'
           /\ DOMAIN data \subseteq DOMAIN data' /\ \A i \in DOMAIN data : data'[i] = data[i]
           /\ Len(data') \in DOMAIN data' /\ data'[Len(data')] = b
           /\ \A i \in DOMAIN data : data[i] # b => i < Len(data')
<1>1. /\ data \in Seq(Blocks) /\ Len(data) \in Nat /\ DOMAIN data = 1..Len(data)
      /\ pool \in Seq(Blocks) /\ Len(pool) \in Nat /\ DOMAIN pool = 1..Len(pool)
      /\ Blocks \subseteq Nat /\ next \in Nat /\ Queued \subseteq Blocks /\ Pooled \subseteq Blocks
      /\ QueueBlocks = IF read = NULL THEN Queued ELSE Queued \cup {read}
  BY TypeFacts
<1>2. /\ \A i, j \in DOMAIN data : data[i] = data[j] => i = j
      /\ \A i, j \in DOMAIN pool : pool[i] = pool[j] => i = j
      /\ read \notin Queued
      /\ Pooled \cap QueueBlocks = {}
      /\ \A c \in QueueBlocks \cup Pooled : c < next
  BY DEF Lists
<1>3. /\ data' \in Seq(Blocks) /\ Queued' = Queued \cup {b}
      /\ DOMAIN data \subseteq DOMAIN data' /\ \A i \in DOMAIN data : data'[i] = data[i]
      /\ Len(data') \in DOMAIN data' /\ data'[Len(data')] = b
      /\ \A i \in DOMAIN data : data[i] # b => i < Len(data')
      /\ \A i, j \in DOMAIN data' : data'[i] = data'[j] => i = j
  <2>1. CASE Fits(s)
    <3>1. data' = data /\ b \in Queued /\ data # <<>> /\ b = data[Len(data)]
      BY <2>1
    <3>2. Queued' = Queued
      BY <3>1 DEF Queued
    <3>3. Len(data) \in DOMAIN data
      BY <1>1, <3>1, LastIn
    <3>4. ASSUME NEW i \in DOMAIN data, data[i] # b PROVE i < Len(data)
      <4>1. i # Len(data)
        BY <3>1, <3>4
      <4>2. i \in 1..Len(data) /\ Len(data) \in Nat
        BY <1>1
      <4> QED
        BY <4>1, <4>2
    <3>5. Queued = Queued \cup {b}
      BY <3>1
    <3> QED
      BY <1>1, <1>2, <3>1, <3>2, <3>3, <3>4, <3>5
  <2>2. CASE ~Fits(s)
    <3>1. data' = Append(data, b) /\ b \notin Queued
      BY <1>1, <2>2
    <3>2. /\ data' \in Seq(Blocks) /\ Len(data') = Len(data) + 1 /\ DOMAIN data' = 1..(Len(data) + 1)
          /\ \A i \in 1..Len(data) : data'[i] = data[i]
          /\ data'[Len(data) + 1] = b
      BY <1>1, <3>1
    <3>3. \A i \in DOMAIN data : data[i] # b
      BY <3>1 DEF Queued
    <3>4. Queued' = Queued \cup {b}
      <4>1. ASSUME NEW i \in DOMAIN data' PROVE data'[i] \in Queued \cup {b}
        BY <1>1, <3>2 DEF Queued
      <4>2. b \in Queued'
        BY <1>1, <3>2 DEF Queued
      <4>3. ASSUME NEW i \in DOMAIN data PROVE data[i] \in Queued'
        <5>1. i \in DOMAIN data' /\ data'[i] = data[i]
          BY <1>1, <3>2
        <5> QED
          BY <5>1 DEF Queued
      <4>4. Queued' \subseteq Queued \cup {b}
        BY <4>1 DEF Queued
      <4>5. Queued \subseteq Queued'
        BY <4>3 DEF Queued
      <4> QED
        BY <4>2, <4>4, <4>5
    <3>5. ASSUME NEW i \in DOMAIN data', NEW j \in DOMAIN data', data'[i] = data'[j]
          PROVE  i = j
      BY <1>1, <1>2, <3>2, <3>3, <3>5
    <3> QED
      BY <1>1, <3>2, <3>4, <3>5
  <2> QED
    BY <2>1, <2>2
<1>4. /\ pool' \in Seq(Blocks) /\ Pooled' \subseteq Pooled /\ b \notin Pooled'
      /\ \A i, j \in DOMAIN pool' : pool'[i] = pool'[j] => i = j
  <2>1. CASE ~Fits(s) /\ FromPool(BlockSize(s))
    <3>1. pool' = Tail(pool) /\ pool # <<>> /\ b = Head(pool)
      BY <2>1
    <3>2. /\ Tail(pool) \in Seq(Blocks)
          /\ \A i, j \in DOMAIN Tail(pool) : Tail(pool)[i] = Tail(pool)[j] => i = j
          /\ {Tail(pool)[i] : i \in DOMAIN Tail(pool)} = {pool[i] : i \in DOMAIN pool} \ {Head(pool)}
      BY <1>1, <1>2, <3>1, TailFacts
    <3>3. Pooled' = {Tail(pool)[i] : i \in DOMAIN Tail(pool)} /\ Pooled = {pool[i] : i \in DOMAIN pool}
      BY <3>1 DEF Pooled
    <3>4. Pooled' = Pooled \ {b}
      BY <3>1, <3>2, <3>3
    <3> QED
      BY <3>1, <3>2, <3>4
  <2>2. CASE ~(~Fits(s) /\ FromPool(BlockSize(s)))
    <3>1. pool' = pool /\ Pooled' = Pooled
      BY <2>2 DEF Pooled
    <3>2. b \notin Pooled
      <4>1. CASE Fits(s)
        BY <1>1, <1>2, <4>1
      <4>2. CASE ~Fits(s)
        BY <1>1, <1>2, <2>2, <4>2
      <4> QED
        BY <4>1, <4>2
    <3> QED
      BY <1>1, <1>2, <3>1, <3>2
  <2> QED
    BY <2>1, <2>2
<1>5. QueueBlocks' = QueueBlocks \cup {b}
  <2>1. QueueBlocks' = IF read = NULL THEN Queued' ELSE Queued' \cup {read}
    BY DEF QueueBlocks, Queued
  <2> QED
    BY <1>1, <1>3, <2>1
<1>6. \A c \in QueueBlocks' \cup Pooled' : c < next'
  <2>1. b < next + 1
    BY <1>1
  <2>2. ASSUME NEW c \in QueueBlocks \cup Pooled PROVE c < next + 1
    <3>1. c < next /\ c \in Nat
      BY <1>1, <1>2, TypeFacts
    <3> QED
      BY <1>1, <3>1
  <2> QED
    BY <1>4, <1>5, <2>1, <2>2
<1>7. read' \notin Queued' /\ Pooled' \cap QueueBlocks' = {}
  BY <1>2, <1>3, <1>4, <1>5
<1>8. Lists'
  BY <1>3, <1>4, <1>6, <1>7 DEF Lists
<1> QED
  BY <1>3, <1>4, <1>5, <1>8

\* The places when a message of size s goes to the end of block b.
LEMMA AllocShape ==
    ASSUME TypeOK, Tiles, Order, NEW s \in Nat, s > 0, NEW b \in Blocks, b # NULL, b # read,
           NEW old \in Block, next \in Msg, next \notin Waiting,
           \/ b \in Queued /\ old = blk[b]
           \/ b \notin QueueBlocks /\ old.first = 0 /\ old.last = 0,
           Queued' = Queued \cup {b}, QueueBlocks' = QueueBlocks \cup {b},
           DOMAIN data \subseteq DOMAIN data', \A i \in DOMAIN data : data'[i] = data[i],
           Len(data') \in DOMAIN data', data'[Len(data')] = b,
           \A i \in DOMAIN data : data[i] # b => i < Len(data'),
           blk' = [blk EXCEPT ![b] = [old EXCEPT !.last = @ + s, !.ref = @ + 1]],
           at' = [at EXCEPT ![next] = [blk |-> b, pos |-> old.last, size |-> s]],
           next' = next + 1, UNCHANGED read
    PROVE  Tiles' /\ Order' /\ Waiting' = Waiting \cup {next}
<1>1. /\ Waiting \subseteq Msg /\ Msg \subseteq Nat /\ next \in Nat /\ next > 0
      /\ QueueBlocks \subseteq Blocks /\ QueueBlocks = IF read = NULL THEN Queued ELSE Queued \cup {read}
      /\ old.last \in Nat /\ old.first \in Nat /\ old.ref \in Int
      /\ \A c \in Blocks : blk[c].first \in Nat /\ blk[c].last \in Nat
      /\ \A m \in Msg : at[m].pos \in Nat /\ at[m].size \in Nat
  <2>1. old.last \in Nat /\ old.first \in Nat /\ old.ref \in Int
    BY DEF Block
  <2> QED
    BY <2>1, TypeFacts
<1>2. /\ \A c \in Blocks : c # b => blk'[c] = blk[c]
      /\ blk'[b].first = old.first /\ blk'[b].last = old.last + s
  <2>1. blk \in [Blocks -> Block]
    BY DEF TypeOK
  <2> QED
    BY <2>1 DEF Block
<1>3. /\ \A m \in Msg : m # next => at'[m] = at[m]
      /\ at'[next].blk = b /\ at'[next].pos = old.last /\ at'[next].size = s
  BY DEF TypeOK
<1>4. Waiting' = Waiting \cup {next}
  BY <1>3 DEF Waiting
<1>5. \A m \in Waiting : m # next /\ at'[m] = at[m]
  BY <1>1, <1>3
<1>6. PICK lo \in 1..next : Waiting = lo..(next - 1)
  BY DEF Tiles
<1>7. ASSUME NEW m \in Waiting, at[m].blk = b
      PROVE  /\ b \in Queued /\ old = blk[b] /\ at[m].pos + at[m].size <= old.last
             /\ at[m].pos >= old.first
  <2>1. b \in QueueBlocks
    BY <1>7 DEF Tiles
  <2>2. b \in Queued /\ old = blk[b]
    BY <2>1
  <2> QED
    BY <1>7, <2>2 DEF Tiles
<1>8. Tiles'
  <2>1. \E l \in 1..next' : Waiting' = l..(next' - 1)
    <3>1. lo \in 1..(next + 1) /\ Waiting' = lo..next
      BY <1>1, <1>4, <1>6
    <3> QED
      BY <1>1, <3>1
  <2>2. ASSUME NEW c \in QueueBlocks'
        PROVE  /\ blk'[c].first < blk'[c].last
               /\ \E m \in Waiting' : at'[m].blk = c /\ at'[m].pos = blk'[c].first
    <3>1. CASE c # b
      <4>1. c \in QueueBlocks /\ c \in Blocks
        BY <1>1, <2>2, <3>1
      <4>2. blk[c].first < blk[c].last
        BY <4>1 DEF Tiles
      <4>3. PICK m \in Waiting : at[m].blk = c /\ at[m].pos = blk[c].first
        BY <4>1 DEF Tiles
      <4> QED
        BY <1>2, <1>4, <1>5, <3>1, <4>1, <4>2, <4>3
    <3>2. CASE c = b /\ b \in Queued /\ old = blk[b]
      <4>1. b \in QueueBlocks
        BY <1>1, <3>2
      <4>2. old.first < old.last
        BY <3>2, <4>1 DEF Tiles
      <4>3. PICK m \in Waiting : at[m].blk = b /\ at[m].pos = blk[b].first
        BY <4>1 DEF Tiles
      <4>4. old.first < old.last + s
        BY <1>1, <4>2
      <4>5. at'[m].blk = c /\ at'[m].pos = blk'[c].first
        BY <1>2, <1>5, <3>2, <4>3
      <4> QED
        BY <1>2, <1>4, <3>2, <4>4, <4>5
    <3>3. CASE c = b /\ b \notin QueueBlocks /\ old.first = 0 /\ old.last = 0
      <4>1. blk'[c].first = 0 /\ blk'[c].last = s /\ at'[next].blk = c /\ at'[next].pos = 0
        BY <1>2, <1>3, <3>3
      <4> QED
        BY <1>4, <4>1
    <3> QED
      BY <3>1, <3>2, <3>3
  <2>3. ASSUME NEW m \in Waiting'
        PROVE  /\ at'[m].blk \in QueueBlocks' /\ at'[m].size > 0
               /\ at'[m].pos >= blk'[at'[m].blk].first
               /\ at'[m].pos + at'[m].size <= blk'[at'[m].blk].last
               /\ \/ at'[m].pos + at'[m].size = blk'[at'[m].blk].last
                  \/ \E n \in Waiting' : /\ at'[n].blk = at'[m].blk
                                         /\ at'[n].pos = at'[m].pos + at'[m].size
    <3>1. CASE m = next
      <4>1. old.first <= old.last
        <5>1. CASE b \in Queued /\ old = blk[b]
          <6>1. b \in QueueBlocks
            BY <1>1, <5>1
          <6>2. old.first < old.last
            BY <5>1, <6>1 DEF Tiles
          <6> QED
            BY <1>1, <6>2
        <5>2. CASE old.first = 0 /\ old.last = 0
          BY <5>2
        <5> QED
          BY <5>1, <5>2
      <4>2. at'[m].blk = b /\ at'[m].pos = old.last /\ at'[m].size = s
        BY <1>3, <3>1
      <4>3. old.last >= old.first /\ old.last + s <= old.last + s
        BY <1>1, <4>1
      <4> QED
        BY <1>2, <4>2, <4>3
    <3>2. CASE m # next
      <4>1. m \in Waiting /\ m \in Msg /\ at'[m] = at[m]
        BY <1>1, <1>3, <1>4, <3>2
      <4>2. PICK c \in Blocks : c = at[m].blk /\ c \in QueueBlocks
        BY <1>1, <4>1 DEF Tiles
      <4>3. /\ at[m].size > 0 /\ at[m].pos >= blk[c].first
            /\ at[m].pos + at[m].size <= blk[c].last
            /\ \/ at[m].pos + at[m].size = blk[c].last
               \/ \E n \in Waiting : at[n].blk = c /\ at[n].pos = at[m].pos + at[m].size
        BY <4>1, <4>2 DEF Tiles
      <4>4. ASSUME NEW n \in Waiting, at[n].blk = c, at[n].pos = at[m].pos + at[m].size
            PROVE  n \in Waiting' /\ at'[n].blk = c /\ at'[n].pos = at[m].pos + at[m].size
        BY <1>4, <1>5, <4>4
      <4>5. CASE c # b
        <5>1. blk'[c] = blk[c] /\ c \in QueueBlocks'
          BY <1>2, <4>2, <4>5
        <5> QED
          BY <4>1, <4>2, <4>3, <4>4, <5>1
      <4>6. CASE c = b
        <5>1. old = blk[b] /\ at[m].pos + at[m].size <= old.last /\ at[m].pos >= old.first
          BY <1>7, <4>1, <4>2, <4>6
        <5>2. blk'[c].first = old.first /\ blk'[c].last = old.last + s /\ c \in QueueBlocks'
          BY <1>2, <4>2, <4>6
        <5>3. at[m].pos + at[m].size <= old.last + s
          BY <1>1, <4>1, <5>1, SMTT(40)
        <5>4. at[m].pos + at[m].size = old.last =>
                next \in Waiting' /\ at'[next].blk = c /\ at'[next].pos = at[m].pos + at[m].size
          BY <1>3, <1>4, <4>6
        <5>5. \E n \in Waiting' : at'[n].blk = c /\ at'[n].pos = at[m].pos + at[m].size
          BY <4>3, <4>4, <4>6, <5>1, <5>4
        <5> QED
          BY <4>1, <4>2, <4>3, <5>1, <5>2, <5>3, <5>5
      <4> QED
        BY <4>5, <4>6
    <3> QED
      BY <3>1, <3>2
  <2> QED
    BY <2>1, <2>2, <2>3 DEF Tiles
<1>9. Order'
  <2> SUFFICES ASSUME NEW k \in Waiting', NEW n \in Waiting', k < n
               PROVE  \/ at'[k].blk = at'[n].blk /\ at'[k].pos + at'[k].size <= at'[n].pos
                      \/ Ahead(at[k].blk, at[n].blk)'
    BY DEF Order
  <2>1. k \in Waiting
    BY <1>1, <1>4, <1>6
  <2>2. CASE n \in Waiting
    <3>1. at'[k] = at[k] /\ at'[n] = at[n]
      BY <1>5, <2>1, <2>2
    <3>2. CASE at[k].blk = at[n].blk /\ at[k].pos + at[k].size <= at[n].pos
      BY <3>1, <3>2
    <3>3. ASSUME Ahead(at[k].blk, at[n].blk) PROVE Ahead(at[k].blk, at[n].blk)'
      <4>1. CASE at[k].blk = read /\ at[n].blk \in Queued
        BY <3>1, <4>1 DEF Ahead
      <4>2. ASSUME NEW i \in DOMAIN data, NEW j \in DOMAIN data,
                   i < j, data[i] = at[k].blk, data[j] = at[n].blk
            PROVE  Ahead(at[k].blk, at[n].blk)'
        <5>1. /\ i \in DOMAIN data' /\ j \in DOMAIN data' /\ data'[i] = at'[k].blk
              /\ data'[j] = at'[n].blk
          BY <3>1, <4>2
        <5> QED
          BY <4>2, <5>1 DEF Ahead
      <4> QED
        BY <3>3, <4>1, <4>2 DEF Ahead
    <3> QED
      BY <2>1, <2>2, <3>2, <3>3 DEF Order
  <2>3. CASE n = next
    <3>1. at'[k] = at[k] /\ at'[n].blk = b /\ at'[n].pos = old.last
      BY <1>3, <1>5, <2>1, <2>3
    <3>2. CASE at[k].blk = b
      BY <1>7, <2>1, <3>1, <3>2
    <3>3. CASE at[k].blk # b /\ at[k].blk = read
      BY <3>1, <3>3 DEF Ahead
    <3>4. CASE at[k].blk # b /\ at[k].blk # read
      <4>1. at[k].blk \in Queued
        BY <1>1, <2>1, <3>4 DEF Tiles
      <4>2. PICK i \in DOMAIN data : data[i] = at[k].blk
        BY <4>1 DEF Queued
      <4>3. i \in DOMAIN data' /\ i < Len(data') /\ data'[i] = at'[k].blk /\ data'[Len(data')] = at'[n].blk
        BY <3>1, <3>4, <4>2
      <4> QED
        BY <4>3 DEF Ahead
    <3> QED
      BY <3>2, <3>3, <3>4
  <2> QED
    BY <1>4, <2>2, <2>3
<1> QED
  BY <1>4, <1>8, <1>9

\* The open messages when writer w gets a place in block b.
LEMMA AllocOpens ==
    ASSUME TypeOK, Opens, NEW w \in Writers, NEW b \in Blocks,
           \A x \in Writers : x # w => wr'[x] = wr[x],
           wr'[w].open = Append(wr[w].open, <<next, b>>),
           next \in Msg, next \notin Waiting, Waiting' = Waiting \cup {next},
           \A m \in Msg : m # next => at'[m] = at[m], at'[next].blk = b,
           Queued' = Queued \cup {b}
    PROVE  /\ Opens' /\ next \notin Opened /\ Opened' = Opened \cup {next}
           /\ next \in Open(w)' /\ \E i \in DOMAIN wr'[w].open : wr'[w].open[i][2] = b
           /\ \A c : c # b => OpenIn(c)' = OpenIn(c)
           /\ \A c : c = b => OpenIn(c)' = OpenIn(c) \cup {next}
<1> DEFINE o == wr[w].open
<1>0. \A x \in Writers : x # w => wr'[x] = wr[x]
  OBVIOUS
<1>1. o \in Seq(Msg \X Blocks) /\ DOMAIN o = 1..Len(o) /\ Len(o) \in Nat
  BY ThreadFacts
<1> DEFINE p == Append(o, <<next, b>>)
<1>2. /\ DOMAIN p = 1..(Len(o) + 1) /\ p[Len(o) + 1] = <<next, b>>
      /\ \A i \in DOMAIN o : i \in DOMAIN p /\ p[i] = o[i]
      /\ \A i \in DOMAIN p : i # Len(o) + 1 => i \in DOMAIN o
  BY <1>1
<1>3. wr'[w].open = p
  OBVIOUS
<1> HIDE DEF o, p
<1>4. \A x \in Writers : x # w => Open(x)' = Open(x)
  BY <1>0 DEF Open
<1>5. Open(w)' = Open(w) \cup {next}
  <2>1. Open(w) = {o[i][1] : i \in DOMAIN o} /\ Open(w)' = {p[i][1] : i \in DOMAIN p}
    BY <1>3 DEF Open, o
  <2>2. ASSUME NEW n \in Open(w)' PROVE n \in Open(w) \cup {next}
    <3>1. PICK i \in DOMAIN p : n = p[i][1]
      BY <2>1, <2>2
    <3> QED
      BY <1>2, <2>1, <3>1
  <2>3. ASSUME NEW n \in Open(w) PROVE n \in Open(w)'
    BY <1>2, <2>1, <2>3
  <2>4. next \in Open(w)'
    <3>1. Len(o) + 1 \in DOMAIN p /\ p[Len(o) + 1][1] = next
      BY <1>1, <1>2
    <3> QED
      BY <2>1, <3>1
  <2> QED
    BY <2>2, <2>3, <2>4
<1>6. Opened' = Opened \cup {next}
  BY <1>4, <1>5 DEF Opened
<1>7. Opened \subseteq Waiting /\ Waiting \subseteq Msg /\ next \notin Opened
  <2>1. Opened \subseteq Waiting
    BY DEF Opened, Open, Opens
  <2> QED
    BY <2>1, TypeFacts
<1>8. \A c : c # b => OpenIn(c)' = OpenIn(c)
  BY <1>6, <1>7 DEF OpenIn
<1>9. \A c : c = b => OpenIn(c)' = OpenIn(c) \cup {next}
  BY <1>6, <1>7 DEF OpenIn
<1>10. \E i \in DOMAIN wr'[w].open : wr'[w].open[i][2] = b
  <2>1. Len(o) + 1 \in DOMAIN p /\ p[Len(o) + 1][2] = b
    BY <1>1, <1>2
  <2> QED
    BY <1>3, <2>1
<1>11. Opens'
  <2>1. ASSUME NEW x \in Writers, NEW i \in DOMAIN wr'[x].open
        PROVE  \/ x = w /\ i = Len(o) + 1 /\ wr'[x].open[i] = <<next, b>>
               \/ i \in DOMAIN wr[x].open /\ wr'[x].open[i] = wr[x].open[i]
    <3>1. CASE x = w
      <4>1. i \in DOMAIN p /\ wr'[x].open[i] = p[i]
        BY <1>3, <3>1
      <4>2. CASE i = Len(o) + 1
        BY <1>2, <3>1, <4>1, <4>2
      <4>3. CASE i # Len(o) + 1
        BY <1>2, <3>1, <4>1, <4>3 DEF o
      <4> QED
        BY <4>2, <4>3
    <3>2. CASE x # w
      BY <1>0, <3>2
    <3> QED
      BY <3>1, <3>2
  <2>2. ASSUME NEW x \in Writers, NEW i \in DOMAIN wr[x].open
        PROVE  /\ wr[x].open[i][1] \in Waiting /\ at[wr[x].open[i][1]].blk = wr[x].open[i][2]
               /\ wr[x].open[i][2] \in Queued /\ wr[x].open[i][1] # next
               /\ at'[wr[x].open[i][1]] = at[wr[x].open[i][1]]
    <3>1. /\ wr[x].open[i][1] \in Waiting /\ at[wr[x].open[i][1]].blk = wr[x].open[i][2]
          /\ wr[x].open[i][2] \in Queued
      BY DEF Opens
    <3> QED
      BY <1>7, <3>1
  <2>3. ASSUME NEW x \in Writers, NEW i \in DOMAIN wr'[x].open
        PROVE  /\ wr'[x].open[i][1] \in Waiting' /\ at'[wr'[x].open[i][1]].blk = wr'[x].open[i][2]
               /\ wr'[x].open[i][2] \in Queued'
    <3>1. CASE wr'[x].open[i] = <<next, b>>
      BY <3>1
    <3>2. CASE i \in DOMAIN wr[x].open /\ wr'[x].open[i] = wr[x].open[i]
      BY <2>2, <3>2
    <3> QED
      BY <2>1, <3>1, <3>2
  <2>4. ASSUME NEW x \in Writers, NEW y \in Writers, NEW i \in DOMAIN wr'[x].open,
               NEW j \in DOMAIN wr'[y].open, wr'[x].open[i][1] = wr'[y].open[j][1]
        PROVE  x = y /\ i = j
    <3>1. \/ x = w /\ i = Len(o) + 1 /\ wr'[x].open[i][1] = next
          \/ i \in DOMAIN wr[x].open /\ wr'[x].open[i] = wr[x].open[i] /\ wr[x].open[i][1] # next
      BY <2>1, <2>2
    <3>2. \/ y = w /\ j = Len(o) + 1 /\ wr'[y].open[j][1] = next
          \/ j \in DOMAIN wr[y].open /\ wr'[y].open[j] = wr[y].open[j] /\ wr[y].open[j][1] # next
      BY <2>1, <2>2
    <3> QED
      BY <2>4, <3>1, <3>2, SMTT(40) DEF Opens
  <2> QED
    BY <2>3, <2>4 DEF Opens
<1> QED
  BY <1>5, <1>6, <1>7, <1>8, <1>9, <1>10, <1>11

\* _eina_thread_queue_msg_alloc: the message gets its place.
LEMMA StepAlloc ==
    ASSUME QueueInv, NEW w \in Writers, NEW s \in Sizes, MsgAlloc(w, s)
    PROVE  /\ QueueInv' /\ next' = next + 1 /\ next \in Msg
           /\ Waiting' = Waiting \cup {next}
<1>1. /\ TypeOK /\ Lists /\ Tiles /\ Order /\ Opens /\ Refs /\ Locks /\ Frees /\ Counts
      /\ \A x \in Writers : WriterOK(x)
      /\ \A r \in Readers : ReaderOK(r)
  BY DEF QueueInv
<1>2. PICK b : b = Target(s)
  OBVIOUS
<1>3. PICK old : old = BlockFor(s)
  OBVIOUS
<1> DEFINE v == [wr[w] EXCEPT !.pc = IF old.ref = 0 THEN "lock" ELSE "pend",
                              !.open = Append(wr[w].open, <<next, b>>), !.blk = b]
<1>4. /\ wr[w].pc = "send" /\ lockW = NoThread /\ next' = next + 1
      /\ blk' = [blk EXCEPT ![b] = [old EXCEPT !.last = @ + s, !.ref = @ + 1]]
      /\ data' = IF Fits(s) THEN data ELSE Append(data, b)
      /\ pool' = IF ~Fits(s) /\ FromPool(BlockSize(s)) THEN Tail(pool) ELSE pool
      /\ at' = [at EXCEPT ![next] = [blk |-> b, pos |-> old.last, size |-> s]]
      /\ lockW' = IF old.ref = 0 THEN w ELSE NoThread
      /\ UNCHANGED <<read, sem, pending, lockR, rd>>
  BY <1>2, <1>3 DEF MsgAlloc
<1>5. wr' = [wr EXCEPT ![w].pc = IF old.ref = 0 THEN "lock" ELSE "pend",
                       ![w].open = Append(@, <<next, b>>), ![w].blk = b]
  BY <1>2, <1>3 DEF MsgAlloc
<1>6. next \in Msg /\ next \in Blocks /\ next \notin Waiting /\ next \notin Opened
  BY <1>4, NextMsg
<1>7. /\ s \in Nat /\ s > 0 /\ b \in Blocks /\ old \in Block
      /\ b <= next /\ b # read /\ b # NULL
      /\ \A r \in Readers : rd[r].blk # b
      /\ old.lock = blk[b].lock /\ ~old.gone /\ old.frees = 0
      /\ old.ref = Cardinality(OpenIn(b))
      /\ Fits(s) => b \in Queued /\ old = blk[b] /\ data # <<>> /\ b = data[Len(data)]
      /\ ~Fits(s) => b \notin QueueBlocks /\ old.first = 0 /\ old.last = 0
      /\ ~Fits(s) /\ FromPool(BlockSize(s)) => b = Head(pool) /\ pool # <<>>
      /\ ~Fits(s) /\ ~FromPool(BlockSize(s)) => b = next
  BY <1>2, <1>3, <1>4, TargetFacts
<1>8. /\ v \in Writer /\ wr' = [wr EXCEPT ![w] = v]
      /\ v.pc = IF old.ref = 0 THEN "lock" ELSE "pend"
      /\ v.blk = b /\ v.open = Append(wr[w].open, <<next, b>>)
  <2>1. /\ wr[w] \in Writer /\ wr \in [Writers -> Writer] /\ b \in Blocks \cup {NULL}
        /\ wr[w].open \in Seq(Msg \X Blocks) /\ <<next, b>> \in Msg \X Blocks
    BY <1>1, <1>6, <1>7, ThreadFacts DEF TypeOK
  <2>2. Append(wr[w].open, <<next, b>>) \in Seq(Msg \X Blocks)
    BY <2>1
  <2>3. \A x \in Writer : \A c \in Blocks \cup {NULL} : \A o \in Seq(Msg \X Blocks) :
           \A p \in {"lock", "pend"} : [x EXCEPT !.pc = p, !.open = o, !.blk = c] \in Writer
    BY DEF Writer
  <2>4. v \in Writer
    BY <2>1, <2>2, <2>3
  <2> QED
    BY <1>5, <2>1, <2>4 DEF Writer
<1> HIDE DEF v
<1>9. /\ wr' \in [Writers -> Writer] /\ wr'[w] = v
      /\ \A x \in Writers : x # w => wr'[x] = wr[x]
  BY <1>1, <1>8 DEF TypeOK
<1>10. /\ Lists' /\ data' \in Seq(Blocks) /\ pool' \in Seq(Blocks)
       /\ Queued' = Queued \cup {b} /\ QueueBlocks' = QueueBlocks \cup {b}
       /\ Pooled' \subseteq Pooled /\ b \notin Pooled'
       /\ DOMAIN data \subseteq DOMAIN data' /\ \A i \in DOMAIN data : data'[i] = data[i]
       /\ Len(data') \in DOMAIN data' /\ data'[Len(data')] = b
       /\ \A i \in DOMAIN data : data[i] # b => i < Len(data')
  <2>1. /\ b \in Blocks /\ b <= next /\ b # read /\ b # NULL
        /\ Fits(s) => b \in Queued /\ data # <<>> /\ b = data[Len(data)]
        /\ ~Fits(s) => b \notin QueueBlocks
        /\ ~Fits(s) /\ FromPool(BlockSize(s)) => b = Head(pool) /\ pool # <<>>
        /\ ~Fits(s) /\ ~FromPool(BlockSize(s)) => b = next
        /\ read' = read
    BY <1>4, <1>7
  <2> QED
    BY <1>1, <1>4, <2>1, AllocLists
<1>11. Tiles' /\ Order' /\ Waiting' = Waiting \cup {next}
  <2>1. \/ b \in Queued /\ old = blk[b]
        \/ b \notin QueueBlocks /\ old.first = 0 /\ old.last = 0
    BY <1>7
  <2>2. read' = read
    BY <1>4
  <2> QED
    BY <1>1, <1>4, <1>6, <1>7, <1>10, <2>1, <2>2, AllocShape
<1>12. /\ at' \in [Msg -> Place]
       /\ \A m \in Msg : m # next => at'[m] = at[m]
       /\ at'[next].blk = b
  <2>1. at \in [Msg -> Place] /\ old.last \in Nat
    BY <1>1, <1>7 DEF TypeOK, Block
  <2>2. [blk |-> b, pos |-> old.last, size |-> s] \in Place
    BY <1>7, <2>1 DEF Place
  <2> QED
    BY <1>4, <1>6, <2>1, <2>2
<1>13. /\ Opens' /\ next \notin Opened /\ Opened' = Opened \cup {next}
       /\ next \in Open(w)' /\ \E i \in DOMAIN wr'[w].open : wr'[w].open[i][2] = b
       /\ \A c : c # b => OpenIn(c)' = OpenIn(c)
       /\ \A c : c = b => OpenIn(c)' = OpenIn(c) \cup {next}
  <2>1. TypeOK /\ Opens /\ b \in Blocks /\ next \in Msg /\ next \notin Waiting
    BY <1>1, <1>6, <1>7
  <2>2. /\ \A x \in Writers : x # w => wr'[x] = wr[x]
        /\ wr'[w].open = Append(wr[w].open, <<next, b>>)
    BY <1>8, <1>9
  <2>3. /\ Waiting' = Waiting \cup {next} /\ Queued' = Queued \cup {b}
        /\ \A m \in Msg : m # next => at'[m] = at[m]
        /\ at'[next].blk = b
    BY <1>10, <1>11, <1>12
  <2> QED
    BY <2>1, <2>2, <2>3, AllocOpens
<1>14. /\ blk' \in [Blocks -> Block]
       /\ \A c \in Blocks : c # b => blk'[c] = blk[c]
       /\ blk'[b].ref = old.ref + 1 /\ blk'[b].lock = old.lock /\ blk'[b].frees = 0
       /\ ~blk'[b].gone
  <2>1. blk \in [Blocks -> Block] /\ old \in Block /\ b \in Blocks /\ s \in Nat
    BY <1>1, <1>7 DEF TypeOK
  <2>2. PICK u : u = [old EXCEPT !.last = @ + s, !.ref = @ + 1]
    OBVIOUS
  <2>3. old.last + s \in Nat /\ old.ref + 1 \in Int
    BY <2>1 DEF Block
  <2>4. \A y \in Block : \A n \in Nat : \A i \in Int : [y EXCEPT !.last = n, !.ref = i] \in Block
    BY DEF Block
  <2>5. u = [old EXCEPT !.last = old.last + s, !.ref = old.ref + 1]
    BY <2>2
  <2>6. u \in Block
    BY <2>1, <2>3, <2>4, <2>5
  <2>7. u.ref = old.ref + 1 /\ u.frees = old.frees
    BY <2>1, <2>5 DEF Block
  <2>8. u.lock = old.lock /\ u.gone = old.gone
    BY <2>1, <2>5 DEF Block
  <2>9. blk' = [blk EXCEPT ![b] = u]
    BY <1>4, <2>2
  <2>10. blk' \in [Blocks -> Block] /\ blk'[b] = u /\ \A c \in Blocks : c # b => blk'[c] = blk[c]
    BY <2>1, <2>6, <2>9
  <2>11. ~u.gone /\ u.frees = 0
    BY <1>7, <2>7, <2>8, Zenon
  <2> QED
    BY <2>7, <2>8, <2>10, <2>11
<1>15. TypeOK'
  <2>1. lockW' \in Writers \cup Readers \cup {NoThread} /\ next' \in Nat \ {0}
    BY <1>1, <1>4 DEF TypeOK
  <2> QED
    BY <1>1, <1>4, <1>9, <1>10, <1>12, <1>14, <2>1 DEF TypeOK
<1>16. old.ref \in Nat /\ (old.ref = 0 <=> OpenIn(b) = {})
  BY <1>1, <1>7, Finite
<1>17. Refs'
  <2>1. ASSUME NEW c \in Queued' PROVE blk'[c].ref = Cardinality(OpenIn(c)')
    <3>1. CASE c = b
      <4>1. IsFiniteSet(OpenIn(b)) /\ next \notin OpenIn(b)
        BY <1>1, <1>13, Finite DEF OpenIn
      <4>2. Cardinality(OpenIn(b) \cup {next}) = Cardinality(OpenIn(b)) + 1
        BY <4>1, FS_AddElement
      <4>3. OpenIn(c)' = OpenIn(b) \cup {next}
        BY <1>13, <3>1
      <4> QED
        BY <1>7, <1>14, <3>1, <4>2, <4>3
    <3>2. CASE c # b
      <4>1. c \in Queued /\ c \in Blocks
        BY <1>1, <1>10, <3>2, TypeFacts
      <4> QED
        BY <1>1, <1>13, <1>14, <3>2, <4>1 DEF Refs
    <3> QED
      BY <3>1, <3>2
  <2>2. /\ read # NULL => blk'[read].ref = blk[read].ref
        /\ \A r \in Readers : rd[r].blk # NULL => blk'[rd[r].blk].ref = blk[rd[r].blk].ref
    BY <1>1, <1>7, <1>14, ThreadFacts DEF TypeOK
  <2> QED
    BY <1>1, <1>4, <2>1, <2>2 DEF Refs, Holding
<1>18. /\ \A c \in Blocks : Locking(c)' <=> (c = b /\ old.ref = 0) 
       /\ \A c \in Blocks : ~Locking(c) /\ (Unlocking(c)' <=> Unlocking(c))
  <2>1. \A x \in Writers : wr[x].pc # "lock"
    BY <1>1, <1>4, ThreadAssumption DEF WriterOK
  <2> QED
    BY <1>4, <1>8, <1>9, <2>1 DEF Locking, Unlocking
<1>19. Locks'
  <2>1. ASSUME NEW c \in Blocks
        PROVE  /\ blk'[c].lock <=> Unlocking(c)' \/ (OpenIn(c)' # {} /\ ~Locking(c)')
               /\ Unlocking(c)' /\ OpenIn(c)' # {} => Locking(c)'
    <3>0. /\ blk[c].lock <=> Unlocking(c) \/ (OpenIn(c) # {} /\ ~Locking(c))
          /\ Unlocking(c) /\ OpenIn(c) # {} => Locking(c)
      BY <1>1 DEF Locks
    <3>1. CASE c = b
      <4>1. blk'[c].lock = blk[c].lock /\ OpenIn(c)' # {} /\ (Locking(c)' <=> OpenIn(c) = {})
        BY <1>7, <1>13, <1>14, <1>16, <1>18, <3>1
      <4>2. ~Locking(c) /\ (Unlocking(c)' <=> Unlocking(c))
        BY <1>18
      <4> QED
        BY <3>0, <4>1, <4>2
    <3>2. CASE c # b
      <4>1. blk'[c].lock = blk[c].lock /\ OpenIn(c)' = OpenIn(c) /\ ~Locking(c)'
        BY <1>13, <1>14, <1>18, <3>2
      <4> QED
        BY <1>18, <3>0, <4>1
    <3> QED
      BY <3>1, <3>2
  <2>2. ASSUME NEW x \in Writers, NEW y \in Writers, wr'[x].pc = "unlock", wr'[y].pc = "unlock",
               wr'[x].blk = wr'[y].blk
        PROVE  x = y
    BY <1>1, <1>8, <1>9, <2>2 DEF Locks
  <2> QED
    BY <2>1, <2>2 DEF Locks
<1>20. Frees'
  <2>1. ASSUME NEW c \in Blocks
        PROVE  /\ blk'[c].frees <= 1
               /\ blk'[c].frees > 0 => c \notin QueueBlocks' /\ \A r \in Readers : rd'[r].blk # c
               /\ blk'[c].gone => blk'[c].frees > 0
    <3>1. CASE c = b
      BY <1>14, <3>1
    <3>2. CASE c # b
      <4>1. blk'[c] = blk[c] /\ (c \in QueueBlocks' <=> c \in QueueBlocks) /\ rd' = rd
        BY <1>4, <1>10, <1>14, <3>2
      <4> QED
        BY <1>1, <4>1 DEF Frees
    <3> QED
      BY <3>1, <3>2
  <2>2. ASSUME NEW c \in Pooled' PROVE ~blk'[c].gone
    <3>1. c \in Pooled /\ c # b /\ c \in Blocks
      BY <1>1, <1>10, <2>2, TypeFacts
    <3>2. blk'[c] = blk[c]
      BY <1>14, <3>1
    <3> QED
      BY <1>1, <3>1, <3>2 DEF Frees
  <2> QED
    BY <2>1, <2>2 DEF Frees
<1>21. Counts'
  <2>1. /\ Posts(v) = 0 /\ Posts(wr[w]) = 0 /\ Pends(v) = 1 /\ Pends(wr[w]) = 0
        /\ Sends(v) = 0 /\ Sends(wr[w]) = 1
    BY <1>4, <1>8 DEF Posts, Pends, Sends
  <2>2. /\ sem \in Int /\ pending \in Int /\ next \in Int
        /\ Cardinality(Opened) \in Nat /\ Cardinality(Waiting) \in Nat
        /\ IsFiniteSet(Opened) /\ IsFiniteSet(Waiting)
    BY <1>1, Finite DEF TypeOK
  <2>3. Cardinality(Opened') = Cardinality(Opened) + 1 /\ Cardinality(Waiting') = Cardinality(Waiting) + 1
    BY <1>6, <1>11, <1>13, <2>2, FS_AddElement
  <2>4. /\ sem' \in Int /\ pending' \in Int /\ next' \in Int
        /\ Cardinality(Opened') \in Nat /\ Cardinality(Waiting') \in Nat
        /\ sem' + Posts(v) + Cardinality(Opened') - Cardinality(Waiting')
             = sem + Posts(wr[w]) + Cardinality(Opened) - Cardinality(Waiting)
        /\ pending' + Pends(v) - Cardinality(Waiting')
             = pending + Pends(wr[w]) - Cardinality(Waiting)
        /\ next' + Sends(v) = next + Sends(wr[w])
    BY <1>4, <2>1, <2>2, <2>3, SMTT(40)
  <2>5. rd' = rd
    BY <1>4
  <2> QED
    BY <1>1, <1>8, <2>4, <2>5, CountsWriter
<1>22. ASSUME NEW x \in Writers PROVE WriterOK(x)'
  <2>1. CASE x = w
    <3>1. v.pc = "lock" <=> lockW' = w
      BY <1>4, <1>8, ThreadAssumption
    <3>2. v.pc = "lock" => OpenIn(wr[w].blk)' = {next' - 1} /\ next' - 1 \in Open(w)'
      <4> SUFFICES ASSUME v.pc = "lock" PROVE OpenIn(wr[w].blk)' = {next' - 1} /\ next' - 1 \in Open(w)'
        OBVIOUS
      <4>1. next' - 1 = next
        BY <1>4, <1>6, <1>1, TypeFacts
      <4>2. OpenIn(b) = {}
        BY <1>8, <1>16
      <4>3. OpenIn(b)' = {next}
        BY <1>13, <4>2
      <4>4. wr'[w].blk = b
        BY <1>8, <1>9
      <4> QED
        BY <1>13, <4>1, <4>3, <4>4 DEF OpenIn
    <3> QED
      BY <1>8, <1>9, <1>13, <2>1, <3>1, <3>2 DEF WriterOK
  <2>2. CASE x # w
    <3>1. /\ WriterOK(x) /\ (lockW' = x <=> lockW = x) /\ next \in Nat /\ next' \in Nat /\ next' >= next
          /\ wr[x].pc # "lock"
      BY <1>1, <1>4, <2>2, TypeFacts, ThreadAssumption, SMTT(40) DEF WriterOK
    <3>2. wr'[x] = wr[x] /\ Blocks \subseteq Nat
      BY <1>1, <1>9, <2>2, TypeFacts
    <3>3. wr[x].pc = "unlock" => (blk'[wr[x].blk].gone => blk[wr[x].blk].gone)
      BY <1>1, <1>14 DEF WriterOK
    <3> QED
      BY <3>1, <3>2, <3>3, KeepWriter
  <2> QED
    BY <2>1, <2>2
<1>23. ASSUME NEW r \in Readers PROVE ReaderOK(r)'
  <2>0. ReaderOK(r) /\ rd' = rd /\ lockR' = lockR /\ read' = read /\ next \in Nat /\ next' = next + 1
    BY <1>1, <1>4, TypeFacts
  <2>1. lockW' # r /\ rd[r].pc # "lockB"
    BY <1>1, <1>4, ThreadAssumption DEF ReaderOK
  <2>2. rd[r].blk # NULL => blk'[rd[r].blk] = blk[rd[r].blk]
    BY <1>1, <1>7, <1>14, ThreadFacts
  <2>3. rd[r].msg \notin Waiting' /\ rd[r].msg < next'
    <3>1. rd[r].msg \in Nat /\ rd[r].msg < next /\ rd[r].msg \notin Waiting
      BY <1>1, ThreadFacts, TypeFacts DEF ReaderOK, NULL
    <3> QED
      BY <1>11, <2>0, <3>1
  <2>4. rd[r].blk # NULL => /\ rd[r].blk < next' /\ rd[r].blk \notin Queued' /\ rd[r].blk \notin Pooled'
    <3>1. rd[r].blk # NULL => rd[r].blk \in Nat
      BY <1>1, ThreadFacts, TypeFacts
    <3> QED
      BY <1>7, <1>10, <2>0, <3>1 DEF ReaderOK
  <2> QED
    BY <2>0, <2>1, <2>2, <2>3, <2>4 DEF ReaderOK
<1> QED
  BY <1>4, <1>6, <1>10, <1>11, <1>13, <1>15, <1>17, <1>19, <1>20, <1>21, <1>22, <1>23 DEF QueueInv

-----------------------------------------------------------------------------
(* The invariant *)

\* The queue starts empty.
LEMMA InitQueue ==
    Init => QueueInv
<1> SUFFICES ASSUME Init PROVE QueueInv
  OBVIOUS
<1>1. TypeOK
  <2>1. NewBlock(0) \in Block
    <3>1. FALSE \in BOOLEAN
      OBVIOUS
    <3> QED
      BY <3>1 DEF NewBlock, Block
  <2>2. blk \in [Blocks -> Block]
    BY <2>1 DEF Init
  <2>3. wr \in [Writers -> Writer]
    <3>1. [pc |-> "idle", open |-> <<>>, blk |-> NULL] \in Writer
      BY DEF Writer
    <3> QED
      BY <3>1 DEF Init
  <2>4. rd \in [Readers -> Reader]
    <3>1. [pc |-> "idle", mode |-> "wait", msg |-> NULL, blk |-> NULL, ref |-> 0] \in Reader
      BY DEF Reader
    <3> QED
      BY <3>1 DEF Init
  <2>5. at \in [Msg -> Place]
    BY DEF Init, Place
  <2> QED
    BY <2>2, <2>3, <2>4, <2>5 DEF Init, TypeOK
<1>2. /\ \A w \in Writers : wr[w].pc = "idle" /\ wr[w].open = <<>> /\ wr[w].blk = NULL
      /\ \A r \in Readers : /\ rd[r].pc = "idle" /\ rd[r].mode = "wait" /\ rd[r].msg = NULL
                            /\ rd[r].blk = NULL /\ rd[r].ref = 0
      /\ \A b \in Blocks : /\ blk[b].first = 0 /\ blk[b].last = 0 /\ blk[b].ref = 0
                           /\ blk[b].lock = FALSE /\ blk[b].frees = 0 /\ blk[b].gone = FALSE
      /\ data = <<>> /\ pool = <<>> /\ read = NULL /\ next = 1 /\ sem = 0 /\ pending = 0
      /\ lockW = NoThread /\ lockR = NoThread
  BY DEF Init, NewBlock
<1>3. Queued = {} /\ Pooled = {} /\ QueueBlocks = {}
  BY <1>2 DEF Queued, Pooled, QueueBlocks
<1>4. Waiting = {}
  BY DEF Init, Waiting
<1>5. Opened = {} /\ (\A w \in Writers : Open(w) = {}) /\ \A b : OpenIn(b) = {}
  <2>1. \A w \in Writers : Open(w) = {}
    BY <1>2 DEF Open
  <2>2. Opened = {}
    BY <2>1 DEF Opened
  <2> QED
    BY <2>1, <2>2 DEF OpenIn
<1>6. Lists
  BY <1>2, <1>3 DEF Lists
<1>7. Tiles
  <2>1. \E lo \in 1..next : Waiting = lo..(next - 1)
    <3>1. 1 \in 1..next /\ Waiting = 1..(next - 1)
      BY <1>2, <1>4
    <3> QED
      BY <3>1
  <2> QED
    BY <1>3, <1>4, <2>1 DEF Tiles
<1>8. Order
  BY <1>4 DEF Order
<1>9. Opens
  BY <1>2 DEF Opens
<1>10. Refs
  BY <1>2, <1>3 DEF Refs
<1>11. Locks
  BY <1>2, <1>5 DEF Locks, Unlocking
<1>12. Frees
  BY <1>2, <1>3 DEF Frees
<1>13. Counts
  <2>1. /\ WritersAt(wr, {"unlock", "post"}) = 0 /\ WritersAt(wr, {"lock", "pend"}) = 0
        /\ WritersAt(wr, {"send"}) = 0
    <3>1. /\ {w \in Writers : wr[w].pc \in {"unlock", "post"}} = {}
          /\ {w \in Writers : wr[w].pc \in {"lock", "pend"}} = {}
          /\ {w \in Writers : wr[w].pc \in {"send"}} = {}
      BY <1>2
    <3> QED
      BY <3>1, FS_EmptySet DEF WritersAt
  <2>2. /\ ReadersAt(rd, {"lockR", "fetch", "lockB", "take"}, {"wait"}) = 0
        /\ ReadersAt(rd, {"ref", "sem"}, {"poll"}) = 0
        /\ ReadersAt(rd, {"ref", "sem", "count"}, {"wait", "poll"}) = 0
    <3>1. /\ {r \in Readers : rd[r].pc \in {"lockR", "fetch", "lockB", "take"} /\ rd[r].mode \in {"wait"}} = {}
          /\ {r \in Readers : rd[r].pc \in {"ref", "sem"} /\ rd[r].mode \in {"poll"}} = {}
          /\ {r \in Readers : rd[r].pc \in {"ref", "sem", "count"} /\ rd[r].mode \in {"wait", "poll"}} = {}
      BY <1>2
    <3> QED
      BY <3>1, FS_EmptySet DEF ReadersAt
  <2>3. Cardinality(Opened) = 0 /\ Cardinality(Waiting) = 0
    BY <1>4, <1>5, FS_EmptySet
  <2> QED
    BY <1>2, <2>1, <2>2, <2>3, MsgAssumption DEF Counts
<1>14. \A w \in Writers : WriterOK(w)
  BY <1>2, ThreadAssumption DEF WriterOK
<1>15. \A r \in Readers : ReaderOK(r)
  BY <1>2, <1>4, ThreadAssumption DEF ReaderOK, NULL
<1> QED
  BY <1>1, <1>6, <1>7, <1>8, <1>9, <1>10, <1>11, <1>12, <1>13, <1>14, <1>15 DEF QueueInv

\* Nothing changes.
LEMMA StepStutter ==
    ASSUME QueueInv, UNCHANGED vars
    PROVE  QueueInv'
<1>1. UNCHANGED <<blk, pool, data, read, sem, pending, lockW, lockR, wr, rd, at, next>>
  BY DEF vars
<1>2. /\ TypeOK /\ Lists /\ Tiles /\ Order /\ Opens /\ Refs /\ Locks /\ Frees /\ Counts
      /\ \A w \in Writers : WriterOK(w)
      /\ \A r \in Readers : ReaderOK(r)
  BY DEF QueueInv
<1>3. TypeOK'
  BY <1>1, <1>2 DEF TypeOK
<1>4. /\ Lists' /\ Tiles' /\ Order'
      /\ Waiting' = Waiting /\ Queued' = Queued /\ Pooled' = Pooled /\ QueueBlocks' = QueueBlocks
  BY <1>1, <1>2, KeepShape
<1>5. /\ Opens' /\ Opened' = Opened
      /\ \A b : OpenIn(b)' = OpenIn(b)
      /\ \A w \in Writers : Open(w)' = Open(w)
  BY <1>1, <1>2, <1>4, KeepOpens
<1>6. Refs'
  BY <1>1, <1>2, <1>4, <1>5 DEF Refs, Holding
<1>7. Locks'
  BY <1>1, <1>2, <1>5 DEF Locks, Locking, Unlocking
<1>8. Frees' /\ Counts'
  BY <1>1, <1>2, <1>4, <1>5 DEF Frees, Counts, WritersAt, ReadersAt
<1>9. \A w \in Writers : WriterOK(w)'
  BY <1>1, <1>2, <1>5 DEF WriterOK
<1>10. \A r \in Readers : ReaderOK(r)'
  BY <1>1, <1>2, <1>4 DEF ReaderOK
<1> QED
  BY <1>3, <1>4, <1>5, <1>6, <1>7, <1>8, <1>9, <1>10 DEF QueueInv

\* Every step keeps the invariant.
LEMMA StepQueue ==
    ASSUME OneReader, QueueInv, [Next]_vars
    PROVE  QueueInv'
<1>1. CASE UNCHANGED vars
  BY <1>1, StepStutter
<1>2. ASSUME NEW w \in Writers, WriterStep(w) \/ eina_thread_queue_send(w)
      PROVE  QueueInv'
  <2>1. ASSUME NEW s \in Sizes, MsgAlloc(w, s) PROVE QueueInv'
    BY <2>1, StepAlloc
  <2>2. CASE LockNonZero(w)
    BY <2>2, StepLock
  <2>3. CASE CountPending(w)
    BY <2>3, StepCount
  <2>4. CASE eina_thread_queue_send_done(w)
    BY <2>4, StepSendDone
  <2>5. CASE UnlockNonZero(w)
    BY <2>5, StepUnlock
  <2>6. CASE Wake(w)
    BY <2>6, StepWake
  <2>7. CASE eina_thread_queue_send(w)
    BY <2>7, StepSend
  <2> QED
    BY <1>2, <2>1, <2>2, <2>3, <2>4, <2>5, <2>6, <2>7 DEF WriterStep
<1>3. ASSUME NEW r \in Readers, ReaderStep(r) \/ eina_thread_queue_poll(r)
      PROVE  QueueInv'
  <2>1. CASE eina_thread_queue_wait(r) \/ eina_thread_queue_poll(r)
    BY <2>1, StepWait
  <2>2. CASE LockRead(r)
    BY <2>2, StepLockRead
  <2>3. CASE FetchBlock(r)
    <3>1. CASE blk[Head(data)].ref > 0
      BY <2>3, <3>1, StepWaitBlock
    <3>2. CASE ~(blk[Head(data)].ref > 0)
      BY <2>3, <3>2, StepMove
    <3> QED
      BY <3>1, <3>2
  <2>4. CASE FetchNothing(r)
    BY <2>4, StepNothing
  <2>5. CASE FetchLocked(r)
    BY <2>5, StepMove
  <2>6. CASE TakeMessage(r)
    BY <2>6, StepTake
  <2>7. CASE RefBlock(r)
    BY <2>7, StepRef
  <2>8. CASE PollSemaphore(r)
    BY <2>8, StepSemaphore
  <2>9. CASE UncountPending(r)
    BY <2>9, StepUncount
  <2>10. CASE eina_thread_queue_wait_done(r)
    BY <2>10, StepDone
  <2>11. CASE FreeBlock(r)
    BY <2>11, StepFree
  <2> QED
    BY <1>3, <2>1, <2>2, <2>3, <2>4, <2>5, <2>6, <2>7, <2>8, <2>9, <2>10, <2>11 DEF ReaderStep
<1> QED
  BY <1>1, <1>2, <1>3 DEF Next

\* With one reader the invariant holds in every state.
THEOREM QueueInvariant ==
    OneReader => (Spec => []QueueInv)
<1> SUFFICES ASSUME OneReader PROVE Spec => []QueueInv
  OBVIOUS
<1>1. QueueInv /\ [Next]_vars => QueueInv'
  BY StepQueue
<1> QED
  BY <1>1, InitQueue, PTL DEF Spec

\* Every variable keeps its type: a reader never waits below 0 on the
\* semaphore, and every message a reader takes and every block a writer is
\* handed is one of the queue's.
THEOREM TypeCorrect ==
    OneReader => (Spec => []TypeOK)
<1> SUFFICES ASSUME OneReader PROVE Spec => []TypeOK
  OBVIOUS
<1>1. QueueInv => TypeOK
  BY DEF QueueInv
<1> QED
  BY <1>1, QueueInvariant, PTL


\* A block is given back once, and neither the queue, a writer with a message
\* in it nor the reader uses it then; its memory is not freed while a writer
\* still has to release lock_non_0_ref.
THEOREM FreedBlocksUnused ==
    OneReader => (Spec => []FreedUnused)
<1> SUFFICES ASSUME OneReader PROVE Spec => []FreedUnused
  OBVIOUS
<1>1. ASSUME QueueInv PROVE FreedUnused
  <2>1. /\ Opens /\ Frees
        /\ \A w \in Writers : WriterOK(w)
    BY <1>1 DEF QueueInv
  <2>2. Queued \subseteq QueueBlocks
    BY DEF Queued, QueueBlocks
  <2>3. \A w \in Writers : \A i \in DOMAIN wr[w].open : wr[w].open[i][2] \in QueueBlocks
    BY <2>1, <2>2 DEF Opens
  <2>4. \A w \in Writers : wr[w].pc \in {"lock", "pend"} => wr[w].blk \in QueueBlocks
    BY <2>1, <2>3 DEF WriterOK
  <2>5. ASSUME NEW b \in Blocks, blk[b].frees > 0 PROVE b \notin BlocksInUse
    <3>1. b \notin QueueBlocks /\ \A r \in Readers : rd[r].blk # b
      BY <2>1, <2>5 DEF Frees
    <3> DEFINE writing == {wr[w].blk : w \in {x \in Writers : wr[x].pc \in {"lock", "pend"}}}
               open == UNION {{wr[w].open[i][2] : i \in DOMAIN wr[w].open} : w \in Writers}
               reading == {rd[r].blk : r \in {x \in Readers : rd[x].pc # "idle"}}
    <3>2. b \notin writing
      BY <2>4, <3>1
    <3>3. b \notin open
      BY <2>3, <3>1
    <3>4. b \notin reading
      BY <3>1
    <3>5. BlocksInUse = QueueBlocks \cup writing \cup open \cup reading
      BY Zenon DEF BlocksInUse
    <3> HIDE DEF writing, open, reading
    <3> QED
      BY <3>1, <3>2, <3>3, <3>4, <3>5
  <2>6. \A b \in Blocks : blk[b].gone => \A w \in Writers : wr[w].pc = "unlock" => wr[w].blk # b
    BY <2>1 DEF WriterOK
  <2>7. \A b \in Blocks : blk[b].frees <= 1
    BY <2>1 DEF Frees
  <2> QED
    BY <2>5, <2>6, <2>7 DEF FreedUnused
<1> QED
  BY <1>1, QueueInvariant, PTL

\* The reader never has a message that its writer is still filling in: the
\* messages without send_done are all in the blocks of thq->data.
THEOREM FetchedMessagesComplete ==
    OneReader => (Spec => []FetchedComplete)
<1> SUFFICES ASSUME OneReader PROVE Spec => []FetchedComplete
  OBVIOUS
<1>1. ASSUME QueueInv PROVE FetchedComplete
  <2>1. /\ Opens
        /\ \A r \in Readers : ReaderOK(r)
    BY <1>1 DEF QueueInv
  <2>2. \A w \in Writers : Open(w) \subseteq Waiting
    BY <2>1 DEF Opens, Open
  <2>3. \A r \in Readers : rd[r].msg \notin Waiting
    BY <2>1 DEF ReaderOK
  <2> QED
    BY <2>2, <2>3 DEF FetchedComplete
<1> QED
  BY <1>1, QueueInvariant, PTL

-----------------------------------------------------------------------------
(* The queue implements MsgQueue *)

\* The messages from lo up to, not including, hi, in order.
Run(lo, hi) == [i \in 1..(hi - lo) |-> lo + i - 1]

\* A run grows at its end and is taken from its start.
LEMMA RunFacts ==
    ASSUME NEW lo \in Nat, NEW hi \in Nat, lo <= hi
    PROVE  /\ Run(lo, hi) \in Seq(Nat) /\ Len(Run(lo, hi)) = hi - lo
           /\ Append(Run(lo, hi), hi) = Run(lo, hi + 1)
           /\ lo < hi => Run(lo, hi) # <<>> /\ Tail(Run(lo, hi)) = Run(lo + 1, hi)
<1>1. hi - lo \in Nat /\ hi + 1 - lo = (hi - lo) + 1
  OBVIOUS
<1>2. Run(lo, hi) \in Seq(Nat) /\ Len(Run(lo, hi)) = hi - lo
  BY <1>1 DEF Run
<1>3. Append(Run(lo, hi), hi) = Run(lo, hi + 1)
  BY <1>1, <1>2 DEF Run
<1>4. ASSUME lo < hi PROVE Run(lo, hi) # <<>> /\ Tail(Run(lo, hi)) = Run(lo + 1, hi)
  <2>1. Len(Run(lo, hi)) > 0 /\ hi - (lo + 1) = (hi - lo) - 1 /\ hi - (lo + 1) \in Nat
    BY <1>1, <1>2, <1>4
  <2>2. Run(lo, hi) # <<>>
    BY <2>1
  <2>3. Tail(Run(lo, hi)) = Run(lo + 1, hi)
    BY <1>1, <1>2, <2>1, <2>2, SMTT(40) DEF Run
  <2> QED
    BY <2>2, <2>3
<1> QED
  BY <1>2, <1>3, <1>4

\* Counting the members below m finds the i-th member of an interval.
LEMMA IntervalInOrder ==
    ASSUME NEW lo \in Nat, NEW hi \in Nat, lo <= hi, NEW left, left = lo..(hi - 1)
    PROVE  InOrder(left) = Run(lo, hi)
<1>1. Cardinality(left) = hi - lo
  <2>1. Cardinality(lo..(hi - 1)) = IF lo > hi - 1 THEN 0 ELSE (hi - 1) - lo + 1
    BY FS_Interval
  <2> QED
    BY <2>1
<1>2. ASSUME NEW m \in left PROVE Cardinality({n \in left : n < m}) = m - lo
  <2>1. {n \in left : n < m} = lo..(m - 1) /\ m \in Nat /\ lo <= m
    OBVIOUS
  <2>2. Cardinality(lo..(m - 1)) = IF lo > m - 1 THEN 0 ELSE (m - 1) - lo + 1
    BY <2>1, FS_Interval
  <2>3. Cardinality({n \in left : n < m}) = Cardinality(lo..(m - 1))
    BY <2>1, Zenon
  <2>4. Cardinality(lo..(m - 1)) = m - lo
    BY <2>1, <2>2
  <2> QED
    BY <2>3, <2>4
<1>3. ASSUME NEW i \in 1..(hi - lo)
      PROVE  (CHOOSE m \in left : Cardinality({n \in left : n < m}) = i - 1) = lo + i - 1
  <2>1. lo + i - 1 \in left /\ (lo + i - 1) - lo = i - 1
    OBVIOUS
  <2>2. \A m \in left : m \in Int /\ (m - lo = i - 1 => m = lo + i - 1)
    OBVIOUS
  <2>3. \A m \in left : Cardinality({n \in left : n < m}) = i - 1 <=> m = lo + i - 1
    BY <1>2, <2>1, <2>2
  <2> QED
    BY <2>1, <2>3
<1> QED
  BY <1>1, <1>3 DEF Run, InOrder


\* The queue that MsgQueue sees.
UnfetchedIs ==
    \E lo \in 1..next : Waiting = lo..(next - 1) /\ UnfetchedSeq = Run(lo, next)

\* The messages not fetched are those with a place, in their order.
LEMMA UnfetchedRun ==
    ASSUME QueueInv
    PROVE  UnfetchedIs
<1>1. TypeOK /\ Tiles /\ Counts
  BY DEF QueueInv
<1>2. next \in Nat \ {0} /\ Msg = 1..MaxMsg
  BY <1>1, TypeFacts DEF Msg, TypeOK
<1>3. PICK lo \in 1..next : Waiting = lo..(next - 1)
  BY <1>1 DEF Tiles
<1>4. \A m \in Waiting : Unfetched(m)
  <2>1. \A m \in Waiting : m < next
    BY <1>2, <1>3
  <2> QED
    BY <1>1, <2>1 DEF Tiles, Unfetched
<1>5. ASSUME NEW m \in 1..(next - 1), Unfetched(m) PROVE m \in Waiting
  <2>1. WritersAt(wr, {"send"}) \in Nat
    BY FiniteAssumption, FS_Subset, FS_CardinalityType DEF WritersAt
  <2>2. m \in Msg
    BY <1>1, <1>2, <2>1, MsgAssumption DEF Counts
  <2>3. NULL \notin QueueBlocks
    BY <1>1, TypeFacts DEF QueueBlocks
  <2> QED
    BY <1>5, <2>2, <2>3 DEF Unfetched, Waiting
<1>6. Waiting \subseteq 1..(next - 1)
  BY <1>2, <1>3
<1>7. {m \in 1..(next - 1) : Unfetched(m)} = Waiting
  BY <1>4, <1>5, <1>6
<1>8. lo \in Nat /\ next \in Nat /\ lo <= next
  BY <1>2, <1>3
<1>9. InOrder(Waiting) = Run(lo, next)
  BY <1>3, <1>8, IntervalInOrder
<1>10. UnfetchedSeq = Run(lo, next)
  BY <1>7, <1>9, Zenon DEF UnfetchedSeq
<1> QED
  BY <1>3, <1>10 DEF UnfetchedIs


\* thq->pending is the number of messages not fetched, up to the writers and
\* the reader that are about to count theirs.
THEOREM PendingCountExact ==
    OneReader => (Spec => []PendingExact)
<1> SUFFICES ASSUME OneReader PROVE Spec => []PendingExact
  OBVIOUS
<1>1. ASSUME QueueInv PROVE PendingExact
  <2>1. TypeOK /\ Counts
    BY <1>1 DEF QueueInv
  <2>2. PICK lo \in 1..next : Waiting = lo..(next - 1) /\ UnfetchedSeq = Run(lo, next)
    BY <1>1, UnfetchedRun DEF UnfetchedIs
  <2>3. lo \in Nat /\ next \in Nat /\ lo <= next
    BY <2>1 DEF TypeOK
  <2>4. Len(UnfetchedSeq) = next - lo
    BY <2>2, <2>3, RunFacts
  <2>5. Cardinality(Waiting) = next - lo
    <3>1. Cardinality(lo..(next - 1)) = IF lo > next - 1 THEN 0 ELSE (next - 1) - lo + 1
      BY <2>3, FS_Interval
    <3> QED
      BY <2>2, <2>3, <3>1
  <2>6. {r \in Readers : rd[r].pc \in {"ref", "sem", "count"}}
          = {r \in Readers : rd[r].pc \in {"ref", "sem", "count"} /\ rd[r].mode \in {"wait", "poll"}}
    BY <2>1 DEF TypeOK, Reader
  <2>7. Cardinality({r \in Readers : rd[r].pc \in {"ref", "sem", "count"}})
          = ReadersAt(rd, {"ref", "sem", "count"}, {"wait", "poll"})
    BY <2>6, Zenon DEF ReadersAt
  <2>8. Cardinality({w \in Writers : wr[w].pc \in {"lock", "pend"}}) = WritersAt(wr, {"lock", "pend"})
    BY Zenon DEF WritersAt
  <2>9. pending \in Int /\ WritersAt(wr, {"lock", "pend"}) \in Nat
        /\ ReadersAt(rd, {"ref", "sem", "count"}, {"wait", "poll"}) \in Nat
    BY <2>1, FiniteAssumption, FS_Subset, FS_CardinalityType DEF WritersAt, ReadersAt, TypeOK
  <2>10. pending + WritersAt(wr, {"lock", "pend"})
           = Cardinality(Waiting) + ReadersAt(rd, {"ref", "sem", "count"}, {"wait", "poll"})
    BY <2>1 DEF Counts
  <2>11. pending = Len(UnfetchedSeq) - WritersAt(wr, {"lock", "pend"})
                     + ReadersAt(rd, {"ref", "sem", "count"}, {"wait", "poll"})
    BY <2>3, <2>4, <2>5, <2>9, <2>10
  <2> QED
    BY <2>7, <2>8, <2>11 DEF PendingExact
<1> QED
  BY <1>1, QueueInvariant, PTL

\* An interval has one start, be it empty or not.
LEMMA OneStart ==
    ASSUME NEW n \in Nat, NEW lo \in 1..n, NEW hi \in 1..n, lo..(n - 1) = hi..(n - 1)
    PROVE  lo = hi
<1>1. \A k \in Int : k \in lo..(n - 1) <=> k \in hi..(n - 1)
  OBVIOUS
<1>2. CASE lo < hi
  <2>1. lo \in lo..(n - 1) /\ lo \notin hi..(n - 1)
    BY <1>2
  <2> QED
    BY <2>1
<1>3. CASE hi < lo
  <2>1. hi \in hi..(n - 1) /\ hi \notin lo..(n - 1)
    BY <1>3
  <2> QED
    BY <2>1
<1> QED
  BY <1>2, <1>3

\* Only MsgAlloc and TakeMessage change the queue that MsgQueue sees.
LEMMA KeepUnfetched ==
    ASSUME TypeOK, UnfetchedIs, UnfetchedIs', UNCHANGED <<at, next>>
    PROVE  UNCHANGED <<UnfetchedSeq, 1..(next - 1)>>
<1>1. Waiting' = Waiting
  BY DEF Waiting
<1>2. PICK lo \in 1..next : Waiting = lo..(next - 1) /\ UnfetchedSeq = Run(lo, next)
  BY DEF UnfetchedIs
<1>3. PICK hi \in 1..next' : Waiting' = hi..(next' - 1) /\ UnfetchedSeq' = Run(hi, next')
  BY DEF UnfetchedIs
<1>4. next \in Nat
  BY DEF TypeOK
<1>5. lo = hi
  BY <1>1, <1>2, <1>3, <1>4, OneStart
<1> QED
  BY <1>2, <1>3, <1>5


\* A message that gets its place is put at the end of the queue.
LEMMA AllocSends ==
    ASSUME OneReader, QueueInv, UnfetchedIs, UnfetchedIs',
           NEW w \in Writers, NEW s \in Sizes, MsgAlloc(w, s)
    PROVE  Abstract!Send(next)
<1>1. next' = next + 1 /\ next \in Msg /\ Waiting' = Waiting \cup {next}
  BY StepAlloc
<1>2. PICK lo \in 1..next : Waiting = lo..(next - 1) /\ UnfetchedSeq = Run(lo, next)
  BY DEF UnfetchedIs
<1>3. PICK hi \in 1..next' : Waiting' = hi..(next' - 1) /\ UnfetchedSeq' = Run(hi, next')
  BY DEF UnfetchedIs
<1>4. next \in Nat /\ next' \in Nat /\ lo \in Nat /\ lo <= next
  BY <1>1, <1>2 DEF QueueInv, TypeOK
<1>5. lo \in 1..next' /\ Waiting' = lo..(next' - 1)
  BY <1>1, <1>2, <1>4
<1>6. lo = hi
  BY <1>3, <1>4, <1>5, OneStart
<1>7. UnfetchedSeq' = Append(UnfetchedSeq, next)
  BY <1>1, <1>2, <1>3, <1>4, <1>6, RunFacts
<1>8. next \notin 1..(next - 1) /\ 1..(next' - 1) = (1..(next - 1)) \cup {next}
  BY <1>1, <1>4
<1> QED
  BY <1>1, <1>7, <1>8 DEF Abstract!Send

\* The message a reader takes is the first of the queue.
LEMMA TakeFetches ==
    ASSUME OneReader, QueueInv, UnfetchedIs, UnfetchedIs', NEW r \in Readers, TakeMessage(r)
    PROVE  Abstract!Fetch
<1>1. next' = next
  BY StepTake
<1>2. PICK m \in Waiting : Waiting' = Waiting \ {m} /\ Waiting = m..(next - 1)
  BY StepTake
<1>3. PICK lo \in 1..next : Waiting = lo..(next - 1) /\ UnfetchedSeq = Run(lo, next)
  BY DEF UnfetchedIs
<1>4. PICK hi \in 1..next' : Waiting' = hi..(next' - 1) /\ UnfetchedSeq' = Run(hi, next')
  BY DEF UnfetchedIs
<1>5. next \in Nat /\ lo \in Nat /\ lo <= next
  BY <1>3 DEF QueueInv, TypeOK
<1>6. m \in 1..(next - 1)
  BY <1>2, <1>3, <1>5
<1>7. m = lo
  BY <1>2, <1>3, <1>5, <1>6, OneStart
<1>8. lo < next /\ lo + 1 \in 1..next /\ (lo..(next - 1)) \ {lo} = (lo + 1)..(next - 1)
  BY <1>5, <1>6, <1>7
<1>9. hi = lo + 1
  BY <1>1, <1>2, <1>3, <1>4, <1>5, <1>7, <1>8, OneStart
<1>10. UnfetchedSeq # <<>> /\ UnfetchedSeq' = Tail(UnfetchedSeq)
  BY <1>1, <1>3, <1>4, <1>5, <1>8, <1>9, RunFacts
<1> QED
  BY <1>1, <1>10 DEF Abstract!Fetch

\* Every step is a step of MsgQueue or none.
LEMMA StepMsgQueue ==
    ASSUME OneReader, QueueInv, UnfetchedIs, UnfetchedIs', [Next]_vars
    PROVE  [Abstract!Next]_(Abstract!vars)
<1>1. ASSUME UNCHANGED <<at, next>> PROVE UNCHANGED Abstract!vars
  BY <1>1, KeepUnfetched DEF QueueInv, Abstract!vars
<1>2. CASE UNCHANGED vars
  BY <1>1, <1>2 DEF vars
<1>3. ASSUME NEW w \in Writers, WriterStep(w) \/ eina_thread_queue_send(w)
      PROVE  [Abstract!Next]_(Abstract!vars)
  <2>1. ASSUME NEW s \in Sizes, MsgAlloc(w, s) PROVE Abstract!Next
    <3>1. Abstract!Send(next)
      BY <2>1, AllocSends
    <3>2. next \in Msg
      BY <2>1, StepAlloc
    <3> QED
      BY <3>1, <3>2 DEF Abstract!Next
  <2>2. CASE LockNonZero(w)
    BY <1>1, <2>2 DEF LockNonZero
  <2>3. CASE CountPending(w)
    BY <1>1, <2>3 DEF CountPending
  <2>4. CASE eina_thread_queue_send_done(w)
    BY <1>1, <2>4 DEF eina_thread_queue_send_done
  <2>5. CASE UnlockNonZero(w)
    BY <1>1, <2>5 DEF UnlockNonZero
  <2>6. CASE Wake(w)
    BY <1>1, <2>6 DEF Wake
  <2>7. CASE eina_thread_queue_send(w)
    BY <1>1, <2>7 DEF eina_thread_queue_send
  <2> QED
    BY <1>3, <2>1, <2>2, <2>3, <2>4, <2>5, <2>6, <2>7 DEF WriterStep
<1>4. ASSUME NEW r \in Readers, ReaderStep(r) \/ eina_thread_queue_poll(r)
      PROVE  [Abstract!Next]_(Abstract!vars)
  <2>1. CASE eina_thread_queue_wait(r) \/ eina_thread_queue_poll(r)
    BY <1>1, <2>1 DEF eina_thread_queue_wait, eina_thread_queue_poll
  <2>2. CASE LockRead(r)
    BY <1>1, <2>2 DEF LockRead
  <2>3. CASE FetchBlock(r)
    BY <1>1, <2>3 DEF FetchBlock
  <2>4. CASE FetchNothing(r)
    BY <1>1, <2>4 DEF FetchNothing
  <2>5. CASE FetchLocked(r)
    BY <1>1, <2>5 DEF FetchLocked
  <2>6. CASE TakeMessage(r)
    BY <2>6, TakeFetches DEF Abstract!Next
  <2>7. CASE RefBlock(r)
    BY <1>1, <2>7 DEF RefBlock
  <2>8. CASE PollSemaphore(r)
    BY <1>1, <2>8 DEF PollSemaphore
  <2>9. CASE UncountPending(r)
    BY <1>1, <2>9 DEF UncountPending
  <2>10. CASE eina_thread_queue_wait_done(r)
    BY <1>1, <2>10 DEF eina_thread_queue_wait_done
  <2>11. CASE FreeBlock(r)
    BY <1>1, <2>11 DEF FreeBlock
  <2> QED
    BY <1>4, <2>1, <2>2, <2>3, <2>4, <2>5, <2>6, <2>7, <2>8, <2>9, <2>10, <2>11 DEF ReaderStep
<1> QED
  BY <1>2, <1>3, <1>4 DEF Next

\* The queue starts empty.
LEMMA InitMsgQueue ==
    ASSUME Init
    PROVE  Abstract!Init
<1>1. next = 1
  BY DEF Init
<1>2. {m \in 1..(next - 1) : Unfetched(m)} = {}
  BY <1>1
<1>3. UnfetchedSeq = InOrder({})
  BY <1>2, Zenon DEF UnfetchedSeq
<1>4. InOrder({}) = <<>>
  BY FS_EmptySet DEF InOrder
<1> QED
  BY <1>1, <1>3, <1>4 DEF Abstract!Init

\* With one reader the block queue, with its locks, its pool and its semaphore,
\* is a queue: every message is fetched once, in the order in which
\* eina_thread_queue_send gave the messages their places.
THEOREM QueueRefinement ==
    OneReader => (Spec => ImplementsMsgQueue)
<1> SUFFICES ASSUME OneReader PROVE Spec => ImplementsMsgQueue
  OBVIOUS
<1>1. QueueInv => UnfetchedIs
  BY UnfetchedRun
<1>2. QueueInv /\ UnfetchedIs /\ UnfetchedIs' /\ [Next]_vars => [Abstract!Next]_(Abstract!vars)
  BY StepMsgQueue
<1>3. Init => Abstract!Init
  BY InitMsgQueue
<1>4. Spec => []QueueInv
  BY QueueInvariant
<1> QED
  BY <1>1, <1>2, <1>3, <1>4, PTL DEF Spec, ImplementsMsgQueue, Abstract!Spec

=============================================================================
