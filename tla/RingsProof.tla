----------------------------- MODULE RingsProof -----------------------------
(***************************************************************************)
(* block_queue for every capacity and every set of threads and items: the  *)
(* cursors agree with the counter, every live slot holds a pushed item, no *)
(* wake-up is lost, and the ring buffer implements the bounded FIFO.  The  *)
(* first two are inductive only together with TypeOK: push's slot is free  *)
(* because the cursors agree.                                              *)
(* The programs over io_uring, whatever the kernel completes in part, out  *)
(* of order or not at all: the copy, for every block size, depth of the    *)
(* ring and size of the file, the echo server, for any peers and           *)
(* descriptors, and the cat, for any files and wherever the cursors wrap.  *)
(***************************************************************************)
EXTENDS BlockQueue, IoUringCp, IoUringTcp, IoUringCat, FiniteSetTheorems,
        SequenceTheorems, WellFoundedInduction, NaturalsInduction, TLAPS

(* block_queue. *)
(* One subtraction is the modulo, for arguments below twice the capacity. *)
LEMMA ModOnce ==
  ASSUME NEW a \in 0 .. 2 * MaxSize - 1
  PROVE  a % MaxSize = IF a < MaxSize THEN a ELSE a - MaxSize
BY MaxSizeAssumption

(* The index arithmetic of push and pop: NextSlot wraps once. *)
LEMMA NextSlotWraps ==
  ASSUME NEW i \in -1 .. MaxSize - 1
  PROVE  /\ NextSlot(i) = IF i = MaxSize - 1 THEN 0 ELSE i + 1
         /\ NextSlot(i) \in Slots
<1>1. i + 1 \in 0 .. 2 * MaxSize - 1
  BY MaxSizeAssumption
<1>2. QED
  BY <1>1, ModOnce, MaxSizeAssumption DEF NextSlot, Slots

(* The slot push fills is the one after the newest item's, and it is free. *)
LEMMA SlotFacts ==
  ASSUME TypeOK, CursorsAgree
  PROVE  /\ \A i \in 1 .. m_size : SlotOf(i) \in Slots
         /\ m_size < MaxSize => /\ NextSlot(m_back) = SlotOf(m_size + 1)
                               /\ \A i \in 1 .. m_size : SlotOf(i) # NextSlot(m_back)
         /\ NextSlot(m_front) = SlotOf(1)
<1> USE MaxSizeAssumption DEF TypeOK, CursorsAgree
<1>1. \A i \in 1 .. MaxSize : m_front + i \in 0 .. 2 * MaxSize - 1
  OBVIOUS
<1>2. \A i \in 1 .. MaxSize : SlotOf(i) = IF m_front + i < MaxSize THEN m_front + i
                                         ELSE m_front + i - MaxSize
  BY <1>1, ModOnce DEF SlotOf
<1>3. NextSlot(m_front) = SlotOf(1)
  BY DEF NextSlot, SlotOf
<1>4. \A i \in 1 .. m_size : SlotOf(i) \in Slots
  BY <1>2 DEF Slots
<1>5. NextSlot(m_back) = IF m_back = MaxSize - 1 THEN 0 ELSE m_back + 1
  BY NextSlotWraps
<1>6. ASSUME m_size < MaxSize PROVE NextSlot(m_back) = SlotOf(m_size + 1)
  BY <1>2, <1>5, <1>6
<1>7. ASSUME m_size < MaxSize, NEW i \in 1 .. m_size PROVE SlotOf(i) # SlotOf(m_size + 1)
  BY <1>2, <1>7
<1>8. QED
  BY <1>3, <1>4, <1>6, <1>7

(* The inductive invariant. *)
IInv == TypeOK /\ CursorsAgree /\ LiveSlotsHoldItems

LEMMA PushInv ==
  ASSUME IInv, NEW t \in Threads, NEW x \in Items, Push(t, x)
  PROVE  IInv'
<1> USE MaxSizeAssumption DEF IInv, TypeOK, CursorsAgree, ring
<1>1. CASE Full
  BY <1>1 DEF Push, Broadcast, LiveSlotsHoldItems, SlotOf, Slots
<1>2. CASE ~Full
  <2>1. /\ m_back' = NextSlot(m_back) /\ m_size' = m_size + 1 /\ m_front' = m_front
        /\ m_array' = [m_array EXCEPT ![NextSlot(m_back)] = x]
        /\ waiters' = {} /\ UNCHANGED <<pc, item, value>> /\ m_size < MaxSize
    BY <1>2 DEF Push, Full, Enqueue, Broadcast
  <2>2. NextSlot(m_back) = IF m_back = MaxSize - 1 THEN 0 ELSE m_back + 1
    BY NextSlotWraps
  <2>3. TypeOK'
    BY <2>1, <2>2 DEF Slots
  <2>4. CursorsAgree'
    BY <2>1, <2>2
  <2>5. LiveSlotsHoldItems'
    <3> SUFFICES ASSUME NEW i \in 1 .. m_size + 1
                 PROVE  m_array'[(m_front + i) % MaxSize] \in Items
      BY <2>1 DEF LiveSlotsHoldItems, SlotOf
    <3>1. CASE i = m_size + 1
      BY <2>1, <2>2, <3>1, SlotFacts DEF SlotOf, Slots
    <3>2. CASE i \in 1 .. m_size
      BY <2>1, <3>2, SlotFacts DEF SlotOf, Slots, LiveSlotsHoldItems
    <3>3. QED BY <3>1, <3>2
  <2>6. QED BY <2>3, <2>4, <2>5
<1>3. QED BY <1>1, <1>2

LEMMA DequeueInv ==
  ASSUME IInv, NEW t \in Threads, Dequeue(t)
  PROVE  IInv'
<1> USE MaxSizeAssumption DEF IInv, TypeOK, CursorsAgree
<1>1. NextSlot(m_front) = IF m_front = MaxSize - 1 THEN 0 ELSE m_front + 1
  BY NextSlotWraps
<1>2. m_array[NextSlot(m_front)] \in Items
  BY SlotFacts DEF Dequeue, LiveSlotsHoldItems
<1>3. TypeOK'
  BY <1>1, <1>2 DEF Dequeue, Slots
<1>4. CursorsAgree'
  BY <1>1 DEF Dequeue
<1>5. LiveSlotsHoldItems'
  <2> SUFFICES ASSUME NEW i \in 1 .. m_size - 1
               PROVE  m_array[(NextSlot(m_front) + i) % MaxSize] \in Items
    BY DEF Dequeue, LiveSlotsHoldItems, SlotOf
  <2>1. (NextSlot(m_front) + i) % MaxSize = SlotOf(i + 1)
    <3>1. /\ NextSlot(m_front) + i \in 0 .. 2 * MaxSize - 1
          /\ m_front + (i + 1) \in 0 .. 2 * MaxSize - 1
      BY <1>1
    <3>2. QED BY <1>1, <3>1, ModOnce DEF SlotOf
  <2>2. QED BY <2>1 DEF LiveSlotsHoldItems
<1>6. QED BY <1>3, <1>4, <1>5

(* Every step preserves the inductive invariant. *)
LEMMA Inductive == IInv /\ [Next]_vars => IInv'
<1> SUFFICES ASSUME IInv, [Next]_vars PROVE IInv'
  OBVIOUS
<1> USE MaxSizeAssumption
<1> DEFINE Vals == Items \cup {NoItem}
<1>1. ASSUME NEW t \in Threads, NEW w \in {"pop", "timed"}, Sleep(t, w) PROVE IInv'
  BY <1>1 DEF Sleep, IInv, TypeOK, CursorsAgree, LiveSlotsHoldItems, SlotOf, Slots, ring
<1>2. ASSUME NEW t \in Threads, Pop(t) PROVE IInv'
  BY <1>1, <1>2, DequeueInv DEF Pop
<1>3. ASSUME NEW t \in Threads, TimedPop(t) PROVE IInv'
  BY <1>1, <1>3, DequeueInv DEF TimedPop
<1>4. ASSUME NEW t \in Threads, TimedPopResume(t) PROVE IInv'
  <2>1. CASE Dequeue(t)
    BY <2>1, DequeueInv
  <2>2. CASE ~Dequeue(t)
    BY <1>4, <2>2 DEF TimedPopResume, IInv, TypeOK, CursorsAgree, LiveSlotsHoldItems,
                      SlotOf, Slots, ring
  <2>3. QED BY <2>1, <2>2
<1>5. ASSUME NEW t \in Threads, Timeout(t) \/ TimedOutReturn(t) \/ SpuriousWakeup(t)
      PROVE  IInv'
  BY <1>5 DEF Timeout, TimedOutReturn, SpuriousWakeup, IInv, TypeOK, CursorsAgree,
              LiveSlotsHoldItems, SlotOf, Slots, ring
<1>6. ASSUME NEW t \in Threads, Clear(t) PROVE IInv'
  BY <1>6 DEF Clear, IInv, TypeOK, CursorsAgree, LiveSlotsHoldItems, SlotOf, Slots
<1>7. ASSUME NEW t \in Threads, GetFront(t) \/ GetBack(t) PROVE IInv'
  <2>1. m_size # 0 => m_back \in Slots
    BY DEF IInv, TypeOK, CursorsAgree, Slots
  <2>2. value' \in [Threads -> Vals]
    BY <1>7, <2>1 DEF GetFront, GetBack, IInv, TypeOK, Slots
  <2>3. QED
    BY <1>7, <2>2 DEF GetFront, GetBack, IInv, TypeOK, CursorsAgree, LiveSlotsHoldItems,
                      SlotOf, Slots, ring
<1>8. CASE UNCHANGED vars
  BY <1>8 DEF vars, IInv, TypeOK, CursorsAgree, LiveSlotsHoldItems, SlotOf, Slots
<1>9. QED
  BY <1>2, <1>3, <1>4, <1>5, <1>6, <1>7, <1>8, PushInv DEF Next

LEMMA Invariance == Spec => []IInv
<1>1. Init => IInv
  BY MaxSizeAssumption DEF Init, IInv, TypeOK, CursorsAgree, LiveSlotsHoldItems, Slots
<1>2. QED BY <1>1, Inductive, PTL DEF Spec

(* Type correctness of block_queue: in particular m_size stays within the  *)
(* capacity and both cursors within the array.                             *)
THEOREM TypeCorrect == Spec => []TypeOK
BY Invariance, PTL DEF IInv

(* push's and pop's cursor arithmetic never drifts from m_size. *)
THEOREM CursorsCorrect == Spec => []CursorsAgree
BY Invariance, PTL DEF IInv

(* pop only ever reads slots that push filled. *)
THEOREM LiveSlotsCorrect == Spec => []LiveSlotsHoldItems
BY Invariance, PTL DEF IInv

(* No wake-up is lost between push's broadcast and pop's test of m_size. *)
THEOREM NoLostWakeup == Spec => []SleepOnlyWhenEmpty
<1>1. Init => SleepOnlyWhenEmpty
  BY DEF Init, SleepOnlyWhenEmpty
<1>2. TypeOK /\ SleepOnlyWhenEmpty /\ [Next]_vars => SleepOnlyWhenEmpty'
  BY MaxSizeAssumption
     DEF SleepOnlyWhenEmpty, TypeOK, Next, vars, ring, Push, Broadcast, Pop, TimedPop,
         TimedPopResume, Dequeue, Sleep, Timeout, TimedOutReturn, SpuriousWakeup,
         Clear, GetFront, GetBack
<1>3. QED BY <1>1, <1>2, TypeCorrect, PTL DEF Spec

-----------------------------------------------------------------------------
(* The step-by-step part of the refinement. *)
LEMMA ContentsIsSeq ==
  ASSUME IInv
  PROVE  Contents \in Seq(Items) /\ Len(Contents) = m_size
BY DEF IInv, TypeOK, LiveSlotsHoldItems, Contents

LEMMA PushRefines ==
  ASSUME IInv, NEW t \in Threads, NEW x \in Items, Push(t, x)
  PROVE  [Fifo!FifoNext]_(Fifo!fifoVars)
<1> USE MaxSizeAssumption DEF IInv, TypeOK
<1>1. CASE Full
  BY <1>1 DEF Push, ring, Fifo!fifoVars, Contents, SlotOf
<1>2. CASE ~Full
  <2>1. /\ m_size' = m_size + 1 /\ m_front' = m_front /\ m_size < MaxSize
        /\ m_array' = [m_array EXCEPT ![NextSlot(m_back)] = x] /\ item' = item
    BY <1>2 DEF Push, Full, Enqueue
  <2>2. Contents' = [i \in 1 .. m_size + 1 |-> m_array'[SlotOf(i)]]
    BY <2>1 DEF Contents, SlotOf
  <2>3. m_array'[SlotOf(m_size + 1)] = x
    BY <2>1, SlotFacts, NextSlotWraps
  <2>4. \A i \in 1 .. m_size : m_array'[SlotOf(i)] = m_array[SlotOf(i)]
    BY <2>1, SlotFacts
  <2>5. Contents' = Append(Contents, x)
    <3>1. /\ Contents \in Seq(Items) /\ Len(Contents) = m_size
          /\ Contents' \in Seq(Items) /\ Len(Contents') = m_size + 1
      BY <2>2, <2>3, <2>4, ContentsIsSeq DEF LiveSlotsHoldItems
    <3>2. \A i \in 1 .. m_size : Contents[i] = m_array[SlotOf(i)]
      BY DEF Contents
    <3> DEFINE r == Contents'
    <3>3. /\ \A i \in 1 .. m_size : r[i] = Contents[i]
          /\ r[m_size + 1] = x
      BY <2>2, <2>3, <2>4, <3>2
    <3>4. /\ Append(Contents, x) \in Seq(Items)
          /\ Len(Append(Contents, x)) = m_size + 1
          /\ \A i \in 1 .. m_size : Append(Contents, x)[i] = Contents[i]
          /\ Append(Contents, x)[m_size + 1] = x
      BY <3>1, AppendProperties
    <3> HIDE DEF r
    <3>5. r \in Seq(Items) /\ Len(r) = m_size + 1
      BY <3>1 DEF r
    <3>6. \A i \in 1 .. Len(r) : r[i] = Append(Contents, x)[i]
      BY <3>3, <3>4, <3>5
    <3>7. r = Append(Contents, x)
      BY <3>4, <3>5, <3>6, SeqEqual
    <3>8. QED BY <3>7 DEF r
  <2>6. Fifo!Put(x)
    BY <2>1, <2>5, ContentsIsSeq DEF Fifo!Put
  <2>7. QED BY <2>6 DEF Fifo!FifoNext
<1>3. QED BY <1>1, <1>2

LEMMA DequeueRefines ==
  ASSUME IInv, NEW t \in Threads, Dequeue(t)
  PROVE  [Fifo!FifoNext]_(Fifo!fifoVars)
<1> USE MaxSizeAssumption DEF IInv, TypeOK, CursorsAgree
<1>1. /\ m_size > 0 /\ m_size' = m_size - 1 /\ m_array' = m_array
      /\ m_front' = NextSlot(m_front)
      /\ item' = [item EXCEPT ![t] = m_array[NextSlot(m_front)]]
  BY DEF Dequeue
<1>2. NextSlot(m_front) = IF m_front = MaxSize - 1 THEN 0 ELSE m_front + 1
  BY NextSlotWraps
<1>3. Contents' = [i \in 1 .. m_size - 1 |-> m_array[(NextSlot(m_front) + i) % MaxSize]]
  BY <1>1 DEF Contents, SlotOf
<1>4. \A i \in 1 .. m_size - 1 : (NextSlot(m_front) + i) % MaxSize = SlotOf(i + 1)
  <2> TAKE i \in 1 .. m_size - 1
  <2>1. /\ NextSlot(m_front) + i \in 0 .. 2 * MaxSize - 1
        /\ m_front + (i + 1) \in 0 .. 2 * MaxSize - 1
    BY <1>1, <1>2
  <2>2. QED BY <1>2, <2>1, ModOnce DEF SlotOf
<1>5. Contents' = [i \in 1 .. m_size - 1 |-> Contents[i + 1]]
  BY <1>1, <1>3, <1>4 DEF Contents
<1>6. Contents' = Tail(Contents) /\ Contents # <<>>
  <2>1. /\ Contents \in Seq(Items) /\ Len(Contents) = m_size /\ Contents # <<>>
    BY <1>1, ContentsIsSeq
  <2>2. /\ Tail(Contents) \in Seq(Items) /\ Len(Tail(Contents)) = m_size - 1
        /\ \A i \in 1 .. m_size - 1 : Tail(Contents)[i] = Contents[i + 1]
    BY <1>1, <2>1, HeadTailProperties
  <2>3. Contents' \in Seq(Items) /\ Len(Contents') = m_size - 1
    BY <1>1, <1>5, <2>1
  <2>4. QED BY <1>1, <1>5, <2>1, <2>2, <2>3, SeqEqual
<1>7. Head(Contents) = m_array[NextSlot(m_front)]
  BY <1>1, SlotFacts, ContentsIsSeq DEF Contents
<1>8. Fifo!Take(t)
  BY <1>1, <1>6, <1>7 DEF Fifo!Take
<1>9. QED BY <1>8 DEF Fifo!FifoNext

(* A step that leaves ring, cursors and out-parameter of pop alone. *)
LEMMA StutterRefines ==
  ASSUME UNCHANGED <<ring, item>>
  PROVE  [Fifo!FifoNext]_(Fifo!fifoVars)
BY DEF ring, Fifo!fifoVars, Contents, SlotOf

(* block_queue implements the bounded FIFO: items leave in push order and  *)
(* each goes to one thread, however pushes, pops, time-outs, spurious      *)
(* wake-ups and clears interleave.                                         *)
THEOREM Refinement == Spec => ImplementsFifo
<1>1. Init => Fifo!FifoInit
  BY DEF Init, Fifo!FifoInit, Contents
<1>2. IInv /\ [Next]_vars => [Fifo!FifoNext]_(Fifo!fifoVars)
  <2> SUFFICES ASSUME IInv, [Next]_vars PROVE [Fifo!FifoNext]_(Fifo!fifoVars)
    OBVIOUS
  <2>1. ASSUME NEW t \in Threads, Pop(t) \/ TimedPop(t) \/ TimedPopResume(t)
        PROVE  [Fifo!FifoNext]_(Fifo!fifoVars)
    BY <2>1, DequeueRefines, StutterRefines DEF Pop, TimedPop, TimedPopResume, Sleep
  <2>2. ASSUME NEW t \in Threads, Clear(t)
        PROVE  [Fifo!FifoNext]_(Fifo!fifoVars)
    <3>1. Contents' = <<>> /\ item' = item
      BY <2>2 DEF Clear, Contents
    <3>2. QED BY <3>1 DEF Fifo!FifoNext, Fifo!Flush
  <2>3. ASSUME NEW t \in Threads,
               \/ Timeout(t) \/ TimedOutReturn(t) \/ SpuriousWakeup(t)
               \/ GetFront(t) \/ GetBack(t)
        PROVE  [Fifo!FifoNext]_(Fifo!fifoVars)
    BY <2>3, StutterRefines DEF Timeout, TimedOutReturn, SpuriousWakeup, GetFront, GetBack
  <2>4. CASE UNCHANGED vars
    BY <2>4, StutterRefines DEF vars, ring
  <2>5. QED
    BY <2>1, <2>2, <2>3, <2>4, PushRefines DEF Next
<1>3. QED
  BY <1>1, <1>2, Invariance, PTL DEF Spec, ImplementsFifo, Fifo!FifoSpec

-----------------------------------------------------------------------------
LEMMA FinitePrefix == ASSUME NEW n \in Int PROVE IsFiniteSet(0 .. n) /\ IsFiniteSet(1 .. n)
BY FS_Interval

(* The bytes of a block, and of the block those that are where the request *)
(* has to bring them: in the buffer, or in the file.                       *)
BlockLen(b) == Min({BS, fileSize - b})
Bytes(b) == 0 .. BlockLen(b) - 1
Placed(b, len, d, out, n) == \A k \in 0 .. len - 1 : k < n =>
    IF d.read THEN d.buffer[k] = b + k ELSE out[b + k] = b + k

CpType ==
    /\ fileSize \in Nat /\ insize \in Nat /\ write_left \in Nat /\ offset \in Nat
    /\ reads \in Nat /\ writes \in Nat /\ cut \in BOOLEAN /\ cpAt \in {"fill", "comp", "drain", "returned"}
    /\ io \in [Blocks -> IoData \cup {Hole}] /\ flight \in SUBSET Blocks
    /\ cq \in Seq([block : Blocks, res : Int])
    /\ outfile \in [0 .. fileSize - 1 -> Nat \cup {Hole}]

(* An io_data describes what is left of its block: base bytes are moved,   *)
(* len are to come, and a block that is being written was read in full.    *)
Describes(d, b, len, out) ==
    /\ d.offset = b + d.base /\ d.first_len = len /\ d.base + d.len = len
    /\ d.buffer \in [0 .. len - 1 -> Nat \cup {Hole}]
    /\ Placed(b, len, d, out, d.base)
    /\ ~d.read => \A k \in 0 .. len - 1 : d.buffer[k] = b + k
Described == \A b \in Blocks : io[b] # Hole => Describes(io[b], b, BlockLen(b), outfile)

(* A completion belongs to a request that exists and that the kernel no    *)
(* longer has; it is the only one of it, and the bytes it reports moved.   *)
CqBlocks == {cq[i].block : i \in DOMAIN cq}
Completed ==
    /\ \A i \in DOMAIN cq : LET b == cq[i].block IN
           /\ io[b] # Hole /\ b \notin flight /\ cq[i].res <= io[b].len
           /\ Placed(b, BlockLen(b), io[b], outfile, io[b].base + cq[i].res)
    /\ \A i, j \in DOMAIN cq : cq[i].block = cq[j].block => i = j
    /\ \A b \in flight : io[b] # Hole

(* The blocks before offset were started; one that was finished is in the  *)
(* file; offset stands at the beginning of a block or at the end.          *)
Started ==
    /\ offset + insize = fileSize /\ (offset # fileSize => offset % BS = 0)
    /\ \A b \in Blocks : b >= offset => io[b] = Hole
    /\ ~cut => \A b \in Blocks : b < offset /\ io[b] = Hole => \A k \in Bytes(b) : outfile[b + k] = b + k

(* What write_left counts: the bytes whose read is not completed. *)
Unread == {p \in 0 .. fileSize - 1 :
    p >= offset \/ \E b \in Live(TRUE) : b <= p /\ p < b + BlockLen(b)}
Counted ==
    cpAt \in {"fill", "comp"} =>
        /\ ~cut /\ write_left = Cardinality(Unread)
        /\ reads = Cardinality(Live(TRUE)) /\ writes = Cardinality(Live(FALSE)) /\ reads + writes <= QD
        /\ Live(TRUE) \cup Live(FALSE) = flight \cup CqBlocks

Ending ==
    /\ \A p \in 0 .. fileSize - 1 : outfile[p] \in {Hole, p}
    /\ cpAt = "drain" /\ ~cut => insize = 0 /\ Live(TRUE) = {} /\ writes = Cardinality(Live(FALSE))
    /\ cpAt = "returned" /\ cpRet = 0 /\ ~cut => \A p \in 0 .. fileSize - 1 : outfile[p] = p

CpInv == CpType /\ Described /\ Completed /\ Started /\ Counted /\ Ending

-----------------------------------------------------------------------------
(* Arithmetic of blocks. *)
LEMMA MinTwo == ASSUME NEW a \in Int, NEW c \in Int PROVE Min({a, c}) = IF a <= c THEN a ELSE c
  <1> DEFINE m == IF a <= c THEN a ELSE c
  <1>1. m \in {a, c} /\ \A y \in {a, c} : m <= y
    OBVIOUS
  <1>2. Min({a, c}) \in {a, c} /\ \A y \in {a, c} : Min({a, c}) <= y
    BY <1>1 DEF Min
  <1> QED
    BY <1>1, <1>2

LEMMA DivMod ==
  ASSUME NEW x \in Nat
  PROVE  /\ x \div BS \in Nat /\ x % BS \in 0 .. BS - 1 /\ x = BS * (x \div BS) + (x % BS)
         /\ BS * (x \div BS) \in Nat
  BY CpAssumption

LEMMA Multiple == ASSUME NEW i \in Nat PROVE BS * i \in Nat /\ (BS * i) % BS = 0
  BY CpAssumption

(* Multiples of the block size are a block size apart. *)
LEMMA Apart ==
  ASSUME NEW i \in Nat, NEW j \in Nat, BS * i < BS * j PROVE i < j /\ BS * i + BS <= BS * j
  <1>1. BS \in Nat /\ BS > 0
    BY CpAssumption
  <1>2. i < j
    <2> SUFFICES ASSUME j <= i PROVE FALSE
      OBVIOUS
    <2>1. BS * j <= BS * i
      BY <1>1
    <2> QED
      BY <1>1, <2>1
  <1>3. BS * (i + 1) <= BS * j
    BY <1>1, <1>2
  <1>4. BS * (i + 1) = BS * i + BS
    BY <1>1
  <1> QED
    BY <1>2, <1>3, <1>4

LEMMA BlocksApart ==
  ASSUME NEW b \in Nat, NEW c \in Nat, b % BS = 0, c % BS = 0, b < c PROVE b + BS <= c
  <1>1. b = BS * (b \div BS) /\ c = BS * (c \div BS) /\ b \div BS \in Nat /\ c \div BS \in Nat
    BY DivMod
  <1> QED
    BY <1>1, Apart

(* A block has bytes, all of them in the file. *)
LEMMA BlockFacts ==
  ASSUME fileSize \in Nat
  PROVE  /\ IsFiniteSet(Blocks)
         /\ \A b \in Blocks : /\ b \in Nat /\ b < fileSize /\ b % BS = 0
                              /\ BlockLen(b) \in 1 .. BS /\ b + BlockLen(b) <= fileSize
                              /\ BlockLen(b) = BS \/ b + BlockLen(b) = fileSize
  <1>1. BS \in Nat \ {0}
    BY CpAssumption
  <1>2. IsFiniteSet(Blocks)
    <2>1. IsFiniteSet(0 .. fileSize - 1) /\ Blocks \in SUBSET (0 .. fileSize - 1)
      BY FS_Interval DEF Blocks
    <2> QED
      BY <2>1, FS_Subset
  <1>3. \A b \in Blocks : b \in Nat /\ b < fileSize /\ b % BS = 0
    BY DEF Blocks
  <1>4. ASSUME NEW b \in Blocks
        PROVE  /\ BlockLen(b) \in 1 .. BS /\ b + BlockLen(b) <= fileSize
               /\ BlockLen(b) = BS \/ b + BlockLen(b) = fileSize
    BY <1>1, <1>3, MinTwo DEF BlockLen
  <1> QED
    BY <1>2, <1>3, <1>4

(* The block of a byte. *)
LEMMA BlockOf ==
  ASSUME fileSize \in Nat, NEW p \in 0 .. fileSize - 1
  PROVE  \E b \in Blocks : b <= p /\ p < b + BlockLen(b) /\ \A c \in Nat : c <= p /\ c % BS = 0 => c <= b
  <1> DEFINE q == p \div BS
             b == BS * q
  <1>1. BS \in Nat \ {0} /\ p \in Nat /\ p < fileSize
    BY CpAssumption
  <1>2. q \in Nat /\ b \in Nat /\ b <= p /\ p < b + BS /\ b % BS = 0
    BY <1>1, DivMod, Multiple
  <1> HIDE DEF q, b
  <1>3. b \in Blocks
    BY <1>1, <1>2 DEF Blocks
  <1>4. p < b + BlockLen(b)
    BY <1>1, <1>2, <1>3, BlockFacts
  <1>5. ASSUME NEW c \in Nat, c <= p, c % BS = 0 PROVE c <= b
    <2> SUFFICES ASSUME b < c PROVE FALSE
      BY <1>2
    <2>1. b + BS <= c
      BY <1>2, <1>5, BlocksApart
    <2> QED
      BY <1>1, <1>2, <1>5, <2>1
  <1> QED
    BY <1>2, <1>3, <1>4, <1>5

(* The blocks of n reads from offset on, which is at a block's beginning:  *)
(* there are n of them.                                                    *)
LEMMA StartsCount ==
  ASSUME fileSize \in Nat, NEW o \in Nat, NEW s \in Nat, NEW n \in Nat, NEW taken \in Nat,
         o + s = fileSize, s > 0, o % BS = 0, n <= (s + BS - 1) \div BS, taken = Min({n * BS, s})
  PROVE  /\ Cardinality({b \in Blocks : b \in o .. o + taken - 1}) = n
         /\ o + taken # fileSize => (o + taken) % BS = 0
  <1> DEFINE m == o \div BS
             q == (s + BS - 1) \div BS
             S == {b \in Blocks : b \in o .. o + taken - 1}
             f == [i \in 1 .. n |-> o + BS * (i - 1)]
  <1>1. BS \in Nat /\ BS > 0 /\ s + BS - 1 \in Nat
    BY CpAssumption
  <1>2. m \in Nat /\ o = BS * m
    BY DivMod
  <1>3. q \in Nat /\ n <= q /\ BS * q \in Nat /\ BS * q <= s + BS - 1
    BY <1>1, DivMod
  <1>4. n * BS = BS * n /\ BS * n \in Nat /\ taken = (IF BS * n <= s THEN BS * n ELSE s)
    BY <1>1, MinTwo
  <1> HIDE DEF m, q
  <1>5. o + taken # fileSize => (o + taken) % BS = 0
    <2> SUFFICES ASSUME o + taken # fileSize PROVE (o + taken) % BS = 0
      OBVIOUS
    <2>1. taken = BS * n
      BY <1>4
    <2>2. BS * m + BS * n = BS * (m + n)
      BY <1>1, <1>2
    <2> QED
      BY <1>2, <2>1, <2>2, Multiple
  <1>6. \A i \in 1 .. n : BS * (i - 1) \in Nat /\ BS * (i - 1) < taken /\ BS * (i - 1) = BS * i - BS
    <2> SUFFICES ASSUME NEW i \in 1 .. n PROVE BS * (i - 1) \in Nat /\ BS * (i - 1) < taken /\ BS * (i - 1) = BS * i - BS
      OBVIOUS
    <2>1. i - 1 \in Nat /\ i \in Nat /\ i <= n
      OBVIOUS
    <2>2. BS * (i - 1) = BS * i - BS /\ BS * (i - 1) \in Nat
      BY <1>1, <2>1
    <2>3. BS * i <= BS * n /\ BS * i <= BS * q
      BY <1>1, <1>3, <2>1
    <2> QED
      BY <1>1, <1>3, <1>4, <2>1, <2>2, <2>3
  <1>7. \A i \in 1 .. n : f[i] \in S
    <2> SUFFICES ASSUME NEW i \in 1 .. n PROVE o + BS * (i - 1) \in S
      OBVIOUS
    <2>1. i - 1 \in Nat /\ o + BS * (i - 1) = BS * (m + (i - 1)) /\ m + (i - 1) \in Nat
      BY <1>1, <1>2
    <2>2. (o + BS * (i - 1)) % BS = 0
      BY <2>1, Multiple
    <2>3. taken <= s
      BY <1>1, <1>4
    <2> QED
      BY <1>6, <2>2, <2>3 DEF Blocks
  <1>8. \A b \in S : \E i \in 1 .. n : f[i] = b
    <2> SUFFICES ASSUME NEW b \in S PROVE \E i \in 1 .. n : o + BS * (i - 1) = b
      OBVIOUS
    <2> DEFINE j == b \div BS
    <2>1. b \in Nat /\ b % BS = 0 /\ o <= b /\ b < o + taken
      BY DEF Blocks
    <2>2. j \in Nat /\ b = BS * j
      BY <2>1, DivMod
    <2> HIDE DEF j
    <2>3. m <= j
      <3> SUFFICES ASSUME j < m PROVE FALSE
        BY <1>2, <2>2
      <3>1. BS * (j + 1) <= BS * m /\ BS * (j + 1) = BS * j + BS /\ BS * j \in Nat
        BY <1>1, <1>2, <2>2
      <3> QED
        BY <1>1, <1>2, <2>1, <2>2, <3>1
    <2>4. BS * j < BS * (m + n)
      <3>1. BS * (m + n) = BS * m + BS * n /\ BS * m \in Nat
        BY <1>1, <1>2
      <3> QED
        BY <1>2, <1>4, <2>1, <2>2, <3>1
    <2>5. j < m + n
      BY <1>2, <2>2, <2>4, Apart
    <2>6. (j - m) + 1 \in 1 .. n /\ ((j - m) + 1) - 1 = j - m
      BY <1>2, <2>2, <2>3, <2>5
    <2>7. BS * (j - m) = BS * j - BS * m /\ BS * m \in Nat /\ BS * j \in Nat
      BY <1>1, <1>2, <2>2
    <2>8. o + BS * (((j - m) + 1) - 1) = b
      BY <1>2, <2>2, <2>6, <2>7
    <2> QED
      BY <2>6, <2>8
  <1>9. \A i, j \in 1 .. n : f[i] = f[j] => i = j
    <2> SUFFICES ASSUME NEW i \in 1 .. n, NEW j \in 1 .. n, o + BS * (i - 1) = o + BS * (j - 1), i < j PROVE FALSE
      <3>1. \A i, j \in 1 .. n : i < j => f[i] # f[j]
        OBVIOUS
      <3> QED
        BY <3>1
    <2>1. \A x, y \in Nat : o + x = o + y => x = y
      OBVIOUS
    <2>2. BS * (i - 1) = BS * (j - 1)
      BY <1>6, <2>1
    <2>3. BS * (i - 1) + BS <= BS * (j - 1)
      <3>1. BS * i <= BS * (j - 1)
        BY <1>1
      <3> QED
        BY <1>6, <1>1, <3>1
    <2> QED
      BY <1>1, <1>6, <2>2, <2>3
  <1>10. f \in Bijection(1 .. n, S)
    BY <1>7, <1>8, <1>9 DEF Bijection, Injection, Surjection, IsInjective
  <1>11. Cardinality(S) = Cardinality(1 .. n)
    <2> HIDE DEF S, f
    <2>1. IsFiniteSet(1 .. n)
      BY FS_Interval
    <2>2. ExistsBijection(1 .. n, S)
      BY <1>10 DEF ExistsBijection
    <2> QED
      BY <2>1, <2>2, FS_Bijection
  <1>12. Cardinality(1 .. n) = n
    BY FS_Interval
  <1> QED
    BY <1>5, <1>11, <1>12

-----------------------------------------------------------------------------
(* Blocks depend on the size of the file only. *)
LEMMA SameBlocks ==
  ASSUME fileSize' = fileSize
  PROVE  Blocks' = Blocks /\ \A b : BlockLen(b)' = BlockLen(b) /\ Bytes(b)' = Bytes(b)
  BY DEF Blocks, BlockLen, Bytes

LEMMA BufferType ==
  ASSUME fileSize \in Nat, NEW b \in Blocks, NEW f \in [Bytes(b) -> Nat \cup {Hole}] PROVE f \in Buffers
  <1>1. BlockLen(b) \in 1 .. BS
    BY BlockFacts
  <1> QED
    BY <1>1 DEF Buffers, Bytes

LEMMA LiveFacts ==
  ASSUME CpType
  PROVE  /\ Hole \notin IoData
         /\ \A b \in Blocks : io[b] # Hole => /\ io[b] \in IoData /\ io[b].read \in BOOLEAN
                                              /\ io[b].base \in Nat /\ io[b].len \in Nat
         /\ \A b \in Blocks : b \in Live(TRUE) <=> io[b] # Hole /\ io[b].read
         /\ \A b \in Blocks : b \in Live(FALSE) <=> io[b] # Hole /\ ~io[b].read
         /\ \A r : IsFiniteSet(Live(r)) /\ Cardinality(Live(r)) \in Nat /\ Live(r) \subseteq Blocks
  <1>1. Hole \notin IoData
    BY CpAssumption
  <1>2. \A b \in Blocks : io[b] # Hole => /\ io[b] \in IoData /\ io[b].read \in BOOLEAN
                                         /\ io[b].base \in Nat /\ io[b].len \in Nat
    BY DEF CpType, IoData
  <1>3. \A b \in Blocks : b \in Live(TRUE) <=> io[b] # Hole /\ io[b].read
    BY <1>2 DEF Live
  <1>4. \A b \in Blocks : b \in Live(FALSE) <=> io[b] # Hole /\ ~io[b].read
    BY <1>2 DEF Live
  <1>5. ASSUME NEW r PROVE IsFiniteSet(Live(r)) /\ Cardinality(Live(r)) \in Nat /\ Live(r) \subseteq Blocks
    <2>1. Live(r) \in SUBSET Blocks
      BY DEF Live
    <2>2. IsFiniteSet(Blocks)
      BY BlockFacts DEF CpType
    <2>3. IsFiniteSet(Live(r))
      BY <2>1, <2>2, FS_Subset
    <2> QED
      BY <2>1, <2>3, FS_CardinalityType
  <1> QED
    BY <1>1, <1>2, <1>3, <1>4, <1>5

LEMMA CpStart == CpInit => CpInv
  <1> SUFFICES ASSUME CpInit PROVE CpInv
    OBVIOUS
  <1>1. CpType
    <2>1. cq \in Seq([block : Blocks, res : Int]) /\ fileSize \in Nat
      BY CpAssumption DEF CpInit
    <2> QED
      BY <2>1 DEF CpInit, CpType
  <1>2. /\ fileSize \in Nat /\ insize = fileSize /\ offset = 0 /\ cpAt = "fill" /\ ~cut /\ DOMAIN cq = {} /\ flight = {}
        /\ \A b \in Blocks : io[b] = Hole /\ b >= 0
        /\ \A p \in 0 .. fileSize - 1 : outfile[p] = Hole
    BY <1>1, BlockFacts DEF CpInit, CpType
  <1>3. Live(TRUE) = {} /\ Live(FALSE) = {} /\ CqBlocks = {}
    BY <1>2 DEF Live, CqBlocks
  <1>4. Unread = 0 .. fileSize - 1
    <2>1. \A p \in 0 .. fileSize - 1 : p >= offset
      BY <1>2
    <2> QED
      BY <2>1, Zenon DEF Unread
  <1>5. Cardinality(Unread) = fileSize
    BY <1>2, <1>4, FS_Interval
  <1>6. Counted
    <2>1. write_left = fileSize /\ reads = 0 /\ writes = 0 /\ flight = {} /\ 0 + 0 <= QD
      BY CpAssumption DEF CpInit
    <2> QED
      BY <1>2, <1>3, <1>5, <2>1, FS_EmptySet DEF Counted
  <1>7. Started
    <2>1. 0 % BS = 0
      BY CpAssumption
    <2>2. \A b \in Blocks : ~(b < offset)
      BY <1>2, BlockFacts
    <2> QED
      BY <1>2, <2>1, <2>2 DEF Started
  <1> QED
    BY <1>1, <1>2, <1>6, <1>7 DEF CpInv, Described, Completed, Ending

(* Steps that leave the requests and the files alone. *)
LEMMA Untouched ==
  ASSUME UNCHANGED <<fileSize, insize, offset, io, flight, cq, outfile, cut>>
  PROVE  /\ Described => Described'
         /\ Completed => Completed'
         /\ Started => Started'
         /\ Unread' = Unread /\ CqBlocks' = CqBlocks /\ Live(TRUE)' = Live(TRUE) /\ Live(FALSE)' = Live(FALSE)
  <1>1. Blocks' = Blocks /\ \A b : BlockLen(b)' = BlockLen(b) /\ Bytes(b)' = Bytes(b)
    BY SameBlocks
  <1>2. Live(TRUE)' = Live(TRUE) /\ Live(FALSE)' = Live(FALSE) /\ CqBlocks' = CqBlocks
    BY <1>1 DEF Live, CqBlocks
  <1>3. Unread' = Unread
    BY <1>1, <1>2 DEF Unread
  <1>4. Described => Described'
    BY <1>1 DEF Described
  <1>5. Completed => Completed'
    BY <1>1 DEF Completed
  <1>6. Started => Started'
    BY <1>1 DEF Started
  <1> QED
    BY <1>2, <1>3, <1>4, <1>5, <1>6

(* What was moved stays so while no byte that is in place is overwritten. *)
LEMMA StaysPlaced ==
  ASSUME fileSize \in Nat, NEW c \in Blocks, NEW d, NEW out, NEW new,
         \A p \in 0 .. fileSize - 1 : out[p] = p => new[p] = p
  PROVE  /\ \A n : Placed(c, BlockLen(c), d, out, n) => Placed(c, BlockLen(c), d, new, n)
         /\ Describes(d, c, BlockLen(c), out) => Describes(d, c, BlockLen(c), new)
  <1>1. \A k \in 0 .. BlockLen(c) - 1 : c + k \in 0 .. fileSize - 1
    BY BlockFacts
  <1>2. \A n : Placed(c, BlockLen(c), d, out, n) => Placed(c, BlockLen(c), d, new, n)
    BY <1>1 DEF Placed
  <1> QED
    BY <1>2 DEF Describes

-----------------------------------------------------------------------------
(* The kernel moves bytes: to where they belong. *)
LEMMA KernelPlaces ==
  ASSUME CpInv, NEW b \in flight, NEW res \in Int, res <= io[b].len, KernelMoves(b, res)
  PROVE  /\ io' \in [Blocks -> IoData \cup {Hole}] /\ outfile' \in [0 .. fileSize - 1 -> Nat \cup {Hole}]
         /\ io[b] # Hole /\ io'[b] # Hole /\ io'[b].read = io[b].read /\ io'[b].len = io[b].len
         /\ io'[b].base = io[b].base /\ \A c \in Blocks \ {b} : io'[c] = io[c]
         /\ \A p \in 0 .. fileSize - 1 : outfile[p] = p => outfile'[p] = p
         /\ \A p \in 0 .. fileSize - 1 : outfile'[p] \in {Hole, p}
         /\ Describes(io'[b], b, BlockLen(b), outfile')
         /\ Placed(b, BlockLen(b), io'[b], outfile', io[b].base + res)
  <1> DEFINE d == io[b]
             N == fileSize
             L == BlockLen(b)
  <1>1. /\ N \in Nat /\ b \in Blocks /\ d # Hole /\ d \in IoData /\ Describes(d, b, L, outfile)
        /\ io \in [Blocks -> IoData \cup {Hole}] /\ outfile \in [0 .. N - 1 -> Nat \cup {Hole}]
    BY LiveFacts DEF CpInv, CpType, Completed, Described
  <1>2. /\ N \in Nat /\ b \in Nat /\ L \in Nat /\ b + L <= N
    BY <1>1, BlockFacts
  <1>3. /\ d.offset = b + d.base /\ d.first_len = L /\ d.base + d.len = L /\ d.base \in Nat
        /\ d.len \in Nat /\ d.read \in BOOLEAN /\ d.buffer \in [0 .. L - 1 -> Nat \cup {Hole}]
        /\ Placed(b, L, d, outfile, d.base) /\ (~d.read => \A k \in 0 .. L - 1 : d.buffer[k] = b + k)
    BY <1>1 DEF Describes, IoData
  <1> HIDE DEF L
  <1>4. Hole \notin IoData /\ \A k \in 0 .. L - 1 : k \in Nat /\ b + k \in Nat /\ b + k \in 0 .. N - 1
    BY <1>2, CpAssumption
  <1>5. CASE d.read
    <2> DEFINE buf == [k \in 0 .. L - 1 |-> IF k \in d.base .. d.base + res - 1 THEN b + k ELSE d.buffer[k]]
               e == [d EXCEPT !.buffer = buf]
    <2>1. DOMAIN d.buffer = 0 .. L - 1
      BY <1>3
    <2>2. \A k \in 0 .. L - 1 : k \in d.base .. d.base + res - 1 => d.offset + k - d.base = b + k
      BY <1>2, <1>3
    <2>3. outfile' = outfile
      BY <1>5 DEF KernelMoves
    <2>4. io' = [io EXCEPT ![b] = [d EXCEPT !.buffer =
                    [k \in DOMAIN d.buffer |-> IF k \in d.base .. d.base + res - 1 THEN d.offset + k - d.base ELSE d.buffer[k]]]]
      BY <1>5 DEF KernelMoves
    <2>5. [k \in DOMAIN d.buffer |-> IF k \in d.base .. d.base + res - 1 THEN d.offset + k - d.base ELSE d.buffer[k]] = buf
      BY <2>1, <2>2
    <2>6. io' = [io EXCEPT ![b] = e]
      BY <2>4, <2>5, Zenon
    <2>7. buf \in [0 .. L - 1 -> Nat \cup {Hole}] /\ \A k \in 0 .. L - 1 : d.buffer[k] = b + k => buf[k] = b + k
      <3>1. \A k \in 0 .. L - 1 : d.buffer[k] \in Nat \cup {Hole}
        BY <1>3
      <3> QED
        BY <1>4, <3>1
    <2>8. \A k \in 0 .. L - 1 : k < d.base + res => buf[k] = b + k
      <3> SUFFICES ASSUME NEW k \in 0 .. L - 1, k < d.base + res PROVE buf[k] = b + k
        OBVIOUS
      <3>1. k < d.base => d.buffer[k] = b + k
        BY <1>3, <1>5 DEF Placed
      <3>2. k \in Nat /\ d.base \in Nat /\ (k >= d.base => k \in d.base .. d.base + res - 1)
        BY <1>3, <1>4
      <3> QED
        BY <3>1, <3>2
    <2> HIDE DEF buf
    <2>9. buf \in Buffers
      BY <1>1, <2>7, BufferType DEF L, Bytes
    <2>10. /\ e \in IoData /\ e.read = d.read /\ e.offset = d.offset /\ e.base = d.base /\ e.len = d.len
           /\ e.first_len = d.first_len /\ e.buffer = buf
      BY <1>1, <2>9 DEF IoData
    <2> HIDE DEF e
    <2>11. io' \in [Blocks -> IoData \cup {Hole}] /\ io'[b] = e /\ \A c \in Blocks \ {b} : io'[c] = io[c]
      BY <1>1, <2>6, <2>10
    <2>12. Placed(b, L, e, outfile', d.base + res)
      BY <1>5, <2>8, <2>10 DEF Placed
    <2>13. Placed(b, L, e, outfile', d.base)
      <3>1. \A k \in 0 .. L - 1 : k < d.base => d.buffer[k] = b + k
        BY <1>3, <1>5 DEF Placed
      <3> QED
        BY <1>5, <2>7, <2>10, <3>1 DEF Placed
    <2>14. Describes(e, b, L, outfile')
      BY <1>3, <1>5, <2>7, <2>10, <2>13 DEF Describes
    <2>15. \A p \in 0 .. N - 1 : outfile'[p] \in {Hole, p}
      BY <2>3 DEF CpInv, Ending
    <2> QED
      BY <1>1, <1>4, <2>3, <2>10, <2>11, <2>12, <2>14, <2>15 DEF L
  <1>6. CASE ~d.read
    <2>1. io' = io /\ outfile' = [p \in DOMAIN outfile |->
                 IF p \in d.offset .. d.offset + res - 1 THEN d.buffer[d.base + p - d.offset] ELSE outfile[p]]
      BY <1>6 DEF KernelMoves
    <2>2. \A p \in 0 .. N - 1 : p \in d.offset .. d.offset + res - 1 => d.buffer[d.base + p - d.offset] = p
      <3> SUFFICES ASSUME NEW p \in 0 .. N - 1, p \in d.offset .. d.offset + res - 1
                   PROVE  d.buffer[d.base + p - d.offset] = p
        OBVIOUS
      <3>1. d.base + p - d.offset = p - b /\ p - b \in 0 .. L - 1 /\ b + (p - b) = p
        <4>1. d.offset = b + d.base /\ d.base \in Nat /\ d.len \in Nat /\ d.base + d.len = L /\ res <= d.len
          BY <1>3
        <4> HIDE DEF d
        <4>2. d.base + p - d.offset = p - b /\ b + (p - b) = p
          BY <1>2, <4>1
        <4>3. p - b >= 0 /\ p - b < L
          BY <1>2, <4>1
        <4> QED
          BY <1>2, <4>2, <4>3
      <3> QED
        BY <1>3, <1>6, <3>1
    <2>3. \A p \in 0 .. N - 1 : outfile'[p] = IF p \in d.offset .. d.offset + res - 1 THEN p ELSE outfile[p]
      BY <1>1, <2>1, <2>2
    <2>4. outfile' \in [0 .. N - 1 -> Nat \cup {Hole}]
      <3>1. DOMAIN outfile = 0 .. N - 1
        BY <1>1
      <3>2. \A p \in 0 .. N - 1 :
               (IF p \in d.offset .. d.offset + res - 1 THEN d.buffer[d.base + p - d.offset] ELSE outfile[p]) \in Nat \cup {Hole}
        BY <1>1, <2>2
      <3> QED
        BY <2>1, <3>1, <3>2
    <2>5. \A p \in 0 .. N - 1 : outfile[p] = p => outfile'[p] = p
      BY <2>3
    <2>6. \A p \in 0 .. N - 1 : outfile'[p] \in {Hole, p}
      BY <2>3 DEF CpInv, Ending
    <2>7. Describes(d, b, L, outfile')
      BY <1>1, <2>5, StaysPlaced DEF L
    <2>8. Placed(b, L, d, outfile', d.base + res)
      <3> SUFFICES ASSUME NEW k \in 0 .. L - 1, k < d.base + res PROVE outfile'[b + k] = b + k
        BY <1>6 DEF Placed
      <3>1. b + k \in 0 .. N - 1
        BY <1>4
      <3>2. k < d.base => outfile[b + k] = b + k
        BY <1>3, <1>6 DEF Placed
      <3>3. k >= d.base => b + k \in d.offset .. d.offset + res - 1
        <4>1. d.offset = b + d.base /\ d.base \in Nat /\ k \in Nat
          BY <1>3, <1>4
        <4> HIDE DEF d
        <4> QED
          BY <1>2, <4>1
      <3>4. k \in Nat
        BY <1>4
      <3> QED
        BY <1>3, <2>3, <2>5, <3>1, <3>2, <3>3, <3>4
    <2> QED
      BY <1>1, <2>1, <2>4, <2>5, <2>6, <2>7, <2>8 DEF L
  <1> QED
    BY <1>3, <1>5, <1>6

LEMMA KernelKeeps ==
  ASSUME CpInv, NEW b \in flight, NEW res \in Int, KernelDone(b, res) PROVE CpInv'
  <1>1. /\ cpAt # "returned" /\ res <= io[b].len /\ KernelMoves(b, res) /\ flight' = flight \ {b}
        /\ cq' = Append(cq, [block |-> b, res |-> res])
        /\ UNCHANGED <<fileSize, insize, write_left, offset, reads, writes, cpAt, cpRet, cut>>
    BY DEF KernelDone, countVars
  <1>2. /\ io' \in [Blocks -> IoData \cup {Hole}] /\ outfile' \in [0 .. fileSize - 1 -> Nat \cup {Hole}]
        /\ io[b] # Hole /\ io'[b] # Hole /\ io'[b].read = io[b].read /\ io'[b].len = io[b].len
        /\ io'[b].base = io[b].base /\ \A c \in Blocks \ {b} : io'[c] = io[c]
        /\ \A p \in 0 .. fileSize - 1 : outfile[p] = p => outfile'[p] = p
        /\ \A p \in 0 .. fileSize - 1 : outfile'[p] \in {Hole, p}
        /\ Describes(io'[b], b, BlockLen(b), outfile')
        /\ Placed(b, BlockLen(b), io'[b], outfile', io[b].base + res)
    BY <1>1, KernelPlaces
  <1>3. /\ fileSize \in Nat /\ b \in Blocks /\ flight \in SUBSET Blocks /\ Blocks' = Blocks
        /\ \A c : BlockLen(c)' = BlockLen(c) /\ Bytes(c)' = Bytes(c)
    BY <1>1, SameBlocks DEF CpInv, CpType
  <1>4. \A c \in Blocks \ {b} :
            /\ Describes(io[c], c, BlockLen(c), outfile) => Describes(io'[c], c, BlockLen(c), outfile')
            /\ \A n : Placed(c, BlockLen(c), io[c], outfile, n) => Placed(c, BlockLen(c), io'[c], outfile', n)
    <2> SUFFICES ASSUME NEW c \in Blocks \ {b}
                 PROVE  /\ Describes(io[c], c, BlockLen(c), outfile) => Describes(io[c], c, BlockLen(c), outfile')
                        /\ \A n : Placed(c, BlockLen(c), io[c], outfile, n) => Placed(c, BlockLen(c), io[c], outfile', n)
      BY <1>2
    <2> QED
      BY <1>2, <1>3, StaysPlaced
  <1>5. /\ cq \in Seq([block : Blocks, res : Int]) /\ cq' \in Seq([block : Blocks, res : Int])
        /\ Len(cq) \in Nat /\ DOMAIN cq = 1 .. Len(cq) /\ DOMAIN cq' = 1 .. Len(cq) + 1
        /\ cq'[Len(cq) + 1] = [block |-> b, res |-> res] /\ \A i \in DOMAIN cq : cq'[i] = cq[i] /\ cq[i].block \in Blocks
    <2> DEFINE R == [block : Blocks, res : Int]
               x == [block |-> b, res |-> res]
    <2>1. x \in R /\ cq \in Seq(R) /\ cq' = Append(cq, x)
      BY <1>1, <1>3 DEF CpInv, CpType
    <2>2. \A y \in R : y.block \in Blocks
      OBVIOUS
    <2> HIDE DEF R, x
    <2>3. /\ cq' \in Seq(R) /\ Len(cq) \in Nat /\ DOMAIN cq = 1 .. Len(cq) /\ DOMAIN cq' = 1 .. Len(cq) + 1
          /\ cq'[Len(cq) + 1] = x /\ \A i \in DOMAIN cq : cq'[i] = cq[i] /\ cq[i] \in R
      BY <2>1
    <2> QED
      BY <2>1, <2>2, <2>3 DEF R, x
  <1>6. \A i \in DOMAIN cq' : i \in DOMAIN cq \/ i = Len(cq) + 1
    BY <1>5
  <1>7. cq'[Len(cq) + 1].block = b /\ cq'[Len(cq) + 1].res = res
    BY <1>5
  <1>8. \A i \in DOMAIN cq : /\ cq[i].block # b /\ io[cq[i].block] # Hole /\ cq[i].block \notin flight
                             /\ cq[i].res <= io[cq[i].block].len
                             /\ Placed(cq[i].block, BlockLen(cq[i].block), io[cq[i].block], outfile,
                                       io[cq[i].block].base + cq[i].res)
    BY DEF CpInv, Completed
  <1>9. CpType'
    <2>1. flight' \in SUBSET Blocks
      BY <1>1, <1>3
    <2> QED
      BY <1>1, <1>2, <1>3, <1>5, <2>1 DEF CpInv, CpType
  <1>10. Described'
    <2> SUFFICES ASSUME NEW c \in Blocks, io'[c] # Hole PROVE Describes(io'[c], c, BlockLen(c), outfile')
      BY <1>3 DEF Described
    <2>1. CASE c = b
      BY <1>2, <2>1
    <2>2. CASE c # b
      BY <1>2, <1>4, <2>2 DEF CpInv, Described
    <2> QED
      BY <2>1, <2>2
  <1>11. Completed'
    <2>1. ASSUME NEW i \in DOMAIN cq'
          PROVE  LET c == cq'[i].block IN
                 /\ io'[c] # Hole /\ c \notin flight' /\ cq'[i].res <= io'[c].len
                 /\ Placed(c, BlockLen(c), io'[c], outfile', io'[c].base + cq'[i].res)
      <3>1. CASE i \in DOMAIN cq
        <4> DEFINE c == cq[i].block
        <4>1. cq'[i] = cq[i] /\ c \in Blocks \ {b} /\ io[c] # Hole /\ c \notin flight
              /\ cq[i].res <= io[c].len /\ Placed(c, BlockLen(c), io[c], outfile, io[c].base + cq[i].res)
          BY <1>5, <1>8, <3>1
        <4>2. io'[c] = io[c] /\ Placed(c, BlockLen(c), io'[c], outfile', io[c].base + cq[i].res)
          BY <1>2, <1>4, <4>1
        <4> QED
          BY <1>1, <4>1, <4>2
      <3>2. CASE i = Len(cq) + 1
        BY <1>1, <1>2, <1>7, <3>2
      <3> QED
        BY <1>6, <3>1, <3>2
    <2>2. \A i, j \in DOMAIN cq' : cq'[i].block = cq'[j].block => i = j
      BY <1>5, <1>6, <1>7, <1>8 DEF CpInv, Completed
    <2>3. \A c \in flight' : io'[c] # Hole
      BY <1>1, <1>2, <1>3 DEF CpInv, Completed
    <2> QED
      BY <1>3, <2>1, <2>2, <2>3 DEF Completed
  <1>12. \A c \in Blocks : (io'[c] = Hole <=> io[c] = Hole) /\ io'[c].read = io[c].read
    BY <1>2
  <1>13. Live(TRUE)' = Live(TRUE) /\ Live(FALSE)' = Live(FALSE)
    BY <1>3, <1>12 DEF Live
  <1>14. Unread' = Unread
    BY <1>1, <1>3, <1>13 DEF Unread
  <1>15. flight' \cup CqBlocks' = flight \cup CqBlocks
    <2>1. CqBlocks' \subseteq CqBlocks \cup {b}
      BY <1>5, <1>6, <1>7 DEF CqBlocks
    <2>2. CqBlocks \subseteq CqBlocks'
      <3>1. \A i \in DOMAIN cq : i \in DOMAIN cq' /\ cq'[i] = cq[i]
        BY <1>5
      <3> QED
        BY <3>1 DEF CqBlocks
    <2>3. b \in CqBlocks'
      <3>1. Len(cq) + 1 \in DOMAIN cq'
        BY <1>5
      <3> QED
        BY <1>7, <3>1 DEF CqBlocks
    <2> QED
      BY <1>1, <2>1, <2>2, <2>3
  <1>16. Started'
    <2>1. \A c \in Blocks : \A k \in Bytes(c) : outfile[c + k] = c + k => outfile'[c + k] = c + k
      <3>1. \A c \in Blocks : \A k \in Bytes(c) : c + k \in 0 .. fileSize - 1
        BY <1>3, BlockFacts DEF Bytes
      <3> QED
        BY <1>2, <3>1
    <2> QED
      BY <1>1, <1>3, <1>12, <2>1 DEF CpInv, Started
  <1>17. Counted'
    BY <1>1, <1>13, <1>14, <1>15 DEF CpInv, Counted
  <1>18. Ending'
    BY <1>1, <1>2, <1>13 DEF CpInv, Ending
  <1> QED
    BY <1>9, <1>10, <1>11, <1>16, <1>17, <1>18 DEF CpInv

-----------------------------------------------------------------------------
(* The first completion is taken from the queue. *)
LEMMA CqPop ==
  ASSUME CpInv, cq # <<>>, cq' = Tail(cq)
  PROVE  LET c == Head(cq)
             b == c.block
         IN  /\ b \in Blocks /\ c.res \in Int /\ io[b] # Hole /\ io[b] \in IoData /\ b \notin flight
             /\ Describes(io[b], b, BlockLen(b), outfile)
             /\ c.res <= io[b].len /\ Placed(b, BlockLen(b), io[b], outfile, io[b].base + c.res)
             /\ cq' \in Seq([block : Blocks, res : Int]) /\ b \notin CqBlocks' /\ CqBlocks = CqBlocks' \cup {b}
             /\ \A i \in DOMAIN cq' : i + 1 \in DOMAIN cq /\ cq'[i] = cq[i + 1] /\ cq'[i].block \in Blocks \ {b}
             /\ \A i, j \in DOMAIN cq' : cq'[i].block = cq'[j].block => i = j
  <1> DEFINE c == Head(cq)
             b == c.block
  <1>1. /\ cq \in Seq([block : Blocks, res : Int]) /\ Len(cq) \in Nat \ {0} /\ DOMAIN cq = 1 .. Len(cq)
        /\ 1 \in DOMAIN cq /\ c = cq[1]
    BY DEF CpInv, CpType
  <1>2. \A i \in DOMAIN cq : cq[i] \in [block : Blocks, res : Int]
    <2> DEFINE R == [block : Blocks, res : Int]
    <2>1. cq \in Seq(R)
      BY <1>1
    <2> HIDE DEF R
    <2>2. \A i \in DOMAIN cq : cq[i] \in R
      BY <2>1
    <2> QED
      BY <2>2 DEF R
  <1>3. /\ b \in Blocks /\ c.res \in Int /\ io[b] # Hole /\ b \notin flight
        /\ c.res <= io[b].len /\ Placed(b, BlockLen(b), io[b], outfile, io[b].base + c.res)
    BY <1>1, <1>2 DEF CpInv, Completed
  <1>4. io[b] \in IoData /\ Describes(io[b], b, BlockLen(b), outfile)
    BY <1>3, LiveFacts DEF CpInv, Described
  <1>5. /\ cq' \in Seq([block : Blocks, res : Int]) /\ DOMAIN cq' = 1 .. Len(cq) - 1
        /\ \A i \in 1 .. Len(cq) - 1 : cq'[i] = cq[i + 1]
    BY <1>1
  <1>6. \A i \in DOMAIN cq' : i \in Nat /\ i + 1 \in DOMAIN cq /\ i + 1 # 1 /\ cq'[i] = cq[i + 1]
    BY <1>1, <1>5
  <1>7. \A i \in DOMAIN cq : i = 1 \/ \E j \in DOMAIN cq' : i = j + 1
    <2> SUFFICES ASSUME NEW i \in DOMAIN cq, i # 1 PROVE \E j \in DOMAIN cq' : i = j + 1
      OBVIOUS
    <2>1. i - 1 \in DOMAIN cq' /\ i = (i - 1) + 1
      BY <1>1, <1>5
    <2> QED
      BY <2>1
  <1>8. \A i, j \in DOMAIN cq : cq[i].block = cq[j].block => i = j
    BY DEF CpInv, Completed
  <1>9. \A i \in DOMAIN cq' : cq'[i].block \in Blocks \ {b}
    BY <1>1, <1>2, <1>6, <1>8
  <1>10. \A i, j \in DOMAIN cq' : cq'[i].block = cq'[j].block => i = j
    <2>1. \A i, j \in DOMAIN cq' : i + 1 = j + 1 => i = j
      BY <1>6
    <2> QED
      BY <1>6, <1>8, <2>1
  <1>11. b \notin CqBlocks'
    BY <1>9 DEF CqBlocks
  <1>12. CqBlocks = CqBlocks' \cup {b}
    <2>1. CqBlocks' \subseteq CqBlocks
      BY <1>6 DEF CqBlocks
    <2>2. b \in CqBlocks
      BY <1>1 DEF CqBlocks
    <2>3. ASSUME NEW x \in CqBlocks PROVE x = b \/ x \in CqBlocks'
      <3>1. PICK i \in DOMAIN cq : x = cq[i].block
        BY <2>3 DEF CqBlocks
      <3>2. CASE i = 1
        BY <1>1, <3>1, <3>2
      <3>3. CASE i # 1
        <4>1. PICK j \in DOMAIN cq' : i = j + 1
          BY <1>7, <3>3
        <4>2. x = cq'[j].block
          BY <1>6, <3>1, <4>1
        <4> QED
          BY <4>2 DEF CqBlocks
      <3> QED
        BY <3>2, <3>3
    <2> QED
      BY <2>1, <2>2, <2>3
  <1> QED
    BY <1>3, <1>4, <1>5, <1>6, <1>9, <1>10, <1>11, <1>12

(* The program then frees the io_data or gives it back to the kernel: the  *)
(* other requests are not touched.                                         *)
LEMMA Handled ==
  ASSUME CpInv, cq # <<>>, cq' = Tail(cq), fileSize' = fileSize, outfile' = outfile, NEW e \in IoData \cup {Hole},
         NEW b, b = Head(cq).block, io' = [io EXCEPT ![b] = e],
         flight' = (IF e = Hole THEN flight ELSE flight \cup {b}),
         e # Hole => Describes(e, b, BlockLen(b), outfile)
  PROVE  /\ Described' /\ Completed' /\ Blocks' = Blocks
         /\ io' \in [Blocks -> IoData \cup {Hole}] /\ flight' \in SUBSET Blocks
         /\ cq' \in Seq([block : Blocks, res : Int])
         /\ flight' \cup CqBlocks' = (IF e = Hole THEN (flight \cup CqBlocks) \ {b} ELSE flight \cup CqBlocks)
         /\ io'[b] = e /\ \A c \in Blocks \ {b} : io'[c] = io[c]
  <1>1. /\ b \in Blocks /\ b \notin flight
        /\ cq' \in Seq([block : Blocks, res : Int]) /\ b \notin CqBlocks' /\ CqBlocks = CqBlocks' \cup {b}
        /\ \A i \in DOMAIN cq' : i + 1 \in DOMAIN cq /\ cq'[i] = cq[i + 1] /\ cq'[i].block \in Blocks \ {b}
        /\ \A i, j \in DOMAIN cq' : cq'[i].block = cq'[j].block => i = j
    BY CqPop
  <1>2. /\ fileSize \in Nat /\ flight \in SUBSET Blocks /\ Blocks' = Blocks /\ \A c : BlockLen(c)' = BlockLen(c)
        /\ io \in [Blocks -> IoData \cup {Hole}]
    BY SameBlocks DEF CpInv, CpType
  <1>3. io' \in [Blocks -> IoData \cup {Hole}] /\ io'[b] = e /\ \A c \in Blocks \ {b} : io'[c] = io[c]
    BY <1>1, <1>2
  <1>4. Described'
    <2> SUFFICES ASSUME NEW c \in Blocks, io'[c] # Hole PROVE Describes(io'[c], c, BlockLen(c), outfile)
      BY <1>2 DEF Described
    <2>1. CASE c = b
      BY <1>3, <2>1
    <2>2. CASE c # b
      BY <1>3, <2>2 DEF CpInv, Described
    <2> QED
      BY <2>1, <2>2
  <1>5. Completed'
    <2>1. ASSUME NEW i \in DOMAIN cq'
          PROVE  LET c == cq'[i].block IN
                 /\ io'[c] # Hole /\ c \notin flight' /\ cq'[i].res <= io'[c].len
                 /\ Placed(c, BlockLen(c), io'[c], outfile, io'[c].base + cq'[i].res)
      <3> DEFINE c == cq'[i].block
      <3>1. i + 1 \in DOMAIN cq /\ cq'[i] = cq[i + 1] /\ c \in Blocks \ {b} /\ c = cq[i + 1].block
        BY <1>1
      <3>2. /\ io[c] # Hole /\ c \notin flight /\ cq'[i].res <= io[c].len
            /\ Placed(c, BlockLen(c), io[c], outfile, io[c].base + cq'[i].res)
        BY <3>1 DEF CpInv, Completed
      <3>3. io'[c] = io[c] /\ c # b
        BY <1>3, <3>1
      <3> QED
        BY <3>2, <3>3
    <2>2. \A c \in flight' : io'[c] # Hole
      BY <1>1, <1>2, <1>3 DEF CpInv, Completed
    <2> QED
      BY <1>1, <1>2, <2>1, <2>2 DEF Completed
  <1>6. flight' \cup CqBlocks' = (IF e = Hole THEN (flight \cup CqBlocks) \ {b} ELSE flight \cup CqBlocks)
    BY <1>1
  <1>7. flight' \in SUBSET Blocks
    BY <1>1, <1>2
  <1> QED
    BY <1>1, <1>2, <1>3, <1>4, <1>5, <1>6, <1>7

(* EAGAIN, or a part. *)
LEMMA RequeueKeeps == ASSUME CpInv, Requeue PROVE CpInv'
  <1> DEFINE h == Head(cq)
             d == io[h.block]
             L == BlockLen(h.block)
             e == IF h.res < 0 THEN d ELSE Advance(d, h.res)
  <1>1. /\ cq # <<>> /\ cpAt = "comp" /\ (h.res = EAGAIN \/ (h.res >= 0 /\ h.res # d.len))
        /\ io' = [io EXCEPT ![h.block] = e] /\ flight' = flight \cup {h.block} /\ cq' = Tail(cq)
        /\ UNCHANGED <<fileSize, insize, write_left, offset, reads, writes, cpAt, cpRet, outfile, cut>>
    BY DEF Requeue, Seen, countVars
  <1>2. /\ h.block \in Blocks /\ h.res \in Int /\ d # Hole /\ d \in IoData /\ Describes(d, h.block, L, outfile)
        /\ h.res <= d.len /\ Placed(h.block, L, d, outfile, d.base + h.res)
    BY <1>1, CqPop
  <1>3. /\ d.offset \in Nat /\ d.base \in Nat /\ d.len \in Nat /\ d.read \in BOOLEAN /\ fileSize \in Nat
        /\ h.block \in Nat /\ L \in Nat
    BY <1>2, BlockFacts DEF IoData, CpInv, CpType
  <1>4. e \in IoData /\ e.read = d.read /\ Describes(e, h.block, L, outfile)
    <2>1. CASE h.res < 0
      BY <1>2, <2>1
    <2>2. CASE ~(h.res < 0)
      <3> DEFINE a == Advance(d, h.res)
      <3>1. a.base = d.base + h.res /\ a.len = d.len - h.res /\ a.offset = d.offset + h.res /\ a.read = d.read
            /\ a.buffer = d.buffer /\ a.first_len = d.first_len
        BY <1>2 DEF Advance, IoData
      <3>2. d.base + h.res \in Nat /\ d.len - h.res \in Nat /\ d.offset + h.res \in Nat
        BY <1>2, <1>3, <2>2
      <3>3. a \in IoData
        BY <1>2, <3>2 DEF Advance, IoData
      <3> HIDE DEF a
      <3>4. Placed(h.block, L, a, outfile, a.base)
        BY <1>2, <3>1 DEF Placed
      <3>5. a.offset = h.block + a.base /\ a.base + a.len = L
        <4>1. d.offset = h.block + d.base /\ d.base + d.len = L
          BY <1>2 DEF Describes
        <4> HIDE DEF d, h, L
        <4> QED
          BY <1>2, <1>3, <3>1, <4>1
      <3>6. Describes(a, h.block, L, outfile)
        BY <1>2, <3>1, <3>4, <3>5 DEF Describes
      <3> QED
        BY <2>2, <3>1, <3>3, <3>6 DEF a
    <2> QED
      BY <2>1, <2>2
  <1>5. e # Hole
    BY <1>4, CpAssumption
  <1> HIDE DEF e
  <1>6. /\ Described' /\ Completed' /\ Blocks' = Blocks
        /\ io' \in [Blocks -> IoData \cup {Hole}] /\ flight' \in SUBSET Blocks
        /\ cq' \in Seq([block : Blocks, res : Int]) /\ flight' \cup CqBlocks' = flight \cup CqBlocks
        /\ io'[h.block] = e /\ \A c \in Blocks \ {h.block} : io'[c] = io[c]
    BY <1>1, <1>4, <1>5, Handled
  <1>7. CpType'
    BY <1>1, <1>6 DEF CpInv, CpType
  <1>8. \A c \in Blocks : (io'[c] = Hole <=> io[c] = Hole) /\ io'[c].read = io[c].read
    BY <1>2, <1>4, <1>5, <1>6
  <1>9. Live(TRUE)' = Live(TRUE) /\ Live(FALSE)' = Live(FALSE)
    BY <1>6, <1>8 DEF Live
  <1>10. \A c : BlockLen(c)' = BlockLen(c) /\ Bytes(c)' = Bytes(c)
    BY <1>1, SameBlocks
  <1>11. Unread' = Unread
    BY <1>1, <1>9, <1>10 DEF Unread
  <1>12. Started'
    BY <1>1, <1>6, <1>8, <1>10 DEF CpInv, Started
  <1>13. Counted'
    BY <1>1, <1>6, <1>9, <1>11 DEF CpInv, Counted
  <1>14. Ending'
    BY <1>1 DEF CpInv, Ending
  <1> QED
    BY <1>6, <1>7, <1>12, <1>13, <1>14 DEF CpInv

(* A byte belongs to one block, and offset is in none. *)
LEMMA OneBlock ==
  ASSUME fileSize \in Nat, NEW b \in Blocks, NEW c \in Blocks, NEW p \in Int,
         b <= p, p < b + BlockLen(b), c <= p, p < c + BlockLen(c)
  PROVE  b = c
  <1>1. /\ BS \in Nat /\ b \in Nat /\ c \in Nat /\ b % BS = 0 /\ c % BS = 0
        /\ BlockLen(b) \in Nat /\ BlockLen(c) \in Nat /\ BlockLen(b) <= BS /\ BlockLen(c) <= BS
    BY BlockFacts, CpAssumption
  <1>2. ~(b < c)
    <2> SUFFICES ASSUME b < c PROVE FALSE
      OBVIOUS
    <2>1. b + BS <= c
      BY <1>1, BlocksApart
    <2> QED
      BY <1>1, <2>1
  <1>3. ~(c < b)
    <2> SUFFICES ASSUME c < b PROVE FALSE
      OBVIOUS
    <2>1. c + BS <= b
      BY <1>1, BlocksApart
    <2> QED
      BY <1>1, <2>1
  <1> QED
    BY <1>1, <1>2, <1>3

LEMMA BeforeOffset ==
  ASSUME CpType, Started, NEW b \in Blocks, io[b] # Hole
  PROVE  b < offset /\ b + BlockLen(b) <= offset
  <1>1. /\ BS \in Nat /\ b \in Nat /\ b < fileSize /\ b % BS = 0 /\ BlockLen(b) \in Nat /\ BlockLen(b) <= BS
        /\ b + BlockLen(b) <= fileSize /\ offset \in Nat /\ fileSize \in Nat
    BY BlockFacts, CpAssumption DEF CpType
  <1>2. b < offset /\ (offset # fileSize => offset % BS = 0)
    BY <1>1 DEF Started
  <1>3. CASE offset = fileSize
    BY <1>1, <1>2, <1>3
  <1>4. CASE offset # fileSize
    <2>1. b + BS <= offset
      BY <1>1, <1>2, <1>4, BlocksApart
    <2> QED
      BY <1>1, <1>2, <2>1
  <1> QED
    BY <1>3, <1>4

(* The whole block was read: its bytes leave those write_left counts. *)
LEMMA ReadDoneKeeps == ASSUME CpInv, ReadDone PROVE CpInv'
  <1> DEFINE h == Head(cq)
             b == h.block
             d == io[b]
             L == BlockLen(b)
             e == queue_write(d, b)
  <1>1. /\ cq # <<>> /\ cpAt = "comp" /\ h.res = d.len /\ d.read
        /\ io' = [io EXCEPT ![b] = e] /\ flight' = flight \cup {b} /\ cq' = Tail(cq)
        /\ write_left' = write_left - d.first_len /\ reads' = reads - 1 /\ writes' = writes + 1
        /\ UNCHANGED <<fileSize, insize, offset, cpAt, cpRet, outfile, cut>>
    BY DEF ReadDone, Seen
  <1>2. /\ b \in Blocks /\ d # Hole /\ d \in IoData /\ Describes(d, b, L, outfile)
        /\ Placed(b, L, d, outfile, d.base + d.len)
    BY <1>1, CqPop
  <1>3. b \in Nat /\ L \in Nat /\ b + L <= fileSize /\ fileSize \in Nat
    BY <1>2, BlockFacts DEF CpInv, CpType
  <1>4. d.base + d.len = L /\ d.first_len = L /\ d.buffer \in [0 .. L - 1 -> Nat \cup {Hole}]
    BY <1>2 DEF Describes
  <1>5. \A k \in 0 .. L - 1 : d.buffer[k] = b + k
    BY <1>1, <1>2, <1>3, <1>4 DEF Placed
  <1>6. /\ e \in IoData /\ e.read = FALSE /\ e.offset = b /\ e.base = 0 /\ e.len = L /\ e.first_len = L
        /\ e.buffer = d.buffer
    BY <1>2, <1>3, <1>4 DEF queue_write, IoData
  <1> HIDE DEF e
  <1>7. Describes(e, b, L, outfile)
    <2>1. Placed(b, L, e, outfile, 0)
      BY <1>3 DEF Placed
    <2> QED
      BY <1>3, <1>4, <1>5, <1>6, <2>1 DEF Describes
  <1>8. e # Hole
    BY <1>6, CpAssumption
  <1>9. /\ Described' /\ Completed' /\ Blocks' = Blocks
        /\ io' \in [Blocks -> IoData \cup {Hole}] /\ flight' \in SUBSET Blocks
        /\ cq' \in Seq([block : Blocks, res : Int]) /\ flight' \cup CqBlocks' = flight \cup CqBlocks
        /\ io'[b] = e /\ \A c \in Blocks \ {b} : io'[c] = io[c]
    BY <1>1, <1>6, <1>7, <1>8, Handled
  <1>10. \A c : BlockLen(c)' = BlockLen(c) /\ Bytes(c)' = Bytes(c)
    BY <1>1, SameBlocks
  <1>11. PICK blk \in Blocks : blk = b
    BY <1>2
  <1>12. Live(TRUE)' = Live(TRUE) \ {blk} /\ Live(FALSE)' = Live(FALSE) \cup {blk}
    BY <1>2, <1>6, <1>8, <1>9, <1>11 DEF Live
  <1>13. blk \in Live(TRUE) /\ blk \notin Live(FALSE)
    BY <1>1, <1>2, <1>11, LiveFacts DEF CpInv
  <1>14. /\ IsFiniteSet(Live(TRUE)) /\ IsFiniteSet(Live(FALSE))
         /\ Cardinality(Live(TRUE)) \in Nat /\ Cardinality(Live(FALSE)) \in Nat
    BY LiveFacts DEF CpInv
  <1>15. /\ Cardinality(Live(TRUE)') = Cardinality(Live(TRUE)) - 1 /\ Cardinality(Live(FALSE)') = Cardinality(Live(FALSE)) + 1
         /\ Cardinality(Live(TRUE)) # 0
    <2>1. Cardinality(Live(TRUE)') = Cardinality(Live(TRUE)) - 1
      BY <1>12, <1>13, <1>14, FS_RemoveElement
    <2>2. Cardinality(Live(FALSE)') = Cardinality(Live(FALSE)) + 1
      BY <1>12, <1>13, <1>14, FS_AddElement
    <2>3. Cardinality(Live(TRUE)) # 0
      BY <1>13, <1>14, FS_EmptySet
    <2> QED
      BY <2>1, <2>2, <2>3
  <1>16. Cardinality(Unread') = Cardinality(Unread) - L /\ Cardinality(Unread') \in Nat /\ Cardinality(Unread) \in Nat
    <2> DEFINE S == blk .. blk + BlockLen(blk) - 1
    <2>1. blk + BlockLen(blk) <= offset /\ offset \in Nat
      BY <1>2, <1>11, BeforeOffset DEF CpInv, CpType
    <2>2. S \subseteq Unread
      <3> SUFFICES ASSUME NEW p \in S PROVE p \in Unread
        OBVIOUS
      <3>1. blk \in Nat /\ BlockLen(blk) \in Nat /\ blk + BlockLen(blk) <= fileSize /\ fileSize \in Nat
        BY <1>3, <1>11
      <3>2. p \in 0 .. fileSize - 1 /\ blk <= p /\ p < blk + BlockLen(blk)
        BY <3>1
      <3> QED
        BY <1>13, <3>2 DEF Unread
    <2>3. ASSUME NEW p \in 0 .. fileSize - 1 PROVE p \in Unread' <=> p \in Unread /\ p \notin S
      <3>1. p \in Unread' <=> p >= offset \/ \E c \in Live(TRUE) \ {blk} : c <= p /\ p < c + BlockLen(c)
        BY <1>1, <1>10, <1>12 DEF Unread
      <3>2. p \in Unread <=> p >= offset \/ \E c \in Live(TRUE) : c <= p /\ p < c + BlockLen(c)
        BY DEF Unread
      <3>3. p \in S <=> blk <= p /\ p < blk + BlockLen(blk)
        BY <1>3, <1>11
      <3>4. p >= offset => p \notin S
        BY <1>3, <1>11, <2>1
      <3>5. \A c \in Live(TRUE) \ {blk} : c <= p /\ p < c + BlockLen(c) => p \notin S
        <4> SUFFICES ASSUME NEW c \in Live(TRUE) \ {blk}, c <= p, p < c + BlockLen(c), p \in S PROVE FALSE
          OBVIOUS
        <4>1. c \in Blocks
          BY DEF Live
        <4> QED
          BY <1>3, <3>3, <4>1, OneBlock
      <3> HIDE DEF S
      <3> QED
        BY <3>1, <3>2, <3>3, <3>4, <3>5
    <2>4. Unread \subseteq 0 .. fileSize - 1 /\ Unread' \subseteq 0 .. fileSize - 1
      BY <1>1 DEF Unread
    <2> HIDE DEF S
    <2>5. Unread' = Unread \ S
      BY <2>3, <2>4
    <2>6. IsFiniteSet(0 .. fileSize - 1)
      <3>1. fileSize - 1 \in Int
        BY <1>3
      <3> QED
        BY <3>1, FinitePrefix
    <2>7. IsFiniteSet(Unread) /\ IsFiniteSet(Unread')
      BY <2>4, <2>6, FS_Subset
    <2>8. Cardinality(Unread) \in Nat /\ Cardinality(Unread') \in Nat
      BY <2>7, FS_CardinalityType
    <2>9. Unread \cap S = S
      BY <2>2
    <2>10. Cardinality(S) = L
      <3>1. blk \in Int /\ blk + BlockLen(blk) - 1 \in Int
        BY <1>3, <1>11
      <3>2. Cardinality(S) = IF blk > blk + BlockLen(blk) - 1 THEN 0 ELSE (blk + BlockLen(blk) - 1) - blk + 1
        BY <3>1, FS_Interval DEF S
      <3> QED
        BY <1>3, <1>11, <3>2
    <2>11. Cardinality(Unread \ S) = Cardinality(Unread) - Cardinality(Unread \cap S)
      BY <2>7, FS_Difference
    <2> QED
      BY <2>5, <2>8, <2>9, <2>10, <2>11
  <1>17. Counted' /\ reads' \in Nat /\ writes' \in Nat /\ write_left' \in Nat
    <2>1. /\ ~cut /\ write_left = Cardinality(Unread) /\ reads = Cardinality(Live(TRUE)) /\ writes = Cardinality(Live(FALSE))
          /\ reads + writes <= QD /\ Live(TRUE) \cup Live(FALSE) = flight \cup CqBlocks
      BY <1>1 DEF CpInv, Counted
    <2>2. write_left' = write_left - L
      BY <1>1, <1>4
    <2>3. write_left' = Cardinality(Unread') /\ reads' = Cardinality(Live(TRUE)') /\ writes' = Cardinality(Live(FALSE)')
      BY <1>1, <1>15, <1>16, <2>1, <2>2
    <2>4. reads' = reads - 1 /\ writes' = writes + 1 /\ reads \in Nat /\ reads # 0 /\ writes \in Nat
      BY <1>1, <1>14, <1>15, <2>1
    <2>5. reads' \in Nat /\ writes' \in Nat /\ write_left' \in Nat /\ reads' + writes' = reads + writes
      <3>1. write_left' \in Nat
        BY <1>16, <2>3
      <3>2. \A x, y \in Nat : x # 0 => x - 1 \in Nat /\ y + 1 \in Nat /\ (x - 1) + (y + 1) = x + y
        OBVIOUS
      <3> QED
        BY <2>4, <3>1, <3>2
    <2>6. Live(TRUE)' \cup Live(FALSE)' = flight' \cup CqBlocks'
      BY <1>9, <1>12, <1>13, <2>1
    <2> QED
      BY <1>1, <2>1, <2>3, <2>5, <2>6 DEF Counted
  <1>18. CpType'
    BY <1>1, <1>9, <1>17 DEF CpInv, CpType
  <1>19. Started'
    <2>1. \A c \in Blocks : io'[c] = Hole <=> io[c] = Hole
      BY <1>2, <1>8, <1>9
    <2> QED
      BY <1>1, <1>9, <1>10, <2>1 DEF CpInv, Started
  <1>20. Ending'
    BY <1>1 DEF CpInv, Ending
  <1> QED
    BY <1>9, <1>17, <1>18, <1>19, <1>20 DEF CpInv

(* A request is freed: if it was a write and completed whole, its block is *)
(* in the file.                                                            *)
LEMMA Freed ==
  ASSUME CpInv, cq # <<>>, cq' = Tail(cq), NEW b, b = Head(cq).block, io' = [io EXCEPT ![b] = Hole],
         UNCHANGED <<fileSize, insize, offset, outfile, flight>>, cut => cut',
         cut' \/ (Head(cq).res = io[b].len /\ ~io[b].read)
  PROVE  /\ Described' /\ Completed' /\ Started' /\ Blocks' = Blocks /\ b \in Blocks /\ io[b] # Hole
         /\ io' \in [Blocks -> IoData \cup {Hole}] /\ flight' \in SUBSET Blocks
         /\ cq' \in Seq([block : Blocks, res : Int])
         /\ flight' \cup CqBlocks' = (flight \cup CqBlocks) \ {b}
         /\ Live(TRUE)' = Live(TRUE) \ {b} /\ Live(FALSE)' = Live(FALSE) \ {b}
  <1>1. /\ Described' /\ Completed' /\ Blocks' = Blocks
        /\ io' \in [Blocks -> IoData \cup {Hole}] /\ flight' \in SUBSET Blocks
        /\ cq' \in Seq([block : Blocks, res : Int])
        /\ flight' \cup CqBlocks' = (flight \cup CqBlocks) \ {b}
        /\ io'[b] = Hole /\ \A c \in Blocks \ {b} : io'[c] = io[c]
    BY Handled
  <1>2. /\ b \in Blocks /\ io[b] # Hole /\ Describes(io[b], b, BlockLen(b), outfile)
        /\ Placed(b, BlockLen(b), io[b], outfile, io[b].base + Head(cq).res)
    BY CqPop
  <1>3. \A c : BlockLen(c)' = BlockLen(c) /\ Bytes(c)' = Bytes(c)
    BY SameBlocks
  <1>4. Live(TRUE)' = Live(TRUE) \ {b} /\ Live(FALSE)' = Live(FALSE) \ {b}
    BY <1>1, <1>2 DEF Live
  <1>5. ASSUME ~cut' PROVE \A k \in Bytes(b) : outfile[b + k] = b + k
    <2>1. io[b].base + Head(cq).res = BlockLen(b) /\ ~io[b].read
      BY <1>2, <1>5 DEF Describes
    <2>2. Placed(b, BlockLen(b), io[b], outfile, BlockLen(b))
      BY <1>2, <2>1
    <2>3. BlockLen(b) \in Nat
      BY <1>2, BlockFacts DEF CpInv, CpType
    <2> QED
      BY <2>1, <2>2, <2>3 DEF Placed, Bytes
  <1>6. Started'
    <2>1. \A c \in Blocks : c >= offset => io'[c] = Hole
      BY <1>1 DEF CpInv, Started
    <2>2. ASSUME ~cut', NEW c \in Blocks, c < offset, io'[c] = Hole PROVE \A k \in Bytes(c) : outfile[c + k] = c + k
      <3>1. CASE c = b
        BY <1>5, <2>2, <3>1
      <3>2. CASE c # b
        BY <1>1, <2>2, <3>2 DEF CpInv, Started
      <3> QED
        BY <3>1, <3>2
    <2> QED
      BY <1>1, <1>3, <2>1, <2>2 DEF CpInv, Started
  <1> QED
    BY <1>1, <1>2, <1>4, <1>6

LEMMA WriteDoneKeeps == ASSUME CpInv, WriteDone PROVE CpInv'
  <1>1. /\ cq # <<>> /\ cpAt = "comp" /\ Head(cq).res = io[Head(cq).block].len /\ ~io[Head(cq).block].read
        /\ io' = [io EXCEPT ![Head(cq).block] = Hole] /\ cq' = Tail(cq) /\ writes' = writes - 1
        /\ UNCHANGED <<fileSize, insize, write_left, offset, reads, flight, cpAt, cpRet, outfile, cut>>
    BY DEF WriteDone, Seen
  <1>2. PICK b \in Blocks : b = Head(cq).block
    BY <1>1, CqPop
  <1>3. /\ Described' /\ Completed' /\ Started' /\ Blocks' = Blocks /\ io[b] # Hole
        /\ io' \in [Blocks -> IoData \cup {Hole}] /\ flight' \in SUBSET Blocks
        /\ cq' \in Seq([block : Blocks, res : Int])
        /\ flight' \cup CqBlocks' = (flight \cup CqBlocks) \ {b}
        /\ Live(TRUE)' = Live(TRUE) \ {b} /\ Live(FALSE)' = Live(FALSE) \ {b}
    BY <1>1, <1>2, Freed
  <1>4. /\ b \notin Live(TRUE) /\ b \in Live(FALSE) /\ IsFiniteSet(Live(FALSE)) /\ Cardinality(Live(FALSE)) \in Nat
        /\ Cardinality(Live(TRUE)) \in Nat
    BY <1>1, <1>2, <1>3, LiveFacts DEF CpInv
  <1>5. Live(TRUE)' = Live(TRUE)
    BY <1>3, <1>4
  <1>6. Cardinality(Live(FALSE)') = Cardinality(Live(FALSE)) - 1 /\ Cardinality(Live(FALSE)) # 0
    BY <1>3, <1>4, FS_RemoveElement, FS_EmptySet
  <1>7. Unread' = Unread
    <2>1. \A c : BlockLen(c)' = BlockLen(c)
      BY <1>1, SameBlocks
    <2> QED
      BY <1>1, <1>5, <2>1 DEF Unread
  <1>8. Counted' /\ writes' \in Nat
    <2>1. /\ ~cut /\ write_left = Cardinality(Unread) /\ reads = Cardinality(Live(TRUE)) /\ writes = Cardinality(Live(FALSE))
          /\ reads + writes <= QD /\ Live(TRUE) \cup Live(FALSE) = flight \cup CqBlocks
      BY <1>1 DEF CpInv, Counted
    <2>2. writes' \in Nat /\ reads' + writes' <= QD
      <3>1. \A x, y, z \in Nat : y # 0 /\ x + y <= z => y - 1 \in Nat /\ x + (y - 1) <= z
        OBVIOUS
      <3>2. writes \in Nat /\ reads \in Nat /\ writes # 0 /\ reads' = reads /\ writes' = writes - 1 /\ QD \in Nat
            /\ reads + writes <= QD
        BY <1>1, <1>4, <1>6, <2>1, CpAssumption
      <3> QED
        BY <3>1, <3>2
    <2>3. Live(TRUE)' \cup Live(FALSE)' = flight' \cup CqBlocks'
      BY <1>3, <2>1
    <2> QED
      BY <1>1, <1>5, <1>6, <1>7, <2>1, <2>2, <2>3 DEF Counted
  <1>9. CpType'
    BY <1>1, <1>3, <1>8 DEF CpInv, CpType
  <1>10. Ending'
    BY <1>1 DEF CpInv, Ending
  <1> QED
    BY <1>3, <1>8, <1>9, <1>10 DEF CpInv

(* The last loop. *)
LEMMA DrainKeeps == ASSUME CpInv, Drain PROVE CpInv'
  <1>1. /\ cq # <<>> /\ cpAt = "drain" /\ writes > 0
        /\ cut' = (cut \/ Head(cq).res < io[Head(cq).block].len)
        /\ io' = [io EXCEPT ![Head(cq).block] = Hole] /\ cq' = Tail(cq) /\ writes' = writes - 1
        /\ UNCHANGED <<fileSize, insize, write_left, offset, reads, flight, cpAt, cpRet, outfile>>
    BY DEF Drain
  <1>2. PICK b \in Blocks : b = Head(cq).block
    BY <1>1, CqPop
  <1>3. Head(cq).res \in Int /\ io[b].len \in Nat /\ Head(cq).res <= io[b].len /\ io[b] # Hole
    <2>1. Head(cq).res \in Int /\ Head(cq).res <= io[b].len /\ io[b] # Hole
      BY <1>1, <1>2, CqPop
    <2> QED
      BY <2>1, LiveFacts DEF CpInv
  <1>4. ~cut => Live(TRUE) = {} /\ writes = Cardinality(Live(FALSE)) /\ insize = 0
    BY <1>1 DEF CpInv, Ending
  <1>5. ~cut => ~io[b].read /\ b \in Live(FALSE)
    <2>1. /\ io[b].read \in BOOLEAN /\ (b \in Live(TRUE) <=> io[b] # Hole /\ io[b].read)
          /\ (b \in Live(FALSE) <=> io[b] # Hole /\ ~io[b].read)
      BY <1>3, LiveFacts DEF CpInv
    <2> QED
      BY <1>3, <1>4, <2>1
  <1>6. (cut => cut') /\ (cut' \/ (Head(cq).res = io[b].len /\ ~io[b].read))
    <2>1. cut' <=> cut \/ Head(cq).res < io[b].len
      BY <1>1, <1>2
    <2>2. Head(cq).res < io[b].len \/ Head(cq).res = io[b].len
      BY <1>3
    <2> QED
      BY <1>5, <2>1, <2>2, Zenon
  <1>7. /\ Described' /\ Completed' /\ Started' /\ Blocks' = Blocks
        /\ io' \in [Blocks -> IoData \cup {Hole}] /\ flight' \in SUBSET Blocks
        /\ cq' \in Seq([block : Blocks, res : Int])
        /\ Live(TRUE)' = Live(TRUE) \ {b} /\ Live(FALSE)' = Live(FALSE) \ {b}
    BY <1>1, <1>2, <1>6, Freed
  <1>8. CpType'
    <2>1. writes' \in Nat
      BY <1>1 DEF CpInv, CpType
    <2>2. cut' \in BOOLEAN
      BY <1>1
    <2> QED
      BY <1>1, <1>7, <2>1, <2>2 DEF CpInv, CpType
  <1>9. Counted'
    BY <1>1 DEF Counted
  <1>10. Ending'
    <2>1. ~cut' => Live(TRUE)' = {} /\ writes' = Cardinality(Live(FALSE)') /\ insize' = 0
      <3> SUFFICES ASSUME ~cut' PROVE Live(TRUE)' = {} /\ writes' = Cardinality(Live(FALSE)') /\ insize' = 0
        OBVIOUS
      <3>1. Live(TRUE) = {} /\ writes = Cardinality(Live(FALSE)) /\ insize = 0 /\ b \in Live(FALSE)
        BY <1>4, <1>5, <1>6, Zenon
      <3>2. IsFiniteSet(Live(FALSE))
        BY LiveFacts DEF CpInv
      <3>3. Cardinality(Live(FALSE) \ {b}) = Cardinality(Live(FALSE)) - 1
        BY <3>1, <3>2, FS_RemoveElement
      <3> QED
        BY <1>1, <1>7, <3>1, <3>3
    <2> QED
      BY <1>1, <2>1 DEF CpInv, Ending
  <1> QED
    BY <1>7, <1>8, <1>9, <1>10 DEF CpInv

-----------------------------------------------------------------------------
(* How many reads one turn of the loop starts, and what they cover. *)
LEMMA FillStarts ==
  ASSUME CpInv, cpAt = "fill"
  PROVE  LET n == Min({QD - (reads + writes), (insize + BS - 1) \div BS})
             taken == Min({n * BS, insize})
             starts == {b \in Blocks : b \in offset .. offset + taken - 1}
         IN
         /\ n \in Nat /\ reads + n + writes <= QD /\ taken \in Nat /\ taken <= insize
         /\ starts \in SUBSET Blocks /\ Cardinality(starts) = n /\ IsFiniteSet(starts)
         /\ \A b \in starts : b >= offset /\ b < offset + taken
         /\ \A b \in Blocks : b >= offset /\ b < offset + taken => b \in starts
         /\ (offset + taken # fileSize => (offset + taken) % BS = 0)
         /\ \A p \in offset .. offset + taken - 1 : \E b \in starts : b <= p /\ p < b + BlockLen(b)
  <1> DEFINE q == (insize + BS - 1) \div BS
             room == QD - (reads + writes)
             n == Min({room, q})
             taken == Min({n * BS, insize})
             starts == {b \in Blocks : b \in offset .. offset + taken - 1}
  <1> HIDE DEF q, room, n, taken, starts
  <1>1. /\ fileSize \in Nat /\ insize \in Nat /\ offset \in Nat /\ reads \in Nat /\ writes \in Nat
        /\ offset + insize = fileSize /\ (offset # fileSize => offset % BS = 0)
        /\ QD \in Nat /\ BS \in Nat /\ BS > 0 /\ reads + writes <= QD
    <2>1. fileSize \in Nat /\ insize \in Nat /\ offset \in Nat /\ reads \in Nat /\ writes \in Nat
      BY DEF CpInv, CpType
    <2>2. offset + insize = fileSize /\ (offset # fileSize => offset % BS = 0)
      BY DEF CpInv, Started
    <2>3. reads + writes <= QD
      BY DEF CpInv, Counted
    <2> QED
      BY <2>1, <2>2, <2>3, CpAssumption
  <1>2. insize + BS - 1 \in Nat /\ room \in Nat
    BY <1>1 DEF room
  <1>3. q \in Nat /\ BS * q \in Nat /\ BS * q <= insize + BS - 1
    BY <1>2, <1>1, DivMod DEF q
  <1>4. n = (IF room <= q THEN room ELSE q)
    BY <1>2, <1>3, MinTwo DEF n
  <1>5. n \in Nat /\ n <= q /\ n <= room
    BY <1>2, <1>3, <1>4
  <1>6. reads + n + writes <= QD
    BY <1>1, <1>5 DEF room
  <1>7. n * BS \in Nat
    BY <1>1, <1>5
  <1>8. taken = (IF n * BS <= insize THEN n * BS ELSE insize)
    BY <1>1, <1>7, MinTwo DEF taken
  <1>9. taken \in Nat /\ taken <= insize
    BY <1>1, <1>7, <1>8
  <1>10. Cardinality(starts) = n /\ (offset + taken # fileSize => (offset + taken) % BS = 0)
    <2>1. CASE insize = 0
      <3>1. q = 0
        <4> SUFFICES ASSUME q >= 1 PROVE FALSE
          BY <1>3
        <4>1. BS * 1 <= BS * q
          BY <1>1, <1>3
        <4> QED
          BY <1>1, <1>3, <2>1, <4>1
      <3>2. n = 0 /\ taken = 0
        BY <1>5, <1>9, <2>1, <3>1
      <3>3. starts = {}
        BY <1>1, <3>2 DEF starts
      <3> QED
        BY <1>1, <2>1, <3>2, <3>3, FS_EmptySet
    <2>2. CASE insize # 0
      <3>1. insize > 0 /\ offset % BS = 0
        BY <1>1, <2>2
      <3> QED
        BY <1>1, <1>5, <1>9, <3>1, StartsCount DEF starts, taken, q
    <2> QED
      BY <2>1, <2>2
  <1>11. starts \in SUBSET Blocks /\ IsFiniteSet(starts)
    <2>1. starts \in SUBSET Blocks
      BY DEF starts
    <2> QED
      BY <1>1, <2>1, BlockFacts, FS_Subset
  <1>12. \A b \in Blocks : b \in Nat
    BY <1>1, BlockFacts
  <1>13. /\ \A b \in starts : b >= offset /\ b < offset + taken
         /\ \A b \in Blocks : b >= offset /\ b < offset + taken => b \in starts
    BY <1>1, <1>9, <1>12 DEF starts
  <1>14. ASSUME NEW p \in offset .. offset + taken - 1 PROVE \E b \in starts : b <= p /\ p < b + BlockLen(b)
    <2>1. p \in 0 .. fileSize - 1 /\ p < offset + taken /\ offset <= p
      BY <1>1, <1>9
    <2>2. PICK b \in Blocks : b <= p /\ p < b + BlockLen(b) /\ \A c \in Nat : c <= p /\ c % BS = 0 => c <= b
      BY <1>1, <2>1, BlockOf
    <2>3. offset # fileSize
      BY <1>1, <1>9, <2>1
    <2>4. offset <= b
      BY <1>1, <2>1, <2>2, <2>3
    <2>5. b < offset + taken
      BY <1>1, <1>9, <1>12, <2>1, <2>2
    <2> QED
      BY <1>13, <2>2, <2>4, <2>5
  <1> QED
    BY <1>5, <1>6, <1>9, <1>10, <1>11, <1>13, <1>14 DEF q, room, n, taken, starts

LEMMA FreshRead ==
  ASSUME fileSize \in Nat, NEW b \in Blocks, NEW out
  PROVE  LET e == queue_read(BlockLen(b), b) IN
         e \in IoData /\ e # Hole /\ e.read = TRUE /\ Describes(e, b, BlockLen(b), out)
  <1> DEFINE L == BlockLen(b)
             buf == [k \in 0 .. L - 1 |-> Hole]
             e == queue_read(L, b)
  <1>1. L \in Nat /\ b \in Nat
    BY BlockFacts
  <1>2. buf \in [0 .. L - 1 -> Nat \cup {Hole}]
    OBVIOUS
  <1>3. buf \in Buffers
    BY <1>2, BufferType DEF Bytes
  <1>4. e = [read |-> TRUE, offset |-> b, base |-> 0, len |-> L, first_len |-> L, buffer |-> buf]
    BY DEF queue_read
  <1> HIDE DEF buf, e, L
  <1>5. e \in IoData
    BY <1>1, <1>3, <1>4 DEF IoData
  <1>6. e.read = TRUE /\ e.offset = b /\ e.base = 0 /\ e.len = L /\ e.first_len = L /\ e.buffer = buf
    BY <1>4
  <1>7. Placed(b, L, e, out, 0)
    BY <1>1 DEF Placed
  <1>8. Describes(e, b, L, out)
    BY <1>1, <1>2, <1>6, <1>7 DEF Describes
  <1>9. e # Hole
    BY <1>5, CpAssumption
  <1> QED
    BY <1>5, <1>6, <1>8, <1>9 DEF e, L

LEMMA Disjoint ==
  ASSUME NEW S, NEW T, IsFiniteSet(S), IsFiniteSet(T), S \cap T = {}
  PROVE  Cardinality(S \cup T) = Cardinality(S) + Cardinality(T)
  <1>1. Cardinality(S) \in Nat /\ Cardinality(T) \in Nat
    BY FS_CardinalityType
  <1>2. Cardinality(S \cup T) = Cardinality(S) + Cardinality(T) - Cardinality(S \cap T)
    BY FS_Union
  <1>3. Cardinality(S \cap T) = 0
    BY FS_EmptySet
  <1> QED
    BY <1>1, <1>2, <1>3

LEMMA FillKeeps == ASSUME CpInv, Fill PROVE CpInv'
  <1> DEFINE n == Min({QD - (reads + writes), (insize + BS - 1) \div BS})
             taken == Min({n * BS, insize})
             starts == {b \in Blocks : b \in offset .. offset + taken - 1}
  <1>1. /\ io' = [b \in Blocks |-> IF b \in starts THEN queue_read(BlockLen(b), b) ELSE io[b]]
        /\ insize' = insize - taken /\ offset' = offset + taken /\ reads' = reads + n
        /\ \/ flight' = flight \cup starts /\ cpAt' = "comp" /\ UNCHANGED cut
           \/ n > 0 /\ cpAt' = "drain" /\ cut' = TRUE /\ UNCHANGED flight
    BY DEF Fill, BlockLen
  <1>2. cpAt = "fill" /\ UNCHANGED <<fileSize, write_left, writes, cpRet, cq, outfile>>
    BY DEF Fill
  <1>3. /\ n \in Nat /\ reads + n + writes <= QD /\ taken \in Nat /\ taken <= insize
        /\ starts \in SUBSET Blocks /\ Cardinality(starts) = n /\ IsFiniteSet(starts)
        /\ \A b \in starts : b >= offset /\ b < offset + taken
        /\ \A b \in Blocks : b >= offset /\ b < offset + taken => b \in starts
        /\ (offset + taken # fileSize => (offset + taken) % BS = 0)
        /\ \A p \in offset .. offset + taken - 1 : \E b \in starts : b <= p /\ p < b + BlockLen(b)
    BY <1>2, FillStarts
  <1> HIDE DEF n, taken, starts
  <1>4. /\ fileSize \in Nat /\ insize \in Nat /\ offset \in Nat /\ reads \in Nat /\ writes \in Nat
        /\ io \in [Blocks -> IoData \cup {Hole}] /\ flight \in SUBSET Blocks /\ offset + insize = fileSize
        /\ ~cut /\ cut \in BOOLEAN
    BY <1>2 DEF CpInv, CpType, Started, Counted
  <1>5. Blocks' = Blocks /\ (\A c : BlockLen(c)' = BlockLen(c) /\ Bytes(c)' = Bytes(c)) /\ \A b \in Blocks : b \in Nat
    BY <1>2, <1>4, SameBlocks, BlockFacts
  <1>6. \A b \in starts : /\ io[b] = Hole /\ io'[b] \in IoData /\ io'[b] # Hole /\ io'[b].read = TRUE
                          /\ Describes(io'[b], b, BlockLen(b), outfile)
    <2> SUFFICES ASSUME NEW b \in starts
                 PROVE  /\ io[b] = Hole /\ io'[b] \in IoData /\ io'[b] # Hole /\ io'[b].read = TRUE
                        /\ Describes(io'[b], b, BlockLen(b), outfile)
      OBVIOUS
    <2>1. b \in Blocks /\ io[b] = Hole
      BY <1>3 DEF CpInv, Started
    <2>2. io'[b] = queue_read(BlockLen(b), b)
      BY <1>1, <2>1
    <2> QED
      BY <1>4, <2>1, <2>2, FreshRead
  <1>7. \A b \in Blocks \ starts : io'[b] = io[b]
    BY <1>1
  <1>8. io' \in [Blocks -> IoData \cup {Hole}] /\ flight' \in SUBSET Blocks /\ cut' \in BOOLEAN
    <2>1. \A b \in Blocks : io'[b] \in IoData \cup {Hole}
      BY <1>4, <1>6, <1>7
    <2>2. io' = [b \in Blocks |-> io'[b]]
      BY <1>1
    <2>3. io' \in [Blocks -> IoData \cup {Hole}]
      BY <2>1, <2>2
    <2>4. flight' \in SUBSET Blocks /\ cut' \in BOOLEAN
      BY <1>1, <1>3, <1>4
    <2> QED
      BY <2>3, <2>4
  <1>9. insize' \in Nat /\ offset' \in Nat /\ reads' \in Nat /\ offset' + insize' = fileSize
    BY <1>1, <1>3, <1>4
  <1>10. CpType'
    BY <1>1, <1>2, <1>5, <1>8, <1>9 DEF CpInv, CpType
  <1>11. Described'
    <2> SUFFICES ASSUME NEW b \in Blocks, io'[b] # Hole PROVE Describes(io'[b], b, BlockLen(b), outfile)
      BY <1>2, <1>5 DEF Described
    <2>1. CASE b \in starts
      BY <1>6, <2>1
    <2>2. CASE b \notin starts
      BY <1>7, <2>2 DEF CpInv, Described
    <2> QED
      BY <2>1, <2>2
  <1>12. \A b \in Blocks : io[b] # Hole => b \notin starts /\ io'[b] = io[b]
    BY <1>6, <1>7
  <1>13. Completed'
    <2>1. ASSUME NEW i \in DOMAIN cq
          PROVE  LET c == cq[i].block IN
                 /\ io'[c] # Hole /\ c \notin flight' /\ cq[i].res <= io'[c].len
                 /\ Placed(c, BlockLen(c), io'[c], outfile, io'[c].base + cq[i].res)
      <3> DEFINE c == cq[i].block
      <3>1. /\ io[c] # Hole /\ c \notin flight /\ cq[i].res <= io[c].len
            /\ Placed(c, BlockLen(c), io[c], outfile, io[c].base + cq[i].res)
        BY DEF CpInv, Completed
      <3>2. c \in Blocks
        <4> DEFINE R == [block : Blocks, res : Int]
        <4>1. cq \in Seq(R)
          BY DEF CpInv, CpType
        <4> HIDE DEF R
        <4>2. cq[i] \in R
          BY <4>1
        <4> QED
          BY <4>2 DEF R
      <3>3. c \notin starts /\ io'[c] = io[c]
        BY <1>12, <3>1, <3>2
      <3> QED
        BY <1>1, <3>1, <3>3
    <2>2. \A c \in flight' : io'[c] # Hole
      BY <1>1, <1>4, <1>6, <1>12 DEF CpInv, Completed
    <2> QED
      BY <1>2, <1>5, <2>1, <2>2 DEF CpInv, Completed
  <1>14. Started'
    <2>1. \A b \in Blocks : b >= offset' => io'[b] = Hole
      <3> SUFFICES ASSUME NEW b \in Blocks, b >= offset' PROVE io'[b] = Hole
        OBVIOUS
      <3>1. b >= offset /\ ~(b < offset + taken)
        BY <1>1, <1>3, <1>4, <1>5
      <3> QED
        BY <1>3, <1>7, <3>1 DEF CpInv, Started
    <2>2. \A b \in Blocks : b < offset' /\ io'[b] = Hole => \A k \in Bytes(b) : outfile[b + k] = b + k
      <3> SUFFICES ASSUME NEW b \in Blocks, b < offset', io'[b] = Hole PROVE \A k \in Bytes(b) : outfile[b + k] = b + k
        OBVIOUS
      <3>1. b \notin starts
        BY <1>6
      <3>2. b < offset
        BY <1>1, <1>3, <1>4, <1>5, <3>1
      <3> QED
        BY <1>4, <1>7, <3>1, <3>2 DEF CpInv, Started
    <2> QED
      BY <1>1, <1>2, <1>3, <1>5, <1>9, <2>1, <2>2 DEF Started
  <1>15. Live(TRUE)' = Live(TRUE) \cup starts /\ Live(FALSE)' = Live(FALSE)
    BY <1>3, <1>5, <1>6, <1>7 DEF Live
  <1>16. Cardinality(Live(TRUE)') = Cardinality(Live(TRUE)) + n
    <2>1. IsFiniteSet(Live(TRUE))
      BY LiveFacts DEF CpInv
    <2>2. Live(TRUE) \cap starts = {}
      BY <1>6 DEF Live
    <2>3. Cardinality(Live(TRUE) \cup starts) = Cardinality(Live(TRUE)) + Cardinality(starts)
      BY <1>3, <2>1, <2>2, Disjoint
    <2> QED
      BY <1>3, <1>15, <2>3
  <1>17. Unread' = Unread
    <2>1. ASSUME NEW p \in 0 .. fileSize - 1 PROVE p \in Unread' <=> p \in Unread
      <3>1. p \in Unread' <=> p >= offset' \/ \E c \in Live(TRUE) \cup starts : c <= p /\ p < c + BlockLen(c)
        BY <1>2, <1>5, <1>15 DEF Unread
      <3>2. p \in Unread <=> p >= offset \/ \E c \in Live(TRUE) : c <= p /\ p < c + BlockLen(c)
        BY DEF Unread
      <3>3. p \in Nat /\ (p >= offset' => p >= offset)
        BY <1>1, <1>3, <1>4
      <3>4. p >= offset /\ ~(p >= offset') => p \in offset .. offset + taken - 1
        BY <1>1, <1>3, <1>4
      <3>5. \A c \in starts : c <= p => p >= offset
        BY <1>3, <1>4, <1>5
      <3> QED
        BY <1>3, <3>1, <3>2, <3>3, <3>4, <3>5
    <2>2. Unread' \subseteq 0 .. fileSize - 1 /\ Unread \subseteq 0 .. fileSize - 1
      BY <1>2 DEF Unread
    <2> QED
      BY <2>1, <2>2
  <1>18. Counted'
    <2> SUFFICES ASSUME cpAt' \in {"fill", "comp"} PROVE Counted'
      BY DEF Counted
    <2>1. flight' = flight \cup starts /\ cut' = cut
      BY <1>1
    <2>2. /\ write_left = Cardinality(Unread) /\ reads = Cardinality(Live(TRUE)) /\ writes = Cardinality(Live(FALSE))
          /\ Live(TRUE) \cup Live(FALSE) = flight \cup CqBlocks
      BY <1>2 DEF CpInv, Counted
    <2>3. CqBlocks' = CqBlocks
      BY <1>2 DEF CqBlocks
    <2>4. Live(TRUE)' \cup Live(FALSE)' = flight' \cup CqBlocks'
      BY <1>15, <2>1, <2>2, <2>3
    <2>5. reads' + writes' <= QD
      BY <1>1, <1>2, <1>3
    <2>6. reads' = Cardinality(Live(TRUE)') /\ writes' = Cardinality(Live(FALSE)') /\ write_left' = Cardinality(Unread')
      BY <1>1, <1>2, <1>15, <1>16, <1>17, <2>2
    <2> QED
      BY <1>4, <2>1, <2>4, <2>5, <2>6 DEF Counted
  <1>19. Ending'
    BY <1>1, <1>2 DEF CpInv, Ending
  <1> QED
    BY <1>10, <1>11, <1>13, <1>14, <1>18, <1>19 DEF CpInv

-----------------------------------------------------------------------------
(* The loops end.  With nothing left to start and to write no read is left *)
(* in the ring.                                                            *)
LEMMA EndsKeep == ASSUME CpInv, FillEnds \/ CompEnds PROVE CpInv'
  <1>1. /\ UNCHANGED <<fileSize, insize, write_left, offset, reads, writes, cpRet, io, flight, cq, outfile, cut>>
        /\ cpAt \in {"fill", "comp"} /\ write_left = 0
        /\ \/ cpAt' = "fill"
           \/ cpAt' = "drain" /\ insize = 0
    BY DEF FillEnds, CompEnds, countVars
  <1>2. /\ Described' /\ Completed' /\ Started'
        /\ Unread' = Unread /\ CqBlocks' = CqBlocks /\ Live(TRUE)' = Live(TRUE) /\ Live(FALSE)' = Live(FALSE)
    BY <1>1, Untouched DEF CpInv
  <1>3. Blocks' = Blocks
    BY <1>1, SameBlocks
  <1>4. CpType'
    BY <1>1, <1>3 DEF CpInv, CpType
  <1>5. Counted'
    BY <1>1, <1>2 DEF CpInv, Counted
  <1>6. Live(TRUE) = {} /\ writes = Cardinality(Live(FALSE))
    <2>1. writes = Cardinality(Live(FALSE)) /\ Cardinality(Unread) = 0
      BY <1>1 DEF CpInv, Counted
    <2>2. fileSize \in Nat
      BY DEF CpInv, CpType
    <2>3. IsFiniteSet(0 .. fileSize - 1) /\ Unread \in SUBSET (0 .. fileSize - 1)
      <3>1. Unread \in SUBSET (0 .. fileSize - 1)
        BY DEF Unread
      <3> QED
        BY <2>2, <3>1, FS_Interval
    <2>4. IsFiniteSet(Unread)
      BY <2>3, FS_Subset
    <2>5. Unread = {}
      BY <2>1, <2>4, FS_EmptySet
    <2>6. ASSUME NEW b \in Live(TRUE) PROVE b \in Unread
      <3>1. b \in Blocks
        BY DEF Live
      <3>2. b \in 0 .. fileSize - 1 /\ b <= b /\ b < b + BlockLen(b)
        BY <2>2, <3>1, BlockFacts
      <3> QED
        BY <3>2 DEF Unread
    <2> QED
      BY <2>1, <2>5, <2>6
  <1>7. Ending'
    BY <1>1, <1>2, <1>6 DEF CpInv, Ending
  <1> QED
    BY <1>2, <1>4, <1>5, <1>7 DEF CpInv

(* The copy is given up. *)
LEMMA FailsKeeps == ASSUME CpInv, Fails PROVE CpInv'
  <1>1. /\ UNCHANGED <<fileSize, insize, write_left, offset, reads, writes, io, flight, cq, outfile, cut>>
        /\ cpAt' = "returned" /\ cpRet' = 1
    BY DEF Fails, countVars
  <1>2. Described' /\ Completed' /\ Started'
    BY <1>1, Untouched DEF CpInv
  <1>3. Blocks' = Blocks
    BY <1>1, SameBlocks
  <1>4. CpType'
    BY <1>1, <1>3 DEF CpInv, CpType
  <1>5. Counted' /\ Ending'
    BY <1>1 DEF CpInv, Counted, Ending
  <1> QED
    BY <1>2, <1>4, <1>5 DEF CpInv

(* No write is left: every block was finished. *)
LEMMA DrainEndsKeeps == ASSUME CpInv, DrainEnds PROVE CpInv'
  <1>1. /\ UNCHANGED <<fileSize, insize, write_left, offset, reads, writes, io, flight, cq, outfile, cut>>
        /\ cpAt = "drain" /\ writes = 0 /\ cpAt' = "returned"
    BY DEF DrainEnds, countVars
  <1>2. Described' /\ Completed' /\ Started'
    BY <1>1, Untouched DEF CpInv
  <1>3. Blocks' = Blocks
    BY <1>1, SameBlocks
  <1>4. CpType'
    BY <1>1, <1>3 DEF CpInv, CpType
  <1>5. Counted'
    BY <1>1 DEF Counted
  <1>6. ASSUME ~cut, NEW p \in 0 .. fileSize - 1 PROVE outfile[p] = p
    <2>1. Live(TRUE) = {} /\ Cardinality(Live(FALSE)) = 0 /\ insize = 0
      BY <1>1, <1>6 DEF CpInv, Ending
    <2>2. Live(FALSE) = {}
      BY <2>1, LiveFacts, FS_EmptySet DEF CpInv
    <2>3. \A b \in Blocks : io[b] = Hole
      BY <2>1, <2>2, LiveFacts DEF CpInv
    <2>4. fileSize \in Nat /\ offset = fileSize
      BY <2>1 DEF CpInv, CpType, Started
    <2>5. PICK b \in Blocks : b <= p /\ p < b + BlockLen(b)
      BY <2>4, BlockOf
    <2>6. b \in Nat /\ b < offset /\ BlockLen(b) \in Nat
      BY <2>4, BlockFacts
    <2>7. p - b \in Bytes(b) /\ b + (p - b) = p
      BY <2>4, <2>5, <2>6 DEF Bytes
    <2>8. outfile[b + (p - b)] = b + (p - b)
      BY <1>6, <2>3, <2>6, <2>7 DEF CpInv, Started
    <2> QED
      BY <2>7, <2>8
  <1>7. Ending'
    BY <1>1, <1>6 DEF CpInv, Ending
  <1> QED
    BY <1>2, <1>4, <1>5, <1>7 DEF CpInv

LEMMA CpStep == CpInv /\ [CpNext]_cpVars => CpInv'
  <1> SUFFICES ASSUME CpInv, [CpNext]_cpVars PROVE CpInv'
    OBVIOUS
  <1>1. CASE Fill
    BY <1>1, FillKeeps
  <1>2. CASE FillEnds \/ CompEnds
    BY <1>2, EndsKeep
  <1>3. CASE WaitFails \/ PeekFails \/ CqeFails \/ DrainFails
    BY <1>3, FailsKeeps DEF WaitFails, PeekFails, CqeFails, DrainFails
  <1>4. CASE Requeue
    BY <1>4, RequeueKeeps
  <1>5. CASE ReadDone
    BY <1>5, ReadDoneKeeps
  <1>6. CASE WriteDone
    BY <1>6, WriteDoneKeeps
  <1>7. CASE Drain
    BY <1>7, DrainKeeps
  <1>8. CASE DrainEnds
    BY <1>8, DrainEndsKeeps
  <1>9. CASE CpOver \/ UNCHANGED cpVars
    <2>1. UNCHANGED <<fileSize, insize, write_left, offset, reads, writes, cpAt, cpRet, io, flight, cq, outfile, cut>>
      BY <1>9 DEF CpOver, cpVars, countVars
    <2>2. /\ Described' /\ Completed' /\ Started'
          /\ Unread' = Unread /\ CqBlocks' = CqBlocks /\ Live(TRUE)' = Live(TRUE) /\ Live(FALSE)' = Live(FALSE)
      BY <2>1, Untouched DEF CpInv
    <2>3. Blocks' = Blocks
      BY <2>1, SameBlocks
    <2>4. CpType'
      BY <2>1, <2>3 DEF CpInv, CpType
    <2>5. Counted' /\ Ending'
      BY <2>1, <2>2 DEF CpInv, Counted, Ending
    <2> QED
      BY <2>2, <2>4, <2>5 DEF CpInv
  <1>10. ASSUME NEW b \in flight, NEW res \in {EAGAIN, EIO} \cup 1 .. BS, KernelDone(b, res) PROVE CpInv'
    <2>1. res \in Int
      BY CpAssumption DEF EAGAIN, EIO
    <2> QED
      BY <1>10, <2>1, KernelKeeps
  <1> QED
    BY <1>1, <1>2, <1>3, <1>4, <1>5, <1>6, <1>7, <1>8, <1>9, <1>10 DEF CpNext

(* The completions are as many as their blocks. *)
LEMMA CqCount == ASSUME CpInv PROVE Cardinality(CqBlocks) = Len(cq) /\ IsFiniteSet(CqBlocks)
  <1> DEFINE f == [i \in DOMAIN cq |-> cq[i].block]
  <1>1. Len(cq) \in Nat /\ DOMAIN cq = 1 .. Len(cq)
    <2> DEFINE R == [block : Blocks, res : Int]
    <2>1. cq \in Seq(R)
      BY DEF CpInv, CpType
    <2> HIDE DEF R
    <2> QED
      BY <2>1
  <1>2. f \in Bijection(DOMAIN cq, CqBlocks)
    BY DEF CpInv, Completed, CqBlocks, Bijection, Injection, Surjection, IsInjective
  <1>3. IsFiniteSet(DOMAIN cq) /\ Cardinality(DOMAIN cq) = Len(cq)
    <2>1. \A m \in Nat : IsFiniteSet(1 .. m) /\ Cardinality(1 .. m) = m
      BY FS_Interval
    <2> QED
      BY <1>1, <2>1
  <1>4. ExistsBijection(DOMAIN cq, CqBlocks)
    BY <1>2 DEF ExistsBijection
  <1> QED
    BY <1>3, <1>4, FS_Bijection

(* io_uring-cp.c, for every file, block size and depth of the ring, and    *)
(* whatever the kernel completes in part, out of order or with EAGAIN: no  *)
(* byte lands in the wrong place, the counters are the requests in the     *)
(* ring and fit in it, and a copy that returns 0 is complete, unless a     *)
(* submit failed or a write of the last loop was short.                    *)
THEOREM CopyKept == CpSpec => []CopySound
  <1>1. CpInv => CopySound
    <2> SUFFICES ASSUME CpInv PROVE CopySound
      OBVIOUS
    <2>1. DOMAIN outfile = 0 .. fileSize - 1
      BY DEF CpInv, CpType
    <2>2. /\ \A p \in DOMAIN outfile : outfile[p] \in {Hole, p}
          /\ cpAt = "returned" /\ cpRet = 0 /\ ~cut => \A p \in DOMAIN outfile : outfile[p] = p
      BY <2>1 DEF CpInv, Ending
    <2>3. ASSUME cpAt \in {"fill", "comp"}
          PROVE  /\ reads = Cardinality(Live(TRUE)) /\ writes = Cardinality(Live(FALSE))
                 /\ reads + writes = Cardinality(flight) + Len(cq) /\ reads + writes <= QD
      <3>1. /\ reads = Cardinality(Live(TRUE)) /\ writes = Cardinality(Live(FALSE)) /\ reads + writes <= QD
            /\ Live(TRUE) \cup Live(FALSE) = flight \cup CqBlocks
        BY <2>3 DEF CpInv, Counted
      <3>2. IsFiniteSet(Live(TRUE)) /\ IsFiniteSet(Live(FALSE))
        BY LiveFacts DEF CpInv
      <3>3. Live(TRUE) \cap Live(FALSE) = {} /\ flight \cap CqBlocks = {}
        BY DEF Live, CpInv, Completed, CqBlocks
      <3>4. Cardinality(Live(TRUE) \cup Live(FALSE)) = reads + writes
        BY <3>1, <3>2, <3>3, Disjoint
      <3>5. IsFiniteSet(CqBlocks) /\ Cardinality(CqBlocks) = Len(cq)
        BY CqCount
      <3>6. IsFiniteSet(flight)
        <4>1. IsFiniteSet(Blocks) /\ flight \in SUBSET Blocks
          BY BlockFacts DEF CpInv, CpType
        <4> QED
          BY <4>1, FS_Subset
      <3>7. Cardinality(flight \cup CqBlocks) = Cardinality(flight) + Len(cq)
        BY <3>3, <3>5, <3>6, Disjoint
      <3> QED
        BY <3>1, <3>4, <3>7
    <2> QED
      BY <2>2, <2>3 DEF CopySound
  <1> QED
    BY <1>1, CpStart, CpStep, PTL DEF CpSpec

-----------------------------------------------------------------------------
(* A set of naturals has a least element. *)
LEMMA Least == ASSUME NEW S \in SUBSET Nat, S # {} PROVE \E x \in S : \A y \in S : x <= y
  <1>1. \E x \in S : \A y \in S : ~(<<y, x>> \in OpToRel(<, Nat))
    BY NatLessThanWellFounded, WFMin, Zenon
  <1>2. \A p \in Nat \X Nat : p[1] < p[2] => p \in OpToRel(<, Nat)
    BY Zenon DEF OpToRel
  <1>3. \A x, y \in Nat : y < x => <<y, x>> \in OpToRel(<, Nat)
    <2> SUFFICES ASSUME NEW x \in Nat, NEW y \in Nat, y < x PROVE <<y, x>> \in OpToRel(<, Nat)
      OBVIOUS
    <2>1. <<y, x>> \in Nat \X Nat /\ <<y, x>>[1] = y /\ <<y, x>>[2] = x
      OBVIOUS
    <2>2. <<y, x>>[1] < <<y, x>>[2]
      BY <2>1
    <2> QED
      BY <1>2, <2>1, <2>2, Zenon
  <1>4. \E x \in S : \A y \in S : ~(y < x)
    BY <1>1, <1>3, Zenon
  <1> QED
    BY <1>4

-----------------------------------------------------------------------------
(* tcp_server_iouring.c.  The requests that are ever prepared and the      *)
(* completions that are ever seen: recv on the descriptor of a failed      *)
(* accept fails, and nothing is sent to it.                                *)
Reqs == {r \in [type : {"ACCEPT", "READ", "WRITE"}, fd : UringFds \cup {-1}, len : 0 .. BUFFER_LENGTH] :
            /\ r.type = "READ" => r.len = BUFFER_LENGTH
            /\ r.type = "WRITE" => r.fd # -1 /\ r.len # 0}
Cqes == {e \in [type : {"ACCEPT", "READ", "WRITE"}, fd : UringFds \cup {-1}, res : Int] :
            /\ e.type = "ACCEPT" => e.res \in UringFds \cup {-1}
            /\ e.type = "READ" => e.res \in -1 .. BUFFER_LENGTH /\ (e.fd = -1 => e.res = -1)
            /\ e.type = "WRITE" => e.fd # -1}
UringBytes == {<<>>} \cup (UringPeers \X Nat)

(* What is counted: the accepts, what is under way for a descriptor, and   *)
(* of that what there can be while nothing was read from it.               *)
Accepts == {r \in Reqs : r.type = "ACCEPT"} \cup {e \in Cqes : e.type = "ACCEPT"}
Of(f) == {r \in Reqs : r.type # "ACCEPT" /\ r.fd = f}
         \cup {e \in Cqes : IF e.type = "ACCEPT" THEN e.res = f ELSE e.fd = f}
Fresh(f) == {r \in Reqs : r.type = "READ" /\ r.fd = f}
            \cup {e \in Cqes : (e.type = "READ" /\ e.fd = f /\ e.res <= 0) \/ (e.type = "ACCEPT" /\ e.res = f)}
Tally(q, S) == Cardinality({i \in DOMAIN q : q[i] \in S})
Under(S, p, k, c) == Tally(p, S) + Cardinality(k \cap S) + Tally(c, S)
One(x, S) == IF x \in S THEN 1 ELSE 0

UtType ==
    /\ fdOf \in [UringFds -> UringPeers \cup {NoPeer}]
    /\ sends \in [UringPeers -> Nat] /\ recvd \in [UringPeers -> Nat] /\ pendingPeers \in Seq(UringPeers)
    /\ prepared \in Seq(Reqs) /\ inKernel \in SUBSET Reqs /\ IsFiniteSet(inKernel) /\ completions \in Seq(Cqes)
    /\ count \in 0 .. Len(completions)
    /\ buffer_table \in [UringFds -> [1 .. BUFFER_LENGTH -> UringBytes]] /\ got \in [UringPeers -> SUBSET UringBytes]
OneEach == /\ Under(Accepts, prepared, inKernel, completions) = 1
           /\ \A f \in UringFds : Under(Of(f), prepared, inKernel, completions) = IF fdOf[f] # NoPeer THEN 1 ELSE 0
OwnBytes == \A f \in UringFds : \A k \in 1 .. BUFFER_LENGTH : buffer_table[f][k] # <<>> =>
    fdOf[f] # NoPeer /\ buffer_table[f][k][1] = fdOf[f] /\ Under(Fresh(f), prepared, inKernel, completions) = 0
GotOwn == \A c \in UringPeers : \A b \in got[c] : b # <<>> => b[1] = c
UtInv == UtType /\ OneEach /\ OwnBytes /\ GotOwn

-----------------------------------------------------------------------------
LEMMA TallyType == ASSUME NEW T, NEW q \in Seq(T), NEW S
                   PROVE  Tally(q, S) \in Nat /\ IsFiniteSet({i \in DOMAIN q : q[i] \in S})
  <1>1. IsFiniteSet(1 .. Len(q)) /\ DOMAIN q = 1 .. Len(q)
    BY FS_Interval
  <1>2. IsFiniteSet({i \in DOMAIN q : q[i] \in S})
    BY <1>1, FS_Subset
  <1> QED
    BY <1>2, FS_CardinalityType DEF Tally

LEMMA TallyAppend == ASSUME NEW T, NEW q \in Seq(T), NEW x \in T, NEW S
                     PROVE  Tally(Append(q, x), S) = Tally(q, S) + One(x, S)
  <1> DEFINE A == {i \in DOMAIN q : q[i] \in S}
             B == {i \in DOMAIN Append(q, x) : Append(q, x)[i] \in S}
             n == Len(q) + 1
  <1>1. IsFiniteSet(A) /\ Cardinality(A) \in Nat
    BY TallyType DEF Tally
  <1>2. n \notin A /\ B = IF x \in S THEN A \cup {n} ELSE A
    <2>1. n \notin A /\ n \in Nat
      OBVIOUS
    <2>2. \A i : i \in B <=> i \in A \/ (i = n /\ x \in S)
      OBVIOUS
    <2> QED
      BY <2>1, <2>2
  <1>3. Cardinality(A \cup {n}) = Cardinality(A) + 1
    BY <1>1, <1>2, FS_AddElement
  <1> HIDE DEF A, B, n
  <1>4. Cardinality(B) = Cardinality(A) + One(x, S)
    BY <1>1, <1>2, <1>3 DEF One
  <1> QED
    BY <1>4 DEF Tally, A, B

LEMMA TallyTail == ASSUME NEW T, NEW q \in Seq(T), q # <<>>, NEW S
                   PROVE  Tally(q, S) = Tally(Tail(q), S) + One(Head(q), S)
  <1> DEFINE A == {i \in DOMAIN q : q[i] \in S}
             B == {i \in DOMAIN Tail(q) : Tail(q)[i] \in S}
             R == A \ {1}
             g == [i \in B |-> i + 1]
  <1>1. /\ Tail(q) \in Seq(T) /\ Len(Tail(q)) = Len(q) - 1 /\ Len(q) \in Nat \ {0}
        /\ \A i \in 1 .. Len(q) - 1 : Tail(q)[i] = q[i + 1]
        /\ DOMAIN q = 1 .. Len(q) /\ DOMAIN Tail(q) = 1 .. Len(q) - 1 /\ Head(q) = q[1]
    OBVIOUS
  <1>2. IsFiniteSet(A) /\ IsFiniteSet(B) /\ Cardinality(A) \in Nat /\ Cardinality(B) \in Nat
    BY <1>1, TallyType DEF Tally
  <1>3. ExistsBijection(B, R)
    <2>1. g \in [B -> R]
      BY <1>1
    <2>2. \A i, j \in B : g[i] = g[j] => i = j
      BY <1>1
    <2>3. \A r \in R : \E i \in B : g[i] = r
      <3> SUFFICES ASSUME NEW r \in R PROVE \E i \in B : g[i] = r
        OBVIOUS
      <3>1. r - 1 \in 1 .. Len(q) - 1 /\ (r - 1) + 1 = r
        BY <1>1
      <3>2. r - 1 \in B
        BY <1>1, <3>1
      <3> QED
        BY <3>1, <3>2
    <2>4. g \in Bijection(B, R)
      BY <2>1, <2>2, <2>3 DEF Bijection, Injection, Surjection, IsInjective
    <2> QED
      BY <2>4 DEF ExistsBijection
  <1>4. Cardinality(R) = Cardinality(B)
    BY <1>2, <1>3, FS_Bijection
  <1>5. Cardinality(R) = IF 1 \in A THEN Cardinality(A) - 1 ELSE Cardinality(A)
    BY <1>2, FS_RemoveElement
  <1>6. 1 \in A <=> Head(q) \in S
    BY <1>1
  <1> HIDE DEF A, B, R
  <1>7. Cardinality(A) = Cardinality(B) + One(Head(q), S)
    BY <1>2, <1>4, <1>5, <1>6 DEF One
  <1> QED
    BY <1>7 DEF Tally, A, B

LEMMA KernelTake == ASSUME NEW k, IsFiniteSet(k), NEW r \in k, NEW S
                    PROVE  /\ Cardinality(k \cap S) = Cardinality((k \ {r}) \cap S) + One(r, S)
                           /\ Cardinality(k \cap S) \in Nat /\ Cardinality((k \ {r}) \cap S) \in Nat
  <1>1. IsFiniteSet(k \cap S) /\ IsFiniteSet((k \ {r}) \cap S)
    BY FS_Subset
  <1>2. Cardinality(k \cap S) \in Nat /\ Cardinality((k \ {r}) \cap S) \in Nat
    BY <1>1, FS_CardinalityType
  <1>3. (k \ {r}) \cap S = (k \cap S) \ {r}
    OBVIOUS
  <1>4. Cardinality((k \cap S) \ {r}) = IF r \in k \cap S THEN Cardinality(k \cap S) - 1 ELSE Cardinality(k \cap S)
    BY <1>1, FS_RemoveElement
  <1> QED
    BY <1>2, <1>3, <1>4 DEF One

LEMMA UnderNat ==
  ASSUME NEW p \in Seq(Reqs), NEW k, IsFiniteSet(k), NEW c \in Seq(Cqes), NEW S
  PROVE  /\ Under(S, p, k, c) \in Nat /\ Tally(p, S) \in Nat /\ Cardinality(k \cap S) \in Nat /\ Tally(c, S) \in Nat
  <1>1. IsFiniteSet(k \cap S)
    BY FS_Subset
  <1>2. Cardinality(k \cap S) \in Nat
    BY <1>1, FS_CardinalityType
  <1>3. Tally(p, S) \in Nat /\ Tally(c, S) \in Nat
    BY TallyType
  <1> QED
    BY <1>2, <1>3 DEF Under

LEMMA UnderType == ASSUME UtType, NEW S
                   PROVE  /\ Under(S, prepared, inKernel, completions) \in Nat
                          /\ Tally(prepared, S) \in Nat /\ Cardinality(inKernel \cap S) \in Nat /\ Tally(completions, S) \in Nat
  BY UnderNat DEF UtType

(* io_uring_submit: what is prepared becomes the kernel's. *)
LEMMA Submitted ==
  ASSUME UtType, UtSubmit, NEW S, Under(S, prepared, inKernel, completions) <= 1
  PROVE  /\ IsFiniteSet(inKernel')
         /\ Under(S, prepared', inKernel', completions') = Under(S, prepared, inKernel, completions)
  <1> DEFINE p == prepared
             A == {i \in DOMAIN p : p[i] \in S}
             G == {p[i] : i \in DOMAIN p}
             K == inKernel \cap S
             L == inKernel' \cap S
             m == Cardinality(A)
             n == Cardinality(K)
             c == Tally(completions, S)
  <1>1. p \in Seq(Reqs) /\ IsFiniteSet(inKernel) /\ inKernel' = inKernel \cup G /\ prepared' = <<>> /\ completions' = completions
    BY DEF UtType, UtSubmit
  <1>2. IsFiniteSet(K) /\ IsFiniteSet(A)
    <2>1. IsFiniteSet(A)
      BY <1>1, TallyType
    <2>2. IsFiniteSet(K)
      BY <1>1, FS_Subset
    <2> QED
      BY <2>1, <2>2
  <1>3. \A x : x \in L <=> x \in K \/ \E i \in A : x = p[i]
    BY <1>1
  <1>4. IsFiniteSet(inKernel')
    <2>1. IsFiniteSet(DOMAIN p)
      <3>1. DOMAIN p = 1 .. Len(p) /\ Len(p) \in Int
        BY <1>1
      <3> QED
        BY <3>1, FinitePrefix
    <2>2. p \in Surjection(DOMAIN p, G)
      BY <1>1 DEF Surjection
    <2>3. IsFiniteSet(G)
      BY <2>1, <2>2, FS_Surjection
    <2> QED
      BY <1>1, <2>3, FS_Union
  <1>5. IsFiniteSet(L)
    BY <1>4, FS_Subset
  <1>6. m \in Nat /\ n \in Nat /\ c \in Nat /\ Cardinality(L) \in Nat
    BY <1>1, <1>2, <1>5, FS_CardinalityType, UnderType
  <1>7. Under(S, prepared, inKernel, completions) = m + n + c
    BY DEF Under, Tally
  <1>8. Under(S, prepared', inKernel', completions') = 0 + Cardinality(L) + c
    <2>1. {i \in DOMAIN <<>> : <<>>[i] \in S} = {}
      OBVIOUS
    <2>2. Tally(<<>>, S) = 0
      BY <2>1, FS_EmptySet DEF Tally
    <2> QED
      BY <1>1, <2>2 DEF Under
  <1> HIDE DEF A, G, K, L, c
  <1>9. m + n <= 1
    BY <1>6, <1>7
  <1>10. Cardinality(L) = m + n
    <2>1. CASE m = 0
      <3>1. A = {}
        BY <1>2, <2>1, FS_EmptySet
      <3>2. L = K
        BY <1>3, <3>1
      <3> QED
        BY <1>6, <2>1, <3>2
    <2>2. CASE m = 1
      <3>1. n = 0
        BY <1>6, <1>9, <2>2
      <3>2. K = {}
        BY <1>2, <3>1, FS_EmptySet
      <3>3. PICK i : A = {i}
        BY <1>2, <2>2, FS_Singleton
      <3>4. L = {p[i]}
        BY <1>3, <3>2, <3>3
      <3>5. Cardinality({p[i]}) = 1
        BY FS_Singleton
      <3> QED
        BY <2>2, <3>1, <3>4, <3>5
    <2> QED
      BY <1>6, <1>9, <2>1, <2>2
  <1> QED
    BY <1>4, <1>6, <1>7, <1>8, <1>10

LEMMA UnderPart == ASSUME UtType, NEW S, NEW N, N \subseteq S
                   PROVE  Under(N, prepared, inKernel, completions) <= Under(S, prepared, inKernel, completions)
  <1>1. ASSUME NEW T, NEW q \in Seq(T) PROVE Tally(q, N) <= Tally(q, S)
    <2>1. {i \in DOMAIN q : q[i] \in N} \subseteq {i \in DOMAIN q : q[i] \in S}
      OBVIOUS
    <2>2. IsFiniteSet({i \in DOMAIN q : q[i] \in S})
      BY TallyType
    <2> QED
      BY <2>1, <2>2, FS_Subset DEF Tally
  <1>2. Cardinality(inKernel \cap N) <= Cardinality(inKernel \cap S)
    <2>1. IsFiniteSet(inKernel \cap S) /\ inKernel \cap N \subseteq inKernel \cap S
      BY FS_Subset DEF UtType
    <2> QED
      BY <2>1, FS_Subset
  <1>3. Tally(prepared, N) <= Tally(prepared, S) /\ Tally(completions, N) <= Tally(completions, S)
    BY <1>1 DEF UtType
  <1> QED
    BY <1>2, <1>3, UnderType DEF Under

LEMMA OfRequest == ASSUME NEW r \in Reqs, NEW f
                   PROVE  /\ r \in Accepts <=> r.type = "ACCEPT"
                          /\ r \in Of(f) <=> r.type # "ACCEPT" /\ r.fd = f
                          /\ r \in Fresh(f) <=> r.type = "READ" /\ r.fd = f
  <1>1. r \notin Cqes
    BY DEF Reqs, Cqes
  <1> QED
    BY <1>1 DEF Accepts, Of, Fresh

LEMMA OfCompletion == ASSUME NEW e \in Cqes, NEW f
                      PROVE  /\ e \in Accepts <=> e.type = "ACCEPT"
                             /\ e \in Of(f) <=> IF e.type = "ACCEPT" THEN e.res = f ELSE e.fd = f
                             /\ e \in Fresh(f) <=> (e.type = "READ" /\ e.fd = f /\ e.res <= 0) \/ (e.type = "ACCEPT" /\ e.res = f)
  <1>1. e \notin Reqs
    BY DEF Reqs, Cqes
  <1> QED
    BY <1>1 DEF Accepts, Of, Fresh

LEMMA FreshOf == ASSUME NEW f PROVE Fresh(f) \subseteq Of(f)
  BY DEF Fresh, Of

(* A request is completed, and a completion is handled. *)
LEMMA UringDone ==
  ASSUME UtType, NEW r \in inKernel, NEW res, Complete(r, res), prepared' = prepared, count' = count,
         [type |-> r.type, fd |-> r.fd, res |-> res] \in Cqes
  PROVE  /\ inKernel' \in SUBSET Reqs /\ IsFiniteSet(inKernel') /\ completions' \in Seq(Cqes)
         /\ count' \in 0 .. Len(completions')
         /\ \A S : Under(S, prepared', inKernel', completions') =
                   Under(S, prepared, inKernel, completions) - One(r, S) + One([type |-> r.type, fd |-> r.fd, res |-> res], S)
  <1> DEFINE e == [type |-> r.type, fd |-> r.fd, res |-> res]
  <1>1. inKernel' = inKernel \ {r} /\ completions' = Append(completions, e)
    BY DEF Complete
  <1> HIDE DEF e
  <1>2. e \in Cqes
    BY DEF e
  <1>3. IsFiniteSet(inKernel')
    BY <1>1, FS_Subset DEF UtType
  <1>4. /\ inKernel' \in SUBSET Reqs /\ completions' \in Seq(Cqes) /\ count' \in 0 .. Len(completions')
    BY <1>1, <1>2 DEF UtType
  <1>5. ASSUME NEW S
        PROVE  Under(S, prepared', inKernel', completions') = Under(S, prepared, inKernel, completions) - One(r, S) + One(e, S)
    <2>1. Tally(completions', S) = Tally(completions, S) + One(e, S)
      BY <1>1, <1>2, TallyAppend DEF UtType
    <2>2. Cardinality(inKernel \cap S) = Cardinality(inKernel' \cap S) + One(r, S) /\ Cardinality(inKernel' \cap S) \in Nat
      BY <1>1, KernelTake DEF UtType
    <2> QED
      BY <2>1, <2>2, UnderType DEF Under, One
  <1> QED
    BY <1>3, <1>4, <1>5 DEF e

LEMMA Taken ==
  ASSUME UtType, NEW type, Answers(type), inKernel' = inKernel
  PROVE  /\ Head(completions) \in Cqes /\ Head(completions).type = type
         /\ completions' \in Seq(Cqes) /\ count' \in 0 .. Len(completions')
         /\ \A S : Tally(completions, S) = Tally(completions', S) + One(Head(completions), S) /\ Tally(completions', S) \in Nat
  <1>1. completions # <<>>
    BY DEF Answers, UtType
  <1>2. Head(completions) \in Cqes /\ completions' \in Seq(Cqes) /\ Len(completions') = Len(completions) - 1
    BY <1>1 DEF Answers, UtType
  <1>3. ASSUME NEW S
        PROVE  Tally(completions, S) = Tally(completions', S) + One(Head(completions), S) /\ Tally(completions', S) \in Nat
    BY <1>1, <1>2, TallyTail, TallyType DEF Answers, UtType
  <1>4. count' \in 0 .. Len(completions')
    BY <1>2 DEF Answers, UtType
  <1> QED
    BY <1>2, <1>3, <1>4 DEF Answers

LEMMA TakenOnly ==
  ASSUME UtType, NEW type, Answers(type), inKernel' = inKernel, prepared' = prepared, NEW S
  PROVE  Under(S, prepared', inKernel', completions') = Under(S, prepared, inKernel, completions) - One(Head(completions), S)
  <1>1. Tally(completions, S) = Tally(completions', S) + One(Head(completions), S) /\ Tally(completions', S) \in Nat
    BY Taken
  <1> QED
    BY <1>1, UnderType DEF Under, One

LEMMA TakenFor ==
  ASSUME UtType, NEW type, Answers(type), inKernel' = inKernel, NEW x \in Reqs, prepared' = Append(prepared, x), NEW S
  PROVE  Under(S, prepared', inKernel', completions') =
         Under(S, prepared, inKernel, completions) - One(Head(completions), S) + One(x, S)
  <1>1. Tally(completions, S) = Tally(completions', S) + One(Head(completions), S) /\ Tally(completions', S) \in Nat
    BY Taken
  <1>2. Tally(prepared', S) = Tally(prepared, S) + One(x, S)
    BY TallyAppend DEF UtType
  <1> QED
    BY <1>1, <1>2, UnderType DEF Under, One

LEMMA TakenForTwo ==
  ASSUME UtType, NEW type, Answers(type), inKernel' = inKernel, NEW x \in Reqs, NEW y \in Reqs,
         prepared' = prepared \o <<x, y>>, NEW S
  PROVE  Under(S, prepared', inKernel', completions') =
         Under(S, prepared, inKernel, completions) - One(Head(completions), S) + One(x, S) + One(y, S)
  <1>1. Tally(completions, S) = Tally(completions', S) + One(Head(completions), S) /\ Tally(completions', S) \in Nat
    BY Taken
  <1>2. prepared' = Append(Append(prepared, x), y) /\ Append(prepared, x) \in Seq(Reqs)
    <2>1. prepared \in Seq(Reqs) /\ <<x, y>> \in Seq(Reqs)
      BY DEF UtType
    <2>2. Append(prepared, x) \in Seq(Reqs)
      BY <2>1
    <2>3. Len(prepared') = Len(Append(Append(prepared, x), y)) /\ prepared' \in Seq(Reqs)
      BY <2>1
    <2>4. \A i \in 1 .. Len(prepared') : prepared'[i] = Append(Append(prepared, x), y)[i]
      BY <2>1
    <2> QED
      BY <2>2, <2>3, <2>4, SeqEqual
  <1>3. Tally(Append(prepared, x), S) = Tally(prepared, S) + One(x, S)
    BY TallyAppend DEF UtType
  <1>4. Tally(prepared', S) = Tally(Append(prepared, x), S) + One(y, S)
    BY <1>2, TallyAppend
  <1>5. One(x, S) \in Int /\ One(y, S) \in Int /\ One(Head(completions), S) \in Int
    BY DEF One
  <1> DEFINE P == Tally(prepared, S)
             Q == Tally(prepared', S)
             C == Tally(completions, S)
             D == Tally(completions', S)
             K == Cardinality(inKernel \cap S)
             h == One(Head(completions), S)
             a == One(x, S)
             b == One(y, S)
  <1>6. /\ P \in Nat /\ K \in Nat /\ D \in Nat /\ h \in Int /\ a \in Int /\ b \in Int
        /\ Q = P + a + b /\ C = D + h
    <2>1. P \in Nat /\ K \in Nat
      BY UnderType
    <2>2. Q = (P + a) + b
      BY <1>3, <1>4
    <2> QED
      BY <1>1, <1>5, <2>1, <2>2
  <1>7. Under(S, prepared, inKernel, completions) = P + K + C /\ Under(S, prepared', inKernel', completions') = Q + K + D
    BY DEF Under
  <1> HIDE DEF P, Q, C, D, K, h, a, b
  <1>8. Q + K + D = (P + K + C) - h + a + b
    BY <1>6
  <1> QED
    BY <1>7, <1>8, Zenon DEF h, a, b

-----------------------------------------------------------------------------
LEMMA UtStart == UtInit => UtInv
  <1> SUFFICES ASSUME UtInit PROVE UtInv
    OBVIOUS
  <1> DEFINE a == set_accept_event
  <1>0. BUFFER_LENGTH \in Nat \ {0} /\ MAX_CONNECTIONS \in Nat \ {0}
    BY IoUringTcpAssumption
  <1>1. a \in Reqs /\ a.type = "ACCEPT"
    BY <1>0 DEF Reqs, set_accept_event, Request
  <1>2. IsFiniteSet(inKernel) /\ Cardinality({}) = 0
    BY FS_EmptySet DEF UtInit
  <1>3. UtType
    BY <1>0, <1>1, <1>2 DEF UtType, UtInit, UringBytes
  <1>4. ASSUME NEW S PROVE Under(S, prepared, inKernel, completions) = One(a, S)
    <2> HIDE DEF a
    <2>1. inKernel \cap S = {} /\ Tally(completions, S) = 0 /\ Tally(<<>>, S) = 0
      BY <1>2 DEF UtInit, Tally
    <2>2. prepared = Append(<<>>, a) /\ <<>> \in Seq(Reqs)
      BY DEF UtInit, a
    <2>3. Tally(prepared, S) = Tally(<<>>, S) + One(a, S)
      BY <1>1, <2>2, TallyAppend
    <2>4. One(a, S) \in Int
      BY DEF One
    <2>5. Under(S, prepared, inKernel, completions) = Tally(prepared, S) + 0 + 0
      BY <1>2, <2>1 DEF Under
    <2> QED
      BY <2>1, <2>3, <2>4, <2>5
  <1> HIDE DEF a
  <1>5. OneEach
    <2>1. a \in Accepts /\ \A f \in UringFds : a \notin Of(f)
      BY <1>1, OfRequest
    <2> QED
      BY <1>4, <2>1 DEF OneEach, One, UtInit
  <1> QED
    BY <1>3, <1>5 DEF UtInv, OwnBytes, GotOwn, UtInit

(* The peers' steps leave what the server has alone. *)
LEMMA PeersKeep == ASSUME UtInv, NEW c \in UringPeers, UtConnect(c) \/ UtSend(c) \/ UtEnd(c) PROVE UtInv'
  <1>1. UNCHANGED uringSide /\ UtType
    BY DEF UtConnect, UtSend, UtEnd, UtInv
  <1>2. sends' \in [UringPeers -> Nat] /\ pendingPeers' \in Seq(UringPeers)
    <2>1. CASE UtConnect(c)
      BY <1>1, <2>1 DEF UtConnect, UtType
    <2>2. CASE UtSend(c)
      BY <1>1, <2>2 DEF UtSend, UtType
    <2>3. CASE UtEnd(c)
      BY <1>1, <2>3 DEF UtEnd, UtType
    <2> QED
      BY <2>1, <2>2, <2>3
  <1> QED
    BY <1>1, <1>2 DEF UtInv, UtType, OneEach, OwnBytes, GotOwn, uringSide

LEMMA FreeFd == ASSUME {f \in UringFds : fdOf[f] = NoPeer} # {}
                PROVE  Min({f \in UringFds : fdOf[f] = NoPeer}) \in {f \in UringFds : fdOf[f] = NoPeer}
  <1> DEFINE free == {f \in UringFds : fdOf[f] = NoPeer}
  <1>1. free \in SUBSET Nat
    BY IoUringTcpAssumption DEF UringFds
  <1> HIDE DEF free
  <1>2. \E x \in free : \A y \in free : x <= y
    BY <1>1, Least DEF free
  <1> QED
    BY <1>2, Zenon DEF Min, free

LEMMA AcceptKeeps == ASSUME UtInv, NEW r \in inKernel, KernelAccept(r) PROVE UtInv'
  <1> DEFINE free == {f \in UringFds : fdOf[f] = NoPeer}
             e(res) == [type |-> r.type, fd |-> r.fd, res |-> res]
  <1>1. UtType /\ r \in Reqs /\ r.type = "ACCEPT"
        /\ UNCHANGED <<sends, recvd, buffer_table, prepared, count, got>>
    BY DEF UtInv, UtType, KernelAccept
  <1>2. ASSUME NEW res \in UringFds \cup {-1}, Complete(r, res)
        PROVE  /\ inKernel' \in SUBSET Reqs /\ IsFiniteSet(inKernel') /\ completions' \in Seq(Cqes)
               /\ count' \in 0 .. Len(completions')
               /\ Under(Accepts, prepared', inKernel', completions') = 1
               /\ \A f \in UringFds : /\ Under(Of(f), prepared', inKernel', completions') =
                                         Under(Of(f), prepared, inKernel, completions) + (IF res = f THEN 1 ELSE 0)
                                      /\ Under(Fresh(f), prepared', inKernel', completions') =
                                         Under(Fresh(f), prepared, inKernel, completions) + (IF res = f THEN 1 ELSE 0)
    <2>1. e(res) \in Cqes /\ e(res).type = "ACCEPT" /\ e(res).res = res
      BY <1>1, <1>2, IoUringTcpAssumption DEF Reqs, Cqes, UringFds
    <2> HIDE DEF e
    <2>2. /\ inKernel' \in SUBSET Reqs /\ IsFiniteSet(inKernel') /\ completions' \in Seq(Cqes)
          /\ count' \in 0 .. Len(completions')
          /\ \A S : Under(S, prepared', inKernel', completions') =
                    Under(S, prepared, inKernel, completions) - One(r, S) + One(e(res), S)
      BY <1>1, <1>2, <2>1, UringDone DEF e
    <2>3. r \in Accepts /\ e(res) \in Accepts
      BY <1>1, <2>1, OfRequest, OfCompletion
    <2>4. \A f \in UringFds : r \notin Of(f) /\ r \notin Fresh(f) /\ (e(res) \in Of(f) <=> res = f) /\ (e(res) \in Fresh(f) <=> res = f)
      BY <1>1, <2>1, OfRequest, OfCompletion
    <2>5. Under(Accepts, prepared', inKernel', completions') = 1
      <3>1. Under(Accepts, prepared, inKernel, completions) = 1
        BY DEF UtInv, OneEach
      <3> QED
        BY <2>2, <2>3, <3>1 DEF One
    <2>6. ASSUME NEW f \in UringFds
          PROVE  /\ Under(Of(f), prepared', inKernel', completions') =
                    Under(Of(f), prepared, inKernel, completions) + (IF res = f THEN 1 ELSE 0)
                 /\ Under(Fresh(f), prepared', inKernel', completions') =
                    Under(Fresh(f), prepared, inKernel, completions) + (IF res = f THEN 1 ELSE 0)
      <3>1. /\ One(r, Of(f)) = 0 /\ One(e(res), Of(f)) = (IF res = f THEN 1 ELSE 0)
            /\ One(r, Fresh(f)) = 0 /\ One(e(res), Fresh(f)) = (IF res = f THEN 1 ELSE 0)
        BY <2>4 DEF One
      <3>2. Under(Of(f), prepared, inKernel, completions) \in Nat /\ Under(Fresh(f), prepared, inKernel, completions) \in Nat
        BY <1>1, UnderType
      <3> QED
        BY <2>2, <3>1, <3>2
    <2> QED
      BY <2>2, <2>5, <2>6
  <1>3. CASE Complete(r, -1) /\ fdOf' = fdOf /\ pendingPeers' \in Seq(UringPeers)
    <2>1. UtType'
      BY <1>1, <1>2, <1>3 DEF UtType
    <2>2. \A f \in UringFds : -1 # f
      BY DEF UringFds
    <2>3. \A f \in UringFds : /\ Under(Of(f), prepared', inKernel', completions') = Under(Of(f), prepared, inKernel, completions)
                              /\ Under(Fresh(f), prepared', inKernel', completions') = Under(Fresh(f), prepared, inKernel, completions)
      <3> SUFFICES ASSUME NEW f \in UringFds
                   PROVE  /\ Under(Of(f), prepared', inKernel', completions') = Under(Of(f), prepared, inKernel, completions)
                          /\ Under(Fresh(f), prepared', inKernel', completions') = Under(Fresh(f), prepared, inKernel, completions)
        OBVIOUS
      <3>1. Under(Of(f), prepared, inKernel, completions) \in Nat /\ Under(Fresh(f), prepared, inKernel, completions) \in Nat
        BY <1>1, UnderType
      <3> QED
        BY <1>2, <1>3, <2>2, <3>1
    <2>4. OneEach'
      BY <1>2, <1>3, <2>3 DEF OneEach, UtInv
    <2> QED
      BY <1>1, <1>3, <2>1, <2>3, <2>4 DEF UtInv, OwnBytes, GotOwn
  <1>4. ASSUME NEW c \in UringPeers, free # {}, fdOf' = [fdOf EXCEPT ![Min(free)] = c], Complete(r, Min(free)),
               pendingPeers' \in Seq(UringPeers)
        PROVE  UtInv'
    <2> DEFINE g == Min(free)
    <2>1. g \in UringFds /\ fdOf[g] = NoPeer
      BY <1>4, FreeFd
    <2>2. Complete(r, g) /\ fdOf' = [fdOf EXCEPT ![g] = c] /\ c # NoPeer
      BY <1>4, IoUringTcpAssumption
    <2> HIDE DEF g
    <2>3. UtType'
      BY <1>1, <1>2, <1>4, <2>1, <2>2 DEF UtType
    <2>4. OneEach'
      <3> SUFFICES ASSUME NEW f \in UringFds
                   PROVE  Under(Of(f), prepared', inKernel', completions') = IF fdOf'[f] # NoPeer THEN 1 ELSE 0
        BY <1>2, <2>1, <2>2 DEF OneEach
      <3>1. Under(Of(f), prepared, inKernel, completions) = IF fdOf[f] # NoPeer THEN 1 ELSE 0
        BY DEF UtInv, OneEach
      <3> QED
        BY <1>1, <1>2, <2>1, <2>2, <3>1 DEF UtType
    <2>5. OwnBytes'
      <3> SUFFICES ASSUME NEW f \in UringFds, NEW k \in 1 .. BUFFER_LENGTH, buffer_table'[f][k] # <<>>
                   PROVE  fdOf'[f] # NoPeer /\ buffer_table'[f][k][1] = fdOf'[f] /\ Under(Fresh(f), prepared', inKernel', completions') = 0
        BY DEF OwnBytes
      <3>1. fdOf[f] # NoPeer /\ buffer_table[f][k][1] = fdOf[f] /\ Under(Fresh(f), prepared, inKernel, completions) = 0
        BY <1>1 DEF UtInv, OwnBytes
      <3>2. f # g
        BY <2>1, <3>1
      <3> QED
        BY <1>1, <1>2, <2>1, <2>2, <3>1, <3>2 DEF UtType
    <2> QED
      BY <1>1, <2>3, <2>4, <2>5 DEF UtInv, GotOwn
  <1>5. pendingPeers # <<>> => Head(pendingPeers) \in UringPeers /\ Tail(pendingPeers) \in Seq(UringPeers)
    BY <1>1 DEF UtType
  <1> QED
    BY <1>1, <1>3, <1>4, <1>5 DEF KernelAccept, UtType

(* A recv or a send is completed: the counts stay, but for a first recv    *)
(* that succeeds, which ends what is fresh of its descriptor.              *)
LEMMA MovedKeeps ==
  ASSUME UtType, NEW r \in inKernel, r.type # "ACCEPT", NEW res, Complete(r, res), prepared' = prepared, count' = count,
         [type |-> r.type, fd |-> r.fd, res |-> res] \in Cqes
  PROVE  /\ inKernel' \in SUBSET Reqs /\ IsFiniteSet(inKernel') /\ completions' \in Seq(Cqes)
         /\ count' \in 0 .. Len(completions')
         /\ Under(Accepts, prepared', inKernel', completions') = Under(Accepts, prepared, inKernel, completions)
         /\ \A f \in UringFds : Under(Of(f), prepared', inKernel', completions') = Under(Of(f), prepared, inKernel, completions)
         /\ \A f \in UringFds : Under(Fresh(f), prepared', inKernel', completions') =
               Under(Fresh(f), prepared, inKernel, completions) - (IF r.type = "READ" /\ r.fd = f /\ ~(res <= 0) THEN 1 ELSE 0)
  <1> DEFINE e == [type |-> r.type, fd |-> r.fd, res |-> res]
  <1>1. r \in Reqs /\ e \in Cqes /\ e.type = r.type /\ e.fd = r.fd /\ e.res = res
    BY DEF UtType
  <1>2. /\ inKernel' \in SUBSET Reqs /\ IsFiniteSet(inKernel') /\ completions' \in Seq(Cqes)
        /\ count' \in 0 .. Len(completions')
        /\ \A S : Under(S, prepared', inKernel', completions') = Under(S, prepared, inKernel, completions) - One(r, S) + One(e, S)
    BY UringDone
  <1> HIDE DEF e
  <1>3. r \notin Accepts /\ e \notin Accepts
    BY <1>1, OfRequest, OfCompletion
  <1>4. Under(Accepts, prepared', inKernel', completions') = Under(Accepts, prepared, inKernel, completions)
    <2>1. One(r, Accepts) = 0 /\ One(e, Accepts) = 0
      BY <1>3 DEF One
    <2>2. Under(Accepts, prepared, inKernel, completions) \in Nat
      BY UnderType
    <2> QED
      BY <1>2, <2>1, <2>2
  <1>5. ASSUME NEW f \in UringFds
        PROVE  /\ Under(Of(f), prepared', inKernel', completions') = Under(Of(f), prepared, inKernel, completions)
               /\ Under(Fresh(f), prepared', inKernel', completions') =
                  Under(Fresh(f), prepared, inKernel, completions) - (IF r.type = "READ" /\ r.fd = f /\ ~(res <= 0) THEN 1 ELSE 0)
    <2>1. r \in Of(f) <=> e \in Of(f)
      BY <1>1, OfRequest, OfCompletion
    <2>2. /\ r \in Fresh(f) <=> r.type = "READ" /\ r.fd = f
          /\ e \in Fresh(f) <=> r.type = "READ" /\ r.fd = f /\ res <= 0
      BY <1>1, OfRequest, OfCompletion
    <2>3. Under(Of(f), prepared, inKernel, completions) \in Nat /\ Under(Fresh(f), prepared, inKernel, completions) \in Nat
      BY UnderType
    <2>4. One(r, Of(f)) = One(e, Of(f)) /\ One(r, Of(f)) \in Nat
      BY <2>1 DEF One
    <2>5. Under(Of(f), prepared', inKernel', completions') = Under(Of(f), prepared, inKernel, completions)
      BY <1>2, <2>3, <2>4
    <2>6. CASE r.type = "READ" /\ r.fd = f /\ ~(res <= 0)
      <3>1. One(r, Fresh(f)) = 1 /\ One(e, Fresh(f)) = 0
        BY <2>2, <2>6 DEF One
      <3> QED
        BY <1>2, <2>3, <2>5, <2>6, <3>1
    <2>7. CASE ~(r.type = "READ" /\ r.fd = f /\ ~(res <= 0))
      <3>1. One(r, Fresh(f)) = One(e, Fresh(f)) /\ One(r, Fresh(f)) \in Nat
        BY <2>2, <2>7 DEF One
      <3> QED
        BY <1>2, <2>3, <2>5, <2>7, <3>1
    <2> QED
      BY <2>6, <2>7
  <1> QED
    BY <1>2, <1>4, <1>5

(* Fails, and ends of file. *)
LEMMA RecvNothing ==
  ASSUME UtInv, NEW r \in inKernel, r.type # "ACCEPT", NEW res \in {-1, 0}, Complete(r, res), r.fd = -1 => res = -1,
         UNCHANGED <<sends, recvd, pendingPeers, fdOf, buffer_table, prepared, count, got>>
  PROVE  UtInv'
  <1> DEFINE e == [type |-> r.type, fd |-> r.fd, res |-> res]
  <1>1. UtType /\ r \in Reqs /\ BUFFER_LENGTH \in Nat \ {0}
    BY IoUringTcpAssumption DEF UtInv, UtType
  <1>2. e \in Cqes
    BY <1>1 DEF Reqs, Cqes
  <1>3. /\ inKernel' \in SUBSET Reqs /\ IsFiniteSet(inKernel') /\ completions' \in Seq(Cqes)
        /\ count' \in 0 .. Len(completions')
        /\ Under(Accepts, prepared', inKernel', completions') = Under(Accepts, prepared, inKernel, completions)
        /\ \A f \in UringFds : Under(Of(f), prepared', inKernel', completions') = Under(Of(f), prepared, inKernel, completions)
        /\ \A f \in UringFds : Under(Fresh(f), prepared', inKernel', completions') =
              Under(Fresh(f), prepared, inKernel, completions) - (IF r.type = "READ" /\ r.fd = f /\ ~(res <= 0) THEN 1 ELSE 0)
    BY <1>1, <1>2, MovedKeeps
  <1>4. UtType'
    BY <1>1, <1>3 DEF UtType
  <1>5. OneEach'
    BY <1>3 DEF UtInv, OneEach
  <1>6. OwnBytes'
    BY <1>3 DEF UtInv, OwnBytes
  <1> QED
    BY <1>4, <1>5, <1>6 DEF UtInv, GotOwn

LEMMA RecvKeeps == ASSUME UtInv, NEW r \in inKernel, KernelRecv(r) PROVE UtInv'
  <1> DEFINE c == IF r.fd = -1 THEN NoPeer ELSE fdOf[r.fd]
  <1>1. /\ UtType /\ r \in Reqs /\ r.type = "READ" /\ UNCHANGED <<sends, pendingPeers, fdOf, prepared, count, got>>
        /\ BUFFER_LENGTH \in Nat \ {0} /\ r.len = BUFFER_LENGTH /\ r.fd \in UringFds \cup {-1}
    BY IoUringTcpAssumption DEF UtInv, UtType, KernelRecv, peerSide, Reqs
  <1>2. CASE Complete(r, -1) /\ UNCHANGED <<recvd, buffer_table>>
    BY <1>1, <1>2, RecvNothing
  <1>3. CASE c # NoPeer /\ Complete(r, 0) /\ UNCHANGED <<recvd, buffer_table>>
    BY <1>1, <1>3, RecvNothing
  <1>4. CASE c # NoPeer /\ sends[c] > recvd[c] /\
             LET n == Min({r.len, sends[c] - recvd[c]}) IN
             /\ recvd' = [recvd EXCEPT ![c] = @ + n] /\ Complete(r, n)
             /\ buffer_table' = [buffer_table EXCEPT ![r.fd] =
                   [k \in 1 .. BUFFER_LENGTH |-> IF k <= n THEN <<c, recvd[c] + k>> ELSE @[k]]]
    <2> DEFINE n == Min({r.len, sends[c] - recvd[c]})
               g == r.fd
               e == [type |-> r.type, fd |-> r.fd, res |-> n]
    <2>1. g \in UringFds /\ c = fdOf[g] /\ c \in UringPeers /\ fdOf[g] # NoPeer
      BY <1>1, <1>4 DEF UtType
    <2>2. sends[c] \in Nat /\ recvd[c] \in Nat /\ sends[c] > recvd[c]
      BY <1>1, <1>4, <2>1 DEF UtType
    <2>3. n \in 1 .. BUFFER_LENGTH
      BY <1>1, <2>2, MinTwo
    <2>4. /\ recvd' = [recvd EXCEPT ![c] = @ + n] /\ Complete(r, n)
          /\ buffer_table' = [buffer_table EXCEPT ![g] =
                [k \in 1 .. BUFFER_LENGTH |-> IF k <= n THEN <<c, recvd[c] + k>> ELSE @[k]]]
      BY <1>4
    <2> HIDE DEF n, c
    <2>5. e \in Cqes
      <3>1. n \in Int /\ n \in -1 .. BUFFER_LENGTH /\ g # -1
        BY <1>1, <2>1, <2>3 DEF UringFds
      <3>2. e \in [type : {"ACCEPT", "READ", "WRITE"}, fd : UringFds \cup {-1}, res : Int] /\ e.type = "READ" /\ e.res = n /\ e.fd = g
        BY <1>1, <2>1, <3>1
      <3> QED
        BY <3>1, <3>2 DEF Cqes
    <2>6. /\ inKernel' \in SUBSET Reqs /\ IsFiniteSet(inKernel') /\ completions' \in Seq(Cqes)
          /\ count' \in 0 .. Len(completions')
          /\ Under(Accepts, prepared', inKernel', completions') = Under(Accepts, prepared, inKernel, completions)
          /\ \A f \in UringFds : Under(Of(f), prepared', inKernel', completions') = Under(Of(f), prepared, inKernel, completions)
          /\ \A f \in UringFds : Under(Fresh(f), prepared', inKernel', completions') =
               Under(Fresh(f), prepared, inKernel, completions) - (IF r.type = "READ" /\ r.fd = f /\ ~(n <= 0) THEN 1 ELSE 0)
      BY <1>1, <2>4, <2>5, MovedKeeps
    <2>7. /\ Under(Fresh(g), prepared', inKernel', completions') = Under(Fresh(g), prepared, inKernel, completions) - 1
          /\ \A f \in UringFds : f # g =>
               Under(Fresh(f), prepared', inKernel', completions') = Under(Fresh(f), prepared, inKernel, completions)
      <3>1. \A f \in UringFds : Under(Fresh(f), prepared, inKernel, completions) \in Nat
        BY <1>1, UnderType
      <3> QED
        BY <1>1, <2>1, <2>3, <2>6, <3>1
    <2>8. \A k \in 1 .. BUFFER_LENGTH : recvd[c] + k \in Nat /\ <<c, recvd[c] + k>> \in UringBytes
      BY <2>1, <2>2 DEF UringBytes
    <2>9. UtType'
      <3>1. recvd' \in [UringPeers -> Nat]
        <4>1. recvd[c] + n \in Nat
          BY <1>1, <2>2, <2>3
        <4> QED
          BY <1>1, <2>1, <2>4, <4>1 DEF UtType
      <3>2. buffer_table' \in [UringFds -> [1 .. BUFFER_LENGTH -> UringBytes]]
        BY <1>1, <2>1, <2>4, <2>8 DEF UtType
      <3> QED
        BY <1>1, <2>6, <3>1, <3>2 DEF UtType
    <2>10. OneEach'
      BY <1>1, <2>6 DEF UtInv, OneEach
    <2>11. Under(Fresh(g), prepared', inKernel', completions') = 0 /\ Under(Fresh(g), prepared, inKernel, completions) = 1
      <3>1. Under(Of(g), prepared, inKernel, completions) = 1
        BY <2>1 DEF UtInv, OneEach
      <3>2. Under(Fresh(g), prepared, inKernel, completions) <= 1 /\ Under(Fresh(g), prepared, inKernel, completions) \in Nat
        BY <1>1, <3>1, FreshOf, UnderPart, UnderType
      <3>3. Under(Fresh(g), prepared', inKernel', completions') \in Nat
        BY <2>9, UnderNat DEF UtType
      <3> QED
        BY <2>7, <3>2, <3>3
    <2>12. \A k \in 1 .. BUFFER_LENGTH : buffer_table[g][k] = <<>>
      BY <2>1, <2>11 DEF UtInv, OwnBytes
    <2>13. OwnBytes'
      <3> SUFFICES ASSUME NEW f \in UringFds, NEW k \in 1 .. BUFFER_LENGTH, buffer_table'[f][k] # <<>>
                   PROVE  fdOf'[f] # NoPeer /\ buffer_table'[f][k][1] = fdOf'[f] /\ Under(Fresh(f), prepared', inKernel', completions') = 0
        BY DEF OwnBytes
      <3>1. CASE f = g
        <4>1. buffer_table'[f][k] = IF k <= n THEN <<c, recvd[c] + k>> ELSE buffer_table[g][k]
          BY <1>1, <2>4, <3>1 DEF UtType
        <4>2. buffer_table'[f][k] = <<c, recvd[c] + k>>
          BY <2>12, <4>1
        <4> QED
          BY <1>1, <2>1, <2>11, <3>1, <4>2
      <3>2. CASE f # g
        <4>1. buffer_table'[f] = buffer_table[f]
          BY <1>1, <2>4, <3>2 DEF UtType
        <4> QED
          BY <1>1, <2>7, <3>2, <4>1 DEF UtInv, OwnBytes
      <3> QED
        BY <3>1, <3>2
    <2> QED
      BY <1>1, <2>9, <2>10, <2>13 DEF UtInv, GotOwn
  <1> QED
    BY <1>2, <1>3, <1>4 DEF KernelRecv

LEMMA SendKeeps == ASSUME UtInv, NEW r \in inKernel, KernelSend(r) PROVE UtInv'
  <1> DEFINE c == fdOf[r.fd]
  <1>1. /\ UtType /\ r \in Reqs /\ r.type = "WRITE" /\ r.fd # -1 /\ UNCHANGED <<sends, recvd, pendingPeers, fdOf, buffer_table, prepared, count>>
        /\ BUFFER_LENGTH \in Nat \ {0} /\ r.len \in 0 .. BUFFER_LENGTH /\ r.fd \in UringFds
    BY IoUringTcpAssumption DEF UtInv, UtType, KernelSend, peerSide, Reqs
  <1>2. CASE Complete(r, -1) /\ got' = got
    BY <1>1, <1>2, RecvNothing
  <1>3. CASE c # NoPeer /\ \E n \in 1 .. r.len : Complete(r, n) /\ got' = [got EXCEPT ![c] = @ \cup {buffer_table[r.fd][k] : k \in 1 .. n}]
    <2>1. PICK n \in 1 .. r.len : Complete(r, n) /\ got' = [got EXCEPT ![c] = @ \cup {buffer_table[r.fd][k] : k \in 1 .. n}]
      BY <1>3
    <2>2. c \in UringPeers /\ n \in 1 .. BUFFER_LENGTH
      BY <1>1, <1>3 DEF UtType
    <2>3. [type |-> r.type, fd |-> r.fd, res |-> n] \in Cqes
      BY <1>1, <2>2 DEF Reqs, Cqes
    <2>4. /\ inKernel' \in SUBSET Reqs /\ IsFiniteSet(inKernel') /\ completions' \in Seq(Cqes)
          /\ count' \in 0 .. Len(completions')
          /\ Under(Accepts, prepared', inKernel', completions') = Under(Accepts, prepared, inKernel, completions)
          /\ \A f \in UringFds : Under(Of(f), prepared', inKernel', completions') = Under(Of(f), prepared, inKernel, completions)
          /\ \A f \in UringFds : Under(Fresh(f), prepared', inKernel', completions') =
               Under(Fresh(f), prepared, inKernel, completions) - (IF r.type = "READ" /\ r.fd = f /\ ~(n <= 0) THEN 1 ELSE 0)
      BY <1>1, <2>1, <2>3, MovedKeeps
    <2>5. \A f \in UringFds : Under(Fresh(f), prepared', inKernel', completions') = Under(Fresh(f), prepared, inKernel, completions)
      <3>1. \A f \in UringFds : Under(Fresh(f), prepared, inKernel, completions) \in Nat
        BY <1>1, UnderType
      <3> QED
        BY <1>1, <2>4, <3>1
    <2>6. \A k \in 1 .. n : /\ buffer_table[r.fd][k] \in UringBytes
                            /\ buffer_table[r.fd][k] # <<>> => buffer_table[r.fd][k][1] = c
      <3>1. \A k \in 1 .. n : k \in 1 .. BUFFER_LENGTH
        BY <1>1, <2>2
      <3> QED
        BY <1>1, <3>1 DEF UtInv, UtType, OwnBytes
    <2>7. got' \in [UringPeers -> SUBSET UringBytes]
      BY <1>1, <2>1, <2>2, <2>6 DEF UtType
    <2>8. GotOwn'
      <3> SUFFICES ASSUME NEW d \in UringPeers, NEW b \in got'[d], b # <<>> PROVE b[1] = d
        BY DEF GotOwn
      <3>1. CASE b \in got[d]
        BY <3>1 DEF UtInv, GotOwn
      <3>2. CASE d = c /\ \E k \in 1 .. n : b = buffer_table[r.fd][k]
        BY <2>6, <3>2
      <3> QED
        BY <1>1, <2>1, <2>2, <3>1, <3>2 DEF UtType
    <2>9. UtType'
      BY <1>1, <2>4, <2>7 DEF UtType
    <2>10. OneEach' /\ OwnBytes'
      BY <1>1, <2>4, <2>5 DEF UtInv, OneEach, OwnBytes
    <2> QED
      BY <2>8, <2>9, <2>10 DEF UtInv
  <1> QED
    BY <1>2, <1>3 DEF KernelSend

-----------------------------------------------------------------------------
LEMMA SubmitKeeps == ASSUME UtInv, UtSubmit PROVE UtInv'
  <1> DEFINE G == {prepared[i] : i \in DOMAIN prepared}
  <1>1. /\ UtType /\ inKernel' = inKernel \cup G /\ prepared' = <<>> /\ completions' = completions
        /\ UNCHANGED <<sends, recvd, pendingPeers, fdOf, buffer_table, count, got>>
    BY DEF UtInv, UtSubmit, peerSide
  <1>2. ASSUME NEW S, Under(S, prepared, inKernel, completions) <= 1
        PROVE  /\ IsFiniteSet(inKernel')
               /\ Under(S, prepared', inKernel', completions') = Under(S, prepared, inKernel, completions)
    BY <1>1, <1>2, Submitted
  <1> HIDE DEF G
  <1>3. Under(Accepts, prepared, inKernel, completions) = 1
    BY DEF UtInv, OneEach
  <1>4. \A f \in UringFds : Under(Of(f), prepared, inKernel, completions) <= 1
    BY DEF UtInv, OneEach
  <1>5. \A f \in UringFds : Under(Fresh(f), prepared, inKernel, completions) <= 1
    <2> SUFFICES ASSUME NEW f \in UringFds PROVE Under(Fresh(f), prepared, inKernel, completions) <= 1
      OBVIOUS
    <2>1. Under(Fresh(f), prepared, inKernel, completions) <= Under(Of(f), prepared, inKernel, completions)
      BY <1>1, FreshOf, UnderPart
    <2>2. Under(Fresh(f), prepared, inKernel, completions) \in Nat /\ Under(Of(f), prepared, inKernel, completions) \in Nat
      BY <1>1, UnderType
    <2> QED
      BY <1>4, <2>1, <2>2
  <1>6. inKernel' \in SUBSET Reqs
    BY <1>1 DEF UtType, G
  <1>7. UtType'
    <2>1. IsFiniteSet(inKernel')
      <3>1. Under(Accepts, prepared, inKernel, completions) <= 1
        BY <1>3
      <3> QED
        BY <1>2, <3>1
    <2> QED
      BY <1>1, <1>6, <2>1 DEF UtType
  <1>8. OneEach'
    <2>1. Under(Accepts, prepared', inKernel', completions') = 1
      <3>1. Under(Accepts, prepared, inKernel, completions) <= 1
        BY <1>3
      <3> QED
        BY <1>2, <1>3, <3>1
    <2>2. \A f \in UringFds : Under(Of(f), prepared', inKernel', completions') = Under(Of(f), prepared, inKernel, completions)
      BY <1>2, <1>4
    <2>3. fdOf' = fdOf
      BY <1>1
    <2> QED
      BY <2>1, <2>2, <2>3 DEF OneEach, UtInv
  <1>9. OwnBytes'
    BY <1>1, <1>2, <1>5 DEF OwnBytes, UtInv
  <1> QED
    BY <1>1, <1>7, <1>8, <1>9 DEF UtInv, GotOwn

LEMMA PeekKeeps == ASSUME UtInv, UtPeek PROVE UtInv'
  <1>1. UtType /\ UNCHANGED <<peerSide, recvd, fdOf, buffer_table, prepared, inKernel, completions, got>>
    BY DEF UtInv, UtPeek
  <1>2. count' \in 0 .. Len(completions)
    <2>1. PEEK \in Nat /\ Len(completions) \in Nat
      BY <1>1, IoUringTcpAssumption DEF UtType
    <2> QED
      BY <2>1, MinTwo DEF UtPeek
  <1> QED
    BY <1>1, <1>2 DEF UtInv, UtType, OneEach, OwnBytes, GotOwn, peerSide

LEMMA OnAcceptKeeps == ASSUME UtInv, OnAccept PROVE UtInv'
  <1> DEFINE h == Head(completions)
             x == set_read_event(h.res)
             y == set_accept_event
  <1>1. /\ UtType /\ Answers("ACCEPT") /\ prepared' = prepared \o <<x, y>>
        /\ UNCHANGED <<sends, pendingPeers, recvd, fdOf, buffer_table, inKernel, got>>
    BY DEF UtInv, OnAccept, peerSide
  <1>2. /\ h \in Cqes /\ h.type = "ACCEPT" /\ completions' \in Seq(Cqes) /\ count' \in 0 .. Len(completions')
    BY <1>1, Taken
  <1>3. h.res \in UringFds \cup {-1} /\ BUFFER_LENGTH \in Nat \ {0}
    BY <1>2, IoUringTcpAssumption DEF Cqes
  <1>4. x \in Reqs /\ y \in Reqs /\ x.type = "READ" /\ x.fd = h.res /\ y.type = "ACCEPT"
    BY <1>3 DEF Reqs, set_read_event, set_accept_event, Request
  <1> HIDE DEF h, x, y
  <1>5. \A S : Under(S, prepared', inKernel', completions') =
               Under(S, prepared, inKernel, completions) - One(h, S) + One(x, S) + One(y, S)
    BY <1>1, <1>4, TakenForTwo DEF h
  <1>6. prepared' \in Seq(Reqs)
    BY <1>1, <1>4 DEF UtType
  <1>7. Under(Accepts, prepared', inKernel', completions') = 1
    <2>1. h \in Accepts /\ x \notin Accepts /\ y \in Accepts
      BY <1>2, <1>4, OfRequest, OfCompletion
    <2>2. One(h, Accepts) = 1 /\ One(x, Accepts) = 0 /\ One(y, Accepts) = 1
      BY <2>1 DEF One
    <2>3. Under(Accepts, prepared, inKernel, completions) = 1
      BY DEF UtInv, OneEach
    <2> QED
      BY <1>5, <2>2, <2>3
  <1>8. ASSUME NEW f \in UringFds
        PROVE  /\ Under(Of(f), prepared', inKernel', completions') = Under(Of(f), prepared, inKernel, completions)
               /\ Under(Fresh(f), prepared', inKernel', completions') = Under(Fresh(f), prepared, inKernel, completions)
    <2>1. /\ (h \in Of(f) <=> x \in Of(f)) /\ y \notin Of(f)
          /\ (h \in Fresh(f) <=> x \in Fresh(f)) /\ y \notin Fresh(f)
      BY <1>2, <1>4, OfRequest, OfCompletion
    <2>2. /\ One(h, Of(f)) = One(x, Of(f)) /\ One(y, Of(f)) = 0 /\ One(h, Of(f)) \in Nat
          /\ One(h, Fresh(f)) = One(x, Fresh(f)) /\ One(y, Fresh(f)) = 0 /\ One(h, Fresh(f)) \in Nat
      BY <2>1 DEF One
    <2>3. Under(Of(f), prepared, inKernel, completions) \in Nat /\ Under(Fresh(f), prepared, inKernel, completions) \in Nat
      BY <1>1, UnderType
    <2>4. Under(Of(f), prepared', inKernel', completions') = Under(Of(f), prepared, inKernel, completions) - One(h, Of(f)) + One(h, Of(f)) + 0
      BY <1>5, <2>2
    <2>5. Under(Fresh(f), prepared', inKernel', completions') = Under(Fresh(f), prepared, inKernel, completions) - One(h, Fresh(f)) + One(h, Fresh(f)) + 0
      BY <1>5, <2>2
    <2> QED
      BY <2>2, <2>3, <2>4, <2>5
  <1>9. UtType'
    BY <1>1, <1>2, <1>6 DEF UtType
  <1>10. OneEach' /\ OwnBytes'
    BY <1>1, <1>7, <1>8 DEF UtInv, OneEach, OwnBytes
  <1> QED
    BY <1>1, <1>9, <1>10 DEF UtInv, GotOwn

(* A completion of a descriptor is answered by a send on it. *)
LEMMA SendNext ==
  ASSUME UtInv, NEW type \in {"READ", "WRITE"}, Answers(type), Head(completions).fd # -1,
         type = "READ" => Head(completions).res > 0, NEW len \in 1 .. BUFFER_LENGTH,
         prepared' = Append(prepared, set_write_event(Head(completions).fd, len)),
         UNCHANGED <<sends, pendingPeers, recvd, fdOf, buffer_table, inKernel, got>>
  PROVE  UtInv'
  <1> DEFINE h == Head(completions)
             x == set_write_event(h.fd, len)
  <1>1. /\ UtType /\ h \in Cqes /\ h.type = type /\ completions' \in Seq(Cqes) /\ count' \in 0 .. Len(completions')
        /\ type # "ACCEPT"
    BY Taken DEF UtInv
  <1>2. x \in Reqs /\ x.type = "WRITE" /\ x.fd = h.fd
    BY <1>1, IoUringTcpAssumption DEF Reqs, Cqes, set_write_event, Request
  <1>0. h.res \in Int
    BY <1>1 DEF Cqes
  <1> HIDE DEF h, x
  <1>3. \A S : Under(S, prepared', inKernel', completions') = Under(S, prepared, inKernel, completions) - One(h, S) + One(x, S)
    BY <1>1, <1>2, TakenFor DEF h, x
  <1>4. prepared' \in Seq(Reqs)
    BY <1>1, <1>2 DEF UtType, h, x
  <1>5. ASSUME NEW S, (h \in S <=> x \in S)
        PROVE  Under(S, prepared', inKernel', completions') = Under(S, prepared, inKernel, completions)
    <2>1. One(h, S) = One(x, S) /\ One(h, S) \in Nat
      BY <1>5 DEF One
    <2>2. Under(S, prepared, inKernel, completions) \in Nat
      BY <1>1, UnderType
    <2> QED
      BY <1>3, <2>1, <2>2
  <1>6. h \notin Accepts /\ x \notin Accepts /\ \A f \in UringFds : (h \in Of(f) <=> x \in Of(f)) /\ (h \in Fresh(f) <=> x \in Fresh(f))
    <2>1. type = "READ" => ~(h.res <= 0)
      BY <1>0 DEF h
    <2> QED
      BY <1>1, <1>2, <2>1, OfRequest, OfCompletion
  <1>7. UtType'
    BY <1>1, <1>4 DEF UtType
  <1>8. OneEach' /\ OwnBytes'
    BY <1>5, <1>6 DEF UtInv, OneEach, OwnBytes
  <1> QED
    BY <1>7, <1>8 DEF UtInv, GotOwn

LEMMA OnWriteKeeps == ASSUME UtInv, OnWrite PROVE UtInv'
  <1>1. Answers("WRITE") /\ UNCHANGED <<sends, pendingPeers, recvd, fdOf, buffer_table, inKernel, got>>
        /\ prepared' = Append(prepared, set_write_event(Head(completions).fd, BUFFER_LENGTH))
    BY DEF OnWrite, peerSide
  <1>2. Head(completions) \in Cqes /\ Head(completions).type = "WRITE"
    BY <1>1, Taken DEF UtInv
  <1>3. Head(completions).fd # -1
    BY <1>2 DEF Cqes
  <1>4. BUFFER_LENGTH \in 1 .. BUFFER_LENGTH
    BY IoUringTcpAssumption
  <1> QED
    BY <1>1, <1>3, <1>4, SendNext

LEMMA OnReadKeeps == ASSUME UtInv, OnRead PROVE UtInv'
  <1> DEFINE h == Head(completions)
  <1>1. Answers("READ") /\ UNCHANGED <<sends, pendingPeers, recvd, buffer_table, inKernel, got>>
    BY DEF OnRead
  <1>2. /\ UtType /\ h \in Cqes /\ h.type = "READ" /\ completions' \in Seq(Cqes) /\ count' \in 0 .. Len(completions')
    BY <1>1, Taken DEF UtInv
  <1>3. h.res \in -1 .. BUFFER_LENGTH /\ (h.fd = -1 => h.res = -1) /\ h.fd \in UringFds \cup {-1} /\ BUFFER_LENGTH \in Nat
    BY <1>2, IoUringTcpAssumption DEF Cqes
  <1>4. CASE h.res > 0
    <2>1. h.fd # -1 /\ h.res \in 1 .. BUFFER_LENGTH
      BY <1>3, <1>4
    <2>2. prepared' = Append(prepared, set_write_event(h.fd, h.res)) /\ fdOf' = fdOf
      BY <1>3, <1>4 DEF OnRead
    <2> QED
      BY <1>1, <1>4, <2>1, <2>2, SendNext
  <1>5. CASE h.res <= 0
    <2>1. prepared' = prepared /\ fdOf' = [x \in UringFds |-> IF x = h.fd THEN NoPeer ELSE fdOf[x]]
      BY <1>5 DEF OnRead, CloseFd
    <2> HIDE DEF h
    <2>2. \A S : Under(S, prepared', inKernel', completions') = Under(S, prepared, inKernel, completions) - One(h, S)
      BY <1>1, <1>2, <2>1, TakenOnly DEF h
    <2>3. \A S : Under(S, prepared, inKernel, completions) \in Nat /\ Under(S, prepared', inKernel', completions') \in Nat
      <3>1. ASSUME NEW S PROVE Under(S, prepared, inKernel, completions) \in Nat /\ Under(S, prepared', inKernel', completions') \in Nat
        <4>1. prepared' \in Seq(Reqs) /\ IsFiniteSet(inKernel')
          BY <1>1, <1>2, <2>1 DEF UtType
        <4> QED
          BY <1>2, <4>1, UnderNat DEF UtType
      <3> QED
        BY <3>1
    <2>4. UtType'
      BY <1>1, <1>2, <2>1 DEF UtType
    <2>5. /\ h \notin Accepts /\ \A f \in UringFds : (h \in Of(f) <=> h.fd = f) /\ (h \in Fresh(f) <=> h.fd = f)
      BY <1>2, <1>5, OfCompletion
    <2>6. Under(Accepts, prepared', inKernel', completions') = 1
      <3>1. One(h, Accepts) = 0 /\ Under(Accepts, prepared, inKernel, completions) = 1
        BY <2>5 DEF One, UtInv, OneEach
      <3> QED
        BY <2>2, <3>1
    <2>7. ASSUME NEW f \in UringFds, h.fd # f
          PROVE  /\ Under(Of(f), prepared', inKernel', completions') = Under(Of(f), prepared, inKernel, completions)
                 /\ Under(Fresh(f), prepared', inKernel', completions') = Under(Fresh(f), prepared, inKernel, completions)
                 /\ fdOf'[f] = fdOf[f]
      <3>1. One(h, Of(f)) = 0 /\ One(h, Fresh(f)) = 0
        BY <2>5, <2>7 DEF One
      <3> QED
        BY <2>1, <2>2, <2>3, <2>7, <3>1
    <2>8. ASSUME NEW f \in UringFds, h.fd = f
          PROVE  /\ Under(Of(f), prepared', inKernel', completions') = 0
                 /\ Under(Fresh(f), prepared, inKernel, completions) # 0 /\ fdOf'[f] = NoPeer
      <3>1. One(h, Of(f)) = 1 /\ One(h, Fresh(f)) = 1
        BY <2>5, <2>8 DEF One
      <3>2. Under(Of(f), prepared, inKernel, completions) <= 1
        BY DEF UtInv, OneEach
      <3>3. Under(Of(f), prepared', inKernel', completions') = 0
        BY <2>2, <2>3, <3>1, <3>2
      <3>4. Under(Fresh(f), prepared, inKernel, completions) # 0
        BY <2>2, <2>3, <3>1
      <3> QED
        BY <2>1, <2>8, <3>3, <3>4
    <2>9. OneEach'
      <3> SUFFICES ASSUME NEW f \in UringFds
                   PROVE  Under(Of(f), prepared', inKernel', completions') = IF fdOf'[f] # NoPeer THEN 1 ELSE 0
        BY <2>6 DEF OneEach
      <3>1. Under(Of(f), prepared, inKernel, completions) = IF fdOf[f] # NoPeer THEN 1 ELSE 0
        BY DEF UtInv, OneEach
      <3> QED
        BY <2>7, <2>8, <3>1
    <2>10. OwnBytes'
      <3> SUFFICES ASSUME NEW f \in UringFds, NEW k \in 1 .. BUFFER_LENGTH, buffer_table'[f][k] # <<>>
                   PROVE  fdOf'[f] # NoPeer /\ buffer_table'[f][k][1] = fdOf'[f] /\ Under(Fresh(f), prepared', inKernel', completions') = 0
        BY DEF OwnBytes
      <3>1. fdOf[f] # NoPeer /\ buffer_table[f][k][1] = fdOf[f] /\ Under(Fresh(f), prepared, inKernel, completions) = 0
        BY <1>1 DEF UtInv, OwnBytes
      <3>2. h.fd # f
        BY <2>8, <3>1
      <3> QED
        BY <1>1, <2>7, <3>1, <3>2
    <2> QED
      BY <1>1, <2>4, <2>9, <2>10 DEF UtInv, GotOwn
  <1> QED
    BY <1>3, <1>4, <1>5

LEMMA UtStep == UtInv /\ [UtNext]_utVars => UtInv'
  <1> SUFFICES ASSUME UtInv, [UtNext]_utVars PROVE UtInv'
    OBVIOUS
  <1>1. CASE UNCHANGED utVars
    BY <1>1 DEF UtInv, UtType, OneEach, OwnBytes, GotOwn, utVars, peerSide
  <1>2. CASE UtWaits
    BY <1>1, <1>2 DEF UtWaits
  <1> QED
    BY <1>1, <1>2, PeersKeep, AcceptKeeps, RecvKeeps, SendKeeps, SubmitKeeps, PeekKeeps, OnAcceptKeeps, OnReadKeeps,
       OnWriteKeeps DEF UtNext

(* The counts are those of the property. *)
LEMMA CountsAgree == ASSUME UtInv PROVE UringSound
  <1>1. /\ UtType /\ prepared \in Seq(Reqs) /\ inKernel \in SUBSET Reqs /\ completions \in Seq(Cqes)
    BY DEF UtInv, UtType
  <1>2. /\ \A i \in DOMAIN prepared : prepared[i] \in Reqs /\ "res" \notin DOMAIN prepared[i]
        /\ \A r \in inKernel : r \in Reqs /\ "res" \notin DOMAIN r
        /\ \A i \in DOMAIN completions : completions[i] \in Cqes /\ "res" \in DOMAIN completions[i]
    <2>1. (\A r \in Reqs : "res" \notin DOMAIN r) /\ (\A e \in Cqes : "res" \in DOMAIN e)
      BY DEF Reqs, Cqes
    <2> QED
      BY <1>1, <2>1
  <1>3. Flying(LAMBDA r : r.type = "ACCEPT") = 1
    <2>1. /\ {i \in DOMAIN prepared : prepared[i].type = "ACCEPT"} = {i \in DOMAIN prepared : prepared[i] \in Accepts}
          /\ {r \in inKernel : r.type = "ACCEPT"} = inKernel \cap Accepts
          /\ {i \in DOMAIN completions : completions[i].type = "ACCEPT"} = {i \in DOMAIN completions : completions[i] \in Accepts}
      BY <1>2, OfRequest, OfCompletion
    <2>2. Flying(LAMBDA r : r.type = "ACCEPT") = Under(Accepts, prepared, inKernel, completions)
      BY <2>1, Zenon DEF Flying, Under, Tally
    <2> QED
      BY <2>2 DEF UtInv, OneEach
  <1>4. ASSUME NEW f \in UringFds, fdOf[f] # NoPeer
        PROVE  Flying(LAMBDA r : \/ r.type # "ACCEPT" /\ r.fd = f
                                 \/ r.type = "ACCEPT" /\ "res" \in DOMAIN r /\ r.res = f) = 1
    <2> DEFINE P(r) == \/ r.type # "ACCEPT" /\ r.fd = f
                       \/ r.type = "ACCEPT" /\ "res" \in DOMAIN r /\ r.res = f
    <2>1. /\ {i \in DOMAIN prepared : P(prepared[i])} = {i \in DOMAIN prepared : prepared[i] \in Of(f)}
          /\ {r \in inKernel : P(r)} = inKernel \cap Of(f)
          /\ {i \in DOMAIN completions : P(completions[i])} = {i \in DOMAIN completions : completions[i] \in Of(f)}
      BY <1>2, OfRequest, OfCompletion
    <2>2. Flying(P) = Under(Of(f), prepared, inKernel, completions)
      <3> HIDE DEF P
      <3> QED
        BY <2>1, Zenon DEF Flying, Under, Tally
    <2>3. Under(Of(f), prepared, inKernel, completions) = 1
      BY <1>4 DEF UtInv, OneEach
    <2> QED
      BY <2>2, <2>3
  <1>5. \A c \in UringPeers : \A b \in got[c] : b # <<>> => b[1] = c
    BY DEF UtInv, GotOwn
  <1> QED
    BY <1>3, <1>4, <1>5 DEF UringSound

(* tcp_server_iouring.c, for any peers, number of descriptors and length   *)
(* of the buffers, whichever completions the kernel hands out in whichever *)
(* order: exactly one accept is always on its way, exactly one request for *)
(* every connection that is open, and nobody is sent bytes that another    *)
(* peer wrote.                                                            *)
THEOREM UringKept == UtSpec => []UringSound
  <1>1. UtInv => UringSound
    BY CountsAgree
  <1> QED
    BY <1>1, UtStart, UtStep, PTL DEF UtSpec

-----------------------------------------------------------------------------
(* The cat: FlattenSeq is a recursive function, so that its value on the  *)
(* first n sequences is that on n - 1 and one more comes from its equation *)
(* alone: the function exists, and any two agree, by the least place where *)
(* they would not.                                                         *)
Both(a, b) == a \o b

(* The concatenation of the first n of the sequences s, step by step: the  *)
(* equation of FlattenSeq's function.                                      *)
Joined(f, s, n) == f = [i \in 1 .. n |-> IF i = 1 THEN s[i] ELSE Both(f[i - 1], s[i])]

LEMMA JoinExists == ASSUME NEW s, NEW n \in Nat PROVE \E f : Joined(f, s, n)
  <1> DEFINE S == {k \in Nat : ~\E f : Joined(f, s, k)}
  <1> SUFFICES ASSUME S # {} PROVE FALSE
    OBVIOUS
  <1>1. PICK m \in S : \A k \in S : m <= k
    <2>1. S \in SUBSET Nat
      OBVIOUS
    <2> HIDE DEF S
    <2> QED
      BY <2>1, Least
  <1>2. m \in Nat /\ ~\E f : Joined(f, s, m)
    OBVIOUS
  <1>3. CASE m = 0
    <2> DEFINE z == [i \in 1 .. 0 |-> 0]
    <2>1. Joined(z, s, 0)
      BY DEF Joined
    <2> QED
      BY <1>2, <1>3, <2>1
  <1>4. CASE m # 0
    <2>1. m - 1 \in Nat /\ m - 1 \notin S
      BY <1>1, <1>2, <1>4
    <2>2. PICK g : Joined(g, s, m - 1)
      BY <2>1
    <2>3. \A i \in 1 .. m - 1 : g[i] = IF i = 1 THEN s[i] ELSE Both(g[i - 1], s[i])
      BY <2>2 DEF Joined
    <2> DEFINE f == [i \in 1 .. m |-> IF i = m THEN (IF m = 1 THEN s[m] ELSE Both(g[m - 1], s[m])) ELSE g[i]]
    <2>4. /\ DOMAIN f = 1 .. m /\ f = [i \in 1 .. m |-> f[i]]
          /\ f[m] = IF m = 1 THEN s[m] ELSE Both(g[m - 1], s[m])
          /\ \A i \in 1 .. m - 1 : f[i] = g[i]
      BY <1>2, <1>4
    <2> HIDE DEF f
    <2>5. ASSUME NEW i \in 1 .. m PROVE f[i] = IF i = 1 THEN s[i] ELSE Both(f[i - 1], s[i])
      <3>1. CASE i = 1
        BY <1>2, <1>4, <2>3, <2>4, <3>1
      <3>2. CASE i # 1
        <4>1. i \in Nat /\ i - 1 \in 1 .. m - 1
          BY <1>2, <3>2
        <4>2. f[i - 1] = g[i - 1]
          BY <2>4, <4>1
        <4>3. CASE i = m
          <5>1. m # 1 /\ f[m] = Both(g[m - 1], s[m])
            BY <2>4, <3>2, <4>3
          <5> QED
            BY <3>2, <4>2, <4>3, <5>1
        <4>4. CASE i # m
          <5>1. i \in 1 .. m - 1
            BY <1>2, <4>1, <4>4
          <5>2. f[i] = g[i] /\ g[i] = Both(g[i - 1], s[i])
            BY <2>3, <2>4, <3>2, <5>1
          <5> QED
            BY <3>2, <4>2, <5>2
        <4> QED
          BY <4>3, <4>4
      <3> QED
        BY <3>1, <3>2
    <2>6. Joined(f, s, m)
      BY <2>4, <2>5 DEF Joined
    <2> QED
      BY <1>2, <2>6
  <1> QED
    BY <1>3, <1>4

(* It only depends on the sequences that are joined. *)
Alike(f, g, n) == \A i \in 1 .. n : f[i] = g[i]
LEMMA JoinOne ==
  ASSUME NEW s, NEW t, NEW f, NEW g, NEW n \in Nat, NEW k \in Nat, n <= k, Joined(f, s, n), Joined(g, t, k),
         Alike(s, t, n)
  PROVE  Alike(f, g, n)
  <1> USE DEF Alike
  <1> DEFINE S == {i \in Nat : i \in 1 .. n /\ f[i] # g[i]}
  <1> SUFFICES ASSUME S # {} PROVE FALSE
    OBVIOUS
  <1>1. PICK m \in S : \A i \in S : m <= i
    <2>1. S \in SUBSET Nat
      OBVIOUS
    <2> HIDE DEF S
    <2> QED
      BY <2>1, Least
  <1>2. m \in 1 .. n /\ m \in 1 .. k /\ m \in Nat /\ f[m] # g[m] /\ s[m] = t[m]
    OBVIOUS
  <1>3. /\ f[m] = IF m = 1 THEN s[m] ELSE Both(f[m - 1], s[m])
        /\ g[m] = IF m = 1 THEN t[m] ELSE Both(g[m - 1], t[m])
    BY <1>2 DEF Joined
  <1>4. m # 1
    BY <1>2, <1>3
  <1>5. m - 1 \in Nat /\ m - 1 \in 1 .. n /\ m - 1 \notin S
    BY <1>1, <1>2, <1>4
  <1>6. f[m - 1] = g[m - 1]
    BY <1>5
  <1> QED
    BY <1>2, <1>3, <1>4, <1>6

LEMMA FlattenIs ==
  ASSUME NEW A, NEW s \in Seq(A)
  PROVE  /\ Len(s) = 0 => FlattenSeq(s) = s
         /\ Len(s) # 0 => \E f : Joined(f, s, Len(s)) /\ FlattenSeq(s) = f[Len(s)]
  <1> DEFINE n == Len(s)
             F == CHOOSE f : Joined(f, s, n)
  <1>1. n \in Nat
    OBVIOUS
  <1>2. Joined(F, s, n)
    <2>1. \E f : Joined(f, s, n)
      BY <1>1, JoinExists
    <2> QED
      BY <2>1
  <1>3. n # 0 => FlattenSeq(s) = F[n]
    BY DEF FlattenSeq, Joined, Both
  <1>4. n = 0 => FlattenSeq(s) = s
    BY DEF FlattenSeq
  <1> QED
    BY <1>2, <1>3, <1>4

(* Joining sequences gives a sequence... *)
LEMMA FlattenType ==
  ASSUME NEW X, NEW s \in Seq(Seq(X))
  PROVE  FlattenSeq(s) \in Seq(X)
  <1> DEFINE n == Len(s)
  <1>1. n \in Nat /\ \A i \in 1 .. n : s[i] \in Seq(X)
    OBVIOUS
  <1>2. CASE n = 0
    <2>1. s = <<>>
      BY <1>2
    <2>2. FlattenSeq(s) = s
      BY <1>2, FlattenIs
    <2>3. FlattenSeq(s) = <<>>
      BY <2>1, <2>2
    <2>4. <<>> \in Seq(X)
      OBVIOUS
    <2> QED
      BY <2>3, <2>4
  <1>3. CASE n # 0
    <2>1. PICK f : Joined(f, s, n) /\ FlattenSeq(s) = f[n]
      BY <1>3, FlattenIs
    <2> DEFINE S == {i \in Nat : i \in 1 .. n /\ f[i] \notin Seq(X)}
    <2>0. n \in Nat /\ n \in 1 .. n
      BY <1>1, <1>3
    <2> SUFFICES ASSUME S # {} PROVE FALSE
      BY <2>0, <2>1
    <2>2. PICK m \in S : \A i \in S : m <= i
      <3>1. S \in SUBSET Nat
        OBVIOUS
      <3> HIDE DEF S
      <3> QED
        BY <3>1, Least
    <2>3. m \in 1 .. n /\ m \in Nat /\ f[m] \notin Seq(X) /\ s[m] \in Seq(X)
      BY <1>1
    <2>4. f[m] = IF m = 1 THEN s[m] ELSE Both(f[m - 1], s[m])
      BY <2>1, <2>3 DEF Joined
    <2>5. m # 1
      BY <2>3, <2>4
    <2>6. m - 1 \in Nat /\ m - 1 \in 1 .. n /\ m - 1 \notin S
      BY <2>2, <2>3, <2>5
    <2>7. f[m - 1] \in Seq(X)
      BY <2>6
    <2> QED
      BY <2>3, <2>4, <2>5, <2>7, ConcatProperties DEF Both
  <1> QED
    BY <1>2, <1>3

(* ...and one sequence more comes behind the others. *)
LEMMA FlattenStep ==
  ASSUME NEW X, NEW s \in Seq(Seq(X)), NEW t \in Seq(Seq(X)), Len(t) = Len(s) + 1,
         \A i \in 1 .. Len(s) : s[i] = t[i]
  PROVE  FlattenSeq(t) = FlattenSeq(s) \o t[Len(t)]
  <1> DEFINE n == Len(s)
             k == Len(t)
  <1>1. n \in Nat /\ k \in Nat /\ k = n + 1 /\ n <= k /\ t[k] \in Seq(X)
    OBVIOUS
  <1>2. PICK g : Joined(g, t, k) /\ FlattenSeq(t) = g[k]
    BY <1>1, FlattenIs
  <1>3. g[k] = IF k = 1 THEN t[k] ELSE Both(g[k - 1], t[k])
    <2>1. k \in 1 .. k
      BY <1>1
    <2> HIDE DEF k
    <2>2. g = [i \in 1 .. k |-> IF i = 1 THEN t[i] ELSE Both(g[i - 1], t[i])]
      BY <1>2 DEF Joined
    <2> DEFINE G(i) == IF i = 1 THEN t[i] ELSE Both(g[i - 1], t[i])
    <2> HIDE DEF G
    <2>3. g = [i \in 1 .. k |-> G(i)]
      BY <2>2 DEF G
    <2>4. g[k] = G(k)
      BY <2>1, <2>3
    <2> QED
      BY <2>4 DEF G
  <1>4. CASE n = 0
    <2>1. FlattenSeq(s) = <<>>
      <3>1. FlattenSeq(s) = s
        BY <1>4, FlattenIs
      <3> QED
        BY <1>4, <3>1
    <2>2. <<>> \o t[k] = t[k]
      BY <1>1, ConcatEmptySeq
    <2>3. g[k] = t[k]
      BY <1>1, <1>3, <1>4
    <2> QED
      BY <1>2, <2>1, <2>2, <2>3
  <1>5. CASE n # 0
    <2>1. PICK f : Joined(f, s, n) /\ FlattenSeq(s) = f[n]
      BY <1>5, FlattenIs
    <2>2. \A i \in 1 .. n : f[i] = g[i]
      <3>1. Alike(s, t, n)
        BY DEF Alike
      <3>2. Joined(f, s, n) /\ Joined(g, t, k) /\ n \in Nat /\ k \in Nat /\ n <= k
        BY <1>1, <1>2, <2>1
      <3> HIDE DEF n, k
      <3>3. Alike(f, g, n)
        BY <3>1, <3>2, JoinOne, Zenon
      <3> QED
        BY <3>3 DEF Alike
    <2>3. k - 1 = n /\ k # 1 /\ n \in 1 .. n
      BY <1>1, <1>5
    <2>4. n \in 1 .. n /\ f[n] = g[n]
      BY <2>2, <2>3
    <2>5. g[k] = Both(FlattenSeq(s), t[k])
      BY <1>3, <2>1, <2>3, <2>4
    <2> QED
      BY <1>2, <2>5 DEF Both
  <1> QED
    BY <1>4, <1>5

(* Arithmetic of blocks and cursors. *)
LEMMA BlocksFit ==
  ASSUME NEW z \in Nat
  PROVE  /\ current_block(z) \in Nat /\ z <= current_block(z) * BLOCK_SZ
         /\ \A j \in 1 .. current_block(z) : (j - 1) * BLOCK_SZ < z
  <1> DEFINE q == z \div BLOCK_SZ
             r == z % BLOCK_SZ
             m == current_block(z)
  <1>1. BLOCK_SZ \in Nat /\ BLOCK_SZ > 0
    BY CatAssumption
  <1>2. q \in Nat /\ r \in Nat /\ r < BLOCK_SZ /\ z = BLOCK_SZ * q + r
    BY <1>1
  <1>3. m = q + (IF r > 0 THEN 1 ELSE 0)
    BY DEF current_block
  <1> HIDE DEF q, r, m
  <1>4. m \in Nat
    BY <1>2, <1>3
  <1>5. z <= m * BLOCK_SZ
    <2>1. CASE r > 0
      <3>1. (q + 1) * BLOCK_SZ = BLOCK_SZ * q + BLOCK_SZ
        BY <1>1, <1>2
      <3> QED
        BY <1>1, <1>2, <1>3, <2>1, <3>1
    <2>2. CASE ~(r > 0)
      BY <1>1, <1>2, <1>3, <2>2
    <2> QED
      BY <2>1, <2>2
  <1>6. ASSUME NEW j \in 1 .. m PROVE (j - 1) * BLOCK_SZ < z
    <2>1. CASE r > 0
      <3>1. j - 1 \in Nat /\ j - 1 <= q
        BY <1>2, <1>3, <2>1
      <3> DEFINE i == j - 1
      <3> HIDE DEF i
      <3>2. i * BLOCK_SZ <= BLOCK_SZ * q
        BY <1>1, <1>2, <3>1 DEF i
      <3>3. i * BLOCK_SZ \in Int /\ BLOCK_SZ * q \in Int
        BY <1>1, <1>2, <3>1 DEF i
      <3> QED
        BY <1>2, <2>1, <3>2, <3>3 DEF i
    <2>2. CASE ~(r > 0)
      <3>1. j - 1 \in Nat /\ j - 1 <= q - 1 /\ r = 0 /\ q - 1 \in Nat
        BY <1>2, <1>3, <2>2
      <3> DEFINE i == j - 1
      <3> HIDE DEF i
      <3>2. i * BLOCK_SZ <= (q - 1) * BLOCK_SZ
        BY <1>1, <1>2, <3>1 DEF i
      <3>3. (q - 1) * BLOCK_SZ = BLOCK_SZ * q - BLOCK_SZ
        BY <1>1, <1>2
      <3>4. i * BLOCK_SZ \in Int /\ BLOCK_SZ * q \in Int
        BY <1>1, <1>2, <3>1 DEF i
      <3> QED
        BY <1>1, <1>2, <3>1, <3>2, <3>3, <3>4 DEF i
    <2> QED
      BY <2>1, <2>2
  <1> QED
    BY <1>4, <1>5, <1>6 DEF m

(* An int holds the size exactly when the blocks counted with the cast     *)
(* cover all the buffers.                                                  *)
Narrow(z) == 2 * z < IntWrap
LEMMA CastKeeps == ASSUME NEW z \in Nat, Narrow(z) PROVE blocks(z) = current_block(z)
  <1>1. IntWrap \in Nat /\ z < IntWrap /\ 2 * z < IntWrap
    BY CatAssumption DEF Narrow
  <1>2. z % IntWrap = z
    BY <1>1
  <1>3. Int32(z) = z
    BY <1>1, <1>2 DEF Int32
  <1>4. Quotient(z, BLOCK_SZ) = z \div BLOCK_SZ
    BY DEF Quotient
  <1> QED
    BY <1>3, <1>4 DEF blocks, current_block

LEMMA CastLoses == ASSUME NEW z \in Nat, ~Narrow(z) PROVE blocks(z) < current_block(z)
  <1> DEFINE r == z % IntWrap
             k == Int32(z)
             q == z \div BLOCK_SZ
  <1>1. /\ IntWrap \in Nat /\ BLOCK_SZ \in Nat /\ BLOCK_SZ > 0 /\ IntWrap >= 2 * BLOCK_SZ
        /\ IntWrap > 0 /\ 2 * z >= IntWrap /\ z >= BLOCK_SZ
    BY CatAssumption DEF Narrow
  <1>2. r \in 0 .. IntWrap - 1
    BY <1>1
  <1>3. k = IF 2 * r < IntWrap THEN r ELSE r - IntWrap
    BY DEF Int32
  <1>4. z >= IntWrap => r <= z - IntWrap
    <2> DEFINE e == z \div IntWrap
    <2>1. e \in Nat /\ z = IntWrap * e + r
      BY <1>1
    <2>2. ASSUME z >= IntWrap PROVE IntWrap * e >= IntWrap
      <3>1. e # 0
        BY <1>1, <1>2, <2>1, <2>2
      <3> HIDE DEF e, r
      <3>2. PICK d \in Nat : e = d + 1
        <4>1. e - 1 \in Nat /\ e = (e - 1) + 1
          BY <2>1, <3>1
        <4> QED
          BY <4>1
      <3>3. IntWrap * (d + 1) = IntWrap * d + IntWrap
        BY <1>1
      <3>4. IntWrap * d \in Nat
        BY <1>1
      <3> QED
        BY <1>1, <3>2, <3>3, <3>4
    <2> DEFINE g == IntWrap * e
    <2>3. g \in Int
      BY <1>1, <2>1
    <2> HIDE DEF e, r, g
    <2> QED
      BY <1>1, <1>2, <2>1, <2>2, <2>3 DEF g
  <1>5. z < IntWrap => r = z
    BY <1>1
  <1> HIDE DEF r, k
  <1>6. k \in Int /\ k <= z - IntWrap
    BY <1>1, <1>2, <1>3, <1>4, <1>5
  <1>7. q \in Nat /\ q > 0
    <2> DEFINE m == z % BLOCK_SZ
    <2>1. q \in Nat /\ m \in Nat /\ m < BLOCK_SZ /\ z = BLOCK_SZ * q + m
      BY <1>1
    <2> HIDE DEF q, m
    <2>2. q # 0
      BY <1>1, <2>1
    <2> QED
      BY <2>1, <2>2
  <1>8. Quotient(k, BLOCK_SZ) \in Int /\ Quotient(k, BLOCK_SZ) < q
    <2>1. CASE k < 0
      <3> DEFINE d == (-k) \div BLOCK_SZ
      <3>1. Quotient(k, BLOCK_SZ) = -d
        BY <2>1 DEF Quotient
      <3>2. d \in Nat
        <4>1. -k \in Nat
          BY <1>6, <2>1
        <4> QED
          BY <1>1, <4>1
      <3> HIDE DEF d, q
      <3> QED
        BY <1>7, <3>1, <3>2
    <2>2. CASE ~(k < 0)
      <3> DEFINE d == k \div BLOCK_SZ
                 a == k % BLOCK_SZ
                 b == z % BLOCK_SZ
      <3>1. Quotient(k, BLOCK_SZ) = d
        BY <2>2 DEF Quotient
      <3>2. k \in Nat
        BY <1>6, <2>2
      <3>3. d \in Nat /\ a \in Nat /\ a < BLOCK_SZ /\ k = BLOCK_SZ * d + a
        BY <1>1, <3>2
      <3>4. b \in Nat /\ b < BLOCK_SZ /\ z = BLOCK_SZ * q + b
        BY <1>1
      <3> HIDE DEF d, a, b, q
      <3>5. d < q
        <4> SUFFICES ASSUME ~(d < q) PROVE FALSE
          OBVIOUS
        <4>1. BLOCK_SZ * q <= BLOCK_SZ * d
          BY <1>1, <1>7, <3>3
        <4> DEFINE x == BLOCK_SZ * q
                   y == BLOCK_SZ * d
        <4>2. x \in Int /\ y \in Int /\ x <= y
          BY <1>1, <1>7, <3>3, <4>1
        <4>3. z = x + b /\ k = y + a
          BY <3>3, <3>4
        <4> HIDE DEF x, y
        <4> QED
          BY <1>1, <1>6, <3>3, <3>4, <4>2, <4>3
      <3> QED
        BY <3>1, <3>3, <3>5
    <2> QED
      BY <2>1, <2>2
  <1> HIDE DEF q
  <1> DEFINE c == IF z % BLOCK_SZ > 0 THEN 1 ELSE 0
  <1>9. blocks(z) = Quotient(k, BLOCK_SZ) + c /\ current_block(z) = q + c /\ c \in Int
    BY DEF blocks, current_block, k, q
  <1> HIDE DEF c
  <1> QED
    BY <1>7, <1>8, <1>9

(* A cursor and its successor, and how many completions lie between them. *)
LEMMA OneBetween ==
  ASSUME NEW h \in 0 .. CursorWrap - 1
  PROVE  Inc(h) \in 0 .. CursorWrap - 1 /\ Inc(h) # h /\ (Inc(h) - h) % CursorWrap = 1
  <1>1. CursorWrap \in Nat /\ CursorWrap > 1
    BY CatAssumption
  <1>2. CASE h + 1 < CursorWrap
    <2>1. h + 1 \in 0 .. CursorWrap - 1 /\ Inc(h) = h + 1
      BY <1>1, <1>2 DEF Inc
    <2>2. 1 % CursorWrap = 1
      BY <1>1
    <2>3. Inc(h) - h = 1
      BY <2>1
    <2> QED
      BY <2>1, <2>2, <2>3
  <1>3. CASE h + 1 = CursorWrap
    <2>1. Inc(h) = 0
      BY <1>1, <1>3 DEF Inc
    <2>2. (0 - h) % CursorWrap = 1
      <3>1. 0 - h = (-1) * CursorWrap + 1
        BY <1>1, <1>3
      <3> QED
        BY <1>1, <3>1
    <2> QED
      BY <1>1, <1>3, <2>1, <2>2
  <1> QED
    BY <1>1, <1>2, <1>3

-----------------------------------------------------------------------------
(* The buffers of a readv, and their text. *)
CatBytes == (Nat \X Nat) \cup {Garbage}
Shape(b, z) == /\ b \in Seq(Seq(CatBytes)) /\ Len(b) = current_block(z)
               /\ \A i \in 1 .. current_block(z) : Len(b[i]) = iov_len(z, i)
Filled(b, f) == \A i \in DOMAIN b : \A k \in DOMAIN b[i] : b[i][k] = <<f, (i - 1) * BLOCK_SZ + k>>
Prefix(b, j) == FlattenSeq(SubSeq(b, 1, j))
Upto(z, j) == IF j * BLOCK_SZ <= z THEN j * BLOCK_SZ ELSE z
Good(b, z, f, j) == /\ Prefix(b, j) \in Seq(CatBytes) /\ Len(Prefix(b, j)) = Upto(z, j)
                    /\ Filled(b, f) => \A p \in 1 .. Upto(z, j) : Prefix(b, j)[p] = <<f, p>>

LEMMA NextPrefix ==
  ASSUME NEW X, NEW b \in Seq(Seq(X)), NEW j \in Nat, j < Len(b)
  PROVE  /\ Prefix(b, j) \in Seq(X) /\ Prefix(b, j + 1) \in Seq(X)
         /\ Prefix(b, j + 1) = Prefix(b, j) \o b[j + 1]
  <1> DEFINE s == SubSeq(b, 1, j)
             t == SubSeq(b, 1, j + 1)
  <1>1. /\ s \in Seq(Seq(X)) /\ Len(s) = j /\ t \in Seq(Seq(X)) /\ Len(t) = j + 1
        /\ \A i \in 1 .. j : s[i] = b[i]
        /\ \A i \in 1 .. j + 1 : t[i] = b[i]
    OBVIOUS
  <1> HIDE DEF s, t
  <1>2. \A i \in 1 .. Len(s) : s[i] = t[i]
    <2>1. ASSUME NEW i \in 1 .. j PROVE s[i] = t[i]
      <3>1. i \in 1 .. j + 1
        OBVIOUS
      <3> QED
        BY <1>1, <3>1
    <2> QED
      BY <1>1, <2>1
  <1>3. FlattenSeq(t) = FlattenSeq(s) \o t[Len(t)]
    BY <1>1, <1>2, FlattenStep
  <1>4. t[Len(t)] = b[j + 1]
    <2>1. j + 1 \in 1 .. j + 1
      OBVIOUS
    <2> QED
      BY <1>1, <2>1
  <1>5. FlattenSeq(s) \in Seq(X) /\ FlattenSeq(t) \in Seq(X)
    BY <1>1, FlattenType
  <1> QED
    BY <1>3, <1>4, <1>5 DEF Prefix, s, t

LEMMA GoodStep ==
  ASSUME NEW z \in Nat, NEW b, Shape(b, z), NEW f, NEW j \in Nat, j < current_block(z), Good(b, z, f, j)
  PROVE  Good(b, z, f, j + 1)
  <1> DEFINE u == Prefix(b, j)
             v == Prefix(b, j + 1)
             w == b[j + 1]
             o == j * BLOCK_SZ
  <1>1. b \in Seq(Seq(CatBytes)) /\ Len(b) = current_block(z) /\ current_block(z) \in Nat /\ j + 1 \in 1 .. current_block(z)
    BY BlocksFit DEF Shape
  <1>2. u \in Seq(CatBytes) /\ v \in Seq(CatBytes) /\ v = u \o w
    BY <1>1, NextPrefix
  <1>3. BLOCK_SZ \in Nat /\ o \in Nat /\ (j + 1) * BLOCK_SZ = o + BLOCK_SZ
    BY CatAssumption
  <1>4. o < z
    <2>1. (j + 1 - 1) * BLOCK_SZ < z
      BY <1>1, BlocksFit
    <2> QED
      BY <2>1
  <1>5. Len(w) = IF BLOCK_SZ <= z - o THEN BLOCK_SZ ELSE z - o
    <2>1. Len(w) = iov_len(z, j + 1)
      BY <1>1 DEF Shape
    <2>2. iov_len(z, j + 1) = Min({BLOCK_SZ, z - o})
      BY DEF iov_len
    <2>3. BLOCK_SZ \in Int /\ z - o \in Int
      BY <1>3
    <2> HIDE DEF o
    <2> QED
      BY <2>1, <2>2, <2>3, MinTwo
  <1>6. Upto(z, j) = o /\ Upto(z, j + 1) = IF o + BLOCK_SZ <= z THEN o + BLOCK_SZ ELSE z
    BY <1>3, <1>4 DEF Upto
  <1>7. Len(u) = o
    BY <1>6 DEF Good
  <1>8. w \in Seq(CatBytes) /\ j + 1 \in DOMAIN b
    BY <1>1
  <1>9. ASSUME Filled(b, f) PROVE (\A p \in 1 .. o : u[p] = <<f, p>>) /\ \A k \in 1 .. Len(w) : w[k] = <<f, o + k>>
    <2>1. \A p \in 1 .. o : u[p] = <<f, p>>
      BY <1>6, <1>9 DEF Good
    <2>2. \A k \in DOMAIN w : w[k] = <<f, (j + 1 - 1) * BLOCK_SZ + k>>
      BY <1>8, <1>9 DEF Filled
    <2>3. (j + 1 - 1) * BLOCK_SZ = o
      OBVIOUS
    <2> QED
      BY <1>8, <2>1, <2>2, <2>3
  <1> HIDE DEF u, v, w, o
  <1>10. Len(v) = o + Len(w) /\ Len(w) \in Nat
    <2>1. Len(w) \in Nat /\ Len(u \o w) = Len(u) + Len(w)
      BY <1>2, <1>8, ConcatProperties
    <2> QED
      BY <1>2, <1>7, <2>1
  <1>11. Len(v) = Upto(z, j + 1)
    BY <1>3, <1>4, <1>5, <1>6, <1>10
  <1>12. ASSUME Filled(b, f), NEW p \in 1 .. Len(v) PROVE v[p] = <<f, p>>
    <2>1. CASE p <= o
      <3>1. p \in 1 .. o
        BY <1>3, <2>1
      <3> QED
        BY <1>2, <1>7, <1>8, <1>9, <1>12, <2>1, <3>1
    <2>2. CASE ~(p <= o)
      <3>1. p - o \in 1 .. Len(w) /\ o + (p - o) = p
        BY <1>3, <1>10, <2>2
      <3>2. v[p] = w[p - o]
        BY <1>2, <1>7, <1>8, <1>10, <2>2
      <3> QED
        BY <1>9, <1>12, <3>1, <3>2
    <2> QED
      BY <2>1, <2>2
  <1> QED
    BY <1>2, <1>11, <1>12 DEF Good, v

(* The buffers together are as long as the file, and when the kernel       *)
(* filled all of them they are its text.                                   *)
LEMMA BlocksJoin ==
  ASSUME NEW z \in Nat, NEW b, Shape(b, z), NEW f
  PROVE  LET text == Prefix(b, current_block(z)) IN
         /\ text \in Seq(CatBytes) /\ Len(text) = z
         /\ Filled(b, f) => \A p \in 1 .. z : text[p] = <<f, p>>
  <1> DEFINE m == current_block(z)
             S == {j \in Nat : j <= m /\ ~Good(b, z, f, j)}
  <1>1. m \in Nat /\ z <= m * BLOCK_SZ
    BY BlocksFit
  <1>2. Good(b, z, f, 0)
    <2>1. SubSeq(b, 1, 0) = <<>>
      BY DEF Shape
    <2>2. FlattenSeq(<<>>) = <<>>
      <3>1. <<>> \in Seq(CatBytes) /\ Len(<<>>) = 0
        OBVIOUS
      <3> QED
        BY <3>1, FlattenIs
    <2>3. Upto(z, 0) = 0
      BY CatAssumption DEF Upto
    <2>4. Prefix(b, 0) = <<>>
      BY <2>1, <2>2 DEF Prefix
    <2>5. 1 .. 0 = {} /\ <<>> \in Seq(CatBytes) /\ Len(<<>>) = 0
      OBVIOUS
    <2> QED
      BY <2>3, <2>4, <2>5 DEF Good
  <1>3. S = {}
    <2> SUFFICES ASSUME S # {} PROVE FALSE
      OBVIOUS
    <2>1. PICK j \in S : \A i \in S : j <= i
      <3>1. S \in SUBSET Nat
        OBVIOUS
      <3> HIDE DEF S
      <3> QED
        BY <3>1, Least
    <2>2. j \in Nat /\ j <= m /\ ~Good(b, z, f, j) /\ j # 0
      BY <1>2
    <2>3. j - 1 \in Nat /\ j - 1 < m /\ j - 1 \notin S
      BY <1>1, <2>1, <2>2
    <2>4. Good(b, z, f, j - 1)
      BY <2>3, <1>1
    <2> DEFINE i == j - 1
    <2>5. i \in Nat /\ i < m /\ Good(b, z, f, i) /\ j = i + 1
      BY <2>2, <2>3, <2>4
    <2> HIDE DEF i, S
    <2>6. Good(b, z, f, i + 1)
      BY <2>5, GoodStep
    <2> QED
      BY <2>2, <2>5, <2>6
  <1>4. Good(b, z, f, m)
    BY <1>1, <1>3
  <1>5. Upto(z, m) = z
    BY <1>1, CatAssumption DEF Upto
  <1> QED
    BY <1>4, <1>5 DEF Good

(* The text of the first n files. *)
FileText(f) == [k \in 1 .. argv[f] |-> <<f, k>>]
Whole(n) == FlattenSeq([f \in 1 .. n |-> FileText(f)])

LEMMA WholeStep ==
  ASSUME argv \in Seq(Nat), NEW n \in Nat, n + 1 \in DOMAIN argv
  PROVE  /\ Whole(n) \in Seq(Nat \X Nat) /\ FileText(n + 1) \in Seq(Nat \X Nat) /\ Len(FileText(n + 1)) = argv[n + 1]
         /\ Whole(n + 1) = Whole(n) \o FileText(n + 1)
  <1> DEFINE s == [f \in 1 .. n |-> FileText(f)]
             t == [f \in 1 .. n + 1 |-> FileText(f)]
             X == Nat \X Nat
  <1>1. \A f \in 1 .. n + 1 : FileText(f) \in Seq(X) /\ Len(FileText(f)) = argv[f]
    <2> SUFFICES ASSUME NEW f \in 1 .. n + 1 PROVE FileText(f) \in Seq(X) /\ Len(FileText(f)) = argv[f]
      OBVIOUS
    <2>1. f \in Nat /\ argv[f] \in Nat
      OBVIOUS
    <2>2. \A k \in 1 .. argv[f] : <<f, k>> \in X
      BY <2>1
    <2> HIDE DEF X
    <2> QED
      BY <2>1, <2>2 DEF FileText
  <1>2. /\ s \in Seq(Seq(X)) /\ Len(s) = n /\ t \in Seq(Seq(X)) /\ Len(t) = n + 1
        /\ \A f \in 1 .. n : s[f] = FileText(f)
        /\ \A f \in 1 .. n + 1 : t[f] = FileText(f)
    <2> HIDE DEF X
    <2> QED
      BY <1>1
  <1> HIDE DEF s, t, X
  <1>3. \A i \in 1 .. Len(s) : s[i] = t[i]
    <2>1. ASSUME NEW i \in 1 .. n PROVE s[i] = t[i]
      <3>1. i \in 1 .. n + 1
        OBVIOUS
      <3> QED
        BY <1>2, <3>1
    <2> QED
      BY <1>2, <2>1
  <1>4. FlattenSeq(t) = FlattenSeq(s) \o t[Len(t)]
    BY <1>2, <1>3, FlattenStep
  <1>5. t[Len(t)] = FileText(n + 1)
    <2>1. n + 1 \in 1 .. n + 1
      OBVIOUS
    <2> QED
      BY <1>2, <2>1
  <1>6. FlattenSeq(s) \in Seq(X)
    BY <1>2, FlattenType
  <1>7. n + 1 \in 1 .. n + 1
    OBVIOUS
  <1> QED
    BY <1>1, <1>4, <1>5, <1>6, <1>7 DEF Whole, s, t, X

-----------------------------------------------------------------------------
(* The inductive invariant.  At most one readv is under way, the one of    *)
(* the current file, and the cursors show where it is; its buffers are cut *)
(* to the size of the file, which an int holds, and filled unless the file *)
(* is known as spoiled.                                                    *)
CatType ==
    /\ argv \in Seq(Nat) /\ catAt \in {"submit", "enter", "reap", "exit0", "exit1", "lost"}
    /\ arg \in Nat \ {0} /\ (catAt \in {"submit", "enter", "reap"} => arg \in DOMAIN argv)
    /\ sq \in [0 .. SqEntries - 1 -> Nat] /\ sqes \in [0 .. SqEntries - 1 -> Nat] /\ cqes \in [0 .. CqEntries - 1 -> Nat]
    /\ {sqHead, sqTail, cqHead, cqTail} \subseteq 0 .. CursorWrap - 1
    /\ iovecs \in [DOMAIN argv -> Seq(Seq(CatBytes))]
Posted == sqTail = Inc(sqHead) /\ cqHead = cqTail /\ sqes[sq[sqHead % SqEntries]] = arg
Done == /\ sqHead = sqTail /\ cqTail = Inc(cqHead) /\ cqes[cqHead % CqEntries] = arg
        /\ arg \notin spoiled => Filled(iovecs[arg], arg)
RingsRun == /\ catAt = "submit" => sqHead = sqTail /\ cqHead = cqTail
            /\ catAt = "enter" => Posted \/ Done
            /\ catAt = "reap" => Done
Shaped == catAt \in {"enter", "reap"} => Shape(iovecs[arg], argv[arg])
Printed == printed \in Seq(CatBytes) /\ arg - 1 <= Len(argv)
AllPrinted == /\ Len(printed) = Len(Whole(arg - 1))
              /\ \A i \in DOMAIN Whole(arg - 1) : Whole(arg - 1)[i][1] \notin spoiled => printed[i] = Whole(arg - 1)[i]
Narrowed == /\ catAt \in {"enter", "reap"} => Narrow(argv[arg])
            /\ catAt = "lost" => ~Narrow(argv[arg])
            /\ \A f \in 1 .. arg - 1 : Narrow(argv[f])
            /\ catAt = "exit0" => arg = Len(argv) + 1
CatInv == CatType /\ RingsRun /\ Shaped /\ Printed /\ AllPrinted /\ Narrowed

LEMMA PrintsWhole == AllPrinted /\ Narrowed => CatPrints
BY DEF CatPrints, AllPrinted, Narrowed, Narrow, Whole, FileText

LEMMA Masked ==
  ASSUME NEW h \in 0 .. CursorWrap - 1
  PROVE  h % SqEntries \in 0 .. SqEntries - 1 /\ h % CqEntries \in 0 .. CqEntries - 1 /\ h \in Nat
BY CatAssumption

LEMMA CountsWhole == ASSUME NEW z \in Nat PROVE blocks(z) \in Int
  <1>1. IntWrap \in Nat /\ IntWrap > 0 /\ BLOCK_SZ \in Nat /\ BLOCK_SZ > 0
    BY CatAssumption
  <1>2. Int32(z) \in Int
    <2>1. z % IntWrap \in Int
      BY <1>1
    <2> QED
      BY <1>1, <2>1 DEF Int32
  <1> DEFINE k == Int32(z)
  <1> HIDE DEF k
  <1>3. Quotient(k, BLOCK_SZ) \in Int
    <2>1. k \in Int
      BY <1>2 DEF k
    <2>2. CASE k < 0
      <3>1. -k \in Int /\ Quotient(k, BLOCK_SZ) = -((-k) \div BLOCK_SZ)
        BY <2>1, <2>2 DEF Quotient
      <3>2. (-k) \div BLOCK_SZ \in Int
        BY <1>1, <3>1
      <3> QED
        BY <3>1, <3>2
    <2>3. CASE ~(k < 0)
      <3>1. Quotient(k, BLOCK_SZ) = k \div BLOCK_SZ
        BY <2>3 DEF Quotient
      <3> QED
        BY <1>1, <2>1, <3>1
    <2> QED
      BY <2>2, <2>3
  <1> QED
    BY <1>3 DEF blocks, k

LEMMA CatStarts == CatInit => CatInv
  <1> SUFFICES ASSUME CatInit PROVE CatInv
    OBVIOUS
  <1>1. argv \in Seq(Nat) /\ argv # <<>>
    <2>1. PICK n \in 0 .. MaxFiles : argv \in [1 .. n -> CatSizes]
      BY DEF CatInit, BoundedSeq, SeqOf
    <2>2. n \in Nat /\ \A i \in 1 .. n : argv[i] \in Nat
      <3>1. n \in Nat
        OBVIOUS
      <3>2. \A i \in 1 .. n : argv[i] \in CatSizes
        BY <2>1
      <3>3. CatSizes \subseteq Nat
        BY CatAssumption
      <3> QED
        BY <3>1, <3>2, <3>3
    <2>3. argv \in [1 .. n -> Nat]
      BY <2>1, <2>2
    <2> QED
      BY <2>2, <2>3 DEF CatInit
  <1>2. 1 \in DOMAIN argv /\ Len(argv) \in Nat
    BY <1>1
  <1>3. CatType /\ RingsRun /\ Shaped
    BY <1>1, <1>2, CatAssumption DEF CatInit, CatType, RingsRun, Shaped
  <1>4. Whole(0) = <<>>
    <2>1. [f \in 1 .. 0 |-> FileText(f)] = <<>>
      OBVIOUS
    <2>2. <<>> \in Seq(CatBytes) /\ Len(<<>>) = 0
      OBVIOUS
    <2>3. FlattenSeq(<<>>) = <<>>
      BY <2>2, FlattenIs
    <2> QED
      BY <2>1, <2>3 DEF Whole
  <1>5. Printed
    BY <1>1, <1>2 DEF CatInit, Printed
  <1>6. AllPrinted /\ Narrowed
    <2>1. arg - 1 = 0 /\ printed = <<>> /\ catAt = "submit"
      BY DEF CatInit
    <2> QED
      BY <1>4, <2>1 DEF AllPrinted, Narrowed
  <1> QED
    BY <1>3, <1>5, <1>6 DEF CatInv

LEMMA SubmitCatKeeps == ASSUME CatInv, submit_to_sq PROVE CatInv'
  <1> DEFINE z == argv[arg]
             new == [i \in 1 .. current_block(z) |-> [k \in 1 .. iov_len(z, i) |-> Garbage]]
             index == sqTail % SqEntries
  <1>1. /\ CatType /\ catAt = "submit" /\ sqHead = sqTail /\ cqHead = cqTail /\ arg \in DOMAIN argv /\ z \in Nat
        /\ sqHead \in 0 .. CursorWrap - 1
    <2>1. CatType /\ RingsRun /\ catAt = "submit"
      BY DEF CatInv, submit_to_sq
    <2>2. argv \in Seq(Nat) /\ arg \in DOMAIN argv
      BY <2>1 DEF CatType
    <2>3. z \in Nat
      BY <2>2
    <2> QED
      BY <2>1, <2>2, <2>3 DEF CatType, RingsRun
  <1>2. index \in 0 .. SqEntries - 1 /\ index \in Nat
    BY <1>1, Masked
  <1>3. Shape(new, z)
    <2>1. current_block(z) \in Nat /\ BLOCK_SZ \in Nat \ {0}
      BY <1>1, BlocksFit, CatAssumption
    <2>2. \A i \in 1 .. current_block(z) : iov_len(z, i) \in Nat
      <3> SUFFICES ASSUME NEW i \in 1 .. current_block(z) PROVE iov_len(z, i) \in Nat
        OBVIOUS
      <3>1. (i - 1) * BLOCK_SZ < z /\ i \in Nat
        BY <1>1, <2>1, BlocksFit
      <3> DEFINE o == (i - 1) * BLOCK_SZ
      <3>2. o \in Int
        BY <2>1, <3>1
      <3>3. iov_len(z, i) = Min({BLOCK_SZ, z - o})
        BY DEF iov_len
      <3>4. o < z
        BY <3>1
      <3> HIDE DEF o, z
      <3>5. BLOCK_SZ \in Int /\ z - o \in Int
        BY <1>1, <2>1, <3>2
      <3>6. Min({BLOCK_SZ, z - o}) = IF BLOCK_SZ <= z - o THEN BLOCK_SZ ELSE z - o
        BY <3>5, MinTwo
      <3> QED
        BY <1>1, <2>1, <3>2, <3>3, <3>4, <3>6
    <2> DEFINE Row(i) == [k \in 1 .. iov_len(z, i) |-> Garbage]
               m == current_block(z)
    <2>3. \A i \in 1 .. m : Row(i) \in Seq(CatBytes) /\ Len(Row(i)) = iov_len(z, i)
      BY <2>2 DEF CatBytes
    <2>4. new = [i \in 1 .. m |-> Row(i)] /\ m \in Nat
      BY <2>1
    <2> HIDE DEF z, new, Row, m
    <2>5. new \in Seq(Seq(CatBytes)) /\ Len(new) = m /\ \A i \in 1 .. m : new[i] = Row(i)
      BY <2>3, <2>4
    <2> QED
      BY <2>3, <2>5 DEF Shape, m
  <1>4. iovecs' = [iovecs EXCEPT ![arg] = new] /\ argv' = argv /\ arg' = arg /\ catAt' = "enter"
    BY DEF submit_to_sq
  <1>5. /\ sqes' = [sqes EXCEPT ![index] = arg] /\ sq' = [sq EXCEPT ![index] = index] /\ sqTail' = Inc(sqTail)
        /\ sqHead' = sqHead /\ cqes' = cqes /\ cqHead' = cqHead /\ cqTail' = cqTail
        /\ printed' = printed /\ spoiled' = spoiled
    BY DEF submit_to_sq
  <1>6. Inc(sqTail) \in 0 .. CursorWrap - 1
    BY <1>1, OneBetween
  <1> HIDE DEF new, index
  <1>7. CatType'
    <2>1. new \in Seq(Seq(CatBytes))
      BY <1>3 DEF Shape
    <2> QED
      BY <1>1, <1>2, <1>4, <1>5, <1>6, <2>1 DEF CatType
  <1>8. Posted'
    <2>1. sq'[index] = index /\ sqes'[index] = arg
      BY <1>1, <1>2, <1>5 DEF CatType
    <2> QED
      BY <1>1, <1>4, <1>5, <2>1 DEF Posted, index, Inc
  <1>9. RingsRun'
    BY <1>4, <1>8 DEF RingsRun
  <1>10. Shaped'
    <2>1. iovecs'[arg] = new
      BY <1>1, <1>4 DEF CatType
    <2> QED
      BY <1>3, <1>4, <2>1 DEF Shaped, Shape, current_block, iov_len
  <1>11. Printed' /\ AllPrinted'
    BY <1>4, <1>5 DEF CatInv, Printed, AllPrinted, Whole, FileText
  <1>12. Narrowed'
    <2>1. blocks(z) >= current_block(z)
      BY DEF submit_to_sq
    <2>2. Narrow(z)
      <3>1. blocks(z) \in Int /\ current_block(z) \in Int
        BY <1>1, BlocksFit, CountsWhole
      <3> QED
        BY <1>1, <2>1, <3>1, CastLoses
    <2> QED
      BY <1>4, <2>2 DEF CatInv, Narrowed, Narrow
  <1> QED
    BY <1>7, <1>9, <1>10, <1>11, <1>12 DEF CatInv

LEMMA EndsCatKeeps == ASSUME CatInv, OpenFails \/ MallocFails \/ IovecsOverrun \/ EnterReturns PROVE CatInv'
  <1>1. /\ argv' = argv /\ arg' = arg /\ sq' = sq /\ sqHead' = sqHead /\ sqTail' = sqTail /\ sqes' = sqes
        /\ cqes' = cqes /\ cqHead' = cqHead /\ cqTail' = cqTail /\ iovecs' = iovecs
        /\ printed' = printed /\ spoiled' = spoiled
        /\ \/ catAt' = "exit1"
           \/ catAt = "submit" /\ catAt' = "lost" /\ blocks(argv[arg]) < current_block(argv[arg])
           \/ catAt = "enter" /\ catAt' = "reap" /\ cqHead # cqTail
    BY DEF OpenFails, MallocFails, IovecsOverrun, EnterReturns
  <1>2. CatType /\ RingsRun /\ Shaped /\ Printed /\ AllPrinted /\ Narrowed
    BY DEF CatInv
  <1>3. CatType' /\ Printed' /\ AllPrinted'
    BY <1>1, <1>2 DEF CatType, Printed, AllPrinted, Whole, FileText
  <1>7. Narrowed'
    <2>1. ASSUME catAt = "submit", blocks(argv[arg]) < current_block(argv[arg]) PROVE ~Narrow(argv[arg])
      <3>1. argv[arg] \in Nat
        BY <1>2, <2>1 DEF CatType
      <3>2. current_block(argv[arg]) \in Nat
        BY <3>1, BlocksFit
      <3> QED
        BY <2>1, <3>1, <3>2, CastKeeps
    <2>2. \A f : Narrow(argv[f])' <=> Narrow(argv[f])
      BY <1>1 DEF Narrow
    <2>3. (\A f \in 1 .. arg - 1 : Narrow(argv[f]))' /\ catAt' # "exit0"
      BY <1>1, <1>2, <2>2 DEF Narrowed
    <2> QED
      BY <1>1, <1>2, <2>1, <2>2, <2>3 DEF Narrowed
  <1>4. Shaped'
    BY <1>1, <1>2 DEF Shaped, Shape, current_block, iov_len
  <1>5. Done' <=> Done
    BY <1>1 DEF Done, Filled, Inc
  <1>6. RingsRun'
    BY <1>1, <1>2, <1>5 DEF RingsRun, Posted
  <1> QED
    BY <1>3, <1>4, <1>6, <1>7 DEF CatInv

LEMMA KernelReadvKeeps == ASSUME CatInv, KernelReadv PROVE CatInv'
  <1> DEFINE z == argv[arg]
             b == iovecs[arg]
             index == cqTail % CqEntries
  <1>1. /\ CatType /\ RingsRun /\ Shaped /\ catAt = "enter" /\ sqHead # sqTail
        /\ argv' = argv /\ catAt' = catAt /\ arg' = arg /\ sq' = sq /\ sqTail' = sqTail /\ sqes' = sqes
        /\ cqHead' = cqHead /\ printed' = printed /\ sqHead' = Inc(sqHead) /\ cqTail' = Inc(cqTail)
    BY DEF CatInv, KernelReadv
  <1>2. /\ Posted /\ sqes[sq[sqHead % SqEntries]] = arg /\ cqHead = cqTail /\ sqTail = Inc(sqHead)
        /\ Shape(b, z) /\ arg \in DOMAIN argv /\ argv \in Seq(Nat)
        /\ cqTail \in 0 .. CursorWrap - 1 /\ sqHead \in 0 .. CursorWrap - 1
    BY <1>1 DEF CatType, RingsRun, Shaped, Done, Posted
  <1>3. z \in Nat
    BY <1>2
  <1>4. PICK n \in 0 .. z :
          /\ iovecs' = [iovecs EXCEPT ![arg] = [i \in DOMAIN @ |-> [k \in DOMAIN @[i] |->
                          IF (i - 1) * BLOCK_SZ + k <= n THEN <<arg, (i - 1) * BLOCK_SZ + k>> ELSE Garbage]]]
          /\ spoiled' = IF n < z THEN spoiled \cup {arg} ELSE spoiled
    BY <1>2 DEF KernelReadv
  <1>5. cqes' = [cqes EXCEPT ![index] = arg]
    BY <1>2 DEF KernelReadv
  <1> DEFINE Row(i) == [k \in DOMAIN b[i] |->
                          IF (i - 1) * BLOCK_SZ + k <= n THEN <<arg, (i - 1) * BLOCK_SZ + k>> ELSE Garbage]
             new == [i \in DOMAIN b |-> Row(i)]
  <1>6. iovecs' = [iovecs EXCEPT ![arg] = new]
    BY <1>4
  <1>7. /\ b \in Seq(Seq(CatBytes)) /\ DOMAIN b = 1 .. current_block(z) /\ current_block(z) \in Nat /\ arg \in Nat
        /\ \A i \in 1 .. current_block(z) : DOMAIN b[i] = 1 .. iov_len(z, i) /\ iov_len(z, i) \in Nat
    <2>1. b \in Seq(Seq(CatBytes)) /\ Len(b) = current_block(z) /\ \A i \in 1 .. current_block(z) : Len(b[i]) = iov_len(z, i)
      BY <1>2 DEF Shape
    <2>2. current_block(z) \in Nat /\ DOMAIN b = 1 .. current_block(z) /\ \A i \in 1 .. current_block(z) : b[i] \in Seq(CatBytes)
      BY <2>1
    <2> HIDE DEF b, z
    <2> QED
      BY <1>1, <2>1, <2>2 DEF CatType
  <1>8. \A i \in 1 .. current_block(z) : Row(i) \in Seq(CatBytes) /\ Len(Row(i)) = iov_len(z, i)
    <2> SUFFICES ASSUME NEW i \in 1 .. current_block(z) PROVE Row(i) \in Seq(CatBytes) /\ Len(Row(i)) = iov_len(z, i)
      OBVIOUS
    <2> DEFINE o == (i - 1) * BLOCK_SZ
               l == iov_len(z, i)
    <2>1. o \in Nat
      <3>1. i - 1 \in Nat /\ BLOCK_SZ \in Nat
        BY <1>7, CatAssumption
      <3> QED
        BY <3>1
    <2>2. l \in Nat /\ DOMAIN b[i] = 1 .. l
      BY <1>7
    <2>3. Row(i) = [k \in 1 .. l |-> IF o + k <= n THEN <<arg, o + k>> ELSE Garbage]
      BY <2>2
    <2> HIDE DEF o, l, b, z, Row
    <2>4. \A k \in 1 .. l : (IF o + k <= n THEN <<arg, o + k>> ELSE Garbage) \in CatBytes
      BY <1>7, <2>1, <2>2 DEF CatBytes
    <2>5. Row(i) \in [1 .. l -> CatBytes]
      BY <2>3, <2>4
    <2>6. Row(i) \in Seq(CatBytes) /\ Len(Row(i)) = l
      BY <2>2, <2>5
    <2> QED
      BY <2>6 DEF l
  <1>9. Shape(new, z)
    <2> DEFINE m == current_block(z)
    <2>1. new = [i \in 1 .. m |-> Row(i)] /\ m \in Nat
      BY <1>7
    <2>2. \A i \in 1 .. m : Row(i) \in Seq(CatBytes)
      BY <1>8
    <2> HIDE DEF new, Row, b, z, m
    <2>3. new \in Seq(Seq(CatBytes)) /\ Len(new) = m /\ \A i \in 1 .. m : new[i] = Row(i)
      BY <2>1, <2>2
    <2> QED
      BY <1>8, <2>3 DEF Shape, m
  <1>10. n = z => Filled(new, arg)
    <2> SUFFICES ASSUME n = z, NEW i \in 1 .. current_block(z), NEW k \in 1 .. iov_len(z, i)
                 PROVE  new[i][k] = <<arg, (i - 1) * BLOCK_SZ + k>>
      <3>1. DOMAIN new = 1 .. current_block(z) /\ \A i \in 1 .. current_block(z) : DOMAIN new[i] = 1 .. iov_len(z, i)
        BY <1>7
      <3> HIDE DEF new, z
      <3> QED
        BY <3>1 DEF Filled
    <2> DEFINE o == (i - 1) * BLOCK_SZ
    <2>1. o \in Int /\ BLOCK_SZ \in Int
      BY <1>7, CatAssumption
    <2>2. iov_len(z, i) = Min({BLOCK_SZ, z - o})
      BY DEF iov_len
    <2>3. new[i][k] = IF o + k <= n THEN <<arg, o + k>> ELSE Garbage
      BY <1>7
    <2> HIDE DEF o, z, new
    <2>4. iov_len(z, i) = IF BLOCK_SZ <= z - o THEN BLOCK_SZ ELSE z - o
      <3>1. z - o \in Int
        BY <1>3, <2>1
      <3> QED
        BY <2>1, <2>2, <3>1, MinTwo
    <2>5. k \in Int /\ k <= iov_len(z, i)
      BY <1>7
    <2>6. o + k <= z
      BY <1>3, <2>1, <2>4, <2>5
    <2> QED
      BY <2>3, <2>6 DEF o
  <1>11. index \in 0 .. CqEntries - 1
    BY <1>2, Masked
  <1> HIDE DEF new, index
  <1>12. Inc(cqTail) \in 0 .. CursorWrap - 1 /\ Inc(sqHead) \in 0 .. CursorWrap - 1
    BY <1>2, OneBetween
  <1>13. CatType'
    <2>1. new \in Seq(Seq(CatBytes))
      BY <1>9 DEF Shape
    <2> QED
      BY <1>1, <1>2, <1>5, <1>6, <1>7, <1>11, <1>12, <2>1 DEF CatType
  <1>14. iovecs'[arg] = new
    BY <1>1, <1>2, <1>6 DEF CatType
  <1>15. Done'
    <2>1. sqHead' = sqTail' /\ cqTail' = Inc(cqHead')
      BY <1>1, <1>2
    <2>2. cqes'[cqHead' % CqEntries] = arg'
      BY <1>1, <1>2, <1>5, <1>11 DEF CatType, index
    <2>3. arg' \notin spoiled' => Filled(iovecs'[arg'], arg')
      <3>1. arg \notin spoiled' => n = z
        BY <1>3, <1>4
      <3> QED
        BY <1>1, <1>10, <1>14, <3>1
    <2> QED
      BY <2>1, <2>2, <2>3 DEF Done, Filled, Inc
  <1>16. RingsRun'
    BY <1>1, <1>15 DEF RingsRun
  <1>17. Shaped'
    BY <1>1, <1>9, <1>14 DEF Shaped, Shape, current_block, iov_len
  <1>18. Printed' /\ AllPrinted' /\ Narrowed'
    <2>1. spoiled \subseteq spoiled'
      BY <1>4
    <2>2. Narrowed'
      BY <1>1 DEF CatInv, Narrowed, Narrow
    <2> QED
      BY <1>1, <2>1, <2>2 DEF CatInv, Printed, AllPrinted, Whole, FileText
  <1> QED
    BY <1>13, <1>16, <1>17, <1>18 DEF CatInv

LEMMA ReadFromCqKeeps == ASSUME CatInv, read_from_cq PROVE CatInv'
  <1> DEFINE z == argv[arg]
             b == iovecs[arg]
             T == Prefix(b, current_block(z))
             n == arg - 1
             W == Whole(n)
             X == FileText(arg)
             L == Len(printed)
  <1>1. /\ CatType /\ RingsRun /\ Shaped /\ Printed /\ AllPrinted /\ Narrowed /\ catAt = "reap"
        /\ argv' = argv /\ arg' = arg + 1 /\ catAt' = (IF arg < Len(argv) THEN "submit" ELSE "exit0")
        /\ sq' = sq /\ sqHead' = sqHead /\ sqTail' = sqTail /\ sqes' = sqes /\ cqes' = cqes
        /\ cqHead' = cqTail /\ cqTail' = cqTail /\ iovecs' = iovecs /\ spoiled' = spoiled
    BY DEF CatInv, read_from_cq
  <1>2. /\ Done /\ Shape(b, z) /\ arg \in DOMAIN argv /\ argv \in Seq(Nat)
        /\ cqHead \in 0 .. CursorWrap - 1 /\ arg \in Nat \ {0} /\ printed \in Seq(CatBytes)
    BY <1>1 DEF CatType, RingsRun, Shaped, Printed
  <1>3. z \in Nat /\ n \in Nat /\ n + 1 = arg /\ arg <= Len(argv) /\ Len(argv) \in Nat
    BY <1>2
  <1>4. T \in Seq(CatBytes) /\ Len(T) = z /\ (Filled(b, arg) => \A p \in 1 .. z : T[p] = <<arg, p>>)
    <2> HIDE DEF z, b
    <2> QED
      BY <1>2, <1>3, BlocksJoin
  <1>15. Narrow(z) /\ blocks(z) = current_block(z)
    <2>1. Narrow(z)
      BY <1>1 DEF Narrowed
    <2> QED
      BY <1>3, <2>1, CastKeeps
  <1>5. printed' = printed \o T
    <2> DEFINE Text(j) == LET f == cqes[(cqHead + j - 1) % CqEntries]
                          IN  FlattenSeq(SubSeq(iovecs[f], 1, blocks(argv[f])))
               s == [j \in 1 .. 1 |-> Text(j)]
    <2>1. (cqTail - cqHead) % CursorWrap = 1
      BY <1>2, OneBetween DEF Done
    <2>2. printed' = printed \o FlattenSeq(s)
      BY <2>1 DEF read_from_cq
    <2>3. Text(1) = T
      <3>1. cqHead + 1 - 1 = cqHead
        BY <1>2
      <3> QED
        BY <1>2, <1>15, <3>1 DEF Done, Prefix
    <2>4. FlattenSeq(s) = T
      <3> HIDE DEF Text, T
      <3>1. s \in Seq(Seq(CatBytes)) /\ Len(s) = 1 /\ s[1] = T
        BY <1>4, <2>3
      <3>2. <<>> \in Seq(Seq(CatBytes)) /\ Len(<<>>) = 0
        OBVIOUS
      <3> HIDE DEF s
      <3>3. FlattenSeq(s) = FlattenSeq(<<>>) \o s[Len(s)]
        <4> DEFINE e == <<>>
        <4>1. e \in Seq(Seq(CatBytes)) /\ Len(s) = Len(e) + 1 /\ \A i \in 1 .. Len(e) : e[i] = s[i]
          BY <3>1, <3>2
        <4> HIDE DEF e
        <4>2. FlattenSeq(s) = FlattenSeq(e) \o s[Len(s)]
          BY <3>1, <4>1, FlattenStep
        <4> QED
          BY <4>2 DEF e
      <3>4. FlattenSeq(<<>>) = <<>>
        BY <3>2, FlattenIs
      <3>5. <<>> \o T = T
        BY <1>4, ConcatEmptySeq
      <3> QED
        BY <3>1, <3>3, <3>4, <3>5
    <2> QED
      BY <2>2, <2>4
  <1>6. W \in Seq(Nat \X Nat) /\ X \in Seq(Nat \X Nat) /\ Len(X) = z /\ Whole(arg) = W \o X
    <2>1. argv \in Seq(Nat) /\ n \in Nat /\ n + 1 \in DOMAIN argv
      BY <1>2, <1>3
    <2> HIDE DEF n
    <2> QED
      BY <1>3, <2>1, WholeStep
  <1>7. \A k \in 1 .. z : X[k] = <<arg, k>>
    BY DEF FileText
  <1>8. Len(W) = L /\ \A i \in DOMAIN W : W[i][1] \notin spoiled => printed[i] = W[i]
    BY <1>1 DEF AllPrinted
  <1>9. arg \notin spoiled => \A p \in 1 .. z : T[p] = <<arg, p>>
    BY <1>2, <1>4 DEF Done
  <1>10. Whole(arg - 1)' = W \o X
    <2>1. arg' - 1 = arg
      BY <1>1, <1>2
    <2> QED
      BY <1>1, <1>6, <2>1 DEF Whole, FileText
  <1>11. AllPrinted'
    <2> HIDE DEF T, W, X, L, z, n, b
    <2>1. L \in Nat /\ Len(W \o X) = L + z /\ Len(printed \o T) = L + z
      <3>1. L \in Nat
        BY <1>2 DEF L
      <3>2. Len(W \o X) = Len(W) + Len(X) /\ Len(printed \o T) = Len(printed) + Len(T)
        BY <1>2, <1>4, <1>6, ConcatProperties
      <3> QED
        BY <1>4, <1>6, <1>8, <3>1, <3>2 DEF L
    <2>2. ASSUME NEW i \in 1 .. L + z, (W \o X)[i][1] \notin spoiled PROVE (printed \o T)[i] = (W \o X)[i]
      <3>1. CASE i <= L
        <4>1. i \in 1 .. L
          BY <2>1, <3>1
        <4>2. (W \o X)[i] = W[i] /\ (printed \o T)[i] = printed[i]
          BY <1>2, <1>4, <1>6, <1>8, <4>1, ConcatProperties DEF L
        <4>3. i \in DOMAIN W
          BY <1>6, <1>8, <4>1
        <4> QED
          BY <1>8, <2>2, <4>2, <4>3
      <3>2. CASE ~(i <= L)
        <4>1. i - L \in 1 .. z /\ i \in Nat
          BY <1>3, <2>1, <3>2
        <4>2. (W \o X)[i] = X[i - L] /\ (printed \o T)[i] = T[i - L]
          <5>1. i \in 1 .. L + z /\ i > L /\ L \in Nat /\ z \in Nat
            BY <1>3, <2>1, <3>2
          <5>2. (W \o X)[i] = X[i - L]
            <6>1. \A k \in 1 .. Len(W) + Len(X) : (W \o X)[k] = IF k <= Len(W) THEN W[k] ELSE X[k - Len(W)]
              BY <1>6, ConcatProperties
            <6>2. i \in 1 .. Len(W) + Len(X) /\ Len(W) = L
              BY <1>6, <1>8, <5>1
            <6> QED
              BY <5>1, <6>1, <6>2
          <5>3. (printed \o T)[i] = T[i - L]
            BY <1>2, <1>4, <5>1 DEF L
          <5> QED
            BY <5>2, <5>3
        <4>3. X[i - L] = <<arg, i - L>>
          BY <1>7, <4>1
        <4>4. arg \notin spoiled
          BY <2>2, <4>2, <4>3
        <4> QED
          BY <1>9, <4>1, <4>2, <4>3, <4>4
      <3> QED
        BY <3>1, <3>2
    <2>3. DOMAIN (W \o X) = 1 .. L + z
      <3>1. W \o X \in Seq(Nat \X Nat)
        BY <1>6, ConcatProperties
      <3> QED
        BY <2>1, <3>1
    <2>4. Len(printed') = Len(Whole(arg - 1)')
      BY <1>5, <1>10, <2>1
    <2>5. \A i \in DOMAIN (W \o X) : (W \o X)[i][1] \notin spoiled' => printed'[i] = (W \o X)[i]
      BY <1>1, <1>5, <2>2, <2>3
    <2>6. AllPrinted' <=> /\ Len(printed') = Len(Whole(arg - 1)')
                          /\ \A i \in DOMAIN Whole(arg - 1)' :
                               Whole(arg - 1)'[i][1] \notin spoiled' => printed'[i] = Whole(arg - 1)'[i]
      BY DEF AllPrinted
    <2> QED
      BY <1>10, <2>4, <2>5, <2>6
  <1>12. Printed'
    <2>1. printed \o T \in Seq(CatBytes)
      <3> HIDE DEF T
      <3> QED
        BY <1>2, <1>4, ConcatProperties
    <2>2. arg' - 1 <= Len(argv')
      BY <1>1, <1>2, <1>3
    <2> QED
      BY <1>5, <2>1, <2>2 DEF Printed
  <1>13. CatType'
    <2>1. catAt' \in {"submit", "exit0"} /\ (catAt' = "submit" => arg' \in DOMAIN argv)
      BY <1>1, <1>2, <1>3
    <2> QED
      BY <1>1, <1>2, <2>1 DEF CatType
  <1>14. RingsRun' /\ Shaped'
    BY <1>1, <1>2 DEF RingsRun, Shaped, Done
  <1>16. Narrowed'
    <2>1. \A f \in 1 .. arg : Narrow(argv[f])
      <3>1. \A f \in 1 .. arg : f = arg \/ f \in 1 .. arg - 1
        BY <1>2
      <3> QED
        BY <1>1, <1>15, <3>1 DEF Narrowed
    <2>2. arg' - 1 = arg /\ (catAt' = "exit0" => arg = Len(argv))
      BY <1>1, <1>2, <1>3
    <2> QED
      BY <1>1, <2>1, <2>2 DEF Narrowed, Narrow
  <1> QED
    BY <1>11, <1>12, <1>13, <1>14, <1>16 DEF CatInv

(* Wherever in the rings the cursors stand and wrap, whatever the sizes of *)
(* the files and of a block, and however much of each file the kernel      *)
(* reads: the files printed are those of the command line in order, each   *)
(* at its full length, and a file that was read in full byte for byte; the *)
(* program ends well only with all of them printed, and is lost only at a  *)
(* file whose size no int holds.                                           *)
THEOREM CatKept == CatSpec => []CatPrints
  <1>1. CatInit => CatInv
    BY CatStarts
  <1>2. CatInv /\ [CatNext]_catVars => CatInv'
    <2> SUFFICES ASSUME CatInv, [CatNext]_catVars PROVE CatInv'
      OBVIOUS
    <2>1. CASE submit_to_sq
      BY <2>1, SubmitCatKeeps
    <2>2. CASE OpenFails \/ MallocFails \/ IovecsOverrun \/ EnterReturns
      BY <2>2, EndsCatKeeps
    <2>3. CASE KernelReadv
      BY <2>3, KernelReadvKeeps
    <2>4. CASE read_from_cq
      BY <2>4, ReadFromCqKeeps
    <2>5. CASE UNCHANGED catVars
      <3>1. CatType' /\ Printed' /\ AllPrinted' /\ Narrowed'
        BY <2>5 DEF CatInv, catVars, CatType, Printed, AllPrinted, Narrowed, Narrow, Whole, FileText
      <3>2. Shaped'
        BY <2>5 DEF CatInv, catVars, Shaped, Shape, blocks, iov_len
      <3>3. RingsRun'
        BY <2>5 DEF CatInv, catVars, RingsRun, Posted, Done, Filled, Inc
      <3> QED
        BY <3>1, <3>2, <3>3 DEF CatInv
    <2> QED
      BY <2>1, <2>2, <2>3, <2>4, <2>5 DEF CatNext, CatOver
  <1>3. CatInv => CatPrints
    BY PrintsWhole DEF CatInv
  <1> QED
    BY <1>1, <1>2, <1>3, PTL DEF CatSpec
=============================================================================
