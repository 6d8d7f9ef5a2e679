------------------------------ MODULE IoUringCp ------------------------------
(***************************************************************************)
(* liburing-learnning/io_uring-cp.c: a file is copied in blocks of BS with *)
(* at most QD reads and writes in the ring.  An io_data is known by the    *)
(* first offset of its block; the byte of the file at p is p itself.  The  *)
(* kernel completes requests in any order, in part, or with an error.      *)
(* Memory suffices, submitting works except where its result is looked at, *)
(* and the file does not change.                                           *)
(***************************************************************************)
EXTENDS Integers, Sequences, FiniteSets, FiniteSetsExt

CONSTANTS QD, BS,
          Hole,       \* a byte that was not written, a buffer that is not there
          FileSizes   \* the sizes of the files to copy

(* struct io_data, with the first offset as its name; iov is base and len. *)
Buffers == UNION {[0 .. n - 1 -> Nat \cup {Hole}] : n \in 1 .. BS}
IoData == [read : BOOLEAN, offset : Nat, base : Nat, len : Nat, first_len : Nat, buffer : Buffers]

ASSUME CpAssumption == /\ QD \in Nat \ {0} /\ BS \in Nat \ {0} /\ FileSizes \subseteq Nat
                       /\ Hole \notin Nat /\ Hole \notin IoData

VARIABLES fileSize, insize, write_left, offset, reads, writes,
          got_comp, cpAt,   \* where copy_file is: "fill", "comp", "drain", "returned"
          cpRet,            \* what it returned
          io,               \* io[b]: the io_data of the block at b, while it exists
          flight,           \* the blocks whose request the kernel has
          cq,               \* the completions not yet seen: block and res
          outfile,
          cut               \* a submit failed, or a short write came in the last loop
countVars == <<insize, write_left, offset, reads, writes>>
cpVars == <<fileSize, countVars, got_comp, cpAt, cpRet, io, flight, cq, outfile, cut>>

EAGAIN == -11
EIO == -5
Blocks == {b \in 0 .. fileSize - 1 : b % BS = 0}

CpInit ==
    /\ fileSize \in FileSizes
    /\ insize = fileSize /\ write_left = fileSize /\ offset = 0 /\ reads = 0 /\ writes = 0
    /\ got_comp = FALSE /\ cpAt = "fill" /\ cpRet = 0 /\ cut = FALSE
    /\ io = [b \in Blocks |-> Hole] /\ flight = {} /\ cq = <<>>
    /\ outfile = [p \in 0 .. fileSize - 1 |-> Hole]

-----------------------------------------------------------------------------
(* The kernel reads into the buffer from iov_base on, or writes from there. *)
KernelMoves(b, n) ==
    LET d == io[b] IN
    IF d.read
    THEN /\ io' = [io EXCEPT ![b].buffer = [k \in DOMAIN @ |->
                       IF k \in d.base .. d.base + n - 1 THEN d.offset + k - d.base ELSE @[k]]]
         /\ UNCHANGED outfile
    ELSE /\ outfile' = [p \in DOMAIN outfile |->
                 IF p \in d.offset .. d.offset + n - 1 THEN d.buffer[d.base + p - d.offset] ELSE outfile[p]]
         /\ UNCHANGED io
KernelDone(b, res) ==
    /\ cpAt # "returned" /\ b \in flight /\ res <= io[b].len
    /\ KernelMoves(b, res)
    /\ flight' = flight \ {b} /\ cq' = Append(cq, [block |-> b, res |-> res])
    /\ UNCHANGED <<fileSize, countVars, got_comp, cpAt, cpRet, cut>>

-----------------------------------------------------------------------------
(* queue_read; iov_base counts from the beginning of the buffer. *)
queue_read(size, start) ==
    [read |-> TRUE, offset |-> start, base |-> 0, len |-> size, first_len |-> size,
     buffer |-> [k \in 0 .. size - 1 |-> Hole]]
(* queue_write: the whole block again, from its beginning. *)
queue_write(d, start) ==
    [d EXCEPT !.read = FALSE, !.offset = start, !.base = 0, !.len = d.first_len]

(* As many reads as there is room for, and one submit for all of them.  If *)
(* that fails the outer loop is left; the reads stay behind in the ring.   *)
Fill ==
    /\ cpAt = "fill" /\ (insize > 0 \/ write_left > 0)
    /\ LET n == Min({QD - (reads + writes), (insize + BS - 1) \div BS})
           taken == Min({n * BS, insize})
           starts == {b \in Blocks : b \in offset .. offset + taken - 1}
       IN  /\ io' = [b \in Blocks |-> IF b \in starts THEN queue_read(Min({BS, fileSize - b}), b) ELSE io[b]]
           /\ insize' = insize - taken /\ offset' = offset + taken /\ reads' = reads + n
           /\ \/ flight' = flight \cup starts /\ cpAt' = "comp" /\ UNCHANGED cut
              \/ n > 0 /\ cpAt' = "drain" /\ cut' = TRUE /\ UNCHANGED flight
    /\ got_comp' = FALSE
    /\ UNCHANGED <<fileSize, write_left, writes, cpRet, cq, outfile>>

(* The loops end: nothing left to write. *)
FillEnds ==
    /\ cpAt = "fill" /\ insize = 0 /\ write_left = 0 /\ cpAt' = "drain"
    /\ UNCHANGED <<fileSize, countVars, got_comp, cpRet, io, flight, cq, outfile, cut>>
CompEnds ==
    /\ cpAt = "comp" /\ write_left = 0 /\ cpAt' = "fill"
    /\ UNCHANGED <<fileSize, countVars, got_comp, cpRet, io, flight, cq, outfile, cut>>

Fails ==
    /\ cpAt' = "returned" /\ cpRet' = 1
    /\ UNCHANGED <<fileSize, countVars, got_comp, io, flight, cq, outfile, cut>>
(* io_uring_wait_cqe may fail; io_uring_peek_cqe returns -EAGAIN when there *)
(* is no completion, and that ends the copy as any error does.              *)
WaitFails == cpAt = "comp" /\ write_left > 0 /\ ~got_comp /\ Fails
PeekFails == cpAt = "comp" /\ write_left > 0 /\ got_comp /\ cq = <<>> /\ Fails

(* The next completion: of the first one it is waited for. *)
Seen == cpAt = "comp" /\ write_left > 0 /\ cq # <<>>
CqeFails == Seen /\ Head(cq).res < 0 /\ Head(cq).res # EAGAIN /\ Fails

AdvanceFileOnly(d, res) == [d EXCEPT !.len = @ - res, !.offset = @ + res]      \* mutant
Advance(d, res) == [d EXCEPT !.base = @ + res, !.len = @ - res, !.offset = @ + res]

(* EAGAIN or a part: the request is queued again for what is left of it. *)
Requeue ==
    /\ Seen
    /\ LET c == Head(cq)  d == io[c.block] IN
         /\ c.res = EAGAIN \/ (c.res >= 0 /\ c.res # d.len)
         /\ io' = [io EXCEPT ![c.block] = IF c.res < 0 THEN d ELSE Advance(d, c.res)]
         /\ flight' = flight \cup {c.block}
    /\ got_comp' = TRUE /\ cq' = Tail(cq)
    /\ UNCHANGED <<fileSize, countVars, cpAt, cpRet, outfile, cut>>
ReadDone ==
    /\ Seen
    /\ LET c == Head(cq)  d == io[c.block] IN
         /\ c.res = d.len /\ d.read
         /\ io' = [io EXCEPT ![c.block] = queue_write(d, c.block)]
         /\ flight' = flight \cup {c.block} /\ write_left' = write_left - d.first_len
    /\ reads' = reads - 1 /\ writes' = writes + 1
    /\ got_comp' = TRUE /\ cq' = Tail(cq)
    /\ UNCHANGED <<fileSize, insize, offset, cpAt, cpRet, outfile, cut>>
WriteDone ==
    /\ Seen
    /\ LET c == Head(cq)  d == io[c.block] IN
         /\ c.res = d.len /\ ~d.read
         /\ io' = [io EXCEPT ![c.block] = Hole]
    /\ writes' = writes - 1
    /\ got_comp' = TRUE /\ cq' = Tail(cq)
    /\ UNCHANGED <<fileSize, insize, write_left, offset, reads, flight, cpAt, cpRet, outfile, cut>>

(* The last loop only counts: a completion that is no error is a write done. *)
Drain ==
    /\ cpAt = "drain" /\ writes > 0 /\ cq # <<>> /\ Head(cq).res >= 0
    /\ LET c == Head(cq) IN
         cut' = (cut \/ c.res < io[c.block].len) /\ io' = [io EXCEPT ![c.block] = Hole]
    /\ writes' = writes - 1 /\ cq' = Tail(cq)
    /\ UNCHANGED <<fileSize, insize, write_left, offset, reads, got_comp, cpAt, cpRet, flight, outfile>>
DrainFails == cpAt = "drain" /\ writes > 0 /\ Fails     \* no completion, or one with an error
DrainEnds ==
    /\ cpAt = "drain" /\ writes = 0 /\ cpAt' = "returned" /\ cpRet' = 0
    /\ UNCHANGED <<fileSize, countVars, got_comp, io, flight, cq, outfile, cut>>

(* The program has ended. *)
CpOver == cpAt = "returned" /\ UNCHANGED cpVars

CpNext == \/ Fill \/ FillEnds \/ CompEnds \/ WaitFails \/ PeekFails \/ CqeFails
          \/ Requeue \/ ReadDone \/ WriteDone \/ Drain \/ DrainFails \/ DrainEnds \/ CpOver
          \/ \E b \in flight, res \in {EAGAIN, EIO} \cup 1 .. BS : KernelDone(b, res)
CpSpec == CpInit /\ [][CpNext]_cpVars

-----------------------------------------------------------------------------
Live(isRead) == {b \in Blocks : io[b] # Hole /\ io[b].read = isRead}

(* Whatever is completed in part, out of order or with EAGAIN, no byte     *)
(* lands in the wrong place; until the last loop the counters are the      *)
(* requests in the ring, none of which is lost, and there are never more   *)
(* than its entries; and success means that the whole file was copied,     *)
(* except after a failed submit and a short write in the last loop, which  *)
(* the code takes for a whole one.                                         *)
CopySound ==
    /\ \A p \in DOMAIN outfile : outfile[p] \in {Hole, p}
    /\ cpAt \in {"fill", "comp"} =>
           /\ reads = Cardinality(Live(TRUE)) /\ writes = Cardinality(Live(FALSE))
           /\ reads + writes = Cardinality(flight) + Len(cq) /\ reads + writes <= QD
    /\ cpAt = "returned" /\ cpRet = 0 /\ ~cut => \A p \in DOMAIN outfile : outfile[p] = p
=============================================================================
