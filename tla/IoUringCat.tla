----------------------------- MODULE IoUringCat -----------------------------
(***************************************************************************)
(* liburing-learnning/use-io_uring-cat.c: files are printed one after the  *)
(* other, each read by one readv through the rings that the program shares *)
(* with the kernel.  Cursors are unsigned: they run on modulo CursorWrap   *)
(* (2^32) and are masked to index the rings.  The size of a file is cast   *)
(* to an int, of IntWrap (2^32) values, where its blocks are counted.  A   *)
(* byte is known by its file and position.  Memory suffices for any file.  *)
(***************************************************************************)
EXTENDS Integers, Sequences, SequencesExt, FiniteSetsExt

CONSTANTS BLOCK_SZ, SqEntries, CqEntries, CursorWrap, IntWrap,
          Garbage,      \* a byte of a buffer that the kernel did not fill
          CatSizes,     \* the sizes that files may have
          MaxFiles      \* bound: the files on the command line

ASSUME CatAssumption == /\ BLOCK_SZ \in Nat \ {0} /\ SqEntries \in Nat \ {0} /\ CqEntries \in Nat \ {0}
                        /\ CursorWrap \in Nat \ {0, 1} /\ CursorWrap % SqEntries = 0 /\ CursorWrap % CqEntries = 0
                        /\ IntWrap \in Nat /\ IntWrap >= 2 * BLOCK_SZ /\ CatSizes \subseteq Nat /\ MaxFiles \in Nat \ {0}

VARIABLES argv,          \* the sizes of the files
          catAt, arg,    \* where the program is: "submit", "enter", "reap", "exit0", "exit1", "lost"; the file
          sq, sqHead, sqTail, sqes,    \* the submission ring, its array and its entries
          cqes, cqHead, cqTail,        \* the completion ring
          iovecs,        \* iovecs[f]: the buffers of the readv of file f
          printed,       \* what was put to stdout
          spoiled        \* the files of which a read was short or failed
catVars == <<argv, catAt, arg, sq, sqHead, sqTail, sqes, cqes, cqHead, cqTail, iovecs, printed, spoiled>>

(* app_setup_uring: rings of the size asked for, cursors wherever the       *)
(* kernel has them.                                                         *)
CatInit ==
    /\ argv \in BoundedSeq(CatSizes, MaxFiles) /\ argv # <<>>
    /\ catAt = "submit" /\ arg = 1
    /\ sqTail \in 0 .. CursorWrap - 1 /\ sqHead = sqTail
    /\ cqTail = sqTail /\ cqHead = cqTail
    /\ sq = [i \in 0 .. SqEntries - 1 |-> 0] /\ sqes = sq /\ cqes = [i \in 0 .. CqEntries - 1 |-> 0]
    /\ iovecs = [f \in DOMAIN argv |-> <<>>] /\ printed = <<>> /\ spoiled = {}

Inc(cursor) == (cursor + 1) % CursorWrap

(* The conversion to int; the division of C, which is towards 0. *)
Int32(n) == LET r == n % IntWrap IN IF 2 * r < IntWrap THEN r ELSE r - IntWrap
Quotient(n, d) == IF n < 0 THEN -((-n) \div d) ELSE n \div d

BlocksCutOff(file_sz) == Quotient(Int32(file_sz), BLOCK_SZ)      \* mutant
blocks(file_sz) == Quotient(Int32(file_sz), BLOCK_SZ) + (IF file_sz % BLOCK_SZ > 0 THEN 1 ELSE 0)

(* The buffers that the loop over bytes_remaining puts in iovecs, and their *)
(* lengths: BLOCK_SZ, and what remains in the last.                         *)
current_block(file_sz) == file_sz \div BLOCK_SZ + (IF file_sz % BLOCK_SZ > 0 THEN 1 ELSE 0)
iov_len(file_sz, i) == Min({BLOCK_SZ, file_sz - (i - 1) * BLOCK_SZ})

-----------------------------------------------------------------------------
(* submit_to_sq up to io_uring_enter.  The file may not open, or be neither *)
(* a regular file nor a block device.                                       *)
OpenFails ==
    /\ catAt = "submit" /\ catAt' = "exit1"
    /\ UNCHANGED <<argv, arg, sq, sqHead, sqTail, sqes, cqes, cqHead, cqTail, iovecs, printed, spoiled>>
(* A negative count of blocks makes a size_t that no malloc can serve.  If  *)
(* iovecs is shorter than what the loop writes there, the behaviour is      *)
(* undefined: the program is lost.                                          *)
MallocFails ==
    /\ catAt = "submit" /\ catAt' = "exit1" /\ blocks(argv[arg]) < 0
    /\ UNCHANGED <<argv, arg, sq, sqHead, sqTail, sqes, cqes, cqHead, cqTail, iovecs, printed, spoiled>>
IovecsOverrun ==
    /\ catAt = "submit" /\ catAt' = "lost"
    /\ blocks(argv[arg]) >= 0 /\ blocks(argv[arg]) < current_block(argv[arg])
    /\ UNCHANGED <<argv, arg, sq, sqHead, sqTail, sqes, cqes, cqHead, cqTail, iovecs, printed, spoiled>>
submit_to_sq ==
    /\ catAt = "submit" /\ catAt' = "enter" /\ blocks(argv[arg]) >= current_block(argv[arg])
    /\ iovecs' = [iovecs EXCEPT ![arg] =
                    [i \in 1 .. current_block(argv[arg]) |-> [k \in 1 .. iov_len(argv[arg], i) |-> Garbage]]]
    /\ LET index == sqTail % SqEntries IN
         /\ sqes' = [sqes EXCEPT ![index] = arg] /\ sq' = [sq EXCEPT ![index] = index]
    /\ sqTail' = Inc(sqTail)
    /\ UNCHANGED <<argv, arg, sqHead, cqes, cqHead, cqTail, printed, spoiled>>

(* The kernel takes an entry and completes it: in full, in part or not at  *)
(* all.  n bytes are read, in order, into the buffers.                     *)
KernelReadv ==
    /\ catAt = "enter" /\ sqHead # sqTail
    /\ LET f == sqes[sq[sqHead % SqEntries]] IN
         /\ \E n \in 0 .. argv[f] :
              /\ iovecs' = [iovecs EXCEPT ![f] = [i \in DOMAIN @ |-> [k \in DOMAIN @[i] |->
                               IF (i - 1) * BLOCK_SZ + k <= n THEN <<f, (i - 1) * BLOCK_SZ + k>> ELSE Garbage]]]
              /\ spoiled' = IF n < argv[f] THEN spoiled \cup {f} ELSE spoiled
         /\ cqes' = [cqes EXCEPT ![cqTail % CqEntries] = f]
    /\ sqHead' = Inc(sqHead) /\ cqTail' = Inc(cqTail)
    /\ UNCHANGED <<argv, catAt, arg, sq, sqTail, sqes, cqHead, printed>>

(* io_uring_enter waits for one completion; or it fails. *)
EnterReturns ==
    /\ catAt = "enter"
    /\ \/ cqHead # cqTail /\ catAt' = "reap"
       \/ catAt' = "exit1"
    /\ UNCHANGED <<argv, arg, sq, sqHead, sqTail, sqes, cqes, cqHead, cqTail, iovecs, printed, spoiled>>

(* read_from_cq: all completions there are, whatever their res; then main  *)
(* goes on to the next file.                                               *)
read_from_cq ==
    /\ catAt = "reap"
    /\ LET count == (cqTail - cqHead) % CursorWrap
           Text(j) == LET f == cqes[(cqHead + j - 1) % CqEntries]
                      IN  FlattenSeq(SubSeq(iovecs[f], 1, blocks(argv[f])))
       IN  printed' = printed \o FlattenSeq([j \in 1 .. count |-> Text(j)])
    /\ cqHead' = cqTail
    /\ arg' = arg + 1 /\ catAt' = IF arg < Len(argv) THEN "submit" ELSE "exit0"
    /\ UNCHANGED <<argv, sq, sqHead, sqTail, sqes, cqes, cqTail, iovecs, spoiled>>

(* The program has ended. *)
CatOver == catAt \in {"exit0", "exit1", "lost"} /\ UNCHANGED catVars

CatNext == OpenFails \/ MallocFails \/ IovecsOverrun \/ submit_to_sq \/ KernelReadv \/ EnterReturns \/ read_from_cq \/ CatOver
CatSpec == CatInit /\ [][CatNext]_catVars

-----------------------------------------------------------------------------
(* Wherever in the rings the cursors stand and wrap, what was printed is   *)
(* the files so far in the order of the command line, each once and, if    *)
(* the kernel read all of it, byte for byte: the length is always right,   *)
(* and the bytes of a read that was not full are what was in the buffer.   *)
(* Only a file whose size is no int makes the program lose its way, and it *)
(* is the only kind that is not printed: at the end all files are, and     *)
(* none of them was so large.                                              *)
CatPrints ==
    LET whole == FlattenSeq([f \in 1 .. arg - 1 |-> [k \in 1 .. argv[f] |-> <<f, k>>]])
        Fits(f) == 2 * argv[f] < IntWrap IN
    /\ Len(printed) = Len(whole)
    /\ \A i \in DOMAIN whole : whole[i][1] \notin spoiled => printed[i] = whole[i]
    /\ catAt = "lost" => ~Fits(arg)
    /\ \A f \in 1 .. arg - 1 : Fits(f)
    /\ catAt = "exit0" => arg = Len(argv) + 1
=============================================================================
