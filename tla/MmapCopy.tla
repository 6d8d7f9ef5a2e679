------------------------------ MODULE MmapCopy ------------------------------
(***************************************************************************)
(* mmap-multiprocess-copy.c: num_process processes copy a file, each its   *)
(* block, through two shared mappings; the parent copies the last block,   *)
(* which takes the rest of the division, and returns.  A fork that fails   *)
(* is reported and the loop goes on with the next block.  With one process *)
(* it is mmap-single-process-copy.c.                                       *)
(*                                                                         *)
(* SIGCHLD is blocked until the handler is installed; the handler reaps    *)
(* all that have exited.  sa_flags is never set: it may hold SA_RESETHAND  *)
(* (the handler runs once) or SA_NOCLDWAIT (who exits leaves no zombie).   *)
(* A memcpy is one step per process: the blocks are what the processes     *)
(* could disturb each other with.                                          *)
(***************************************************************************)
EXTENDS Integers, FiniteSets

CONSTANTS num_process,
          FileLens        \* bound: the lengths of the source file

ASSUME MmapCopyAssumption == num_process \in Nat \ {0} /\ FileLens \subseteq Nat

VARIABLES byte_num,       \* length of the source
          procs,          \* procs: 1, or num_process
          nextBlock,      \* i of the parent's loop
          copier,         \* copier[i]: "none", "failed", "runs", "exited", "reaped"
          writers,        \* writers[k]: the processes that wrote byte k of the target
          copying,        \* the parent: "fork", "copy", "unmap", "returned"
          childSignal,    \* SIGCHLD is pending
          sa_flags,       \* what the stack held: "none", "RESETHAND", "NOCLDWAIT"
          handler         \* the handler is installed

mmVars == <<byte_num, procs, nextBlock, copier, writers, copying, childSignal, sa_flags, handler>>

Blocks == 0 .. procs - 1
MmInit ==
    /\ byte_num \in FileLens /\ procs \in {1, num_process} /\ nextBlock = 0
    /\ copier = [i \in 0 .. num_process - 1 |-> "none"]
    /\ writers = [k \in 0 .. byte_num - 1 |-> {}]
    /\ copying = "fork" /\ childSignal = FALSE
    /\ sa_flags \in {"none", "RESETHAND", "NOCLDWAIT"} /\ handler = FALSE

each_process_byte == byte_num \div procs
last_short_byte == each_process_byte                             \* mutant
last_process_byte == byte_num - each_process_byte * (procs - 1)
\* memcpy(mmap_target + each_process_byte * i, mmap_source + each_process_byte * i, n)
Memcpy(i, n) == writers' = [k \in DOMAIN writers |->
    IF k \in each_process_byte * i .. each_process_byte * i + n - 1 THEN writers[k] \cup {i} ELSE writers[k]]

ForkOne ==
    /\ copying = "fork" /\ nextBlock < procs - 1 /\ nextBlock' = nextBlock + 1
    /\ \E r \in {"runs", "failed"} : copier' = [copier EXCEPT ![nextBlock] = r]
    /\ UNCHANGED <<byte_num, procs, writers, copying, childSignal, sa_flags, handler>>
\* the handler is installed and SIGCHLD unblocked
Unblock ==
    /\ copying = "fork" /\ nextBlock = procs - 1 /\ copying' = "copy" /\ handler' = TRUE
    /\ UNCHANGED <<byte_num, procs, nextBlock, copier, writers, childSignal, sa_flags>>
ParentCopies ==
    /\ copying = "copy" /\ copying' = "unmap" /\ Memcpy(procs - 1, last_process_byte)
    /\ UNCHANGED <<byte_num, procs, nextBlock, copier, childSignal, sa_flags, handler>>
ParentReturns ==
    /\ copying = "unmap" /\ copying' = "returned"
    /\ UNCHANGED <<byte_num, procs, nextBlock, copier, writers, childSignal, sa_flags, handler>>
ChildCopies(i) ==
    /\ copier[i] = "runs"
    /\ copier' = [copier EXCEPT ![i] = IF handler /\ sa_flags = "NOCLDWAIT" THEN "reaped" ELSE "exited"]
    /\ Memcpy(i, each_process_byte) /\ childSignal' = (handler \/ copying = "fork")
    /\ UNCHANGED <<byte_num, procs, nextBlock, copying, sa_flags, handler>>
ReapsOne ==                                                      \* mutant
    /\ childSignal /\ copying \in {"copy", "unmap"} /\ childSignal' = FALSE
    /\ \E i \in Blocks : copier[i] = "exited" /\ copier' = [copier EXCEPT ![i] = "reaped"]
    /\ handler' = (sa_flags # "RESETHAND")
    /\ UNCHANGED <<byte_num, procs, nextBlock, writers, copying, sa_flags>>
subprocess_signal_handle ==
    /\ childSignal /\ copying \in {"copy", "unmap"} /\ childSignal' = FALSE
    /\ copier' = [i \in DOMAIN copier |-> IF copier[i] = "exited" THEN "reaped" ELSE copier[i]]
    /\ handler' = (sa_flags # "RESETHAND")
    /\ UNCHANGED <<byte_num, procs, nextBlock, writers, copying, sa_flags>>
MmOver == copying = "returned" /\ (\A i \in Blocks : copier[i] # "runs") /\ UNCHANGED mmVars

MmNext == \/ ForkOne \/ Unblock \/ ParentCopies \/ ParentReturns \/ subprocess_signal_handle
          \/ (\E i \in Blocks : ChildCopies(i)) \/ MmOver
MmSpec == MmInit /\ [][MmNext]_mmVars

-----------------------------------------------------------------------------
(* Every byte of the target is written by one process and no byte by two,  *)
(* in whatever order they run and also when there are more processes than  *)
(* bytes: once nobody copies any more, what is missing is exactly the      *)
(* blocks whose fork failed.  No child that has exited is left as a zombie *)
(* without its signal pending, as long as there is a handler.  (The parent *)
(* does not wait: it may have returned before the copying ends, although   *)
(* line 120 says it waits.)                                                *)
MmapCopies ==
    /\ \A k \in DOMAIN writers : Cardinality(writers[k]) <= 1
    /\ (copying \in {"unmap", "returned"} /\ \A i \in Blocks : copier[i] # "runs") =>
          \A k \in DOMAIN writers :
             writers[k] = {} => \E i \in Blocks : /\ copier[i] = "failed"
                                                  /\ each_process_byte * i <= k
                                                  /\ k < each_process_byte * (i + 1)
    /\ (handler \/ copying = "fork") /\ (\E i \in Blocks : copier[i] = "exited") => childSignal
=============================================================================
