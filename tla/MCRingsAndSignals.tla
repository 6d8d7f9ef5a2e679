------------------------- MODULE MCRingsAndSignals -------------------------
(***************************************************************************)
(* The model-checking instance of the ring buffers and of the servers with *)
(* a unified event source: a run is a run of the threads that use a block  *)
(* queue, of one of the io_uring programs with the kernel on the other     *)
(* side of its two rings, or of a server whose signals come through a      *)
(* socket pair.  The threads are interchangeable, and so are the users;    *)
(* the properties are safety properties.                                   *)
(***************************************************************************)
EXTENDS BlockQueue, IoUringCp, IoUringCat, IoUringTcp, NonActive, TLC

VARIABLE program
mcVars == <<program, vars, cpVars, catVars, utVars, ncVars>>
Idle(p) == /\ p # "threads" => UNCHANGED vars
           /\ p # "cp" => UNCHANGED cpVars
           /\ p # "cat" => UNCHANGED catVars
           /\ p # "tcp" => UNCHANGED utVars
           /\ p # "signals" => UNCHANGED ncVars

MCInit == /\ program \in {"threads", "cp", "cat", "tcp", "signals"} /\ Init /\ UtInit
          /\ CpInit /\ (program # "cp" => fileSize = 0)
          /\ CatInit /\ (program # "cat" => argv = <<0>> /\ sqTail = 0)
          /\ NcInit /\ (program # "signals" => timed)

MCNext == /\ program' = program
          /\ \/ program = "threads" /\ Next
             \/ program = "cp" /\ CpNext
             \/ program = "cat" /\ CatNext
             \/ program = "tcp" /\ UtNext
             \/ program = "signals" /\ NcNext
          /\ Idle(program)

MCSpec == MCInit /\ [][MCNext]_mcVars

MCSymmetry == Permutations(Threads) \cup Permutations(Users)
=============================================================================
