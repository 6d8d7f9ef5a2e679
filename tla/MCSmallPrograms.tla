-------------------------- MODULE MCSmallPrograms --------------------------
(***************************************************************************)
(* The model-checking instance of the data structures and small programs:  *)
(* a run is a run of the client of the timer containers, of a user of one  *)
(* string, of somebody who types lines, of the HTTP parser, of a connect    *)
(* with a time-out, of the processes that copy a file, or of whoever fills *)
(* the directory that is listed.  The timers are interchangeable; the      *)
(* properties are safety properties.                                       *)
(***************************************************************************)
EXTENDS TimerContainers, Sds, SdsText, HttpParser, TimedConnect, MmapCopy, EpollHttpd, TLC

VARIABLE program
Idle(p) == /\ p # "timers" => UNCHANGED vars
           /\ p # "string" => UNCHANGED s
           /\ p # "text" => UNCHANGED line
           /\ p # "parser" => UNCHANGED hpVars
           /\ p # "connect" => UNCHANGED tcVars
           /\ p # "copy" => UNCHANGED mmVars
           /\ p # "listing" => UNCHANGED ehVars
mcVars == <<program, vars, s, line, hpVars, tcVars, mmVars, ehVars>>

MCInit == /\ program \in {"timers", "string", "text", "parser", "connect", "copy", "listing"}
          /\ Init /\ (program # "timers" => uses = "wheel")
          /\ SdsInit /\ TextInit
          /\ HpInit /\ (program # "parser" => wire = <<>>)
          /\ TcInit /\ (program # "connect" => tcVia = "timeout")
          /\ MmInit /\ (program # "copy" => byte_num = 0 /\ procs = 1 /\ sa_flags = "none")
          /\ EhInit /\ (program # "listing" => ~isDir)

MCNext == /\ program' = program
          /\ \/ program = "timers" /\ Next
             \/ program = "string" /\ SdsNext
             \/ program = "text" /\ TextNext
             \/ program = "parser" /\ HpNext
             \/ program = "connect" /\ TcNext
             \/ program = "copy" /\ MmNext
             \/ program = "listing" /\ EhNext
          /\ Idle(program)

MCSpec == MCInit /\ [][MCNext]_mcVars

MCSymmetry == Permutations(Timers)
=============================================================================
