---------------------------- MODULE TimerService ----------------------------
(***************************************************************************)
(* What a timer container promises: a timer that was added fires in the    *)
(* first tick at or after its time, once, unless it is cancelled first.    *)
(* The sorted list, the time wheel and the time heap each implement this.  *)
(***************************************************************************)
EXTENDS Integers

CONSTANTS Timers, None      \* None is not a time

VARIABLES clock,     \* the container's clock: seconds, or turns of the wheel
          due,       \* due[t]: when t is to fire, None when it is not pending
          fired      \* the timers whose callback the last operation called

serviceVars == <<clock, due, fired>>

ServiceInit == /\ clock \in Nat
               /\ due \in [Timers -> Nat \cup {None}]
               /\ fired = {}

Passes == clock' = clock + 1 /\ fired' = {} /\ UNCHANGED due

Schedule(t) == /\ due[t] = None
               /\ due'[t] \in Nat /\ due'[t] >= clock /\ due' = [due EXCEPT ![t] = due'[t]]
               /\ fired' = {} /\ UNCHANGED clock

Extend(t) == /\ due[t] # None
             /\ due'[t] \in Nat /\ due'[t] >= due[t] /\ due' = [due EXCEPT ![t] = due'[t]]
             /\ fired' = {} /\ UNCHANGED clock

Cancel(t) == /\ due' = [due EXCEPT ![t] = None]
             /\ fired' = {} /\ UNCHANGED clock

Fire == /\ fired' = {t \in Timers : due[t] # None /\ due[t] <= clock}
        /\ due' = [t \in Timers |-> IF t \in fired' THEN None ELSE due[t]]
        /\ clock' \in {clock, clock + 1}

ServiceNext == Passes \/ Fire \/ \E t \in Timers : Schedule(t) \/ Extend(t) \/ Cancel(t)

ServiceSpec == ServiceInit /\ [][ServiceNext]_serviceVars
=============================================================================
