----------------------------- MODULE NonActive -----------------------------
(***************************************************************************)
(* The servers with a unified event source: the handler of a signal writes *)
(* its number to a socket pair whose other end is watched by epoll.        *)
(* youshuang/timer/11-3nonactive_conn.cpp closes inactive connections from *)
(* the alarm (timed), over the sorted timer list; 10-1unievent.cpp only    *)
(* ends on SIGTERM or SIGINT.  Every registration is edge-triggered.  A    *)
(* connection is its descriptor and its timer; data counts in units of     *)
(* what one recv takes.  An epoll_wait that a signal interrupts (EINTR)    *)
(* leads to a loop without events and changes nothing.  accept may fail    *)
(* for want of descriptors; neither program looks.                         *)
(***************************************************************************)
EXTENDS Integers, Sequences, FiniteSets, SequencesExt

CONSTANTS Users, ListenFd, PipeFd, NoTimer, FreedTimer,
          TIMESLOT,
          MaxClock, MaxChunks, MaxLate  \* bounds: the time, the data all users send, late

ASSUME NonActiveAssumption == /\ IsFiniteSet(Users) /\ TIMESLOT \in Nat \ {0} /\ {MaxClock, MaxChunks, MaxLate} \subseteq Nat
                              /\ Users \cap {ListenFd, PipeFd, NoTimer, FreedTimer} = {}
                              /\ ListenFd # PipeFd /\ NoTimer # FreedTimer

VARIABLES timed,                    \* which of the two programs
          clock, alarmAt,           \* time(NULL); the pending alarm, 0 if none
          sigs,                     \* the signal numbers in pipefd
          user,                     \* "idle", "queued", "open", "closed"
          chunks, unread, left,     \* sent by all; to be received; FIN or RST came
          queue, news,              \* the accept queue; the sockets with an edge to report
          loop, ready,              \* "wait", "events", "stopped", "lost"; the events to handle
          timeout, stop_server,
          timer_lst,
          heard, missed, late       \* history: when a user was last heard; the users tick left though
                                    \* they were due; the seconds that passed while the loop was busy
envVars == <<clock, user, chunks, unread, left, queue>>
mainVars == <<loop, ready, timeout, stop_server>>
histVars == <<heard, missed, late>>
ncVars == <<timed, alarmAt, sigs, news, timer_lst, envVars, mainVars, histVars>>

L == INSTANCE SortTimerList WITH Timers <- Users, NULL <- NoTimer, Freed <- FreedTimer,
                                 Returns <- TRUE, list <- timer_lst, listFired <- {}

NcInit ==
    /\ timed \in BOOLEAN
    /\ clock = 0 /\ alarmAt = (IF timed THEN TIMESLOT ELSE 0) /\ sigs = {}
    /\ user = [c \in Users |-> "idle"] /\ queue = <<>> /\ news = {}
    /\ chunks = 0 /\ unread = [c \in Users |-> 0]
    /\ left = [c \in Users |-> FALSE]
    /\ loop = "wait" /\ ready = <<>> /\ timeout = FALSE /\ stop_server = FALSE
    /\ timer_lst = L!Empty
    /\ heard = [c \in Users |-> 0] /\ missed = {} /\ late = 0

-----------------------------------------------------------------------------
(* The users and the kernel. *)
Changed(c) == news' = IF user[c] = "open" THEN news \cup {c} ELSE news
UserConnects(c) ==
    /\ user[c] = "idle" /\ user' = [user EXCEPT ![c] = "queued"]
    /\ queue' = Append(queue, c) /\ news' = news \cup {ListenFd}
    /\ UNCHANGED <<timed, clock, alarmAt, sigs, chunks, unread, left, timer_lst, mainVars, histVars>>
UserSends(c) ==
    /\ user[c] \in {"queued", "open"} /\ ~left[c] /\ chunks < MaxChunks
    /\ chunks' = chunks + 1 /\ unread' = [unread EXCEPT ![c] = @ + 1] /\ Changed(c)
    /\ UNCHANGED <<timed, clock, alarmAt, sigs, user, left, queue, timer_lst, mainVars, histVars>>
UserLeaves(c) ==
    /\ user[c] \in {"queued", "open"} /\ ~left[c]
    /\ left' = [left EXCEPT ![c] = TRUE] /\ Changed(c)
    /\ UNCHANGED <<timed, clock, alarmAt, sigs, user, chunks, unread, queue, timer_lst, mainVars, histVars>>

Handled == IF timed THEN {"TERM"} ELSE {"HUP", "TERM"}       \* CHLD as HUP, INT as TERM
sig_handler(sig) == sigs' = sigs \cup {sig} /\ news' = news \cup {PipeFd}
Signal ==
    /\ \E sig \in Handled \ sigs : sig_handler(sig)
    /\ UNCHANGED <<timed, alarmAt, envVars, timer_lst, mainVars, histVars>>
AlarmRings ==
    /\ alarmAt # 0 /\ alarmAt <= clock /\ alarmAt' = 0 /\ sig_handler("ALRM")
    /\ UNCHANGED <<timed, envVars, timer_lst, mainVars, histVars>>

InputAt(s) == CASE s = ListenFd -> queue # <<>>
                [] s = PipeFd -> sigs # {}
                [] OTHER -> user[s] = "open" /\ (unread[s] > 0 \/ left[s])
ToReport == {s \in news : InputAt(s)}
TimePasses ==
    /\ timed /\ clock < MaxClock /\ clock' = clock + 1
    /\ late' = IF loop = "wait" /\ ToReport = {} /\ clock < alarmAt THEN late ELSE late + 1
    /\ late' <= MaxLate
    /\ UNCHANGED <<timed, alarmAt, sigs, user, chunks, unread, left, queue, news, timer_lst, mainVars, heard, missed>>

-----------------------------------------------------------------------------
(* main *)
epoll_wait ==
    /\ loop = "wait" /\ ToReport # {}
    /\ loop' = "events" /\ ready' \in SetToSeqs(ToReport) /\ news' = {}
    /\ UNCHANGED <<timed, alarmAt, sigs, envVars, timeout, stop_server, timer_lst, histVars>>

Event(s) == loop = "events" /\ ready # <<>> /\ Head(ready) = s /\ ready' = Tail(ready)
Expire == clock + 3 * TIMESLOT

(* One accept for an edge; a socket that has input when it is registered   *)
(* is reported.                                                            *)
AcceptUser ==
    /\ Event(ListenFd)
    /\ LET c == Head(queue) IN
       /\ user' = [user EXCEPT ![c] = "open"] /\ queue' = Tail(queue) /\ news' = news \cup {c}
       /\ IF timed THEN /\ timer_lst' = L!add_timer(L!New(timer_lst, c, Expire), c)
                        /\ heard' = [heard EXCEPT ![c] = clock]
                   ELSE UNCHANGED <<timer_lst, heard>>
    /\ UNCHANGED <<timed, clock, alarmAt, sigs, chunks, unread, left, loop, timeout, stop_server, missed, late>>

(* accept returns -1: the connection stays queued, and 11-3 makes a timer  *)
(* for users[-1], in front of the array.                                   *)
AcceptUserFails ==
    /\ Event(ListenFd) /\ loop' = IF timed THEN "lost" ELSE loop
    /\ UNCHANGED <<timed, alarmAt, sigs, news, envVars, timeout, stop_server, timer_lst, histVars>>

(* recv takes all the signals there are. *)
HandleSignals ==
    /\ Event(PipeFd) /\ sigs' = {}
    /\ timeout' = (timeout \/ "ALRM" \in sigs) /\ stop_server' = (stop_server \/ "TERM" \in sigs)
    /\ UNCHANGED <<timed, alarmAt, news, envVars, loop, timer_lst, histVars>>

(* 10-1 does nothing with the data of its connections. *)
IgnoreData(c) ==
    /\ Event(c) /\ ~timed
    /\ UNCHANGED <<timed, alarmAt, sigs, news, envVars, loop, timeout, stop_server, timer_lst, histVars>>

ReceiveKeepsPlace(c) ==                                          \* mutant
    /\ Event(c) /\ timed /\ unread[c] > 0 /\ unread' = [unread EXCEPT ![c] = @ - 1]
    /\ timer_lst' = [timer_lst EXCEPT !.expire[c] = Expire] /\ heard' = [heard EXCEPT ![c] = clock]
    /\ UNCHANGED <<timed, clock, alarmAt, sigs, user, chunks, left, queue, news, loop, timeout, stop_server, missed, late>>
Receive(c) ==
    /\ Event(c) /\ timed /\ unread[c] > 0 /\ unread' = [unread EXCEPT ![c] = @ - 1]
    /\ timer_lst' = L!adjust_timer([timer_lst EXCEPT !.expire[c] = Expire], c) /\ heard' = [heard EXCEPT ![c] = clock]
    /\ UNCHANGED <<timed, clock, alarmAt, sigs, user, chunks, left, queue, news, loop, timeout, stop_server, missed, late>>

cb_func(cs) == /\ user' = [c \in Users |-> IF c \in cs THEN "closed" ELSE user[c]]
               /\ heard' = [c \in Users |-> IF c \in cs THEN 0 ELSE heard[c]]
               /\ news' = news \ cs
               /\ unread' = [c \in Users |-> IF c \in cs THEN 0 ELSE unread[c]]
               /\ left' = [c \in Users |-> left[c] /\ c \notin cs]

(* recv returns 0 or fails with ECONNRESET: cb_func and del_timer. *)
ReceiveEnd(c) ==
    /\ Event(c) /\ timed /\ unread[c] = 0 /\ cb_func({c})
    /\ timer_lst' = L!del_timer(timer_lst, c)
    /\ UNCHANGED <<timed, clock, alarmAt, sigs, chunks, queue, loop, timeout, stop_server, missed, late>>

(* After the events: timer_handler, if the alarm has rung. *)
NoNewAlarm == alarmAt' = alarmAt                                  \* mutant
SetAlarm == alarmAt' = clock + TIMESLOT
timer_handler ==
    /\ loop = "events" /\ ready = <<>> /\ timeout
    /\ timer_lst' = L!tick(timer_lst, clock)
    /\ cb_func(L!Members(timer_lst) \ L!Members(timer_lst'))
    /\ missed' = {c \in Users : user'[c] = "open" /\ heard[c] + 3 * TIMESLOT <= clock}
    /\ SetAlarm /\ timeout' = FALSE /\ loop' = IF stop_server THEN "stopped" ELSE "wait"
    /\ UNCHANGED <<timed, sigs, clock, chunks, queue, ready, stop_server, late>>
LoopEnds ==
    /\ loop = "events" /\ ready = <<>> /\ ~timeout
    /\ loop' = IF stop_server THEN "stopped" ELSE "wait"
    /\ UNCHANGED <<timed, alarmAt, sigs, news, envVars, ready, timeout, stop_server, timer_lst, histVars>>

NcMain == \/ epoll_wait \/ AcceptUser \/ AcceptUserFails \/ HandleSignals \/ timer_handler \/ LoopEnds
          \/ \E c \in Users : IgnoreData(c) \/ Receive(c) \/ ReceiveEnd(c)
Loops == loop \in {"wait", "events"}
NcOver == ~Loops /\ UNCHANGED ncVars
NcNext == \/ /\ Loops
             /\ \/ NcMain \/ Signal \/ AlarmRings \/ TimePasses
                \/ \E c \in Users : UserConnects(c) \/ UserSends(c) \/ UserLeaves(c)
          \/ NcOver
NcSpec == NcInit /\ [][NcNext]_ncVars

-----------------------------------------------------------------------------
(* Exactly the open connections have timers, three slots from when they    *)
(* were last heard, and the list hangs together through accepts, data,     *)
(* ends and ticks in any order; tick leaves no connection that was due.    *)
(* So no silent connection outlives its fourth slot by more than the loop  *)
(* is late, not even one whose end went unnoticed because one recv for an  *)
(* edge left data in front of it.                                          *)
NcTimers ==
    timed =>
      /\ L!ListLinked /\ L!Members(timer_lst) = {c \in Users : user[c] = "open"}
      /\ missed = {}
      /\ \A c \in L!Members(timer_lst) : /\ timer_lst.expire[c] = heard[c] + 3 * TIMESLOT
                                        /\ clock <= heard[c] + 4 * TIMESLOT + late

(* No signal is lost between the handler and the edge-triggered loop: what *)
(* is in the pipe will be reported or is being so.  And the alarm never    *)
(* stops ringing: it is set, or has rung and will be set again.            *)
NcSignals ==
    Loops =>
      /\ sigs # {} => PipeFd \in news \/ PipeFd \in {ready[k] : k \in DOMAIN ready}
      /\ timed => alarmAt # 0 \/ "ALRM" \in sigs \/ timeout

(* Both: no timer, and no signal that drives the timers, is lost. *)
NcSound == NcTimers /\ NcSignals
=============================================================================
