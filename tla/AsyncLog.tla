------------------------------ MODULE AsyncLog ------------------------------
(***************************************************************************)
(* webserver/log: LOG_xxx(...) = Log::write_log followed by Log::flush,    *)
(* called by several threads, and the writer thread that init starts in    *)
(* asynchronous mode.  A line is <<t, n>>, the n-th line thread t logs;    *)
(* its text is left out.  The queue is the bounded FIFO that block_queue   *)
(* implements (RingsProof!Refinement).  Every critical section of          *)
(* m_mutex is one action, so is every call of the queue.                   *)
(***************************************************************************)
EXTENDS Integers, Sequences, FiniteSets, FiniteSetsExt

CONSTANTS Loggers,     \* the threads that log
          QueueSizes,  \* the arguments max_queue_size of init; 0 is synchronous mode
          SplitLines,  \* m_split_lines
          MaxLines,    \* bound: lines logged by all threads together
          LastDay      \* bound: the day on which the run ends

ASSUME LogAssumption == /\ IsFiniteSet(Loggers) /\ QueueSizes \subseteq Nat /\ SplitLines \in Nat \ {0}
                        /\ MaxLines \in Nat /\ LastDay \in Nat \ {0}

VARIABLES clock,     \* the day the system clock shows
          max_queue_size, \* what init was called with; it never changes
          m_count, m_today,
          m_fp,      \* the open file, <<day, number>>; number 0 has no suffix
          out,       \* the lines fputs wrote, with their file, in order
          unflushed, \* how many of the last of them are still in stdio's buffer
          q,         \* *m_log_queue
          dropped,   \* the lines whose push returned false
          logPc,     \* logPc[t]: the next step of write_log; flush() ends it
          my_tm,     \* my_tm[t]: the day t read before it took the lock
          n,         \* n[t]: how many lines t has started to log
          single_log \* the lines the writer thread has popped and not written

logVars == <<m_count, m_today, m_fp>>
vars == <<clock, max_queue_size, m_count, m_today, m_fp, out, unflushed, q, dropped, logPc, my_tm, n,
          single_log>>

m_is_async == max_queue_size >= 1
Line(t) == <<t, n[t]>>
Started == MapThenSumSet(LAMBDA t : n[t], Loggers)

(* Log::init opens today's file; the writer thread then waits in pop. *)
LogInit == /\ clock = 1 /\ max_queue_size \in QueueSizes
        /\ m_count = 0 /\ m_today = clock /\ m_fp = <<clock, 0>>
        /\ out = <<>> /\ unflushed = 0
        /\ q = <<>> /\ single_log = <<>> /\ dropped = {}
        /\ logPc = [t \in Loggers |-> "idle"]
        /\ my_tm = [t \in Loggers |-> 1]
        /\ n = [t \in Loggers |-> 0]

Midnight == /\ clock < LastDay
            /\ clock' = clock + 1
            /\ UNCHANGED <<max_queue_size, logVars, out, unflushed, q, dropped, logPc, my_tm, n, single_log>>

-----------------------------------------------------------------------------
LogGoto(t, step) == logPc' = [logPc EXCEPT ![t] = step]

(* write_log reads the time first, without the lock. *)
ReadTime(t) ==
    /\ logPc[t] = "idle" /\ Started < MaxLines
    /\ n' = [n EXCEPT ![t] = @ + 1]
    /\ my_tm' = [my_tm EXCEPT ![t] = clock]
    /\ LogGoto(t, "count")
    /\ UNCHANGED <<clock, max_queue_size, logVars, out, unflushed, q, dropped, single_log>>

(* First critical section: count the line, change the file on a new day    *)
(* or every m_split_lines lines.  fflush and fclose empty the buffer.      *)
CountNoWrap(t) ==                                             \* mutant
    /\ logPc[t] = "count"
    /\ m_count' = m_count + 1
    /\ IF m_today # my_tm[t]
       THEN m_today' = my_tm[t] /\ m_fp' = <<my_tm[t], 0>> /\ unflushed' = 0
       ELSE UNCHANGED <<m_today, m_fp, unflushed>>
    /\ LogGoto(t, "route")
    /\ UNCHANGED <<clock, max_queue_size, out, q, dropped, my_tm, n, single_log>>
Count(t) ==
    /\ logPc[t] = "count"
    /\ \/ /\ m_today # my_tm[t]
          /\ m_today' = my_tm[t] /\ m_count' = 0
          /\ m_fp' = <<my_tm[t], 0>> /\ unflushed' = 0
       \/ /\ m_today = my_tm[t] /\ (m_count + 1) % SplitLines = 0
          /\ m_count' = m_count + 1
          /\ m_fp' = <<my_tm[t], (m_count + 1) \div SplitLines>> /\ unflushed' = 0
          /\ UNCHANGED m_today
       \/ /\ m_today = my_tm[t] /\ (m_count + 1) % SplitLines # 0
          /\ m_count' = m_count + 1
          /\ UNCHANGED <<m_today, m_fp, unflushed>>
    /\ LogGoto(t, "route")
    /\ UNCHANGED <<clock, max_queue_size, out, q, dropped, my_tm, n, single_log>>

(* Second critical section formats into m_buf and copies it to a local; it *)
(* is followed by the test of m_log_queue->full(), a call of its own.      *)
Route(t) ==
    /\ logPc[t] = "route"
    /\ LogGoto(t, IF m_is_async /\ Len(q) < max_queue_size THEN "push" ELSE "write")
    /\ UNCHANGED <<clock, max_queue_size, logVars, out, unflushed, q, dropped, my_tm, n, single_log>>

(* m_log_queue->push(log_str), whose result write_log ignores. *)
Push(t) ==
    /\ logPc[t] = "push"
    /\ \/ Len(q) < max_queue_size /\ q' = Append(q, Line(t)) /\ UNCHANGED dropped
       \/ Len(q) >= max_queue_size /\ dropped' = dropped \cup {Line(t)} /\ UNCHANGED q
    /\ LogGoto(t, "flush")
    /\ UNCHANGED <<clock, max_queue_size, logVars, out, unflushed, my_tm, n, single_log>>

Fputs(line) == /\ out' = Append(out, [line |-> line, file |-> m_fp])
               /\ unflushed' = unflushed + 1

Write(t) ==
    /\ logPc[t] = "write"
    /\ Fputs(Line(t))
    /\ LogGoto(t, "flush")
    /\ UNCHANGED <<clock, max_queue_size, logVars, q, dropped, my_tm, n, single_log>>

FlushNothing(t) ==                                            \* mutant
    /\ logPc[t] = "flush"
    /\ LogGoto(t, "idle")
    /\ UNCHANGED <<clock, max_queue_size, logVars, out, unflushed, q, dropped, my_tm, n, single_log>>
Flush(t) ==
    /\ logPc[t] = "flush"
    /\ unflushed' = 0
    /\ LogGoto(t, "idle")
    /\ UNCHANGED <<clock, max_queue_size, logVars, out, q, dropped, my_tm, n, single_log>>

-----------------------------------------------------------------------------
(* async_write_log: pop a line, then write it under m_mutex. *)
WriterPopKeeps ==                                             \* mutant
    /\ q # <<>> /\ single_log = <<>>
    /\ single_log' = <<Head(q)>>
    /\ UNCHANGED <<clock, max_queue_size, logVars, out, unflushed, q, dropped, logPc, my_tm, n>>
WriterPop ==
    /\ q # <<>> /\ single_log = <<>>
    /\ single_log' = <<Head(q)>> /\ q' = Tail(q)
    /\ UNCHANGED <<clock, max_queue_size, logVars, out, unflushed, dropped, logPc, my_tm, n>>

WriterForgets ==                                              \* mutant
    /\ single_log # <<>>
    /\ single_log' = <<>>
    /\ UNCHANGED <<clock, max_queue_size, logVars, out, unflushed, q, dropped, logPc, my_tm, n>>
WriterWrite ==
    /\ single_log # <<>>
    /\ Fputs(single_log[1])
    /\ single_log' = <<>>
    /\ UNCHANGED <<clock, max_queue_size, logVars, q, dropped, logPc, my_tm, n>>

Step(t) == ReadTime(t) \/ Count(t) \/ Route(t) \/ Push(t) \/ Write(t) \/ Flush(t)
Writer == WriterPop \/ WriterWrite

(* The MaxLines lines have been logged and the writer has nothing          *)
(* left: the bounded run is over, the program would go on.                 *)
Finished == /\ clock = LastDay /\ q = <<>> /\ single_log = <<>>
            /\ \A t \in Loggers : logPc[t] = "idle"
            /\ Started = MaxLines /\ UNCHANGED vars

LogNext == Midnight \/ Writer \/ (\E t \in Loggers : Step(t)) \/ Finished

(* Threads are scheduled: none stops in the middle of a call, and the      *)
(* writer thread runs whenever a line is queued.                           *)
LogSpec == /\ LogInit /\ [][LogNext]_vars
        /\ WF_vars(Writer)
        /\ \A t \in Loggers : WF_vars(Step(t) /\ logPc[t] # "idle")

-----------------------------------------------------------------------------
(* Every variable has its type. *)
LogTypeOK ==
    /\ clock \in 1 .. LastDay /\ max_queue_size \in QueueSizes
    /\ m_count \in Nat /\ m_today \in 1 .. LastDay
    /\ m_fp \in (1 .. LastDay) \X Nat
    /\ unflushed \in 0 .. Len(out)
    /\ q \in Seq(Loggers \X (1 .. MaxLines)) /\ Len(q) <= max_queue_size
    /\ dropped \subseteq Loggers \X (1 .. MaxLines)
    /\ logPc \in [Loggers -> {"idle", "count", "route", "push", "write", "flush"}]
    /\ my_tm \in [Loggers -> 1 .. LastDay]
    /\ n \in [Loggers -> 0 .. MaxLines]

Copies(line) ==
    Cardinality({i \in DOMAIN out : out[i].line = line})
    + Cardinality({i \in DOMAIN q : q[i] = line})
    + Cardinality({i \in DOMAIN single_log : single_log[i] = line})
    + Cardinality({line} \cap dropped)

(* A line write_log has handed over is in exactly one place: written,      *)
(* queued, in the writer's hands, or dropped by a full queue; never twice, *)
(* whichever of the two paths (queue or direct fputs) it took.             *)
LineConserved ==
    \A t \in Loggers : \A k \in 1 .. n[t] :
        Copies(<<t, k>>) =
            IF k = n[t] /\ logPc[t] \in {"count", "route", "push", "write"} THEN 0 ELSE 1

(* In synchronous mode a line is on disk when the LOG_ macro returns.      *)
SyncLineOnDisk ==
    ~m_is_async => \A i \in Len(out) - unflushed + 1 .. Len(out) :
                       logPc[out[i].line[1]] = "flush" /\ out[i].line[2] = n[out[i].line[1]]

(* log.cpp:94, log.h:50: m_split_lines is the most lines a log file holds. *)
FileWithinSplit ==
    \A i \in DOMAIN out :
        Cardinality({j \in DOMAIN out : out[j].file = out[i].file}) <= SplitLines

(* What goes wrong needs two threads.  As long as one thread logs alone,   *)
(* no line is lost between full() and push(), and in synchronous mode the  *)
(* rotation keeps every file within m_split_lines, over midnight too.      *)
LoneLoggerExact ==
    Cardinality({t \in Loggers : n[t] > 0}) <= 1 =>
        dropped = {} /\ (~m_is_async => FileWithinSplit)

(* The three together: where the lines are, at every moment. *)
LogSound == LineConserved /\ SyncLineOnDisk /\ LoneLoggerExact

(* Every line a thread has started to log is eventually written, unless    *)
(* the queue filled up between full() and push(): the writer never sleeps  *)
(* for good on a queue that holds lines.                                   *)
Written(line) == \E i \in DOMAIN out : out[i].line = line
EventuallyWritten ==
    \A t \in Loggers : \A k \in 1 .. MaxLines :
        (n[t] >= k) ~> (Written(<<t, k>>) \/ <<t, k>> \in dropped)
=============================================================================
