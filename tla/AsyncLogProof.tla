--------------------------- MODULE AsyncLogProof ---------------------------
(***************************************************************************)
(* The log, for any number of threads, capacity of the queue and lines per *)
(* file, without the bounds of the runs: where every line is, what is on   *)
(* disk in synchronous mode, and what a thread that logs alone may rely on.*)
(***************************************************************************)
EXTENDS AsyncLog, FiniteSetTheorems, SequenceTheorems, TLAPS

Lines == Loggers \X (Nat \ {0})
Files == Nat \X Nat
Steps == {"idle", "count", "route", "push", "write", "flush"}

(* The types the proof needs; the bounds of the run are not among them. *)
ThreadType ==
    /\ logPc \in [Loggers -> Steps] /\ my_tm \in [Loggers -> Nat] /\ n \in [Loggers -> Nat]
    /\ \A t \in Loggers : logPc[t] # "idle" => n[t] >= 1
CountType ==
    /\ clock \in Nat /\ max_queue_size \in Nat /\ m_count \in Nat /\ m_today \in Nat /\ m_fp \in Files
LineType ==
    /\ out \in Seq([line : Lines, file : Files]) /\ unflushed \in 0 .. Len(out)
    /\ q \in Seq(Lines) /\ single_log \in Seq(Lines) /\ Len(single_log) <= 1 /\ dropped \subseteq Lines
LogType == ThreadType /\ CountType /\ LineType

(* The line <<t, k>> has been handed over. *)
Due(t, k) == k < n[t] \/ (k = n[t] /\ logPc[t] \in {"idle", "flush"})

(* LineConserved, and that no line exists before it is started. *)
Conserved == \A t \in Loggers : \A k \in Nat \ {0} : Copies(<<t, k>>) = IF Due(t, k) THEN 1 ELSE 0

(* In synchronous mode nothing goes through the queue. *)
SyncUnqueued == ~m_is_async => q = <<>> /\ single_log = <<>> /\ \A t \in Loggers : logPc[t] # "push"

(* At most one thread has logged so far. *)
Alone == \A t, u \in Loggers : n[t] > 0 /\ n[u] > 0 => t = u

InFile(f) == Cardinality({i \in DOMAIN out : out[i].file = f})
Pending == \E t \in Loggers : logPc[t] \in {"route", "write"}

(* m_fp is named after the day and the count; the days it is named after   *)
(* have come.                                                              *)
Named == /\ m_fp = <<m_today, m_count \div SplitLines>>
         /\ m_today <= clock /\ \A t \in Loggers : my_tm[t] <= clock

(* File f was opened before file g, or is g. *)
NotAfter(f, g) == f[1] < g[1] \/ (f[1] = g[1] /\ f[2] <= g[2])

(* What holds as long as one thread logs alone: full() is still right when *)
(* it pushes, the day it read is not before the file's, the lines are in   *)
(* this file or in earlier ones, and in synchronous mode the remainder of  *)
(* the count bounds the lines in the file.                                 *)
AloneInv ==
    Alone => /\ dropped = {}
             /\ \A t \in Loggers : logPc[t] = "push" => Len(q) < max_queue_size
             /\ \A t \in Loggers : logPc[t] = "count" => my_tm[t] >= m_today
             /\ \A i \in DOMAIN out : NotAfter(out[i].file, m_fp)
             /\ ~m_is_async => /\ InFile(m_fp) <= (m_count % SplitLines) + (IF Pending THEN 0 ELSE 1)
                               /\ FileWithinSplit

LogInv == LogType /\ Conserved /\ SyncUnqueued /\ SyncLineOnDisk /\ Named /\ AloneInv

-----------------------------------------------------------------------------
(* Counting positions of a sequence: when it grows by one at the end ...   *)
LEMMA GrowCount ==
  ASSUME NEW m \in Nat, NEW P \in SUBSET (1 .. m), NEW Q \in SUBSET (1 .. m + 1),
         \A i \in 1 .. m : i \in Q <=> i \in P
  PROVE  /\ Cardinality(P) \in Nat /\ Cardinality(P) <= m
         /\ Cardinality(Q) = Cardinality(P) + (IF m + 1 \in Q THEN 1 ELSE 0)
  <1>1. IsFiniteSet(1 .. m) /\ Cardinality(1 .. m) = m
    BY FS_Interval
  <1>2. IsFiniteSet(P) /\ Cardinality(P) <= m
    BY <1>1, FS_Subset
  <1>3. Cardinality(P) \in Nat
    BY <1>2, FS_CardinalityType
  <1>4. m + 1 \notin P /\ \A i : i \in P => i \in 1 .. m
    <2>1. \A i : i \in P => i \in 1 .. m
      OBVIOUS
    <2>2. m + 1 \notin 1 .. m
      OBVIOUS
    <2> QED
      BY <2>1, <2>2, Zenon
  <1>0. \A i : i \in Q => i \in 1 .. m \/ i = m + 1
    <2> SUFFICES ASSUME NEW i \in Q PROVE i \in 1 .. m \/ i = m + 1
      OBVIOUS
    <2>1. i \in 1 .. m + 1
      OBVIOUS
    <2> QED
      BY <2>1
  <1>5. CASE m + 1 \in Q
    <2>1. Q = P \cup {m + 1}
      BY <1>0, <1>4, <1>5, Zenon
    <2>2. Cardinality(P \cup {m + 1}) = Cardinality(P) + 1
      BY <1>2, <1>4, FS_AddElement
    <2> QED
      BY <1>2, <1>3, <1>5, <2>1, <2>2
  <1>6. CASE m + 1 \notin Q
    <2>1. Q = P
      BY <1>0, <1>4, <1>6, Zenon
    <2>2. Cardinality(Q) = Cardinality(P) /\ Cardinality(P) + 0 = Cardinality(P)
      BY <1>3, <2>1
    <2> QED
      BY <1>2, <1>3, <1>6, <2>2
  <1> QED
    BY <1>5, <1>6

(* ... and when it loses its head. *)
LEMMA ShiftCount ==
  ASSUME NEW m \in Nat \ {0}, NEW P \in SUBSET (1 .. m), NEW Q \in SUBSET (1 .. m - 1),
         \A i \in 1 .. m - 1 : i \in Q <=> i + 1 \in P
  PROVE  /\ Cardinality(P) \in Nat /\ Cardinality(Q) \in Nat
         /\ Cardinality(P) = Cardinality(Q) + (IF 1 \in P THEN 1 ELSE 0)
  <1> DEFINE R == P \ {1}
             f == [i \in Q |-> i + 1]
  <1>1. IsFiniteSet(P) /\ IsFiniteSet(Q)
    <2>1. IsFiniteSet(1 .. m) /\ IsFiniteSet(1 .. m - 1)
      BY FS_Interval
    <2> QED
      BY <2>1, FS_Subset
  <1>2. Cardinality(P) \in Nat /\ Cardinality(Q) \in Nat
    BY <1>1, FS_CardinalityType
  <1>3. ExistsBijection(Q, R)
    <2>1. f \in [Q -> R]
      OBVIOUS
    <2>2. \A i, j \in Q : f[i] = f[j] => i = j
      OBVIOUS
    <2>3. \A r \in R : \E i \in Q : f[i] = r
      <3> SUFFICES ASSUME NEW r \in R PROVE \E i \in Q : f[i] = r
        OBVIOUS
      <3>1. r - 1 \in 1 .. m - 1 /\ (r - 1) + 1 = r
        OBVIOUS
      <3>2. r - 1 \in Q
        BY <3>1
      <3> QED
        BY <3>1, <3>2
    <2>4. f \in Bijection(Q, R)
      BY <2>1, <2>2, <2>3 DEF Bijection, Injection, Surjection, IsInjective
    <2> QED
      BY <2>4 DEF ExistsBijection
  <1>4. Cardinality(R) = Cardinality(Q)
    BY <1>1, <1>3, FS_Bijection
  <1>5. Cardinality(R) = IF 1 \in P THEN Cardinality(P) - 1 ELSE Cardinality(P)
    BY <1>1, FS_RemoveElement
  <1> QED
    BY <1>2, <1>4, <1>5

(* The parts of Copies. *)
InOut(x) == Cardinality({i \in DOMAIN out : out[i].line = x})
InQ(x) == Cardinality({i \in DOMAIN q : q[i] = x})
InHand(x) == Cardinality({i \in DOMAIN single_log : single_log[i] = x})
Lost(x) == Cardinality({x} \cap dropped)

LEMMA CopiesForm == \A x : Copies(x) = InOut(x) + InQ(x) + InHand(x) + Lost(x)
  BY DEF Copies, InOut, InQ, InHand, Lost

LEMMA LostForm == \A x : Lost(x) = IF x \in dropped THEN 1 ELSE 0
  <1> SUFFICES ASSUME NEW x PROVE Lost(x) = IF x \in dropped THEN 1 ELSE 0
    OBVIOUS
  <1>1. CASE x \in dropped
    <2>1. {x} \cap dropped = {x}
      BY <1>1
    <2> QED
      BY <1>1, <2>1, FS_Singleton DEF Lost
  <1>2. CASE x \notin dropped
    <2>1. {x} \cap dropped = {}
      BY <1>2
    <2> QED
      BY <1>2, <2>1, FS_EmptySet DEF Lost
  <1> QED
    BY <1>1, <1>2

LEMMA CountTypes == LogType => \A x : InOut(x) \in Nat /\ InQ(x) \in Nat /\ InHand(x) \in Nat /\ Lost(x) \in Nat
  <1> SUFFICES ASSUME LogType, NEW x
               PROVE  InOut(x) \in Nat /\ InQ(x) \in Nat /\ InHand(x) \in Nat /\ Lost(x) \in Nat
    OBVIOUS
  <1>1. /\ {i \in DOMAIN out : out[i].line = x} \in SUBSET (1 .. Len(out)) /\ Len(out) \in Nat
        /\ {i \in DOMAIN q : q[i] = x} \in SUBSET (1 .. Len(q)) /\ Len(q) \in Nat
        /\ {i \in DOMAIN single_log : single_log[i] = x} \in SUBSET (1 .. Len(single_log)) /\ Len(single_log) \in Nat
    BY DEF LogType, ThreadType, CountType, LineType
  <1>2. \A m \in Nat : \A P \in SUBSET (1 .. m) : Cardinality(P) \in Nat
    <2> SUFFICES ASSUME NEW m \in Nat, NEW P \in SUBSET (1 .. m) PROVE Cardinality(P) \in Nat
      OBVIOUS
    <2>1. IsFiniteSet(1 .. m)
      BY FS_Interval
    <2>2. IsFiniteSet(P)
      BY <2>1, FS_Subset
    <2> QED
      BY <2>2, FS_CardinalityType
  <1> QED
    BY <1>1, <1>2, LostForm DEF InOut, InQ, InHand

(* The same of the next state. *)
LEMMA CountsNext ==
  ASSUME LogType'
  PROVE  /\ \A x : InOut(x)' \in Nat /\ InQ(x)' \in Nat /\ InHand(x)' \in Nat /\ Lost(x)' \in Nat
         /\ \A x : Copies(x)' = InOut(x)' + InQ(x)' + InHand(x)' + Lost(x)'
         /\ \A x : Lost(x)' = IF x \in dropped' THEN 1 ELSE 0
  <1>1. LogType' => (\A x : InOut(x) \in Nat /\ InQ(x) \in Nat /\ InHand(x) \in Nat /\ Lost(x) \in Nat)'
    BY CountTypes, PTL
  <1>2. (\A x : Copies(x) = InOut(x) + InQ(x) + InHand(x) + Lost(x))'
    BY CopiesForm, PTL
  <1>3. (\A x : Lost(x) = IF x \in dropped THEN 1 ELSE 0)'
    BY LostForm, PTL
  <1> QED
    BY <1>1, <1>2, <1>3

(* Sequences: the elements, and a sequence of one. *)
LEMMA ElementsOf == ASSUME NEW S, NEW s \in Seq(S) PROVE \A i \in DOMAIN s : s[i] \in S
  OBVIOUS
LEMMA AtMostOne == ASSUME NEW S, NEW s \in Seq(S), s # <<>>, Len(s) <= 1 PROVE DOMAIN s = {1}
  <1>1. Len(s) \in Nat /\ DOMAIN s = 1 .. Len(s) /\ Len(s) # 0
    OBVIOUS
  <1> QED
    BY <1>1

(* Every line written is a logger's. *)
LEMMA OutLines == ASSUME LogType PROVE \A i \in DOMAIN out : out[i].line[1] \in Loggers /\ out[i].line[2] \in Nat
  <1> SUFFICES ASSUME NEW i \in DOMAIN out PROVE out[i].line[1] \in Loggers /\ out[i].line[2] \in Nat
    OBVIOUS
  <1>1. out \in Seq([line : Lines, file : Files])
    BY DEF LogType, LineType
  <1>2. out[i] \in [line : Lines, file : Files]
    BY <1>1, ElementsOf
  <1>3. out[i].line \in Loggers \X (Nat \ {0})
    BY <1>2 DEF Lines
  <1> HIDE DEF Lines
  <1> QED
    BY <1>3

LEMMA OutFiles ==
  ASSUME LogType
  PROVE  \A i \in DOMAIN out : out[i].file \in Files /\ out[i].file[1] \in Nat /\ out[i].file[2] \in Nat
  <1> SUFFICES ASSUME NEW i \in DOMAIN out
               PROVE  out[i].file \in Files /\ out[i].file[1] \in Nat /\ out[i].file[2] \in Nat
    OBVIOUS
  <1>1. out \in Seq([line : Lines, file : Files])
    BY DEF LogType, LineType
  <1>2. out[i] \in [line : Lines, file : Files]
    BY <1>1, ElementsOf
  <1>3. out[i].file \in Files
    BY <1>2
  <1> QED
    BY <1>3 DEF Files

(* fputs adds one line, to the file that is open. *)
LEMMA FputsCounts ==
  ASSUME LogType, NEW line \in Lines, Fputs(line)
  PROVE  /\ out' \in Seq([line : Lines, file : Files]) /\ Len(out') = Len(out) + 1
         /\ DOMAIN out' = 1 .. Len(out) + 1 /\ DOMAIN out = 1 .. Len(out) /\ Len(out) \in Nat
         /\ out'[Len(out) + 1].line = line /\ out'[Len(out) + 1].file = m_fp
         /\ \A i \in 1 .. Len(out) : out'[i] = out[i]
         /\ \A x : InOut(x)' = InOut(x) + (IF x = line THEN 1 ELSE 0)
         /\ \A f : InFile(f) \in Nat /\ InFile(f)' = InFile(f) + (IF f = m_fp THEN 1 ELSE 0)
  <1> DEFINE e == [line |-> line, file |-> m_fp]
             m == Len(out)
  <1>1. out' = Append(out, e) /\ e \in [line : Lines, file : Files] /\ m \in Nat
    BY DEF Fputs, LogType, ThreadType, CountType, LineType
  <1>2. /\ out' \in Seq([line : Lines, file : Files]) /\ Len(out') = m + 1
        /\ out'[m + 1] = e /\ \A i \in 1 .. m : out'[i] = out[i]
        /\ DOMAIN out = 1 .. m /\ DOMAIN out' = 1 .. m + 1
    BY <1>1 DEF LogType, ThreadType, CountType, LineType
  <1>3. e.line = line /\ e.file = m_fp
    OBVIOUS
  <1>0. out'[m + 1].line = line /\ out'[m + 1].file = m_fp
    BY <1>2, <1>3
  <1> HIDE DEF e, m
  <1>4. ASSUME NEW x PROVE InOut(x)' = InOut(x) + (IF x = line THEN 1 ELSE 0)
    <2> DEFINE P == {i \in DOMAIN out : out[i].line = x}
               Q == {i \in DOMAIN out' : out'[i].line = x}
    <2>1. P \in SUBSET (1 .. m) /\ Q \in SUBSET (1 .. m + 1) /\ \A i \in 1 .. m : i \in Q <=> i \in P
      BY <1>1, <1>2
    <2>2. m + 1 \in Q <=> x = line
      BY <1>1, <1>2, <1>3
    <2> HIDE DEF P, Q
    <2>3. Cardinality(Q) = Cardinality(P) + (IF x = line THEN 1 ELSE 0)
      BY <1>1, <2>1, <2>2, GrowCount
    <2> QED
      BY <2>3 DEF InOut, P, Q
  <1>5. ASSUME NEW f PROVE InFile(f) \in Nat /\ InFile(f)' = InFile(f) + (IF f = m_fp THEN 1 ELSE 0)
    <2> DEFINE P == {i \in DOMAIN out : out[i].file = f}
               Q == {i \in DOMAIN out' : out'[i].file = f}
    <2>1. P \in SUBSET (1 .. m) /\ Q \in SUBSET (1 .. m + 1) /\ \A i \in 1 .. m : i \in Q <=> i \in P
      BY <1>1, <1>2
    <2>2. m + 1 \in Q <=> f = m_fp
      BY <1>1, <1>2, <1>3
    <2> HIDE DEF P, Q
    <2>3. Cardinality(P) \in Nat /\ Cardinality(Q) = Cardinality(P) + (IF f = m_fp THEN 1 ELSE 0)
      BY <1>1, <2>1, <2>2, GrowCount
    <2> QED
      BY <2>3 DEF InFile, P, Q
  <1> QED
    BY <1>0, <1>1, <1>2, <1>4, <1>5 DEF m

(* q gains a line at its end, or loses its first. *)
LEMMA AppendCounts ==
  ASSUME LogType, NEW line \in Lines, q' = Append(q, line)
  PROVE  q' \in Seq(Lines) /\ \A x : InQ(x)' = InQ(x) + (IF x = line THEN 1 ELSE 0)
  <1> DEFINE m == Len(q)
  <1>1. /\ q' \in Seq(Lines) /\ m \in Nat /\ DOMAIN q = 1 .. m /\ DOMAIN q' = 1 .. m + 1
        /\ q'[m + 1] = line /\ \A i \in 1 .. m : q'[i] = q[i]
    BY DEF LogType, ThreadType, CountType, LineType
  <1> HIDE DEF m
  <1>2. ASSUME NEW x PROVE InQ(x)' = InQ(x) + (IF x = line THEN 1 ELSE 0)
    <2> DEFINE P == {i \in DOMAIN q : q[i] = x}
               Q == {i \in DOMAIN q' : q'[i] = x}
    <2>1. P \in SUBSET (1 .. m) /\ Q \in SUBSET (1 .. m + 1) /\ \A i \in 1 .. m : i \in Q <=> i \in P
      BY <1>1
    <2>2. m + 1 \in Q <=> x = line
      BY <1>1
    <2> HIDE DEF P, Q
    <2>3. Cardinality(Q) = Cardinality(P) + (IF x = line THEN 1 ELSE 0)
      BY <1>1, <2>1, <2>2, GrowCount
    <2> QED
      BY <2>3 DEF InQ, P, Q
  <1> QED
    BY <1>1, <1>2

LEMMA TailCounts ==
  ASSUME LogType, q # <<>>, q' = Tail(q)
  PROVE  /\ Head(q) \in Lines /\ q' \in Seq(Lines) /\ Len(q') = Len(q) - 1
         /\ \A x : InQ(x)' \in Nat /\ InQ(x) = InQ(x)' + (IF x = Head(q) THEN 1 ELSE 0)
  <1> DEFINE m == Len(q)
  <1>1. /\ q' \in Seq(Lines) /\ m \in Nat \ {0} /\ DOMAIN q = 1 .. m /\ DOMAIN q' = 1 .. m - 1
        /\ Head(q) = q[1] /\ Head(q) \in Lines /\ Len(q') = m - 1
        /\ \A i \in 1 .. m - 1 : q'[i] = q[i + 1] /\ i + 1 \in 1 .. m
    BY DEF LogType, ThreadType, CountType, LineType
  <1>0. m \in Nat \ {0}
    BY <1>1
  <1> HIDE DEF m
  <1>2. ASSUME NEW x PROVE InQ(x)' \in Nat /\ InQ(x) = InQ(x)' + (IF x = Head(q) THEN 1 ELSE 0)
    <2> DEFINE P == {i \in DOMAIN q : q[i] = x}
               Q == {i \in DOMAIN q' : q'[i] = x}
    <2>1. P \in SUBSET (1 .. m) /\ Q \in SUBSET (1 .. m - 1) /\ \A i \in 1 .. m - 1 : i \in Q <=> i + 1 \in P
      BY <1>1
    <2>2. 1 \in P <=> x = Head(q)
      BY <1>1
    <2> HIDE DEF P, Q
    <2>3. Cardinality(Q) \in Nat /\ Cardinality(P) = Cardinality(Q) + (IF 1 \in P THEN 1 ELSE 0)
      BY <1>0, <2>1, ShiftCount
    <2> QED
      BY <2>2, <2>3 DEF InQ, P, Q
  <1> QED
    BY <1>1, <1>2 DEF m

(* What the writer thread has in its hands is one line or none. *)
LEMMA HandForm == LogType => \A x : InHand(x) = IF single_log # <<>> /\ single_log[1] = x THEN 1 ELSE 0
  <1> SUFFICES ASSUME LogType, NEW x
               PROVE  InHand(x) = IF single_log # <<>> /\ single_log[1] = x THEN 1 ELSE 0
    OBVIOUS
  <1> DEFINE H == {i \in DOMAIN single_log : single_log[i] = x}
  <1>1. CASE single_log = <<>>
    <2>1. H = {}
      BY <1>1
    <2> QED
      BY <1>1, <2>1, FS_EmptySet DEF InHand
  <1>2. CASE single_log # <<>>
    <2>1. DOMAIN single_log = {1}
      BY <1>2, AtMostOne DEF LogType, LineType
    <2>2. CASE single_log[1] = x
      <3>1. H = {1}
        BY <2>1, <2>2
      <3> QED
        BY <1>2, <2>2, <3>1, FS_Singleton DEF InHand
    <2>3. CASE single_log[1] # x
      <3>1. H = {}
        BY <2>1, <2>3
      <3> QED
        BY <1>2, <2>3, <3>1, FS_EmptySet DEF InHand
    <2> QED
      BY <2>2, <2>3
  <1> QED
    BY <1>1, <1>2

LEMMA HandNext ==
  ASSUME LogType' PROVE \A x : InHand(x)' = IF single_log' # <<>> /\ single_log'[1] = x THEN 1 ELSE 0
  <1>1. LogType' => (\A x : InHand(x) = IF single_log # <<>> /\ single_log[1] = x THEN 1 ELSE 0)'
    BY HandForm, PTL
  <1> QED
    BY <1>1

(* The rotation's arithmetic: the remainder counts the lines of a file and *)
(* the quotient changes exactly when it is 0.                              *)
LEMMA SplitSteps ==
  ASSUME NEW c \in Nat
  PROVE  /\ c \div SplitLines \in Nat /\ c % SplitLines \in 0 .. SplitLines - 1
         /\ (c + 1) % SplitLines # 0 => /\ (c + 1) % SplitLines = (c % SplitLines) + 1
                                        /\ (c + 1) \div SplitLines = c \div SplitLines
         /\ (c + 1) % SplitLines = 0 => (c + 1) \div SplitLines = (c \div SplitLines) + 1
         /\ 0 % SplitLines = 0 /\ 0 \div SplitLines = 0
  BY LogAssumption

LEMMA EmptyFile == ASSUME NEW f, \A i \in DOMAIN out : out[i].file # f PROVE InFile(f) = 0
  <1>1. {i \in DOMAIN out : out[i].file = f} = {}
    OBVIOUS
  <1> QED
    BY <1>1, FS_EmptySet DEF InFile

LEMMA InFileType == ASSUME LogType PROVE \A f : InFile(f) \in Nat
  <1> SUFFICES ASSUME NEW f PROVE InFile(f) \in Nat
    OBVIOUS
  <1> DEFINE P == {i \in DOMAIN out : out[i].file = f}
  <1>1. IsFiniteSet(1 .. Len(out)) /\ P \in SUBSET (1 .. Len(out))
    <2>1. Len(out) \in Nat /\ DOMAIN out = 1 .. Len(out)
      BY DEF LogType, LineType
    <2> QED
      BY <2>1, FS_Interval
  <1> HIDE DEF P
  <1>2. IsFiniteSet(P)
    BY <1>1, FS_Subset
  <1> QED
    BY <1>2, FS_CardinalityType DEF InFile, P

(* Alone, one thread at most is inside write_log. *)
LEMMA OneActive ==
  ASSUME LogType, Alone, NEW t \in Loggers, NEW u \in Loggers, logPc[t] # "idle", logPc[u] # "idle"
  PROVE  t = u
  BY DEF LogType, ThreadType, Alone

(* A step that leaves the lines where they are. *)
LEMMA CopiesStay ==
  ASSUME UNCHANGED <<out, q, dropped, single_log>>
  PROVE  \A x : Copies(x)' = Copies(x)
  BY DEF Copies

LEMMA InitInv == LogInit => LogInv
  <1> SUFFICES ASSUME LogInit PROVE LogInv
    OBVIOUS
  <1>1. LogType
    BY LogAssumption DEF LogInit, LogType, ThreadType, CountType, LineType, Steps, Files
  <1>2. Conserved
    <2>1. \A x : {i \in DOMAIN out : out[i].line = x} = {}
      BY DEF LogInit
    <2>2. \A x : {i \in DOMAIN q : q[i] = x} = {}
      BY DEF LogInit
    <2>3. \A x : {i \in DOMAIN single_log : single_log[i] = x} = {}
      BY DEF LogInit
    <2>4. \A x : {x} \cap dropped = {}
      BY DEF LogInit
    <2>5. \A x : Copies(x) = 0
      BY <2>1, <2>2, <2>3, <2>4, FS_EmptySet DEF Copies
    <2>6. \A t \in Loggers : \A k \in Nat \ {0} : ~Due(t, k)
      BY DEF Due, LogInit
    <2> QED
      BY <2>5, <2>6 DEF Conserved
  <1>3. SyncUnqueued /\ SyncLineOnDisk
    BY DEF LogInit, SyncUnqueued, SyncLineOnDisk
  <1>4. Named
    BY SplitSteps DEF LogInit, Named
  <1>5. AloneInv
    <2>1. \A f : InFile(f) = 0
      BY EmptyFile DEF LogInit
    <2>2. FileWithinSplit
      BY DEF FileWithinSplit, LogInit
    <2>3. ~Pending
      BY DEF Pending, LogInit
    <2> QED
      BY <2>1, <2>2, <2>3, SplitSteps DEF AloneInv, LogInit
  <1> QED
    BY <1>1, <1>2, <1>3, <1>4, <1>5 DEF LogInv

-----------------------------------------------------------------------------
LEMMA MidnightKeeps == ASSUME LogInv, Midnight PROVE LogInv'
  <1> USE DEF LogInv, Midnight
  <1>1. LogType' /\ SyncUnqueued' /\ SyncLineOnDisk'
    BY DEF LogType, ThreadType, CountType, LineType, SyncUnqueued, SyncLineOnDisk, logVars, m_is_async
  <1>2. Conserved'
    BY CopiesStay DEF Conserved, Due
  <1>3. Named'
    BY DEF Named, LogType, ThreadType, CountType, LineType, logVars
  <1>4. AloneInv'
    BY DEF AloneInv, Alone, InFile, Pending, FileWithinSplit, logVars, m_is_async
  <1> QED
    BY <1>1, <1>2, <1>3, <1>4

LEMMA ReadTimeKeeps == ASSUME LogInv, NEW t \in Loggers, ReadTime(t) PROVE LogInv'
  <1> USE DEF LogInv
  <1>1. /\ logPc[t] = "idle" /\ logPc' = [logPc EXCEPT ![t] = "count"]
        /\ n' = [n EXCEPT ![t] = @ + 1] /\ my_tm' = [my_tm EXCEPT ![t] = clock]
        /\ UNCHANGED <<clock, max_queue_size, m_count, m_today, m_fp, out, unflushed, q, dropped, single_log>>
    BY DEF ReadTime, LogGoto, logVars
  <1>2. /\ logPc'[t] = "count" /\ n'[t] = n[t] + 1 /\ my_tm'[t] = clock
        /\ \A u \in Loggers \ {t} : logPc'[u] = logPc[u] /\ n'[u] = n[u] /\ my_tm'[u] = my_tm[u]
    BY <1>1 DEF LogType, ThreadType, CountType, LineType
  <1>3. LogType'
    <2>1. logPc' \in [Loggers -> Steps] /\ my_tm' \in [Loggers -> Nat] /\ n' \in [Loggers -> Nat]
      BY <1>1 DEF LogType, ThreadType, CountType, Steps
    <2>2. \A u \in Loggers : logPc'[u] # "idle" => n'[u] >= 1
      BY <1>2 DEF LogType, ThreadType
    <2> QED
      BY <1>1, <2>1, <2>2 DEF LogType, ThreadType, CountType, LineType
  <1>4. Conserved'
    <2>1. \A u \in Loggers : \A k \in Nat \ {0} : Due(u, k)' <=> Due(u, k)
      BY <1>1, <1>2 DEF Due, LogType, ThreadType
    <2> QED
      BY <1>1, <2>1, CopiesStay DEF Conserved
  <1>5. SyncUnqueued'
    BY <1>1, <1>2 DEF SyncUnqueued, m_is_async
  <1>6. SyncLineOnDisk'
    <2>1. \A i \in DOMAIN out : out[i].line[1] \in Loggers
      BY OutLines
    <2>2. \A i \in Len(out) - unflushed + 1 .. Len(out) : i \in DOMAIN out
      BY DEF LogType, ThreadType, CountType, LineType
    <2> QED
      BY <1>1, <1>2, <2>1, <2>2 DEF SyncLineOnDisk, m_is_async
  <1>7. Named'
    BY <1>1, <1>2 DEF Named, LogType, ThreadType, CountType, LineType
  <1>8. AloneInv'
    <2>1. Alone' => Alone
      BY <1>2 DEF Alone, LogType, ThreadType
    <2>2. Pending' <=> Pending
      BY <1>1, <1>2 DEF Pending
    <2>3. \A f : InFile(f)' = InFile(f)
      BY <1>1 DEF InFile
    <2>4. FileWithinSplit' <=> FileWithinSplit
      BY <1>1 DEF FileWithinSplit
    <2> QED
      BY <1>1, <1>2, <2>1, <2>2, <2>3, <2>4 DEF AloneInv, m_is_async, Named
  <1> QED
    BY <1>3, <1>4, <1>5, <1>6, <1>7, <1>8

(* A step of thread t inside write_log: the types of the threads, and the  *)
(* lines that are not on disk yet, when nothing is written.                *)
LEMMA GotoType ==
  ASSUME LogType, NEW t \in Loggers, NEW step \in Steps, LogGoto(t, step), logPc[t] # "idle", UNCHANGED <<my_tm, n>>
  PROVE  ThreadType' /\ logPc'[t] = step /\ \A u \in Loggers \ {t} : logPc'[u] = logPc[u]
  <1>1. logPc \in [Loggers -> Steps] /\ logPc' = [logPc EXCEPT ![t] = step]
    BY DEF LogGoto, LogType, ThreadType
  <1>2. logPc' \in [Loggers -> Steps] /\ logPc'[t] = step /\ \A u \in Loggers \ {t} : logPc'[u] = logPc[u]
    BY <1>1
  <1> QED
    BY <1>2 DEF LogType, ThreadType

LEMMA DiskStays ==
  ASSUME LogType, SyncLineOnDisk, NEW t \in Loggers, logPc[t] # "flush",
         \A u \in Loggers \ {t} : logPc'[u] = logPc[u],
         UNCHANGED <<max_queue_size, n, out>>, unflushed' = 0 \/ unflushed' = unflushed
  PROVE  SyncLineOnDisk'
  <1>1. \A i \in DOMAIN out : out[i].line[1] \in Loggers
    BY OutLines
  <1>2. \A i \in Len(out) - unflushed + 1 .. Len(out) : i \in DOMAIN out
    BY DEF LogType, LineType
  <1>3. \A i \in Len(out) - unflushed' + 1 .. Len(out) : i \in Len(out) - unflushed + 1 .. Len(out)
    BY DEF LogType, LineType
  <1> QED
    BY <1>1, <1>2, <1>3 DEF SyncLineOnDisk, m_is_async

(* Alone, the thread inside write_log is the only one that is not idle. *)
LEMMA OthersIdle ==
  ASSUME LogType, Alone, NEW t \in Loggers, logPc[t] # "idle",
         \A u \in Loggers \ {t} : logPc'[u] = logPc[u]
  PROVE  \A u \in Loggers \ {t} : logPc[u] = "idle" /\ logPc'[u] = "idle"
  BY OneActive

LEMMA CountKeeps == ASSUME LogInv, NEW t \in Loggers, Count(t) PROVE LogInv'
  <1> USE DEF LogInv
  <1>1. /\ logPc[t] = "count" /\ LogGoto(t, "route")
        /\ UNCHANGED <<clock, max_queue_size, out, q, dropped, my_tm, n, single_log>>
    BY DEF Count
  <1>2. /\ ThreadType' /\ logPc'[t] = "route" /\ \A u \in Loggers \ {t} : logPc'[u] = logPc[u]
    BY <1>1, GotoType DEF Steps
  <1>3. m_count \in Nat /\ m_today \in Nat /\ my_tm[t] \in Nat
    BY DEF LogType, ThreadType, CountType
  <1> DEFINE c == m_count
             NewDay == m_today # my_tm[t] /\ m_today' = my_tm[t] /\ m_count' = 0 /\ m_fp' = <<my_tm[t], 0>>
                       /\ unflushed' = 0
             Split == /\ m_today = my_tm[t] /\ (c + 1) % SplitLines = 0 /\ m_count' = c + 1 /\ m_today' = m_today
                      /\ m_fp' = <<my_tm[t], (c + 1) \div SplitLines>> /\ unflushed' = 0
             Plain == /\ m_today = my_tm[t] /\ (c + 1) % SplitLines # 0 /\ m_count' = c + 1
                      /\ m_today' = m_today /\ m_fp' = m_fp /\ unflushed' = unflushed
  <1>4. NewDay \/ Split \/ Plain
    BY DEF Count
  <1>5. LogType'
    <2>1. CountType'
      BY <1>1, <1>3, <1>4, SplitSteps DEF LogType, CountType, Files
    <2>2. unflushed' = 0 \/ unflushed' = unflushed
      BY <1>4
    <2>3. LineType'
      BY <1>1, <2>2 DEF LogType, LineType
    <2> QED
      BY <1>2, <2>1, <2>3 DEF LogType
  <1>6. Conserved'
    <2>1. \A u \in Loggers : \A k \in Nat \ {0} : Due(u, k)' <=> Due(u, k)
      BY <1>1, <1>2 DEF Due, LogType, ThreadType
    <2> QED
      BY <1>1, <2>1, CopiesStay DEF Conserved
  <1>7. SyncUnqueued'
    BY <1>1, <1>2 DEF SyncUnqueued, m_is_async
  <1>8. SyncLineOnDisk'
    BY <1>1, <1>2, <1>4, DiskStays
  <1>9. Named'
    BY <1>1, <1>3, <1>4, SplitSteps DEF Named
  <1>10. AloneInv'
    <2> SUFFICES ASSUME Alone PROVE AloneInv'
      BY <1>1 DEF AloneInv, Alone
    <2>1. \A u \in Loggers \ {t} : logPc[u] = "idle" /\ logPc'[u] = "idle"
      BY <1>1, <1>2, OthersIdle
    <2>2. ~Pending /\ Pending'
      BY <1>1, <1>2, <2>1 DEF Pending
    <2>3. \A f : InFile(f)' = InFile(f)
      BY <1>1 DEF InFile
    <2>4. FileWithinSplit' <=> FileWithinSplit
      BY <1>1 DEF FileWithinSplit
    <2>5. \A i \in DOMAIN out : out[i].file \in Files /\ out[i].file[1] \in Nat /\ out[i].file[2] \in Nat
      BY OutFiles
    <2>6. my_tm[t] >= m_today
      BY <1>1 DEF AloneInv
    <2>7. /\ \A i \in DOMAIN out : NotAfter(out[i].file, m_fp)
          /\ m_fp = <<m_today, c \div SplitLines>> /\ c \div SplitLines \in Nat
      BY <1>3, SplitSteps DEF AloneInv, Named
    <2>8. /\ \A i \in DOMAIN out : NotAfter(out[i].file, m_fp')
          /\ ~m_is_async => InFile(m_fp') <= m_count' % SplitLines
      <3>1. CASE NewDay
        <4>1. \A i \in DOMAIN out : NotAfter(out[i].file, m_fp') /\ out[i].file # m_fp'
          BY <3>1, <1>3, <2>5, <2>6, <2>7 DEF NotAfter
        <4>2. InFile(m_fp') = 0
          BY <4>1, EmptyFile
        <4> QED
          BY <3>1, <1>3, <4>1, <4>2, SplitSteps
      <3>2. CASE Split
        <4>1. (c + 1) \div SplitLines = (c \div SplitLines) + 1
          BY <3>2, <1>3, SplitSteps
        <4>2. \A i \in DOMAIN out : NotAfter(out[i].file, m_fp') /\ out[i].file # m_fp'
          BY <3>2, <1>3, <2>5, <2>7, <4>1 DEF NotAfter
        <4>3. InFile(m_fp') = 0
          BY <4>2, EmptyFile
        <4> QED
          BY <3>2, <4>2, <4>3
      <3>3. CASE Plain
        <4>1. (c + 1) % SplitLines = (c % SplitLines) + 1
          BY <3>3, <1>3, SplitSteps
        <4>2. ~m_is_async => InFile(m_fp) <= (c % SplitLines) + 1
          BY <2>2 DEF AloneInv
        <4> QED
          BY <3>3, <2>7, <4>1, <4>2
      <3> QED
        BY <1>4, <3>1, <3>2, <3>3
    <2>9. InFile(m_fp)' = InFile(m_fp')
      BY <1>1 DEF InFile
    <2>10. dropped' = {} /\ (~m_is_async => FileWithinSplit')
      BY <1>1, <2>4 DEF AloneInv
    <2>11. \A u \in Loggers : logPc'[u] # "push" /\ logPc'[u] # "count"
      BY <1>2, <2>1
    <2>12. \A i \in DOMAIN out' : NotAfter(out'[i].file, m_fp')
      BY <1>1, <2>8
    <2>13. m_is_async' <=> m_is_async
      BY <1>1 DEF m_is_async
    <2>14. InFile(m_fp') \in Nat /\ m_count' % SplitLines \in Nat
      BY <1>5, InFileType, SplitSteps DEF LogType, CountType
    <2> QED
      BY <2>2, <2>8, <2>9, <2>10, <2>11, <2>12, <2>13, <2>14 DEF AloneInv
  <1> QED
    BY <1>5, <1>6, <1>7, <1>8, <1>9, <1>10

(* Route and Flush move no line. *)
LEMMA RouteKeeps == ASSUME LogInv, NEW t \in Loggers, Route(t) PROVE LogInv'
  <1> USE DEF LogInv
  <1> DEFINE step == IF m_is_async /\ Len(q) < max_queue_size THEN "push" ELSE "write"
  <1>1. /\ logPc[t] = "route" /\ LogGoto(t, step)
        /\ UNCHANGED <<clock, max_queue_size, m_count, m_today, m_fp, out, unflushed, q, dropped, my_tm, n, single_log>>
    BY DEF Route, logVars
  <1>2. step \in {"push", "write"} /\ (step = "push" => m_is_async /\ Len(q) < max_queue_size)
    OBVIOUS
  <1> HIDE DEF step
  <1>3. ThreadType' /\ logPc'[t] = step /\ \A u \in Loggers \ {t} : logPc'[u] = logPc[u]
    BY <1>1, <1>2, GotoType DEF Steps
  <1>4. LogType'
    BY <1>1, <1>3 DEF LogType, CountType, LineType
  <1>5. Conserved'
    <2>1. \A u \in Loggers : \A k \in Nat \ {0} : Due(u, k)' <=> Due(u, k)
      BY <1>1, <1>2, <1>3 DEF Due, LogType, ThreadType
    <2> QED
      BY <1>1, <2>1, CopiesStay DEF Conserved
  <1>6. SyncUnqueued'
    BY <1>1, <1>2, <1>3 DEF SyncUnqueued, m_is_async
  <1>7. SyncLineOnDisk'
    BY <1>1, <1>3, DiskStays
  <1>8. Named'
    BY <1>1 DEF Named
  <1>9. AloneInv'
    <2> SUFFICES ASSUME Alone PROVE AloneInv'
      BY <1>1 DEF AloneInv, Alone
    <2>1. \A u \in Loggers \ {t} : logPc[u] = "idle" /\ logPc'[u] = "idle"
      BY <1>1, <1>3, OthersIdle
    <2>2. Pending /\ (~m_is_async => Pending')
      BY <1>1, <1>2, <1>3 DEF Pending
    <2>3. InFile(m_fp)' = InFile(m_fp) /\ (FileWithinSplit' <=> FileWithinSplit) /\ (m_is_async' <=> m_is_async)
      BY <1>1 DEF InFile, FileWithinSplit, m_is_async
    <2>4. \A u \in Loggers : /\ logPc'[u] = "push" => Len(q') < max_queue_size'
                             /\ logPc'[u] # "count"
      BY <1>1, <1>2, <1>3, <2>1
    <2> QED
      BY <1>1, <2>2, <2>3, <2>4 DEF AloneInv
  <1> QED
    BY <1>4, <1>5, <1>6, <1>7, <1>8, <1>9

LEMMA FlushKeeps == ASSUME LogInv, NEW t \in Loggers, Flush(t) PROVE LogInv'
  <1> USE DEF LogInv
  <1>1. /\ logPc[t] = "flush" /\ LogGoto(t, "idle") /\ unflushed' = 0
        /\ UNCHANGED <<clock, max_queue_size, m_count, m_today, m_fp, out, q, dropped, my_tm, n, single_log>>
    BY DEF Flush, logVars
  <1>2. ThreadType' /\ logPc'[t] = "idle" /\ \A u \in Loggers \ {t} : logPc'[u] = logPc[u]
    BY <1>1, GotoType DEF Steps
  <1>3. LogType'
    BY <1>1, <1>2 DEF LogType, CountType, LineType
  <1>4. Conserved'
    <2>1. \A u \in Loggers : \A k \in Nat \ {0} : Due(u, k)' <=> Due(u, k)
      BY <1>1, <1>2 DEF Due, LogType, ThreadType
    <2> QED
      BY <1>1, <2>1, CopiesStay DEF Conserved
  <1>5. SyncUnqueued'
    BY <1>1, <1>2 DEF SyncUnqueued, m_is_async
  <1>6. SyncLineOnDisk'
    <2>1. Len(out') - unflushed' + 1 > Len(out')
      BY <1>1 DEF LogType, LineType
    <2> QED
      BY <2>1, <1>3 DEF SyncLineOnDisk, LogType, LineType
  <1>7. Named'
    BY <1>1 DEF Named
  <1>8. AloneInv'
    <2>1. Pending' <=> Pending
      BY <1>1, <1>2 DEF Pending
    <2>2. InFile(m_fp)' = InFile(m_fp) /\ (FileWithinSplit' <=> FileWithinSplit) /\ (m_is_async' <=> m_is_async)
      BY <1>1 DEF InFile, FileWithinSplit, m_is_async
    <2>3. \A u \in Loggers : /\ logPc'[u] = "push" => logPc[u] = "push"
                             /\ logPc'[u] = "count" => logPc[u] = "count"
      BY <1>2
    <2>4. Alone' <=> Alone
      BY <1>1 DEF Alone
    <2> QED
      BY <1>1, <2>1, <2>2, <2>3, <2>4 DEF AloneInv
  <1> QED
    BY <1>3, <1>4, <1>5, <1>6, <1>7, <1>8

(* A line handed over gets its one copy; the other lines keep theirs. *)
LEMMA HandOver ==
  ASSUME LogType, Conserved, NEW t \in Loggers, logPc[t] \in {"push", "write"}, logPc'[t] = "flush",
         \A u \in Loggers \ {t} : logPc'[u] = logPc[u], n' = n,
         \A x : x \in Lines => Copies(x)' = Copies(x) + (IF x = Line(t) THEN 1 ELSE 0)
  PROVE  Conserved'
  <1> SUFFICES ASSUME NEW u \in Loggers, NEW k \in Nat \ {0}
               PROVE  Copies(<<u, k>>)' = IF Due(u, k)' THEN 1 ELSE 0
    BY DEF Conserved
  <1>1. <<u, k>> \in Lines /\ Copies(<<u, k>>) = (IF Due(u, k) THEN 1 ELSE 0)
    BY DEF Lines, Conserved
  <1>2. Copies(<<u, k>>)' = Copies(<<u, k>>) + (IF <<u, k>> = Line(t) THEN 1 ELSE 0)
    BY <1>1
  <1>3. <<u, k>> = Line(t) <=> u = t /\ k = n[t]
    BY DEF Line
  <1>4. n[t] \in Nat /\ n[u] \in Nat
    BY DEF LogType, ThreadType
  <1>5. Due(u, k)' <=> Due(u, k) \/ <<u, k>> = Line(t)
    BY <1>3, <1>4 DEF Due
  <1>6. <<u, k>> = Line(t) => ~Due(u, k)
    BY <1>3, <1>4 DEF Due
  <1> QED
    BY <1>1, <1>2, <1>5, <1>6

(* The line thread t is logging. *)
LEMMA LineInLines == ASSUME LogType, NEW t \in Loggers, logPc[t] # "idle" PROVE Line(t) \in Lines
  BY DEF LogType, ThreadType, Line, Lines

LEMMA PushKeeps == ASSUME LogInv, NEW t \in Loggers, Push(t) PROVE LogInv'
  <1> USE DEF LogInv
  <1> DEFINE Queued == Len(q) < max_queue_size /\ q' = Append(q, Line(t)) /\ dropped' = dropped
             Dropped == Len(q) >= max_queue_size /\ dropped' = dropped \cup {Line(t)} /\ q' = q
  <1>1. /\ logPc[t] = "push" /\ LogGoto(t, "flush") /\ (Queued \/ Dropped)
        /\ UNCHANGED <<clock, max_queue_size, m_count, m_today, m_fp, out, unflushed, my_tm, n, single_log>>
    BY DEF Push, logVars
  <1>2. ThreadType' /\ logPc'[t] = "flush" /\ \A u \in Loggers \ {t} : logPc'[u] = logPc[u]
    BY <1>1, GotoType DEF Steps
  <1>3. Line(t) \in Lines /\ m_is_async /\ m_is_async'
    BY <1>1, LineInLines DEF SyncUnqueued, m_is_async
  <1>4. LogType'
    <2>1. CountType'
      BY <1>1 DEF LogType, CountType
    <2>2. q' \in Seq(Lines)
      BY <1>1, <1>3, AppendCounts DEF LogType, LineType
    <2>3. dropped' \subseteq Lines
      BY <1>1, <1>3 DEF LogType, LineType
    <2>4. LineType'
      BY <1>1, <2>2, <2>3 DEF LogType, LineType
    <2> QED
      BY <1>2, <2>1, <2>4 DEF LogType
  <1>5. Conserved'
    <2>1. \A x : InOut(x)' = InOut(x) /\ InHand(x)' = InHand(x)
      BY <1>1 DEF InOut, InHand
    <2>2. \A x : InOut(x) \in Nat /\ InQ(x) \in Nat /\ InHand(x) \in Nat
      BY CountTypes
    <2>3. \A x : /\ Copies(x) = InOut(x) + InQ(x) + InHand(x) + Lost(x)
                /\ Copies(x)' = InOut(x)' + InQ(x)' + InHand(x)' + Lost(x)'
      BY <1>4, CopiesForm, CountsNext
    <2>4. \A x : x \in Lines => InQ(x)' + Lost(x)' = InQ(x) + Lost(x) + (IF x = Line(t) THEN 1 ELSE 0)
      <3>1. CASE Queued
        <4>1. \A x : InQ(x)' = InQ(x) + (IF x = Line(t) THEN 1 ELSE 0)
          BY <3>1, <1>3, AppendCounts
        <4>2. \A x : Lost(x)' = Lost(x) /\ Lost(x) \in Nat
          BY <3>1, LostForm DEF Lost
        <4> QED
          BY <2>2, <4>1, <4>2
      <3>2. CASE Dropped
        <4>1. \A x : InQ(x)' = InQ(x)
          BY <3>2 DEF InQ
        <4>2. Line(t) \notin dropped
          <5>1. t \in Loggers /\ n[t] \in Nat \ {0} /\ ~Due(t, n[t])
            BY <1>1 DEF LogType, ThreadType, Due
          <5>2. Copies(Line(t)) = 0
            BY <5>1 DEF Line, Conserved
          <5>3. Lost(Line(t)) = 0
            BY <5>2, <2>2, <2>3, LostForm
          <5> QED
            BY <5>3, LostForm
        <4>3. \A x : Lost(x)' = IF x \in dropped' THEN 1 ELSE 0
          BY <1>4, CountsNext
        <4>4. \A x : Lost(x)' = Lost(x) + (IF x = Line(t) THEN 1 ELSE 0) /\ Lost(x) \in Nat
          BY <3>2, <4>2, <4>3, LostForm
        <4> QED
          BY <2>2, <4>1, <4>4
      <3> QED
        BY <1>1, <3>1, <3>2
    <2>5. \A x : x \in Lines => Copies(x)' = Copies(x) + (IF x = Line(t) THEN 1 ELSE 0)
      <3> SUFFICES ASSUME NEW x, x \in Lines PROVE Copies(x)' = Copies(x) + (IF x = Line(t) THEN 1 ELSE 0)
        OBVIOUS
      <3>1. InQ(x)' \in Nat /\ Lost(x)' \in Nat /\ Lost(x) \in Nat
        BY <1>4, CountsNext, LostForm
      <3> HIDE DEF Lines
      <3> QED
        BY <2>1, <2>2, <2>3, <2>4, <3>1
    <2> QED
      BY <1>1, <1>2, <2>5, HandOver
  <1>6. SyncUnqueued' /\ SyncLineOnDisk'
    BY <1>3 DEF SyncUnqueued, SyncLineOnDisk
  <1>7. Named'
    BY <1>1 DEF Named
  <1>8. AloneInv'
    <2> SUFFICES ASSUME Alone PROVE AloneInv'
      BY <1>1 DEF AloneInv, Alone
    <2>1. \A u \in Loggers \ {t} : logPc[u] = "idle" /\ logPc'[u] = "idle"
      BY <1>1, <1>2, OthersIdle
    <2>2. \A u \in Loggers : logPc'[u] # "push" /\ logPc'[u] # "count"
      BY <1>2, <2>1
    <2>3. Len(q) < max_queue_size /\ dropped = {}
      BY <1>1 DEF AloneInv
    <2>4. dropped' = {}
      BY <1>1, <2>3 DEF LogType, LineType, CountType
    <2>5. \A i \in DOMAIN out' : NotAfter(out'[i].file, m_fp')
      BY <1>1 DEF AloneInv
    <2> QED
      BY <1>3, <2>2, <2>4, <2>5 DEF AloneInv
  <1> QED
    BY <1>4, <1>5, <1>6, <1>7, <1>8

(* fputs keeps the types, and the files in the order they were opened. *)
LEMMA FputsType ==
  ASSUME LogType, NEW line \in Lines, Fputs(line)
  PROVE  out' \in Seq([line : Lines, file : Files]) /\ unflushed' \in 0 .. Len(out')
  <1>1. out' \in Seq([line : Lines, file : Files]) /\ Len(out') = Len(out) + 1
    BY FputsCounts
  <1>2. Len(out) \in Nat /\ unflushed \in 0 .. Len(out) /\ unflushed' = unflushed + 1
    BY DEF LogType, LineType, Fputs
  <1> QED
    BY <1>1, <1>2

LEMMA FputsOrder ==
  ASSUME LogType, NEW line \in Lines, Fputs(line), m_fp' = m_fp,
         \A i \in DOMAIN out : NotAfter(out[i].file, m_fp)
  PROVE  \A i \in DOMAIN out' : NotAfter(out'[i].file, m_fp')
  <1>1. DOMAIN out' = 1 .. Len(out) + 1 /\ DOMAIN out = 1 .. Len(out) /\ Len(out) \in Nat
    BY FputsCounts
  <1>2. out'[Len(out) + 1].file = m_fp /\ \A i \in 1 .. Len(out) : out'[i] = out[i]
    BY FputsCounts
  <1>3. NotAfter(m_fp, m_fp)
    BY DEF NotAfter, LogType, CountType, Files
  <1> SUFFICES ASSUME NEW i \in DOMAIN out' PROVE NotAfter(out'[i].file, m_fp)
    OBVIOUS
  <1>4. i = Len(out) + 1 \/ i \in 1 .. Len(out)
    BY <1>1
  <1> QED
    BY <1>1, <1>2, <1>3, <1>4

LEMMA WriteKeeps == ASSUME LogInv, NEW t \in Loggers, Write(t) PROVE LogInv'
  <1> USE DEF LogInv
  <1>1. /\ logPc[t] = "write" /\ Fputs(Line(t)) /\ LogGoto(t, "flush")
        /\ UNCHANGED <<clock, max_queue_size, m_count, m_today, m_fp, q, dropped, my_tm, n, single_log>>
    BY DEF Write, logVars
  <1>2. ThreadType' /\ logPc'[t] = "flush" /\ \A u \in Loggers \ {t} : logPc'[u] = logPc[u]
    BY <1>1, GotoType DEF Steps
  <1>3. Line(t) \in Lines
    BY <1>1, LineInLines
  <1>4. LogType'
    <2>1. CountType'
      BY <1>1 DEF LogType, CountType
    <2>2. out' \in Seq([line : Lines, file : Files]) /\ unflushed' \in 0 .. Len(out')
      BY <1>1, <1>3, FputsType
    <2>3. LineType'
      BY <1>1, <2>2 DEF LogType, LineType
    <2> QED
      BY <1>2, <2>1, <2>3 DEF LogType
  <1>5. Conserved'
    <2>1. \A x : InQ(x)' = InQ(x) /\ InHand(x)' = InHand(x) /\ Lost(x)' = Lost(x)
      BY <1>1 DEF InQ, InHand, Lost
    <2>2. \A x : InOut(x) \in Nat /\ InQ(x) \in Nat /\ InHand(x) \in Nat /\ Lost(x) \in Nat
      BY CountTypes
    <2>3. \A x : InOut(x)' = InOut(x) + (IF x = Line(t) THEN 1 ELSE 0)
      BY <1>1, <1>3, FputsCounts
    <2>4. \A x : /\ Copies(x) = InOut(x) + InQ(x) + InHand(x) + Lost(x)
                /\ Copies(x)' = InOut(x)' + InQ(x)' + InHand(x)' + Lost(x)'
      BY <1>4, CopiesForm, CountsNext
    <2>5. \A x : x \in Lines => Copies(x)' = Copies(x) + (IF x = Line(t) THEN 1 ELSE 0)
      BY <2>1, <2>2, <2>3, <2>4
    <2> QED
      BY <1>1, <1>2, <2>5, HandOver
  <1>6. SyncUnqueued'
    BY <1>1, <1>2 DEF SyncUnqueued, m_is_async
  <1>7. SyncLineOnDisk'
    <2> SUFFICES ASSUME ~m_is_async, NEW i \in Len(out') - unflushed' + 1 .. Len(out')
                 PROVE  logPc'[out'[i].line[1]] = "flush" /\ out'[i].line[2] = n'[out'[i].line[1]]
      BY <1>1 DEF SyncLineOnDisk, m_is_async
    <2>1. /\ Len(out') = Len(out) + 1 /\ unflushed' = unflushed + 1 /\ Len(out) \in Nat
          /\ unflushed \in 0 .. Len(out) /\ DOMAIN out = 1 .. Len(out)
      BY <1>1, <1>3, FputsCounts DEF Fputs, LogType, LineType
    <2>2. out'[Len(out) + 1].line = Line(t) /\ \A j \in 1 .. Len(out) : out'[j] = out[j]
      BY <1>1, <1>3, FputsCounts
    <2>3. CASE i = Len(out) + 1
      BY <1>1, <1>2, <2>2, <2>3 DEF Line
    <2>4. CASE i # Len(out) + 1
      <3>1. i \in Len(out) - unflushed + 1 .. Len(out) /\ i \in 1 .. Len(out)
        BY <2>1, <2>4
      <3>2. out[i].line[1] \in Loggers /\ out'[i] = out[i]
        BY <2>1, <2>2, <3>1, OutLines
      <3>3. logPc[out[i].line[1]] = "flush" /\ out[i].line[2] = n[out[i].line[1]]
        BY <3>1 DEF SyncLineOnDisk
      <3> QED
        BY <1>1, <1>2, <3>2, <3>3
    <2> QED
      BY <2>3, <2>4
  <1>8. Named'
    BY <1>1 DEF Named
  <1>9. AloneInv'
    <2> SUFFICES ASSUME Alone PROVE AloneInv'
      BY <1>1 DEF AloneInv, Alone
    <2>1. \A u \in Loggers \ {t} : logPc[u] = "idle" /\ logPc'[u] = "idle"
      BY <1>1, <1>2, OthersIdle
    <2>2. Pending /\ ~Pending'
      BY <1>1, <1>2, <2>1 DEF Pending
    <2>3. \A u \in Loggers : logPc'[u] # "push" /\ logPc'[u] # "count"
      BY <1>2, <2>1
    <2>4. \A i \in DOMAIN out' : NotAfter(out'[i].file, m_fp')
      BY <1>1, <1>3, FputsOrder DEF AloneInv
    <2>5. \A f : InFile(f) \in Nat /\ InFile(f)' = InFile(f) + (IF f = m_fp THEN 1 ELSE 0)
      BY <1>1, <1>3, FputsCounts
    <2>6. m_count % SplitLines \in 0 .. SplitLines - 1 /\ SplitLines \in Nat \ {0}
      BY SplitSteps, LogAssumption DEF LogType, CountType
    <2>7. ASSUME ~m_is_async PROVE InFile(m_fp)' <= (m_count % SplitLines) + 1 /\ FileWithinSplit'
      <3>1. InFile(m_fp) <= m_count % SplitLines /\ FileWithinSplit
        BY <2>2, <2>5, <2>6, <2>7 DEF AloneInv
      <3>2. InFile(m_fp)' = InFile(m_fp) + 1
        <4>1. InFile(m_fp)' = Cardinality({i \in DOMAIN out' : out'[i].file = m_fp})
          BY <1>1 DEF InFile
        <4>2. \A f : Cardinality({i \in DOMAIN out' : out'[i].file = f}) = InFile(f) + (IF f = m_fp THEN 1 ELSE 0)
          BY <2>5 DEF InFile
        <4> QED
          BY <4>1, <4>2
      <3>3. \A i \in DOMAIN out : InFile(out[i].file) <= SplitLines
        BY <3>1 DEF FileWithinSplit, InFile
      <3>4. \A f : (\E i \in DOMAIN out' : out'[i].file = f) => f = m_fp \/ (\E i \in DOMAIN out : out[i].file = f)
        <4>1. DOMAIN out' = 1 .. Len(out) + 1 /\ DOMAIN out = 1 .. Len(out) /\ Len(out) \in Nat
          BY <1>1, <1>3, FputsCounts
        <4>2. out'[Len(out) + 1].file = m_fp /\ \A i \in 1 .. Len(out) : out'[i] = out[i]
          BY <1>1, <1>3, FputsCounts
        <4> SUFFICES ASSUME NEW i \in DOMAIN out' PROVE out'[i].file = m_fp \/ (\E j \in DOMAIN out : out[j].file = out'[i].file)
          OBVIOUS
        <4>3. i = Len(out) + 1 \/ i \in 1 .. Len(out)
          BY <4>1
        <4> QED
          BY <4>1, <4>2, <4>3
      <3>5. \A f : (\E i \in DOMAIN out' : out'[i].file = f) => InFile(f)' <= SplitLines
        <4> SUFFICES ASSUME NEW f, \E i \in DOMAIN out' : out'[i].file = f PROVE InFile(f)' <= SplitLines
          OBVIOUS
        <4>1. InFile(f) \in Nat /\ InFile(f)' = InFile(f) + (IF f = m_fp THEN 1 ELSE 0)
          BY <2>5
        <4>2. CASE f = m_fp
          BY <2>6, <3>1, <4>1, <4>2
        <4>3. CASE f # m_fp
          <5>1. \E i \in DOMAIN out : out[i].file = f
            BY <3>4, <4>3
          <5>2. InFile(f) <= SplitLines
            BY <3>3, <5>1
          <5> QED
            BY <4>1, <4>3, <5>2
        <4> QED
          BY <4>2, <4>3
      <3>6. FileWithinSplit'
        BY <3>5 DEF FileWithinSplit, InFile
      <3> QED
        BY <2>5, <2>6, <3>1, <3>2, <3>6
    <2>8. (m_is_async' <=> m_is_async) /\ (IF Pending' THEN 0 ELSE 1) = 1 /\ dropped' = {}
      BY <1>1, <2>2 DEF m_is_async, AloneInv
    <2> QED
      BY <1>1, <2>3, <2>4, <2>7, <2>8 DEF AloneInv
  <1> QED
    BY <1>4, <1>5, <1>6, <1>7, <1>8, <1>9

(* The writer thread moves a line and no thread; it runs in asynchronous   *)
(* mode only.                                                              *)
LEMMA WriterMoves ==
  ASSUME LogInv, LogType', m_is_async, UNCHANGED <<clock, max_queue_size, m_count, m_today, m_fp, dropped, logPc, my_tm, n>>,
         \A x : Copies(x)' = Copies(x), Len(q') <= Len(q),
         Alone => \A i \in DOMAIN out' : NotAfter(out'[i].file, m_fp')
  PROVE  LogInv'
  <1> USE DEF LogInv
  <1>1. Conserved'
    BY DEF Conserved, Due
  <1>2. SyncUnqueued' /\ SyncLineOnDisk' /\ Named'
    BY DEF SyncUnqueued, SyncLineOnDisk, Named, m_is_async
  <1>3. AloneInv'
    <2> SUFFICES ASSUME Alone PROVE AloneInv'
      BY DEF AloneInv, Alone
    <2>1. m_is_async' /\ dropped' = {} /\ \A t \in Loggers : logPc'[t] = "count" => my_tm'[t] >= m_today'
      BY DEF AloneInv, m_is_async
    <2>2. Len(q) \in Nat /\ Len(q') \in Nat /\ max_queue_size \in Nat
      BY DEF LogType, LineType, CountType
    <2>3. \A t \in Loggers : logPc'[t] = "push" => Len(q') < max_queue_size'
      BY <2>2 DEF AloneInv
    <2> QED
      BY <2>1, <2>3 DEF AloneInv
  <1> QED
    BY <1>1, <1>2, <1>3

LEMMA WriterPopKeepsInv == ASSUME LogInv, WriterPop PROVE LogInv'
  <1> USE DEF LogInv
  <1>1. /\ q # <<>> /\ single_log = <<>> /\ single_log' = <<Head(q)>> /\ q' = Tail(q)
        /\ UNCHANGED <<clock, max_queue_size, m_count, m_today, m_fp, out, unflushed, dropped, logPc, my_tm, n>>
    BY DEF WriterPop, logVars
  <1>2. m_is_async
    BY <1>1 DEF SyncUnqueued
  <1>3. /\ Head(q) \in Lines /\ q' \in Seq(Lines) /\ Len(q') = Len(q) - 1
        /\ \A x : InQ(x)' \in Nat /\ InQ(x) = InQ(x)' + (IF x = Head(q) THEN 1 ELSE 0)
    BY <1>1, TailCounts
  <1>4. LogType'
    <2>1. single_log' \in Seq(Lines) /\ Len(single_log') <= 1
      BY <1>1, <1>3
    <2> QED
      BY <1>1, <1>3, <2>1 DEF LogType, ThreadType, CountType, LineType
  <1>5. \A x : InHand(x) = 0 /\ InHand(x)' = IF x = Head(q) THEN 1 ELSE 0
    <2>1. \A x : InHand(x) = 0
      BY <1>1, HandForm
    <2>2. \A x : InHand(x)' = IF single_log' # <<>> /\ single_log'[1] = x THEN 1 ELSE 0
      BY <1>4, HandNext
    <2>3. single_log' # <<>> /\ single_log'[1] = Head(q)
      BY <1>1
    <2> QED
      BY <2>1, <2>2, <2>3
  <1>6. \A x : Copies(x)' = Copies(x)
    <2>1. \A x : InOut(x)' = InOut(x) /\ Lost(x)' = Lost(x)
      BY <1>1 DEF InOut, Lost
    <2>2. \A x : InOut(x) \in Nat /\ InQ(x) \in Nat /\ Lost(x) \in Nat
      BY CountTypes
    <2>3. \A x : /\ Copies(x) = InOut(x) + InQ(x) + InHand(x) + Lost(x)
                /\ Copies(x)' = InOut(x)' + InQ(x)' + InHand(x)' + Lost(x)'
      BY <1>4, CopiesForm, CountsNext
    <2> QED
      BY <1>3, <1>5, <2>1, <2>2, <2>3
  <1>7. Len(q') <= Len(q)
    BY <1>3 DEF LogType, LineType
  <1>8. Alone => \A i \in DOMAIN out' : NotAfter(out'[i].file, m_fp')
    BY <1>1 DEF AloneInv
  <1> QED
    BY <1>1, <1>2, <1>4, <1>6, <1>7, <1>8, WriterMoves

LEMMA WriterWriteKeeps == ASSUME LogInv, WriterWrite PROVE LogInv'
  <1> USE DEF LogInv
  <1>1. /\ single_log # <<>> /\ single_log' = <<>> /\ Fputs(single_log[1])
        /\ UNCHANGED <<clock, max_queue_size, m_count, m_today, m_fp, q, dropped, logPc, my_tm, n>>
    BY DEF WriterWrite, logVars
  <1>2. m_is_async
    BY <1>1 DEF SyncUnqueued
  <1>3. single_log[1] \in Lines
    <2>1. DOMAIN single_log = {1} /\ single_log \in Seq(Lines)
      BY <1>1, AtMostOne DEF LogType, LineType
    <2> QED
      BY <2>1, ElementsOf
  <1>4. LogType'
    <2>1. out' \in Seq([line : Lines, file : Files]) /\ unflushed' \in 0 .. Len(out')
      BY <1>1, <1>3, FputsType
    <2>2. single_log' \in Seq(Lines) /\ Len(single_log') <= 1
      BY <1>1
    <2> QED
      BY <1>1, <2>1, <2>2 DEF LogType, ThreadType, CountType, LineType
  <1>5. \A x : InHand(x)' = 0 /\ InHand(x) = IF x = single_log[1] THEN 1 ELSE 0
    <2>1. \A x : InHand(x)' = IF single_log' # <<>> /\ single_log'[1] = x THEN 1 ELSE 0
      BY <1>4, HandNext
    <2> QED
      BY <1>1, <2>1, HandForm
  <1>6. \A x : Copies(x)' = Copies(x)
    <2>1. \A x : InQ(x)' = InQ(x) /\ Lost(x)' = Lost(x)
      BY <1>1 DEF InQ, Lost
    <2>2. \A x : InOut(x) \in Nat /\ InQ(x) \in Nat /\ Lost(x) \in Nat
      BY CountTypes
    <2>3. \A x : InOut(x)' = InOut(x) + (IF x = single_log[1] THEN 1 ELSE 0)
      BY <1>1, <1>3, FputsCounts
    <2>4. \A x : /\ Copies(x) = InOut(x) + InQ(x) + InHand(x) + Lost(x)
                /\ Copies(x)' = InOut(x)' + InQ(x)' + InHand(x)' + Lost(x)'
      BY <1>4, CopiesForm, CountsNext
    <2> QED
      BY <1>5, <2>1, <2>2, <2>3, <2>4
  <1>7. Len(q') <= Len(q)
    BY <1>1 DEF LogType, LineType
  <1>8. Alone => \A i \in DOMAIN out' : NotAfter(out'[i].file, m_fp')
    BY <1>1, <1>3, FputsOrder DEF AloneInv
  <1> QED
    BY <1>1, <1>2, <1>4, <1>6, <1>7, <1>8, WriterMoves

LEMMA LogStep == LogInv /\ [LogNext]_vars => LogInv'
  <1> SUFFICES ASSUME LogInv, [LogNext]_vars PROVE LogInv'
    OBVIOUS
  <1>1. ASSUME NEW t \in Loggers, Step(t) PROVE LogInv'
    BY <1>1, ReadTimeKeeps, CountKeeps, RouteKeeps, PushKeeps, WriteKeeps, FlushKeeps DEF Step
  <1>2. CASE Writer
    BY <1>2, WriterPopKeepsInv, WriterWriteKeeps DEF Writer
  <1>3. CASE Midnight
    BY <1>3, MidnightKeeps
  <1>4. CASE UNCHANGED vars
    <2>1. LogType' /\ SyncUnqueued' /\ SyncLineOnDisk'
      BY <1>4 DEF LogInv, vars, LogType, ThreadType, CountType, LineType, SyncUnqueued, SyncLineOnDisk, m_is_async
    <2>2. Conserved'
      BY <1>4, CopiesStay DEF LogInv, vars, Conserved, Due
    <2>3. Named' /\ AloneInv'
      BY <1>4 DEF LogInv, vars, Named, AloneInv, Alone, InFile, Pending, FileWithinSplit, m_is_async
    <2> QED
      BY <2>1, <2>2, <2>3 DEF LogInv
  <1> QED
    BY <1>1, <1>2, <1>3, <1>4 DEF LogNext, Finished

(* At most one thread with lines, by counting or by comparing. *)
LEMMA AloneByCount == ASSUME Cardinality({t \in Loggers : n[t] > 0}) <= 1 PROVE Alone
  <1> DEFINE A == {t \in Loggers : n[t] > 0}
  <1> SUFFICES ASSUME NEW t \in A, NEW u \in A, t # u PROVE FALSE
    BY DEF Alone
  <1>1. IsFiniteSet(A)
    BY LogAssumption, FS_Subset
  <1>2. {t, u} \subseteq A
    OBVIOUS
  <1>3. Cardinality({t, u}) = 2
    <2>1. IsFiniteSet({t}) /\ Cardinality({t}) = 1
      BY FS_Singleton
    <2>2. Cardinality({t} \cup {u}) = Cardinality({t}) + 1
      BY <2>1, FS_AddElement
    <2>3. {t} \cup {u} = {t, u}
      OBVIOUS
    <2> QED
      BY <2>1, <2>2, <2>3
  <1>4. Cardinality({t, u}) <= Cardinality(A)
    BY <1>1, <1>2, FS_Subset
  <1> QED
    BY <1>1, <1>3, <1>4, FS_CardinalityType

LEMMA InvSound == LogInv => LogSound
  <1> SUFFICES ASSUME LogInv PROVE LogSound
    OBVIOUS
  <1>1. LineConserved
    <2> SUFFICES ASSUME NEW t \in Loggers, NEW k \in 1 .. n[t]
                 PROVE  Copies(<<t, k>>) =
                          IF k = n[t] /\ logPc[t] \in {"count", "route", "push", "write"} THEN 0 ELSE 1
      BY DEF LineConserved
    <2>1. n[t] \in Nat /\ k \in Nat \ {0} /\ k <= n[t] /\ logPc[t] \in Steps
      BY DEF LogInv, LogType, ThreadType
    <2>2. Due(t, k) <=> ~(k = n[t] /\ logPc[t] \in {"count", "route", "push", "write"})
      BY <2>1 DEF Due, Steps
    <2> QED
      BY <2>1, <2>2 DEF LogInv, Conserved
  <1>2. LoneLoggerExact
    BY AloneByCount DEF LoneLoggerExact, LogInv, AloneInv
  <1> QED
    BY <1>1, <1>2 DEF LogSound, LogInv

(* Whatever the threads, the queue's capacity, the lines and the days: a   *)
(* line handed to write_log is written, queued, in the writer's hands or   *)
(* dropped, once; in synchronous mode it is on disk when LOG_xxx returns;  *)
(* and one thread alone loses no line and overfills no file.               *)
THEOREM LinesKept == LogSpec => []LogSound
  <1>1. LogInit => LogInv
    BY InitInv
  <1>2. LogInv /\ [LogNext]_vars => LogInv'
    BY LogStep
  <1>3. LogInv => LogSound
    BY InvSound
  <1> QED
    BY <1>1, <1>2, <1>3, PTL DEF LogSpec
=============================================================================
