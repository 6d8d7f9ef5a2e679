------------------------ MODULE TimerContainersProof ------------------------
(***************************************************************************)
(* The containers of timers for any finite set of timers, any number of    *)
(* slots, capacity and delays: both sorted lists, the time wheel and the   *)
(* time heap keep their structure, and each implements TimerService.       *)
(* A structure of pointers is told by heights: every timer has one, next   *)
(* goes down, and what a call does is where it puts the heights.  The      *)
(* recursive functions of the model are shown to exist, and to have the    *)
(* value that is stated, by the least place where they would not.          *)
(***************************************************************************)
EXTENDS TimerContainers, FiniteSetTheorems, SequenceTheorems,
        WellFoundedInduction, NaturalsInduction, TLAPS

WP == INSTANCE SortTimerListProof WITH Returns <- FALSE, list <- wlist, listFired <- wfired
YP == INSTANCE SortTimerListProof WITH Returns <- TRUE, list <- ylist, listFired <- yfired

(* A set of naturals has a least element. *)
LEMMA Least == ASSUME NEW S \in SUBSET Nat, S # {} PROVE \E x \in S : \A y \in S : x <= y
  <1>1. \E x \in S : \A y \in S : ~(<<y, x>> \in OpToRel(<, Nat))
    BY NatLessThanWellFounded, WFMin, Zenon
  <1>2. \A p \in Nat \X Nat : p[1] < p[2] => p \in OpToRel(<, Nat)
    BY Zenon DEF OpToRel
  <1>3. \A x, y \in Nat : y < x => <<y, x>> \in OpToRel(<, Nat)
    <2> SUFFICES ASSUME NEW x \in Nat, NEW y \in Nat, y < x PROVE <<y, x>> \in OpToRel(<, Nat)
      OBVIOUS
    <2>1. <<y, x>> \in Nat \X Nat /\ <<y, x>>[1] = y /\ <<y, x>>[2] = x
      OBVIOUS
    <2>2. <<y, x>>[1] < <<y, x>>[2]
      BY <2>1
    <2> QED
      BY <1>2, <2>1, <2>2, Zenon
  <1>4. \E x \in S : \A y \in S : ~(y < x)
    BY <1>1, <1>3, Zenon
  <1> QED
    BY <1>4

-----------------------------------------------------------------------------
(* 11-6time_heap.h.  The array a of n timers in c places, which expire at e. *)
HeapAt(a, e, n, c) ==
    /\ c \in Nat /\ n \in 0 .. c /\ a \in [0 .. c - 1 -> Timers \cup {NULL}] /\ e \in [Timers -> Nat]
    /\ \A i \in 0 .. n - 1 : a[i] \in Timers
    /\ \A i, j \in 0 .. n - 1 : a[i] = a[j] => i = j
OrderedFrom(a, e, n, k) == \A i \in 1 .. n - 1 : TH!Parent(i) >= k => e[a[TH!Parent(i)]] <= e[a[i]]
Kid(a, e, n, i) == IF 2 * i + 2 <= n - 1 /\ e[a[2 * i + 2]] < e[a[2 * i + 1]] THEN 2 * i + 2 ELSE 2 * i + 1

(* The arithmetic of the array: the parent of a place, its two kids, and   *)
(* the kid that percolate_down goes to, which expires first.               *)
LEMMA ParentIs ==
  ASSUME NEW i \in Nat \ {0}
  PROVE  TH!Parent(i) \in Nat /\ TH!Parent(i) < i /\ (i = 2 * TH!Parent(i) + 1 \/ i = 2 * TH!Parent(i) + 2)
BY DEF TH!Parent

LEMMA ParentOf ==
  ASSUME NEW p \in Nat
  PROVE  TH!Parent(2 * p + 1) = p /\ TH!Parent(2 * p + 2) = p
BY DEF TH!Parent

LEMMA KidIs ==
  ASSUME NEW a, NEW e, NEW n, NEW c, HeapAt(a, e, n, c), NEW i \in Nat, 2 * i + 1 <= n - 1
  PROVE  LET k == Kid(a, e, n, i) IN
         /\ k \in 1 .. n - 1 /\ i < k /\ TH!Parent(k) = i /\ (k = 2 * i + 1 \/ k = 2 * i + 2)
         /\ \A j \in 1 .. n - 1 : TH!Parent(j) = i => e[a[k]] <= e[a[j]]
  <1>1. n \in Nat /\ 2 * i + 1 \in 0 .. n - 1 /\ (2 * i + 2 <= n - 1 => 2 * i + 2 \in 0 .. n - 1)
    BY DEF HeapAt
  <1>2. e[a[2 * i + 1]] \in Nat /\ (2 * i + 2 <= n - 1 => e[a[2 * i + 2]] \in Nat)
    BY <1>1 DEF HeapAt
  <1>3. \A j \in 1 .. n - 1 : TH!Parent(j) = i => j = 2 * i + 1 \/ j = 2 * i + 2
    BY <1>1, ParentIs
  <1> DEFINE k == Kid(a, e, n, i)
  <1>4. /\ k = 2 * i + 1 \/ (k = 2 * i + 2 /\ 2 * i + 2 <= n - 1)
        /\ e[a[k]] <= e[a[2 * i + 1]] /\ (2 * i + 2 <= n - 1 => e[a[k]] <= e[a[2 * i + 2]])
    BY <1>1, <1>2 DEF Kid
  <1> HIDE DEF k
  <1>5. k \in 1 .. n - 1 /\ i < k
    BY <1>1, <1>4
  <1>6. TH!Parent(k) = i
    BY <1>4, ParentOf
  <1>7. \A j \in 1 .. n - 1 : TH!Parent(j) = i => e[a[k]] <= e[a[j]]
    BY <1>1, <1>3, <1>4
  <1> QED
    BY <1>4, <1>5, <1>6, <1>7 DEF k
(* percolate_down: the holes from i on, of which m is the last one, when   *)
(* the timer at temp is moved.                                             *)
Down(a, e, n, temp, P, i, m) ==
    /\ P \subseteq i .. n - 1 /\ i \in P /\ m \in P /\ \A j \in P : j <= m
    /\ 2 * m + 1 <= n - 1 => e[temp] <= e[a[Kid(a, e, n, m)]]
    /\ \A j \in P : j # m => 2 * j + 1 <= n - 1 /\ e[a[Kid(a, e, n, j)]] < e[temp] /\ Kid(a, e, n, j) \in P
    /\ \A j \in P : j # i => \E k \in P : k # m /\ Kid(a, e, n, k) = j
DownEq(a, e, n, c, temp, f, b) ==
    f = [i \in b .. c - 1 |-> IF 2 * i + 1 <= n - 1 /\ e[a[Kid(a, e, n, i)]] < e[temp]
                              THEN {i} \cup f[Kid(a, e, n, i)] ELSE {i}]

(* percolate_down is a recursive function over the holes; there is one,    *)
(* from the last hole backwards.                                           *)
LEMMA DownExists ==
  ASSUME NEW a, NEW e, NEW n, NEW c, HeapAt(a, e, n, c), NEW temp \in Timers
  PROVE  \E f : DownEq(a, e, n, c, temp, f, 0)
  <1> DEFINE S == {j \in 0 .. c : ~\E f : DownEq(a, e, n, c, temp, f, c - j)}
  <1> SUFFICES ASSUME S # {} PROVE FALSE
    <2>1. c \in 0 .. c /\ c - c = 0
      BY DEF HeapAt
    <2> QED
      BY <2>1
  <1>1. c \in Nat /\ n \in 0 .. c
    BY DEF HeapAt
  <1>2. S \in SUBSET Nat
    OBVIOUS
  <1>3. PICK j \in S : \A y \in S : j <= y
    BY <1>2, Least
  <1>4. CASE j = 0
    <2> DEFINE f == [i \in c .. c - 1 |-> {}]
    <2>1. c .. c - 1 = {}
      BY <1>1
    <2>2. DownEq(a, e, n, c, temp, f, c - 0)
      BY <1>1, <2>1 DEF DownEq
    <2> QED
      BY <1>3, <1>4, <2>2
  <1>5. CASE j # 0
    <2>1. j - 1 \in 0 .. c /\ j - 1 \notin S /\ j \in Nat /\ j \in 0 .. c
      BY <1>1, <1>3, <1>5
    <2>2. PICK g : DownEq(a, e, n, c, temp, g, c - (j - 1))
      BY <2>1
    <2> DEFINE b == c - j
               B == c - (j - 1)
               V(f, i) == IF 2 * i + 1 <= n - 1 /\ e[a[Kid(a, e, n, i)]] < e[temp]
                          THEN {i} \cup f[Kid(a, e, n, i)] ELSE {i}
               f == [i \in b .. c - 1 |-> IF i = b THEN V(g, i) ELSE g[i]]
    <2>3. b \in Nat /\ B = b + 1 /\ b <= c - 1
      BY <1>1, <2>1
    <2>4. \A i \in B .. c - 1 : g[i] = V(g, i)
      BY <2>2 DEF DownEq
    <2> HIDE DEF b, B, S
    <2>5. \A i \in b .. c - 1 : 2 * i + 1 <= n - 1 => Kid(a, e, n, i) \in B .. c - 1 /\ Kid(a, e, n, i) # b
      <3> SUFFICES ASSUME NEW i \in b .. c - 1, 2 * i + 1 <= n - 1
                   PROVE  Kid(a, e, n, i) \in B .. c - 1 /\ Kid(a, e, n, i) # b
        OBVIOUS
      <3>1. i \in Nat
        BY <2>3
      <3> DEFINE k == Kid(a, e, n, i)
      <3>2. k \in 1 .. n - 1 /\ i < k
        BY <3>1, KidIs
      <3> HIDE DEF k
      <3>3. k \in B .. c - 1 /\ k # b
        BY <1>1, <2>3, <3>1, <3>2
      <3> QED
        BY <3>3 DEF k
    <2> HIDE DEF V
    <2>6. f[b] = V(g, b) /\ \A i \in B .. c - 1 : f[i] = g[i]
      BY <1>1, <2>3
    <2>7. \A i \in B .. c - 1 : i # b /\ i \in b .. c - 1
      BY <1>1, <2>3
    <2> HIDE DEF f
    <2>8. \A i \in b .. c - 1 : V(f, i) = V(g, i)
      BY <2>5, <2>6 DEF V
    <2>9. ASSUME NEW i \in b .. c - 1 PROVE f[i] = V(f, i)
      <3>1. CASE i = b
        BY <2>6, <2>8, <3>1
      <3>2. CASE i # b
        <4>1. i \in B .. c - 1
          BY <2>3, <3>2
        <4> QED
          BY <2>4, <2>6, <2>8, <4>1
      <3> QED
        BY <3>1, <3>2
    <2>10. f = [i \in b .. c - 1 |-> f[i]]
      BY DEF f
    <2>11. f = [i \in b .. c - 1 |-> V(f, i)]
      BY <2>9, <2>10, Zenon
    <2>12. DownEq(a, e, n, c, temp, f, b)
      BY <2>11 DEF DownEq, V
    <2> QED
      BY <1>3, <2>12 DEF S, b
  <1> QED
    BY <1>4, <1>5

(* Whatever the function, its value at a hole is a path down from there. *)
LEMMA DownIs ==
  ASSUME NEW a, NEW e, NEW n, NEW c, HeapAt(a, e, n, c), NEW temp \in Timers,
         NEW f, DownEq(a, e, n, c, temp, f, 0), NEW hole \in 0 .. n - 1
  PROVE  \E m : Down(a, e, n, temp, f[hole], hole, m)
  <1> DEFINE S == {j \in 0 .. n - 1 : ~\E m : Down(a, e, n, temp, f[n - 1 - j], n - 1 - j, m)}
  <1>1. c \in Nat /\ n \in 0 .. c
    BY DEF HeapAt
  <1> SUFFICES ASSUME S # {} PROVE FALSE
    <2>1. n - 1 - hole \in 0 .. n - 1 /\ n - 1 - (n - 1 - hole) = hole
      BY <1>1
    <2> QED
      BY <2>1
  <1>2. S \in SUBSET Nat
    BY <1>1
  <1>3. PICK j \in S : \A y \in S : j <= y
    BY <1>2, Least
  <1> DEFINE i == n - 1 - j
             k == Kid(a, e, n, i)
  <1>4. i \in 0 .. n - 1 /\ i \in Nat /\ ~\E m : Down(a, e, n, temp, f[i], i, m)
    BY <1>1, <1>3
  <1>5. f[i] = IF 2 * i + 1 <= n - 1 /\ e[a[k]] < e[temp] THEN {i} \cup f[k] ELSE {i}
    <2>1. i \in 0 .. c - 1
      BY <1>1, <1>4
    <2> HIDE DEF i
    <2> QED
      BY <2>1 DEF DownEq
  <1>6. CASE 2 * i + 1 <= n - 1 /\ e[a[k]] < e[temp]
    <2> HIDE DEF i
    <2>1. k \in 1 .. n - 1 /\ i < k
      BY <1>4, <1>6, KidIs
    <2> HIDE DEF k
    <2>2. \E m : Down(a, e, n, temp, f[k], k, m)
      <3>1. n - 1 - k \in 0 .. n - 1 /\ n - 1 - k < j /\ n - 1 - (n - 1 - k) = k
        BY <1>1, <1>3, <2>1 DEF i
      <3>2. n - 1 - k \notin S
        BY <1>1, <1>3, <3>1
      <3> HIDE DEF S
      <3> QED
        BY <3>1, <3>2 DEF S
    <2>3. PICK m : Down(a, e, n, temp, f[k], k, m)
      BY <2>2
    <2> DEFINE Q == f[k]
               P == {i} \cup Q
    <2>4. f[i] = P
      BY <1>5, <1>6
    <2> HIDE DEF Q
    <2>5. Down(a, e, n, temp, Q, k, m)
      BY <2>3 DEF Q
    <2>6. P \subseteq i .. n - 1 /\ i \in P /\ m \in P /\ \A y \in P : y <= m
      BY <1>1, <1>4, <2>1, <2>5 DEF Down
    <2>7. m # i /\ k \in Q /\ m \in Q
      BY <1>1, <1>4, <2>1, <2>5 DEF Down
    <2>8. \A y \in P : y # m => 2 * y + 1 <= n - 1 /\ e[a[Kid(a, e, n, y)]] < e[temp] /\ Kid(a, e, n, y) \in P
      BY <1>6, <2>5, <2>7 DEF Down, k
    <2>9. \A y \in P : y # i => \E x \in P : x # m /\ Kid(a, e, n, x) = y
      BY <2>5, <2>7 DEF Down, k
    <2>10. Down(a, e, n, temp, P, i, m)
      BY <2>5, <2>6, <2>8, <2>9 DEF Down
    <2> QED
      BY <1>4, <2>4, <2>10
  <1>7. CASE ~(2 * i + 1 <= n - 1 /\ e[a[k]] < e[temp])
    <2>1. f[i] = {i}
      BY <1>5, <1>7
    <2>2. 2 * i + 1 <= n - 1 => e[temp] <= e[a[k]]
      <3> SUFFICES ASSUME 2 * i + 1 <= n - 1 PROVE e[temp] <= e[a[k]]
        OBVIOUS
      <3> HIDE DEF i
      <3>1. k \in 1 .. n - 1
        BY <1>4, KidIs
      <3> HIDE DEF k
      <3>2. k \in 0 .. n - 1
        BY <1>1, <3>1
      <3>3. e[a[k]] \in Nat /\ e[temp] \in Nat
        BY <3>2 DEF HeapAt
      <3> QED
        BY <1>7, <3>3
    <2> HIDE DEF i
    <2>3. {i} \subseteq i .. n - 1
      BY <1>1, <1>4
    <2>4. Down(a, e, n, temp, {i}, i, i)
      BY <1>4, <2>2, <2>3 DEF Down, k
    <2> QED
      BY <1>4, <2>1, <2>4
  <1> QED
    BY <1>6, <1>7
Moved(a, e, n, temp, P, m) ==
    [i \in DOMAIN a |-> IF i \notin P THEN a[i] ELSE IF i = m THEN temp ELSE a[Kid(a, e, n, i)]]
Elements(a, n) == {a[i] : i \in 0 .. n - 1}

(* Once the timer is moved down its path the places from its hole on are   *)
(* ordered, and the array holds the same timers.                           *)
LEMMA Sifted ==
  ASSUME NEW a, NEW e, NEW n, NEW c, HeapAt(a, e, n, c), NEW hole \in 0 .. n - 1, OrderedFrom(a, e, n, hole + 1),
         NEW P, NEW m, Down(a, e, n, a[hole], P, hole, m), NEW b, b = Moved(a, e, n, a[hole], P, m)
  PROVE  HeapAt(b, e, n, c) /\ OrderedFrom(b, e, n, hole) /\ Elements(b, n) = Elements(a, n)
  <1> DEFINE temp == a[hole]
             K(i) == Kid(a, e, n, i)
             last == n - 1
  <1>1. /\ c \in Nat /\ n \in 0 .. c /\ last \in Int /\ hole \in Nat /\ hole \in 0 .. last /\ last <= c - 1 /\ n = last + 1
        /\ a \in [0 .. c - 1 -> Timers \cup {NULL}] /\ e \in [Timers -> Nat]
        /\ \A i \in 0 .. last : a[i] \in Timers /\ i \in 0 .. c - 1
        /\ \A i, j \in 0 .. last : a[i] = a[j] => i = j
    BY DEF HeapAt
  <1>2. \A i \in Nat : 2 * i + 1 <= last => /\ K(i) \in 1 .. last /\ i < K(i) /\ TH!Parent(K(i)) = i
                                           /\ \A j \in 1 .. last : TH!Parent(j) = i => e[a[K(i)]] <= e[a[j]]
    BY KidIs
  <1>3. /\ P \subseteq hole .. last /\ hole \in P /\ m \in P /\ \A j \in P : j <= m
        /\ 2 * m + 1 <= last => e[temp] <= e[a[K(m)]]
        /\ \A j \in P : j # m => 2 * j + 1 <= last /\ e[a[K(j)]] < e[temp] /\ K(j) \in P
        /\ \A j \in P : j # hole => \E k \in P : k # m /\ K(k) = j
    BY DEF Down
  <1> HIDE DEF K, last
  <1>4. \A j \in P : j \in Nat /\ j \in 0 .. last /\ hole <= j
    BY <1>1, <1>3
  <1>5. temp \in Timers
    BY <1>1
  <1>6. \A i \in 0 .. last : b[i] = IF i \notin P THEN a[i] ELSE IF i = m THEN temp ELSE a[K(i)]
    BY <1>1 DEF Moved, K
  <1> DEFINE src == [i \in 0 .. last |-> IF i \notin P THEN i ELSE IF i = m THEN hole ELSE K(i)]
  <1>7. \A i \in P : i # m => K(i) \in P /\ K(i) \in 0 .. last /\ i < K(i) /\ TH!Parent(K(i)) = i /\ K(i) # hole
    <2> SUFFICES ASSUME NEW i \in P, i # m
                 PROVE  K(i) \in P /\ K(i) \in 0 .. last /\ i < K(i) /\ TH!Parent(K(i)) = i /\ K(i) # hole
      OBVIOUS
    <2>1. i \in Nat /\ 2 * i + 1 <= last /\ K(i) \in P /\ hole <= i
      BY <1>3, <1>4
    <2>2. K(i) \in 1 .. last /\ i < K(i) /\ TH!Parent(K(i)) = i
      BY <1>2, <2>1
    <2> QED
      BY <1>1, <2>1, <2>2
  <1>8. \A i \in 0 .. last : src[i] \in 0 .. last /\ b[i] = a[src[i]]
    BY <1>1, <1>6, <1>7
  <1>9. \A i, j \in 0 .. last : src[i] = src[j] => i = j
    <2>1. \A i \in 0 .. last : src[i] = IF i \notin P THEN i ELSE IF i = m THEN hole ELSE K(i)
      OBVIOUS
    <2> HIDE DEF src
    <2> SUFFICES ASSUME NEW i \in 0 .. last, NEW j \in 0 .. last, src[i] = src[j] PROVE i = j
      OBVIOUS
    <2>2. CASE i \notin P
      BY <1>3, <1>7, <2>1, <2>2
    <2>3. CASE j \notin P
      BY <1>3, <1>7, <2>1, <2>3
    <2>4. CASE i \in P /\ j \in P /\ (i = m \/ j = m)
      BY <1>7, <2>1, <2>4
    <2>5. CASE i \in P /\ j \in P /\ i # m /\ j # m
      BY <1>7, <2>1, <2>5
    <2> QED
      BY <2>2, <2>3, <2>4, <2>5
  <1>10. \A j \in 0 .. last : \E i \in 0 .. last : src[i] = j
    <2>1. \A i \in 0 .. last : src[i] = IF i \notin P THEN i ELSE IF i = m THEN hole ELSE K(i)
      OBVIOUS
    <2> HIDE DEF src
    <2> SUFFICES ASSUME NEW j \in 0 .. last PROVE \E i \in 0 .. last : src[i] = j
      OBVIOUS
    <2>2. CASE j \notin P
      BY <2>1, <2>2
    <2>3. CASE j = hole
      BY <1>3, <1>4, <2>1, <2>3
    <2>4. CASE j \in P /\ j # hole
      BY <1>3, <1>4, <2>1, <2>4
    <2> QED
      BY <2>2, <2>3, <2>4
  <1> HIDE DEF src
  <1>11. HeapAt(b, e, n, c)
    <2>1. b = [i \in 0 .. c - 1 |-> IF i \notin P THEN a[i] ELSE IF i = m THEN temp ELSE a[K(i)]]
      BY <1>1 DEF Moved, K
    <2>2. b \in [0 .. c - 1 -> Timers \cup {NULL}]
      <3>1. ASSUME NEW i \in 0 .. c - 1
            PROVE  (IF i \notin P THEN a[i] ELSE IF i = m THEN temp ELSE a[K(i)]) \in Timers \cup {NULL}
        <4>1. CASE i \notin P
          BY <1>1, <4>1
        <4>2. CASE i \in P /\ i = m
          BY <1>5, <4>2
        <4>3. CASE i \in P /\ i # m
          BY <1>1, <1>7, <4>3
        <4> QED
          BY <4>1, <4>2, <4>3
      <3> HIDE DEF temp
      <3> QED
        BY <2>1, <3>1
    <2>3. \A i \in 0 .. last : b[i] \in Timers
      BY <1>1, <1>8
    <2>4. ASSUME NEW i \in 0 .. last, NEW j \in 0 .. last, b[i] = b[j] PROVE i = j
      <3>1. src[i] \in 0 .. last /\ src[j] \in 0 .. last /\ a[src[i]] = a[src[j]]
        BY <1>8, <2>4
      <3>2. src[i] = src[j]
        BY <1>1, <3>1
      <3> QED
        BY <1>9, <3>2
    <2> QED
      BY <1>1, <2>2, <2>3, <2>4 DEF HeapAt, last
  <1>12. Elements(b, n) = Elements(a, n)
    <2>1. \A x \in Elements(b, n) : x \in Elements(a, n)
      BY <1>8 DEF Elements, last
    <2>2. \A x \in Elements(a, n) : x \in Elements(b, n)
      BY <1>8, <1>10 DEF Elements, last
    <2> QED
      BY <2>1, <2>2
  <1>13. \A i \in 0 .. last : e[a[i]] \in Nat
    BY <1>1
  <1>14. \A i \in 1 .. last : TH!Parent(i) >= hole + 1 => e[a[TH!Parent(i)]] <= e[a[i]]
    BY DEF OrderedFrom, last
  <1>15. ASSUME NEW i \in 1 .. last, TH!Parent(i) >= hole PROVE e[b[TH!Parent(i)]] <= e[b[i]]
    <2> DEFINE p == TH!Parent(i)
    <2>1. p \in Nat /\ p < i /\ (i = 2 * p + 1 \/ i = 2 * p + 2) /\ i \in 0 .. last /\ p \in 0 .. last /\ p >= hole
      BY <1>1, <1>15, ParentIs
    <2>0. TH!Parent(i) = p
      OBVIOUS
    <2> HIDE DEF p
    <2>2. 2 * p + 1 <= last
      BY <1>1, <2>1
    <2>3. K(p) \in 1 .. last /\ e[a[K(p)]] <= e[a[i]] /\ K(p) \in 0 .. last
      <3>1. K(p) \in 1 .. last /\ \A j \in 1 .. last : TH!Parent(j) = p => e[a[K(p)]] <= e[a[j]]
        BY <1>2, <2>1, <2>2
      <3> QED
        BY <1>1, <2>0, <3>1
    <2>4. e[temp] \in Nat /\ e[a[i]] \in Nat /\ e[a[p]] \in Nat /\ e[a[K(p)]] \in Nat
      BY <1>1, <1>13, <2>1, <2>3
    <2>5. CASE i \notin P /\ p \notin P
      <3>1. p # hole
        BY <1>3, <2>5
      <3>2. e[a[p]] <= e[a[i]]
        <4>1. p >= hole + 1
          BY <1>1, <2>1, <3>1
        <4> QED
          BY <1>14, <2>0, <4>1
      <3> QED
        BY <1>6, <2>1, <2>5, <3>2 DEF p
    <2>6. CASE i \notin P /\ p \in P
      <3>1. CASE p = m
        <4>1. e[temp] <= e[a[K(p)]]
          BY <1>3, <2>2, <3>1
        <4>2. b[p] = temp /\ b[i] = a[i]
          BY <1>6, <2>1, <2>6, <3>1
        <4> HIDE DEF temp
        <4> QED
          BY <2>3, <2>4, <4>1, <4>2 DEF p
      <3>2. CASE p # m
        <4>1. b[p] = a[K(p)] /\ b[i] = a[i]
          BY <1>6, <2>1, <2>6, <3>2
        <4> QED
          BY <2>3, <4>1 DEF p
      <3> QED
        BY <3>1, <3>2
    <2>7. CASE i \in P
      <3>1. i # hole
        BY <1>1, <2>1
      <3>2. PICK k \in P : k # m /\ K(k) = i
        BY <1>3, <2>7, <3>1
      <3>3. k = p
        BY <1>7, <3>2 DEF p
      <3>4. b[p] = a[i] /\ e[a[i]] < e[temp]
        BY <1>3, <1>6, <2>1, <3>2, <3>3
      <3>5. CASE i = m
        <4>1. b[i] = temp
          BY <1>6, <2>1, <2>7, <3>5
        <4> HIDE DEF temp
        <4> QED
          BY <2>4, <3>4, <4>1 DEF p
      <3>6. CASE i # m
        <4>1. b[i] = a[K(i)] /\ K(i) \in 1 .. last /\ TH!Parent(K(i)) = i
          <5>1. 2 * i + 1 <= last /\ i \in Nat
            BY <1>3, <1>4, <2>7, <3>6
          <5> QED
            BY <1>2, <1>6, <2>1, <2>7, <3>6, <5>1
        <4>2. i >= hole + 1
          BY <1>1, <2>1
        <4>3. e[a[i]] <= e[a[K(i)]]
          BY <1>14, <4>1, <4>2
        <4> QED
          BY <3>4, <4>1, <4>3 DEF p
      <3> QED
        BY <3>5, <3>6
    <2> QED
      BY <2>5, <2>6, <2>7
  <1>16. OrderedFrom(b, e, n, hole)
    BY <1>15 DEF OrderedFrom, last
  <1> QED
    BY <1>11, <1>12, <1>16
(* add_timer: the holes from i up, of which m is the topmost, for a timer  *)
(* that expires at k.                                                      *)
Up(a, e, k, P, i, m) ==
    /\ P \subseteq 0 .. i /\ i \in P /\ m \in P /\ \A j \in P : m <= j
    /\ m > 0 => ~(e[a[TH!Parent(m)]] > k)
    /\ \A j \in P : j # m => j > 0 /\ e[a[TH!Parent(j)]] > k /\ TH!Parent(j) \in P
    /\ \A j \in P : j # i => \E x \in P : x # m /\ TH!Parent(x) = j
    /\ \A x, y \in P : x # m /\ y # m /\ TH!Parent(x) = TH!Parent(y) => x = y
UpEq(a, e, k, f, b) ==
    f = [i \in 0 .. b - 1 |-> IF i > 0 /\ e[a[TH!Parent(i)]] > k THEN {i} \cup f[TH!Parent(i)] ELSE {i}]

(* add_timer likewise, from the root on. *)
LEMMA UpExists ==
  ASSUME NEW a, NEW e, NEW k, NEW c \in Nat
  PROVE  \E f : UpEq(a, e, k, f, c)
  <1> DEFINE S == {j \in Nat : ~\E f : UpEq(a, e, k, f, j)}
  <1> SUFFICES ASSUME S # {} PROVE FALSE
    OBVIOUS
  <1>1. PICK j \in S : \A y \in S : j <= y
    BY Least
  <1>2. CASE j = 0
    <2> DEFINE f == [i \in 0 .. 0 - 1 |-> {}]
    <2>1. 0 .. 0 - 1 = {}
      OBVIOUS
    <2>2. UpEq(a, e, k, f, 0)
      BY <2>1 DEF UpEq
    <2> QED
      BY <1>1, <1>2, <2>2
  <1>3. CASE j # 0
    <2>1. j - 1 \in Nat /\ j - 1 \notin S /\ j \in Nat
      BY <1>1, <1>3
    <2>2. PICK g : UpEq(a, e, k, g, j - 1)
      BY <2>1
    <2> DEFINE b == j - 1
               V(f, i) == IF i > 0 /\ e[a[TH!Parent(i)]] > k THEN {i} \cup f[TH!Parent(i)] ELSE {i}
               f == [i \in 0 .. b |-> IF i = b THEN V(g, i) ELSE g[i]]
    <2>3. b \in Nat /\ j - 1 = b
      BY <2>1
    <2>4. \A i \in 0 .. b - 1 : g[i] = V(g, i)
      BY <2>2 DEF UpEq
    <2> HIDE DEF b, S
    <2>5. \A i \in 0 .. b : i > 0 => TH!Parent(i) \in 0 .. b - 1 /\ TH!Parent(i) # b
      <3> SUFFICES ASSUME NEW i \in 0 .. b, i > 0 PROVE TH!Parent(i) \in 0 .. b - 1 /\ TH!Parent(i) # b
        OBVIOUS
      <3>1. TH!Parent(i) \in Nat /\ TH!Parent(i) < i
        BY <2>3, ParentIs
      <3> QED
        BY <2>3, <3>1
    <2> HIDE DEF V
    <2>6. f[b] = V(g, b) /\ \A i \in 0 .. b - 1 : f[i] = g[i]
      BY <2>3
    <2> HIDE DEF f
    <2>7. \A i \in 0 .. b : V(f, i) = V(g, i)
      BY <2>5, <2>6 DEF V
    <2>8. ASSUME NEW i \in 0 .. b PROVE f[i] = V(f, i)
      <3>1. CASE i = b
        BY <2>6, <2>7, <3>1
      <3>2. CASE i # b
        <4>1. i \in 0 .. b - 1
          BY <2>3, <3>2
        <4> QED
          BY <2>4, <2>6, <2>7, <4>1
      <3> QED
        BY <3>1, <3>2
    <2>9. f = [i \in 0 .. b |-> f[i]]
      BY DEF f
    <2>10. f = [i \in 0 .. b |-> V(f, i)]
      BY <2>8, <2>9, Zenon
    <2>11. UpEq(a, e, k, f, j)
      BY <2>3, <2>10 DEF UpEq, V
    <2> QED
      BY <1>1, <2>11 DEF S
  <1> QED
    BY <1>2, <1>3

(* Its value at a hole is a path up from there. *)
LEMMA UpIs ==
  ASSUME NEW a, NEW e, NEW k, NEW c \in Nat, NEW f, UpEq(a, e, k, f, c), NEW hole \in 0 .. c - 1
  PROVE  \E m : Up(a, e, k, f[hole], hole, m)
  <1> DEFINE S == {j \in 0 .. c - 1 : ~\E m : Up(a, e, k, f[j], j, m)}
  <1> SUFFICES ASSUME S # {} PROVE FALSE
    OBVIOUS
  <1>1. S \in SUBSET Nat
    OBVIOUS
  <1>2. PICK i \in S : \A y \in S : i <= y
    BY <1>1, Least
  <1>3. i \in 0 .. c - 1 /\ i \in Nat /\ ~\E m : Up(a, e, k, f[i], i, m)
    BY <1>2
  <1> DEFINE p == TH!Parent(i)
  <1>4. f[i] = IF i > 0 /\ e[a[p]] > k THEN {i} \cup f[p] ELSE {i}
    BY <1>3 DEF UpEq
  <1>5. CASE i > 0 /\ e[a[p]] > k
    <2>0. TH!Parent(i) = p
      OBVIOUS
    <2>1. p \in Nat /\ p < i
      BY <1>3, <1>5, ParentIs
    <2> HIDE DEF p
    <2>2. p \in 0 .. c - 1 /\ p \notin S
      BY <1>2, <1>3, <2>1
    <2>3. PICK m : Up(a, e, k, f[p], p, m)
      BY <2>2
    <2> DEFINE Q == f[p]
               P == {i} \cup Q
    <2>4. f[i] = P
      BY <1>4, <1>5
    <2>5. Up(a, e, k, Q, p, m)
      BY <2>3
    <2> HIDE DEF Q, S
    <2>6. P \subseteq 0 .. i /\ i \in P /\ m \in P /\ \A y \in P : m <= y
      BY <1>3, <2>1, <2>5 DEF Up
    <2>7. m # i /\ p \in Q /\ m \in Q /\ i \notin Q
      BY <1>3, <2>1, <2>5 DEF Up
    <2>8. \A y \in P : y # m => y > 0 /\ e[a[TH!Parent(y)]] > k /\ TH!Parent(y) \in P
      BY <1>5, <2>0, <2>5, <2>7 DEF Up
    <2>9. \A y \in P : y # i => \E x \in P : x # m /\ TH!Parent(x) = y
      BY <2>0, <2>5, <2>7 DEF Up
    <2>10. m > 0 => ~(e[a[TH!Parent(m)]] > k)
      BY <2>5 DEF Up
    <2>12. \A y \in Q : y # m => TH!Parent(y) # p
      <3> SUFFICES ASSUME NEW y \in Q, y # m PROVE TH!Parent(y) # p
        OBVIOUS
      <3>1. y \in Nat \ {0} /\ y <= p
        BY <2>1, <2>5 DEF Up
      <3>2. TH!Parent(y) \in Nat /\ TH!Parent(y) < y
        BY <3>1, ParentIs
      <3> QED
        BY <2>1, <3>1, <3>2
    <2>13. \A x, y \in P : x # m /\ y # m /\ TH!Parent(x) = TH!Parent(y) => x = y
      <3>1. \A x, y \in Q : x # m /\ y # m /\ TH!Parent(x) = TH!Parent(y) => x = y
        BY <2>5 DEF Up
      <3> QED
        BY <2>0, <2>12, <3>1
    <2>11. Up(a, e, k, P, i, m)
      BY <2>6, <2>8, <2>9, <2>10, <2>13 DEF Up
    <2> QED
      BY <1>3, <2>4, <2>11
  <1>6. CASE ~(i > 0 /\ e[a[p]] > k)
    <2>1. f[i] = {i}
      BY <1>4, <1>6
    <2>2. {i} \subseteq 0 .. i /\ i <= i
      BY <1>3
    <2>3. Up(a, e, k, {i}, i, i)
      BY <1>3, <1>6, <2>2 DEF Up
    <2> QED
      BY <1>3, <2>1, <2>3
  <1> QED
    BY <1>5, <1>6

Raised(a, t, P, m) == [i \in DOMAIN a |-> IF i \notin P THEN a[i] ELSE IF i = m THEN t ELSE a[TH!Parent(i)]]

(* Once the new timer stands at the top of its path the heap is ordered and*)
(* has one timer more.                                                     *)
LEMMA Risen ==
  ASSUME NEW a, NEW e, NEW n, NEW c, HeapAt(a, e, n, c), n < c, OrderedFrom(a, e, n, 0), NEW t \in Timers, t \notin Elements(a, n),
         NEW P, NEW m, Up(a, e, e[t], P, n, m), NEW b, b = Raised(a, t, P, m)
  PROVE  HeapAt(b, e, n + 1, c) /\ OrderedFrom(b, e, n + 1, 0) /\ Elements(b, n + 1) = Elements(a, n) \cup {t}
  <1> DEFINE U(i) == TH!Parent(i)
             o == [a EXCEPT ![n] = t]
             src == [i \in 0 .. n |-> IF i \notin P THEN i ELSE IF i = m THEN n ELSE U(i)]
  <1>1. /\ c \in Nat /\ n \in Nat /\ n <= c - 1
        /\ a \in [0 .. c - 1 -> Timers \cup {NULL}] /\ e \in [Timers -> Nat]
        /\ \A i \in 0 .. n - 1 : a[i] \in Timers
        /\ \A i, j \in 0 .. n - 1 : a[i] = a[j] => i = j
    BY DEF HeapAt
  <1>2. \A i \in 1 .. n : U(i) \in Nat /\ U(i) < i /\ (i = 2 * U(i) + 1 \/ i = 2 * U(i) + 2) /\ U(i) \in 0 .. n - 1 /\ U(i) \in 0 .. n
    <2> SUFFICES ASSUME NEW i \in 1 .. n
                 PROVE  U(i) \in Nat /\ U(i) < i /\ (i = 2 * U(i) + 1 \/ i = 2 * U(i) + 2) /\ U(i) \in 0 .. n - 1 /\ U(i) \in 0 .. n
      OBVIOUS
    <2>1. U(i) \in Nat /\ U(i) < i /\ (i = 2 * U(i) + 1 \/ i = 2 * U(i) + 2)
      BY <1>1, ParentIs
    <2> HIDE DEF U
    <2> QED
      BY <1>1, <2>1
  <1>3. /\ P \subseteq 0 .. n /\ n \in P /\ m \in P /\ \A j \in P : m <= j
        /\ m > 0 => ~(e[a[U(m)]] > e[t])
        /\ \A j \in P : j # m => j > 0 /\ e[a[U(j)]] > e[t] /\ U(j) \in P
        /\ \A j \in P : j # n => \E x \in P : x # m /\ U(x) = j
    BY DEF Up
  <1> HIDE DEF U
  <1>4. /\ \A i \in 0 .. n - 1 : o[i] = a[i]
        /\ o[n] = t
        /\ \A i \in 0 .. n : o[i] \in Timers
        /\ \A i, j \in 0 .. n : o[i] = o[j] => i = j
    <2>1. \A i \in 0 .. n - 1 : o[i] = a[i] /\ i # n
      BY <1>1
    <2>2. o[n] = t
      BY <1>1
    <2>3. \A i \in 0 .. n - 1 : a[i] # t
      BY DEF Elements
    <2> HIDE DEF o
    <2>4. \A i \in 0 .. n : i = n \/ i \in 0 .. n - 1
      BY <1>1
    <2> QED
      BY <1>1, <2>1, <2>2, <2>3, <2>4
  <1> HIDE DEF o
  <1>5. \A i \in P : i \in 0 .. n /\ (i # m => i \in 1 .. n /\ U(i) \in P /\ U(i) # n /\ U(i) \in 0 .. n - 1 /\ U(i) \in 0 .. n)
    BY <1>1, <1>2, <1>3
  <1>6. \A i \in 0 .. n : b[i] = IF i \notin P THEN a[i] ELSE IF i = m THEN t ELSE a[U(i)]
    BY <1>1 DEF Raised, U
  <1>7. \A i \in 0 .. n : src[i] = IF i \notin P THEN i ELSE IF i = m THEN n ELSE U(i)
    OBVIOUS
  <1> HIDE DEF src
  <1>8. ASSUME NEW i \in 0 .. n PROVE src[i] \in 0 .. n /\ b[i] = o[src[i]]
    <2>1. CASE i \notin P
      <3>1. i \in 0 .. n - 1
        BY <1>1, <1>3, <2>1
      <3> QED
        BY <1>4, <1>6, <1>7, <2>1, <3>1
    <2>2. CASE i \in P /\ i = m
      <3>1. src[i] = n /\ b[i] = t
        BY <1>6, <1>7, <2>2
      <3> QED
        BY <1>1, <1>4, <3>1
    <2>3. CASE i \in P /\ i # m
      BY <1>4, <1>5, <1>6, <1>7, <2>3
    <2> QED
      BY <2>1, <2>2, <2>3
  <1>9. \A i, j \in P : i # m /\ j # m /\ U(i) = U(j) => i = j
    BY DEF Up, U
  <1>10. \A i, j \in 0 .. n : src[i] = src[j] => i = j
    <2> SUFFICES ASSUME NEW i \in 0 .. n, NEW j \in 0 .. n, src[i] = src[j] PROVE i = j
      OBVIOUS
    <2>1. CASE i \notin P
      BY <1>3, <1>5, <1>7, <2>1
    <2>2. CASE j \notin P
      BY <1>3, <1>5, <1>7, <2>2
    <2>3. CASE i \in P /\ j \in P /\ (i = m \/ j = m)
      BY <1>5, <1>7, <2>3
    <2>4. CASE i \in P /\ j \in P /\ i # m /\ j # m
      BY <1>7, <1>9, <2>4
    <2> QED
      BY <2>1, <2>2, <2>3, <2>4
  <1>11. \A j \in 0 .. n : \E i \in 0 .. n : src[i] = j
    <2> SUFFICES ASSUME NEW j \in 0 .. n PROVE \E i \in 0 .. n : src[i] = j
      OBVIOUS
    <2>1. CASE j \notin P
      BY <1>7, <2>1
    <2>2. CASE j = n
      BY <1>3, <1>7, <2>2
    <2>3. CASE j \in P /\ j # n
      BY <1>3, <1>7, <2>3
    <2> QED
      BY <2>1, <2>2, <2>3
  <1>12. HeapAt(b, e, n + 1, c)
    <2>1. b = [i \in 0 .. c - 1 |-> IF i \notin P THEN a[i] ELSE IF i = m THEN t ELSE a[U(i)]]
      BY <1>1 DEF Raised, U
    <2>2. b \in [0 .. c - 1 -> Timers \cup {NULL}]
      <3>1. ASSUME NEW i \in 0 .. c - 1
            PROVE  (IF i \notin P THEN a[i] ELSE IF i = m THEN t ELSE a[U(i)]) \in Timers \cup {NULL}
        BY <1>1, <1>5
      <3> QED
        BY <2>1, <3>1
    <2>3. \A i \in 0 .. n : b[i] \in Timers
      BY <1>4, <1>8
    <2>4. ASSUME NEW i \in 0 .. n, NEW j \in 0 .. n, b[i] = b[j] PROVE i = j
      <3>1. src[i] \in 0 .. n /\ src[j] \in 0 .. n /\ o[src[i]] = o[src[j]]
        BY <1>8, <2>4
      <3>2. src[i] = src[j]
        BY <1>4, <3>1
      <3> QED
        BY <1>10, <3>2
    <2>5. n + 1 \in 0 .. c /\ (n + 1) - 1 = n
      BY <1>1
    <2> QED
      BY <1>1, <2>2, <2>3, <2>4, <2>5 DEF HeapAt
  <1>13. Elements(b, n + 1) = Elements(a, n) \cup {t}
    <2>1. \A x : x \in Elements(b, n + 1) <=> \E i \in 0 .. n : x = b[i]
      BY <1>1 DEF Elements
    <2>2. \A x : x \in Elements(a, n) \cup {t} <=> \E i \in 0 .. n : x = o[i]
      <3>1. \A i : i \in 0 .. n <=> i = n \/ i \in 0 .. n - 1
        BY <1>1
      <3> QED
        BY <1>4, <3>1 DEF Elements
    <2>3. \A x : (\E i \in 0 .. n : x = b[i]) => \E i \in 0 .. n : x = o[i]
      BY <1>8
    <2>4. \A x : (\E i \in 0 .. n : x = o[i]) => \E i \in 0 .. n : x = b[i]
      BY <1>8, <1>11
    <2> QED
      BY <2>1, <2>2, <2>3, <2>4
  <1>14. \A i \in 0 .. n : e[o[i]] \in Nat
    BY <1>1, <1>4
  <1>15. \A i \in 1 .. n - 1 : e[a[U(i)]] <= e[a[i]]
    <2>1. \A i \in 1 .. n - 1 : U(i) >= 0
      BY <1>1, <1>2
    <2> QED
      BY <2>1 DEF OrderedFrom, U
  <1>16. e[t] \in Nat /\ \A i \in 0 .. n - 1 : e[a[i]] \in Nat
    BY <1>1
  <1>17. ASSUME NEW i \in 1 .. n PROVE e[b[U(i)]] <= e[b[i]]
    <2> DEFINE p == U(i)
    <2>0. U(i) = p
      OBVIOUS
    <2>1. p \in Nat /\ p < i /\ p \in 0 .. n - 1 /\ p \in 0 .. n /\ i \in 0 .. n
      BY <1>1, <1>2
    <2> HIDE DEF p
    <2>2. i \in 0 .. n - 1 => i \in 1 .. n - 1
      BY <1>1
    <2>3. p > 0 => p \in 1 .. n - 1
      BY <1>1, <2>1
    <2>4. CASE i \notin P /\ p \notin P
      <3>1. i \in 1 .. n - 1
        BY <1>1, <1>3, <2>4
      <3>2. b[i] = a[i] /\ b[p] = a[p]
        BY <1>6, <2>1, <2>4
      <3> QED
        BY <1>15, <2>0, <3>1, <3>2
    <2>5. CASE i \notin P /\ p \in P
      <3>1. i \in 1 .. n - 1 /\ b[i] = a[i] /\ e[a[p]] <= e[a[i]]
        BY <1>1, <1>3, <1>6, <1>15, <2>0, <2>1, <2>5
      <3>2. i \in 0 .. n - 1 /\ e[a[i]] \in Nat /\ e[a[p]] \in Nat
        BY <1>1, <1>16, <2>1, <3>1
      <3>3. CASE p = m
        <4>1. b[p] = t
          BY <1>6, <2>1, <2>5, <3>3
        <4>2. p # n
          BY <1>1, <2>1
        <4>3. PICK x \in P : x # m /\ U(x) = p
          BY <1>3, <2>5, <4>2
        <4>4. e[a[p]] > e[t]
          BY <1>3, <4>3
        <4> QED
          BY <1>16, <2>0, <3>1, <3>2, <4>1, <4>4
      <3>4. CASE p # m
        <4>1. p \in 1 .. n - 1
          BY <1>3, <2>3, <2>5, <3>4
        <4>2. b[p] = a[U(p)] /\ e[a[U(p)]] <= e[a[p]]
          BY <1>6, <1>15, <2>1, <2>5, <3>4, <4>1
        <4>3. U(p) \in 0 .. n - 1
          BY <1>1, <1>2, <4>1
        <4>4. e[a[U(p)]] \in Nat
          BY <1>16, <4>3
        <4> QED
          BY <2>0, <3>1, <3>2, <4>2, <4>4
      <3> QED
        BY <3>3, <3>4
    <2>6. CASE i \in P /\ i # m
      <3>1. b[i] = a[p] /\ p \in P /\ e[a[p]] > e[t]
        BY <1>3, <1>6, <2>0, <2>1, <2>6
      <3>2. CASE p = m
        <4>1. b[p] = t
          BY <1>6, <2>1, <3>1, <3>2
        <4> QED
          BY <1>16, <2>0, <2>1, <3>1, <4>1
      <3>3. CASE p # m
        <4>1. p \in 1 .. n - 1
          BY <1>3, <2>3, <3>1, <3>3
        <4>2. b[p] = a[U(p)] /\ e[a[U(p)]] <= e[a[p]]
          BY <1>6, <1>15, <2>1, <3>1, <3>3, <4>1
        <4> QED
          BY <2>0, <3>1, <4>2
      <3> QED
        BY <3>2, <3>3
    <2>7. CASE i \in P /\ i = m
      <3>1. p \notin P /\ m > 0 /\ m \in 1 .. n
        BY <1>3, <2>1, <2>7
      <3>2. b[i] = t /\ b[p] = a[p]
        BY <1>6, <2>1, <2>7, <3>1
      <3>3. ~(e[a[p]] > e[t])
        BY <1>3, <2>0, <2>7, <3>1
      <3> QED
        BY <1>16, <2>0, <2>1, <3>2, <3>3
    <2> QED
      BY <2>4, <2>5, <2>6, <2>7
  <1>18. OrderedFrom(b, e, n + 1, 0)
    <2>1. (n + 1) - 1 = n
      BY <1>1
    <2> QED
      BY <1>17, <2>1 DEF OrderedFrom, U
  <1> QED
    BY <1>12, <1>13, <1>18

-----------------------------------------------------------------------------
(* The heap as a record of its four fields. *)
Hp(a, n, e, f) == [array |-> a, cur_size |-> n, expire |-> e, cb_func |-> f]

HpF(a, n, e, f) == [i \in {"array", "cur_size", "expire", "cb_func"} |->
                      IF i = "array" THEN a ELSE IF i = "cur_size" THEN n ELSE IF i = "expire" THEN e ELSE f]
(* A record is a function of its fields; what the updates of the code make *)
(* of the four.                                                            *)
LEMMA HpIs == ASSUME NEW a, NEW n, NEW e, NEW f PROVE Hp(a, n, e, f) = HpF(a, n, e, f)
BY DEF Hp, HpF
Set(f, x, v) == [f EXCEPT ![x] = v]
Refill(h, b, k) == [h EXCEPT !.cur_size = k, !.array = b]
Put(h, i, x, k) == [h EXCEPT !.array[i] = x, !.cur_size = k]
Timed(h, t, u, v) == [h EXCEPT !.expire[t] = u, !.cb_func[t] = v]
Left(h, i, x, t, u, v) == [h EXCEPT !.array[i] = x, !.expire[t] = u, !.cb_func[t] = v]
Cleared(h, t, v) == [h EXCEPT !.cb_func[t] = v]

Moves(a, n, e, f, b, k) == Refill(Hp(a, n, e, f), b, k) = Hp(b, k, e, f)
Puts(a, n, e, f, i, x, k) == Put(Hp(a, n, e, f), i, x, k) = Hp(Set(a, i, x), k, e, f)
Times(a, n, e, f, t, u, v) == Timed(Hp(a, n, e, f), t, u, v) = Hp(a, n, Set(e, t, u), Set(f, t, v))
Leaves(a, n, e, f, i, x, t, u, v) == Left(Hp(a, n, e, f), i, x, t, u, v) = Hp(Set(a, i, x), n, Set(e, t, u), Set(f, t, v))
Clears(a, n, e, f, t, v) == Cleared(Hp(a, n, e, f), t, v) = Hp(a, n, e, Set(f, t, v))

LEMMA HpMoved ==
  ASSUME NEW a, NEW n, NEW e, NEW f, NEW b, NEW k
  PROVE  Moves(a, n, e, f, b, k)
  <1> DEFINE h == Hp(a, n, e, f)
  <1>0. h = Hp(a, n, e, f) /\ h = HpF(a, n, e, f) /\ h.array = a /\ h.cur_size = n /\ h.expire = e /\ h.cb_func = f
    BY HpIs DEF Hp
  <1> HIDE DEF h
  <1>1. [h EXCEPT !.cur_size = k, !.array = b] = HpF(b, k, e, f)
    BY <1>0 DEF HpF
  <1> QED
    BY <1>0, <1>1, HpIs DEF Refill, Set, Moves

LEMMA HpPut ==
  ASSUME NEW a, NEW n, NEW e, NEW f, NEW i, NEW x, NEW k
  PROVE  Puts(a, n, e, f, i, x, k)
  <1> DEFINE h == Hp(a, n, e, f)
  <1>0. h = Hp(a, n, e, f) /\ h = HpF(a, n, e, f) /\ h.array = a /\ h.cur_size = n /\ h.expire = e /\ h.cb_func = f
    BY HpIs DEF Hp
  <1> HIDE DEF h
  <1> DEFINE b == [a EXCEPT ![i] = x]
  <1>1. [h EXCEPT !.array[i] = x, !.cur_size = k] = [h EXCEPT !.array = b, !.cur_size = k]
    BY <1>0
  <1> HIDE DEF b
  <1>2. [h EXCEPT !.array = b, !.cur_size = k] = HpF(b, k, e, f)
    BY <1>0 DEF HpF
  <1> QED
    BY <1>0, <1>1, <1>2, HpIs DEF b, Put, Set, Puts

LEMMA HpTimed ==
  ASSUME NEW a, NEW n, NEW e, NEW f, NEW t, NEW u, NEW v
  PROVE  Times(a, n, e, f, t, u, v)
  <1> DEFINE h == Hp(a, n, e, f)
  <1>0. h = Hp(a, n, e, f) /\ h = HpF(a, n, e, f) /\ h.array = a /\ h.cur_size = n /\ h.expire = e /\ h.cb_func = f
    BY HpIs DEF Hp
  <1> HIDE DEF h
  <1> DEFINE d == [e EXCEPT ![t] = u]
             g == [f EXCEPT ![t] = v]
  <1>1. [h EXCEPT !.expire[t] = u, !.cb_func[t] = v] = [h EXCEPT !.expire = d, !.cb_func = g]
    BY <1>0
  <1> HIDE DEF d, g
  <1>2. [h EXCEPT !.expire = d, !.cb_func = g] = HpF(a, n, d, g)
    BY <1>0 DEF HpF
  <1> QED
    BY <1>0, <1>1, <1>2, HpIs DEF d, g, Timed, Set, Times

LEMMA HpLeft ==
  ASSUME NEW a, NEW n, NEW e, NEW f, NEW i, NEW x, NEW t, NEW u, NEW v
  PROVE  Leaves(a, n, e, f, i, x, t, u, v)
  <1> DEFINE h == Hp(a, n, e, f)
  <1>0. h = Hp(a, n, e, f) /\ h = HpF(a, n, e, f) /\ h.array = a /\ h.cur_size = n /\ h.expire = e /\ h.cb_func = f
    BY HpIs DEF Hp
  <1> HIDE DEF h
  <1> DEFINE b == [a EXCEPT ![i] = x]
             d == [e EXCEPT ![t] = u]
             g == [f EXCEPT ![t] = v]
  <1>1. [h EXCEPT !.array[i] = x, !.expire[t] = u, !.cb_func[t] = v] = [h EXCEPT !.array = b, !.expire = d, !.cb_func = g]
    BY <1>0
  <1> HIDE DEF b, d, g
  <1>2. [h EXCEPT !.array = b, !.expire = d, !.cb_func = g] = HpF(b, n, d, g)
    BY <1>0 DEF HpF
  <1> QED
    BY <1>0, <1>1, <1>2, HpIs DEF b, d, g, Left, Set, Leaves

LEMMA HpCleared ==
  ASSUME NEW a, NEW n, NEW e, NEW f, NEW t, NEW v
  PROVE  Clears(a, n, e, f, t, v)
  <1> DEFINE h == Hp(a, n, e, f)
  <1>0. h = Hp(a, n, e, f) /\ h = HpF(a, n, e, f) /\ h.array = a /\ h.cur_size = n /\ h.expire = e /\ h.cb_func = f
    BY HpIs DEF Hp
  <1> HIDE DEF h
  <1> DEFINE g == [f EXCEPT ![t] = v]
  <1>1. [h EXCEPT !.cb_func[t] = v] = [h EXCEPT !.cb_func = g]
    BY <1>0
  <1> HIDE DEF g
  <1>2. [h EXCEPT !.cb_func = g] = HpF(a, n, e, g)
    BY <1>0 DEF HpF
  <1> QED
    BY <1>0, <1>1, <1>2, HpIs DEF g, Cleared, Set, Clears

(* The operators the module of the heap takes from the library, on the sets*)
(* it applies them to.                                                     *)
LEMMA SameCardinality == ASSUME NEW S PROVE TH!Cardinality(S) = Cardinality(S)
BY DEF TH!Cardinality, Cardinality

LEMMA CapacityIs ==
  ASSUME NEW a, NEW e, NEW n, NEW c, HeapAt(a, e, n, c), NEW f
  PROVE  TH!capacity(Hp(a, n, e, f)) = c
  <1>1. DOMAIN Hp(a, n, e, f).array = 0 .. c - 1 /\ c \in Nat
    BY DEF HeapAt, Hp
  <1>2. Cardinality(0 .. c - 1) = c
    BY <1>1, FS_Interval
  <1> QED
    BY <1>1, <1>2, SameCardinality DEF TH!capacity

LEMMA MaxIs ==
  ASSUME NEW P \in SUBSET Int, NEW m \in P, \A j \in P : j <= m
  PROVE  TH!Max(P) = m
  <1> DEFINE Is(x) == x \in P /\ \A y \in P : x >= y
  <1>1. Is(m) /\ \A x : Is(x) => x = m
    <2>1. m \in Int
      OBVIOUS
    <2>2. Is(m)
      OBVIOUS
    <2>3. ASSUME NEW x, Is(x) PROVE x = m
      <3>1. x \in Int /\ x \in P
        BY <2>3
      <3> QED
        BY <2>1, <2>3, <3>1
    <2> QED
      BY <2>2, <2>3
  <1>2. TH!Max(P) = CHOOSE x : Is(x)
    BY Zenon DEF TH!Max
  <1> HIDE DEF Is
  <1> QED
    BY <1>1, <1>2

LEMMA MinIs ==
  ASSUME NEW P \in SUBSET Int, NEW m \in P, \A j \in P : m <= j
  PROVE  TH!Min(P) = m
  <1> DEFINE Is(x) == x \in P /\ \A y \in P : x =< y
  <1>1. Is(m) /\ \A x : Is(x) => x = m
    <2>1. m \in Int
      OBVIOUS
    <2>2. Is(m)
      OBVIOUS
    <2>3. ASSUME NEW x, Is(x) PROVE x = m
      <3>1. x \in Int /\ x \in P
        BY <2>3
      <3> QED
        BY <2>1, <2>3, <3>1
    <2> QED
      BY <2>2, <2>3
  <1>2. TH!Min(P) = CHOOSE x : Is(x)
    BY Zenon DEF TH!Min
  <1> HIDE DEF Is
  <1> QED
    BY <1>1, <1>2

(* percolate_down orders from its hole on, if the places after it are      *)
(* ordered.                                                                *)
LEMMA PercolateDown ==
  ASSUME NEW a, NEW e, NEW n, NEW c, HeapAt(a, e, n, c), NEW f, NEW hole \in 0 .. n - 1, OrderedFrom(a, e, n, hole + 1)
  PROVE  \E b : /\ TH!percolate_down(Hp(a, n, e, f), hole) = Hp(b, n, e, f)
               /\ HeapAt(b, e, n, c) /\ OrderedFrom(b, e, n, hole) /\ Elements(b, n) = Elements(a, n)
  <1> DEFINE h == Hp(a, n, e, f)
             temp == a[hole]
  <1>1. h.array = a /\ h.cur_size = n /\ h.expire = e /\ DOMAIN h.array = DOMAIN a
    BY DEF Hp
  <1>2. c \in Nat /\ n \in 0 .. c /\ DOMAIN a = 0 .. c - 1 /\ temp \in Timers
    BY DEF HeapAt
  <1>3. \A i \in Nat : TH!Child(h, i) = Kid(a, e, n, i)
    BY <1>1, <1>2 DEF TH!Child, Kid
  <1> DEFINE Eq(g) == g = [i \in DOMAIN h.array |->
                            IF 2 * i + 1 <= h.cur_size - 1 /\ h.expire[h.array[TH!Child(h, i)]] < h.expire[h.array[hole]]
                            THEN {i} \cup g[TH!Child(h, i)] ELSE {i}]
             Holes == CHOOSE g : Eq(g)
  <1>4. TH!percolate_down(h, hole) =
          [h EXCEPT !.array = [i \in DOMAIN @ |->
              IF i \notin Holes[hole] THEN @[i] ELSE IF i = TH!Max(Holes[hole]) THEN h.array[hole] ELSE @[TH!Child(h, i)]]]
    BY DEF TH!percolate_down
  <1> HIDE DEF h
  <1>5. ASSUME NEW g PROVE Eq(g) <=> DownEq(a, e, n, c, temp, g, 0)
    <2>1. \A i \in 0 .. c - 1 : TH!Child(h, i) = Kid(a, e, n, i)
      BY <1>3
    <2>2. h.array[hole] = temp
      BY <1>1
    <2> HIDE DEF temp
    <2>3. [i \in DOMAIN h.array |->
              IF 2 * i + 1 <= h.cur_size - 1 /\ h.expire[h.array[TH!Child(h, i)]] < h.expire[h.array[hole]]
              THEN {i} \cup g[TH!Child(h, i)] ELSE {i}]
          = [i \in 0 .. c - 1 |-> IF 2 * i + 1 <= n - 1 /\ e[a[Kid(a, e, n, i)]] < e[temp]
                                 THEN {i} \cup g[Kid(a, e, n, i)] ELSE {i}]
      BY <1>1, <1>2, <2>1, <2>2
    <2> QED
      BY <2>3 DEF DownEq
  <1>6. \E g : DownEq(a, e, n, c, temp, g, 0)
    BY <1>2, DownExists
  <1>7. DownEq(a, e, n, c, temp, Holes, 0)
    BY <1>5, <1>6
  <1> HIDE DEF Holes
  <1>8. PICK m : Down(a, e, n, temp, Holes[hole], hole, m)
    BY <1>2, <1>7, DownIs
  <1> DEFINE P == Holes[hole]
             b == Moved(a, e, n, temp, P, m)
  <1>9. TH!Max(P) = m
    <2>1. P \in SUBSET Int /\ m \in P /\ \A j \in P : j <= m
      BY <1>2, <1>8 DEF Down
    <2> QED
      BY <2>1, MaxIs
  <1> HIDE DEF P
  <1>10. TH!percolate_down(h, hole) = [h EXCEPT !.array = b]
    <2>1. \A i \in DOMAIN a : i \in Nat
      BY <1>2
    <2> QED
      BY <1>1, <1>3, <1>4, <1>9, <2>1 DEF Moved, P
  <1>11. [h EXCEPT !.array = b] = Hp(b, n, e, f)
    BY DEF h, Hp
  <1>12. Down(a, e, n, a[hole], P, hole, m)
    BY <1>8 DEF P
  <1>13. HeapAt(b, e, n, c) /\ OrderedFrom(b, e, n, hole) /\ Elements(b, n) = Elements(a, n)
    BY <1>12, Sifted
  <1> QED
    BY <1>10, <1>11, <1>13 DEF h

(* resize doubles the room and keeps the heap. *)
LEMMA Resize ==
  ASSUME NEW a, NEW e, NEW n, NEW c, HeapAt(a, e, n, c), NEW f, OrderedFrom(a, e, n, 0)
  PROVE  \E b : /\ TH!resize(Hp(a, n, e, f)) = Hp(b, n, e, f)
               /\ HeapAt(b, e, n, 2 * c) /\ OrderedFrom(b, e, n, 0) /\ Elements(b, n) = Elements(a, n)
  <1> DEFINE h == Hp(a, n, e, f)
             b == [i \in 0 .. 2 * c - 1 |-> IF i < n THEN a[i] ELSE NULL]
  <1>1. h.array = a /\ h.cur_size = n
    BY DEF Hp
  <1>2. /\ c \in Nat /\ n \in 0 .. c /\ n \in Nat /\ a \in [0 .. c - 1 -> Timers \cup {NULL}] /\ e \in [Timers -> Nat]
        /\ \A i \in 0 .. n - 1 : a[i] \in Timers
        /\ \A i, j \in 0 .. n - 1 : a[i] = a[j] => i = j
    BY DEF HeapAt
  <1>3. TH!resize(h) = [h EXCEPT !.array = b]
    <2>1. TH!capacity(h) = c
      BY CapacityIs
    <2> HIDE DEF h
    <2> QED
      BY <1>1, <2>1 DEF TH!resize
  <1>5. \A i \in 0 .. n - 1 : b[i] = a[i] /\ i \in 0 .. 2 * c - 1
    BY <1>2
  <1>6. b \in [0 .. 2 * c - 1 -> Timers \cup {NULL}]
    BY <1>2
  <1> HIDE DEF b
  <1>4. [h EXCEPT !.array = b] = Hp(b, n, e, f)
    BY DEF Hp
  <1>7. 2 * c \in Nat /\ n \in 0 .. 2 * c
    BY <1>2
  <1>8. HeapAt(b, e, n, 2 * c)
    BY <1>2, <1>5, <1>6, <1>7 DEF HeapAt
  <1>9. \A i \in 1 .. n - 1 : i \in 0 .. n - 1 /\ TH!Parent(i) \in 0 .. n - 1
    <2> SUFFICES ASSUME NEW i \in 1 .. n - 1 PROVE TH!Parent(i) \in 0 .. n - 1
      BY <1>2
    <2>1. TH!Parent(i) \in Nat /\ TH!Parent(i) < i
      BY <1>2, ParentIs
    <2> QED
      BY <1>2, <2>1
  <1>10. OrderedFrom(b, e, n, 0)
    BY <1>5, <1>9 DEF OrderedFrom
  <1>11. Elements(b, n) = Elements(a, n)
    BY <1>5 DEF Elements
  <1> HIDE DEF h
  <1> QED
    BY <1>3, <1>4, <1>8, <1>10, <1>11 DEF h

(* add_timer, once there is room. *)
AddTo(r, t) ==
    LET Holes[i \in DOMAIN r.array] ==
            IF i > 0 /\ r.expire[r.array[TH!Parent(i)]] > r.expire[t]
            THEN {i} \cup Holes[TH!Parent(i)] ELSE {i}
        holes == Holes[r.cur_size]
    IN  [r EXCEPT !.cur_size = @ + 1,
                  !.array = [i \in DOMAIN @ |-> IF i \notin holes THEN @[i]
                                               ELSE IF i = TH!Min(holes) THEN t ELSE @[TH!Parent(i)]]]

LEMMA AddTimerIs ==
  ASSUME NEW h, NEW t
  PROVE  TH!add_timer(h, t) = AddTo(IF h.cur_size >= TH!capacity(h) THEN TH!resize(h) ELSE h, t)
BY Zenon DEF TH!add_timer, AddTo

(* add_timer puts a timer that is not held into an ordered heap. *)
LEMMA AddInRoom ==
  ASSUME NEW a, NEW e, NEW n, NEW c, HeapAt(a, e, n, c), NEW f, OrderedFrom(a, e, n, 0), n < c,
         NEW t \in Timers, t \notin Elements(a, n)
  PROVE  \E b : /\ AddTo(Hp(a, n, e, f), t) = Hp(b, n + 1, e, f)
               /\ HeapAt(b, e, n + 1, c) /\ OrderedFrom(b, e, n + 1, 0) /\ Elements(b, n + 1) = Elements(a, n) \cup {t}
  <1> DEFINE r == Hp(a, n, e, f)
             Eq(g) == g = [i \in DOMAIN r.array |->
                            IF i > 0 /\ r.expire[r.array[TH!Parent(i)]] > r.expire[t]
                            THEN {i} \cup g[TH!Parent(i)] ELSE {i}]
             Holes == CHOOSE g : Eq(g)
  <1>1. r.array = a /\ r.cur_size = n /\ r.expire = e
    BY DEF Hp
  <1>2. c \in Nat /\ n \in 0 .. c - 1 /\ n \in Nat /\ DOMAIN a = 0 .. c - 1
    BY DEF HeapAt
  <1>3. AddTo(r, t) =
          [r EXCEPT !.cur_size = @ + 1,
                    !.array = [i \in DOMAIN @ |-> IF i \notin Holes[r.cur_size] THEN @[i]
                                 ELSE IF i = TH!Min(Holes[r.cur_size]) THEN t ELSE @[TH!Parent(i)]]]
    BY DEF AddTo
  <1> HIDE DEF r
  <1>4. ASSUME NEW g PROVE Eq(g) <=> UpEq(a, e, e[t], g, c)
    BY <1>1, <1>2 DEF UpEq
  <1>5. \E g : UpEq(a, e, e[t], g, c)
    BY <1>2, UpExists
  <1>6. UpEq(a, e, e[t], Holes, c)
    BY <1>4, <1>5
  <1> HIDE DEF Holes
  <1>7. PICK m : Up(a, e, e[t], Holes[n], n, m)
    BY <1>2, <1>6, UpIs
  <1> DEFINE P == Holes[n]
             b == Raised(a, t, P, m)
  <1>8. TH!Min(P) = m
    <2>1. P \in SUBSET Int /\ m \in P /\ \A j \in P : m <= j
      BY <1>2, <1>7 DEF Up
    <2> QED
      BY <2>1, MinIs
  <1>9. Up(a, e, e[t], P, n, m)
    BY <1>7
  <1> HIDE DEF P
  <1>10. AddTo(r, t) = [r EXCEPT !.cur_size = n + 1, !.array = b]
    BY <1>1, <1>3, <1>8 DEF Raised, P
  <1>12. HeapAt(b, e, n + 1, c) /\ OrderedFrom(b, e, n + 1, 0) /\ Elements(b, n + 1) = Elements(a, n) \cup {t}
    BY <1>2, <1>9, Risen
  <1> HIDE DEF b
  <1>11. [r EXCEPT !.cur_size = n + 1, !.array = b] = Hp(b, n + 1, e, f)
    <2>1. r = Hp(a, n, e, f)
      BY DEF r
    <2>2. Moves(a, n, e, f, b, n + 1)
      BY HpMoved, Zenon
    <2> QED
      BY <2>1, <2>2, Zenon DEF Moves, Refill
  <1> QED
    BY <1>10, <1>11, <1>12 DEF r

(* add_timer, which resizes a full heap first. *)
LEMMA AddTimer ==
  ASSUME NEW a, NEW e, NEW n, NEW c, HeapAt(a, e, n, c), NEW f, OrderedFrom(a, e, n, 0), c > 0,
         NEW t \in Timers, t \notin Elements(a, n)
  PROVE  \E b, d : /\ TH!add_timer(Hp(a, n, e, f), t) = Hp(b, n + 1, e, f) /\ d > 0
                  /\ HeapAt(b, e, n + 1, d) /\ OrderedFrom(b, e, n + 1, 0) /\ Elements(b, n + 1) = Elements(a, n) \cup {t}
  <1>1. c \in Nat /\ n \in 0 .. c /\ n \in Nat
    BY DEF HeapAt
  <1> DEFINE h == Hp(a, n, e, f)
  <1>4. TH!capacity(h) = c /\ h.cur_size = n
    BY CapacityIs DEF Hp
  <1>2. CASE n < c
    <2>1. \E b : /\ AddTo(h, t) = Hp(b, n + 1, e, f)
                /\ HeapAt(b, e, n + 1, c) /\ OrderedFrom(b, e, n + 1, 0) /\ Elements(b, n + 1) = Elements(a, n) \cup {t}
      BY <1>2, AddInRoom
    <2> HIDE DEF h
    <2>2. ~(h.cur_size >= TH!capacity(h))
      BY <1>1, <1>2, <1>4
    <2>3. TH!add_timer(h, t) = AddTo(h, t)
      BY <2>2, AddTimerIs
    <2> QED
      BY <2>1, <2>3 DEF h
  <1>3. CASE ~(n < c)
    <2>1. PICK b : TH!resize(h) = Hp(b, n, e, f) /\ HeapAt(b, e, n, 2 * c) /\ OrderedFrom(b, e, n, 0) /\ Elements(b, n) = Elements(a, n)
      BY Resize
    <2> DEFINE r == Hp(b, n, e, f)
    <2>4. TH!resize(h) = r
      BY <2>1
    <2> HIDE DEF h, r
    <2>5. h.cur_size >= TH!capacity(h)
      BY <1>1, <1>3, <1>4
    <2>6. TH!add_timer(h, t) = AddTo(r, t)
      BY <2>4, <2>5, AddTimerIs
    <2>7. n < 2 * c /\ 2 * c > 0
      BY <1>1, <1>3
    <2>8. \E d : AddTo(r, t) = Hp(d, n + 1, e, f) /\ HeapAt(d, e, n + 1, 2 * c) /\ OrderedFrom(d, e, n + 1, 0)
                 /\ Elements(d, n + 1) = Elements(b, n) \cup {t}
      BY <2>1, <2>7, AddInRoom DEF r
    <2> QED
      BY <2>1, <2>6, <2>7, <2>8 DEF h
  <1> QED
    BY <1>2, <1>3

(* The first timer of a heap is one of those that expire first. *)
LEMMA FirstExpires ==
  ASSUME NEW a, NEW e, NEW n, NEW c, HeapAt(a, e, n, c), OrderedFrom(a, e, n, 0), NEW i \in 0 .. n - 1
  PROVE  e[a[0]] <= e[a[i]]
  <1> DEFINE S == {j \in 0 .. n - 1 : ~(e[a[0]] <= e[a[j]])}
  <1> SUFFICES ASSUME S # {} PROVE FALSE
    OBVIOUS
  <1>1. S \in SUBSET Nat
    OBVIOUS
  <1>2. PICK j \in S : \A y \in S : j <= y
    BY <1>1, Least
  <1>3. n \in Nat /\ j \in 0 .. n - 1 /\ ~(e[a[0]] <= e[a[j]]) /\ \A k \in 0 .. n - 1 : e[a[k]] \in Nat
    BY <1>2 DEF HeapAt
  <1>4. j # 0 /\ j \in 1 .. n - 1 /\ j \in Nat \ {0} /\ 0 \in 0 .. n - 1
    BY <1>3
  <1> DEFINE p == TH!Parent(j)
  <1>5. p \in Nat /\ p < j
    BY <1>4, ParentIs
  <1>6. TH!Parent(j) >= 0 => e[a[p]] <= e[a[j]]
    BY <1>4 DEF OrderedFrom
  <1> HIDE DEF p
  <1>7. p \in 0 .. n - 1 /\ p \notin S
    BY <1>2, <1>3, <1>5
  <1>8. e[a[0]] <= e[a[p]]
    BY <1>7
  <1>9. e[a[p]] <= e[a[j]]
    BY <1>5, <1>6 DEF p
  <1> QED
    BY <1>3, <1>4, <1>7, <1>8, <1>9

PopsTo(a, e, n, c, f) ==
    \E b : LET d == [e EXCEPT ![a[0]] = 0] IN
           /\ TH!pop_timer(Hp(a, n, e, f)) = Hp(b, n - 1, d, [f EXCEPT ![a[0]] = FALSE])
           /\ HeapAt(b, d, n - 1, c) /\ OrderedFrom(b, d, n - 1, 0)
           /\ Elements(b, n - 1) = Elements(a, n) \ {a[0]}

(* pop_timer takes the first timer and leaves an ordered heap of the       *)
(* others.                                                                 *)
LEMMA PopTimer ==
  ASSUME NEW a, NEW e, NEW n, NEW c, HeapAt(a, e, n, c), NEW f, OrderedFrom(a, e, n, 0), n > 0
  PROVE  PopsTo(a, e, n, c, f)
  <1> DEFINE h == Hp(a, n, e, f)
             last == n - 1
             o == [a EXCEPT ![0] = a[last]]
  <1>1. h.array = a /\ h.cur_size = n
    BY DEF Hp
  <1>2. /\ c \in Nat /\ n \in Nat /\ n <= c /\ a \in [0 .. c - 1 -> Timers \cup {NULL}] /\ e \in [Timers -> Nat]
        /\ \A i \in 0 .. n - 1 : a[i] \in Timers
        /\ \A i, j \in 0 .. n - 1 : a[i] = a[j] => i = j
    BY DEF HeapAt
  <1>3. [h EXCEPT !.array[0] = h.array[last], !.cur_size = last] = Hp(o, last, e, f)
    <2> DEFINE x == a[last]
    <2>1. h = Hp(a, n, e, f) /\ h.array[last] = x
      BY <1>1
    <2> HIDE DEF h, last, x
    <2>2. Puts(a, n, e, f, 0, x, last)
      BY HpPut, Zenon
    <2>3. Put(h, 0, x, last) = [h EXCEPT !.array[0] = x, !.cur_size = last]
      BY Zenon DEF Put
    <2>4. Set(a, 0, x) = [a EXCEPT ![0] = a[last]]
      BY Zenon DEF Set, x
    <2> QED
      BY <2>1, <2>2, <2>3, <2>4, Zenon DEF Puts
  <1>4. last \in Nat /\ n = last + 1 /\ last <= c - 1 /\ last \in 0 .. c - 1 /\ 0 \in 0 .. c - 1 /\ 0 \in 0 .. n - 1 /\ last \in 0 .. n - 1
    BY <1>2
  <1> HIDE DEF last
  <1>5. o[0] = a[last] /\ \A i \in 1 .. last - 1 : o[i] = a[i] /\ i \in 0 .. n - 1 /\ i # last
    BY <1>2, <1>4
  <1>6. HeapAt(o, e, last, c)
    <2>1. \A i \in 0 .. last - 1 : i = 0 \/ i \in 1 .. last - 1
      BY <1>4
    <2>2. o \in [0 .. c - 1 -> Timers \cup {NULL}]
      BY <1>2, <1>4
    <2> HIDE DEF o
    <2>3. \A i \in 0 .. last - 1 : o[i] \in Timers
      BY <1>2, <1>4, <1>5, <2>1
    <2>4. \A i, j \in 0 .. last - 1 : o[i] = o[j] => i = j
      BY <1>2, <1>4, <1>5, <2>1
    <2>5. last \in 0 .. c
      BY <1>2, <1>4
    <2> QED
      BY <1>2, <2>2, <2>3, <2>4, <2>5 DEF HeapAt
  <1>7. OrderedFrom(o, e, last, 1)
    <2> HIDE DEF o
    <2> SUFFICES ASSUME NEW i \in 1 .. last - 1, TH!Parent(i) >= 1 PROVE e[o[TH!Parent(i)]] <= e[o[i]]
      BY DEF OrderedFrom
    <2> DEFINE p == TH!Parent(i)
    <2>1. p \in Nat /\ p < i /\ p >= 1
      BY <1>4, ParentIs
    <2>2. i \in 1 .. n - 1
      BY <1>4
    <2>3. e[a[p]] <= e[a[i]]
      BY <2>1, <2>2 DEF OrderedFrom
    <2>4. TH!Parent(i) = p
      OBVIOUS
    <2> HIDE DEF p
    <2>5. p \in 1 .. last - 1
      BY <1>4, <2>1
    <2> QED
      BY <1>5, <2>3, <2>4, <2>5
  <1>8. Elements(o, last) = Elements(a, n) \ {a[0]}
    <2>1. \A x : x \in Elements(o, last) <=> \E i \in 0 .. last - 1 : x = o[i]
      BY DEF Elements
    <2>2. \A x : x \in Elements(a, n) <=> \E i \in 0 .. n - 1 : x = a[i]
      BY DEF Elements
    <2> HIDE DEF o
    <2>3. \A i \in 0 .. last - 1 : i = 0 \/ i \in 1 .. last - 1
      BY <1>4
    <2>4. ASSUME NEW x, NEW i \in 0 .. last - 1, x = o[i] PROVE x \in Elements(a, n) /\ x # a[0]
      <3>1. CASE i = 0
        BY <1>2, <1>4, <1>5, <2>2, <2>4, <3>1
      <3>2. CASE i \in 1 .. last - 1
        BY <1>2, <1>4, <1>5, <2>2, <2>4, <3>2
      <3> QED
        BY <2>3, <3>1, <3>2
    <2>5. ASSUME NEW x, NEW i \in 0 .. n - 1, x = a[i], x # a[0] PROVE x \in Elements(o, last)
      <3>1. CASE i = last
        <4>1. 0 \in 0 .. last - 1
          BY <1>4, <2>5, <3>1
        <4> QED
          BY <1>5, <2>1, <2>5, <3>1, <4>1
      <3>2. CASE i # last
        <4>1. i \in 1 .. last - 1 /\ i \in 0 .. last - 1
          BY <1>4, <2>5, <3>2
        <4> QED
          BY <1>5, <2>1, <2>5, <4>1
      <3> QED
        BY <3>1, <3>2
    <2> QED
      BY <2>1, <2>2, <2>4, <2>5
  <1> DEFINE moved == Hp(o, last, e, f)
             down == IF last = 0 THEN moved ELSE TH!percolate_down(moved, 0)
  <1>9. \E b : /\ down = Hp(b, last, e, f)
               /\ HeapAt(b, e, last, c) /\ OrderedFrom(b, e, last, 0) /\ Elements(b, last) = Elements(o, last)
    <2> HIDE DEF o
    <2>1. CASE last = 0
      <3>1. OrderedFrom(o, e, last, 0)
        BY <2>1 DEF OrderedFrom
      <3> QED
        BY <1>6, <2>1, <3>1
    <2>2. CASE last # 0
      <3>1. 0 \in 0 .. last - 1 /\ OrderedFrom(o, e, last, 0 + 1)
        BY <1>4, <1>7, <2>2
      <3> QED
        BY <1>6, <2>2, <3>1, PercolateDown
    <2> QED
      BY <2>1, <2>2
  <1>10. TH!pop_timer(h) = [down EXCEPT !.array[last] = NULL, !.expire[h.array[0]] = 0, !.cb_func[h.array[0]] = FALSE]
    <2>1. h.cur_size - 1 = last
      BY <1>1 DEF last
    <2> HIDE DEF h, o
    <2> QED
      BY <1>3, <2>1 DEF TH!pop_timer
  <1> HIDE DEF down
  <1>11. PICK b : /\ down = Hp(b, last, e, f)
                 /\ HeapAt(b, e, last, c) /\ OrderedFrom(b, e, last, 0) /\ Elements(b, last) = Elements(o, last)
    BY <1>9
  <1> DEFINE r == a[0]
             d == [e EXCEPT ![r] = 0]
             g == [f EXCEPT ![r] = FALSE]
             z == [b EXCEPT ![last] = NULL]
  <1>12. TH!pop_timer(h) = Hp(z, last, d, g)
    <2>1. down = Hp(b, last, e, f) /\ h.array[0] = r
      BY <1>1, <1>11
    <2> HIDE DEF h, r, o
    <2>2. Leaves(b, last, e, f, last, NULL, r, 0, FALSE)
      BY HpLeft, Zenon
    <2>3. Left(down, last, NULL, r, 0, FALSE) = [down EXCEPT !.array[last] = NULL, !.expire[r] = 0, !.cb_func[r] = FALSE]
      BY Zenon DEF Left
    <2>4. Set(b, last, NULL) = z /\ Set(e, r, 0) = d /\ Set(f, r, FALSE) = g
      BY Zenon DEF Set
    <2> QED
      BY <1>10, <2>1, <2>2, <2>3, <2>4, Zenon DEF Leaves
  <1>13. Elements(b, last) = Elements(a, n) \ {r}
    BY <1>8, <1>11
  <1>14. \A i \in 0 .. last - 1 : z[i] = b[i] /\ b[i] \in Timers /\ b[i] # r /\ d[b[i]] = e[b[i]]
    <2> HIDE DEF r, o
    <2>1. b \in [0 .. c - 1 -> Timers \cup {NULL}] /\ \A i \in 0 .. last - 1 : b[i] \in Timers
      BY <1>11 DEF HeapAt
    <2>2. \A i \in 0 .. last - 1 : b[i] \in Elements(b, last)
      BY DEF Elements
    <2>3. \A i \in 0 .. last - 1 : b[i] # r /\ i # last
      BY <1>4, <1>13, <2>2
    <2> QED
      BY <1>2, <2>1, <2>3
  <1>15. HeapAt(z, d, last, c)
    <2>1. z \in [0 .. c - 1 -> Timers \cup {NULL}]
      BY <1>4, <1>11 DEF HeapAt
    <2>2. d \in [Timers -> Nat]
      BY <1>2, <1>4
    <2>3. \A i, j \in 0 .. last - 1 : b[i] = b[j] => i = j
      BY <1>11 DEF HeapAt
    <2>4. last \in 0 .. c
      BY <1>2, <1>4
    <2> HIDE DEF z, d, r
    <2> QED
      BY <1>2, <1>14, <2>1, <2>2, <2>3, <2>4 DEF HeapAt
  <1>16. OrderedFrom(z, d, last, 0)
    <2> HIDE DEF z, d, r
    <2>1. ASSUME NEW i \in 1 .. last - 1 PROVE i \in 0 .. last - 1 /\ TH!Parent(i) \in 0 .. last - 1
      <3>1. TH!Parent(i) \in Nat /\ TH!Parent(i) < i
        BY <1>4, ParentIs
      <3> QED
        BY <1>4, <3>1
    <2> QED
      BY <1>11, <1>14, <2>1 DEF OrderedFrom
  <1>17. Elements(z, last) = Elements(a, n) \ {r}
    BY <1>13, <1>14 DEF Elements
  <1> HIDE DEF h, z
  <1> QED
    BY <1>12, <1>15, <1>16, <1>17 DEF h, last, PopsTo

(* tick: the heaps that 0, 1, .. m pops lead to. *)
AfterEq(h, g, m) == g = [k \in 0 .. m |-> IF k = 0 THEN h ELSE TH!pop_timer(g[k - 1])]

(* The function behind the loop of tick exists. *)
LEMMA AfterExists ==
  ASSUME NEW h, NEW n \in Nat
  PROVE  \E g : AfterEq(h, g, n)
  <1> DEFINE S == {j \in Nat : ~\E g : AfterEq(h, g, j)}
  <1> SUFFICES ASSUME S # {} PROVE FALSE
    OBVIOUS
  <1>1. PICK j \in S : \A y \in S : j <= y
    BY Least
  <1>2. CASE j = 0
    <2> DEFINE f == [k \in 0 .. 0 |-> h]
    <2>1. f = [k \in 0 .. 0 |-> IF k = 0 THEN h ELSE TH!pop_timer(f[k - 1])]
      OBVIOUS
    <2> HIDE DEF f
    <2>2. AfterEq(h, f, 0)
      BY <2>1 DEF AfterEq
    <2> QED
      BY <1>1, <1>2, <2>2
  <1>3. CASE j # 0
    <2>1. j - 1 \in Nat /\ j - 1 \notin S /\ j \in Nat
      BY <1>1, <1>3
    <2>2. PICK g : AfterEq(h, g, j - 1)
      BY <2>1
    <2> DEFINE V(f, k) == IF k = 0 THEN h ELSE TH!pop_timer(f[k - 1])
               f == [k \in 0 .. j |-> IF k = j THEN V(g, j) ELSE g[k]]
    <2>3. \A k \in 0 .. j - 1 : g[k] = V(g, k)
      BY <2>2 DEF AfterEq
    <2>4. \A k \in 0 .. j : k > 0 => k - 1 \in 0 .. j - 1
      BY <2>1
    <2> HIDE DEF V, S
    <2>5. f[j] = V(g, j) /\ \A k \in 0 .. j - 1 : f[k] = g[k]
      BY <2>1
    <2> HIDE DEF f
    <2>6. \A k \in 0 .. j : V(f, k) = V(g, k)
      BY <2>4, <2>5 DEF V
    <2>7. \A k \in 0 .. j : k = j \/ k \in 0 .. j - 1
      BY <2>1
    <2>8. \A k \in 0 .. j : f[k] = V(f, k)
      BY <2>3, <2>5, <2>6, <2>7
    <2>9. f = [k \in 0 .. j |-> f[k]]
      BY DEF f
    <2>10. f = [k \in 0 .. j |-> V(f, k)]
      BY <2>8, <2>9, Zenon
    <2>11. AfterEq(h, f, j)
      BY <2>10 DEF AfterEq, V
    <2> QED
      BY <1>1, <2>11 DEF S
  <1> QED
    BY <1>2, <1>3

(* After k pops of a heap with n timers at a, which expire at e. *)
Popped(a, e, n, c, f, k, h) ==
    \E b, d, g :
       /\ h = Hp(b, n - k, d, g) /\ HeapAt(b, d, n - k, c) /\ OrderedFrom(b, d, n - k, 0)
       /\ g \in [Timers -> BOOLEAN] /\ Elements(b, n - k) \subseteq Elements(a, n)
       /\ \A t \in Elements(b, n - k) : d[t] = e[t] /\ g[t] = f[t]

(* A pop is one more of them, and takes the first timer. *)
LEMMA PoppedOnce ==
  ASSUME NEW a, NEW e, NEW n, NEW c, NEW f, NEW k \in Nat, k < n, n \in Nat, NEW h, Popped(a, e, n, c, f, k, h)
  PROVE  /\ Popped(a, e, n, c, f, k + 1, TH!pop_timer(h))
         /\ TH!Held(h) \ TH!Held(TH!pop_timer(h)) = {h.array[0]} /\ h.array[0] \in TH!Held(h)
  <1>1. PICK b, d, g :
           /\ h = Hp(b, n - k, d, g) /\ HeapAt(b, d, n - k, c) /\ OrderedFrom(b, d, n - k, 0)
           /\ g \in [Timers -> BOOLEAN] /\ Elements(b, n - k) \subseteq Elements(a, n)
           /\ \A t \in Elements(b, n - k) : d[t] = e[t] /\ g[t] = f[t]
    BY DEF Popped
  <1> DEFINE m == n - k
             r == b[0]
             x == [d EXCEPT ![r] = 0]
             y == [g EXCEPT ![r] = FALSE]
  <1>2. m \in Nat /\ m > 0 /\ n - (k + 1) = m - 1
    OBVIOUS
  <1> HIDE DEF m
  <1>3. h = Hp(b, m, d, g) /\ HeapAt(b, d, m, c) /\ OrderedFrom(b, d, m, 0)
    BY <1>1 DEF m
  <1>4. PICK z : /\ TH!pop_timer(h) = Hp(z, m - 1, x, y)
                 /\ HeapAt(z, x, m - 1, c) /\ OrderedFrom(z, x, m - 1, 0)
                 /\ Elements(z, m - 1) = Elements(b, m) \ {r}
    <2>1. PopsTo(b, d, m, c, g)
      BY <1>2, <1>3, PopTimer, Zenon
    <2> QED
      BY <1>3, <2>1 DEF PopsTo
  <1>5. \A t \in Elements(b, m) : t \in Timers
    BY <1>3 DEF Elements, HeapAt
  <1>6. y \in [Timers -> BOOLEAN]
    BY <1>1
  <1>7. \A t \in Elements(z, m - 1) : x[t] = d[t] /\ y[t] = g[t]
    <2>1. d \in [Timers -> Nat]
      BY <1>3 DEF HeapAt
    <2> QED
      BY <1>1, <1>4, <1>5, <2>1
  <1>8. r \in Elements(b, m)
    BY <1>2 DEF Elements
  <1>9. TH!Held(h) = Elements(b, m) /\ h.array[0] = r
    BY <1>3 DEF TH!Held, Elements, Hp
  <1>10. TH!Held(TH!pop_timer(h)) = Elements(z, m - 1)
    <2> DEFINE q == Hp(z, m - 1, x, y)
    <2>1. q.array = z /\ q.cur_size = m - 1
      BY DEF Hp
    <2> HIDE DEF q
    <2>2. TH!Held(q) = Elements(z, m - 1)
      BY <2>1 DEF TH!Held, Elements
    <2> QED
      BY <1>4, <2>2 DEF q
  <1> HIDE DEF x, y, r
  <1>11. /\ Elements(z, m - 1) \subseteq Elements(a, n)
         /\ \A t \in Elements(z, m - 1) : x[t] = e[t] /\ y[t] = f[t]
    BY <1>1, <1>4, <1>7 DEF m
  <1>12. Popped(a, e, n, c, f, k + 1, TH!pop_timer(h))
    BY <1>2, <1>4, <1>6, <1>11 DEF Popped
  <1> QED
    BY <1>4, <1>8, <1>9, <1>10, <1>12

StopsAt(h, cur, g, k) == g[k].cur_size = 0 \/ h.expire[g[k].array[0]] > cur
TickOf(h, cur, g) == g[TH!Min({k \in 0 .. h.cur_size : StopsAt(h, cur, g, k)})]

(* tick is the heap after the first number of pops at which it stops. *)
LEMMA TickIs ==
  ASSUME NEW h, NEW cur
  PROVE  TH!tick(h, cur) = TickOf(h, cur, CHOOSE g : AfterEq(h, g, h.cur_size))
BY Zenon DEF TH!tick, TickOf, AfterEq, StopsAt

LEMMA HeldIs ==
  ASSUME NEW a, NEW n, NEW e, NEW f
  PROVE  TH!Held(Hp(a, n, e, f)) = Elements(a, n)
  <1> DEFINE h == Hp(a, n, e, f)
  <1>1. h.array = a /\ h.cur_size = n
    BY DEF Hp
  <1> HIDE DEF h
  <1>2. TH!Held(h) = Elements(a, n)
    BY <1>1 DEF TH!Held, Elements
  <1> QED
    BY <1>2 DEF h

(* While the first timer is due, only timers that are due have left. *)
Leaving(a, e, n, c, f, cur, g, k) ==
    /\ Popped(a, e, n, c, f, k, g[k])
    /\ (\A j \in 0 .. k - 1 : ~StopsAt(Hp(a, n, e, f), cur, g, j))
          => \A t \in Elements(a, n) \ TH!Held(g[k]) : e[t] <= cur

(* By induction on the pops, written as the least number at which it fails. *)
LEMMA AllLeave ==
  ASSUME NEW a, NEW e, NEW n, NEW c, HeapAt(a, e, n, c), NEW f \in [Timers -> BOOLEAN], OrderedFrom(a, e, n, 0), NEW cur \in Nat,
         NEW g, AfterEq(Hp(a, n, e, f), g, n), NEW k \in 0 .. n
  PROVE  Leaving(a, e, n, c, f, cur, g, k)
  <1> DEFINE h == Hp(a, n, e, f)
             S == {j \in 0 .. n : ~Leaving(a, e, n, c, f, cur, g, j)}
  <1> SUFFICES ASSUME S # {} PROVE FALSE
    OBVIOUS
  <1>1. n \in Nat
    BY DEF HeapAt
  <1>2. S \in SUBSET Nat
    OBVIOUS
  <1>3. PICK j \in S : \A y \in S : j <= y
    BY <1>2, Least
  <1>4. j \in 0 .. n /\ j \in Nat /\ ~Leaving(a, e, n, c, f, cur, g, j)
    BY <1>3
  <1>5. g[j] = IF j = 0 THEN h ELSE TH!pop_timer(g[j - 1])
    BY <1>4 DEF AfterEq
  <1>6. CASE j = 0
    <2>1. n - 0 = n
      BY <1>1
    <2>2. Popped(a, e, n, c, f, 0, h)
      BY <2>1 DEF Popped
    <2>3. TH!Held(h) = Elements(a, n)
      BY HeldIs
    <2> QED
      BY <1>4, <1>5, <1>6, <2>2, <2>3 DEF Leaving
  <1>7. CASE j # 0
    <2> DEFINE i == j - 1
    <2>1. i \in Nat /\ i < n /\ i \in 0 .. n /\ i + 1 = j /\ i < j
      BY <1>1, <1>4, <1>7
    <2>2. g[j] = TH!pop_timer(g[i])
      BY <1>5, <1>7
    <2> HIDE DEF i
    <2>3. i \notin S
      BY <1>3, <1>4, <2>1
    <2>4. Leaving(a, e, n, c, f, cur, g, i)
      BY <2>1, <2>3
    <2>5. Popped(a, e, n, c, f, i, g[i])
      BY <2>4 DEF Leaving
    <2>6. /\ Popped(a, e, n, c, f, i + 1, TH!pop_timer(g[i]))
          /\ TH!Held(g[i]) \ TH!Held(TH!pop_timer(g[i])) = {g[i].array[0]} /\ g[i].array[0] \in TH!Held(g[i])
      BY <1>1, <2>1, <2>5, PoppedOnce
    <2>7. TH!Held(g[i]) \subseteq Elements(a, n)
      BY <2>5, HeldIs DEF Popped
    <2>8. ASSUME \A y \in 0 .. j - 1 : ~StopsAt(h, cur, g, y), NEW t \in Elements(a, n) \ TH!Held(g[j]) PROVE e[t] <= cur
      <3>1. \A y \in 0 .. i - 1 : y \in 0 .. j - 1
        BY <1>4, <2>1
      <3>2. \A y \in Elements(a, n) \ TH!Held(g[i]) : e[y] <= cur
        BY <2>4, <2>8, <3>1 DEF Leaving
      <3>3. CASE t \notin TH!Held(g[i])
        BY <3>2, <3>3
      <3>4. CASE t \in TH!Held(g[i])
        <4>1. t = g[i].array[0]
          BY <2>2, <2>6, <2>8, <3>4
        <4>2. i \in 0 .. j - 1
          BY <1>4, <2>1
        <4>3. ~(e[t] > cur)
          <5>1. h.expire = e
            BY DEF Hp
          <5> QED
            BY <2>8, <4>1, <4>2, <5>1 DEF StopsAt
        <4>4. e[t] \in Nat
          <5>1. t \in Timers /\ e \in [Timers -> Nat]
            BY <2>8 DEF HeapAt, Elements
          <5> QED
            BY <5>1
        <4> QED
          BY <4>3, <4>4
      <3> QED
        BY <3>3, <3>4
    <2> HIDE DEF S
    <2>9. Popped(a, e, n, c, f, j, g[j])
      BY <2>1, <2>2, <2>6
    <2>10. Leaving(a, e, n, c, f, cur, g, j)
      BY <2>8, <2>9 DEF Leaving
    <2> QED
      BY <1>4, <2>10
  <1> QED
    BY <1>6, <1>7

(* tick takes exactly the timers that are due. *)
LEMMA Ticks ==
  ASSUME NEW a, NEW e, NEW n, NEW c, HeapAt(a, e, n, c), NEW f \in [Timers -> BOOLEAN], OrderedFrom(a, e, n, 0), NEW cur \in Nat,
         NEW z, z = TH!tick(Hp(a, n, e, f), cur)
  PROVE  /\ \E k \in 0 .. n : Popped(a, e, n, c, f, k, z)
         /\ TH!Held(z) = {t \in Elements(a, n) : e[t] > cur}
  <1> DEFINE h == Hp(a, n, e, f)
             g == CHOOSE y : AfterEq(h, y, n)
             S == {k \in 0 .. n : StopsAt(h, cur, g, k)}
  <1>1. h.cur_size = n /\ h.expire = e /\ n \in Nat
    BY DEF Hp, HeapAt
  <1>2. z = TickOf(h, cur, g)
    BY <1>1, TickIs
  <1>3. AfterEq(h, g, n)
    BY <1>1, AfterExists
  <1> HIDE DEF g
  <1>4. \A k \in 0 .. n : Leaving(a, e, n, c, f, cur, g, k)
    BY <1>3, AllLeave
  <1>5. n \in S
    <2>1. n \in 0 .. n /\ n - n = 0
      BY <1>1
    <2>2. Popped(a, e, n, c, f, n, g[n])
      BY <1>4, <2>1 DEF Leaving
    <2>3. g[n].cur_size = 0
      BY <2>1, <2>2 DEF Popped, Hp
    <2> QED
      BY <2>1, <2>3 DEF StopsAt
  <1>6. S \in SUBSET Nat
    OBVIOUS
  <1>7. PICK k \in S : \A y \in S : k <= y
    BY <1>5, <1>6, Least
  <1>8. k \in 0 .. n /\ k \in Nat /\ StopsAt(h, cur, g, k)
    BY <1>7
  <1>9. \A j \in 0 .. k - 1 : ~StopsAt(h, cur, g, j)
    <2> SUFFICES ASSUME NEW j \in 0 .. k - 1, StopsAt(h, cur, g, j) PROVE FALSE
      OBVIOUS
    <2>1. j \in 0 .. n /\ j \in Nat /\ j < k
      BY <1>1, <1>8
    <2>2. j \in S
      BY <2>1
    <2> HIDE DEF S
    <2> QED
      BY <1>7, <1>8, <2>1, <2>2
  <1>10. z = g[k]
    <2>1. S \in SUBSET Int
      BY <1>6
    <2> HIDE DEF S
    <2>2. TH!Min(S) = k
      BY <1>7, <2>1, MinIs
    <2> QED
      BY <1>1, <1>2, <2>2 DEF TickOf, S
  <1>11. Popped(a, e, n, c, f, k, z) /\ \A t \in Elements(a, n) \ TH!Held(z) : e[t] <= cur
    BY <1>4, <1>8, <1>9, <1>10 DEF Leaving
  <1>12. PICK b, d, y :
           /\ z = Hp(b, n - k, d, y) /\ HeapAt(b, d, n - k, c) /\ OrderedFrom(b, d, n - k, 0)
           /\ y \in [Timers -> BOOLEAN] /\ Elements(b, n - k) \subseteq Elements(a, n)
           /\ \A t \in Elements(b, n - k) : d[t] = e[t] /\ y[t] = f[t]
    BY <1>11 DEF Popped
  <1> DEFINE m == n - k
  <1>13. m \in Nat /\ z.cur_size = m /\ z.array = b
    BY <1>1, <1>8, <1>12 DEF Hp
  <1>14. TH!Held(z) = Elements(b, m)
    BY <1>12, HeldIs
  <1>15. HeapAt(b, d, m, c) /\ OrderedFrom(b, d, m, 0) /\ Elements(b, m) \subseteq Elements(a, n) /\ \A t \in Elements(b, m) : d[t] = e[t]
    BY <1>12
  <1> HIDE DEF m
  <1>16. \A t \in Elements(a, n) : e[t] \in Nat
    BY DEF HeapAt, Elements
  <1>17. ASSUME NEW t \in Elements(b, m) PROVE e[t] > cur
    <2>1. PICK i \in 0 .. m - 1 : t = b[i]
      BY DEF Elements
    <2>2. 0 \in 0 .. m - 1 /\ m # 0
      BY <1>13
    <2>3. d[b[0]] <= d[t]
      BY <1>15, <2>1, FirstExpires
    <2>4. b[0] \in Elements(b, m)
      BY <2>2 DEF Elements
    <2>5. e[b[0]] > cur
      BY <1>1, <1>8, <1>10, <1>13, <2>2 DEF StopsAt
    <2>6. d[b[0]] = e[b[0]] /\ d[t] = e[t] /\ e[b[0]] \in Nat /\ e[t] \in Nat
      BY <1>15, <1>16, <2>4
    <2> QED
      BY <2>3, <2>5, <2>6
  <1>18. TH!Held(z) = {t \in Elements(a, n) : e[t] > cur}
    BY <1>11, <1>14, <1>15, <1>16, <1>17
  <1> QED
    BY <1>8, <1>11, <1>18

(* Heapify: the heap from each hole on, as the second constructor builds it. *)
BuiltEq(raw, size, g, b) ==
    g = [i \in b .. size |-> IF i > (size - 1) \div 2 THEN raw ELSE TH!percolate_down(g[i + 1], i)]

(* The function behind the loop of the second constructor exists. *)
LEMMA BuiltExists ==
  ASSUME NEW raw, NEW size \in Nat
  PROVE  \E g : BuiltEq(raw, size, g, 0)
  <1> DEFINE S == {j \in 0 .. size : ~\E g : BuiltEq(raw, size, g, size - j)}
             half == (size - 1) \div 2
  <1> SUFFICES ASSUME S # {} PROVE FALSE
    <2>1. size \in 0 .. size /\ size - size = 0
      OBVIOUS
    <2> QED
      BY <2>1
  <1>1. S \in SUBSET Nat
    OBVIOUS
  <1>2. PICK j \in S : \A y \in S : j <= y
    BY <1>1, Least
  <1>3. j \in 0 .. size /\ j \in Nat /\ ~\E g : BuiltEq(raw, size, g, size - j)
    BY <1>2
  <1>4. half < size /\ half \in Int
    OBVIOUS
  <1> HIDE DEF half
  <1>5. CASE j = 0
    <2> DEFINE g == [i \in size .. size |-> raw]
    <2>1. g = [i \in size .. size |-> IF i > half THEN raw ELSE TH!percolate_down(g[i + 1], i)]
      <3>1. \A i \in size .. size : i > half
        BY <1>4
      <3> HIDE DEF half
      <3> QED
        BY <3>1
    <2>2. size - 0 = size
      OBVIOUS
    <2> HIDE DEF g
    <2>3. BuiltEq(raw, size, g, size - j)
      BY <1>5, <2>1, <2>2 DEF BuiltEq, half
    <2> QED
      BY <1>3, <2>3
  <1>6. CASE j # 0
    <2> DEFINE b == size - j
               V(g, i) == IF i > half THEN raw ELSE TH!percolate_down(g[i + 1], i)
    <2>1. j - 1 \in 0 .. size /\ j - 1 \notin S /\ size - (j - 1) = b + 1 /\ b \in Nat /\ b < size
      BY <1>2, <1>3, <1>6
    <2>2. PICK g : BuiltEq(raw, size, g, b + 1)
      BY <2>1
    <2> DEFINE f == [i \in b .. size |-> IF i = b THEN V(g, b) ELSE g[i]]
    <2>3. \A i \in b + 1 .. size : g[i] = V(g, i)
      BY <2>2 DEF BuiltEq, half
    <2> HIDE DEF b, V, S
    <2>4. f[b] = V(g, b) /\ \A i \in b + 1 .. size : f[i] = g[i]
      BY <2>1
    <2>5. \A i \in b .. size : i = size \/ i + 1 \in b + 1 .. size
      BY <2>1
    <2>6. \A i \in b .. size : i = b \/ i \in b + 1 .. size
      BY <2>1
    <2>7. f = [i \in b .. size |-> f[i]]
      OBVIOUS
    <2> HIDE DEF f
    <2>8. \A i \in b .. size : V(f, i) = V(g, i)
      BY <1>4, <2>4, <2>5 DEF V
    <2>9. \A i \in b .. size : f[i] = V(f, i)
      BY <2>3, <2>4, <2>6, <2>8
    <2>10. f = [i \in b .. size |-> V(f, i)]
      BY <2>7, <2>9, Zenon
    <2>11. BuiltEq(raw, size, f, b)
      BY <2>10 DEF BuiltEq, V, half
    <2> QED
      BY <1>3, <2>11 DEF b
  <1> QED
    BY <1>5, <1>6

(* From hole i on, the array is a heap. *)
Builds(e, f, size, h, i) ==
    \E b : h = Hp(b, size, e, f) /\ HeapAt(b, e, size, size) /\ OrderedFrom(b, e, size, i)

(* By induction downwards, from the last parent to the root. *)
LEMMA AllBuilt ==
  ASSUME NEW a, NEW e, NEW size, HeapAt(a, e, size, size), NEW f, NEW g, BuiltEq(Hp(a, size, e, f), size, g, 0)
  PROVE  Builds(e, f, size, g[0], 0)
  <1> DEFINE S == {j \in 0 .. size : ~Builds(e, f, size, g[size - j], size - j)}
             half == (size - 1) \div 2
  <1>1. size \in Nat
    BY DEF HeapAt
  <1> SUFFICES ASSUME S # {} PROVE FALSE
    <2>1. size \in 0 .. size /\ size - size = 0
      BY <1>1
    <2> QED
      BY <2>1
  <1>2. S \in SUBSET Nat
    OBVIOUS
  <1>3. PICK j \in S : \A y \in S : j <= y
    BY <1>2, Least
  <1> DEFINE i == size - j
  <1>4. j \in 0 .. size /\ j \in Nat /\ ~Builds(e, f, size, g[i], i)
    BY <1>3
  <1>5. i \in 0 .. size /\ i \in Nat
    BY <1>1, <1>4
  <1>6. g[i] = IF i > half THEN Hp(a, size, e, f) ELSE TH!percolate_down(g[i + 1], i)
    <2> HIDE DEF i
    <2> QED
      BY <1>5 DEF BuiltEq
  <1>7. CASE i > half
    <2> HIDE DEF i
    <2>1. ASSUME NEW k \in 1 .. size - 1 PROVE ~(TH!Parent(k) >= i)
      <3>1. TH!Parent(k) \in Nat /\ (k = 2 * TH!Parent(k) + 1 \/ k = 2 * TH!Parent(k) + 2)
        BY <1>1, ParentIs
      <3> QED
        BY <1>1, <1>5, <1>7, <3>1
    <2>2. OrderedFrom(a, e, size, i)
      BY <2>1 DEF OrderedFrom
    <2>3. Builds(e, f, size, g[i], i)
      BY <1>6, <1>7, <2>2 DEF Builds
    <2> QED
      BY <1>4, <2>3
  <1>8. CASE ~(i > half)
    <2>1. j # 0
      BY <1>1, <1>8
    <2>2. j - 1 \in 0 .. size /\ j - 1 \in Nat /\ size - (j - 1) = i + 1 /\ j - 1 < j
      BY <1>1, <1>4, <2>1
    <2>3. j - 1 \notin S
      BY <1>3, <1>4, <2>2
    <2>4. Builds(e, f, size, g[i + 1], i + 1)
      BY <2>2, <2>3
    <2>5. i \in 0 .. size - 1
      BY <1>1, <1>5, <1>8
    <2> HIDE DEF i, S
    <2>6. PICK b : g[i + 1] = Hp(b, size, e, f) /\ HeapAt(b, e, size, size) /\ OrderedFrom(b, e, size, i + 1)
      BY <2>4 DEF Builds
    <2>7. PICK d : /\ TH!percolate_down(g[i + 1], i) = Hp(d, size, e, f)
                   /\ HeapAt(d, e, size, size) /\ OrderedFrom(d, e, size, i)
      BY <2>5, <2>6, PercolateDown
    <2>8. Builds(e, f, size, g[i], i)
      BY <1>6, <1>8, <2>7 DEF Builds
    <2> QED
      BY <1>4, <2>8
  <1> QED
    BY <1>7, <1>8

(* The heap is a heap of distinct timers, with room for one unless there are none. *)
HeapSound(h) ==
    \E a, n, e, f, c : /\ h = Hp(a, n, e, f) /\ HeapAt(a, e, n, c) /\ OrderedFrom(a, e, n, 0)
                      /\ f \in [Timers -> BOOLEAN] /\ (c > 0 \/ Timers = {})

(* The second constructor makes a heap of any array of distinct timers. *)
LEMMA Constructed ==
  ASSUME NEW s \in SetToSeqs(Timers), NEW e \in [Timers -> {0, 1, 3}]
  PROVE  HeapSound(TH!Heapify(s, e)) /\ TH!Heapify(s, e).cb_func = [t \in Timers |-> TRUE]
  <1> DEFINE size == Cardinality(Timers)
             a == [i \in 0 .. size - 1 |-> s[i + 1]]
             f == [t \in Timers |-> TRUE]
  <1>1. size \in Nat /\ (size > 0 \/ Timers = {})
    BY ContainersAssumption, FS_CardinalityType, FS_EmptySet
  <1>2. s \in [1 .. size -> Timers] /\ \A i, j \in 1 .. size : i # j => s[i] # s[j]
    BY DEF SetToSeqs
  <1> HIDE DEF size
  <1>3. Len(s) = size
    BY <1>1, <1>2
  <1>4. HeapAt(a, e, size, size)
    <2>1. \A i \in 0 .. size - 1 : i + 1 \in 1 .. size
      BY <1>1
    <2>2. a \in [0 .. size - 1 -> Timers \cup {NULL}] /\ \A i \in 0 .. size - 1 : a[i] \in Timers /\ a[i] = s[i + 1]
      BY <1>2, <2>1
    <2> HIDE DEF a
    <2>3. \A i, j \in 0 .. size - 1 : a[i] = a[j] => i = j
      <3> SUFFICES ASSUME NEW i \in 0 .. size - 1, NEW j \in 0 .. size - 1, a[i] = a[j] PROVE i = j
        OBVIOUS
      <3>1. i + 1 = j + 1
        BY <1>2, <2>1, <2>2
      <3> QED
        BY <3>1
    <2>4. e \in [Timers -> Nat]
      OBVIOUS
    <2>5. size \in 0 .. size
      BY <1>1
    <2> QED
      BY <1>1, <2>2, <2>3, <2>4, <2>5 DEF HeapAt
  <1> DEFINE raw == Hp(a, size, e, f)
             g == CHOOSE y : BuiltEq(raw, size, y, 0)
  <1>5. TH!Heapify(s, e) = g[0]
    BY <1>3, Zenon DEF TH!Heapify, BuiltEq, Hp
  <1>6. BuiltEq(raw, size, g, 0)
    BY <1>1, BuiltExists
  <1> HIDE DEF g, a
  <1>7. Builds(e, f, size, g[0], 0)
    BY <1>4, <1>6, AllBuilt
  <1>8. f \in [Timers -> BOOLEAN]
    OBVIOUS
  <1>9. HeapSound(g[0])
    BY <1>1, <1>7, <1>8 DEF Builds, HeapSound
  <1>10. g[0].cb_func = f
    BY <1>7 DEF Builds, Hp
  <1> QED
    BY <1>5, <1>9, <1>10

(* The first constructor makes an empty one. *)
LEMMA ConstructedEmpty == HeapSound(TH!Empty(Cap))
  <1> DEFINE a == [i \in 0 .. Cap - 1 |-> NULL]
             e == [t \in Timers |-> 0]
             f == [t \in Timers |-> FALSE]
  <1>1. TH!Empty(Cap) = Hp(a, 0, e, f)
    BY DEF TH!Empty, Hp
  <1>2. Cap \in Nat /\ Cap > 0
    BY ContainersAssumption
  <1>3. HeapAt(a, e, 0, Cap) /\ OrderedFrom(a, e, 0, 0) /\ f \in [Timers -> BOOLEAN]
    BY <1>2 DEF HeapAt, OrderedFrom
  <1> HIDE DEF a, e, f
  <1> QED
    BY <1>1, <1>2, <1>3 DEF HeapSound

-----------------------------------------------------------------------------
(* The heap's operations. *)
LEMMA SoundHeap ==
  ASSUME NEW h, HeapSound(h)
  PROVE  /\ h.expire \in [Timers -> Nat] /\ h.cb_func \in [Timers -> BOOLEAN] /\ TH!Held(h) \subseteq Timers
         /\ h.cur_size \in Nat /\ Cardinality(TH!Held(h)) = h.cur_size
         /\ \A i \in 1 .. h.cur_size - 1 : h.expire[h.array[TH!Parent(i)]] <= h.expire[h.array[i]]
  <1>1. PICK a, n, e, f, c :
           /\ h = Hp(a, n, e, f) /\ HeapAt(a, e, n, c) /\ OrderedFrom(a, e, n, 0) /\ f \in [Timers -> BOOLEAN]
    BY DEF HeapSound
  <1>2. h.array = a /\ h.cur_size = n /\ h.expire = e /\ h.cb_func = f
    BY <1>1 DEF Hp
  <1>3. n \in Nat /\ e \in [Timers -> Nat] /\ \A i \in 0 .. n - 1 : a[i] \in Timers
    BY <1>1 DEF HeapAt
  <1>4. TH!Held(h) = Elements(a, n) /\ Elements(a, n) \subseteq Timers
    BY <1>1, <1>3, HeldIs DEF Elements
  <1>5. \A i \in 1 .. n - 1 : e[a[TH!Parent(i)]] <= e[a[i]]
    <2>1. \A i \in 1 .. n - 1 : TH!Parent(i) \in Nat
      BY <1>3, ParentIs
    <2>2. \A i \in 1 .. n - 1 : TH!Parent(i) >= 0
      BY <2>1
    <2> QED
      BY <1>1, <2>2 DEF OrderedFrom
  <1>6. Cardinality(Elements(a, n)) = n
    <2> DEFINE g == [i \in 0 .. n - 1 |-> a[i]]
    <2>1. \A i, j \in 0 .. n - 1 : a[i] = a[j] => i = j
      BY <1>1 DEF HeapAt
    <2> DEFINE D == 0 .. n - 1
    <2>5. /\ g \in [D -> Elements(a, n)] /\ \A i, j \in D : g[i] = g[j] => i = j
          /\ \A y \in Elements(a, n) : \E i \in D : g[i] = y
      BY <2>1 DEF Elements
    <2> HIDE DEF D, g
    <2>6. ExistsBijection(D, Elements(a, n))
      BY <2>5 DEF ExistsBijection, Bijection, Injection, Surjection, IsInjective
    <2>3. IsFiniteSet(0 .. n - 1) /\ Cardinality(0 .. n - 1) = n
      BY <1>3, FS_Interval
    <2>4. Cardinality(0 .. n - 1) = Cardinality(Elements(a, n))
      BY <2>3, <2>6, FS_Bijection DEF D
    <2> QED
      BY <2>3, <2>4
  <1> QED
    BY <1>1, <1>2, <1>3, <1>4, <1>5, <1>6

AddedAt(h, t, d) == TH!add_timer([h EXCEPT !.expire[t] = d, !.cb_func[t] = TRUE], t)

Adds(h, z, t, d) ==
    /\ HeapSound(z) /\ TH!Held(z) = TH!Held(h) \cup {t}
    /\ z.expire = [h.expire EXCEPT ![t] = d] /\ z.cb_func = [h.cb_func EXCEPT ![t] = TRUE]

(* add_timer, del_timer and tick on a sound heap. *)
LEMMA HeapAdded ==
  ASSUME NEW h, HeapSound(h), NEW t \in Timers, t \notin TH!Held(h), NEW d \in Nat,
         NEW z, z = AddedAt(h, t, d)
  PROVE  Adds(h, z, t, d)
  <1>1. PICK a, n, e, f, c :
           /\ h = Hp(a, n, e, f) /\ HeapAt(a, e, n, c) /\ OrderedFrom(a, e, n, 0) /\ f \in [Timers -> BOOLEAN]
           /\ (c > 0 \/ Timers = {})
    BY DEF HeapSound
  <1>2. h.array = a /\ h.cur_size = n /\ h.expire = e /\ h.cb_func = f
    BY <1>1 DEF Hp
  <1> DEFINE ed == Set(e, t, d)
             ft == Set(f, t, TRUE)
  <1>3. [h EXCEPT !.expire[t] = d, !.cb_func[t] = TRUE] = Hp(a, n, ed, ft)
    <2>1. Times(a, n, e, f, t, d, TRUE)
      BY HpTimed, Zenon
    <2> QED
      BY <1>1, <2>1, Zenon DEF Times, Timed
  <1>4. TH!Held(h) = Elements(a, n)
    BY <1>1, HeldIs
  <1>5. ed = [e EXCEPT ![t] = d] /\ ft = [f EXCEPT ![t] = TRUE]
    BY DEF Set
  <1> HIDE DEF ed, ft
  <1>6. e \in [Timers -> Nat] /\ n \in Nat /\ \A i \in 0 .. n - 1 : a[i] \in Elements(a, n) /\ a[i] \in Timers
    BY <1>1 DEF HeapAt, Elements
  <1>7. ed \in [Timers -> Nat] /\ ft \in [Timers -> BOOLEAN] /\ \A i \in 0 .. n - 1 : ed[a[i]] = e[a[i]]
    BY <1>1, <1>4, <1>5, <1>6
  <1>8. HeapAt(a, ed, n, c)
    BY <1>1, <1>7 DEF HeapAt
  <1>9. OrderedFrom(a, ed, n, 0)
    <2>1. ASSUME NEW i \in 1 .. n - 1 PROVE i \in 0 .. n - 1 /\ TH!Parent(i) \in 0 .. n - 1
      <3>1. TH!Parent(i) \in Nat /\ TH!Parent(i) < i
        BY <1>6, ParentIs
      <3> QED
        BY <1>6, <3>1
    <2> QED
      BY <1>1, <1>7, <2>1 DEF OrderedFrom
  <1>10. PICK b, m : /\ TH!add_timer(Hp(a, n, ed, ft), t) = Hp(b, n + 1, ed, ft) /\ m > 0
                    /\ HeapAt(b, ed, n + 1, m) /\ OrderedFrom(b, ed, n + 1, 0) /\ Elements(b, n + 1) = Elements(a, n) \cup {t}
    BY <1>1, <1>4, <1>8, <1>9, AddTimer
  <1>11. z = Hp(b, n + 1, ed, ft)
    BY <1>3, <1>10 DEF AddedAt
  <1>12. HeapSound(z)
    BY <1>7, <1>10, <1>11 DEF HeapSound
  <1>13. TH!Held(z) = Elements(b, n + 1)
    BY <1>11, HeldIs
  <1>14. z.expire = ed /\ z.cb_func = ft
    BY <1>11 DEF Hp
  <1> QED
    BY <1>2, <1>4, <1>5, <1>10, <1>12, <1>13, <1>14 DEF Adds

LEMMA HeapDeleted ==
  ASSUME NEW h, HeapSound(h), NEW t \in Timers, NEW z, z = [h EXCEPT !.cb_func[t] = FALSE]
  PROVE  /\ HeapSound(z) /\ TH!Held(z) = TH!Held(h)
         /\ z.expire = h.expire /\ z.cb_func = [h.cb_func EXCEPT ![t] = FALSE]
  <1>1. PICK a, n, e, f, c :
           /\ h = Hp(a, n, e, f) /\ HeapAt(a, e, n, c) /\ OrderedFrom(a, e, n, 0) /\ f \in [Timers -> BOOLEAN]
           /\ (c > 0 \/ Timers = {})
    BY DEF HeapSound
  <1>2. h.expire = e /\ h.cb_func = f
    BY <1>1 DEF Hp
  <1> DEFINE ft == Set(f, t, FALSE)
  <1>3. z = Hp(a, n, e, ft)
    <2>1. Clears(a, n, e, f, t, FALSE)
      BY HpCleared, Zenon
    <2> QED
      BY <1>1, <2>1, Zenon DEF Clears, Cleared
  <1>4. ft = [f EXCEPT ![t] = FALSE]
    BY DEF Set
  <1> HIDE DEF ft
  <1>5. ft \in [Timers -> BOOLEAN]
    BY <1>1, <1>4
  <1>6. HeapSound(z)
    BY <1>1, <1>3, <1>5 DEF HeapSound
  <1>7. TH!Held(z) = TH!Held(h)
    <2>1. TH!Held(h) = Elements(a, n)
      BY <1>1, HeldIs
    <2>2. TH!Held(Hp(a, n, e, ft)) = Elements(a, n)
      BY HeldIs
    <2>3. TH!Held(z) = Elements(a, n)
      BY <1>3, <2>2, Zenon
    <2> QED
      BY <2>1, <2>3
  <1>8. z.expire = e /\ z.cb_func = ft
    BY <1>3 DEF Hp
  <1> QED
    BY <1>2, <1>4, <1>6, <1>7, <1>8

LEMMA HeapTicked ==
  ASSUME NEW h, HeapSound(h), NEW cur \in Nat, NEW z, z = TH!tick(h, cur)
  PROVE  /\ HeapSound(z) /\ TH!Held(z) = {t \in TH!Held(h) : h.expire[t] > cur}
         /\ \A t \in TH!Held(z) : z.expire[t] = h.expire[t] /\ z.cb_func[t] = h.cb_func[t]
  <1>1. PICK a, n, e, f, c :
           /\ h = Hp(a, n, e, f) /\ HeapAt(a, e, n, c) /\ OrderedFrom(a, e, n, 0) /\ f \in [Timers -> BOOLEAN]
           /\ (c > 0 \/ Timers = {})
    BY DEF HeapSound
  <1>2. h.expire = e /\ h.cb_func = f /\ TH!Held(h) = Elements(a, n)
    BY <1>1, HeldIs DEF Hp
  <1>3. (\E k \in 0 .. n : Popped(a, e, n, c, f, k, z)) /\ TH!Held(z) = {t \in Elements(a, n) : e[t] > cur}
    BY <1>1, Ticks
  <1>4. PICK k \in 0 .. n : Popped(a, e, n, c, f, k, z)
    BY <1>3
  <1>5. PICK b, d, g :
           /\ z = Hp(b, n - k, d, g) /\ HeapAt(b, d, n - k, c) /\ OrderedFrom(b, d, n - k, 0)
           /\ g \in [Timers -> BOOLEAN]
           /\ \A t \in Elements(b, n - k) : d[t] = e[t] /\ g[t] = f[t]
    BY <1>4 DEF Popped
  <1>6. HeapSound(z)
    BY <1>1, <1>5 DEF HeapSound
  <1>7. z.expire = d /\ z.cb_func = g /\ TH!Held(z) = Elements(b, n - k)
    BY <1>5, HeldIs DEF Hp
  <1> QED
    BY <1>2, <1>3, <1>5, <1>6, <1>7

-----------------------------------------------------------------------------
(* The client of the containers, and of the heap. *)

(* What the client keeps, whichever container it uses: the others stay as  *)
(* they were constructed.                                                  *)
ClientOk ==
    /\ now \in Nat /\ uses \in {"list", "wheel", "heap"} /\ promised \in [Timers -> Nat \cup {None}] /\ turns \in Nat
    /\ uses # "list"  => wlist = WL!Empty /\ ylist = YL!Empty /\ wfired = {} /\ yfired = {}
    /\ uses # "wheel" => TW!WheelInit
    /\ uses # "heap"  => heapFired = {}
HeapOk ==
    /\ HeapSound(heap)
    /\ uses = "heap" => \A t \in Timers :
          promised[t] = IF t \in TH!Held(heap) /\ heap.cb_func[t] THEN heap.expire[t] ELSE None
HeapInv == ClientOk /\ HeapOk

(* The delays are naturals. *)
LEMMA DelaysAre == \A d \in Delays : d \in Nat /\ \A k \in Nat : k + d \in Nat /\ k + d >= k
  BY ContainersAssumption

(* A client begins with a sound heap that holds what was promised. *)
LEMMA HeapInitially == Init => HeapInv
  <1> SUFFICES ASSUME Init PROVE HeapInv
    OBVIOUS
  <1>1. None \notin Nat /\ Cap \in Nat
    BY ContainersAssumption
  <1>2. CASE uses = "heap"
    <2>1. HeapSound(heap) /\ \A t \in TH!Held(heap) : heap.cb_func[t]
      <3>1. CASE heap = TH!Empty(Cap)
        <4>1. heap.cur_size = 0
          BY <3>1 DEF TH!Empty
        <4>2. TH!Held(heap) = {}
          BY <4>1 DEF TH!Held
        <4> QED
          BY <3>1, <4>2, ConstructedEmpty
      <3>2. CASE heap # TH!Empty(Cap)
        <4>1. PICK s \in SetToSeqs(Timers), e \in [Timers -> {0, 1, 3}] : heap = TH!Heapify(s, e)
          BY <1>2, <3>2 DEF Init, TH!HeapInit
        <4>2. HeapSound(heap) /\ heap.cb_func = [t \in Timers |-> TRUE]
          BY <4>1, Constructed
        <4>3. TH!Held(heap) \subseteq Timers
          BY <4>2, SoundHeap
        <4> QED
          BY <4>2, <4>3
      <3> QED
        BY <3>1, <3>2
    <2>2. heap.expire \in [Timers -> Nat]
      BY <2>1, SoundHeap
    <2> QED
      BY <1>2, <2>1, <2>2 DEF Init, HeapInv, ClientOk, HeapOk, TH!HeapInit, WL!ListInit, YL!ListInit, TW!WheelInit
  <1>3. CASE uses # "heap"
    <2>1. heap = TH!Empty(Cap) /\ heapFired = {}
      BY <1>3 DEF Init, TH!HeapInit
    <2>2. HeapSound(heap)
      BY <2>1, ConstructedEmpty
    <2>3. heap.expire \in [Timers -> Nat]
      BY <2>2, SoundHeap
    <2> QED
      BY <1>3, <2>1, <2>2, <2>3 DEF Init, HeapInv, ClientOk, HeapOk, WL!ListInit, YL!ListInit, TW!WheelInit
  <1> QED
    BY <1>2, <1>3

(* The turns that the wheel counts for a delay: at least one. *)
LEMMA TicksAre == \A d \in Delays : TW!Ticks(d) \in Nat /\ TW!Ticks(d) > 0
  <1> SUFFICES ASSUME NEW d \in Delays PROVE TW!Ticks(d) \in Nat /\ TW!Ticks(d) > 0
    OBVIOUS
  <1>1. d \in Nat /\ TI \in Nat /\ TI > 0
    BY ContainersAssumption
  <1>2. d >= TI => d \div TI \in Nat /\ d \div TI > 0
    BY <1>1
  <1> QED
    BY <1>1, <1>2 DEF TW!Ticks

(* A client stays with the container it uses, and the others as they are. *)
LEMMA ClientKeeps == ClientOk /\ [Next]_vars => ClientOk' /\ uses' = uses
  <1> SUFFICES ASSUME ClientOk, [Next]_vars PROVE ClientOk' /\ uses' = uses
    OBVIOUS
  <1> USE DEF ClientOk
  <1>1. \A d \in Delays : now + d \in Nat /\ turns + TW!Ticks(d) \in Nat
    BY DelaysAre, TicksAre
  <1>2. CASE UNCHANGED vars
    BY <1>2 DEF vars, listVars, wheelVars, heapVars, TW!WheelInit
  <1>3. CASE Second
    BY <1>3 DEF Second, wheelVars, TW!WheelInit
  <1>4. CASE Tick
    <2>1. promised' \in [Timers -> Nat \cup {None}] /\ now' = now /\ uses' = uses
      BY <1>4 DEF Tick
    <2>2. CASE uses = "list"
      BY <1>4, <2>1, <2>2 DEF Tick, wheelVars, heapVars, TW!WheelInit
    <2>3. CASE uses = "wheel"
      BY <1>4, <2>1, <2>3 DEF Tick, listVars, heapVars, TW!WheelTick
    <2>4. CASE uses = "heap"
      BY <1>4, <2>1, <2>4 DEF Tick, listVars, wheelVars, TW!WheelInit
    <2> QED
      BY <2>2, <2>3, <2>4
  <1>5. ASSUME NEW t \in Timers, NEW d \in Delays, Calls(t, d) PROVE ClientOk' /\ uses' = uses
    <2>1. CASE ListAdd(t, d)
      BY <1>1, <2>1 DEF ListAdd, wheelVars, heapVars, TW!WheelInit, Expect
    <2>2. CASE ListAdjust(t, d)
      BY <1>1, <2>2 DEF ListAdjust, wheelVars, heapVars, TW!WheelInit, Expect
    <2>3. CASE WheelAdd(t, d)
      BY <1>1, <2>3 DEF WheelAdd, listVars, heapVars, Expect, TW!WheelAdd
    <2>4. CASE HeapAdd(t, d)
      BY <1>1, <2>4 DEF HeapAdd, listVars, wheelVars, TW!WheelInit, Expect
    <2> QED
      BY <1>5, <2>1, <2>2, <2>3, <2>4 DEF Calls
  <1>6. ASSUME NEW t \in Timers, Cancels(t) PROVE ClientOk' /\ uses' = uses
    <2>1. CASE ListDel(t)
      BY <2>1 DEF ListDel, wheelVars, heapVars, TW!WheelInit, Expect
    <2>2. CASE WheelDel(t)
      BY <2>2 DEF WheelDel, listVars, heapVars, Expect, TW!WheelDel
    <2>3. CASE HeapDel(t)
      BY <2>3 DEF HeapDel, listVars, wheelVars, TW!WheelInit, Expect
    <2> QED
      BY <1>6, <2>1, <2>2, <2>3 DEF Cancels
  <1> QED
    BY <1>2, <1>3, <1>4, <1>5, <1>6 DEF Next

(* Who does not use the heap leaves it alone. *)
LEMMA HeapStays == ClientOk /\ uses # "heap" /\ [Next]_vars => heap' = heap
  <1> SUFFICES ASSUME ClientOk, uses # "heap", [Next]_vars PROVE heap' = heap
    OBVIOUS
  <1>1. CASE Tick
    <2>1. CASE uses = "list"
      BY <1>1, <2>1 DEF Tick, heapVars
    <2>2. CASE uses = "wheel"
      BY <1>1, <2>2 DEF Tick, heapVars
    <2> QED
      BY <2>1, <2>2 DEF ClientOk
  <1> QED
    BY <1>1 DEF vars, heapVars, Next, Calls, Cancels, ListAdd, ListAdjust, ListDel, WheelAdd, WheelDel, HeapAdd, HeapDel, Second

ServiceStep == Service!ServiceNext \/ UNCHANGED Service!serviceVars

(* Every step of a client of the heap keeps the heap and its promises, and *)
(* is a step of the service: tick fires exactly what is due.               *)
LEMMA HeapSteps == HeapInv /\ uses = "heap" /\ [Next]_vars => HeapOk' /\ ServiceStep
  <1> SUFFICES ASSUME HeapInv, uses = "heap", [Next]_vars PROVE HeapOk' /\ ServiceStep
    OBVIOUS
  <1>1. /\ now \in Nat /\ promised \in [Timers -> Nat \cup {None}] /\ None \notin Nat
        /\ yfired = {} /\ wheelFired = {} /\ heapFired \in SUBSET heapFired
        /\ HeapSound(heap)
        /\ \A t \in Timers :
             promised[t] = IF t \in TH!Held(heap) /\ heap.cb_func[t] THEN heap.expire[t] ELSE None
    BY ContainersAssumption DEF HeapInv, ClientOk, HeapOk, TW!WheelInit
  <1>2. heap.expire \in [Timers -> Nat] /\ heap.cb_func \in [Timers -> BOOLEAN] /\ TH!Held(heap) \subseteq Timers
    BY <1>1, SoundHeap
  <1>3. CASE UNCHANGED vars
    BY <1>1, <1>3 DEF vars, listVars, wheelVars, heapVars, HeapOk, ServiceStep, Service!serviceVars, Fired
  <1>4. CASE Second
    <2>1. HeapOk'
      BY <1>1, <1>4 DEF Second, HeapOk
    <2>2. Service!Passes
      BY <1>1, <1>4 DEF Second, wheelVars, Service!Passes, Fired
    <2> QED
      BY <2>1, <2>2 DEF ServiceStep, Service!ServiceNext
  <1>5. ASSUME NEW t \in Timers, NEW d \in Delays, HeapAdd(t, d) PROVE HeapOk' /\ ServiceStep
    <2>1. t \notin TH!Held(heap) /\ now + d \in Nat /\ now + d >= now
      BY <1>1, <1>5, DelaysAre DEF HeapAdd
    <2>2. /\ HeapSound(heap') /\ TH!Held(heap') = TH!Held(heap) \cup {t}
          /\ heap'.expire = [heap.expire EXCEPT ![t] = now + d] /\ heap'.cb_func = [heap.cb_func EXCEPT ![t] = TRUE]
      <3> DEFINE e == now + d
      <3>1. heap' = AddedAt(heap, t, e) /\ e \in Nat /\ HeapSound(heap)
        BY <1>1, <1>5, <2>1 DEF HeapAdd, TH!HeapAdd, AddedAt
      <3> HIDE DEF e
      <3>2. Adds(heap, heap', t, e)
        BY <2>1, <3>1, HeapAdded, Zenon
      <3> QED
        BY <3>2 DEF e, Adds
    <2>3. promised' = [promised EXCEPT ![t] = now + d] /\ uses' = uses /\ now' = now /\ heapFired' = {}
          /\ yfired' = yfired /\ wheelFired' = wheelFired
      BY <1>5 DEF HeapAdd, Expect, TH!HeapAdd, listVars, wheelVars
    <2>4. HeapOk'
      <3>1. \A x \in Timers :
             promised'[x] = IF x \in TH!Held(heap') /\ heap'.cb_func[x] THEN heap'.expire[x] ELSE None
        BY <1>1, <1>2, <2>1, <2>2, <2>3
      <3>2. TH!Held(heap)' = TH!Held(heap')
        BY DEF TH!Held
      <3>3. HeapSound(heap)'
        BY <2>2
      <3> QED
        BY <3>1, <3>2, <3>3 DEF HeapOk
    <2>5. Service!Schedule(t)
      <3>1. promised[t] = None /\ promised'[t] = now + d
        BY <1>1, <2>1, <2>3
      <3> QED
        BY <1>1, <2>1, <2>3, <3>1 DEF Service!Schedule, Fired
    <2> QED
      BY <2>4, <2>5 DEF ServiceStep, Service!ServiceNext
  <1>6. ASSUME NEW t \in Timers, HeapDel(t) PROVE HeapOk' /\ ServiceStep
    <2>1. promised' = [promised EXCEPT ![t] = None] /\ uses' = uses /\ now' = now /\ heapFired' = {}
          /\ yfired' = yfired /\ wheelFired' = wheelFired /\ heap' = [heap EXCEPT !.cb_func[t] = FALSE]
      BY <1>6 DEF HeapDel, Expect, TH!HeapDel, listVars, wheelVars
    <2>2. /\ HeapSound(heap') /\ TH!Held(heap') = TH!Held(heap)
          /\ heap'.expire = heap.expire /\ heap'.cb_func = [heap.cb_func EXCEPT ![t] = FALSE]
      BY <1>1, <2>1, HeapDeleted
    <2>3. HeapOk'
      <3>1. \A x \in Timers :
             promised'[x] = IF x \in TH!Held(heap') /\ heap'.cb_func[x] THEN heap'.expire[x] ELSE None
        BY <1>1, <1>2, <2>1, <2>2
      <3>2. TH!Held(heap)' = TH!Held(heap')
        BY DEF TH!Held
      <3> QED
        BY <2>2, <3>1, <3>2 DEF HeapOk
    <2>4. Service!Cancel(t)
      BY <1>1, <2>1 DEF Service!Cancel, Fired
    <2> QED
      BY <2>3, <2>4 DEF ServiceStep, Service!ServiceNext
  <1>7. CASE Tick
    <2>1. /\ heap' = TH!tick(heap, now) /\ heapFired' = {t \in TH!Held(heap) \ TH!Held(heap') : heap.cb_func[t]}
          /\ promised' = [t \in Timers |-> IF t \in Fired' THEN None ELSE promised[t]]
          /\ uses' = uses /\ now' = now /\ yfired' = yfired /\ wheelFired' = wheelFired
      BY <1>7 DEF Tick, TH!HeapTick, listVars, wheelVars
    <2>2. /\ HeapSound(heap') /\ TH!Held(heap') = {t \in TH!Held(heap) : heap.expire[t] > now}
          /\ \A t \in TH!Held(heap') : heap'.expire[t] = heap.expire[t] /\ heap'.cb_func[t] = heap.cb_func[t]
      BY <1>1, <2>1, HeapTicked
    <2>3. Fired' = {t \in Timers : promised[t] # None /\ promised[t] <= now}
      <3>1. Fired' = {t \in TH!Held(heap) \ TH!Held(heap') : heap.cb_func[t]}
        BY <1>1, <2>1 DEF Fired
      <3>2. \A t \in TH!Held(heap) : t \in TH!Held(heap') <=> ~(heap.expire[t] <= now)
        BY <1>1, <1>2, <2>2
      <3>3. \A t \in Timers : t \in Fired' <=> t \in TH!Held(heap) /\ heap.cb_func[t] /\ heap.expire[t] <= now
        BY <1>2, <3>1, <3>2
      <3>4. \A t \in Timers : promised[t] # None <=> t \in TH!Held(heap) /\ heap.cb_func[t]
        BY <1>1, <1>2
      <3>5. Fired' \subseteq Timers
        BY <1>2, <3>1
      <3> HIDE DEF Fired
      <3> QED
        BY <1>1, <3>3, <3>4, <3>5
    <2>4. HeapOk'
      <3>1. \A x \in Timers :
             promised'[x] = IF x \in TH!Held(heap') /\ heap'.cb_func[x] THEN heap'.expire[x] ELSE None
        <4> SUFFICES ASSUME NEW x \in Timers
                     PROVE promised'[x] = IF x \in TH!Held(heap') /\ heap'.cb_func[x] THEN heap'.expire[x] ELSE None
          OBVIOUS
        <4>1. promised'[x] = IF x \in Fired' THEN None ELSE promised[x]
          BY <2>1
        <4>2. x \in TH!Held(heap) => heap.expire[x] \in Nat
          BY <1>2
        <4> HIDE DEF Fired
        <4> QED
          BY <1>1, <1>2, <2>2, <2>3, <4>1, <4>2
      <3>2. TH!Held(heap)' = TH!Held(heap')
        BY DEF TH!Held
      <3> QED
        BY <2>2, <3>1, <3>2 DEF HeapOk
    <2>5. Service!Fire
      BY <1>1, <2>1, <2>3 DEF Service!Fire
    <2> QED
      BY <2>4, <2>5 DEF ServiceStep, Service!ServiceNext
  <1> QED
    BY <1>3, <1>4, <1>5, <1>6, <1>7 DEF Next, Calls, Cancels, ListAdd, ListAdjust, ListDel, WheelAdd, WheelDel

(* So the heap keeps its promises all along. *)
LEMMA HeapKept == Spec => []HeapInv
  <1>1. HeapInv /\ [Next]_vars => HeapInv'
    <2> SUFFICES ASSUME HeapInv, [Next]_vars PROVE HeapInv'
      OBVIOUS
    <2>1. ClientOk' /\ uses' = uses
      BY ClientKeeps DEF HeapInv
    <2>2. CASE uses = "heap"
      BY <2>1, <2>2, HeapSteps DEF HeapInv
    <2>3. CASE uses # "heap"
      BY <2>1, <2>3, HeapStays DEF HeapInv, HeapOk
    <2> QED
      BY <2>2, <2>3
  <1> QED
    BY HeapInitially, <1>1, PTL DEF Spec

(* The initial states are those of the service. *)
LEMMA ServiceStarts == HeapInv /\ Init => Service!ServiceInit
  BY DEF HeapInv, ClientOk, Init, WL!ListInit, YL!ListInit, TW!WheelInit, TH!HeapInit, Service!ServiceInit, Fired

-----------------------------------------------------------------------------
(* 11-5tw_timer.h.  The timers C are on the wheel: each has a height r, and  *)
(* next goes down to the one below in its slot, which starts at the highest. *)
Slots == 0 .. N - 1
Ends == Timers \cup {NULL, Freed}
TidyAt(sl, ts, nx, pv, C, r) ==
    /\ sl \in [Slots -> Timers \cup {NULL}] /\ ts \in [Timers -> Slots] /\ nx \in [Timers -> Ends] /\ pv \in [Timers -> Ends]
    /\ C \in SUBSET Timers /\ r \in [Timers -> Nat]
    /\ \A x \in Timers \ C : nx[x] = Freed
    /\ \A x \in C : nx[x] \in C \cup {NULL}
    /\ \A x \in C : nx[x] \in C => /\ ts[nx[x]] = ts[x] /\ r[nx[x]] < r[x]
                                  /\ \A y \in C : ts[y] = ts[x] => r[x] <= r[y] \/ r[y] <= r[nx[x]]
    /\ \A x \in C : nx[x] = NULL => \A y \in C : ts[y] = ts[x] => r[x] <= r[y]
    /\ \A x, y \in C : ts[x] = ts[y] /\ r[x] = r[y] => x = y
    /\ \A x \in C : IF sl[ts[x]] = x THEN pv[x] = NULL ELSE pv[x] \in C /\ nx[pv[x]] = x
    /\ \A s \in Slots : IF sl[s] = NULL THEN \A y \in C : ts[y] # s
                        ELSE sl[s] \in C /\ ts[sl[s]] = s /\ \A y \in C : ts[y] = s => r[y] <= r[sl[s]]

(* What is assumed of the constants. *)
LEMMA NamesDiffer == /\ NULL \notin Timers /\ Freed \notin Timers /\ NULL # Freed /\ N \in Nat \ {0} /\ IsFiniteSet(Timers)
                     /\ None \notin Nat /\ TI \in Nat \ {0}
  BY ContainersAssumption

(* The place with the least height where something holds. *)
LEMMA Lowest ==
  ASSUME NEW r \in [Timers -> Nat], NEW S \in SUBSET Timers, S # {}
  PROVE  \E z \in S : \A y \in S : r[z] <= r[y]
  <1> DEFINE T == {r[y] : y \in S}
  <1>1. T \in SUBSET Nat /\ T # {}
    OBVIOUS
  <1>2. PICK m \in T : \A k \in T : m <= k
    <2> HIDE DEF T
    <2> QED
      BY <1>1, Least
  <1> QED
    BY <1>2

(* Following next from the first timer of a slot finds the timers of it. *)
FromEq(f, nx) == f = [x \in Ends |-> IF x \notin Timers THEN {} ELSE {x} \cup f[nx[x]]]
Low(ts, C, r, x) == {y \in C : ts[y] = ts[x] /\ r[y] <= r[x]}

(* The timers below and at x: x alone, or x and those at next. *)
LEMMA FromStep ==
  ASSUME NEW sl, NEW ts, NEW nx, NEW pv, NEW C, NEW r, TidyAt(sl, ts, nx, pv, C, r), NEW x \in C
  PROVE  /\ nx[x] = NULL => Low(ts, C, r, x) = {x}
         /\ nx[x] # NULL => nx[x] \in C /\ r[nx[x]] < r[x] /\ Low(ts, C, r, x) = {x} \cup Low(ts, C, r, nx[x])
  <1>1. /\ C \in SUBSET Timers /\ r \in [Timers -> Nat] /\ \A y \in C : r[y] \in Nat /\ y \in Timers
        /\ \A y \in C : ts[x] = ts[y] /\ r[x] = r[y] => x = y
    BY DEF TidyAt
  <1>2. CASE nx[x] = NULL
    <2>1. \A y \in C : ts[y] = ts[x] => r[x] <= r[y]
      BY <1>2 DEF TidyAt
    <2>2. \A y \in C : ts[y] = ts[x] /\ r[y] <= r[x] => y = x
      BY <1>1, <2>1
    <2> QED
      BY <1>1, <1>2, <2>2 DEF Low
  <1>3. CASE nx[x] # NULL
    <2>1. nx[x] \in C
      BY <1>3 DEF TidyAt
    <2>2. /\ ts[nx[x]] = ts[x] /\ r[nx[x]] < r[x] /\ r[nx[x]] \in Nat /\ r[x] \in Nat
          /\ \A y \in C : ts[y] = ts[x] => r[x] <= r[y] \/ r[y] <= r[nx[x]]
      BY <1>1, <2>1 DEF TidyAt
    <2>3. \A y \in C : ts[y] = ts[x] => (r[y] <= r[x] <=> y = x \/ r[y] <= r[nx[x]])
      BY <1>1, <2>2
    <2>4. Low(ts, C, r, x) = {x} \cup Low(ts, C, r, nx[x])
      BY <2>2, <2>3 DEF Low
    <2> QED
      BY <1>3, <2>1, <2>2, <2>4
  <1> QED
    BY <1>2, <1>3

(* The recursive function that follows next exists, as the heights go down. *)
LEMMA FromExists ==
  ASSUME NEW sl, NEW ts, NEW nx, NEW pv, NEW C, NEW r, TidyAt(sl, ts, nx, pv, C, r)
  PROVE  \E f : FromEq(f, nx)
  <1> DEFINE g == [x \in Ends |-> IF x \in C THEN Low(ts, C, r, x) ELSE IF x \in Timers THEN {x} ELSE {}]
  <1>1. /\ C \subseteq Timers /\ Timers \subseteq Ends /\ NULL \in Ends /\ Freed \in Ends /\ NULL \notin Timers /\ Freed \notin Timers
        /\ \A x \in Timers \ C : nx[x] = Freed
    BY NamesDiffer DEF TidyAt, Ends
  <1>2. g[NULL] = {} /\ g[Freed] = {} /\ \A x \in C : g[x] = Low(ts, C, r, x)
    BY <1>1
  <1>3. \A x \in Timers \ C : g[x] = {x}
    BY <1>1
  <1>4. \A x \in Ends \ Timers : g[x] = {}
    BY <1>1
  <1>5. g = [x \in Ends |-> g[x]]
    OBVIOUS
  <1> HIDE DEF g
  <1>6. ASSUME NEW x \in Ends PROVE g[x] = IF x \notin Timers THEN {} ELSE {x} \cup g[nx[x]]
    <2>1. CASE x \notin Timers
      BY <1>4, <2>1
    <2>2. CASE x \in Timers \ C
      BY <1>1, <1>2, <1>3, <2>2
    <2>3. CASE x \in C /\ nx[x] = NULL
      <3>1. Low(ts, C, r, x) = {x}
        BY <2>3, FromStep
      <3> QED
        BY <1>1, <1>2, <2>3, <3>1
    <2>4. CASE x \in C /\ nx[x] # NULL
      <3>1. nx[x] \in C /\ Low(ts, C, r, x) = {x} \cup Low(ts, C, r, nx[x])
        BY <2>4, FromStep
      <3> QED
        BY <1>1, <1>2, <2>4, <3>1
    <2> QED
      BY <2>1, <2>2, <2>3, <2>4
  <1>7. g = [x \in Ends |-> IF x \notin Timers THEN {} ELSE {x} \cup g[nx[x]]]
    BY <1>5, <1>6
  <1> QED
    BY <1>7 DEF FromEq

(* Whatever the function, it finds the timers of the slot that are not     *)
(* higher.                                                                 *)
LEMMA FromIs ==
  ASSUME NEW sl, NEW ts, NEW nx, NEW pv, NEW C, NEW r, TidyAt(sl, ts, nx, pv, C, r), NEW f, FromEq(f, nx)
  PROVE  f[NULL] = {} /\ \A x \in C : f[x] = Low(ts, C, r, x)
  <1>1. f[NULL] = {} /\ \A x \in Timers : f[x] = {x} \cup f[nx[x]]
    BY NamesDiffer DEF FromEq, Ends
  <1> DEFINE S == {x \in C : f[x] # Low(ts, C, r, x)}
  <1> SUFFICES ASSUME S # {} PROVE FALSE
    BY <1>1
  <1>2. S \in SUBSET Timers /\ r \in [Timers -> Nat] /\ C \in SUBSET Timers
    BY DEF TidyAt
  <1>3. PICK x \in S : \A y \in S : r[x] <= r[y]
    <2> HIDE DEF S
    <2> QED
      BY <1>2, Lowest
  <1>4. x \in C /\ f[x] # Low(ts, C, r, x) /\ f[x] = {x} \cup f[nx[x]]
    BY <1>1, <1>2
  <1>5. CASE nx[x] = NULL
    BY <1>1, <1>4, <1>5, FromStep
  <1>6. CASE nx[x] # NULL
    <2>1. nx[x] \in C /\ r[nx[x]] < r[x] /\ Low(ts, C, r, x) = {x} \cup Low(ts, C, r, nx[x])
      BY <1>4, <1>6, FromStep
    <2>2. r[nx[x]] \in Nat /\ r[x] \in Nat
      BY <1>2, <1>4, <2>1
    <2>3. nx[x] \notin S
      BY <1>3, <2>1, <2>2
    <2>4. f[nx[x]] = Low(ts, C, r, nx[x])
      BY <2>1, <2>3
    <2> QED
      BY <1>4, <2>1, <2>4
  <1> QED
    BY <1>5, <1>6

OnSlot(w, C, s) == {x \in C : w.time_slot[x] = s}

(* So InSlot are the timers of C with that slot. *)
LEMMA InSlotIs ==
  ASSUME NEW w, NEW C, NEW r, TidyAt(w.slots, w.time_slot, w.next, w.prev, C, r), NEW s \in Slots
  PROVE  TW!InSlot(w, s) = OnSlot(w, C, s)
  <1> DEFINE F == CHOOSE f : FromEq(f, w.next)
  <1>1. TW!InSlot(w, s) = F[w.slots[s]]
    BY Zenon DEF TW!InSlot, FromEq, Ends
  <1>2. FromEq(F, w.next)
    BY FromExists
  <1> HIDE DEF F
  <1>3. F[NULL] = {} /\ \A x \in C : F[x] = Low(w.time_slot, C, r, x)
    BY <1>2, FromIs
  <1>4. CASE w.slots[s] = NULL
    <2>1. \A y \in C : w.time_slot[y] # s
      BY <1>4 DEF TidyAt
    <2> QED
      BY <1>1, <1>3, <1>4, <2>1 DEF OnSlot
  <1>5. CASE w.slots[s] # NULL
    <2>1. w.slots[s] \in C /\ w.time_slot[w.slots[s]] = s /\ \A y \in C : w.time_slot[y] = s => r[y] <= r[w.slots[s]]
      BY <1>5 DEF TidyAt
    <2> QED
      BY <1>1, <1>3, <2>1 DEF Low, OnSlot
  <1> QED
    BY <1>4, <1>5

WheelType == [slots : [Slots -> Timers \cup {NULL}], cur_slot : Slots, rotation : [Timers -> Nat], time_slot : [Timers -> Slots],
              next : [Timers -> Ends], prev : [Timers -> Ends]]
SameRecord(m) == m = [slots |-> m.slots, cur_slot |-> m.cur_slot, rotation |-> m.rotation, time_slot |-> m.time_slot,
                      next |-> m.next, prev |-> m.prev]

(* A wheel as a record of its fields. *)
Wh(sl, c, ro, ts, nx, pv) == [slots |-> sl, cur_slot |-> c, rotation |-> ro, time_slot |-> ts, next |-> nx, prev |-> pv]
WhF(sl, c, ro, ts, nx, pv) ==
    [i \in {"slots", "cur_slot", "rotation", "time_slot", "next", "prev"} |->
        IF i = "slots" THEN sl ELSE IF i = "cur_slot" THEN c ELSE IF i = "rotation" THEN ro
        ELSE IF i = "time_slot" THEN ts ELSE IF i = "next" THEN nx ELSE pv]
(* The fields of a record, and what freeing a timer makes of them. *)
LEMMA WhIs == ASSUME NEW sl, NEW c, NEW ro, NEW ts, NEW nx, NEW pv PROVE Wh(sl, c, ro, ts, nx, pv) = WhF(sl, c, ro, ts, nx, pv)
BY DEF Wh, WhF

Dropped(w, t) == [w EXCEPT !.next[t] = Freed, !.prev[t] = Freed, !.rotation[t] = 0, !.time_slot[t] = 0]
Drops(w, t) ==
    Dropped(w, t) = Wh(w.slots, w.cur_slot, Set(w.rotation, t, 0), Set(w.time_slot, t, 0), Set(w.next, t, Freed), Set(w.prev, t, Freed))

LEMMA WhDropped ==
  ASSUME NEW w, SameRecord(w), NEW t
  PROVE  Drops(w, t)
  <1> DEFINE sl == w.slots
             c == w.cur_slot
             ro == w.rotation
             ts == w.time_slot
             nx == w.next
             pv == w.prev
  <1>0. w = WhF(sl, c, ro, ts, nx, pv)
    BY WhIs, Zenon DEF SameRecord, Wh
  <1>1. w.slots = sl /\ w.cur_slot = c /\ w.rotation = ro /\ w.time_slot = ts /\ w.next = nx /\ w.prev = pv
    OBVIOUS
  <1> HIDE DEF sl, c, ro, ts, nx, pv
  <1> DEFINE a == [ro EXCEPT ![t] = 0]
             b == [ts EXCEPT ![t] = 0]
             d == [nx EXCEPT ![t] = Freed]
             e == [pv EXCEPT ![t] = Freed]
  <1>2. Dropped(w, t) = [w EXCEPT !.next = d, !.prev = e, !.rotation = a, !.time_slot = b]
    BY <1>1 DEF Dropped
  <1> HIDE DEF a, b, d, e
  <1>3. [w EXCEPT !.next = d, !.prev = e, !.rotation = a, !.time_slot = b] = WhF(sl, c, a, b, d, e)
    BY <1>0 DEF WhF
  <1>4. Dropped(w, t) = Wh(sl, c, a, b, d, e)
    BY <1>2, <1>3, WhIs
  <1>5. a = Set(ro, t, 0) /\ b = Set(ts, t, 0) /\ d = Set(nx, t, Freed) /\ e = Set(pv, t, Freed)
    BY DEF a, b, d, e, Set
  <1> QED
    BY <1>1, <1>4, <1>5 DEF Drops

LEMMA IsWheel ==
  ASSUME NEW m, SameRecord(m), m.slots \in [Slots -> Timers \cup {NULL}], m.cur_slot \in Slots, m.rotation \in [Timers -> Nat],
         m.time_slot \in [Timers -> Slots], m.next \in [Timers -> Ends], m.prev \in [Timers -> Ends]
  PROVE  m \in WheelType
  BY DEF WheelType, SameRecord

LEMMA WheelFields ==
  ASSUME NEW m \in WheelType
  PROVE  /\ SameRecord(m) /\ m.slots \in [Slots -> Timers \cup {NULL}] /\ m.cur_slot \in Slots /\ m.rotation \in [Timers -> Nat]
         /\ m.time_slot \in [Timers -> Slots] /\ m.next \in [Timers -> Ends] /\ m.prev \in [Timers -> Ends]
  BY DEF WheelType, SameRecord

(* What unlinking t changes in the pointers. *)
Unlinked(w, t, m) ==
    LET s == w.time_slot[t]  after == w.next[t]  before == w.prev[t]  first == t = w.slots[w.time_slot[t]] IN
    /\ m \in WheelType /\ m.cur_slot = w.cur_slot
    /\ m.rotation = [w.rotation EXCEPT ![t] = 0] /\ m.time_slot = [w.time_slot EXCEPT ![t] = 0]
    /\ m.slots = IF first THEN [w.slots EXCEPT ![s] = after] ELSE w.slots
    /\ m.next[t] = Freed
    /\ \A x \in Timers : x # t => /\ m.next[x] = IF ~first /\ x = before THEN after ELSE w.next[x]
                                 /\ m.prev[x] = IF x = after THEN (IF first THEN NULL ELSE before) ELSE w.prev[x]

(* del_timer of the wheel: which pointers Unlink changes, for the first of *)
(* a slot and for any other.                                               *)
LEMMA UnlinkDoes ==
  ASSUME NEW w \in WheelType, NEW t \in Timers, w.next[t] \in Timers \cup {NULL}, w.next[t] # t,
         t # w.slots[w.time_slot[t]] => w.prev[t] \in Timers /\ w.prev[t] # t,
         NEW m, m = TW!Unlink(w, t)
  PROVE  Unlinked(w, t, m)
  <1> DEFINE s == w.time_slot[t]
             after == w.next[t]
             before == w.prev[t]
             first == t = w.slots[s]
             out == IF t = w.slots[s] THEN [w EXCEPT !.slots[s] = after] ELSE [w EXCEPT !.next[before] = after]
             back == IF after = NULL THEN out ELSE [out EXCEPT !.prev[after] = IF t = w.slots[s] THEN NULL ELSE before]
  <1>1. m = [back EXCEPT !.next[t] = Freed, !.prev[t] = Freed, !.rotation[t] = 0, !.time_slot[t] = 0]
    BY Zenon DEF TW!Unlink
  <1>2. /\ SameRecord(w) /\ w.slots \in [Slots -> Timers \cup {NULL}] /\ w.cur_slot \in Slots /\ w.rotation \in [Timers -> Nat]
        /\ w.time_slot \in [Timers -> Slots] /\ w.next \in [Timers -> Ends] /\ w.prev \in [Timers -> Ends]
    BY WheelFields
  <1>3. s \in Slots /\ after \in Ends /\ before \in Ends /\ 0 \in Slots /\ Freed \in Ends /\ NULL \in Ends /\ NULL \notin Timers
    BY <1>2, NamesDiffer DEF Slots, Ends
  <1>4. SameRecord(out) /\ out.cur_slot = w.cur_slot /\ out.rotation = w.rotation /\ out.time_slot = w.time_slot /\ out.prev = w.prev
    <2>1. CASE first
      <3>1. out = [w EXCEPT !.slots[s] = after]
        BY <2>1
      <3> HIDE DEF out, s, after, before
      <3> QED
        BY <1>2, <3>1 DEF SameRecord
    <2>2. CASE ~first
      <3>1. out = [w EXCEPT !.next[before] = after]
        BY <2>2
      <3> HIDE DEF out, s, after, before
      <3> QED
        BY <1>2, <3>1 DEF SameRecord
    <2> QED
      BY <2>1, <2>2
  <1>5. /\ out.slots = (IF first THEN [w.slots EXCEPT ![s] = after] ELSE w.slots)
        /\ out.next = IF first THEN w.next ELSE [w.next EXCEPT ![before] = after]
    <2>1. CASE first
      <3>1. out = [w EXCEPT !.slots[s] = after]
        BY <2>1
      <3> HIDE DEF out, s, after, before
      <3>2. out.slots = [w.slots EXCEPT ![s] = after] /\ out.next = w.next
        BY <1>2, <3>1 DEF SameRecord
      <3> QED
        BY <2>1, <3>2
    <2>2. CASE ~first
      <3>1. out = [w EXCEPT !.next[before] = after]
        BY <2>2
      <3> HIDE DEF out, s, after, before
      <3>2. out.slots = w.slots /\ out.next = [w.next EXCEPT ![before] = after]
        BY <1>2, <3>1 DEF SameRecord
      <3> QED
        BY <2>2, <3>2
    <2> QED
      BY <2>1, <2>2
  <1> HIDE DEF out
  <1>6. /\ SameRecord(back) /\ back.cur_slot = w.cur_slot /\ back.rotation = w.rotation /\ back.time_slot = w.time_slot
        /\ back.slots = out.slots /\ back.next = out.next
        /\ back.prev = IF after = NULL THEN w.prev ELSE [w.prev EXCEPT ![after] = IF first THEN NULL ELSE before]
    <2>1. CASE after = NULL
      <3>1. back = out
        BY <2>1
      <3> HIDE DEF back, after
      <3> QED
        BY <1>4, <2>1, <3>1
    <2>2. CASE after # NULL
      <3> DEFINE p == IF first THEN NULL ELSE before
      <3>1. back = [out EXCEPT !.prev[after] = p]
        BY <2>2
      <3> HIDE DEF back, after, p
      <3>2. /\ SameRecord(back) /\ back.cur_slot = w.cur_slot /\ back.rotation = w.rotation /\ back.time_slot = w.time_slot
            /\ back.slots = out.slots /\ back.next = out.next /\ back.prev = [w.prev EXCEPT ![after] = p]
        BY <1>4, <3>1 DEF SameRecord
      <3> QED
        BY <2>2, <3>2 DEF p
    <2> QED
      BY <2>1, <2>2
  <1> HIDE DEF back
  <1>7. /\ SameRecord(m) /\ m.cur_slot = w.cur_slot /\ m.rotation = [w.rotation EXCEPT ![t] = 0]
        /\ m.time_slot = [w.time_slot EXCEPT ![t] = 0] /\ m.slots = back.slots
        /\ m.next = [back.next EXCEPT ![t] = Freed] /\ m.prev = [back.prev EXCEPT ![t] = Freed]
    <2>1. Drops(back, t)
      BY <1>6, WhDropped
    <2>2. m = Dropped(back, t)
      BY <1>1, Zenon DEF Dropped
    <2>3. m = Wh(back.slots, back.cur_slot, Set(back.rotation, t, 0), Set(back.time_slot, t, 0), Set(back.next, t, Freed), Set(back.prev, t, Freed))
      BY <2>1, <2>2, Zenon DEF Drops
    <2> DEFINE sl == back.slots
               c == back.cur_slot
               ro == Set(back.rotation, t, 0)
               ts == Set(back.time_slot, t, 0)
               nx == Set(back.next, t, Freed)
               pv == Set(back.prev, t, Freed)
    <2>4. m = Wh(sl, c, ro, ts, nx, pv)
      BY <2>3, Zenon
    <2> HIDE DEF sl, c, ro, ts, nx, pv
    <2>5. SameRecord(m) /\ m.slots = sl /\ m.cur_slot = c /\ m.rotation = ro /\ m.time_slot = ts /\ m.next = nx /\ m.prev = pv
      BY <2>4 DEF Wh, SameRecord
    <2>6. c = w.cur_slot /\ ro = [w.rotation EXCEPT ![t] = 0] /\ ts = [w.time_slot EXCEPT ![t] = 0] /\ sl = back.slots
      BY <1>6 DEF sl, c, ro, ts, Set
    <2>7. nx = [back.next EXCEPT ![t] = Freed] /\ pv = [back.prev EXCEPT ![t] = Freed]
      BY DEF nx, pv, Set
    <2> QED
      BY <2>5, <2>6, <2>7
  <1>8. m.slots = (IF first THEN [w.slots EXCEPT ![s] = after] ELSE w.slots) /\ m.slots \in [Slots -> Timers \cup {NULL}]
    BY <1>2, <1>5, <1>6, <1>7
  <1>9. /\ m.next \in [Timers -> Ends] /\ m.next[t] = Freed
        /\ \A x \in Timers : x # t => m.next[x] = IF ~first /\ x = before THEN after ELSE w.next[x]
    <2>1. back.next = IF first THEN w.next ELSE [w.next EXCEPT ![before] = after]
      BY <1>5, <1>6
    <2> HIDE DEF after, before, first
    <2> QED
      BY <1>2, <1>3, <1>7, <2>1
  <1>10. /\ m.prev \in [Timers -> Ends]
         /\ \A x \in Timers : x # t => m.prev[x] = IF x = after THEN (IF first THEN NULL ELSE before) ELSE w.prev[x]
    <2> HIDE DEF after, before, first
    <2> QED
      BY <1>2, <1>3, <1>6, <1>7
  <1>11. m.rotation \in [Timers -> Nat] /\ m.time_slot \in [Timers -> Slots]
    BY <1>2, <1>3, <1>7
  <1>12. m \in WheelType
    BY <1>2, <1>7, <1>8, <1>9, <1>10, <1>11, IsWheel
  <1> QED
    BY <1>7, <1>8, <1>9, <1>10, <1>12 DEF Unlinked

(* The one above t in its slot, if there is one, is the one prev names. *)
LEMMA AboveIs ==
  ASSUME NEW sl, NEW ts, NEW nx, NEW pv, NEW C, NEW r, TidyAt(sl, ts, nx, pv, C, r), NEW t \in C
  PROVE  /\ sl[ts[t]] \in C /\ ts[sl[ts[t]]] = ts[t] /\ \A y \in C : ts[y] = ts[t] => r[y] <= r[sl[ts[t]]]
         /\ nx[t] # t
         /\ t # sl[ts[t]] => pv[t] \in C /\ nx[pv[t]] = t /\ ts[pv[t]] = ts[t] /\ r[t] < r[pv[t]] /\ pv[t] # t
         /\ \A x \in C : nx[x] = t => t # sl[ts[t]] /\ x = pv[t]
  <1>1. /\ C \in SUBSET Timers /\ r \in [Timers -> Nat] /\ \A y \in C : r[y] \in Nat /\ y \in Timers /\ y # NULL
        /\ \A x, y \in C : ts[x] = ts[y] /\ r[x] = r[y] => x = y
        /\ ts[t] \in Slots
    BY NamesDiffer DEF TidyAt
  <1>2. \A x \in C : nx[x] \in C => /\ ts[nx[x]] = ts[x] /\ r[nx[x]] < r[x]
                                  /\ \A y \in C : ts[y] = ts[x] => r[x] <= r[y] \/ r[y] <= r[nx[x]]
    BY DEF TidyAt
  <1>3. /\ sl[ts[t]] \in C /\ ts[sl[ts[t]]] = ts[t] /\ \A y \in C : ts[y] = ts[t] => r[y] <= r[sl[ts[t]]]
    BY <1>1 DEF TidyAt
  <1>4. t # sl[ts[t]] => pv[t] \in C /\ nx[pv[t]] = t
    BY DEF TidyAt
  <1>5. \A x \in C : nx[x] = t => ts[x] = ts[t] /\ r[t] < r[x] /\ \A y \in C : ts[y] = ts[t] => r[x] <= r[y] \/ r[y] <= r[t]
    BY <1>2
  <1>6. nx[t] # t
    BY <1>1, <1>5
  <1>7. t # sl[ts[t]] => ts[pv[t]] = ts[t] /\ r[t] < r[pv[t]] /\ pv[t] # t
    BY <1>1, <1>4, <1>5
  <1>8. ASSUME NEW x \in C, nx[x] = t PROVE t # sl[ts[t]] /\ x = pv[t]
    <2>1. ts[x] = ts[t] /\ r[t] < r[x]
      BY <1>5, <1>8
    <2>2. t # sl[ts[t]]
      BY <1>1, <1>3, <2>1
    <2> DEFINE z == pv[t]
    <2>3. z \in C /\ nx[z] = t /\ ts[z] = ts[t] /\ r[t] < r[z]
      BY <1>4, <1>7, <2>2
    <2> HIDE DEF z
    <2>4. (r[x] <= r[z] \/ r[z] <= r[t]) /\ (r[z] <= r[x] \/ r[x] <= r[t])
      BY <1>5, <1>8, <2>1, <2>3
    <2>5. r[x] = r[z]
      BY <1>1, <2>1, <2>3, <2>4
    <2> QED
      BY <1>1, <2>1, <2>2, <2>3, <2>5 DEF z
  <1> QED
    BY <1>3, <1>4, <1>6, <1>7, <1>8

(* Taking t out leaves the others tidy. *)
TookOut(sl, ts, nx, pv, t, sm, tm, nm, pm) ==
    LET s == ts[t]  after == nx[t]  before == pv[t]  first == (t = sl[s]) IN
    /\ sm \in [Slots -> Timers \cup {NULL}] /\ tm \in [Timers -> Slots] /\ nm \in [Timers -> Ends] /\ pm \in [Timers -> Ends]
    /\ tm = [ts EXCEPT ![t] = 0] /\ sm = (IF first THEN [sl EXCEPT ![s] = after] ELSE sl) /\ nm[t] = Freed
    /\ \A x \in Timers : x # t => /\ nm[x] = (IF ~first /\ x = before THEN after ELSE nx[x])
                                   /\ pm[x] = (IF x = after THEN (IF first THEN NULL ELSE before) ELSE pv[x])

(* Taking one out keeps the heights of the others. *)
LEMMA OutTidy ==
  ASSUME NEW sl, NEW ts, NEW nx, NEW pv, NEW C, NEW r, TidyAt(sl, ts, nx, pv, C, r), NEW t \in C,
         NEW sm, NEW tm, NEW nm, NEW pm, TookOut(sl, ts, nx, pv, t, sm, tm, nm, pm)
  PROVE  TidyAt(sm, tm, nm, pm, C \ {t}, r)
  <1> DEFINE s == ts[t]
             after == nx[t]
             before == pv[t]
             first == (t = sl[s])
             D == C \ {t}
  <1>0. /\ sm \in [Slots -> Timers \cup {NULL}] /\ tm \in [Timers -> Slots] /\ nm \in [Timers -> Ends] /\ pm \in [Timers -> Ends]
        /\ tm = [ts EXCEPT ![t] = 0] /\ sm = (IF first THEN [sl EXCEPT ![s] = after] ELSE sl) /\ nm[t] = Freed
        /\ \A x \in Timers : x # t => /\ nm[x] = (IF ~first /\ x = before THEN after ELSE nx[x])
                                       /\ pm[x] = (IF x = after THEN (IF first THEN NULL ELSE before) ELSE pv[x])
        /\ s = ts[t] /\ after = nx[t] /\ before = pv[t] /\ first \in BOOLEAN /\ (first <=> t = sl[s])
    BY DEF TookOut
  <1> HIDE DEF s, after, before, first
  <1> USE <1>0
  <1>1. /\ C \in SUBSET Timers /\ r \in [Timers -> Nat] /\ \A y \in C : r[y] \in Nat /\ y \in Timers /\ y # NULL
        /\ \A x, y \in C : ts[x] = ts[y] /\ r[x] = r[y] => x = y
        /\ s \in Slots /\ ts \in [Timers -> Slots] /\ sl \in [Slots -> Timers \cup {NULL}]
        /\ \A x \in Timers \ C : nx[x] = Freed
    BY NamesDiffer DEF TidyAt
  <1>2. /\ sl[s] \in C /\ ts[sl[s]] = s /\ \A y \in C : ts[y] = s => r[y] <= r[sl[s]]
        /\ after # t
        /\ ~first => before \in C /\ nx[before] = t /\ ts[before] = s /\ r[t] < r[before] /\ before # t
        /\ \A x \in C : nx[x] = t => ~first /\ x = before
    BY AboveIs
  <1>3. /\ after \in C \cup {NULL}
        /\ after \in C => ts[after] = s /\ r[after] < r[t] /\ \A y \in C : ts[y] = s => r[t] <= r[y] \/ r[y] <= r[after]
        /\ after = NULL => \A y \in C : ts[y] = s => r[t] <= r[y]
    BY DEF TidyAt
  <1>4. \A x \in C : /\ nx[x] \in C \cup {NULL}
                     /\ nx[x] \in C => /\ ts[nx[x]] = ts[x] /\ r[nx[x]] < r[x]
                                      /\ \A y \in C : ts[y] = ts[x] => r[x] <= r[y] \/ r[y] <= r[nx[x]]
                     /\ nx[x] = NULL => \A y \in C : ts[y] = ts[x] => r[x] <= r[y]
                     /\ IF sl[ts[x]] = x THEN pv[x] = NULL ELSE pv[x] \in C /\ nx[pv[x]] = x
    BY DEF TidyAt
  <1>5. \A x \in D : /\ x \in C /\ x # t /\ x \in Timers /\ tm[x] = ts[x]
                     /\ nm[x] = (IF ~first /\ x = before THEN after ELSE nx[x])
                     /\ pm[x] = (IF x = after THEN (IF first THEN NULL ELSE before) ELSE pv[x])
    BY <1>1
  <1>6. NULL \notin C /\ NULL \notin D /\ D \in SUBSET Timers
    BY <1>1
  <1>7. \A x \in Timers \ D : nm[x] = Freed
    BY <1>1, <1>2, <1>5
  <1>8. \A x \in D : nm[x] \in D \cup {NULL}
    BY <1>2, <1>3, <1>4, <1>5
  <1>9. ASSUME NEW x \in D, nm[x] \in D
        PROVE  /\ tm[nm[x]] = tm[x] /\ r[nm[x]] < r[x]
               /\ \A y \in D : tm[y] = tm[x] => r[x] <= r[y] \/ r[y] <= r[nm[x]]
    <2>1. CASE ~first /\ x = before
      <3>1. nm[x] = after /\ after \in D /\ ts[after] = s /\ r[after] < r[t] /\ r[t] < r[x] /\ ts[x] = s
        BY <1>2, <1>3, <1>5, <1>6, <1>9, <2>1
      <3>2. r[x] \in Nat /\ r[t] \in Nat /\ r[after] \in Nat
        BY <1>1, <3>1
      <3>3. ASSUME NEW y \in D, tm[y] = tm[x] PROVE r[x] <= r[y] \/ r[y] <= r[after]
        <4>1. ts[y] = s /\ y \in C /\ y # t /\ r[y] \in Nat
          BY <1>1, <1>5, <3>1, <3>3
        <4>2. r[x] <= r[y] \/ r[y] <= r[t]
          BY <1>2, <1>4, <2>1, <3>1, <4>1
        <4>3. r[t] <= r[y] \/ r[y] <= r[after]
          BY <1>3, <3>1, <4>1
        <4>4. r[y] # r[t]
          BY <1>1, <4>1
        <4> QED
          BY <3>2, <4>1, <4>2, <4>3, <4>4
      <3> QED
        BY <1>5, <3>1, <3>2, <3>3
    <2>2. CASE first \/ x # before
      <3>1. nm[x] = nx[x] /\ nx[x] \in C
        BY <1>5, <1>9, <2>2
      <3> QED
        BY <1>4, <1>5, <1>9, <3>1
    <2> QED
      BY <2>1, <2>2
  <1>10. ASSUME NEW x \in D, nm[x] = NULL PROVE \A y \in D : tm[y] = tm[x] => r[x] <= r[y]
    <2>1. CASE ~first /\ x = before
      <3>1. after = NULL /\ ts[x] = s
        BY <1>2, <1>5, <1>10, <2>1
      <3> SUFFICES ASSUME NEW y \in D, tm[y] = tm[x] PROVE r[x] <= r[y]
        OBVIOUS
      <3>2. ts[y] = s /\ y \in C /\ y # t /\ r[y] \in Nat /\ r[x] \in Nat /\ r[t] \in Nat
        BY <1>1, <1>5, <3>1
      <3>3. r[x] <= r[y] \/ r[y] <= r[t]
        BY <1>2, <1>4, <2>1, <3>1, <3>2
      <3>4. r[t] <= r[y] /\ r[y] # r[t]
        BY <1>1, <1>3, <3>1, <3>2
      <3> QED
        BY <3>2, <3>3, <3>4
    <2>2. CASE first \/ x # before
      BY <1>4, <1>5, <1>10, <2>2
    <2> QED
      BY <2>1, <2>2
  <1>11. \A x, y \in D : tm[x] = tm[y] /\ r[x] = r[y] => x = y
    BY <1>1, <1>5
  <1>12. ASSUME NEW x \in D PROVE IF sm[tm[x]] = x THEN pm[x] = NULL ELSE pm[x] \in D /\ nm[pm[x]] = x
    <2>0. ts[x] \in Slots /\ tm[x] = ts[x] /\ x \in C /\ x # t /\ r[x] \in Nat /\ r[t] \in Nat /\ x # NULL
      BY <1>1, <1>5
    <2>1. CASE x = after /\ first
      <3>1. ts[x] = s /\ sm[s] = x /\ pm[x] = NULL
        BY <1>1, <1>3, <1>5, <2>0, <2>1
      <3> QED
        BY <2>0, <3>1
    <2>2. CASE x = after /\ ~first
      <3>1. ts[x] = s /\ sm = sl /\ pm[x] = before /\ r[x] < r[t] /\ before \in D /\ nm[before] = x
        BY <1>2, <1>3, <1>5, <2>0, <2>2
      <3>2. sl[s] # x
        BY <1>1, <1>2, <2>0, <3>1
      <3> QED
        BY <2>0, <3>1, <3>2
    <2>3. CASE x # after
      <3>1. pm[x] = pv[x] /\ nx[t] # x
        BY <1>5, <2>3
      <3>2. CASE sl[ts[x]] = x
        <4>1. sm[ts[x]] = x
          BY <1>1, <2>0, <3>2
        <4> QED
          BY <1>4, <2>0, <3>1, <3>2, <4>1
      <3>3. CASE sl[ts[x]] # x
        <4>1. pv[x] \in D /\ nx[pv[x]] = x
          BY <1>4, <2>0, <3>1, <3>3
        <4>2. nm[pv[x]] = x
          BY <1>2, <1>5, <2>0, <4>1
        <4>3. sm[ts[x]] # x
          BY <1>1, <2>0, <2>3, <3>3
        <4> QED
          BY <2>0, <3>1, <4>1, <4>2, <4>3
      <3> QED
        BY <3>2, <3>3
    <2> QED
      BY <2>1, <2>2, <2>3
  <1>13. ASSUME NEW k \in Slots
         PROVE  IF sm[k] = NULL THEN \A y \in D : tm[y] # k
                ELSE sm[k] \in D /\ tm[sm[k]] = k /\ \A y \in D : tm[y] = k => r[y] <= r[sm[k]]
    <2>1. IF sl[k] = NULL THEN \A y \in C : ts[y] # k
          ELSE sl[k] \in C /\ ts[sl[k]] = k /\ \A y \in C : ts[y] = k => r[y] <= r[sl[k]]
      BY DEF TidyAt
    <2>2. CASE k # s \/ ~first
      <3>1. sm[k] = sl[k] /\ sl[k] # t
        BY <1>1, <1>6, <2>1, <2>2
      <3> QED
        BY <1>5, <2>1, <3>1
    <2>3. CASE k = s /\ first
      <3>1. sm[k] = after /\ \A y \in D : tm[y] = k => y \in C /\ ts[y] = s /\ r[y] <= r[t] /\ r[y] # r[t] /\ r[y] \in Nat /\ r[t] \in Nat
        BY <1>1, <1>2, <1>5, <2>3
      <3>2. CASE after = NULL
        <4>1. \A y \in D : tm[y] = k => r[t] <= r[y]
          BY <1>3, <3>1, <3>2
        <4>2. \A y \in D : tm[y] # k
          BY <3>1, <4>1
        <4> QED
          BY <3>1, <3>2, <4>2
      <3>3. CASE after # NULL
        <4>1. after \in D /\ ts[after] = s
          BY <1>2, <1>3, <3>3
        <4>2. \A y \in D : tm[y] = k => r[y] <= r[after]
          BY <1>3, <3>1, <4>1
        <4> QED
          BY <1>5, <2>3, <3>1, <3>3, <4>1, <4>2
      <3> QED
        BY <3>2, <3>3
    <2> QED
      BY <2>2, <2>3
  <1> HIDE DEF D
  <1>14. TidyAt(sm, tm, nm, pm, D, r)
    BY <1>1, <1>6, <1>7, <1>8, <1>9, <1>10, <1>11, <1>12, <1>13 DEF TidyAt
  <1> QED
    BY <1>14 DEF D

Tidy(w, C, r) == w \in WheelType /\ TidyAt(w.slots, w.time_slot, w.next, w.prev, C, r)

(* The wheel without the timers of s. *)
Without(w, C, r, s, m) ==
    /\ Tidy(m, C \ s, r) /\ m.cur_slot = w.cur_slot
    /\ \A x \in Timers \ s : m.rotation[x] = w.rotation[x] /\ m.time_slot[x] = w.time_slot[x]

(* Unlink takes t off the wheel, and nothing else. *)
LEMMA UnlinkTidy ==
  ASSUME NEW w, NEW C, NEW r, Tidy(w, C, r), NEW t \in C, NEW m, m = TW!Unlink(w, t)
  PROVE  Without(w, C, r, {t}, m)
  <1>1. w \in WheelType /\ TidyAt(w.slots, w.time_slot, w.next, w.prev, C, r) /\ C \in SUBSET Timers /\ t \in Timers
    BY DEF Tidy, TidyAt
  <1>2. /\ w.next[t] \in C \cup {NULL} /\ w.next[t] # t /\ (t # w.slots[w.time_slot[t]] => w.prev[t] \in C /\ w.prev[t] # t)
    <2>1. w.next[t] \in C \cup {NULL}
      BY <1>1 DEF TidyAt
    <2> QED
      BY <1>1, <2>1, AboveIs
  <1>3. Unlinked(w, t, m)
    BY <1>1, <1>2, UnlinkDoes
  <1>4. m \in WheelType /\ m.cur_slot = w.cur_slot
        /\ m.rotation = [w.rotation EXCEPT ![t] = 0] /\ m.time_slot = [w.time_slot EXCEPT ![t] = 0]
    BY <1>3 DEF Unlinked
  <1>5. /\ m.slots \in [Slots -> Timers \cup {NULL}] /\ m.time_slot \in [Timers -> Slots] /\ m.next \in [Timers -> Ends] /\ m.prev \in [Timers -> Ends]
        /\ w.rotation \in [Timers -> Nat] /\ w.time_slot \in [Timers -> Slots]
    BY <1>1, <1>4, WheelFields
  <1>6. TookOut(w.slots, w.time_slot, w.next, w.prev, t, m.slots, m.time_slot, m.next, m.prev)
    BY <1>3, <1>5 DEF Unlinked, TookOut
  <1>8. TidyAt(m.slots, m.time_slot, m.next, m.prev, C \ {t}, r)
    BY <1>1, <1>6, OutTidy, Zenon
  <1>9. \A x \in Timers : x # t => m.rotation[x] = w.rotation[x] /\ m.time_slot[x] = w.time_slot[x]
    BY <1>4, <1>5
  <1> QED
    BY <1>4, <1>8, <1>9 DEF Tidy, Without

(* A new timer in front of slot q. *)
PutIn(sl, ts, nx, pv, t, q, sm, tm, nm, pm) ==
    /\ sm \in [Slots -> Timers \cup {NULL}] /\ tm \in [Timers -> Slots] /\ nm \in [Timers -> Ends] /\ pm \in [Timers -> Ends]
    /\ sm = [sl EXCEPT ![q] = t] /\ tm = [ts EXCEPT ![t] = q] /\ nm = [nx EXCEPT ![t] = sl[q]]
    /\ pm[t] = NULL /\ \A x \in Timers : x # t => pm[x] = IF x = sl[q] THEN t ELSE pv[x]

(* The new one is the highest. *)
LEMMA InTidy ==
  ASSUME NEW sl, NEW ts, NEW nx, NEW pv, NEW C, NEW r, TidyAt(sl, ts, nx, pv, C, r), NEW t \in Timers, t \notin C,
         NEW q \in Slots, NEW sm, NEW tm, NEW nm, NEW pm, PutIn(sl, ts, nx, pv, t, q, sm, tm, nm, pm)
  PROVE  \E u : TidyAt(sm, tm, nm, pm, C \cup {t}, u)
  <1> DEFINE z == sl[q]
             u == [r EXCEPT ![t] = IF z = NULL THEN 0 ELSE r[z] + 1]
             D == C \cup {t}
  <1>0. /\ sm \in [Slots -> Timers \cup {NULL}] /\ tm \in [Timers -> Slots] /\ nm \in [Timers -> Ends] /\ pm \in [Timers -> Ends]
        /\ sm = [sl EXCEPT ![q] = t] /\ tm = [ts EXCEPT ![t] = q] /\ nm = [nx EXCEPT ![t] = z]
        /\ pm[t] = NULL /\ (\A x \in Timers : x # t => pm[x] = IF x = z THEN t ELSE pv[x])
        /\ z = sl[q] /\ u = [r EXCEPT ![t] = IF z = NULL THEN 0 ELSE r[z] + 1]
    BY DEF PutIn
  <1> HIDE DEF z, u
  <1> USE <1>0
  <1>1. /\ C \in SUBSET Timers /\ r \in [Timers -> Nat] /\ NULL \notin Timers
        /\ \A x, y \in C : ts[x] = ts[y] /\ r[x] = r[y] => x = y
        /\ ts \in [Timers -> Slots] /\ nx \in [Timers -> Ends] /\ sl \in [Slots -> Timers \cup {NULL}]
        /\ \A x \in Timers \ C : nx[x] = Freed
    BY NamesDiffer DEF TidyAt
  <1>2. IF z = NULL THEN \A y \in C : ts[y] # q ELSE z \in C /\ ts[z] = q /\ \A y \in C : ts[y] = q => r[y] <= r[z]
    BY DEF TidyAt
  <1>3. \A x \in C : /\ nx[x] \in C \cup {NULL}
                     /\ nx[x] \in C => /\ ts[nx[x]] = ts[x] /\ r[nx[x]] < r[x]
                                      /\ \A y \in C : ts[y] = ts[x] => r[x] <= r[y] \/ r[y] <= r[nx[x]]
                     /\ nx[x] = NULL => \A y \in C : ts[y] = ts[x] => r[x] <= r[y]
                     /\ IF sl[ts[x]] = x THEN pv[x] = NULL ELSE pv[x] \in C /\ nx[pv[x]] = x
    BY DEF TidyAt
  <1>4. u \in [Timers -> Nat] /\ u[t] \in Nat /\ \A x \in C : u[x] = r[x] /\ u[x] \in Nat /\ r[x] \in Nat
    <2> DEFINE k == IF z = NULL THEN 0 ELSE r[z] + 1
    <2>1. k \in Nat
      BY <1>1, <1>2
    <2>2. u = [r EXCEPT ![t] = k]
      OBVIOUS
    <2> HIDE DEF k
    <2> QED
      BY <1>1, <2>1, <2>2
  <1>5. /\ tm[t] = q /\ nm[t] = z /\ z # t
        /\ \A x \in C : x # t /\ x \in Timers /\ tm[x] = ts[x] /\ nm[x] = nx[x] /\ x # NULL /\ ts[x] \in Slots
    BY <1>1, <1>2
  <1>6. \A y \in C : ts[y] = q => z \in C /\ u[y] <= u[z] /\ u[y] < u[t] /\ ts[z] = q
    <2> SUFFICES ASSUME NEW y \in C, ts[y] = q PROVE z \in C /\ u[y] <= u[z] /\ u[y] < u[t] /\ ts[z] = q
      OBVIOUS
    <2>1. z # NULL /\ z \in C /\ r[y] <= r[z] /\ ts[z] = q
      BY <1>2
    <2>2. u[t] = r[z] + 1
      BY <1>1, <2>1
    <2> QED
      BY <1>4, <2>1, <2>2
  <1>7. \A x \in Timers \ D : nm[x] = Freed
    BY <1>1
  <1>8. \A x \in D : nm[x] \in D \cup {NULL}
    BY <1>2, <1>3, <1>5
  <1>9. ASSUME NEW x \in D, nm[x] \in D
        PROVE  /\ tm[nm[x]] = tm[x] /\ u[nm[x]] < u[x]
               /\ \A y \in D : tm[y] = tm[x] => u[x] <= u[y] \/ u[y] <= u[nm[x]]
    <2>1. CASE x = t
      <3>1. nm[x] = z /\ z \in C /\ ts[z] = q /\ tm[x] = q
        BY <1>1, <1>2, <1>5, <1>9, <2>1
      <3> QED
        BY <1>4, <1>5, <1>6, <2>1, <3>1
    <2>2. CASE x # t
      <3>1. x \in C /\ nm[x] = nx[x] /\ nx[x] \in C
        BY <1>3, <1>5, <1>9, <2>2, <1>1
      <3>2. ts[nx[x]] = ts[x] /\ u[nx[x]] < u[x] /\ \A y \in C : ts[y] = ts[x] => u[x] <= u[y] \/ u[y] <= u[nx[x]]
        BY <1>3, <1>4, <3>1
      <3>3. tm[t] = tm[x] => u[x] <= u[t]
        BY <1>4, <1>5, <1>6, <3>1
      <3> QED
        BY <1>5, <3>1, <3>2, <3>3
    <2> QED
      BY <2>1, <2>2
  <1>10. ASSUME NEW x \in D, nm[x] = NULL PROVE \A y \in D : tm[y] = tm[x] => u[x] <= u[y]
    <2>1. CASE x = t
      <3>1. \A y \in C : ts[y] # q
        BY <1>2, <1>5, <1>10, <2>1
      <3> QED
        BY <1>4, <1>5, <2>1, <3>1
    <2>2. CASE x # t
      <3>1. \A y \in C : ts[y] = ts[x] => r[x] <= r[y]
        BY <1>3, <1>5, <1>10, <2>2
      <3>2. tm[t] = tm[x] => u[x] <= u[t]
        BY <1>4, <1>5, <1>6, <2>2
      <3> QED
        BY <1>4, <1>5, <2>2, <3>1, <3>2
    <2> QED
      BY <2>1, <2>2
  <1>11. ASSUME NEW x \in D, NEW y \in D, tm[x] = tm[y], u[x] = u[y] PROVE x = y
    <2>1. CASE x = t \/ y = t
      BY <1>4, <1>5, <1>6, <1>11, <2>1
    <2>2. CASE x # t /\ y # t
      BY <1>1, <1>4, <1>5, <1>11, <2>2
    <2> QED
      BY <2>1, <2>2
  <1>12. ASSUME NEW x \in D PROVE IF sm[tm[x]] = x THEN pm[x] = NULL ELSE pm[x] \in D /\ nm[pm[x]] = x
    <2>1. CASE x = t
      <3>1. sm[tm[x]] = x
        BY <1>1, <1>5, <2>1
      <3> QED
        BY <2>1, <3>1
    <2>2. CASE x # t
      <3>1. x \in C /\ tm[x] = ts[x] /\ ts[x] \in Slots /\ pm[x] = (IF x = z THEN t ELSE pv[x])
        BY <1>5, <2>2
      <3>2. CASE x = z
        <4>1. ts[x] = q /\ sm[q] = t
          BY <1>1, <1>2, <1>5, <3>1, <3>2
        <4> QED
          BY <1>5, <2>2, <3>1, <3>2, <4>1
      <3>3. CASE x # z
        <4>1. CASE sl[ts[x]] = x
          <5>1. ts[x] # q
            BY <3>3, <4>1
          <5> QED
            BY <1>1, <1>3, <3>1, <3>3, <4>1, <5>1
        <4>2. CASE sl[ts[x]] # x
          <5>1. pv[x] \in C /\ nx[pv[x]] = x
            BY <1>3, <3>1, <4>2
          <5>2. nm[pv[x]] = x
            BY <1>5, <5>1
          <5>3. sm[ts[x]] # x
            BY <1>1, <2>2, <3>1, <4>2
          <5> QED
            BY <3>1, <3>3, <5>1, <5>2, <5>3
        <4> QED
          BY <4>1, <4>2
      <3> QED
        BY <3>2, <3>3
    <2> QED
      BY <2>1, <2>2
  <1>13. ASSUME NEW k \in Slots
         PROVE  IF sm[k] = NULL THEN \A y \in D : tm[y] # k
                ELSE sm[k] \in D /\ tm[sm[k]] = k /\ \A y \in D : tm[y] = k => u[y] <= u[sm[k]]
    <2>1. IF sl[k] = NULL THEN \A y \in C : ts[y] # k
          ELSE sl[k] \in C /\ ts[sl[k]] = k /\ \A y \in C : ts[y] = k => r[y] <= r[sl[k]]
      BY DEF TidyAt
    <2>2. CASE k = q
      <3>1. sm[k] = t /\ t # NULL
        BY <1>1, <2>2
      <3>2. \A y \in C : tm[y] = k => u[y] <= u[t]
        BY <1>4, <1>5, <1>6, <2>2
      <3> QED
        BY <1>4, <1>5, <2>2, <3>1, <3>2
    <2>3. CASE k # q
      <3>1. sm[k] = sl[k]
        BY <1>1, <2>3
      <3> QED
        BY <1>4, <1>5, <2>1, <2>3, <3>1
    <2> QED
      BY <2>2, <2>3
  <1>14. D \in SUBSET Timers
    BY <1>1
  <1> HIDE DEF D
  <1>15. TidyAt(sm, tm, nm, pm, D, u)
    BY <1>4, <1>7, <1>8, <1>9, <1>10, <1>11, <1>12, <1>13, <1>14 DEF TidyAt
  <1> QED
    BY <1>15 DEF D

Fresh(w, t, q, k) == [w EXCEPT !.rotation[t] = k \div N, !.time_slot[t] = q, !.next[t] = w.slots[q], !.prev[t] = NULL, !.slots[q] = t]
Freshens(w, t, q, k) ==
    Fresh(w, t, q, k) = Wh(Set(w.slots, q, t), w.cur_slot, Set(w.rotation, t, k \div N), Set(w.time_slot, t, q),
                           Set(w.next, t, w.slots[q]), Set(w.prev, t, NULL))

(* What add_timer changes of the record. *)
LEMMA WhFresh ==
  ASSUME NEW w, SameRecord(w), NEW t, NEW q, NEW k
  PROVE  Freshens(w, t, q, k)
  <1> DEFINE sl == w.slots
             c == w.cur_slot
             ro == w.rotation
             ts == w.time_slot
             nx == w.next
             pv == w.prev
             v == k \div N
             z == w.slots[q]
  <1>0. w = WhF(sl, c, ro, ts, nx, pv)
    BY WhIs, Zenon DEF SameRecord, Wh
  <1>1. w.slots = sl /\ w.cur_slot = c /\ w.rotation = ro /\ w.time_slot = ts /\ w.next = nx /\ w.prev = pv
        /\ z = w.slots[q] /\ v = k \div N
    OBVIOUS
  <1> HIDE DEF sl, c, ro, ts, nx, pv, v, z
  <1> DEFINE a == [ro EXCEPT ![t] = v]
             b == [ts EXCEPT ![t] = q]
             d == [nx EXCEPT ![t] = z]
             e == [pv EXCEPT ![t] = NULL]
             f == [sl EXCEPT ![q] = t]
  <1>2. Fresh(w, t, q, k) = [w EXCEPT !.rotation = a, !.time_slot = b, !.next = d, !.prev = e, !.slots = f]
    BY <1>1 DEF Fresh
  <1> HIDE DEF a, b, d, e, f
  <1>3. [w EXCEPT !.rotation = a, !.time_slot = b, !.next = d, !.prev = e, !.slots = f] = WhF(f, c, a, b, d, e)
    BY <1>0 DEF WhF
  <1>4. Fresh(w, t, q, k) = Wh(f, c, a, b, d, e)
    BY <1>2, <1>3, WhIs
  <1>5. a = Set(ro, t, v) /\ b = Set(ts, t, q) /\ d = Set(nx, t, z) /\ e = Set(pv, t, NULL) /\ f = Set(sl, q, t)
    BY DEF a, b, d, e, f, Set
  <1> QED
    BY <1>1, <1>4, <1>5 DEF Freshens

SlotFor(c, k) == (c + (k % N)) % N

Placed(w, C, t, k, m) ==
    /\ \E u : Tidy(m, C \cup {t}, u)
    /\ m.cur_slot = w.cur_slot /\ m.rotation = [w.rotation EXCEPT ![t] = k \div N]
    /\ m.time_slot = [w.time_slot EXCEPT ![t] = SlotFor(w.cur_slot, k)]

(* add_timer puts t on the wheel, at the slot and the turns that its delay *)
(* makes.                                                                  *)
LEMMA PutTidy ==
  ASSUME NEW w, NEW C, NEW r, Tidy(w, C, r), NEW t \in Timers, t \notin C, NEW k \in Nat, NEW m, m = TW!Put(w, t, k)
  PROVE  Placed(w, C, t, k, m)
  <1> DEFINE q == SlotFor(w.cur_slot, k)
             z == w.slots[q]
             new == Fresh(w, t, q, k)
  <1>1. m = IF z = NULL THEN new ELSE [new EXCEPT !.prev[z] = t]
    BY Zenon DEF TW!Put, Fresh, SlotFor
  <1>2. /\ w \in WheelType /\ TidyAt(w.slots, w.time_slot, w.next, w.prev, C, r)
        /\ SameRecord(w) /\ w.slots \in [Slots -> Timers \cup {NULL}] /\ w.cur_slot \in Slots /\ w.rotation \in [Timers -> Nat]
        /\ w.time_slot \in [Timers -> Slots] /\ w.next \in [Timers -> Ends] /\ w.prev \in [Timers -> Ends]
    BY WheelFields DEF Tidy
  <1>3. q \in Slots /\ k \div N \in Nat /\ NULL \notin Timers /\ Timers \cup {NULL} \subseteq Ends
    <2>1. N \in Nat /\ N > 0 /\ w.cur_slot \in Nat
      BY <1>2, NamesDiffer DEF Slots
    <2>2. k % N \in Nat /\ k \div N \in Nat
      BY <2>1
    <2>3. w.cur_slot + (k % N) \in Nat
      BY <2>1, <2>2
    <2>4. q \in 0 .. N - 1
      BY <2>1, <2>3 DEF SlotFor
    <2> QED
      BY <2>2, <2>4, NamesDiffer DEF Slots, Ends
  <1>4. z \in Timers \cup {NULL} /\ z # t
    <2>1. z \in Timers \cup {NULL}
      BY <1>2, <1>3
    <2>2. z = NULL \/ z \in C
      BY <1>2, <1>3 DEF TidyAt
    <2> QED
      BY <1>3, <2>1, <2>2
  <1> DEFINE f == Set(w.slots, q, t)
             c == w.cur_slot
             a == Set(w.rotation, t, k \div N)
             b == Set(w.time_slot, t, q)
             d == Set(w.next, t, z)
             e == Set(w.prev, t, NULL)
  <1>5. new = Wh(f, c, a, b, d, e)
    <2>1. Freshens(w, t, q, k)
      BY <1>2, WhFresh
    <2> QED
      BY <2>1, Zenon DEF Freshens
  <1>6. /\ f = [w.slots EXCEPT ![q] = t] /\ a = [w.rotation EXCEPT ![t] = k \div N] /\ b = [w.time_slot EXCEPT ![t] = q]
        /\ d = [w.next EXCEPT ![t] = z] /\ e = [w.prev EXCEPT ![t] = NULL]
    BY DEF Set
  <1>7. z = w.slots[q] /\ c = w.cur_slot /\ q = SlotFor(w.cur_slot, k)
    OBVIOUS
  <1> HIDE DEF f, c, a, b, d, e, new, z, q
  <1>8. new.slots = f /\ new.cur_slot = c /\ new.rotation = a /\ new.time_slot = b /\ new.next = d /\ new.prev = e /\ SameRecord(new)
    BY <1>5 DEF Wh, SameRecord
  <1>9. /\ SameRecord(m) /\ m.slots = f /\ m.cur_slot = c /\ m.rotation = a /\ m.time_slot = b /\ m.next = d
        /\ m.prev = IF z = NULL THEN e ELSE [e EXCEPT ![z] = t]
    <2>1. CASE z = NULL
      BY <1>1, <1>8, <2>1
    <2>2. CASE z # NULL
      <3>1. m = [new EXCEPT !.prev[z] = t]
        BY <1>1, <2>2
      <3>2. /\ SameRecord(m) /\ m.slots = f /\ m.cur_slot = c /\ m.rotation = a /\ m.time_slot = b /\ m.next = d
            /\ m.prev = [e EXCEPT ![z] = t]
        BY <1>8, <3>1 DEF SameRecord
      <3> QED
        BY <2>2, <3>2
    <2> QED
      BY <2>1, <2>2
  <1>10. /\ f \in [Slots -> Timers \cup {NULL}] /\ c \in Slots /\ a \in [Timers -> Nat] /\ b \in [Timers -> Slots]
         /\ d \in [Timers -> Ends] /\ e \in [Timers -> Ends]
    BY <1>2, <1>3, <1>4, <1>6, <1>7
  <1>11. m.prev \in [Timers -> Ends] /\ m.prev[t] = NULL /\ \A x \in Timers : x # t => m.prev[x] = IF x = z THEN t ELSE w.prev[x]
    BY <1>2, <1>3, <1>4, <1>6, <1>9, <1>10
  <1>12. m \in WheelType
    BY <1>9, <1>10, <1>11, IsWheel
  <1>13. PutIn(w.slots, w.time_slot, w.next, w.prev, t, q, m.slots, m.time_slot, m.next, m.prev)
    BY <1>6, <1>7, <1>9, <1>10, <1>11 DEF PutIn
  <1>14. \E u : TidyAt(m.slots, m.time_slot, m.next, m.prev, C \cup {t}, u)
    BY <1>2, <1>3, <1>13, InTidy, Zenon
  <1> QED
    BY <1>6, <1>7, <1>9, <1>12, <1>14 DEF Tidy, Placed

-----------------------------------------------------------------------------
(* tick unlinks the expired timers one after the other. *)
Pick(s) == CHOOSE x \in s : TRUE
FoldOf(g, w, s) == IF s = {} THEN w ELSE TW!Unlink(g[s \ {Pick(s)}], Pick(s))
FoldEq(g, w, E) == g = [s \in SUBSET E |-> IF s = {} THEN w ELSE TW!Unlink(g[s \ {Pick(s)}], Pick(s))]
FoldUpTo(g, w, E, n) == g = [s \in SUBSET E |-> g[s]] /\ \A s \in SUBSET E : Cardinality(s) <= n => g[s] = FoldOf(g, w, s)
Expired(w) == {t \in TW!InSlot(w, w.cur_slot) : w.rotation[t] = 0}
Swept(w) == TW!FoldSet(LAMBDA t, x : TW!Unlink(x, t), w, Expired(w))

(* The fold of tick is a recursive function over the sets of expired       *)
(* timers.                                                                 *)
LEMMA SweptIs == ASSUME NEW w PROVE Swept(w) = (CHOOSE g : FoldEq(g, w, Expired(w)))[Expired(w)]
  BY Zenon DEF Swept, FoldEq, Pick, TW!FoldSet, TW!MapThenFoldSet

(* Such a set without the one it picks is smaller. *)
LEMMA Smaller ==
  ASSUME NEW E, IsFiniteSet(E), NEW s \in SUBSET E
  PROVE  /\ Cardinality(s) \in Nat /\ (Cardinality(s) = 0 <=> s = {}) /\ Cardinality(s) <= Cardinality(E)
         /\ s # {} => /\ Pick(s) \in s /\ s \ {Pick(s)} \in SUBSET E
                      /\ Cardinality(s \ {Pick(s)}) = Cardinality(s) - 1
  <1>1. IsFiniteSet(s) /\ Cardinality(s) <= Cardinality(E)
    BY FS_Subset
  <1>2. Cardinality(s) \in Nat /\ (Cardinality(s) = 0 <=> s = {})
    BY <1>1, FS_CardinalityType, FS_EmptySet
  <1>3. s # {} => Pick(s) \in s
    BY DEF Pick
  <1> QED
    BY <1>1, <1>2, <1>3, FS_RemoveElement

(* So the function exists, by induction on the size. *)
LEMMA FoldExists ==
  ASSUME NEW w, NEW E, IsFiniteSet(E)
  PROVE  \E g : FoldEq(g, w, E)
  <1> DEFINE S == {n \in Nat : ~\E g : FoldUpTo(g, w, E, n)}
  <1>1. ASSUME S # {} PROVE FALSE
    <2>1. PICK n \in S : \A y \in S : n <= y
      BY <1>1, Least
    <2>2. CASE n = 0
      <3> DEFINE g == [s \in SUBSET E |-> w]
      <3>1. g = [s \in SUBSET E |-> g[s]] /\ \A s \in SUBSET E : g[s] = w
        OBVIOUS
      <3> HIDE DEF g
      <3>2. \A s \in SUBSET E : Cardinality(s) <= 0 => g[s] = FoldOf(g, w, s)
        <4> SUFFICES ASSUME NEW s \in SUBSET E, Cardinality(s) <= 0 PROVE g[s] = FoldOf(g, w, s)
          OBVIOUS
        <4>1. Cardinality(s) \in Nat /\ (Cardinality(s) = 0 <=> s = {})
          BY Smaller
        <4>2. s = {}
          BY <4>1
        <4> QED
          BY <3>1, <4>2, Zenon DEF FoldOf
      <3>3. FoldUpTo(g, w, E, n)
        BY <2>2, <3>1, <3>2 DEF FoldUpTo
      <3> QED
        BY <2>1, <3>3
    <2>3. CASE n # 0
      <3>1. n \in Nat /\ n - 1 \in Nat /\ n - 1 \notin S
        BY <2>1, <2>3
      <3>2. PICK g : FoldUpTo(g, w, E, n - 1)
        BY <3>1
      <3> DEFINE f == [s \in SUBSET E |-> IF Cardinality(s) <= n - 1 THEN g[s] ELSE FoldOf(g, w, s)]
      <3>3. /\ f = [s \in SUBSET E |-> f[s]]
            /\ \A s \in SUBSET E : f[s] = IF Cardinality(s) <= n - 1 THEN g[s] ELSE FoldOf(g, w, s)
        OBVIOUS
      <3> HIDE DEF f, S
      <3>4. ASSUME NEW s \in SUBSET E, Cardinality(s) <= n PROVE f[s] = FoldOf(f, w, s)
        <4>1. f[s] = FoldOf(g, w, s)
          BY <3>2, <3>3 DEF FoldUpTo
        <4>2. s # {} => g[s \ {Pick(s)}] = f[s \ {Pick(s)}]
          <5> SUFFICES ASSUME s # {} PROVE g[s \ {Pick(s)}] = f[s \ {Pick(s)}]
            OBVIOUS
          <5> DEFINE z == s \ {Pick(s)}
          <5>1. z \in SUBSET E /\ Cardinality(z) = Cardinality(s) - 1 /\ Cardinality(s) \in Nat
            BY Smaller
          <5> HIDE DEF z
          <5>2. Cardinality(z) <= n - 1
            BY <3>1, <3>4, <5>1
          <5>3. g[z] = f[z]
            BY <3>3, <5>1, <5>2
          <5> QED
            BY <5>3 DEF z
        <4> QED
          BY <4>1, <4>2, Zenon DEF FoldOf
      <3>5. FoldUpTo(f, w, E, n)
        BY <3>3, <3>4 DEF FoldUpTo
      <3> QED
        BY <2>1, <3>5 DEF S
    <2> QED
      BY <2>2, <2>3
  <1>2. Cardinality(E) \in Nat
    BY FS_CardinalityType
  <1>3. PICK g : FoldUpTo(g, w, E, Cardinality(E))
    BY <1>1, <1>2
  <1>4. g = [s \in SUBSET E |-> g[s]] /\ \A s \in SUBSET E : g[s] = FoldOf(g, w, s)
    BY <1>3, Smaller DEF FoldUpTo
  <1>5. g = [s \in SUBSET E |-> FoldOf(g, w, s)]
    BY <1>4, Zenon
  <1>6. FoldEq(g, w, E)
    BY <1>5 DEF FoldEq, FoldOf
  <1> QED
    BY <1>6

(* It takes exactly its set off the wheel. *)
LEMMA SweepTidy ==
  ASSUME NEW w, NEW C, NEW r, Tidy(w, C, r), NEW E \in SUBSET C, NEW g, FoldEq(g, w, E)
  PROVE  Without(w, C, r, E, g[E])
  <1>0. C \in SUBSET Timers /\ IsFiniteSet(E)
    <2>1. C \in SUBSET Timers
      BY DEF Tidy, TidyAt
    <2> QED
      BY <2>1, NamesDiffer, FS_Subset
  <1>1. \A s \in SUBSET E : g[s] = FoldOf(g, w, s)
    BY DEF FoldEq, FoldOf
  <1> DEFINE Bad == {s \in SUBSET E : ~Without(w, C, r, s, g[s])}
             S == {Cardinality(s) : s \in Bad}
  <1>2. CASE Bad # {}
    <2>1. S \in SUBSET Nat /\ S # {}
      <3>1. \A s \in Bad : Cardinality(s) \in Nat
        <4> SUFFICES ASSUME NEW s \in Bad PROVE Cardinality(s) \in Nat
          OBVIOUS
        <4>1. s \in SUBSET E
          OBVIOUS
        <4> HIDE DEF Bad
        <4> QED
          BY <1>0, <4>1, Smaller
      <3> HIDE DEF Bad
      <3> QED
        BY <1>2, <3>1
    <2>2. PICK n \in S : \A y \in S : n <= y
      <3> HIDE DEF S
      <3> QED
        BY <2>1, Least
    <2>3. PICK s \in Bad : Cardinality(s) = n
      BY <2>2
    <2>4. s \in SUBSET E /\ ~Without(w, C, r, s, g[s])
      BY <2>3
    <2>5. \A z \in SUBSET E : Cardinality(z) < n => Without(w, C, r, z, g[z])
      <3> SUFFICES ASSUME NEW z \in SUBSET E, Cardinality(z) < n, ~Without(w, C, r, z, g[z]) PROVE FALSE
        OBVIOUS
      <3>1. Cardinality(z) \in S /\ n \in Nat /\ Cardinality(z) \in Nat
        BY <1>0, <2>1, <2>2, Smaller
      <3> QED
        BY <2>2, <3>1
    <2> HIDE DEF Bad, S
    <2>6. CASE s = {}
      <3>1. g[s] = w /\ C \ s = C
        BY <1>1, <2>4, <2>6 DEF FoldOf
      <3>2. Tidy(g[s], C \ s, r)
        BY <3>1
      <3> QED
        BY <2>4, <3>1, <3>2 DEF Without
    <2>7. CASE s # {}
      <3> DEFINE t == Pick(s)
                 z == s \ {t}
                 p == g[z]
      <3>1. t \in s /\ z \in SUBSET E /\ Cardinality(z) = Cardinality(s) - 1 /\ Cardinality(s) \in Nat
        BY <1>0, <2>4, <2>7, Smaller
      <3>2. Without(w, C, r, z, p)
        BY <2>3, <2>5, <3>1
      <3>3. g[s] = TW!Unlink(p, t)
        BY <1>1, <2>4, <2>7, Zenon DEF FoldOf
      <3>4. s = z \cup {t} /\ t \in C /\ t \notin z
        BY <2>4, <3>1
      <3> DEFINE m == g[s]
      <3> HIDE DEF t, z, p, m
      <3>5. Tidy(p, C \ z, r) /\ p.cur_slot = w.cur_slot /\ t \in C \ z
            /\ \A x \in Timers \ z : p.rotation[x] = w.rotation[x] /\ p.time_slot[x] = w.time_slot[x]
        BY <3>2, <3>4 DEF Without
      <3>6. m = TW!Unlink(p, t)
        BY <3>3 DEF m
      <3>7. /\ Tidy(m, (C \ z) \ {t}, r) /\ m.cur_slot = p.cur_slot
            /\ \A x \in Timers : x # t => m.rotation[x] = p.rotation[x] /\ m.time_slot[x] = p.time_slot[x]
        <4> DEFINE D == C \ z
        <4>1. Tidy(p, D, r) /\ t \in D
          BY <3>5
        <4> HIDE DEF D
        <4>2. Without(p, D, r, {t}, m)
          BY <3>6, <4>1, UnlinkTidy, Zenon
        <4> QED
          BY <4>2 DEF D, Without
      <3>8. (C \ z) \ {t} = C \ s
        BY <3>4
      <3>9. Tidy(m, C \ s, r)
        BY <3>7, <3>8, Zenon
      <3>10. \A x \in Timers \ s : m.rotation[x] = w.rotation[x] /\ m.time_slot[x] = w.time_slot[x]
        BY <3>4, <3>5, <3>7
      <3> QED
        BY <2>4, <3>5, <3>7, <3>9, <3>10 DEF Without, m
    <2> QED
      BY <2>6, <2>7
  <1>3. CASE Bad = {}
    BY <1>3
  <1> QED
    BY <1>2, <1>3

-----------------------------------------------------------------------------
(* A turn of the wheel, and how far a slot is. *)

Turned(w, l) ==
    [l EXCEPT !.rotation = [t \in Timers |-> IF t \in TW!InSlot(w, w.cur_slot) \ Expired(w) THEN @[t] - 1 ELSE @[t]],
              !.cur_slot = (w.cur_slot + 1) % N]
(* A turn: the expired timers are swept, the others in the slot lose a     *)
(* turn.                                                                   *)
LEMMA TurnIs == ASSUME NEW w PROVE TW!Turn(w) = Turned(w, Swept(w))
  BY Zenon DEF TW!Turn, Turned, Swept, Expired

(* Where a timer of C that does not expire is after a turn. *)
Later(w, m, x) ==
    /\ m.rotation[x] = (IF w.time_slot[x] = w.cur_slot THEN w.rotation[x] - 1 ELSE w.rotation[x])
    /\ m.time_slot[x] = w.time_slot[x]
Due(w, C) == {x \in C : w.time_slot[x] = w.cur_slot /\ w.rotation[x] = 0}

(* tick takes what is due off, and leaves the others where they are. *)
LEMMA TurnTidy ==
  ASSUME NEW w, NEW C, NEW r, Tidy(w, C, r), NEW m, m = TW!Turn(w)
  PROVE  /\ Expired(w) = Due(w, C) /\ Tidy(m, C \ Due(w, C), r) /\ m.cur_slot = (w.cur_slot + 1) % N
         /\ \A x \in C \ Due(w, C) : Later(w, m, x)
  <1>1. /\ w \in WheelType /\ TidyAt(w.slots, w.time_slot, w.next, w.prev, C, r)
        /\ w.cur_slot \in Slots /\ w.rotation \in [Timers -> Nat] /\ C \in SUBSET Timers /\ IsFiniteSet(Timers)
        /\ N \in Nat /\ N > 0
    <2>1. w \in WheelType /\ TidyAt(w.slots, w.time_slot, w.next, w.prev, C, r) /\ C \in SUBSET Timers
      BY DEF Tidy, TidyAt
    <2> QED
      BY <2>1, NamesDiffer, WheelFields
  <1> DEFINE here == {x \in C : w.time_slot[x] = w.cur_slot}
             E == Due(w, C)
             l == Swept(w)
             c == (w.cur_slot + 1) % N
             ro == [t \in Timers |-> IF t \in here \ E THEN l.rotation[t] - 1 ELSE l.rotation[t]]
  <1>2. TW!InSlot(w, w.cur_slot) = here
    <2> DEFINE k == w.cur_slot
    <2>1. k \in Slots
      BY <1>1
    <2> HIDE DEF k
    <2>2. TW!InSlot(w, k) = OnSlot(w, C, k)
      BY <1>1, <2>1, InSlotIs, Zenon
    <2> QED
      BY <2>2 DEF k, OnSlot
  <1>3. Expired(w) = E
    BY <1>2 DEF Expired, Due
  <1>4. E \in SUBSET C /\ IsFiniteSet(E)
    <2>1. E \in SUBSET C
      BY DEF Due
    <2> QED
      BY <1>1, <2>1, FS_Subset
  <1>5. Without(w, C, r, E, l)
    <2> DEFINE g == CHOOSE g : FoldEq(g, w, E)
    <2>1. FoldEq(g, w, E)
      BY <1>4, FoldExists
    <2>2. l = g[E]
      BY <1>3, SweptIs, Zenon
    <2> HIDE DEF g, l, E
    <2>3. Without(w, C, r, E, g[E])
      BY <1>4, <2>1, SweepTidy
    <2> QED
      BY <2>2, <2>3
  <1>6. m = [l EXCEPT !.rotation = ro, !.cur_slot = c]
    <2>1. m = Turned(w, l)
      BY TurnIs
    <2> HIDE DEF l
    <2> QED
      BY <1>2, <1>3, <2>1 DEF Turned
  <1>7. c \in Slots
    <2>1. w.cur_slot + 1 \in Nat
      BY <1>1 DEF Slots
    <2> QED
      BY <1>1, <2>1 DEF Slots
  <1>8. /\ l \in WheelType /\ TidyAt(l.slots, l.time_slot, l.next, l.prev, C \ E, r)
        /\ \A x \in Timers \ E : l.rotation[x] = w.rotation[x] /\ l.time_slot[x] = w.time_slot[x]
    BY <1>5 DEF Without, Tidy
  <1> HIDE DEF l
  <1>9. /\ SameRecord(l) /\ l.slots \in [Slots -> Timers \cup {NULL}] /\ l.rotation \in [Timers -> Nat]
        /\ l.time_slot \in [Timers -> Slots] /\ l.next \in [Timers -> Ends] /\ l.prev \in [Timers -> Ends]
    BY <1>8, WheelFields
  <1>10. ro \in [Timers -> Nat] /\ \A x \in Timers : ro[x] = IF x \in here \ E THEN l.rotation[x] - 1 ELSE l.rotation[x]
    <2>1. \A x \in here \ E : l.rotation[x] - 1 \in Nat
      <3> SUFFICES ASSUME NEW x \in here \ E PROVE l.rotation[x] - 1 \in Nat
        OBVIOUS
      <3>1. x \in Timers \ E /\ w.rotation[x] # 0 /\ w.rotation[x] \in Nat
        BY <1>1 DEF Due
      <3> QED
        BY <1>8, <3>1
    <2> HIDE DEF here, E
    <2> QED
      BY <1>9, <2>1
  <1> HIDE DEF ro, c
  <1>11. /\ SameRecord(m) /\ m.slots = l.slots /\ m.cur_slot = c /\ m.rotation = ro /\ m.time_slot = l.time_slot
         /\ m.next = l.next /\ m.prev = l.prev
    BY <1>6, <1>9 DEF SameRecord
  <1>12. m \in WheelType
    BY <1>7, <1>9, <1>10, <1>11, IsWheel
  <1>13. Tidy(m, C \ E, r)
    BY <1>8, <1>11, <1>12 DEF Tidy
  <1>14. \A x \in C \ E : Later(w, m, x)
    BY <1>1, <1>8, <1>10, <1>11 DEF Later
  <1> QED
    BY <1>3, <1>11, <1>13, <1>14 DEF c

(* The turns that slot s is away from slot c. *)
Gap(c, s) == IF s >= c THEN s - c ELSE s - c + N

Wraps(x) == x % N = IF x < N THEN x ELSE x - N

(* One subtraction is the modulo below 2 * N. *)
LEMMA Once ==
  ASSUME NEW x \in 0 .. 2 * N - 1
  PROVE  Wraps(x)
  <1>1. N \in Nat /\ N > 0
    BY NamesDiffer
  <1>2. x < N => x % N = x
    BY <1>1
  <1>3. ASSUME x >= N PROVE x % N = x - N
    <2>1. x - N \in 0 .. N - 1 /\ x = N * 1 + (x - N)
      BY <1>1, <1>3
    <2> QED
      BY <1>1, <2>1
  <1> QED
    BY <1>1, <1>2, <1>3 DEF Wraps

(* A delay of k turns is the way to its slot and the full turns after it. *)
LEMMA GapStarts ==
  ASSUME NEW c \in Slots, NEW k \in Nat
  PROVE  k = Gap(c, SlotFor(c, k)) + (k \div N) * N
  <1>1. N \in Nat /\ N > 0 /\ c \in 0 .. N - 1
    BY NamesDiffer DEF Slots
  <1> DEFINE d == k % N
             v == k \div N
  <1>2. d \in 0 .. N - 1 /\ v \in Nat /\ k = v * N + d
    BY <1>1
  <1> HIDE DEF d, v
  <1>3. c + d \in 0 .. 2 * N - 1
    BY <1>1, <1>2
  <1>4. (c + d) % N = IF c + d < N THEN c + d ELSE c + d - N
    <2>1. Wraps(c + d)
      BY <1>3, Once
    <2> QED
      BY <1>1, <1>2, <2>1 DEF Wraps
  <1>5. SlotFor(c, k) = (c + d) % N
    BY DEF SlotFor, d
  <1>6. Gap(c, SlotFor(c, k)) = d
    BY <1>1, <1>2, <1>4, <1>5 DEF Gap
  <1>7. v * N \in Nat
    BY <1>1, <1>2
  <1>8. k = d + v * N
    BY <1>2, <1>7
  <1>9. k = Gap(c, SlotFor(c, k)) + v * N
    BY <1>6, <1>8
  <1> QED
    BY <1>9 DEF v

(* Every turn brings a slot one nearer, but the current one, that is left. *)
LEMMA GapTurns ==
  ASSUME NEW c \in Slots, NEW s \in Slots
  PROVE  /\ Gap(c, s) \in 0 .. N - 1 /\ (Gap(c, s) = 0 <=> s = c)
         /\ Gap((c + 1) % N, s) = IF s = c THEN N - 1 ELSE Gap(c, s) - 1
  <1>1. N \in Nat /\ N > 0 /\ c \in 0 .. N - 1 /\ s \in 0 .. N - 1
    BY NamesDiffer DEF Slots
  <1>2. c + 1 \in 0 .. 2 * N - 1
    BY <1>1
  <1>3. (c + 1) % N = IF c + 1 < N THEN c + 1 ELSE c + 1 - N
    <2>1. Wraps(c + 1)
      BY <1>2, Once
    <2> QED
      BY <1>1, <1>2, <2>1 DEF Wraps
  <1> QED
    BY <1>1, <1>3 DEF Gap

-----------------------------------------------------------------------------
(* The wheel and what was promised. *)

On(w) == {t \in Timers : w.next[t] # Freed}
Time(w, k, t) == k + Gap(w.cur_slot, w.time_slot[t]) + w.rotation[t] * N
WheelSound(w) == \E r : Tidy(w, On(w), r)
WheelOk ==
    /\ WheelSound(wheel)
    /\ uses = "wheel" => \A t \in Timers : promised[t] = IF t \in On(wheel) THEN Time(wheel, turns, t) ELSE None

(* The timers of the wheel are those that are not freed. *)
LEMMA OnIs == ASSUME NEW w, NEW C, NEW r, Tidy(w, C, r) PROVE C = On(w) /\ C \in SUBSET Timers
  <1>1. C \in SUBSET Timers /\ NULL # Freed /\ Freed \notin Timers
    BY NamesDiffer DEF Tidy, TidyAt
  <1>2. (\A x \in Timers \ C : w.next[x] = Freed) /\ \A x \in C : w.next[x] \in C \cup {NULL}
    BY DEF Tidy, TidyAt
  <1>3. \A x \in C : w.next[x] # Freed
    BY <1>1, <1>2
  <1> QED
    BY <1>1, <1>2, <1>3 DEF On

(* The wheel is constructed empty. *)
LEMMA WheelStarts == TW!WheelInit => WheelSound(wheel) /\ On(wheel) = {}
  <1> SUFFICES ASSUME TW!WheelInit PROVE WheelSound(wheel) /\ On(wheel) = {}
    OBVIOUS
  <1>1. /\ wheel.slots = [s \in 0 .. N - 1 |-> NULL] /\ wheel.cur_slot = 0 /\ wheel.rotation = [t \in Timers |-> 0]
        /\ wheel.time_slot = [t \in Timers |-> 0] /\ wheel.next = [t \in Timers |-> Freed] /\ wheel.prev = [t \in Timers |-> Freed]
        /\ SameRecord(wheel)
    BY DEF TW!WheelInit, SameRecord
  <1>2. 0 \in Slots /\ 0 \in Nat /\ NULL \in Ends /\ Freed \in Ends
    BY NamesDiffer DEF Slots, Ends
  <1>3. wheel \in WheelType
    <2>1. /\ wheel.slots \in [Slots -> Timers \cup {NULL}] /\ wheel.cur_slot \in Slots /\ wheel.rotation \in [Timers -> Nat]
          /\ wheel.time_slot \in [Timers -> Slots] /\ wheel.next \in [Timers -> Ends] /\ wheel.prev \in [Timers -> Ends]
      BY <1>1, <1>2 DEF Slots
    <2> QED
      BY <1>1, <2>1, IsWheel
  <1>4. On(wheel) = {}
    BY <1>1 DEF On
  <1> DEFINE r == [t \in Timers |-> 0]
  <1>5. TidyAt(wheel.slots, wheel.time_slot, wheel.next, wheel.prev, {}, r)
    BY <1>1, <1>2 DEF TidyAt, Slots
  <1> HIDE DEF r
  <1> QED
    BY <1>3, <1>4, <1>5 DEF WheelSound, Tidy

(* A sound wheel is linked as ContainersSound states. *)
LEMMA SoundWheel == WheelSound(wheel) => TW!WheelLinked
  <1> SUFFICES ASSUME WheelSound(wheel) PROVE TW!WheelLinked
    OBVIOUS
  <1> DEFINE C == On(wheel)
             sl == wheel.slots
             ts == wheel.time_slot
             nx == wheel.next
             pv == wheel.prev
  <1>1. PICK r : TidyAt(sl, ts, nx, pv, C, r)
    BY DEF WheelSound, Tidy
  <1>2. \A s \in Slots : TW!InSlot(wheel, s) = OnSlot(wheel, C, s)
    BY <1>1, InSlotIs
  <1>3. \A t \in Timers : nx[t] # Freed <=> t \in C
    BY DEF On
  <1>4. ts \in [Timers -> Slots] /\ C \in SUBSET Timers
    BY <1>1 DEF TidyAt
  <1>5. \A t \in Timers : nx[t] # Freed <=> t \in TW!InSlot(wheel, ts[t])
    BY <1>2, <1>3, <1>4 DEF OnSlot
  <1> HIDE DEF C, sl, nx, pv
  <1>6. ASSUME NEW t \in C
        PROVE  IF t = sl[ts[t]] THEN pv[t] = NULL ELSE pv[t] \in C /\ ts[pv[t]] = ts[t] /\ nx[pv[t]] = t
    <2>1. t = sl[ts[t]] => pv[t] = NULL
      BY <1>1 DEF TidyAt
    <2>2. t # sl[ts[t]] => pv[t] \in C /\ nx[pv[t]] = t /\ ts[pv[t]] = ts[t]
      BY <1>1, AboveIs
    <2> QED
      BY <2>1, <2>2
  <1>7. \A s \in 0 .. N - 1 : \A t \in TW!InSlot(wheel, s) :
          /\ ts[t] = s
          /\ IF t = sl[s] THEN pv[t] = NULL ELSE pv[t] \in TW!InSlot(wheel, s) /\ nx[pv[t]] = t
    BY <1>2, <1>6 DEF OnSlot, Slots
  <1> QED
    BY <1>5, <1>7 DEF TW!WheelLinked, sl, nx, pv

(* Who does not use the wheel leaves it alone. *)
LEMMA WheelStays == ClientOk /\ uses # "wheel" /\ [Next]_vars => wheel' = wheel
  <1> SUFFICES ASSUME ClientOk, uses # "wheel", [Next]_vars PROVE wheel' = wheel
    OBVIOUS
  <1>1. CASE Tick
    <2>1. CASE uses = "list"
      BY <1>1, <2>1 DEF Tick, wheelVars
    <2>2. CASE uses = "heap"
      BY <1>1, <2>2 DEF Tick, wheelVars
    <2> QED
      BY <2>1, <2>2 DEF ClientOk
  <1> QED
    BY <1>1 DEF vars, wheelVars, Next, Calls, Cancels, ListAdd, ListAdjust, ListDel, WheelAdd, WheelDel, HeapAdd, HeapDel, Second

(* The operations on a sound wheel. *)
LEMMA WheelNumbers ==
  ASSUME NEW w, WheelSound(w), NEW t \in Timers
  PROVE  /\ w.cur_slot \in Slots /\ w.time_slot[t] \in Slots /\ w.rotation[t] \in Nat
         /\ Gap(w.cur_slot, w.time_slot[t]) \in 0 .. N - 1 /\ N \in Nat /\ N > 0 /\ w.rotation[t] * N \in Nat
         /\ w.rotation \in [Timers -> Nat] /\ w.time_slot \in [Timers -> Slots]
  <1>1. w \in WheelType
    BY DEF WheelSound, Tidy
  <1>2. w.cur_slot \in Slots /\ w.time_slot \in [Timers -> Slots] /\ w.rotation \in [Timers -> Nat] /\ N \in Nat /\ N > 0
    BY <1>1, WheelFields, NamesDiffer
  <1> DEFINE c == w.cur_slot
             s == w.time_slot[t]
             o == w.rotation[t]
  <1>3. c \in Slots /\ s \in Slots /\ o \in Nat
    BY <1>2
  <1> HIDE DEF c, s, o
  <1>4. Gap(c, s) \in 0 .. N - 1
    BY <1>3, GapTurns
  <1>5. o * N \in Nat
    BY <1>2, <1>3
  <1> QED
    BY <1>2, <1>3, <1>4, <1>5 DEF c, s, o

PutOn(w, k, t, d, m) ==
    /\ WheelSound(m) /\ On(m) = On(w) \cup {t} /\ Time(m, k, t) = k + d
    /\ \A x \in On(w) : Time(m, k, x) = Time(w, k, x)

(* add_timer: t is on the wheel, and expires d turns from now. *)
LEMMA WheelAdded ==
  ASSUME NEW w, WheelSound(w), NEW t \in Timers, t \notin On(w), NEW d \in Nat, NEW k \in Nat, NEW m, m = TW!Put(w, t, d)
  PROVE  PutOn(w, k, t, d, m)
  <1>1. PICK r : Tidy(w, On(w), r)
    BY DEF WheelSound
  <1> DEFINE C == On(w)
  <1> HIDE DEF C
  <1>2. Tidy(w, C, r) /\ t \notin C
    BY <1>1 DEF C
  <1>3. /\ \E u : Tidy(m, C \cup {t}, u)
        /\ m.cur_slot = w.cur_slot /\ m.rotation = [w.rotation EXCEPT ![t] = d \div N]
        /\ m.time_slot = [w.time_slot EXCEPT ![t] = SlotFor(w.cur_slot, d)]
    <2>1. Placed(w, C, t, d, m)
      BY <1>2, PutTidy, Zenon
    <2> QED
      BY <2>1 DEF Placed
  <1>4. WheelSound(m) /\ On(m) = C \cup {t}
    <2>1. PICK u : Tidy(m, C \cup {t}, u)
      BY <1>3
    <2> DEFINE D == C \cup {t}
    <2>2. Tidy(m, D, u)
      BY <2>1
    <2> HIDE DEF D
    <2>3. D = On(m)
      BY <2>2, OnIs
    <2>4. WheelSound(m)
      BY <2>2, <2>3, Zenon DEF WheelSound
    <2> QED
      BY <2>3, <2>4 DEF D
  <1>5. /\ w.cur_slot \in Slots /\ w.rotation \in [Timers -> Nat] /\ w.time_slot \in [Timers -> Slots]
    BY WheelNumbers
  <1>6. Time(m, k, t) = k + d
    <2> DEFINE c == w.cur_slot
               v == d \div N
               s == SlotFor(c, d)
    <2>1. m.cur_slot = c /\ m.rotation[t] = v /\ m.time_slot[t] = s
      BY <1>3, <1>5
    <2>2. d = Gap(c, s) + v * N
      BY <1>5, GapStarts
    <2> HIDE DEF c, v, s
    <2>3. Time(m, k, t) = k + Gap(c, s) + v * N
      BY <2>1 DEF Time
    <2>4. Gap(c, s) \in 0 .. N - 1 /\ v * N \in Int
      <3>1. /\ m.cur_slot \in Slots /\ m.time_slot[t] \in Slots /\ m.rotation[t] * N \in Nat
            /\ Gap(m.cur_slot, m.time_slot[t]) \in 0 .. N - 1
        BY <1>4, WheelNumbers
      <3> QED
        BY <2>1, <3>1
    <2> DEFINE g == Gap(c, s)
               p == v * N
    <2>5. g \in Int /\ p \in Int /\ Time(m, k, t) = k + g + p /\ d = g + p
      BY <2>2, <2>3, <2>4
    <2> HIDE DEF g, p
    <2> QED
      BY <2>5
  <1>7. \A x \in C : Time(m, k, x) = Time(w, k, x)
    <2> SUFFICES ASSUME NEW x \in C PROVE Time(m, k, x) = Time(w, k, x)
      OBVIOUS
    <2>1. x \in Timers /\ x # t
      BY <1>2, OnIs
    <2>2. m.rotation[x] = w.rotation[x] /\ m.time_slot[x] = w.time_slot[x]
      BY <1>3, <1>5, <2>1
    <2> QED
      BY <1>3, <2>2 DEF Time
  <1> QED
    BY <1>4, <1>6, <1>7 DEF PutOn, C

TookOff(w, k, t, m) == WheelSound(m) /\ On(m) = On(w) \ {t} /\ \A x \in On(m) : Time(m, k, x) = Time(w, k, x)

(* del_timer: t is off the wheel, and nothing else changes. *)
LEMMA WheelDeleted ==
  ASSUME NEW w, WheelSound(w), NEW t \in On(w), NEW k, NEW m, m = TW!Unlink(w, t)
  PROVE  TookOff(w, k, t, m)
  <1>1. PICK r : Tidy(w, On(w), r)
    BY DEF WheelSound
  <1> DEFINE C == On(w)
             D == C \ {t}
  <1>2. Without(w, C, r, {t}, m)
    BY <1>1, UnlinkTidy
  <1>3. /\ Tidy(m, D, r) /\ m.cur_slot = w.cur_slot
        /\ \A x \in Timers : x # t => m.rotation[x] = w.rotation[x] /\ m.time_slot[x] = w.time_slot[x]
    BY <1>2 DEF Without
  <1> HIDE DEF D
  <1>4. D = On(m) /\ D \in SUBSET Timers
    BY <1>3, OnIs
  <1>5. WheelSound(m)
    BY <1>3, <1>4, Zenon DEF WheelSound
  <1>6. \A x \in D : Time(m, k, x) = Time(w, k, x)
    BY <1>3, <1>4 DEF Time, D
  <1> QED
    BY <1>4, <1>5, <1>6 DEF TookOff, D

Turns(w, k, m) ==
    /\ WheelSound(m) /\ On(m) = On(w) \ Expired(w) /\ \A x \in On(m) : Time(m, k + 1, x) = Time(w, k, x)
    /\ \A x \in On(w) : x \in Expired(w) <=> Time(w, k, x) <= k

(* tick: those that expire at this turn leave, and no other. *)
LEMMA WheelTurned ==
  ASSUME NEW w, WheelSound(w), NEW k \in Nat, NEW m, m = TW!Turn(w)
  PROVE  Turns(w, k, m) /\ Expired(w) \in SUBSET On(w)
  <1>1. PICK r : Tidy(w, On(w), r)
    BY DEF WheelSound
  <1> DEFINE C == On(w)
             E == Expired(w)
             D == C \ E
  <1>2. /\ E = Due(w, C) /\ Tidy(m, D, r) /\ m.cur_slot = (w.cur_slot + 1) % N
        /\ \A x \in D : Later(w, m, x)
    <2> HIDE DEF C, E
    <2>1. Tidy(w, C, r)
      BY <1>1 DEF C
    <2>2. /\ Expired(w) = Due(w, C) /\ Tidy(m, C \ Due(w, C), r) /\ m.cur_slot = (w.cur_slot + 1) % N
          /\ \A x \in C \ Due(w, C) : Later(w, m, x)
      BY <2>1, TurnTidy
    <2> QED
      BY <2>2 DEF E
  <1>3. D = On(m) /\ C \in SUBSET Timers
    BY <1>1, <1>2, OnIs
  <1>4. WheelSound(m)
    BY <1>2, <1>3, Zenon DEF WheelSound
  <1> HIDE DEF C, E
  <1>5. ASSUME NEW x \in C
        PROVE  /\ x \in E <=> Time(w, k, x) <= k
               /\ x \in D => Time(m, k + 1, x) = Time(w, k, x)
    <2> DEFINE c == w.cur_slot
               s == w.time_slot[x]
               o == w.rotation[x]
    <2>1. c \in Slots /\ s \in Slots /\ o \in Nat /\ N \in Nat /\ N > 0 /\ x \in Timers
      <3>1. x \in Timers
        BY <1>3
      <3> QED
        BY <3>1, WheelNumbers
    <2>2. x \in E <=> s = c /\ o = 0
      BY <1>2 DEF Due
    <2>3. Time(w, k, x) = k + Gap(c, s) + o * N
      BY DEF Time
    <2>4. x \in D => Time(m, k + 1, x) = k + 1 + Gap((c + 1) % N, s) + (IF s = c THEN o - 1 ELSE o) * N
      BY <1>2 DEF Time, Later
    <2> HIDE DEF c, s, o
    <2>5. /\ Gap(c, s) \in 0 .. N - 1 /\ (Gap(c, s) = 0 <=> s = c)
          /\ Gap((c + 1) % N, s) = IF s = c THEN N - 1 ELSE Gap(c, s) - 1
      BY <2>1, GapTurns
    <2>6. o * N \in Nat /\ (o - 1) * N = o * N - N /\ (o > 0 => o * N > 0) /\ (o = 0 => o * N = 0)
      BY <2>1
    <2> DEFINE g == Gap(c, s)
               p == o * N
               q == (o - 1) * N
               h == Gap((c + 1) % N, s)
    <2>7. /\ g \in 0 .. N - 1 /\ (g = 0 <=> s = c) /\ h = (IF s = c THEN N - 1 ELSE g - 1)
          /\ p \in Nat /\ q = p - N /\ (o > 0 => p > 0) /\ (o = 0 => p = 0)
          /\ Time(w, k, x) = k + g + p
      BY <2>3, <2>5, <2>6
    <2>8. x \in D => Time(m, k + 1, x) = k + 1 + h + (IF s = c THEN q ELSE p)
      BY <2>4
    <2> HIDE DEF g, p, q, h, D
    <2>9. x \in E <=> Time(w, k, x) <= k
      BY <2>1, <2>2, <2>7
    <2>10. x \in D => Time(m, k + 1, x) = k + g + p
      BY <2>1, <2>7, <2>8
    <2> QED
      BY <2>7, <2>9, <2>10
  <1>6. E \in SUBSET C
    BY <1>2 DEF Due
  <1>7. \A x \in D : Time(m, k + 1, x) = Time(w, k, x)
    BY <1>5
  <1>8. \A x \in C : x \in E <=> Time(w, k, x) <= k
    BY <1>5
  <1> HIDE DEF D
  <1> QED
    BY <1>3, <1>4, <1>6, <1>7, <1>8 DEF Turns, C, E, D

(* Every step of a client of the wheel keeps the wheel and its promises,   *)
(* and is a step of the service.                                           *)
LEMMA WheelSteps == ClientOk /\ WheelOk /\ uses = "wheel" /\ [Next]_vars => WheelOk' /\ ServiceStep
  <1> SUFFICES ASSUME ClientOk, WheelOk, uses = "wheel", [Next]_vars PROVE WheelOk' /\ ServiceStep
    OBVIOUS
  <1>1. /\ turns \in Nat /\ promised \in [Timers -> Nat \cup {None}] /\ None \notin Nat
        /\ yfired = {} /\ wfired = {} /\ heapFired = {}
        /\ WheelSound(wheel)
        /\ \A t \in Timers : promised[t] = IF t \in On(wheel) THEN Time(wheel, turns, t) ELSE None
    BY ContainersAssumption DEF ClientOk, WheelOk
  <1>2. \A t \in On(wheel) : t \in Timers /\ Time(wheel, turns, t) \in Nat
    <2>1. On(wheel) \in SUBSET Timers
      BY DEF On
    <2> SUFFICES ASSUME NEW t \in Timers PROVE Time(wheel, turns, t) \in Nat
      BY <2>1
    <2> DEFINE g == Gap(wheel.cur_slot, wheel.time_slot[t])
               p == wheel.rotation[t] * N
    <2>2. g \in 0 .. N - 1 /\ p \in Nat /\ N \in Nat
      BY <1>1, WheelNumbers
    <2>3. Time(wheel, turns, t) = turns + g + p
      BY DEF Time
    <2> HIDE DEF g, p
    <2> QED
      BY <1>1, <2>2, <2>3
  <1>3. CASE UNCHANGED vars
    BY <1>1, <1>3 DEF vars, listVars, wheelVars, heapVars, WheelOk, ServiceStep, Service!serviceVars, Fired
  <1>4. CASE Second
    <2>1. WheelOk'
      BY <1>1, <1>4 DEF Second, WheelOk, wheelVars
    <2>2. UNCHANGED Service!serviceVars
      BY <1>1, <1>4 DEF Second, wheelVars, Service!serviceVars, Fired
    <2> QED
      BY <2>1, <2>2 DEF ServiceStep
  <1>5. ASSUME NEW t \in Timers, NEW d \in Delays, WheelAdd(t, d) PROVE WheelOk' /\ ServiceStep
    <2> DEFINE k == TW!Ticks(d)
    <2>1. t \notin On(wheel) /\ k \in Nat /\ turns + k \in Nat /\ turns + k >= turns
      BY <1>1, <1>5, TicksAre DEF WheelAdd, On
    <2>2. /\ promised' = [promised EXCEPT ![t] = turns + k] /\ uses' = uses /\ turns' = turns /\ wheelFired' = {}
          /\ yfired' = yfired /\ heapFired' = heapFired /\ wheel' = TW!Put(wheel, t, k)
      BY <1>5 DEF WheelAdd, Expect, TW!WheelAdd, listVars, heapVars
    <2> HIDE DEF k
    <2>3. PutOn(wheel, turns, t, k, wheel')
      BY <1>1, <2>1, <2>2, WheelAdded, Zenon
    <2>4. /\ WheelSound(wheel') /\ On(wheel') = On(wheel) \cup {t} /\ Time(wheel', turns, t) = turns + k
          /\ \A x \in On(wheel) : Time(wheel', turns, x) = Time(wheel, turns, x)
      BY <2>3 DEF PutOn
    <2>5. WheelOk'
      <3>1. \A x \in Timers : promised'[x] = IF x \in On(wheel') THEN Time(wheel', turns', x) ELSE None
        BY <1>1, <2>1, <2>2, <2>4
      <3>2. WheelSound(wheel)' /\ On(wheel)' = On(wheel')
        BY <2>4 DEF On
      <3> QED
        BY <3>1, <3>2 DEF WheelOk
    <2>6. Service!Schedule(t)
      <3>1. promised[t] = None /\ promised'[t] = turns + k
        BY <1>1, <2>1, <2>2
      <3> QED
        BY <1>1, <2>1, <2>2, <3>1 DEF Service!Schedule, Fired
    <2> QED
      BY <2>5, <2>6 DEF ServiceStep, Service!ServiceNext
  <1>6. ASSUME NEW t \in Timers, WheelDel(t) PROVE WheelOk' /\ ServiceStep
    <2>1. t \in On(wheel)
      BY <1>6 DEF WheelDel, On
    <2>2. /\ promised' = [promised EXCEPT ![t] = None] /\ uses' = uses /\ turns' = turns /\ wheelFired' = {}
          /\ yfired' = yfired /\ heapFired' = heapFired /\ wheel' = TW!Unlink(wheel, t)
      BY <1>6 DEF WheelDel, Expect, TW!WheelDel, listVars, heapVars
    <2>3. TookOff(wheel, turns, t, wheel')
      BY <1>1, <2>1, <2>2, WheelDeleted, Zenon
    <2>4. WheelSound(wheel') /\ On(wheel') = On(wheel) \ {t} /\ \A x \in On(wheel') : Time(wheel', turns, x) = Time(wheel, turns, x)
      BY <2>3 DEF TookOff
    <2>5. WheelOk'
      <3>1. \A x \in Timers : promised'[x] = IF x \in On(wheel') THEN Time(wheel', turns', x) ELSE None
        BY <1>1, <2>2, <2>4
      <3>2. WheelSound(wheel)' /\ On(wheel)' = On(wheel')
        BY <2>4 DEF On
      <3> QED
        BY <3>1, <3>2 DEF WheelOk
    <2>6. Service!Cancel(t)
      BY <1>1, <2>2 DEF Service!Cancel, Fired
    <2> QED
      BY <2>5, <2>6 DEF ServiceStep, Service!ServiceNext
  <1>7. CASE Tick
    <2>1. /\ wheel' = TW!Turn(wheel) /\ wheelFired' = Expired(wheel) /\ turns' = turns + 1
          /\ promised' = [t \in Timers |-> IF t \in Fired' THEN None ELSE promised[t]]
          /\ uses' = uses /\ yfired' = yfired /\ heapFired' = heapFired
      BY <1>7 DEF Tick, TW!WheelTick, listVars, heapVars, Expired
    <2>2. Turns(wheel, turns, wheel') /\ Expired(wheel) \in SUBSET On(wheel)
      BY <1>1, <2>1, WheelTurned, Zenon
    <2>3. /\ WheelSound(wheel') /\ On(wheel') = On(wheel) \ Expired(wheel)
          /\ \A x \in On(wheel') : Time(wheel', turns + 1, x) = Time(wheel, turns, x)
          /\ \A x \in On(wheel) : x \in Expired(wheel) <=> Time(wheel, turns, x) <= turns
      BY <2>2 DEF Turns
    <2>4. Fired' = Expired(wheel)
      BY <1>1, <2>1 DEF Fired
    <2>5. Fired' = {t \in Timers : promised[t] # None /\ promised[t] <= turns}
      <3>1. \A t \in Timers : promised[t] # None <=> t \in On(wheel)
        BY <1>1, <1>2
      <3>2. \A t \in Expired(wheel) : t \in Timers /\ t \in On(wheel)
        BY <1>2, <2>2
      <3>3. \A t \in On(wheel) : promised[t] = Time(wheel, turns, t) /\ t \in Timers
        BY <1>1, <1>2
      <3> HIDE DEF Fired
      <3> QED
        BY <2>3, <2>4, <3>1, <3>2, <3>3
    <2>6. WheelOk'
      <3>1. \A x \in Timers : promised'[x] = IF x \in On(wheel') THEN Time(wheel', turns', x) ELSE None
        <4> SUFFICES ASSUME NEW x \in Timers PROVE promised'[x] = IF x \in On(wheel') THEN Time(wheel', turns', x) ELSE None
          OBVIOUS
        <4>1. promised'[x] = IF x \in Expired(wheel) THEN None ELSE promised[x]
          BY <2>1, <2>4
        <4> QED
          BY <1>1, <2>1, <2>3, <4>1
      <3>2. WheelSound(wheel)' /\ On(wheel)' = On(wheel')
        BY <2>3 DEF On
      <3> QED
        BY <3>1, <3>2 DEF WheelOk
    <2>7. Service!Fire
      BY <1>1, <2>1, <2>5 DEF Service!Fire
    <2> QED
      BY <2>6, <2>7 DEF ServiceStep, Service!ServiceNext
  <1> QED
    BY <1>3, <1>4, <1>5, <1>6, <1>7 DEF Next, Calls, Cancels, ListAdd, ListAdjust, ListDel, HeapAdd, HeapDel

(* So the wheel keeps its promises all along. *)
LEMMA WheelKept == Spec => [](ClientOk /\ WheelOk)
  <1>1. Init => ClientOk /\ WheelOk
    <2> SUFFICES ASSUME Init PROVE ClientOk /\ WheelOk
      OBVIOUS
    <2>1. ClientOk
      BY HeapInitially DEF HeapInv
    <2>2. WheelSound(wheel) /\ On(wheel) = {}
      BY WheelStarts DEF Init
    <2>3. uses = "wheel" => \A t \in Timers : promised[t] = None
      <3> SUFFICES ASSUME uses = "wheel", NEW t \in Timers PROVE promised[t] = None
        OBVIOUS
      <3>1. heap = TH!Empty(Cap)
        BY DEF Init, TH!HeapInit
      <3>2. heap.cur_size = 0
        BY <3>1 DEF TH!Empty
      <3>3. TH!Held(heap) = {}
        BY <3>2 DEF TH!Held
      <3> QED
        BY <3>3 DEF Init
    <2> QED
      BY <2>1, <2>2, <2>3 DEF WheelOk
  <1>2. ClientOk /\ WheelOk /\ [Next]_vars => (ClientOk /\ WheelOk)'
    <2> SUFFICES ASSUME ClientOk, WheelOk, [Next]_vars PROVE (ClientOk /\ WheelOk)'
      OBVIOUS
    <2>1. ClientOk' /\ uses' = uses
      BY ClientKeeps
    <2>2. CASE uses = "wheel"
      BY <2>1, <2>2, WheelSteps
    <2>3. CASE uses # "wheel"
      BY <2>1, <2>3, WheelStays DEF WheelOk
    <2> QED
      BY <2>1, <2>2, <2>3
  <1> QED
    BY <1>1, <1>2, PTL DEF Spec

-----------------------------------------------------------------------------
(* The two lists, by SortTimerListProof. *)

(* What the lemmas about lists assume of the constants. *)
LEMMA ListNames == WP!NamesOk /\ YP!NamesOk
  BY ContainersAssumption DEF WP!NamesOk, YP!NamesOk

InsertAfter(l, t, p) ==
    IF l.next[p] = NULL
    THEN [l EXCEPT !.next[p] = t, !.prev[t] = p, !.next[t] = NULL, !.tail = t]
    ELSE [l EXCEPT !.next[p] = t, !.next[t] = l.next[p], !.prev[l.next[p]] = t, !.prev[t] = p]

SweptList(l, h, gone) ==
    LET swept == [l EXCEPT !.head = h,
                           !.next = [t \in Timers |-> IF t \in gone THEN Freed ELSE @[t]],
                           !.prev = [t \in Timers |-> IF t \in gone THEN Freed ELSE @[t]],
                           !.expire = [t \in Timers |-> IF t \in gone THEN 0 ELSE @[t]]]
    IN  IF gone = {} \/ h = NULL THEN swept ELSE [swept EXCEPT !.prev[h] = NULL]

(* lst_timer.cpp: the operators of the model are those the lemmas are      *)
(* about.                                                                  *)
LEMMA WebLast == \A l, e, p : WP!LastBefore(l, e, p) = WL!LastBefore(l, e, p)
  BY Zenon DEF WP!LastBefore, WL!LastBefore
LEMMA WebMembers == \A l : WP!Members(l) = WL!Members(l)
  BY Zenon DEF WP!Members, WL!Members
LEMMA WebDue == \A l, cur : WP!FirstNotDue(l, cur) = WL!FirstNotDue(l, cur)
  BY Zenon DEF WP!FirstNotDue, WL!FirstNotDue
LEMMA WebInsert == \A l, t, h : WP!Insert(l, t, h) = WL!Insert(l, t, h)
  <1> SUFFICES ASSUME NEW l, NEW t, NEW h PROVE WP!Insert(l, t, h) = WL!Insert(l, t, h)
    OBVIOUS
  <1> DEFINE p == WP!LastBefore(l, l.expire[t], h)
  <1>1. p = WL!LastBefore(l, l.expire[t], h)
    BY WebLast
  <1>2. WP!Insert(l, t, h) = InsertAfter(l, t, p)
    BY DEF WP!Insert, InsertAfter
  <1>3. WL!Insert(l, t, h) = InsertAfter(l, t, WL!LastBefore(l, l.expire[t], h))
    BY DEF WL!Insert, InsertAfter
  <1> QED
    BY <1>1, <1>2, <1>3
LEMMA WebAdd == \A l, t, e : WP!add_timer(WP!New(l, t, e), t) = WL!add_timer(WL!New(l, t, e), t)
  BY WebInsert DEF WP!add_timer, WL!add_timer, WP!New, WL!New
LEMMA WebMove == \A l, t : WP!adjust_timer(l, t) = WL!adjust_timer(l, t)
  BY WebInsert DEF WP!adjust_timer, WL!adjust_timer
LEMMA WebDel == \A l, t : WP!del_timer(l, t) = WL!del_timer(l, t)
  BY DEF WP!del_timer, WL!del_timer, WP!Delete, WL!Delete
LEMMA WebTick == \A l, cur : WP!tick(l, cur) = WL!tick(l, cur)
  <1> SUFFICES ASSUME NEW l, NEW cur PROVE WP!tick(l, cur) = WL!tick(l, cur)
    OBVIOUS
  <1> DEFINE h == WP!FirstNotDue(l, cur)
             g == WP!Members(l) \ WP!Members([l EXCEPT !.head = h])
  <1>1. WP!tick(l, cur) = SweptList(l, h, g)
    BY DEF WP!tick, SweptList
  <1>2. WL!tick(l, cur) = SweptList(l, WL!FirstNotDue(l, cur), WL!Members(l) \ WL!Members([l EXCEPT !.head = WL!FirstNotDue(l, cur)]))
    BY DEF WL!tick, SweptList
  <1>3. WL!FirstNotDue(l, cur) = h
    BY WebDue
  <1>4. g = WL!Members(l) \ WL!Members([l EXCEPT !.head = h])
    BY WebMembers
  <1> QED
    BY <1>1, <1>2, <1>3, <1>4
LEMMA WebLinked == WP!ListLinked <=> WL!ListLinked
  BY WebMembers DEF WP!ListLinked, WL!ListLinked

(* 11-2lst_timer.h, the same. *)
LEMMA YouLast == \A l, e, p : YP!LastBefore(l, e, p) = YL!LastBefore(l, e, p)
  BY Zenon DEF YP!LastBefore, YL!LastBefore
LEMMA YouMembers == \A l : YP!Members(l) = YL!Members(l)
  BY Zenon DEF YP!Members, YL!Members
LEMMA YouDue == \A l, cur : YP!FirstNotDue(l, cur) = YL!FirstNotDue(l, cur)
  BY Zenon DEF YP!FirstNotDue, YL!FirstNotDue
LEMMA YouInsert == \A l, t, h : YP!Insert(l, t, h) = YL!Insert(l, t, h)
  <1> SUFFICES ASSUME NEW l, NEW t, NEW h PROVE YP!Insert(l, t, h) = YL!Insert(l, t, h)
    OBVIOUS
  <1> DEFINE p == YP!LastBefore(l, l.expire[t], h)
  <1>1. p = YL!LastBefore(l, l.expire[t], h)
    BY YouLast
  <1>2. YP!Insert(l, t, h) = InsertAfter(l, t, p)
    BY DEF YP!Insert, InsertAfter
  <1>3. YL!Insert(l, t, h) = InsertAfter(l, t, YL!LastBefore(l, l.expire[t], h))
    BY DEF YL!Insert, InsertAfter
  <1> QED
    BY <1>1, <1>2, <1>3
LEMMA YouAdd == \A l, t, e : YP!add_timer(YP!New(l, t, e), t) = YL!add_timer(YL!New(l, t, e), t)
  BY YouInsert DEF YP!add_timer, YL!add_timer, YP!New, YL!New
LEMMA YouMove == \A l, t : YP!adjust_timer(l, t) = YL!adjust_timer(l, t)
  BY YouInsert DEF YP!adjust_timer, YL!adjust_timer
LEMMA YouDel == \A l, t : YP!del_timer(l, t) = YL!del_timer(l, t)
  BY DEF YP!del_timer, YL!del_timer, YP!Delete, YL!Delete
LEMMA YouTick == \A l, cur : YP!tick(l, cur) = YL!tick(l, cur)
  <1> SUFFICES ASSUME NEW l, NEW cur PROVE YP!tick(l, cur) = YL!tick(l, cur)
    OBVIOUS
  <1> DEFINE h == YP!FirstNotDue(l, cur)
             g == YP!Members(l) \ YP!Members([l EXCEPT !.head = h])
  <1>1. YP!tick(l, cur) = SweptList(l, h, g)
    BY DEF YP!tick, SweptList
  <1>2. YL!tick(l, cur) = SweptList(l, YL!FirstNotDue(l, cur), YL!Members(l) \ YL!Members([l EXCEPT !.head = YL!FirstNotDue(l, cur)]))
    BY DEF YL!tick, SweptList
  <1>3. YL!FirstNotDue(l, cur) = h
    BY YouDue
  <1>4. g = YL!Members(l) \ YL!Members([l EXCEPT !.head = h])
    BY YouMembers
  <1> QED
    BY <1>1, <1>2, <1>3, <1>4
LEMMA YouLinked == YP!ListLinked <=> YL!ListLinked
  BY YouMembers DEF YP!ListLinked, YL!ListLinked

(* The two lists agree, and hold what the client was promised. *)
ListsOk ==
    /\ WP!ListSound(wlist) /\ YP!ListSound(ylist) /\ wfired = yfired
    /\ WP!HungOn(wlist) = YP!HungOn(ylist)
    /\ \A t \in YP!HungOn(ylist) : wlist.expire[t] = ylist.expire[t] /\ ylist.expire[t] \in Nat
    /\ uses = "list" =>
         \A t \in Timers : promised[t] = IF t \in YP!HungOn(ylist) THEN ylist.expire[t] ELSE None

(* The lists that agree are linked as ContainersSound states. *)
LEMMA ListsSound == ListsOk => wfired = yfired /\ WL!ListLinked /\ YL!ListLinked
  BY ListNames, WebLinked, YouLinked, WP!SoundLinked, YP!SoundLinked DEF ListsOk

(* What a list holds is what its pointers reach. *)
LEMMA ListsHold == ListsOk => YP!HungOn(ylist) = YL!Members(ylist) /\ WP!HungOn(wlist) = WL!Members(wlist)
                              /\ YP!HungOn(ylist) \in SUBSET Timers
  BY ListNames, WebMembers, YouMembers, WP!SoundFacts, YP!SoundFacts DEF ListsOk

(* Both begin empty. *)
LEMMA ListsEmpty == wlist = WL!Empty /\ ylist = YL!Empty => /\ WP!ListSound(wlist) /\ YP!ListSound(ylist)
                                                            /\ WP!HungOn(wlist) = {} /\ YP!HungOn(ylist) = {}
  <1>1. WP!Empty = WL!Empty /\ YP!Empty = YL!Empty
    BY DEF WP!Empty, WL!Empty, YP!Empty, YL!Empty
  <1> QED
    BY <1>1, ListNames, WP!SoundEmpty, YP!SoundEmpty

(* What a step of one list does to the promises, the other being alike. *)
Hung(w, y) ==
    /\ WP!ListSound(w) /\ YP!ListSound(y) /\ WP!HungOn(w) = YP!HungOn(y)
    /\ \A t \in YP!HungOn(y) : w.expire[t] = y.expire[t] /\ y.expire[t] \in Nat

(* The calls, on two sound lists that hold the same timers with the same   *)
(* times: both stay so.                                                    *)
LEMMA HungAdd ==
  ASSUME NEW w, NEW y, Hung(w, y), NEW t \in Timers, t \notin YP!HungOn(y), NEW e \in Nat,
         NEW v, v = WL!add_timer(WL!New(w, t, e), t), NEW z, z = YL!add_timer(YL!New(y, t, e), t)
  PROVE  Hung(v, z) /\ YP!Adding(y, t, e, z)
  <1>1. e \in Int /\ t \notin WP!HungOn(w) /\ WP!ListSound(w) /\ YP!ListSound(y)
    BY DEF Hung
  <1>2. v = WP!add_timer(WP!New(w, t, e), t)
    BY WebAdd
  <1>3. z = YP!add_timer(YP!New(y, t, e), t)
    BY YouAdd
  <1>4. WP!Adding(w, t, e, v)
    BY <1>1, <1>2, ListNames, WP!SoundAdd
  <1>5. YP!Adding(y, t, e, z)
    BY <1>1, <1>3, ListNames, YP!SoundAdd
  <1> QED
    BY <1>1, <1>4, <1>5 DEF Hung, WP!Adding, YP!Adding

LEMMA HungMove ==
  ASSUME NEW w, NEW y, Hung(w, y), NEW t \in YP!HungOn(y), NEW e \in Nat, y.expire[t] <= e,
         NEW v, v = WL!adjust_timer([w EXCEPT !.expire[t] = e], t), NEW z, z = YL!adjust_timer([y EXCEPT !.expire[t] = e], t)
  PROVE  Hung(v, z) /\ YP!Moving(y, t, e, z)
  <1>1. e \in Int /\ t \in WP!HungOn(w) /\ WP!ListSound(w) /\ YP!ListSound(y) /\ w.expire[t] <= e
    BY DEF Hung
  <1>2. v = WP!adjust_timer([w EXCEPT !.expire[t] = e], t)
    BY WebMove
  <1>3. z = YP!adjust_timer([y EXCEPT !.expire[t] = e], t)
    BY YouMove
  <1>4. WP!Moving(w, t, e, v)
    BY <1>1, <1>2, ListNames, WP!SoundMove
  <1>5. YP!Moving(y, t, e, z)
    BY <1>1, <1>3, ListNames, YP!SoundMove
  <1> QED
    BY <1>1, <1>4, <1>5 DEF Hung, WP!Moving, YP!Moving

LEMMA HungRemove ==
  ASSUME NEW w, NEW y, Hung(w, y), NEW t \in YP!HungOn(y),
         NEW v, v = WL!del_timer(w, t), NEW z, z = YL!del_timer(y, t)
  PROVE  Hung(v, z) /\ YP!Removing(y, t, z)
  <1>1. t \in WP!HungOn(w) /\ WP!ListSound(w) /\ YP!ListSound(y)
    BY DEF Hung
  <1>2. v = WP!del_timer(w, t) /\ z = YP!del_timer(y, t)
    BY WebDel, YouDel
  <1>3. WP!Removing(w, t, v)
    BY <1>1, <1>2, ListNames, WP!SoundRemove
  <1>4. YP!Removing(y, t, z)
    BY <1>1, <1>2, ListNames, YP!SoundRemove
  <1> QED
    BY <1>1, <1>3, <1>4 DEF Hung, WP!Removing, YP!Removing

LEMMA HungTick ==
  ASSUME NEW w, NEW y, Hung(w, y), NEW cur \in Nat, NEW v, v = WL!tick(w, cur), NEW z, z = YL!tick(y, cur)
  PROVE  Hung(v, z) /\ YP!Ticking(y, cur, z) /\ WL!Members(w) \ WL!Members(v) = YL!Members(y) \ YL!Members(z)
  <1>1. cur \in Int /\ WP!ListSound(w) /\ YP!ListSound(y)
    BY DEF Hung
  <1>2. v = WP!tick(w, cur) /\ z = YP!tick(y, cur)
    BY WebTick, YouTick
  <1>3. WP!Ticking(w, cur, v)
    BY <1>1, <1>2, ListNames, WP!SoundTick
  <1>4. YP!Ticking(y, cur, z)
    BY <1>1, <1>2, ListNames, YP!SoundTick
  <1>5. Hung(v, z)
    BY <1>1, <1>3, <1>4 DEF Hung, WP!Ticking, YP!Ticking
  <1>6. WP!Members(w) \ WP!Members(v) = YP!Members(y) \ YP!Members(z)
    BY <1>3, <1>4 DEF Hung, WP!Ticking, YP!Ticking
  <1> QED
    BY <1>4, <1>5, <1>6, WebMembers, YouMembers

-----------------------------------------------------------------------------
(* The client of the lists. *)

(* Who does not use the lists leaves them alone. *)
LEMMA ListsStay == ClientOk /\ uses # "list" /\ [Next]_vars => UNCHANGED listVars
  <1> SUFFICES ASSUME ClientOk, uses # "list", [Next]_vars PROVE UNCHANGED listVars
    OBVIOUS
  <1> USE DEF listVars
  <1>1. CASE Tick
    <2>1. CASE uses = "wheel"
      BY <1>1, <2>1 DEF Tick
    <2>2. CASE uses = "heap"
      BY <1>1, <2>2 DEF Tick
    <2> QED
      BY <2>1, <2>2 DEF ClientOk
  <1>2. CASE Second
    BY <1>2 DEF ClientOk, Second
  <1> QED
    BY <1>1, <1>2 DEF vars, Next, Calls, Cancels, ListAdd, ListAdjust, ListDel, WheelAdd, WheelDel, HeapAdd, HeapDel

(* Every step of a client of the lists keeps both and its promises, both   *)
(* fire the same timers, and the step is one of the service.               *)
LEMMA ListSteps == ClientOk /\ ListsOk /\ uses = "list" /\ [Next]_vars => ListsOk' /\ ServiceStep
  <1> SUFFICES ASSUME ClientOk, ListsOk, uses = "list", [Next]_vars PROVE ListsOk' /\ ServiceStep
    OBVIOUS
  <1> DEFINE C == YP!HungOn(ylist)
  <1>1. /\ now \in Nat /\ promised \in [Timers -> Nat \cup {None}] /\ None \notin Nat
        /\ heapFired = {} /\ wheelFired = {} /\ wfired = yfired /\ Hung(wlist, ylist)
        /\ \A t \in Timers : promised[t] = IF t \in C THEN ylist.expire[t] ELSE None
    BY ContainersAssumption DEF ClientOk, ListsOk, TW!WheelInit, Hung
  <1>2. C = YL!Members(ylist) /\ C \in SUBSET Timers /\ \A t \in C : ylist.expire[t] \in Nat
    BY ListsHold DEF ListsOk
  <1>3. ASSUME Hung(wlist', ylist'), wfired' = yfired', uses' = uses,
               \A t \in Timers : promised'[t] = IF t \in YP!HungOn(ylist') THEN ylist'.expire[t] ELSE None
        PROVE  ListsOk'
    <2>1. WP!HungOn(wlist)' = WP!HungOn(wlist') /\ YP!HungOn(ylist)' = YP!HungOn(ylist')
      BY DEF WP!HungOn, YP!HungOn
    <2>2. WP!ListSound(wlist)' /\ YP!ListSound(ylist)'
      BY <1>3 DEF Hung
    <2> QED
      BY <1>3, <2>1, <2>2 DEF ListsOk, Hung
  <1> HIDE DEF C
  <1>4. CASE UNCHANGED vars
    <2>1. ListsOk'
      BY <1>1, <1>3, <1>4 DEF vars, listVars, C
    <2> QED
      BY <1>4, <2>1 DEF vars, listVars, wheelVars, heapVars, ServiceStep, Service!serviceVars, Fired
  <1>5. CASE Second
    <2>1. /\ wfired' = {} /\ yfired' = {} /\ heapFired' = {} /\ wheelFired' = wheelFired /\ now' = now + 1
          /\ uses' = uses /\ promised' = promised /\ wlist' = wlist /\ ylist' = ylist
      BY <1>5 DEF Second, wheelVars
    <2>2. ListsOk'
      BY <1>1, <1>3, <2>1 DEF C
    <2>3. Service!Passes
      BY <1>1, <2>1 DEF Service!Passes, Fired
    <2> QED
      BY <2>2, <2>3 DEF ServiceStep, Service!ServiceNext
  <1>6. ASSUME NEW t \in Timers, NEW d \in Delays, ListAdd(t, d) PROVE ListsOk' /\ ServiceStep
    <2> DEFINE e == now + d
    <2>1. t \notin C /\ e \in Nat /\ e >= now
      BY <1>1, <1>2, <1>6, DelaysAre DEF ListAdd
    <2>2. /\ promised' = [promised EXCEPT ![t] = e] /\ uses' = uses /\ now' = now /\ wfired' = {} /\ yfired' = {}
          /\ wheelFired' = wheelFired /\ heapFired' = heapFired
          /\ wlist' = WL!add_timer(WL!New(wlist, t, e), t) /\ ylist' = YL!add_timer(YL!New(ylist, t, e), t)
      BY <1>6 DEF ListAdd, Expect, WL!ListAdd, YL!ListAdd, wheelVars, heapVars
    <2> HIDE DEF e
    <2>3. Hung(wlist', ylist') /\ YP!Adding(ylist, t, e, ylist')
      BY <1>1, <2>1, <2>2, HungAdd DEF C
    <2>4. YP!HungOn(ylist') = C \cup {t} /\ ylist'.expire[t] = e /\ \A x \in C : ylist'.expire[x] = ylist.expire[x]
      BY <2>3 DEF YP!Adding, C
    <2>5. \A x \in Timers : promised'[x] = IF x \in YP!HungOn(ylist') THEN ylist'.expire[x] ELSE None
      BY <1>1, <2>1, <2>2, <2>4
    <2>6. ListsOk'
      BY <1>3, <2>2, <2>3, <2>5
    <2>7. Service!Schedule(t)
      <3>1. promised[t] = None /\ promised'[t] = e
        BY <1>1, <2>1, <2>2
      <3> QED
        BY <1>1, <2>1, <2>2, <3>1 DEF Service!Schedule, Fired
    <2> QED
      BY <2>6, <2>7 DEF ServiceStep, Service!ServiceNext
  <1>7. ASSUME NEW t \in Timers, NEW d \in Delays, ListAdjust(t, d) PROVE ListsOk' /\ ServiceStep
    <2> DEFINE e == now + d
    <2>1. t \in C /\ e \in Nat /\ ylist.expire[t] \in Nat /\ ylist.expire[t] <= e
      <3>1. t \in C /\ e \in Nat /\ e > ylist.expire[t]
        BY <1>1, <1>2, <1>7, DelaysAre DEF ListAdjust
      <3> QED
        BY <1>2, <3>1
    <2>2. /\ promised' = [promised EXCEPT ![t] = e] /\ uses' = uses /\ now' = now /\ wfired' = {} /\ yfired' = {}
          /\ wheelFired' = wheelFired /\ heapFired' = heapFired
          /\ wlist' = WL!adjust_timer([wlist EXCEPT !.expire[t] = e], t)
          /\ ylist' = YL!adjust_timer([ylist EXCEPT !.expire[t] = e], t)
      BY <1>7 DEF ListAdjust, Expect, WL!ListAdjust, YL!ListAdjust, wheelVars, heapVars
    <2> HIDE DEF e
    <2>3. Hung(wlist', ylist') /\ YP!Moving(ylist, t, e, ylist')
      BY <1>1, <2>1, <2>2, HungMove DEF C
    <2>4. YP!HungOn(ylist') = C /\ ylist'.expire[t] = e /\ \A x \in C \ {t} : ylist'.expire[x] = ylist.expire[x]
      BY <2>3 DEF YP!Moving, C
    <2>5. \A x \in Timers : promised'[x] = IF x \in YP!HungOn(ylist') THEN ylist'.expire[x] ELSE None
      BY <1>1, <2>1, <2>2, <2>4
    <2>6. ListsOk'
      BY <1>3, <2>2, <2>3, <2>5
    <2>7. Service!Extend(t)
      <3>1. promised[t] = ylist.expire[t] /\ promised'[t] = e
        BY <1>1, <2>1, <2>2
      <3> QED
        BY <1>1, <2>1, <2>2, <3>1 DEF Service!Extend, Fired
    <2> QED
      BY <2>6, <2>7 DEF ServiceStep, Service!ServiceNext
  <1>8. ASSUME NEW t \in Timers, ListDel(t) PROVE ListsOk' /\ ServiceStep
    <2>1. t \in C
      BY <1>2, <1>8 DEF ListDel
    <2>2. /\ promised' = [promised EXCEPT ![t] = None] /\ uses' = uses /\ now' = now /\ wfired' = {} /\ yfired' = {}
          /\ wheelFired' = wheelFired /\ heapFired' = heapFired
          /\ wlist' = WL!del_timer(wlist, t) /\ ylist' = YL!del_timer(ylist, t)
      BY <1>8 DEF ListDel, Expect, WL!ListDel, YL!ListDel, wheelVars, heapVars
    <2>3. Hung(wlist', ylist') /\ YP!Removing(ylist, t, ylist')
      BY <1>1, <2>1, <2>2, HungRemove DEF C
    <2>4. YP!HungOn(ylist') = C \ {t} /\ \A x \in C \ {t} : ylist'.expire[x] = ylist.expire[x]
      BY <2>3 DEF YP!Removing, C
    <2>5. \A x \in Timers : promised'[x] = IF x \in YP!HungOn(ylist') THEN ylist'.expire[x] ELSE None
      BY <1>1, <2>1, <2>2, <2>4
    <2>6. ListsOk'
      BY <1>3, <2>2, <2>3, <2>5
    <2>7. Service!Cancel(t)
      BY <1>1, <2>2 DEF Service!Cancel, Fired
    <2> QED
      BY <2>6, <2>7 DEF ServiceStep, Service!ServiceNext
  <1>9. CASE Tick
    <2>1. /\ wlist' = WL!tick(wlist, now) /\ ylist' = YL!tick(ylist, now)
          /\ wfired' = WL!Members(wlist) \ WL!Members(wlist') /\ yfired' = YL!Members(ylist) \ YL!Members(ylist')
          /\ promised' = [t \in Timers |-> IF t \in Fired' THEN None ELSE promised[t]]
          /\ uses' = uses /\ now' = now /\ wheelFired' = wheelFired /\ heapFired' = heapFired
      BY <1>9 DEF Tick, WL!ListTick, YL!ListTick, wheelVars, heapVars
    <2>2. /\ Hung(wlist', ylist') /\ YP!Ticking(ylist, now, ylist')
          /\ WL!Members(wlist) \ WL!Members(wlist') = YL!Members(ylist) \ YL!Members(ylist')
      BY <1>1, <2>1, HungTick
    <2>3. /\ YP!HungOn(ylist') = {x \in C : now < ylist.expire[x]}
          /\ \A x \in YP!HungOn(ylist') : ylist'.expire[x] = ylist.expire[x]
          /\ yfired' = {x \in C : ylist.expire[x] <= now}
      BY <2>1, <2>2, YouMembers DEF YP!Ticking, C
    <2>4. Fired' = {x \in C : ylist.expire[x] <= now}
      BY <1>1, <2>1, <2>3 DEF Fired
    <2>5. Fired' = {t \in Timers : promised[t] # None /\ promised[t] <= now}
      <3> HIDE DEF Fired
      <3>1. \A t \in Timers : promised[t] # None <=> t \in C
        BY <1>1, <1>2
      <3> QED
        BY <1>1, <1>2, <2>4, <3>1
    <2>6. \A x \in Timers : promised'[x] = IF x \in YP!HungOn(ylist') THEN ylist'.expire[x] ELSE None
      <3> HIDE DEF Fired
      <3> SUFFICES ASSUME NEW x \in Timers PROVE promised'[x] = IF x \in YP!HungOn(ylist') THEN ylist'.expire[x] ELSE None
        OBVIOUS
      <3>1. promised'[x] = IF x \in Fired' THEN None ELSE promised[x]
        BY <2>1
      <3> QED
        BY <1>1, <1>2, <2>3, <2>4, <3>1
    <2>7. ListsOk'
      BY <1>3, <2>1, <2>2, <2>6
    <2>8. Service!Fire
      BY <1>1, <2>1, <2>5 DEF Service!Fire
    <2> QED
      BY <2>7, <2>8 DEF ServiceStep, Service!ServiceNext
  <1> QED
    BY <1>4, <1>5, <1>6, <1>7, <1>8, <1>9 DEF Next, Calls, Cancels, WheelAdd, WheelDel, HeapAdd, HeapDel

(* So the lists keep their promises all along. *)
LEMMA ListsKept == Spec => [](ClientOk /\ ListsOk)
  <1>1. Init => ClientOk /\ ListsOk
    <2> SUFFICES ASSUME Init PROVE ClientOk /\ ListsOk
      OBVIOUS
    <2>1. ClientOk
      BY HeapInitially DEF HeapInv
    <2>2. wlist = WL!Empty /\ ylist = YL!Empty /\ wfired = {} /\ yfired = {}
      BY DEF Init, WL!ListInit, YL!ListInit
    <2>3. /\ WP!ListSound(wlist) /\ YP!ListSound(ylist)
          /\ WP!HungOn(wlist) = {} /\ YP!HungOn(ylist) = {}
      BY <2>2, ListsEmpty
    <2>4. uses = "list" => \A t \in Timers : promised[t] = None
      <3> SUFFICES ASSUME uses = "list", NEW t \in Timers PROVE promised[t] = None
        OBVIOUS
      <3>1. heap = TH!Empty(Cap)
        BY DEF Init, TH!HeapInit
      <3>2. heap.cur_size = 0
        BY <3>1 DEF TH!Empty
      <3>3. TH!Held(heap) = {}
        BY <3>2 DEF TH!Held
      <3> QED
        BY <3>3 DEF Init
    <2> QED
      BY <2>1, <2>2, <2>3, <2>4 DEF ListsOk
  <1>2. ClientOk /\ ListsOk /\ [Next]_vars => (ClientOk /\ ListsOk)'
    <2> SUFFICES ASSUME ClientOk, ListsOk, [Next]_vars PROVE (ClientOk /\ ListsOk)'
      OBVIOUS
    <2>1. ClientOk' /\ uses' = uses
      BY ClientKeeps
    <2>2. CASE uses = "list"
      BY <2>1, <2>2, ListSteps
    <2>3. CASE uses # "list"
      <3>1. UNCHANGED listVars
        BY <2>3, ListsStay
      <3>2. WP!HungOn(wlist)' = WP!HungOn(wlist) /\ YP!HungOn(ylist)' = YP!HungOn(ylist)
        BY <3>1 DEF listVars, WP!HungOn, YP!HungOn
      <3> QED
        BY <2>1, <2>3, <3>1, <3>2 DEF listVars, ListsOk
    <2> QED
      BY <2>1, <2>2, <2>3
  <1> QED
    BY <1>1, <1>2, PTL DEF Spec

(* 11-2lst_timer.h, lst_timer.cpp, 11-5tw_timer.h and 11-6time_heap.h:     *)
(* whatever calls a client makes, the two lists fire the same timers and   *)
(* stay linked and sorted, each slot of the wheel is a list of its own     *)
(* timers, and the array of the heap is ordered and holds each timer once. *)
(* Each is inductive only with what the client was promised of every timer *)
(* in the container, the times and heights that explain the pointers.      *)
THEOREM ContainersKept == Spec => []ContainersSound
  <1>1. ClientOk /\ ListsOk => wfired = yfired /\ WL!ListLinked /\ YL!ListLinked
    BY ListsSound
  <1>2. ClientOk /\ WheelOk => TW!WheelLinked
    BY SoundWheel DEF WheelOk
  <1>3. HeapInv => TH!HeapOrdered
    BY SoundHeap, SameCardinality DEF HeapInv, HeapOk, TH!HeapOrdered
  <1>4. HeapInv /\ (ClientOk /\ WheelOk) /\ (ClientOk /\ ListsOk) => ContainersSound
    BY <1>1, <1>2, <1>3 DEF ContainersSound
  <1> QED
    BY <1>4, HeapKept, WheelKept, ListsKept, PTL

(* The four containers implement TimerService: add_timer, adjust_timer and *)
(* del_timer change one promise, and tick fires exactly the timers whose   *)
(* time has come, on the list and the heap by the clock, on the wheel by   *)
(* its turns.                                                              *)
THEOREM ContainersServe == Spec => ImplementsService
  <1> DEFINE Inv == HeapInv /\ WheelOk /\ ListsOk
  <1>1. Inv /\ [Next]_vars => [Service!ServiceNext]_Service!serviceVars
    <2> SUFFICES ASSUME Inv, [Next]_vars PROVE ServiceStep
      BY DEF ServiceStep
    <2>1. uses \in {"list", "wheel", "heap"}
      BY DEF HeapInv, ClientOk
    <2>2. CASE uses = "list"
      BY <2>2, ListSteps DEF HeapInv
    <2>3. CASE uses = "wheel"
      BY <2>3, WheelSteps DEF HeapInv
    <2>4. CASE uses = "heap"
      BY <2>4, HeapSteps
    <2> QED
      BY <2>1, <2>2, <2>3, <2>4
  <1>2. Init /\ HeapInv => Service!ServiceInit
    BY ServiceStarts
  <1>3. Spec => []Inv
    BY HeapKept, WheelKept, ListsKept, PTL
  <1> HIDE DEF Inv
  <1>4. Spec => HeapInv
    BY HeapKept, PTL
  <1> QED
    BY <1>1, <1>2, <1>3, <1>4, PTL DEF Spec, ImplementsService, Service!ServiceSpec
=============================================================================
