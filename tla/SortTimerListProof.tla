------------------------- MODULE SortTimerListProof -------------------------
(***************************************************************************)
(* The sorted list of timers, with and without the return in add_timer     *)
(* (Returns), for any finite set of timers and any expiry: a sound list    *)
(* stays linked both ways and sorted, and each call does to the set of its *)
(* timers, to their times and to the timers outside it what it is to do.   *)
(* TimerContainersProof takes these lemmas for the two containers of their *)
(* client, ClientServersProof for the servers with a list of their own.    *)
(***************************************************************************)
EXTENDS SortTimerList, FiniteSetTheorems, SequenceTheorems, WellFoundedInduction, NaturalsInduction, TLAPS

(* A set of naturals has a least element. *)
LEMMA Least == ASSUME NEW S \in SUBSET Nat, S # {} PROVE \E x \in S : \A y \in S : x <= y
  <1>1. \E x \in S : \A y \in S : ~(<<y, x>> \in OpToRel(<, Nat))
    BY NatLessThanWellFounded, WFMin, Zenon
  <1>2. \A p \in Nat \X Nat : p[1] < p[2] => p \in OpToRel(<, Nat)
    BY Zenon DEF OpToRel
  <1>3. \A x, y \in Nat : y < x => <<y, x>> \in OpToRel(<, Nat)
    <2> SUFFICES ASSUME NEW x \in Nat, NEW y \in Nat, y < x PROVE <<y, x>> \in OpToRel(<, Nat)
      OBVIOUS
    <2>1. <<y, x>> \in Nat \X Nat /\ <<y, x>>[1] = y /\ <<y, x>>[2] = x
      OBVIOUS
    <2>2. <<y, x>>[1] < <<y, x>>[2]
      BY <2>1
    <2> QED
      BY <1>2, <2>1, <2>2, Zenon
  <1>4. \E x \in S : \A y \in S : ~(y < x)
    BY <1>1, <1>3, Zenon
  <1> QED
    BY <1>4

-----------------------------------------------------------------------------
(* A list of timers C in the pointers of l: every timer of it has a height  *)
(* r, next goes down to the one below and prev up to the one above, and     *)
(* expire grows on the way down.                                            *)
Links == Timers \cup {NULL, Freed}
TimerList == [head : Timers \cup {NULL}, tail : Timers \cup {NULL},
              next : [Timers -> Links], prev : [Timers -> Links], expire : [Timers -> Int]]
Chain(nx, C, r) ==
    /\ C \in SUBSET Timers /\ r \in [Timers -> Nat] /\ nx \in [Timers -> Links]
    /\ \A x \in C : nx[x] \in C \cup {NULL}
    /\ \A x \in C : nx[x] \in C => r[nx[x]] < r[x] /\ \A y \in C : r[x] <= r[y] \/ r[y] <= r[nx[x]]
    /\ \A x \in C : nx[x] = NULL => \A y \in C : r[x] <= r[y]
    /\ \A x, y \in C : r[x] = r[y] => x = y
    /\ \A x \in Timers \ C : nx[x] \in C \cup {NULL, Freed}
HeadBack(p, h) == p = NULL \/ (~Returns /\ p = h)
Back(l, C, r) ==
    /\ C = {} => l.head = NULL
    /\ C # {} => /\ l.head \in C /\ l.tail \in C
                 /\ l.next[l.tail] = NULL /\ HeadBack(l.prev[l.head], l.head)
    /\ \A y \in C : r[y] <= r[l.head]
    /\ \A x \in C : x # l.head => l.prev[x] \in C /\ l.next[l.prev[x]] = x
    /\ \A x \in C : l.next[x] \in C => l.expire[x] <= l.expire[l.next[x]]
Linked(l, C, r) == l \in TimerList /\ Chain(l.next, C, r) /\ Back(l, C, r)

NamesOk == NULL \notin Timers /\ Freed \notin Timers /\ NULL # Freed

(* Where prev of the head may point. *)
LEMMA HeadNull == ASSUME NEW p, NEW h, p = NULL PROVE HeadBack(p, h)
  BY DEF HeadBack

LEMMA Names == NamesOk => NULL \notin Timers /\ Freed \notin Timers /\ NULL # Freed
  BY DEF NamesOk

(* A bounded set of heights has a greatest element. *)
LEMMA Highest ==
  ASSUME NamesOk, NEW r \in [Timers -> Nat], NEW S \in SUBSET Timers, S # {}, NEW b \in Nat, \A y \in S : r[y] <= b
  PROVE  \E z \in S : \A y \in S : r[y] <= r[z]
  <1> DEFINE T == {b - r[y] : y \in S}
  <1>1. T \in SUBSET Nat /\ T # {}
    OBVIOUS
  <1>2. PICK m \in T : \A k \in T : m <= k
    <2> HIDE DEF T
    <2> QED
      BY <1>1, Least
  <1>3. PICK z \in S : m = b - r[z]
    OBVIOUS
  <1>4. \A y \in S : b - r[z] <= b - r[y] /\ r[y] \in Nat /\ r[z] \in Nat
    BY <1>2, <1>3
  <1> QED
    BY <1>4

(* The place with the least height where something holds. *)
LEMMA Lowest ==
  ASSUME NamesOk, NEW r \in [Timers -> Nat], NEW S \in SUBSET Timers, S # {}
  PROVE  \E z \in S : \A y \in S : r[z] <= r[y]
  <1> DEFINE T == {r[y] : y \in S}
  <1>1. T \in SUBSET Nat /\ T # {}
    OBVIOUS
  <1>2. PICK m \in T : \A k \in T : m <= k
    <2> HIDE DEF T
    <2> QED
      BY <1>1, Least
  <1> QED
    BY <1>2

-----------------------------------------------------------------------------
(* Following next until a place of the set stop: Walk(f) is the equation   *)
(* of the recursive functions that do so, and f has to end at the first    *)
(* such place, or at NULL.                                              *)
Walk(f, nx, D, stop) == f = [x \in D |-> IF x \in stop THEN x ELSE f[nx[x]]]
Ahead(C, r, stop, x) == {y \in C : y \in stop /\ r[y] <= r[x]}
EndsAt(C, r, stop, x, z) ==
    \/ Ahead(C, r, stop, x) = {} /\ z = NULL
    \/ z \in Ahead(C, r, stop, x) /\ \A y \in Ahead(C, r, stop, x) : r[y] <= r[z]
Walkable(nx, C, D, stop) ==
    /\ C \subseteq D /\ stop \subseteq D
    /\ \A x \in C \ stop : nx[x] = NULL => NULL \in stop
    /\ \A x \in D \ C : x \in stop \/ nx[x] \in C \/ nx[x] \in stop

(* There is one such end, and only one. *)
LEMMA OneEnd ==
  ASSUME NamesOk, NEW nx, NEW C, NEW r, Chain(nx, C, r), NEW stop, NEW x \in C
  PROVE  /\ \E z : EndsAt(C, r, stop, x, z)
         /\ \A y, z : EndsAt(C, r, stop, x, y) /\ EndsAt(C, r, stop, x, z) => y = z
  <1> DEFINE S == Ahead(C, r, stop, x)
  <1>1. /\ S \in SUBSET Timers /\ r \in [Timers -> Nat] /\ r[x] \in Nat /\ \A y \in S : r[y] <= r[x] /\ y \in C
        /\ \A y, z \in C : r[y] = r[z] => y = z
    BY DEF Ahead, Chain
  <1>2. \E z : EndsAt(C, r, stop, x, z)
    <2>1. CASE S = {}
      BY <2>1 DEF EndsAt
    <2>2. CASE S # {}
      <3> HIDE DEF S
      <3>1. \E z \in S : \A y \in S : r[y] <= r[z]
        BY <1>1, <2>2, Highest
      <3> QED
        BY <3>1 DEF EndsAt, S
    <2> QED
      BY <2>1, <2>2
  <1> HIDE DEF S
  <1>3. ASSUME NEW y, NEW z, EndsAt(C, r, stop, x, y), EndsAt(C, r, stop, x, z) PROVE y = z
    <2>1. CASE S = {}
      BY <1>3, <2>1 DEF EndsAt, S
    <2>2. CASE S # {}
      <3>1. y \in S /\ z \in S /\ r[y] <= r[z] /\ r[z] <= r[y]
        BY <1>3, <2>2 DEF EndsAt, S
      <3>2. r[y] \in Nat /\ r[z] \in Nat /\ y \in C /\ z \in C
        BY <1>1, <3>1
      <3>3. r[y] = r[z]
        BY <3>1, <3>2
      <3> QED
        BY <1>1, <3>2, <3>3
    <2> QED
      BY <2>1, <2>2
  <1> QED
    BY <1>2, <1>3

(* One step down the list leads to the same end. *)
LEMMA SameEnd ==
  ASSUME NamesOk, NEW nx, NEW C, NEW r, Chain(nx, C, r), NEW stop, NEW x \in C
  PROVE  /\ x \in stop => EndsAt(C, r, stop, x, x)
         /\ x \notin stop /\ nx[x] = NULL => EndsAt(C, r, stop, x, NULL)
         /\ x \notin stop /\ nx[x] \in C => \A z : EndsAt(C, r, stop, nx[x], z) => EndsAt(C, r, stop, x, z)
  <1>1. /\ C \in SUBSET Timers /\ r \in [Timers -> Nat] /\ r[x] \in Nat /\ \A y \in C : r[y] \in Nat
        /\ \A y \in C : r[x] = r[y] => x = y
    BY DEF Chain
  <1>2. CASE x \in stop
    BY <1>1, <1>2 DEF EndsAt, Ahead
  <1>3. CASE x \notin stop /\ nx[x] = NULL
    <2>1. \A y \in C : r[x] <= r[y]
      BY <1>3 DEF Chain
    <2>2. \A y \in C : r[y] <= r[x] => y = x
      BY <1>1, <2>1
    <2>3. Ahead(C, r, stop, x) = {}
      BY <1>3, <2>2 DEF Ahead
    <2> QED
      BY <1>3, <2>3, Names DEF EndsAt, Chain
  <1>4. CASE x \notin stop /\ nx[x] \in C
    <2>1. r[nx[x]] < r[x] /\ r[nx[x]] \in Nat /\ \A y \in C : r[x] <= r[y] \/ r[y] <= r[nx[x]]
      BY <1>1, <1>4 DEF Chain
    <2>2. \A y \in C : y \in stop => (r[y] <= r[x] <=> r[y] <= r[nx[x]])
      BY <1>1, <1>4, <2>1
    <2>3. Ahead(C, r, stop, x) = Ahead(C, r, stop, nx[x])
      BY <2>2 DEF Ahead
    <2> QED
      BY <1>4, <2>3, Names DEF EndsAt, Chain
  <1> QED
    BY <1>2, <1>3, <1>4, Names DEF Chain

(* The equation of a walk has a solution... *)
LEMMA WalkExists ==
  ASSUME NamesOk, NEW nx, NEW C, NEW r, Chain(nx, C, r), NEW D, NEW stop, Walkable(nx, C, D, stop)
  PROVE  \E f : Walk(f, nx, D, stop)
  <1> DEFINE End(x) == CHOOSE z : EndsAt(C, r, stop, x, z)
             g == [x \in D |-> IF x \in C THEN End(x) ELSE IF x \in stop THEN x
                               ELSE IF nx[x] \in C THEN End(nx[x]) ELSE nx[x]]
  <1>1. \A x \in C : EndsAt(C, r, stop, x, End(x))
    BY OneEnd
  <1>2. NULL \notin C /\ C \subseteq D /\ stop \subseteq D
    BY Names DEF Chain, Walkable
  <1> HIDE DEF End
  <1>3. ASSUME NEW x \in D PROVE g[x] = IF x \in stop THEN x ELSE g[nx[x]]
    <2>1. CASE x \in C
      <3>1. g[x] = End(x)
        BY <2>1
      <3>2. CASE x \in stop
        <4>1. EndsAt(C, r, stop, x, x)
          BY <2>1, <3>2, SameEnd
        <4>2. End(x) = x
          BY <1>1, <2>1, <4>1, OneEnd
        <4> QED
          BY <3>1, <3>2, <4>2
      <3>3. CASE x \notin stop /\ nx[x] = NULL
        <4>1. EndsAt(C, r, stop, x, NULL)
          BY <2>1, <3>3, SameEnd
        <4>2. End(x) = NULL
          BY <1>1, <2>1, <4>1, OneEnd
        <4>3. NULL \in stop /\ NULL \in D
          BY <1>2, <2>1, <3>3 DEF Walkable
        <4>4. g[NULL] = NULL
          BY <1>2, <4>3
        <4> QED
          BY <3>1, <3>3, <4>2, <4>4
      <3>4. CASE x \notin stop /\ nx[x] \in C
        <4>1. EndsAt(C, r, stop, x, End(nx[x]))
          BY <1>1, <2>1, <3>4, SameEnd
        <4>2. End(x) = End(nx[x])
          BY <1>1, <2>1, <4>1, OneEnd
        <4>3. g[nx[x]] = End(nx[x])
          BY <1>2, <3>4
        <4> QED
          BY <3>1, <3>4, <4>2, <4>3
      <3>5. nx[x] \in C \cup {NULL}
        BY <2>1 DEF Chain
      <3> QED
        BY <3>2, <3>3, <3>4, <3>5
    <2>2. CASE x \notin C /\ x \in stop
      BY <2>2
    <2>3. CASE x \notin C /\ x \notin stop /\ nx[x] \in C
      BY <1>2, <2>3
    <2>4. CASE x \notin C /\ x \notin stop /\ nx[x] \notin C
      BY <1>2, <2>4 DEF Walkable
    <2> QED
      BY <2>1, <2>2, <2>3, <2>4
  <1>4. g = [x \in D |-> g[x]]
    OBVIOUS
  <1> HIDE DEF g
  <1>5. Walk(g, nx, D, stop)
    BY <1>3, <1>4 DEF Walk
  <1> QED
    BY <1>5

(* ...and every solution ends where it should. *)
LEMMA WalkEnds ==
  ASSUME NamesOk, NEW nx, NEW C, NEW r, Chain(nx, C, r), NEW D, NEW stop, Walkable(nx, C, D, stop),
         NEW f, Walk(f, nx, D, stop), NEW p \in C
  PROVE  EndsAt(C, r, stop, p, f[p])
  <1> DEFINE S == {x \in C : ~EndsAt(C, r, stop, x, f[x])}
  <1> SUFFICES ASSUME S # {} PROVE FALSE
    OBVIOUS
  <1>1. S \in SUBSET Timers /\ r \in [Timers -> Nat] /\ C \subseteq D /\ stop \subseteq D
    BY DEF Chain, Walkable
  <1>2. PICK x \in S : \A y \in S : r[x] <= r[y]
    <2> HIDE DEF S
    <2> QED
      BY <1>1, Lowest
  <1>3. x \in C /\ ~EndsAt(C, r, stop, x, f[x]) /\ f[x] = IF x \in stop THEN x ELSE f[nx[x]]
    BY <1>1 DEF Walk
  <1>4. x \notin stop
    BY <1>3, SameEnd
  <1>5. CASE nx[x] = NULL
    <2>1. NULL \in stop /\ NULL \in D
      BY <1>1, <1>3, <1>4, <1>5 DEF Walkable
    <2>2. f[NULL] = NULL
      BY <2>1 DEF Walk
    <2> QED
      BY <1>3, <1>4, <1>5, <2>2, SameEnd
  <1>6. CASE nx[x] \in C
    <2>1. r[nx[x]] < r[x] /\ r[x] \in Nat /\ r[nx[x]] \in Nat
      BY <1>3, <1>6 DEF Chain
    <2>2. nx[x] \notin S
      BY <1>2, <2>1
    <2>3. EndsAt(C, r, stop, nx[x], f[nx[x]])
      BY <1>6, <2>2
    <2> QED
      BY <1>3, <1>4, <1>6, <2>3, SameEnd
  <1> QED
    BY <1>3, <1>5, <1>6 DEF Chain

-----------------------------------------------------------------------------
(* What the functions of the list that follow next find. *)
LEMMA ListFacts ==
  ASSUME NamesOk, NEW l \in TimerList
  PROVE  /\ l.head \in Timers \cup {NULL} /\ l.tail \in Timers \cup {NULL} /\ l.next \in [Timers -> Links]
         /\ l.prev \in [Timers -> Links] /\ l.expire \in [Timers -> Int]
  BY DEF TimerList

(* Members finds what is not above the head. *)
LEMMA MembersFound ==
  ASSUME NamesOk, NEW l, NEW C, NEW r, Chain(l.next, C, r), l.head \in C \cup {NULL}
  PROVE  Members(l) = {y \in C : l.head \in C /\ r[y] <= r[l.head]}
  <1> DEFINE nx == l.next
             D == Timers \cup {NULL, Freed}
             Low(x) == {y \in C : r[y] <= r[x]}
             Rec(f) == f = [x \in D |-> IF x \notin Timers THEN {} ELSE {x} \cup f[l.next[x]]]
             g == [x \in D |-> IF x \in C THEN Low(x) ELSE IF x \notin Timers THEN {}
                               ELSE {x} \cup (IF nx[x] \in C THEN Low(nx[x]) ELSE {})]
             F == CHOOSE f : Rec(f)
  <1>1. /\ Chain(nx, C, r) /\ C \subseteq Timers /\ r \in [Timers -> Nat] /\ nx \in [Timers -> D] /\ C \subseteq D /\ Timers \subseteq D
        /\ NULL \notin Timers /\ Freed \notin Timers
    BY Names DEF Chain, Links
  <1>2. Members(l) = F[l.head]
    BY DEF Members
  <1> HIDE DEF nx
  <1>3. ASSUME NEW x \in D PROVE g[x] = IF x \notin Timers THEN {} ELSE {x} \cup g[nx[x]]
    <2>1. CASE x \notin Timers
      BY <1>1, <2>1
    <2>2. CASE x \in Timers /\ x \notin C
      BY <1>1, <2>2 DEF Chain
    <2>3. CASE x \in C /\ nx[x] = NULL
      <3>1. \A y \in C : r[x] <= r[y] /\ (r[x] = r[y] => x = y) /\ r[y] \in Nat /\ r[x] \in Nat
        BY <1>1, <2>3 DEF Chain
      <3>2. Low(x) = {x}
        BY <2>3, <3>1
      <3>3. g[x] = Low(x) /\ g[NULL] = {}
        BY <1>1, <2>3
      <3> QED
        BY <1>1, <2>3, <3>2, <3>3
    <2>4. CASE x \in C /\ nx[x] \in C
      <3>1. /\ r[nx[x]] < r[x] /\ r[nx[x]] \in Nat /\ r[x] \in Nat
            /\ \A y \in C : (r[x] <= r[y] \/ r[y] <= r[nx[x]]) /\ (r[x] = r[y] => x = y) /\ r[y] \in Nat
        BY <1>1, <2>4 DEF Chain
      <3>2. \A y \in C : r[y] <= r[x] <=> (y = x \/ r[y] <= r[nx[x]])
        BY <2>4, <3>1
      <3>3. Low(x) = {x} \cup Low(nx[x])
        BY <2>4, <3>2
      <3>4. g[x] = Low(x) /\ g[nx[x]] = Low(nx[x])
        BY <1>1, <2>4
      <3> QED
        BY <1>1, <2>4, <3>3, <3>4
    <2>5. x \in C => nx[x] \in C \cup {NULL}
      BY <1>1 DEF Chain
    <2> QED
      BY <2>1, <2>2, <2>3, <2>4, <2>5
  <1>4. g = [x \in D |-> g[x]]
    OBVIOUS
  <1>5. (\A x \in C : g[x] = Low(x)) /\ g[NULL] = {}
    BY <1>1
  <1> HIDE DEF g, D
  <1>6. Rec(g)
    BY <1>3, <1>4 DEF nx
  <1>7. Rec(F)
    <2>1. \E f : Rec(f)
      BY <1>6
    <2> HIDE DEF Rec
    <2> QED
      BY <2>1
  <1> HIDE DEF F
  <1>8. \A x \in D : F[x] = IF x \notin Timers THEN {} ELSE {x} \cup F[nx[x]]
    BY <1>7 DEF nx
  <1>9. ASSUME NEW p \in C PROVE F[p] = g[p]
    <2> DEFINE S == {x \in C : F[x] # g[x]}
    <2> SUFFICES ASSUME S # {} PROVE FALSE
      OBVIOUS
    <2>1. S \in SUBSET Timers
      BY <1>1
    <2>2. PICK x \in S : \A y \in S : r[x] <= r[y]
      <3> HIDE DEF S
      <3> QED
        BY <1>1, <2>1, Lowest
    <2>3. x \in C /\ x \in Timers /\ x \in D /\ F[x] # g[x]
      BY <1>1
    <2>4. F[nx[x]] # g[nx[x]]
      BY <1>3, <1>8, <2>3
    <2>5. nx[x] # NULL
      <3>1. NULL \in D
        BY DEF D
      <3>2. F[NULL] = {} /\ g[NULL] = {}
        BY <1>1, <1>5, <1>8, <3>1
      <3> QED
        BY <2>4, <3>2
    <2>6. nx[x] \in C
      BY <1>1, <2>3, <2>5 DEF Chain
    <2>7. r[nx[x]] < r[x] /\ r[nx[x]] \in Nat /\ r[x] \in Nat
      BY <1>1, <2>3, <2>6 DEF Chain
    <2>8. nx[x] \in S
      BY <2>4, <2>6
    <2> QED
      BY <2>2, <2>7, <2>8
  <1>10. CASE l.head = NULL
    <2>1. F[NULL] = {} /\ NULL \notin C
      BY <1>1, <1>8 DEF D
    <2> QED
      BY <1>2, <1>10, <2>1
  <1>11. CASE l.head \in C
    BY <1>2, <1>5, <1>9, <1>11
  <1> QED
    BY <1>10, <1>11

(* LastBefore finds the last timer that is not due after e. *)
LEMMA LastFound ==
  ASSUME NamesOk, NEW l \in TimerList, NEW C, NEW r, Chain(l.next, C, r), NEW e \in Int, NEW p \in C
  PROVE  LET z == LastBefore(l, e, p)
         IN  /\ z \in C /\ r[z] <= r[p] /\ (l.next[z] = NULL \/ e < l.expire[l.next[z]])
             /\ \A y \in C : r[z] < r[y] /\ r[y] <= r[p] => l.next[y] # NULL /\ l.expire[l.next[y]] <= e
  <1> DEFINE nx == l.next
             stop == {x \in Timers : nx[x] \notin Timers \/ e < l.expire[nx[x]]}
             Rec(f) == f = [x \in Timers |-> IF l.next[x] \notin Timers \/ e < l.expire[l.next[x]] THEN x ELSE f[l.next[x]]]
             F == CHOOSE f : Rec(f)
             z == F[p]
  <1>1. /\ Chain(nx, C, r) /\ C \subseteq Timers /\ r \in [Timers -> Nat] /\ nx \in [Timers -> Links] /\ l.expire \in [Timers -> Int]
        /\ NULL \notin Timers /\ Freed \notin Timers
    BY Names, ListFacts DEF Chain
  <1>2. LastBefore(l, e, p) = z
    BY DEF LastBefore
  <1>3. Walkable(nx, C, Timers, stop)
    <2>1. \A x \in C \ stop : nx[x] # NULL
      BY <1>1
    <2>2. \A x \in Timers \ C : x \in stop \/ nx[x] \in C
      BY <1>1 DEF Chain
    <2> QED
      BY <1>1, <2>1, <2>2 DEF Walkable
  <1>4. \A f : Rec(f) <=> Walk(f, nx, Timers, stop)
    <2> SUFFICES ASSUME NEW f PROVE Rec(f) <=> Walk(f, nx, Timers, stop)
      OBVIOUS
    <2>1. [x \in Timers |-> IF l.next[x] \notin Timers \/ e < l.expire[l.next[x]] THEN x ELSE f[l.next[x]]]
          = [x \in Timers |-> IF x \in stop THEN x ELSE f[nx[x]]]
      OBVIOUS
    <2> QED
      BY <2>1 DEF Walk
  <1>5. Rec(F)
    <2> HIDE DEF stop, nx
    <2>1. \E f : Rec(f)
      BY <1>1, <1>3, <1>4, WalkExists
    <2> HIDE DEF Rec
    <2> QED
      BY <2>1
  <1> HIDE DEF F
  <1>6. EndsAt(C, r, stop, p, z)
    <2> HIDE DEF stop, nx, Rec
    <2> QED
      BY <1>1, <1>3, <1>4, <1>5, WalkEnds
  <1>7. Ahead(C, r, stop, p) # {}
    <2> DEFINE S == {y \in C : r[y] <= r[p]}
    <2>1. S \in SUBSET Timers /\ S # {}
      BY <1>1
    <2>2. PICK y \in S : \A x \in S : r[y] <= r[x]
      <3> HIDE DEF S
      <3> QED
        BY <1>1, <2>1, Lowest
    <2>3. nx[y] \notin C
      <3> SUFFICES ASSUME nx[y] \in C PROVE FALSE
        OBVIOUS
      <3>1. r[nx[y]] < r[y] /\ r[y] <= r[p] /\ r[y] \in Nat /\ r[p] \in Nat /\ r[nx[y]] \in Nat
        BY <1>1 DEF Chain
      <3>2. nx[y] \in S
        BY <3>1
      <3> QED
        BY <2>2, <3>1, <3>2
    <2>4. y \in stop
      BY <1>1, <2>3 DEF Chain
    <2> QED
      BY <2>4 DEF Ahead
  <1>8. z \in C /\ z \in stop /\ r[z] <= r[p] /\ \A y \in Ahead(C, r, stop, p) : r[y] <= r[z]
    BY <1>6, <1>7 DEF EndsAt, Ahead
  <1>9. nx[z] = NULL \/ e < l.expire[nx[z]]
    BY <1>1, <1>8 DEF Chain
  <1>10. ASSUME NEW y \in C, r[z] < r[y], r[y] <= r[p] PROVE nx[y] # NULL /\ l.expire[nx[y]] <= e
    <2>1. y \notin stop
      <3>1. r[z] \in Nat /\ r[y] \in Nat
        BY <1>1, <1>8
      <3> QED
        BY <1>8, <1>10, <3>1 DEF Ahead
    <2>2. nx[y] \in Timers /\ ~(e < l.expire[nx[y]])
      BY <1>1, <2>1
    <2> QED
      BY <1>1, <2>2
  <1> QED
    BY <1>2, <1>8, <1>9, <1>10

LastIs(l, C, r, e, p, z) ==
    /\ z \in C /\ r[z] <= r[p] /\ (l.next[z] = NULL \/ e < l.expire[l.next[z]])
    /\ \A y \in C : r[z] < r[y] /\ r[y] <= r[p] => l.next[y] # NULL /\ l.expire[l.next[y]] <= e

(* LastBefore ends at the last timer that is not behind the place. *)
LEMMA LastIsFound ==
  ASSUME NamesOk, NEW l \in TimerList, NEW C, NEW r, Chain(l.next, C, r), NEW e \in Int, NEW p \in C
  PROVE  LastIs(l, C, r, e, p, LastBefore(l, e, p))
  BY LastFound DEF LastIs

(* From the head on, the timers that are due before the first that is not. *)
LEMMA DueFound ==
  ASSUME NamesOk, NEW l \in TimerList, NEW C, NEW r, Chain(l.next, C, r), NEW cur \in Int, l.head \in C
  PROVE  LET h == FirstNotDue(l, cur)
         IN  \/ h = NULL /\ \A y \in C : r[y] <= r[l.head] => l.expire[y] <= cur
             \/ /\ h \in C /\ cur < l.expire[h]
                /\ \A y \in C : r[h] < r[y] /\ r[y] <= r[l.head] => l.expire[y] <= cur
  <1> DEFINE nx == l.next
             D == Timers \cup {NULL, Freed}
             stop == {x \in D : x \notin Timers \/ cur < l.expire[x]}
             Rec(f) == f = [x \in D |-> IF x \notin Timers \/ cur < l.expire[x] THEN x ELSE f[l.next[x]]]
             F == CHOOSE f : Rec(f)
             p == l.head
             h == F[p]
  <1>1. /\ Chain(nx, C, r) /\ C \subseteq Timers /\ r \in [Timers -> Nat] /\ nx \in [Timers -> Links] /\ l.expire \in [Timers -> Int]
        /\ NULL \notin Timers /\ Freed \notin Timers /\ p \in C
    BY Names, ListFacts DEF Chain
  <1>2. FirstNotDue(l, cur) = h
    BY DEF FirstNotDue
  <1>3. Walkable(nx, C, D, stop)
    <2>1. NULL \in stop /\ Freed \in stop /\ C \subseteq D /\ stop \subseteq D
      BY <1>1
    <2>2. \A x \in D \ C : x \in stop \/ nx[x] \in C \/ nx[x] \in stop
      BY <1>1, <2>1 DEF Chain
    <2> QED
      BY <2>1, <2>2 DEF Walkable
  <1>4. \A f : Rec(f) <=> Walk(f, nx, D, stop)
    <2> SUFFICES ASSUME NEW f PROVE Rec(f) <=> Walk(f, nx, D, stop)
      OBVIOUS
    <2>1. [x \in D |-> IF x \notin Timers \/ cur < l.expire[x] THEN x ELSE f[l.next[x]]]
          = [x \in D |-> IF x \in stop THEN x ELSE f[nx[x]]]
      OBVIOUS
    <2> QED
      BY <2>1 DEF Walk
  <1>5. Rec(F)
    <2> HIDE DEF stop, nx, D
    <2>1. \E f : Rec(f)
      BY <1>1, <1>3, <1>4, WalkExists
    <2> HIDE DEF Rec
    <2> QED
      BY <2>1
  <1> HIDE DEF F, p
  <1>6. EndsAt(C, r, stop, p, h)
    <2> HIDE DEF stop, nx, Rec, D
    <2> QED
      BY <1>1, <1>3, <1>4, <1>5, WalkEnds
  <1>7. \A y \in C : y \in stop <=> cur < l.expire[y]
    BY <1>1
  <1>8. \A y \in C : y \notin stop => l.expire[y] <= cur
    BY <1>1, <1>7
  <1> HIDE DEF stop
  <1>9. CASE Ahead(C, r, stop, p) = {} /\ h = NULL
    BY <1>2, <1>8, <1>9 DEF Ahead, p
  <1>10. CASE h \in Ahead(C, r, stop, p) /\ \A y \in Ahead(C, r, stop, p) : r[y] <= r[h]
    <2>1. h \in C /\ h \in stop /\ r[h] \in Nat
      BY <1>1, <1>10 DEF Ahead
    <2>2. \A y \in C : r[h] < r[y] /\ r[y] <= r[p] => l.expire[y] <= cur
      <3> SUFFICES ASSUME NEW y \in C, r[h] < r[y], r[y] <= r[p] PROVE y \notin stop
        BY <1>8
      <3>1. r[y] \in Nat
        BY <1>1
      <3> QED
        BY <1>10, <2>1, <3>1 DEF Ahead
    <2> QED
      BY <1>2, <1>7, <2>1, <2>2 DEF p
  <1> QED
    BY <1>6, <1>9, <1>10 DEF EndsAt

(* A timer further down does not expire earlier. *)
LEMMA Ascends ==
  ASSUME NamesOk, NEW l, NEW C, NEW r, Linked(l, C, r), NEW x \in C, NEW y \in C, r[y] <= r[x]
  PROVE  l.expire[x] <= l.expire[y]
  <1> DEFINE nx == l.next
             S == {z \in C : r[y] <= r[z] /\ ~(l.expire[z] <= l.expire[y])}
  <1> SUFFICES ASSUME S # {} PROVE FALSE
    OBVIOUS
  <1>1. /\ C \subseteq Timers /\ r \in [Timers -> Nat] /\ l.expire \in [Timers -> Int] /\ nx \in [Timers -> Links]
        /\ Chain(nx, C, r) /\ Back(l, C, r)
    BY ListFacts DEF Linked, Chain
  <1>2. PICK z \in S : \A w \in S : r[z] <= r[w]
    <2>1. S \in SUBSET Timers
      BY <1>1
    <2> HIDE DEF S
    <2> QED
      BY <1>1, <2>1, Lowest
  <1>3. z \in C /\ r[y] <= r[z] /\ ~(l.expire[z] <= l.expire[y]) /\ r[y] \in Nat /\ r[z] \in Nat
        /\ l.expire[z] \in Int /\ l.expire[y] \in Int
    BY <1>1
  <1>4. r[y] < r[z]
    <2>1. r[y] # r[z]
      BY <1>1, <1>3 DEF Chain
    <2> QED
      BY <1>3, <2>1
  <1>5. nx[z] \in C
    <2>1. nx[z] # NULL
      BY <1>1, <1>3, <1>4 DEF Chain
    <2> QED
      BY <1>1, <1>3, <2>1 DEF Chain
  <1>6. r[nx[z]] < r[z] /\ r[nx[z]] \in Nat /\ r[y] <= r[nx[z]]
    BY <1>1, <1>3, <1>4, <1>5 DEF Chain
  <1>7. nx[z] \notin S
    BY <1>2, <1>3, <1>6
  <1>8. l.expire[nx[z]] <= l.expire[y] /\ l.expire[nx[z]] \in Int
    BY <1>1, <1>5, <1>6, <1>7
  <1>9. l.expire[z] <= l.expire[nx[z]]
    BY <1>1, <1>3, <1>5 DEF Back
  <1> QED
    BY <1>3, <1>8, <1>9

-----------------------------------------------------------------------------
(* The calls of the list.  Insertion behind p puts t at p's height and     *)
(* lifts p and all above it.                                               *)
Lifted(r, t, p) == [x \in Timers |-> IF x = t THEN r[p] ELSE IF r[p] <= r[x] THEN r[x] + 1 ELSE r[x]]

(* The types and the links of a list. *)
LEMMA LinkedFacts ==
  ASSUME NamesOk, NEW l, NEW C, NEW r, Linked(l, C, r)
  PROVE  /\ l \in TimerList /\ C \in SUBSET Timers /\ r \in [Timers -> Nat] /\ l.expire \in [Timers -> Int]
         /\ l.head \in Timers \cup {NULL} /\ l.tail \in Timers \cup {NULL}
         /\ l.next \in [Timers -> Links] /\ l.prev \in [Timers -> Links] /\ Chain(l.next, C, r) /\ Back(l, C, r)
         /\ \A x \in C : r[x] \in Nat /\ l.expire[x] \in Int /\ x \in Timers
         /\ NULL \notin C /\ Freed \notin C
  BY Names, ListFacts DEF Linked, Chain

(* Every timer of the list is found from the head. *)
LEMMA AllMembers == ASSUME NamesOk, NEW l, NEW C, NEW r, Linked(l, C, r) PROVE Members(l) = C
  <1>1. Chain(l.next, C, r) /\ Back(l, C, r) /\ NULL \notin C
    BY LinkedFacts
  <1>2. l.head \in C \cup {NULL} /\ (C # {} => l.head \in C) /\ \A y \in C : r[y] <= r[l.head]
    BY <1>1 DEF Back
  <1>3. Members(l) = {y \in C : l.head \in C /\ r[y] <= r[l.head]}
    BY <1>1, <1>2, MembersFound
  <1> QED
    BY <1>2, <1>3

(* A timer that is linked in below p, when the heights make room for it. *)
LEMMA LiftedChain ==
  ASSUME NamesOk, NEW nx, NEW C, NEW r, Chain(nx, C, r), NEW p \in C, NEW t \in Timers \ C,
         NEW mx, mx = [nx EXCEPT ![p] = t, ![t] = nx[p]], NEW B, B = C \cup {t}
  PROVE  Chain(mx, B, Lifted(r, t, p))
  <1> DEFINE q == Lifted(r, t, p)
  <1>1. /\ C \in SUBSET Timers /\ r \in [Timers -> Nat] /\ nx \in [Timers -> Links] /\ p \in Timers /\ t \in Timers /\ p # t
        /\ NULL \notin Timers /\ Freed \notin Timers /\ nx[p] \in C \cup {NULL}
        /\ \A x \in C : r[x] \in Nat /\ x # t /\ x \in Timers
    BY Names DEF Chain
  <1>2. /\ q \in [Timers -> Nat] /\ q[t] = r[p] /\ q[p] = r[p] + 1
        /\ \A x \in C : q[x] = IF r[p] <= r[x] THEN r[x] + 1 ELSE r[x]
        /\ \A x \in B : q[x] \in Nat
    BY <1>1 DEF Lifted
  <1>3. /\ mx \in [Timers -> Links] /\ mx[p] = t /\ mx[t] = nx[p]
        /\ \A x \in Timers : x # p /\ x # t => mx[x] = nx[x]
    BY <1>1 DEF Links
  <1> HIDE DEF q
  <1>4. \A x, y \in C : /\ q[x] = q[y] => x = y
                        /\ q[x] <= q[y] <=> r[x] <= r[y]
    <2> SUFFICES ASSUME NEW x \in C, NEW y \in C PROVE (q[x] = q[y] => x = y) /\ (q[x] <= q[y] <=> r[x] <= r[y])
      OBVIOUS
    <2>1. r[x] = r[y] => x = y
      BY DEF Chain
    <2> QED
      BY <1>1, <1>2, <2>1
  <1>5. \A x \in C : q[x] # q[t] /\ (q[t] <= q[x] <=> r[p] <= r[x])
    BY <1>1, <1>2
  <1>6. \A x, y \in B : q[x] = q[y] => x = y
    BY <1>4, <1>5
  <1>7. \A x \in B : mx[x] \in B \cup {NULL}
    BY <1>1, <1>3 DEF Chain
  <1>8. ASSUME NEW x \in B, mx[x] \in B PROVE q[mx[x]] < q[x] /\ \A y \in B : q[x] <= q[y] \/ q[y] <= q[mx[x]]
    <2>1. CASE x = p
      <3>1. mx[x] = t /\ q[t] = r[p] /\ q[x] = r[p] + 1
        BY <1>2, <1>3, <2>1
      <3>2. \A y \in C : r[p] + 1 <= q[y] \/ q[y] <= r[p]
        BY <1>1, <1>2
      <3> QED
        BY <1>1, <1>2, <3>1, <3>2
    <2>2. CASE x = t
      <3>1. mx[x] = nx[p] /\ nx[p] \in C
        BY <1>1, <1>3, <1>8, <2>2, Names
      <3>2. r[nx[p]] < r[p] /\ \A y \in C : r[p] <= r[y] \/ r[y] <= r[nx[p]]
        BY <3>1 DEF Chain
      <3>3. q[nx[p]] = r[nx[p]] /\ q[x] = r[p]
        BY <1>1, <1>2, <2>2, <3>1, <3>2
      <3>4. \A y \in C : r[p] <= q[y] \/ q[y] <= r[nx[p]]
        BY <1>1, <1>2, <3>1, <3>2
      <3> QED
        BY <1>1, <1>2, <2>2, <3>1, <3>2, <3>3, <3>4
    <2>3. CASE x # p /\ x # t
      <3>1. x \in C /\ mx[x] = nx[x] /\ nx[x] \in C
        <4>1. x \in C /\ mx[x] = nx[x] /\ nx[x] \in C \cup {NULL}
          BY <1>1, <1>3, <2>3 DEF Chain
        <4> QED
          BY <1>1, <1>8, <4>1
      <3>2. r[nx[x]] < r[x] /\ \A y \in C : r[x] <= r[y] \/ r[y] <= r[nx[x]]
        BY <3>1 DEF Chain
      <3>3. q[nx[x]] < q[x]
        BY <1>1, <1>2, <1>4, <3>1, <3>2
      <3>4. \A y \in C : q[x] <= q[y] \/ q[y] <= q[nx[x]]
        BY <1>4, <3>1, <3>2
      <3>5. q[x] <= q[t] \/ q[t] <= q[nx[x]]
        <4>1. r[x] # r[p]
          BY <2>3, <3>1 DEF Chain
        <4>2. r[x] < r[p] \/ r[p] <= r[nx[x]]
          BY <1>1, <3>1, <3>2, <4>1
        <4> QED
          BY <1>1, <1>2, <3>1, <4>2
      <3> QED
        BY <3>1, <3>3, <3>4, <3>5
    <2> QED
      BY <2>1, <2>2, <2>3
  <1>9. ASSUME NEW x \in B, mx[x] = NULL PROVE \A y \in B : q[x] <= q[y]
    <2>1. CASE x = p
      BY <1>1, <1>3, <1>9, <2>1
    <2>2. CASE x = t
      <3>1. nx[p] = NULL
        BY <1>3, <1>9, <2>2
      <3>2. \A y \in C : r[p] <= r[y]
        BY <3>1 DEF Chain
      <3> QED
        BY <1>1, <1>2, <2>2, <3>2
    <2>3. CASE x # p /\ x # t
      <3>1. x \in C /\ nx[x] = NULL
        BY <1>1, <1>3, <1>9, <2>3
      <3>2. \A y \in C : r[x] <= r[y]
        BY <3>1 DEF Chain
      <3>3. r[x] # r[p]
        BY <2>3, <3>1 DEF Chain
      <3> QED
        BY <1>1, <1>2, <1>4, <3>1, <3>2, <3>3
    <2> QED
      BY <2>1, <2>2, <2>3
  <1>10. \A x \in Timers \ B : mx[x] \in B \cup {NULL, Freed}
    BY <1>1, <1>3 DEF Chain
  <1> QED
    BY <1>1, <1>2, <1>3, <1>6, <1>7, <1>8, <1>9, <1>10 DEF Chain, q

(* The private add_timer, which goes on from a timer that is due earlier. *)
LEMMA InsertKeeps ==
  ASSUME NamesOk, NEW l, NEW C, NEW r, Linked(l, C, r), NEW t \in Timers \ C, NEW o \in C, l.expire[o] <= l.expire[t],
         NEW m, m = Insert(l, t, o)
  PROVE  /\ \E q : Linked(m, C \cup {t}, q)
         /\ m.expire = l.expire /\ \A x \in Timers \ (C \cup {t}) : m.next[x] = l.next[x]
  <1> DEFINE p == LastBefore(l, l.expire[t], o)
             nx == l.next
             B == C \cup {t}
             q == Lifted(r, t, p)
  <1>1. /\ l \in TimerList /\ C \in SUBSET Timers /\ r \in [Timers -> Nat] /\ l.expire \in [Timers -> Int]
        /\ nx \in [Timers -> Links] /\ l.prev \in [Timers -> Links] /\ Chain(nx, C, r) /\ Back(l, C, r)
        /\ \A x \in C : r[x] \in Nat /\ l.expire[x] \in Int /\ x \in Timers /\ x # t
        /\ NULL \notin Timers /\ Freed \notin Timers /\ NULL # Freed /\ l.expire[t] \in Int
    BY LinkedFacts, Names
  <1>2. /\ p \in C /\ r[p] <= r[o] /\ (nx[p] = NULL \/ l.expire[t] < l.expire[nx[p]])
        /\ \A y \in C : r[p] < r[y] /\ r[y] <= r[o] => nx[y] # NULL /\ l.expire[nx[y]] <= l.expire[t]
    <2> DEFINE e == l.expire[t]
    <2>1. e \in Int
      BY <1>1
    <2>2. p = LastBefore(l, e, o)
      OBVIOUS
    <2> HIDE DEF e, p
    <2>3. LET z == LastBefore(l, e, o)
          IN  /\ z \in C /\ r[z] <= r[o] /\ (l.next[z] = NULL \/ e < l.expire[l.next[z]])
              /\ \A y \in C : r[z] < r[y] /\ r[y] <= r[o] => l.next[y] # NULL /\ l.expire[l.next[y]] <= e
      BY <1>1, <2>1, LastFound
    <2> QED
      BY <2>2, <2>3 DEF e
  <1>3. m = IF nx[p] = NULL THEN [l EXCEPT !.next[p] = t, !.prev[t] = p, !.next[t] = NULL, !.tail = t]
            ELSE [l EXCEPT !.next[p] = t, !.next[t] = nx[p], !.prev[nx[p]] = t, !.prev[t] = p]
    BY DEF Insert
  <1> HIDE DEF p, nx
  <1>4. nx[p] \in C \cup {NULL} /\ p # t /\ p \in Timers
    BY <1>1, <1>2 DEF Chain
  <1>5. /\ m \in TimerList /\ m.head = l.head /\ m.expire = l.expire
        /\ m.next = [nx EXCEPT ![p] = t, ![t] = nx[p]]
        /\ m.prev[t] = p /\ \A x \in C : x # nx[p] => m.prev[x] = l.prev[x]
        /\ nx[p] \in C => m.prev[nx[p]] = t /\ m.tail = l.tail
        /\ nx[p] = NULL => m.tail = t
    <2>1. CASE nx[p] = NULL
      <3>1. m = [l EXCEPT !.next[p] = t, !.prev[t] = p, !.next[t] = NULL, !.tail = t]
        BY <1>3, <2>1
      <3>2. /\ m = [head |-> m.head, tail |-> m.tail, next |-> m.next, prev |-> m.prev, expire |-> m.expire]
            /\ m.head = l.head /\ m.expire = l.expire /\ m.tail = t
        BY <1>1, <3>1 DEF TimerList
      <3>3. m.next = [l.next EXCEPT ![p] = t, ![t] = NULL] /\ m.prev = [l.prev EXCEPT ![t] = p]
        BY <1>1, <3>1 DEF TimerList
      <3>4. m.next \in [Timers -> Links] /\ m.prev \in [Timers -> Links]
        BY <1>1, <1>4, <3>3 DEF Links, nx
      <3>5. m \in TimerList
        BY <1>1, <3>2, <3>4 DEF TimerList
      <3>6. m.prev[t] = p /\ \A x \in C : m.prev[x] = l.prev[x]
        BY <1>1, <3>3
      <3> QED
        BY <1>1, <2>1, <3>2, <3>3, <3>5, <3>6 DEF nx
    <2>2. CASE nx[p] \in C
      <3>1. m = [l EXCEPT !.next[p] = t, !.next[t] = nx[p], !.prev[nx[p]] = t, !.prev[t] = p]
        BY <1>1, <1>3, <2>2
      <3>2. /\ m = [head |-> m.head, tail |-> m.tail, next |-> m.next, prev |-> m.prev, expire |-> m.expire]
            /\ m.head = l.head /\ m.expire = l.expire /\ m.tail = l.tail
        BY <1>1, <3>1 DEF TimerList
      <3>3. m.next = [l.next EXCEPT ![p] = t, ![t] = nx[p]] /\ m.prev = [l.prev EXCEPT ![nx[p]] = t, ![t] = p]
        BY <1>1, <3>1 DEF TimerList
      <3>4. m.next \in [Timers -> Links] /\ m.prev \in [Timers -> Links]
        BY <1>1, <1>4, <3>3 DEF Links, nx
      <3>5. m \in TimerList
        BY <1>1, <3>2, <3>4, ListFacts DEF TimerList
      <3>6. m.prev[t] = p /\ m.prev[nx[p]] = t /\ \A x \in C : x # nx[p] => m.prev[x] = l.prev[x]
        BY <1>1, <2>2, <3>3
      <3> QED
        BY <1>1, <2>2, <3>2, <3>3, <3>5, <3>6 DEF nx
    <2> QED
      BY <1>4, <2>1, <2>2
  <1>6. Chain(m.next, B, q)
    BY <1>1, <1>2, <1>5, LiftedChain
  <1>7. /\ m.next[p] = t /\ m.next[t] = nx[p] /\ \A x \in Timers : x # p /\ x # t => m.next[x] = nx[x]
    BY <1>1, <1>4, <1>5
  <1>8. l.head \in C /\ l.tail \in C /\ nx[l.tail] = NULL /\ HeadBack(l.prev[l.head], l.head) /\ l.head # t
    BY <1>1, <1>2 DEF Back, nx
  <1>9. l.head # nx[p]
    <2> SUFFICES ASSUME nx[p] = l.head PROVE FALSE
      OBVIOUS
    <2>1. r[nx[p]] < r[p] /\ r[p] <= r[l.head] /\ r[p] \in Nat /\ r[l.head] \in Nat
      BY <1>1, <1>2, <1>8 DEF Chain, Back
    <2> QED
      BY <2>1
  <1>10. /\ B # {} /\ m.head \in B /\ m.tail \in B /\ m.next[m.tail] = NULL /\ HeadBack(m.prev[m.head], m.head)
    <2>1. HeadBack(m.prev[m.head], m.head)
      BY <1>5, <1>8, <1>9
    <2>2. m.tail \in B /\ m.next[m.tail] = NULL
      <3>1. CASE nx[p] = NULL
        BY <1>5, <1>7, <3>1
      <3>2. CASE nx[p] \in C
        <4>1. l.tail # p
          BY <1>1, <1>8, <3>2
        <4> QED
          BY <1>1, <1>5, <1>7, <1>8, <3>2, <4>1
      <3> QED
        BY <1>4, <3>1, <3>2
    <2> QED
      BY <1>5, <1>8, <2>1, <2>2
  <1>11. \A y \in B : q[y] <= q[m.head]
    <2>1. \A y \in C : r[y] <= r[l.head]
      BY <1>1 DEF Back
    <2>2. /\ q[t] = r[p] /\ \A x \in C : q[x] = IF r[p] <= r[x] THEN r[x] + 1 ELSE r[x]
      BY <1>1 DEF Lifted
    <2> QED
      BY <1>1, <1>2, <1>5, <1>8, <2>1, <2>2
  <1>12. \A x \in B : x # m.head => m.prev[x] \in B /\ m.next[m.prev[x]] = x
    <2> SUFFICES ASSUME NEW x \in B, x # m.head PROVE m.prev[x] \in B /\ m.next[m.prev[x]] = x
      OBVIOUS
    <2>1. CASE x = t
      BY <1>2, <1>5, <1>7, <2>1
    <2>2. CASE x = nx[p] /\ x \in C
      BY <1>4, <1>5, <1>7, <2>2
    <2>3. CASE x \in C /\ x # nx[p]
      <3>1. m.prev[x] = l.prev[x] /\ l.prev[x] \in C /\ nx[l.prev[x]] = x
        BY <1>1, <1>5, <2>3 DEF Back, nx
      <3>2. l.prev[x] # p /\ l.prev[x] # t
        BY <1>1, <2>3, <3>1
      <3> QED
        BY <1>1, <1>7, <3>1, <3>2
    <2> QED
      BY <2>1, <2>2, <2>3
  <1>13. l.expire[p] <= l.expire[t]
    <2>1. CASE p = o
      BY <2>1
    <2>2. CASE p # o
      <3>1. r[p] < r[o] /\ r[o] <= r[l.head]
        <4>1. r[p] # r[o]
          BY <1>1, <1>2, <2>2 DEF Chain
        <4> QED
          BY <1>1, <1>2, <4>1 DEF Back
      <3>2. p # l.head
        BY <1>1, <1>2, <3>1
      <3> DEFINE z == l.prev[p]
      <3>3. z \in C /\ nx[z] = p
        BY <1>1, <1>2, <3>2 DEF Back, nx
      <3> HIDE DEF z
      <3>4. r[p] < r[z] /\ (r[z] <= r[o] \/ r[o] <= r[p])
        BY <1>1, <1>2, <3>3 DEF Chain
      <3>5. r[z] <= r[o]
        BY <1>1, <1>2, <3>1, <3>3, <3>4
      <3> QED
        BY <1>2, <3>3, <3>4, <3>5
    <2> QED
      BY <2>1, <2>2
  <1>14. \A x \in B : m.next[x] \in B => m.expire[x] <= m.expire[m.next[x]]
    <2> SUFFICES ASSUME NEW x \in B, m.next[x] \in B PROVE l.expire[x] <= l.expire[m.next[x]]
      BY <1>5
    <2>1. CASE x = p
      BY <1>7, <1>13, <2>1
    <2>2. CASE x = t
      <3>1. m.next[x] = nx[p] /\ nx[p] \in C
        BY <1>1, <1>4, <1>7, <2>2
      <3>2. l.expire[t] < l.expire[nx[p]]
        BY <1>1, <1>2, <3>1
      <3> QED
        BY <1>1, <2>2, <3>1, <3>2
    <2>3. CASE x # p /\ x # t
      <3>1. x \in C /\ m.next[x] = nx[x] /\ nx[x] \in C
        <4>1. x \in C /\ m.next[x] = nx[x]
          BY <1>1, <1>7, <2>3
        <4>2. nx[x] \in C \cup {NULL}
          BY <1>1, <4>1 DEF Chain
        <4> QED
          BY <1>1, <4>1, <4>2
      <3> QED
        BY <1>1, <3>1 DEF Back, nx
    <2> QED
      BY <2>1, <2>2, <2>3
  <1>15. Back(m, B, q)
    BY <1>10, <1>11, <1>12, <1>14 DEF Back
  <1>16. Linked(m, B, q)
    BY <1>5, <1>6, <1>15 DEF Linked
  <1> QED
    BY <1>2, <1>5, <1>7, <1>16 DEF nx

(* Taking t out: its neighbours are linked to each other. *)
LEMMA CutKeeps ==
  ASSUME NamesOk, NEW l, NEW C, NEW r, Linked(l, C, r), NEW t \in C, NEW B, B = C \ {t}, NEW m \in TimerList,
         \A x \in B : m.next[x] = IF l.next[x] = t THEN l.next[t] ELSE l.next[x],
         \A x \in Timers \ B : m.next[x] \in B \cup {NULL, Freed},
         \A x \in B : m.prev[x] = IF x = l.next[t] THEN (IF t = l.head THEN NULL ELSE l.prev[t]) ELSE l.prev[x],
         \A x \in B : m.expire[x] = l.expire[x],
         m.head = IF t = l.head THEN l.next[t] ELSE l.head,
         B # {} => m.tail = IF t = l.tail THEN l.prev[t] ELSE l.tail
  PROVE  Linked(m, B, r)
  <1> DEFINE nx == l.next
             mx == m.next
  <1>1. /\ C \in SUBSET Timers /\ r \in [Timers -> Nat] /\ mx \in [Timers -> Links] /\ nx \in [Timers -> Links]
        /\ Chain(nx, C, r) /\ Back(l, C, r)
        /\ \A x \in C : r[x] \in Nat /\ l.expire[x] \in Int /\ x \in Timers
        /\ NULL \notin Timers /\ Freed \notin Timers /\ NULL # Freed
    BY LinkedFacts, ListFacts, Names
  <1>2. \A x \in C : nx[x] \in C \cup {NULL}
    BY <1>1 DEF Chain
  <1>3. \A x \in C : nx[x] \in C => r[nx[x]] < r[x] /\ \A y \in C : r[x] <= r[y] \/ r[y] <= r[nx[x]]
    BY <1>1 DEF Chain
  <1>4. \A x \in B : mx[x] = IF nx[x] = t THEN nx[t] ELSE nx[x]
    OBVIOUS
  <1>5. \A x, y \in C : r[x] = r[y] => x = y
    BY <1>1 DEF Chain
  <1>6. \A x \in C : nx[x] = NULL => \A y \in C : r[x] <= r[y]
    BY <1>1 DEF Chain
  <1>7. nx[t] # t /\ nx[t] \in B \cup {NULL}
    BY <1>1, <1>2, <1>3
  <1>8. ASSUME NEW x \in B, nx[x] = t PROVE r[t] < r[x] /\ \A y \in B : r[x] <= r[y] \/ (r[y] <= r[t] /\ r[y] # r[t])
    <2>1. r[t] < r[x] /\ \A y \in C : r[x] <= r[y] \/ r[y] <= r[t]
      BY <1>3, <1>8
    <2> QED
      BY <1>5, <2>1
  <1>9. Chain(mx, B, r)
    <2>1. \A x \in B : mx[x] \in B \cup {NULL}
      BY <1>2, <1>4, <1>7
    <2>2. ASSUME NEW x \in B, mx[x] \in B PROVE r[mx[x]] < r[x] /\ \A y \in B : r[x] <= r[y] \/ r[y] <= r[mx[x]]
      <3>1. CASE nx[x] = t
        <4>1. mx[x] = nx[t] /\ nx[t] \in C
          BY <1>4, <2>2, <3>1
        <4>2. r[nx[t]] < r[t] /\ \A y \in C : r[t] <= r[y] \/ r[y] <= r[nx[t]]
          BY <1>3, <4>1
        <4>3. r[t] < r[x] /\ \A y \in B : r[x] <= r[y] \/ (r[y] <= r[t] /\ r[y] # r[t])
          BY <1>8, <3>1
        <4> QED
          BY <1>1, <4>1, <4>2, <4>3
      <3>2. CASE nx[x] # t
        BY <1>3, <1>4, <2>2, <3>2
      <3> QED
        BY <3>1, <3>2
    <2>3. ASSUME NEW x \in B, mx[x] = NULL PROVE \A y \in B : r[x] <= r[y]
      <3>1. CASE nx[x] = t
        <4>1. nx[t] = NULL
          BY <1>4, <2>3, <3>1
        <4>2. \A y \in C : r[t] <= r[y]
          BY <1>6, <4>1
        <4>3. r[t] < r[x] /\ \A y \in B : r[x] <= r[y] \/ (r[y] <= r[t] /\ r[y] # r[t])
          BY <1>8, <3>1
        <4> QED
          BY <1>1, <4>2, <4>3
      <3>2. CASE nx[x] # t
        BY <1>4, <1>6, <2>3, <3>2
      <3> QED
        BY <3>1, <3>2
    <2>4. \A x, y \in B : r[x] = r[y] => x = y
      BY <1>5
    <2> QED
      BY <1>1, <2>1, <2>2, <2>3, <2>4 DEF Chain
  <1>10. /\ l.head \in C /\ l.tail \in C /\ nx[l.tail] = NULL /\ HeadBack(l.prev[l.head], l.head)
         /\ \A y \in C : r[y] <= r[l.head]
         /\ \A x \in C : x # l.head => l.prev[x] \in C /\ nx[l.prev[x]] = x
         /\ \A x \in C : nx[x] \in C => l.expire[x] <= l.expire[nx[x]]
    BY <1>1 DEF Back
  <1>11. \A x, y \in C : nx[x] = nx[y] /\ nx[x] \in C => x = y
    <2> SUFFICES ASSUME NEW x \in C, NEW y \in C, nx[x] = nx[y], nx[x] \in C PROVE r[x] = r[y]
      BY <1>5
    <2>1. r[nx[x]] < r[x] /\ r[nx[x]] < r[y] /\ (r[x] <= r[y] \/ r[y] <= r[nx[x]]) /\ (r[y] <= r[x] \/ r[x] <= r[nx[x]])
      BY <1>3
    <2> QED
      BY <1>1, <2>1
  <1>12. \A x \in C : nx[x] \in C => nx[x] # l.head /\ l.prev[nx[x]] = x
    <2> SUFFICES ASSUME NEW x \in C, nx[x] \in C PROVE nx[x] # l.head /\ l.prev[nx[x]] = x
      OBVIOUS
    <2>1. nx[x] # l.head
      BY <1>1, <1>3, <1>10
    <2> QED
      BY <1>10, <1>11, <2>1
  <1>13. B = {} => m.head = NULL
    BY <1>7, <1>10
  <1>14. CASE B = {}
    BY <1>9, <1>13, <1>14 DEF Linked, Back
  <1>15. CASE B # {}
    <2>1. m.head \in B /\ \A y \in B : r[y] <= r[m.head]
      <3>1. CASE t = l.head
        <4>1. nx[t] # NULL
          <5> SUFFICES ASSUME nx[t] = NULL PROVE FALSE
            OBVIOUS
          <5>1. PICK y \in B : TRUE
            BY <1>15
          <5>2. r[t] <= r[y] /\ r[y] <= r[t] /\ y \in C /\ y # t
            BY <1>6, <1>10, <3>1, <5>1
          <5> QED
            BY <1>1, <1>5, <5>2
        <4>2. \A y \in B : r[t] <= r[y] \/ r[y] <= r[nx[t]]
          BY <1>3, <1>7, <4>1
        <4>3. \A y \in B : r[y] <= r[t] /\ r[y] # r[t]
          BY <1>5, <1>10, <3>1
        <4> QED
          BY <1>1, <1>7, <3>1, <4>1, <4>2, <4>3
      <3>2. CASE t # l.head
        BY <1>10, <3>2
      <3> QED
        BY <3>1, <3>2
    <2>2. HeadBack(m.prev[m.head], m.head)
      <3>1. CASE t = l.head
        <4>1. m.head \in B /\ m.head = nx[t]
          BY <2>1, <3>1
        <4>2. m.prev[m.head] = NULL
          BY <3>1, <4>1
        <4> QED
          BY <4>2, HeadNull
      <3>2. CASE t # l.head
        <4>1. m.head # nx[t] /\ m.head = l.head
          BY <1>10, <1>12, <3>2
        <4> QED
          BY <1>10, <2>1, <4>1
      <3> QED
        BY <3>1, <3>2
    <2>3. m.tail \in B /\ mx[m.tail] = NULL
      <3>1. CASE t = l.tail
        <4>1. t # l.head
          <5> SUFFICES ASSUME t = l.head PROVE FALSE
            OBVIOUS
          <5>1. PICK y \in B : TRUE
            BY <1>15
          <5>2. r[t] <= r[y] /\ r[y] <= r[t] /\ y \in C /\ y # t
            BY <1>6, <1>10, <3>1, <5>1
          <5> QED
            BY <1>1, <1>5, <5>2
        <4>2. l.prev[t] \in C /\ nx[l.prev[t]] = t /\ l.prev[t] # t
          BY <1>7, <1>10, <4>1
        <4> QED
          BY <1>4, <1>10, <1>15, <3>1, <4>2
      <3>2. CASE t # l.tail
        <4>1. l.tail \in B /\ nx[l.tail] # t
          BY <1>1, <1>10, <3>2
        <4> QED
          BY <1>4, <1>10, <1>15, <3>2, <4>1
      <3> QED
        BY <3>1, <3>2
    <2>4. ASSUME NEW x \in B, x # m.head PROVE m.prev[x] \in B /\ mx[m.prev[x]] = x
      <3>1. CASE x = nx[t]
        <4>1. t # l.head
          BY <2>4, <3>1
        <4>2. l.prev[t] \in C /\ nx[l.prev[t]] = t /\ l.prev[t] # t
          BY <1>7, <1>10, <4>1
        <4>3. m.prev[x] = l.prev[t]
          BY <3>1, <4>1
        <4> QED
          BY <1>4, <3>1, <4>2, <4>3
      <3>2. CASE x # nx[t]
        <4>1. x # l.head
          BY <2>4
        <4>2. l.prev[x] \in C /\ nx[l.prev[x]] = x /\ m.prev[x] = l.prev[x] /\ l.prev[x] # t
          BY <1>10, <3>2, <4>1
        <4>3. nx[l.prev[x]] # t
          BY <4>2
        <4> QED
          BY <1>4, <4>2, <4>3
      <3> QED
        BY <3>1, <3>2
    <2>5. ASSUME NEW x \in B, mx[x] \in B PROVE m.expire[x] <= m.expire[mx[x]]
      <3>1. CASE nx[x] = t
        <4>1. mx[x] = nx[t] /\ nx[t] \in C /\ m.expire[x] = l.expire[x] /\ m.expire[mx[x]] = l.expire[nx[t]]
          BY <1>4, <2>5, <3>1
        <4>2. l.expire[x] <= l.expire[t] /\ l.expire[t] <= l.expire[nx[t]]
          BY <1>10, <3>1, <4>1
        <4> QED
          BY <1>1, <4>1, <4>2
      <3>2. CASE nx[x] # t
        <4>1. mx[x] = nx[x] /\ m.expire[x] = l.expire[x] /\ m.expire[mx[x]] = l.expire[nx[x]]
          BY <1>4, <2>5, <3>2
        <4> QED
          BY <1>10, <2>5, <4>1
      <3> QED
        BY <3>1, <3>2
    <2> QED
      BY <1>9, <1>15, <2>1, <2>2, <2>3, <2>4, <2>5 DEF Linked, Back
  <1> QED
    BY <1>14, <1>15

(* A record with the fields of a list is one. *)
LEMMA IsList ==
  ASSUME NamesOk, NEW m, m = [head |-> m.head, tail |-> m.tail, next |-> m.next, prev |-> m.prev, expire |-> m.expire],
         m.head \in Timers \cup {NULL}, m.tail \in Timers \cup {NULL}, m.next \in [Timers -> Links],
         m.prev \in [Timers -> Links], m.expire \in [Timers -> Int]
  PROVE  m \in TimerList
  BY DEF TimerList

(* The list m is the list l with the timers C and one more. *)
Grown(m, l, C, t, e) ==
    /\ \E q : Linked(m, C \cup {t}, q)
    /\ m.expire = [l.expire EXCEPT ![t] = e] /\ \A x \in Timers \ (C \cup {t}) : m.next[x] = l.next[x]

(* add_timer puts a new timer where its expire belongs. *)
LEMMA AddKeeps ==
  ASSUME NamesOk, NEW l, NEW C, NEW r, Linked(l, C, r), NEW t \in Timers \ C, NEW e \in Int,
         NEW m, m = add_timer(New(l, t, e), t)
  PROVE  Grown(m, l, C, t, e)
  <1> SUFFICES /\ \E q : Linked(m, C \cup {t}, q)
               /\ m.expire = [l.expire EXCEPT ![t] = e] /\ \A x \in Timers \ (C \cup {t}) : m.next[x] = l.next[x]
    BY DEF Grown
  <1> DEFINE k == New(l, t, e)
             B == C \cup {t}
  <1>1. /\ l \in TimerList /\ C \in SUBSET Timers /\ r \in [Timers -> Nat] /\ l.expire \in [Timers -> Int]
        /\ l.head \in Timers \cup {NULL} /\ l.tail \in Timers \cup {NULL}
        /\ l.next \in [Timers -> Links] /\ l.prev \in [Timers -> Links] /\ Chain(l.next, C, r) /\ Back(l, C, r)
        /\ \A x \in C : r[x] \in Nat /\ l.expire[x] \in Int /\ x \in Timers /\ x # t
        /\ NULL \notin Timers /\ Freed \notin Timers /\ NULL # Freed
    BY LinkedFacts, Names
  <1>2. /\ k = [head |-> k.head, tail |-> k.tail, next |-> k.next, prev |-> k.prev, expire |-> k.expire]
        /\ k.head = l.head /\ k.tail = l.tail /\ k.expire = [l.expire EXCEPT ![t] = e]
        /\ k.next = [l.next EXCEPT ![t] = NULL] /\ k.prev = [l.prev EXCEPT ![t] = NULL]
    <2>1. k = [l EXCEPT !.next[t] = NULL, !.prev[t] = NULL, !.expire[t] = e]
      BY DEF New
    <2> HIDE DEF k
    <2>2. k = [head |-> k.head, tail |-> k.tail, next |-> k.next, prev |-> k.prev, expire |-> k.expire]
      BY <1>1, <2>1 DEF TimerList
    <2>3. k.head = l.head /\ k.tail = l.tail /\ k.expire = [l.expire EXCEPT ![t] = e]
      BY <1>1, <2>1 DEF TimerList
    <2>4. k.next = [l.next EXCEPT ![t] = NULL] /\ k.prev = [l.prev EXCEPT ![t] = NULL]
      BY <1>1, <2>1 DEF TimerList
    <2> QED
      BY <2>2, <2>3, <2>4
  <1>3. m = add_timer(k, t)
    OBVIOUS
  <1> HIDE DEF k
  <1>4. k \in TimerList
    <2>1. k.next \in [Timers -> Links] /\ k.prev \in [Timers -> Links] /\ k.expire \in [Timers -> Int]
      BY <1>1, <1>2 DEF Links
    <2> QED
      BY <1>1, <1>2, <2>1, IsList
  <1>5. /\ k.head = l.head /\ k.tail = l.tail /\ k.expire = [l.expire EXCEPT ![t] = e]
        /\ k.next[t] = NULL /\ k.prev[t] = NULL /\ k.expire[t] = e
        /\ \A x \in Timers : x # t => k.next[x] = l.next[x] /\ k.prev[x] = l.prev[x] /\ k.expire[x] = l.expire[x]
    BY <1>1, <1>2
  <1>6. Linked(k, C, r)
    <2>1. Chain(k.next, C, r)
      BY <1>1, <1>4, <1>5, ListFacts DEF Chain
    <2>2. Back(k, C, r)
      <3>1. \A x \in C : x # l.head => k.prev[x] \in C /\ k.next[k.prev[x]] = x
        BY <1>1, <1>5 DEF Back
      <3>2. \A x \in C : k.next[x] \in C => k.expire[x] <= k.expire[k.next[x]]
        BY <1>1, <1>5 DEF Back
      <3>3. C # {} => k.next[k.tail] = NULL /\ HeadBack(k.prev[k.head], k.head)
        BY <1>1, <1>5 DEF Back
      <3> QED
        BY <1>1, <1>5, <3>1, <3>2, <3>3 DEF Back
    <2> QED
      BY <1>4, <2>1, <2>2 DEF Linked
  <1>7. CASE l.head = NULL
    <2>1. C = {}
      BY <1>1, <1>7 DEF Back
    <2>2. m = [k EXCEPT !.head = t, !.tail = t]
      BY <1>3, <1>5, <1>7 DEF add_timer
    <2>3. /\ m = [head |-> m.head, tail |-> m.tail, next |-> m.next, prev |-> m.prev, expire |-> m.expire]
          /\ m.head = t /\ m.tail = t /\ m.next = k.next /\ m.prev = k.prev /\ m.expire = k.expire
      BY <1>4, <2>2 DEF TimerList
    <2>4. m \in TimerList /\ m.head = t /\ m.tail = t /\ m.next = k.next /\ m.prev = k.prev /\ m.expire = k.expire
      BY <1>4, <2>3, IsList, ListFacts
    <2>5. B = {t}
      BY <2>1
    <2>6. Chain(m.next, B, r)
      <3>1. m.next[t] = NULL /\ r[t] \in Nat /\ m.next \in [Timers -> Links] /\ \A x \in Timers \ B : m.next[x] = l.next[x]
        BY <1>1, <1>4, <1>5, <2>4, ListFacts
      <3>2. \A x \in Timers \ B : m.next[x] \in {NULL, Freed}
        BY <1>1, <2>1, <3>1 DEF Chain
      <3> QED
        BY <1>1, <2>5, <3>1, <3>2 DEF Chain
    <2>7. Back(m, B, r)
      <3>1. m.next[t] = NULL /\ m.prev[t] = NULL /\ r[t] \in Nat
        BY <1>1, <1>5, <2>4
      <3> QED
        BY <1>1, <2>4, <2>5, <3>1, HeadNull DEF Back
    <2>8. Linked(m, B, r)
      BY <2>4, <2>6, <2>7 DEF Linked
    <2> QED
      BY <1>5, <2>4, <2>8
  <1>8. CASE l.head # NULL /\ e < l.expire[l.head]
    <2> DEFINE h == l.head
               q == [r EXCEPT ![t] = r[h] + 1]
               a == [k EXCEPT !.next[t] = h, !.prev[h] = t, !.head = t]
    <2>1. h \in C /\ h # t /\ h \in Timers /\ HeadBack(k.prev[h], h) /\ l.tail \in C /\ l.next[l.tail] = NULL
          /\ \A y \in C : r[y] <= r[h]
      BY <1>1, <1>5, <1>8 DEF Back
    <2>2. k.expire[t] < k.expire[k.head]
      BY <1>5, <1>8, <2>1
    <2>3. a = [k EXCEPT !.next[t] = h, !.prev[h] = t, !.head = t] /\ m = IF Returns THEN a ELSE Insert(a, t, t)
      BY <1>3, <1>5, <1>8, <2>2 DEF add_timer
    <2> HIDE DEF a
    <2> HIDE DEF h
    <2>4. /\ a = [head |-> a.head, tail |-> a.tail, next |-> a.next, prev |-> a.prev, expire |-> a.expire]
          /\ a.head = t /\ a.tail = k.tail /\ a.next = [k.next EXCEPT ![t] = h] /\ a.prev = [k.prev EXCEPT ![h] = t]
          /\ a.expire = k.expire
      BY <1>4, <2>3 DEF TimerList
    <2>5. a \in TimerList
      <3>1. a.next \in [Timers -> Links] /\ a.prev \in [Timers -> Links]
        BY <1>4, <2>1, <2>4, ListFacts DEF Links
      <3> QED
        BY <1>4, <2>4, <3>1, IsList, ListFacts
    <2>6. /\ a.head = t /\ a.tail = k.tail /\ a.expire = k.expire /\ a.next[t] = h /\ a.prev[h] = t
          /\ \A x \in Timers : x # t => a.next[x] = k.next[x]
          /\ \A x \in Timers : x # h => a.prev[x] = k.prev[x]
      BY <1>4, <2>1, <2>4, ListFacts
    <2>7. q \in [Timers -> Nat] /\ q[t] = r[h] + 1 /\ \A x \in C : q[x] = r[x] /\ q[x] < q[t]
      BY <1>1, <2>1
    <2> HIDE DEF q
    <2>8. Chain(a.next, B, q)
      <3>1. \A x \in C : a.next[x] = l.next[x]
        BY <1>1, <1>5, <2>6
      <3>2. \A x \in B : a.next[x] \in B \cup {NULL}
        BY <1>1, <2>1, <2>6, <3>1 DEF Chain
      <3>3. ASSUME NEW x \in B, a.next[x] \in B PROVE q[a.next[x]] < q[x] /\ \A y \in B : q[x] <= q[y] \/ q[y] <= q[a.next[x]]
        <4>1. CASE x = t
          BY <1>1, <2>1, <2>6, <2>7, <4>1
        <4>2. CASE x \in C
          <5>1. a.next[x] = l.next[x] /\ l.next[x] \in C
            <6>1. a.next[x] = l.next[x] /\ l.next[x] \in C \cup {NULL}
              BY <1>1, <3>1, <4>2 DEF Chain
            <6> QED
              BY <1>1, <3>3, <6>1
          <5>2. r[l.next[x]] < r[x] /\ \A y \in C : r[x] <= r[y] \/ r[y] <= r[l.next[x]]
            BY <1>1, <4>2, <5>1 DEF Chain
          <5>3. q[x] <= q[t]
            BY <1>1, <2>1, <2>7, <4>2
          <5> QED
            BY <2>7, <4>2, <5>1, <5>2, <5>3
        <4> QED
          BY <4>1, <4>2
      <3>4. ASSUME NEW x \in B, a.next[x] = NULL PROVE \A y \in B : q[x] <= q[y]
        <4>1. x \in C /\ l.next[x] = NULL
          BY <1>1, <2>1, <2>6, <3>1, <3>4
        <4>2. \A y \in C : r[x] <= r[y]
          BY <1>1, <4>1 DEF Chain
        <4> QED
          BY <1>1, <2>1, <2>7, <4>1, <4>2
      <3>5. \A x, y \in B : q[x] = q[y] => x = y
        <4>1. \A x, y \in C : r[x] = r[y] => x = y
          BY <1>1 DEF Chain
        <4>2. \A x \in C : q[x] # q[t]
          BY <1>1, <2>1, <2>7
        <4> QED
          BY <2>7, <4>1, <4>2
      <3>6. \A x \in Timers \ B : a.next[x] \in B \cup {NULL, Freed}
        BY <1>1, <1>5, <2>6 DEF Chain
      <3> QED
        BY <1>1, <2>5, <2>7, <3>2, <3>3, <3>4, <3>5, <3>6, ListFacts DEF Chain
    <2>9. Back(a, B, q)
      <3>1. a.tail \in C /\ a.next[a.tail] = NULL /\ a.prev[t] = NULL
        BY <1>1, <1>5, <2>1, <2>6
      <3>0. HeadBack(a.prev[t], t)
        BY <3>1, HeadNull
      <3>2. \A y \in B : q[y] <= q[t]
        BY <1>1, <2>1, <2>7
      <3>3. ASSUME NEW x \in B, x # t PROVE a.prev[x] \in B /\ a.next[a.prev[x]] = x
        <4>1. CASE x = h
          BY <2>6, <4>1
        <4>2. CASE x # h
          <5>1. l.prev[x] \in C /\ l.next[l.prev[x]] = x
            BY <1>1, <3>3, <4>2 DEF Back, h
          <5> QED
            BY <1>1, <1>5, <2>6, <3>3, <4>2, <5>1
        <4> QED
          BY <4>1, <4>2
      <3>4. ASSUME NEW x \in B, a.next[x] \in B PROVE a.expire[x] <= a.expire[a.next[x]]
        <4>1. CASE x = t
          <5>1. a.expire[t] = e /\ a.expire[h] = l.expire[h] /\ e < l.expire[h] /\ l.expire[h] \in Int
            BY <1>1, <1>5, <1>8, <2>1, <2>6 DEF h
          <5> QED
            BY <2>6, <4>1, <5>1
        <4>2. CASE x \in C
          <5>1. a.next[x] = l.next[x] /\ l.next[x] \in C
            <6>1. a.next[x] = l.next[x] /\ l.next[x] \in C \cup {NULL}
              BY <1>1, <1>5, <2>6, <4>2 DEF Chain
            <6> QED
              BY <1>1, <3>4, <6>1
          <5> QED
            BY <1>1, <1>5, <2>6, <4>2, <5>1 DEF Back
        <4> QED
          BY <4>1, <4>2
      <3> QED
        BY <2>6, <3>0, <3>1, <3>2, <3>3, <3>4 DEF Back
    <2>10. Linked(a, B, q)
      BY <2>5, <2>8, <2>9 DEF Linked
    <2>11. CASE Returns
      BY <1>5, <2>3, <2>6, <2>10, <2>11
    <2>12. CASE ~Returns
      <3> DEFINE z == LastBefore(a, a.expire[t], t)
      <3>1. a.expire[t] = e /\ a.next[t] = h /\ a.expire[h] = l.expire[h] /\ e < l.expire[h] /\ l.expire[h] \in Int /\ h # NULL
        BY <1>1, <1>5, <1>8, <2>1, <2>6 DEF h
      <3>2. z = t
        <4>1. t \in B /\ a.expire[t] \in Int
          BY <3>1
        <4> DEFINE v == a.expire[t]
        <4>2. v = a.expire[t] /\ v \in Int
          BY <4>1
        <4> HIDE DEF B, v, z
        <4>3. LastIs(a, B, q, v, t, LastBefore(a, v, t))
          BY <2>5, <2>8, <4>1, <4>2, LastIsFound
        <4>4. z \in B /\ q[z] <= q[t] /\ \A y \in B : q[z] < q[y] /\ q[y] <= q[t] => a.expire[a.next[y]] <= v
          BY <4>2, <4>3 DEF z, LastIs
        <4>5. B \subseteq Timers /\ q[z] \in Nat /\ q[t] \in Nat
          <5>1. B \subseteq Timers
            BY <1>1 DEF B
          <5> QED
            BY <2>7, <4>4, <5>1
        <4>6. ~(q[z] < q[t])
          BY <3>1, <4>1, <4>2, <4>4, <4>5
        <4>7. q[z] = q[t]
          BY <4>4, <4>5, <4>6
        <4> QED
          BY <2>8, <4>1, <4>4, <4>7 DEF Chain
      <3>3. m = [a EXCEPT !.next[t] = t, !.next[t] = h, !.prev[h] = t, !.prev[t] = t]
        <4>1. m = Insert(a, t, t)
          BY <2>3, <2>12
        <4>2. Insert(a, t, t) = IF a.next[z] = NULL THEN [a EXCEPT !.next[z] = t, !.prev[t] = z, !.next[t] = NULL, !.tail = t]
                                ELSE [a EXCEPT !.next[z] = t, !.next[t] = a.next[z], !.prev[a.next[z]] = t, !.prev[t] = z]
          BY Zenon DEF Insert
        <4> HIDE DEF z
        <4> QED
          BY <3>1, <3>2, <4>1, <4>2
      <3> HIDE DEF z
      <3>4. /\ m = [head |-> m.head, tail |-> m.tail, next |-> m.next, prev |-> m.prev, expire |-> m.expire]
            /\ m.head = a.head /\ m.tail = a.tail /\ m.expire = a.expire
        BY <2>5, <3>3 DEF TimerList
      <3>5. m.next = [a.next EXCEPT ![t] = t, ![t] = h] /\ m.prev = [a.prev EXCEPT ![h] = t, ![t] = t]
        BY <2>5, <3>3 DEF TimerList
      <3>6. a.next \in [Timers -> Links] /\ a.prev \in [Timers -> Links] /\ h \in Timers /\ t \in Links /\ h \in Links
        BY <2>1, <2>5, ListFacts DEF Links
      <3>7. m.next \in [Timers -> Links] /\ m.prev \in [Timers -> Links]
        BY <3>5, <3>6
      <3>8. m.next = a.next
        <4>1. \A x \in Timers : m.next[x] = a.next[x]
          BY <3>1, <3>5, <3>6
        <4> QED
          BY <3>6, <3>7, <4>1
      <3>9. m.prev[t] = t /\ \A x \in Timers : x # t => m.prev[x] = a.prev[x]
        BY <2>6, <3>5, <3>6
      <3>10. m \in TimerList
        BY <2>5, <3>4, <3>7, IsList, ListFacts
      <3>11. Back(m, B, q)
        <4>1. HeadBack(m.prev[m.head], m.head)
          BY <2>6, <2>12, <3>4, <3>9 DEF HeadBack
        <4>2. \A x \in B : x # a.head => a.prev[x] \in B /\ a.next[a.prev[x]] = x
          BY <2>9 DEF Back
        <4>3. \A x \in B : x # m.head => m.prev[x] \in B /\ m.next[m.prev[x]] = x
          BY <1>1, <2>6, <3>4, <3>8, <3>9, <4>2
        <4> QED
          BY <2>9, <3>4, <3>8, <4>1, <4>3 DEF Back
      <3>12. Linked(m, B, q)
        BY <2>8, <3>8, <3>10, <3>11 DEF Linked
      <3> QED
        BY <1>5, <2>6, <3>4, <3>8, <3>12
    <2> QED
      BY <2>11, <2>12
  <1>9. CASE l.head # NULL /\ ~(e < l.expire[l.head])
    <2>1. l.head \in C /\ l.expire[l.head] \in Int
      BY <1>1, <1>9 DEF Back
    <2>2. k.expire[k.head] <= k.expire[t] /\ ~(k.expire[t] < k.expire[k.head])
      BY <1>1, <1>5, <1>9, <2>1
    <2>3. m = Insert(k, t, k.head)
      BY <1>3, <1>5, <1>9, <2>2 DEF add_timer
    <2>4. /\ \E q : Linked(m, C \cup {t}, q)
          /\ m.expire = k.expire /\ \A x \in Timers \ (C \cup {t}) : m.next[x] = k.next[x]
      <3> DEFINE o == k.head
      <3>1. o \in C /\ k.expire[o] <= k.expire[t] /\ m = Insert(k, t, o)
        BY <1>5, <2>1, <2>2, <2>3
      <3> HIDE DEF o
      <3> QED
        BY <1>6, <3>1, InsertKeeps
    <2> QED
      BY <1>5, <2>4
  <1> QED
    BY <1>7, <1>8, <1>9

(* del_timer takes a timer out, wherever it is. *)
LEMMA DelKeeps ==
  ASSUME NamesOk, NEW l, NEW C, NEW r, Linked(l, C, r), NEW t \in C, \A x \in Timers \ C : l.next[x] = Freed,
         NEW m, m = del_timer(l, t)
  PROVE  /\ Linked(m, C \ {t}, r) /\ m.next[t] = Freed
         /\ \A x \in C \ {t} : m.expire[x] = l.expire[x]
         /\ \A x \in Timers \ C : m.next[x] = Freed
  <1> DEFINE B == C \ {t}
             n == l.next[t]
             p == l.prev[t]
             pp == IF t = l.head THEN NULL ELSE l.prev[t]
  <1>1. /\ l \in TimerList /\ C \in SUBSET Timers /\ r \in [Timers -> Nat] /\ l.expire \in [Timers -> Int]
        /\ l.head \in Timers \cup {NULL} /\ l.tail \in Timers \cup {NULL}
        /\ l.next \in [Timers -> Links] /\ l.prev \in [Timers -> Links] /\ Chain(l.next, C, r) /\ Back(l, C, r)
        /\ \A x \in C : r[x] \in Nat /\ l.expire[x] \in Int /\ x \in Timers
        /\ NULL \notin Timers /\ Freed \notin Timers /\ NULL # Freed
    BY LinkedFacts, Names
  <1>2. /\ l.head \in C /\ l.tail \in C /\ l.next[l.tail] = NULL /\ HeadBack(l.prev[l.head], l.head)
        /\ \A y \in C : r[y] <= r[l.head]
        /\ \A x \in C : x # l.head => l.prev[x] \in C /\ l.next[l.prev[x]] = x
    BY <1>1 DEF Back
  <1>3. /\ \A x \in C : l.next[x] \in C \cup {NULL}
        /\ \A x \in C : l.next[x] \in C => r[l.next[x]] < r[x] /\ \A y \in C : r[x] <= r[y] \/ r[y] <= r[l.next[x]]
        /\ \A x \in C : l.next[x] = NULL => \A y \in C : r[x] <= r[y]
        /\ \A x, y \in C : r[x] = r[y] => x = y
    BY <1>1 DEF Chain
  <1>4. \A x \in C : l.next[x] = t => x = p
    <2> SUFFICES ASSUME NEW x \in C, l.next[x] = t PROVE r[x] = r[p] /\ p \in C
      BY <1>3
    <2>1. r[t] < r[x] /\ r[x] <= r[l.head]
      BY <1>2, <1>3
    <2>2. t # l.head
      BY <1>1, <2>1
    <2>3. p \in C /\ l.next[p] = t
      BY <1>2, <2>2
    <2>4. (r[x] <= r[p] \/ r[p] <= r[t]) /\ (r[p] <= r[x] \/ r[x] <= r[t]) /\ r[t] < r[p]
      BY <1>3, <2>3
    <2> QED
      BY <1>1, <2>1, <2>3, <2>4
  <1>5. n # t /\ n \in B \cup {NULL} /\ (t # l.head => p \in B) /\ t \in Timers
    BY <1>1, <1>2, <1>3
  <1>6. n = NULL <=> t = l.tail
    <2>1. n = NULL => r[t] <= r[l.tail] /\ r[l.tail] <= r[t]
      BY <1>2, <1>3
    <2>2. n = NULL => r[t] = r[l.tail]
      BY <1>1, <1>2, <2>1
    <2>3. n = NULL => t = l.tail
      BY <1>2, <1>3, <2>2
    <2>4. t = l.tail => n = NULL
      BY <1>2
    <2> QED
      BY <2>3, <2>4
  <1>7. PICK k \in TimerList :
           /\ m = Delete(k, t) /\ k.head = (IF t = l.head THEN n ELSE l.head)
           /\ (B # {} => k.tail = IF t = l.tail THEN p ELSE l.tail) /\ k.expire = l.expire
           /\ \A x \in B : k.next[x] = IF x = p THEN n ELSE l.next[x]
           /\ \A x \in B : k.prev[x] = IF x = n THEN pp ELSE l.prev[x]
           /\ \A x \in Timers \ C : k.next[x] = l.next[x]
    <2>1. CASE t = l.head /\ t = l.tail
      <3> DEFINE k == [l EXCEPT !.head = NULL, !.tail = NULL]
      <3>1. k \in TimerList /\ k.head = NULL /\ k.next = l.next /\ k.expire = l.expire
        BY <1>1 DEF TimerList
      <3>2. m = Delete(k, t)
        BY <1>1, <2>1 DEF del_timer, Delete, TimerList
      <3> HIDE DEF k
      <3>3. B = {}
        <4>1. \A x \in C : r[x] <= r[t] /\ r[t] <= r[x]
          BY <1>2, <1>3, <2>1
        <4> QED
          BY <1>1, <1>3, <4>1
      <3>4. k.head = n
        BY <1>6, <2>1, <3>1
      <3>5. \A x \in Timers \ C : k.next[x] = l.next[x]
        BY <3>1
      <3> QED
        BY <2>1, <3>1, <3>2, <3>3, <3>4, <3>5
    <2>2. CASE t = l.head /\ t # l.tail
      <3> DEFINE k == [l EXCEPT !.head = n, !.prev[n] = NULL]
      <3>1. n \in B /\ n \in Timers /\ pp = NULL /\ p \notin B
        BY <1>1, <1>2, <1>5, <1>6, <2>2 DEF HeadBack
      <3>2. k \in TimerList /\ k.head = n /\ k.tail = l.tail /\ k.next = l.next /\ k.prev = [l.prev EXCEPT ![n] = NULL] /\ k.expire = l.expire
        <4>0. k = [l EXCEPT !.head = n, !.prev[n] = NULL]
          OBVIOUS
        <4> HIDE DEF k
        <4>1. k = [head |-> k.head, tail |-> k.tail, next |-> k.next, prev |-> k.prev, expire |-> k.expire]
          BY <1>1, <4>0 DEF TimerList
        <4>2. k.head = n /\ k.tail = l.tail /\ k.expire = l.expire
          BY <1>1, <4>0 DEF TimerList
        <4>3. k.next = l.next /\ k.prev = [l.prev EXCEPT ![n] = NULL]
          BY <1>1, <4>0 DEF TimerList
        <4>4. k.next \in [Timers -> Links] /\ k.prev \in [Timers -> Links]
          BY <1>1, <3>1, <4>3 DEF Links
        <4>5. k.head \in Timers \cup {NULL} /\ k.tail \in Timers \cup {NULL}
          BY <1>1, <3>1, <4>2
        <4> QED
          BY <1>1, <4>1, <4>2, <4>3, <4>4, <4>5, IsList
      <3>3. m = Delete(k, t)
        BY <2>2 DEF del_timer
      <3> HIDE DEF k
      <3>4. /\ \A x \in B : k.next[x] = IF x = p THEN n ELSE l.next[x]
            /\ \A x \in B : k.prev[x] = IF x = n THEN pp ELSE l.prev[x]
            /\ \A x \in Timers \ C : k.next[x] = l.next[x]
        BY <1>1, <3>1, <3>2
      <3> QED
        BY <2>2, <3>1, <3>2, <3>3, <3>4
    <2>3. CASE t # l.head /\ t = l.tail
      <3> DEFINE k == [l EXCEPT !.tail = p, !.next[p] = NULL]
      <3>1. n = NULL /\ n \notin B /\ p \in B /\ p \in Timers
        BY <1>1, <1>2, <1>5, <1>6, <2>3
      <3>2. k \in TimerList /\ k.head = l.head /\ k.tail = p /\ k.next = [l.next EXCEPT ![p] = NULL] /\ k.prev = l.prev /\ k.expire = l.expire
        <4>0. k = [l EXCEPT !.tail = p, !.next[p] = NULL]
          OBVIOUS
        <4> HIDE DEF k
        <4>1. k = [head |-> k.head, tail |-> k.tail, next |-> k.next, prev |-> k.prev, expire |-> k.expire]
          BY <1>1, <4>0 DEF TimerList
        <4>2. k.head = l.head /\ k.tail = p /\ k.expire = l.expire
          BY <1>1, <4>0 DEF TimerList
        <4>3. k.next = [l.next EXCEPT ![p] = NULL] /\ k.prev = l.prev
          BY <1>1, <4>0 DEF TimerList
        <4>4. k.next \in [Timers -> Links] /\ k.prev \in [Timers -> Links]
          BY <1>1, <3>1, <4>3 DEF Links
        <4>5. k.head \in Timers \cup {NULL} /\ k.tail \in Timers \cup {NULL}
          BY <1>1, <3>1, <4>2
        <4> QED
          BY <1>1, <4>1, <4>2, <4>3, <4>4, <4>5, IsList
      <3>3. m = Delete(k, t)
        BY <2>3 DEF del_timer
      <3> HIDE DEF k
      <3>4. /\ \A x \in B : k.next[x] = IF x = p THEN n ELSE l.next[x]
            /\ \A x \in B : k.prev[x] = IF x = n THEN pp ELSE l.prev[x]
            /\ \A x \in Timers \ C : k.next[x] = l.next[x]
        <4>1. \A x \in B : x # n /\ x \in Timers
          BY <1>1, <3>1
        <4>2. \A x \in B : k.next[x] = IF x = p THEN n ELSE l.next[x]
          BY <1>1, <3>1, <3>2, <4>1
        <4>3. \A x \in B : k.prev[x] = IF x = n THEN pp ELSE l.prev[x]
          BY <3>2, <4>1
        <4>4. \A x \in Timers \ C : k.next[x] = l.next[x]
          BY <1>1, <3>1, <3>2
        <4> QED
          BY <4>2, <4>3, <4>4
      <3> QED
        BY <2>3, <3>1, <3>2, <3>3, <3>4
    <2>4. CASE t # l.head /\ t # l.tail
      <3> DEFINE k == [l EXCEPT !.next[p] = n, !.prev[n] = p]
      <3>1. n \in B /\ p \in B /\ n \in Timers /\ p \in Timers
        BY <1>1, <1>2, <1>5, <1>6, <2>4
      <3>2. k \in TimerList /\ k.head = l.head /\ k.tail = l.tail /\ k.next = [l.next EXCEPT ![p] = n] /\ k.prev = [l.prev EXCEPT ![n] = p] /\ k.expire = l.expire
        <4>0. k = [l EXCEPT !.next[p] = n, !.prev[n] = p]
          OBVIOUS
        <4> HIDE DEF k
        <4>1. k = [head |-> k.head, tail |-> k.tail, next |-> k.next, prev |-> k.prev, expire |-> k.expire]
          BY <1>1, <4>0 DEF TimerList
        <4>2. k.head = l.head /\ k.tail = l.tail /\ k.expire = l.expire
          BY <1>1, <4>0 DEF TimerList
        <4>3. k.next = [l.next EXCEPT ![p] = n] /\ k.prev = [l.prev EXCEPT ![n] = p]
          BY <1>1, <4>0 DEF TimerList
        <4>4. k.next \in [Timers -> Links] /\ k.prev \in [Timers -> Links]
          BY <1>1, <3>1, <4>3 DEF Links
        <4>5. k.head \in Timers \cup {NULL} /\ k.tail \in Timers \cup {NULL}
          BY <1>1, <3>1, <4>2
        <4> QED
          BY <1>1, <4>1, <4>2, <4>3, <4>4, <4>5, IsList
      <3>3. m = Delete(k, t)
        BY <2>4 DEF del_timer
      <3> HIDE DEF k
      <3>4. /\ \A x \in B : k.next[x] = IF x = p THEN n ELSE l.next[x]
            /\ \A x \in B : k.prev[x] = IF x = n THEN pp ELSE l.prev[x]
            /\ \A x \in Timers \ C : k.next[x] = l.next[x]
        <4>1. \A x \in B : x \in Timers
          BY <1>1
        <4>2. pp = p
          BY <2>4
        <4> HIDE DEF n, p, pp
        <4>3. \A x \in B : k.next[x] = IF x = p THEN n ELSE l.next[x]
          BY <1>1, <3>1, <3>2, <4>1
        <4>4. \A x \in B : k.prev[x] = IF x = n THEN pp ELSE l.prev[x]
          BY <1>1, <3>1, <3>2, <4>1, <4>2
        <4>5. \A x \in Timers \ C : k.next[x] = l.next[x]
          BY <1>1, <3>1, <3>2
        <4> QED
          BY <4>3, <4>4, <4>5
      <3> QED
        BY <2>4, <3>1, <3>2, <3>3, <3>4
    <2> QED
      BY <2>1, <2>2, <2>3, <2>4
  <1> HIDE DEF n, p, pp
  <1>8. /\ m = [head |-> m.head, tail |-> m.tail, next |-> m.next, prev |-> m.prev, expire |-> m.expire]
        /\ m.head = k.head /\ m.tail = k.tail /\ m.expire = [k.expire EXCEPT ![t] = 0]
        /\ m.next = [k.next EXCEPT ![t] = Freed] /\ m.prev = [k.prev EXCEPT ![t] = Freed]
    <2>1. m = [k EXCEPT !.next[t] = Freed, !.prev[t] = Freed, !.expire[t] = 0]
      BY <1>7 DEF Delete
    <2>2. m = [head |-> m.head, tail |-> m.tail, next |-> m.next, prev |-> m.prev, expire |-> m.expire]
      BY <2>1 DEF TimerList
    <2>3. m.head = k.head /\ m.tail = k.tail /\ m.expire = [k.expire EXCEPT ![t] = 0]
      BY <2>1 DEF TimerList
    <2>4. m.next = [k.next EXCEPT ![t] = Freed] /\ m.prev = [k.prev EXCEPT ![t] = Freed]
      BY <2>1 DEF TimerList
    <2> QED
      BY <2>2, <2>3, <2>4
  <1>9. m \in TimerList
    <2>1. m.next \in [Timers -> Links] /\ m.prev \in [Timers -> Links] /\ m.expire \in [Timers -> Int]
      BY <1>5, <1>8, ListFacts DEF Links
    <2> QED
      BY <1>8, <2>1, IsList, ListFacts
  <1>10. /\ m.next[t] = Freed /\ \A x \in B : m.next[x] = k.next[x] /\ m.prev[x] = k.prev[x] /\ m.expire[x] = l.expire[x]
         /\ \A x \in Timers \ C : m.next[x] = Freed
    BY <1>1, <1>5, <1>7, <1>8, ListFacts
  <1>11. /\ \A x \in B : m.next[x] = IF l.next[x] = t THEN l.next[t] ELSE l.next[x]
         /\ \A x \in B : m.prev[x] = IF x = l.next[t] THEN (IF t = l.head THEN NULL ELSE l.prev[t]) ELSE l.prev[x]
    <2>1. \A x \in B : l.next[x] = t <=> x = p
      <3>1. \A x \in B : x = p => l.next[x] = t
        <4>1. p \in B => t # l.head
          BY <1>1, <1>2 DEF p, HeadBack
        <4> QED
          BY <1>2, <4>1 DEF p
      <3> QED
        BY <1>4, <3>1
    <2> QED
      BY <1>7, <1>10, <2>1 DEF n, p, pp
  <1>12. \A x \in Timers \ B : m.next[x] \in B \cup {NULL, Freed}
    BY <1>10
  <1>13. Linked(m, B, r)
    <2>1. m.head = IF t = l.head THEN l.next[t] ELSE l.head
      BY <1>7, <1>8 DEF n
    <2>2. B # {} => m.tail = IF t = l.tail THEN l.prev[t] ELSE l.tail
      BY <1>7, <1>8 DEF p
    <2> HIDE DEF B
    <2>3. B = C \ {t} /\ \A x \in B : m.expire[x] = l.expire[x]
      BY <1>10 DEF B
    <2> QED
      BY <1>9, <1>11, <1>12, <2>1, <2>2, <2>3, CutKeeps
  <1> QED
    BY <1>10, <1>13

(* adjust_timer moves a timer that was put off behind those that are due  *)
(* before it.                                                             *)
LEMMA AdjustKeeps ==
  ASSUME NamesOk, NEW l, NEW C, NEW r, Linked(l, C, r), NEW t \in C, \A x \in Timers \ C : l.next[x] = Freed,
         NEW e \in Int, l.expire[t] <= e, NEW m, m = adjust_timer([l EXCEPT !.expire[t] = e], t)
  PROVE  /\ \E q : Linked(m, C, q)
         /\ m.expire = [l.expire EXCEPT ![t] = e] /\ \A x \in Timers \ C : m.next[x] = Freed
  <1> DEFINE k == [l EXCEPT !.expire[t] = e]
             B == C \ {t}
             n == l.next[t]
             p == l.prev[t]
             pp == IF t = l.head THEN NULL ELSE l.prev[t]
  <1>1. /\ l \in TimerList /\ C \in SUBSET Timers /\ r \in [Timers -> Nat] /\ l.expire \in [Timers -> Int]
        /\ l.head \in Timers \cup {NULL} /\ l.tail \in Timers \cup {NULL}
        /\ l.next \in [Timers -> Links] /\ l.prev \in [Timers -> Links] /\ Chain(l.next, C, r) /\ Back(l, C, r)
        /\ \A x \in C : r[x] \in Nat /\ l.expire[x] \in Int /\ x \in Timers
        /\ NULL \notin Timers /\ Freed \notin Timers /\ NULL # Freed
    BY LinkedFacts, Names
  <1>2. /\ l.head \in C /\ l.tail \in C /\ l.next[l.tail] = NULL /\ HeadBack(l.prev[l.head], l.head)
        /\ \A y \in C : r[y] <= r[l.head]
        /\ \A x \in C : x # l.head => l.prev[x] \in C /\ l.next[l.prev[x]] = x
        /\ \A x \in C : l.next[x] \in C => l.expire[x] <= l.expire[l.next[x]]
    BY <1>1 DEF Back
  <1>3. /\ \A x \in C : l.next[x] \in C \cup {NULL}
        /\ \A x \in C : l.next[x] \in C => r[l.next[x]] < r[x] /\ \A y \in C : r[x] <= r[y] \/ r[y] <= r[l.next[x]]
        /\ \A x, y \in C : r[x] = r[y] => x = y
    BY <1>1 DEF Chain
  <1>4. /\ k \in TimerList /\ k.head = l.head /\ k.tail = l.tail /\ k.next = l.next /\ k.prev = l.prev
        /\ k.expire = [l.expire EXCEPT ![t] = e]
    <2>1. k = [l EXCEPT !.expire[t] = e]
      OBVIOUS
    <2> HIDE DEF k
    <2>2. k = [head |-> k.head, tail |-> k.tail, next |-> k.next, prev |-> k.prev, expire |-> k.expire]
      BY <1>1, <2>1 DEF TimerList
    <2>3. k.head = l.head /\ k.tail = l.tail /\ k.next = l.next /\ k.prev = l.prev /\ k.expire = [l.expire EXCEPT ![t] = e]
      BY <1>1, <2>1 DEF TimerList
    <2>4. k.expire \in [Timers -> Int]
      BY <1>1, <2>3
    <2> QED
      BY <1>1, <2>2, <2>3, <2>4, IsList
  <1>5. m = adjust_timer(k, t)
    OBVIOUS
  <1> HIDE DEF k
  <1>6. k.expire[t] = e /\ \A x \in Timers : x # t => k.expire[x] = l.expire[x]
    BY <1>1, <1>4
  <1>7. \A x \in C : l.next[x] = t => x = p
    <2> SUFFICES ASSUME NEW x \in C, l.next[x] = t PROVE r[x] = r[p] /\ p \in C
      BY <1>3
    <2>1. r[t] < r[x] /\ r[x] <= r[l.head]
      BY <1>2, <1>3
    <2>2. t # l.head
      BY <1>1, <2>1
    <2>3. p \in C /\ l.next[p] = t
      BY <1>2, <2>2
    <2>4. (r[x] <= r[p] \/ r[p] <= r[t]) /\ (r[p] <= r[x] \/ r[x] <= r[t]) /\ r[t] < r[p]
      BY <1>3, <2>3
    <2> QED
      BY <1>1, <2>1, <2>3, <2>4
  <1>8. n # t /\ n \in B \cup {NULL} /\ (t # l.head => p \in B /\ l.next[p] = t) /\ t \in Timers
    BY <1>1, <1>2, <1>3
  <1>9. CASE n = NULL \/ e < k.expire[n]
    <2>1. m = k
      BY <1>4, <1>5, <1>6, <1>9 DEF adjust_timer
    <2>2. \A x \in C : k.next[x] \in C => k.expire[x] <= k.expire[k.next[x]]
      <3> SUFFICES ASSUME NEW x \in C, l.next[x] \in C PROVE k.expire[x] <= k.expire[l.next[x]]
        BY <1>4
      <3>1. l.expire[x] <= l.expire[l.next[x]]
        BY <1>2
      <3>2. CASE x = t
        BY <1>1, <1>6, <1>8, <1>9, <3>2
      <3>3. CASE x # t /\ l.next[x] = t
        BY <1>1, <1>6, <3>1, <3>3
      <3>4. CASE x # t /\ l.next[x] # t
        BY <1>1, <1>6, <3>1, <3>4
      <3> QED
        BY <3>2, <3>3, <3>4
    <2>3. Linked(k, C, r)
      BY <1>1, <1>2, <1>4, <2>2 DEF Linked, Back
    <2> QED
      BY <1>4, <2>1, <2>3
  <1>10. CASE ~(n = NULL \/ e < k.expire[n])
    <2>1. n \in B /\ n \in C /\ n \in Timers /\ t # l.tail /\ k.expire[n] <= e /\ k.expire[n] \in Int
      <3>1. n \in B
        BY <1>8, <1>10
      <3> QED
        BY <1>1, <1>2, <1>6, <1>10, <3>1
    <2>2. PICK j \in TimerList :
             /\ m = Insert(j, t, n) /\ j.expire = k.expire /\ j.tail = l.tail
             /\ j.head = (IF t = l.head THEN n ELSE l.head)
             /\ \A x \in B : j.next[x] = IF x = p THEN n ELSE l.next[x]
             /\ \A x \in B : j.prev[x] = IF x = n THEN pp ELSE l.prev[x]
             /\ j.next[t] \in B \cup {NULL} /\ \A x \in Timers \ C : j.next[x] = Freed
      <3>1. CASE t = l.head
        <4> DEFINE j == [k EXCEPT !.head = n, !.prev[n] = NULL, !.next[t] = NULL]
        <4>1. j = [k EXCEPT !.head = n, !.prev[n] = NULL, !.next[t] = NULL]
          OBVIOUS
        <4>2. m = Insert(j, t, n)
          BY <1>4, <1>5, <1>6, <1>10, <3>1 DEF adjust_timer
        <4> HIDE DEF j
        <4>3. j = [head |-> j.head, tail |-> j.tail, next |-> j.next, prev |-> j.prev, expire |-> j.expire]
          BY <1>4, <4>1 DEF TimerList
        <4>4. j.head = n /\ j.tail = k.tail /\ j.expire = k.expire
          BY <1>4, <4>1 DEF TimerList
        <4>5. j.next = [l.next EXCEPT ![t] = NULL] /\ j.prev = [l.prev EXCEPT ![n] = NULL]
          BY <1>4, <4>1 DEF TimerList
        <4>6. j.next \in [Timers -> Links] /\ j.prev \in [Timers -> Links]
          <5> HIDE DEF n, p, pp
          <5>1. NULL \in Links
            BY DEF Links
          <5>2. j.next \in [Timers -> Links]
            BY <1>1, <4>5, <5>1
          <5>3. n \in Timers
            BY <2>1
          <5> DEFINE v == l.prev
          <5>4. v \in [Timers -> Links] /\ j.prev = [v EXCEPT ![n] = NULL]
            BY <1>1, <4>5
          <5> HIDE DEF v
          <5>5. j.prev \in [Timers -> Links]
            BY <5>1, <5>3, <5>4
          <5> QED
            BY <5>2, <5>5
        <4>7. j \in TimerList
          BY <1>4, <2>1, <4>3, <4>4, <4>6, IsList, ListFacts
        <4>8. pp = NULL /\ p \notin B
          BY <1>1, <1>2, <3>1 DEF HeadBack
        <4>9. /\ \A x \in B : j.next[x] = l.next[x]
              /\ \A x \in B : j.prev[x] = IF x = n THEN pp ELSE l.prev[x]
              /\ j.next[t] = NULL /\ \A x \in Timers \ C : j.next[x] = Freed
          BY <1>1, <1>8, <4>5, <4>8
        <4> QED
          BY <1>4, <3>1, <4>2, <4>4, <4>7, <4>8, <4>9
      <3>2. CASE t # l.head
        <4> DEFINE j == [k EXCEPT !.next[k.prev[t]] = n, !.prev[n] = k.prev[t]]
        <4>1. j = [k EXCEPT !.next[k.prev[t]] = n, !.prev[n] = k.prev[t]]
          OBVIOUS
        <4>2. m = Insert(j, t, n)
          BY <1>4, <1>5, <1>6, <1>10, <3>2 DEF adjust_timer
        <4> HIDE DEF j
        <4>3. j = [head |-> j.head, tail |-> j.tail, next |-> j.next, prev |-> j.prev, expire |-> j.expire]
          BY <1>4, <4>1 DEF TimerList
        <4>4. j.head = k.head /\ j.tail = k.tail /\ j.expire = k.expire
          BY <1>4, <4>1 DEF TimerList
        <4>5. j.next = [l.next EXCEPT ![p] = n] /\ j.prev = [l.prev EXCEPT ![n] = p]
          BY <1>4, <4>1 DEF TimerList
        <4>6. j.next \in [Timers -> Links] /\ j.prev \in [Timers -> Links]
          BY <1>1, <1>8, <2>1, <3>2, <4>5 DEF Links
        <4>7. j \in TimerList
          BY <1>4, <2>1, <4>3, <4>4, <4>6, IsList, ListFacts
        <4>8. p \in B /\ p \in Timers /\ p # t /\ pp = p
          BY <1>1, <1>8, <3>2
        <4> HIDE DEF n, p, pp
        <4>9. /\ \A x \in B : j.next[x] = IF x = p THEN n ELSE l.next[x]
              /\ \A x \in B : j.prev[x] = IF x = n THEN pp ELSE l.prev[x]
              /\ j.next[t] = l.next[t] /\ \A x \in Timers \ C : j.next[x] = Freed
          BY <1>1, <2>1, <4>5, <4>8
        <4> QED
          BY <1>4, <2>1, <3>2, <4>2, <4>4, <4>7, <4>9 DEF n
      <3> QED
        BY <3>1, <3>2
    <2> HIDE DEF n, p, pp
    <2>3. Linked(j, B, r)
      <3>1. \A x \in B : l.next[x] = t <=> x = p
        <4>1. p \in B => t # l.head
          BY <1>1, <1>2 DEF p, HeadBack
        <4> QED
          BY <1>7, <1>8, <4>1
      <3>2. /\ \A x \in B : j.next[x] = IF l.next[x] = t THEN l.next[t] ELSE l.next[x]
            /\ \A x \in B : j.prev[x] = IF x = l.next[t] THEN (IF t = l.head THEN NULL ELSE l.prev[t]) ELSE l.prev[x]
        BY <2>2, <3>1 DEF n, p, pp
      <3>3. \A x \in Timers \ B : j.next[x] \in B \cup {NULL, Freed}
        BY <2>2
      <3>4. j.head = IF t = l.head THEN l.next[t] ELSE l.head
        BY <2>2 DEF n
      <3>5. B # {} => j.tail = IF t = l.tail THEN l.prev[t] ELSE l.tail
        BY <2>1, <2>2
      <3>6. \A x \in B : j.expire[x] = l.expire[x]
        BY <1>1, <1>6, <2>2
      <3> HIDE DEF B
      <3>7. B = C \ {t}
        BY DEF B
      <3> QED
        BY <2>2, <3>2, <3>3, <3>4, <3>5, <3>6, <3>7, CutKeeps
    <2>4. /\ \E q : Linked(m, B \cup {t}, q)
          /\ m.expire = j.expire /\ \A x \in Timers \ (B \cup {t}) : m.next[x] = j.next[x]
      <3>1. t \in Timers \ B /\ n \in B /\ j.expire[n] <= j.expire[t] /\ m = Insert(j, t, n)
        BY <1>1, <1>6, <2>1, <2>2
      <3> HIDE DEF B
      <3>2. \A o \in B : Insert(j, t, o) = m /\ j.expire[o] <= j.expire[t] =>
              /\ \E q : Linked(m, B \cup {t}, q)
              /\ m.expire = j.expire /\ \A x \in Timers \ (B \cup {t}) : m.next[x] = j.next[x]
        <4> SUFFICES ASSUME NEW o \in B, Insert(j, t, o) = m, j.expire[o] <= j.expire[t]
            PROVE  /\ \E q : Linked(m, B \cup {t}, q)
                   /\ m.expire = j.expire /\ \A x \in Timers \ (B \cup {t}) : m.next[x] = j.next[x]
          OBVIOUS
        <4>1. t \in Timers \ B
          BY <3>1
        <4>2. Linked(j, B, r)
          BY <2>3
        <4> QED
          BY <4>1, <4>2, InsertKeeps
      <3> QED
        BY <3>1, <3>2
    <2>5. B \cup {t} = C
      OBVIOUS
    <2> QED
      BY <1>4, <2>2, <2>4, <2>5
  <1> QED
    BY <1>9, <1>10

(* The same, told of the list as the program hands it over: the timer with *)
(* its new expiry, and what the call leaves.                               *)
PutOff(l, t, e) == [l EXCEPT !.expire[t] = e]
Moved(m, l, C, t, e) == /\ \E q : Linked(m, C, q)
                        /\ m.expire = [l.expire EXCEPT ![t] = e] /\ \A x \in Timers \ C : m.next[x] = Freed
LEMMA AdjustMoves ==
  ASSUME NamesOk, NEW l, NEW C, NEW r, Linked(l, C, r), NEW t \in C, \A x \in Timers \ C : l.next[x] = Freed,
         NEW e \in Int, l.expire[t] <= e, NEW m, m = adjust_timer(PutOff(l, t, e), t)
  PROVE  Moved(m, l, C, t, e)
  BY AdjustKeeps DEF PutOff, Moved

(* tick takes away the timers that are due, and only these. *)
LEMMA TickKeeps ==
  ASSUME NamesOk, NEW l, NEW C, NEW r, Linked(l, C, r), \A x \in Timers \ C : l.next[x] = Freed,
         NEW cur \in Int, NEW m, m = tick(l, cur), NEW B, B = {x \in C : cur < l.expire[x]}
  PROVE  /\ Linked(m, B, r) /\ \A x \in Timers \ B : m.next[x] = Freed
         /\ \A x \in B : m.expire[x] = l.expire[x]
         /\ Members(l) = C /\ Members(m) = B
  <1> DEFINE h == FirstNotDue(l, cur)
             j == [l EXCEPT !.head = h]
             gone == Members(l) \ Members(j)
             s == [l EXCEPT !.head = h,
                            !.next = [t \in Timers |-> IF t \in gone THEN Freed ELSE @[t]],
                            !.prev = [t \in Timers |-> IF t \in gone THEN Freed ELSE @[t]],
                            !.expire = [t \in Timers |-> IF t \in gone THEN 0 ELSE @[t]]]
  <1>1. /\ l \in TimerList /\ C \in SUBSET Timers /\ r \in [Timers -> Nat] /\ l.expire \in [Timers -> Int]
        /\ l.head \in Timers \cup {NULL} /\ l.tail \in Timers \cup {NULL}
        /\ l.next \in [Timers -> Links] /\ l.prev \in [Timers -> Links] /\ Chain(l.next, C, r) /\ Back(l, C, r)
        /\ \A x \in C : r[x] \in Nat /\ l.expire[x] \in Int /\ x \in Timers
        /\ NULL \notin Timers /\ Freed \notin Timers /\ NULL # Freed
    BY LinkedFacts, Names
  <1>2. /\ C = {} => l.head = NULL
        /\ C # {} => l.head \in C /\ l.tail \in C /\ l.next[l.tail] = NULL /\ HeadBack(l.prev[l.head], l.head)
        /\ \A y \in C : r[y] <= r[l.head]
        /\ \A x \in C : x # l.head => l.prev[x] \in C /\ l.next[l.prev[x]] = x
        /\ \A x \in C : l.next[x] \in C => l.expire[x] <= l.expire[l.next[x]]
    BY <1>1 DEF Back
  <1>3. Members(l) = C
    <2>0. Chain(l.next, C, r) /\ l.head \in C \cup {NULL}
      BY <1>1, <1>2
    <2>1. Members(l) = {y \in C : l.head \in C /\ r[y] <= r[l.head]}
      BY <2>0, MembersFound
    <2> QED
      BY <1>2, <2>1
  <1>4. m = IF gone = {} \/ h = NULL THEN s ELSE [s EXCEPT !.prev[h] = NULL]
    BY DEF tick
  <1>5. /\ h \in B \cup {NULL} /\ (h = NULL <=> B = {})
        /\ h # NULL => \A y \in C : y \in B <=> r[y] <= r[h]
    <2>1. CASE C = {}
      <3> DEFINE D == Timers \cup {NULL, Freed}
                 Rec(f) == f = [x \in D |-> IF x \notin Timers \/ cur < l.expire[x] THEN x ELSE f[l.next[x]]]
                 F == CHOOSE f : Rec(f)
                 g == [x \in D |-> IF x \notin Timers \/ cur < l.expire[x] THEN x ELSE Freed]
      <3>1. \A x \in Timers : l.next[x] = Freed
        BY <2>1
      <3>2. g = [x \in D |-> IF x \notin Timers \/ cur < l.expire[x] THEN x ELSE g[l.next[x]]]
        BY <1>1, <3>1
      <3>3. h = F[NULL]
        BY <1>2, <2>1 DEF FirstNotDue
      <3> HIDE DEF g
      <3>4. Rec(F)
        <4>1. \E f : Rec(f)
          BY <3>2
        <4> HIDE DEF Rec
        <4> QED
          BY <4>1
      <3> HIDE DEF F
      <3>5. F[NULL] = NULL
        BY <1>1, <3>4
      <3> HIDE DEF h
      <3> QED
        BY <2>1, <3>3, <3>5
    <2>2. CASE C # {}
      <3>1. \/ h = NULL /\ \A y \in C : r[y] <= r[l.head] => l.expire[y] <= cur
            \/ /\ h \in C /\ cur < l.expire[h]
               /\ \A y \in C : r[h] < r[y] /\ r[y] <= r[l.head] => l.expire[y] <= cur
        BY <1>1, <1>2, <2>2, DueFound
      <3> HIDE DEF h
      <3>2. CASE h = NULL /\ \A y \in C : r[y] <= r[l.head] => l.expire[y] <= cur
        <4>1. \A y \in C : ~(cur < l.expire[y])
          BY <1>1, <1>2, <3>2
        <4> QED
          BY <3>2, <4>1
      <3>3. CASE /\ h \in C /\ cur < l.expire[h]
                 /\ \A y \in C : r[h] < r[y] /\ r[y] <= r[l.head] => l.expire[y] <= cur
        <4>1. \A y \in C : r[y] <= r[h] => l.expire[h] <= l.expire[y]
          BY <3>3, Ascends
        <4>2. \A y \in C : y \in B <=> r[y] <= r[h]
          BY <1>1, <1>2, <3>3, <4>1
        <4> QED
          BY <1>1, <3>3, <4>2
      <3> QED
        BY <3>1, <3>2, <3>3
    <2> QED
      BY <2>1, <2>2
  <1> HIDE DEF h
  <1>6. j.next = l.next /\ j.head = h
    BY <1>1 DEF TimerList
  <1>7. Members(j) = B
    <2> HIDE DEF j
    <2>1. Members(j) = {y \in C : j.head \in C /\ r[y] <= r[j.head]}
      BY <1>1, <1>5, <1>6, MembersFound
    <2>2. CASE h = NULL
      BY <1>1, <1>5, <1>6, <2>1, <2>2
    <2>3. CASE h # NULL
      BY <1>1, <1>5, <1>6, <2>1, <2>3
    <2> QED
      BY <2>2, <2>3
  <1>8. gone = C \ B
    BY <1>3, <1>7
  <1> HIDE DEF gone, j
  <1>9. /\ s \in TimerList /\ s.head = h /\ s.tail = l.tail
        /\ \A x \in Timers : s.next[x] = IF x \in gone THEN Freed ELSE l.next[x]
        /\ \A x \in Timers : s.prev[x] = IF x \in gone THEN Freed ELSE l.prev[x]
        /\ \A x \in Timers : s.expire[x] = IF x \in gone THEN 0 ELSE l.expire[x]
    <2>1. s = [l EXCEPT !.head = h,
                        !.next = [t \in Timers |-> IF t \in gone THEN Freed ELSE @[t]],
                        !.prev = [t \in Timers |-> IF t \in gone THEN Freed ELSE @[t]],
                        !.expire = [t \in Timers |-> IF t \in gone THEN 0 ELSE @[t]]]
      OBVIOUS
    <2> HIDE DEF s
    <2>2. s = [head |-> s.head, tail |-> s.tail, next |-> s.next, prev |-> s.prev, expire |-> s.expire]
      BY <1>1, <2>1 DEF TimerList
    <2>3. s.head = h /\ s.tail = l.tail
      BY <1>1, <2>1 DEF TimerList
    <2>4. /\ s.next = [t \in Timers |-> IF t \in gone THEN Freed ELSE l.next[t]]
          /\ s.prev = [t \in Timers |-> IF t \in gone THEN Freed ELSE l.prev[t]]
          /\ s.expire = [t \in Timers |-> IF t \in gone THEN 0 ELSE l.expire[t]]
      BY <1>1, <2>1 DEF TimerList
    <2>5. s.next \in [Timers -> Links] /\ s.prev \in [Timers -> Links] /\ s.expire \in [Timers -> Int]
      BY <1>1, <2>4 DEF Links
    <2>6. s \in TimerList
      BY <1>1, <1>5, <2>2, <2>3, <2>5, IsList
    <2> QED
      BY <2>3, <2>4, <2>6
  <1> HIDE DEF s
  <1>10. /\ m \in TimerList /\ m.head = h /\ m.tail = l.tail /\ m.next = s.next /\ m.expire = s.expire
         /\ \A x \in Timers : x # h => m.prev[x] = s.prev[x]
         /\ gone # {} /\ h # NULL => m.prev[h] = NULL
         /\ gone = {} => m.prev = s.prev
    <2>1. CASE gone = {} \/ h = NULL
      BY <1>4, <1>9, <2>1
    <2>2. CASE ~(gone = {} \/ h = NULL)
      <3>1. m = [s EXCEPT !.prev[h] = NULL]
        BY <1>4, <2>2
      <3>2. m = [head |-> m.head, tail |-> m.tail, next |-> m.next, prev |-> m.prev, expire |-> m.expire]
        BY <1>9, <3>1 DEF TimerList
      <3>3. m.head = s.head /\ m.tail = s.tail /\ m.next = s.next /\ m.expire = s.expire /\ m.prev = [s.prev EXCEPT ![h] = NULL]
        BY <1>9, <3>1 DEF TimerList
      <3>4. m.prev \in [Timers -> Links]
        <4>1. NULL \in Links /\ s.prev \in [Timers -> Links]
          BY <1>9, ListFacts DEF Links
        <4> QED
          BY <3>3, <4>1
      <3>5. m \in TimerList
        BY <1>9, <3>2, <3>3, <3>4, IsList, ListFacts
      <3>6. h \in Timers
        BY <1>1, <1>5, <2>2
      <3> QED
        BY <1>9, <2>2, <3>3, <3>5, <3>6, ListFacts
    <2> QED
      BY <2>1, <2>2
  <1>11. /\ \A x \in B : m.next[x] = l.next[x] /\ m.expire[x] = l.expire[x] /\ (x # h => m.prev[x] = l.prev[x])
         /\ \A x \in Timers \ B : m.next[x] = Freed
    BY <1>1, <1>8, <1>9, <1>10
  <1>12. \A x \in B : l.next[x] \in B \cup {NULL}
    <2> SUFFICES ASSUME NEW x \in B, l.next[x] # NULL PROVE l.next[x] \in B
      OBVIOUS
    <2>1. l.next[x] \in C /\ l.expire[x] <= l.expire[l.next[x]]
      BY <1>1, <1>2 DEF Chain
    <2> QED
      BY <1>1, <2>1
  <1>13. Chain(m.next, B, r)
    <2>1. \A x \in B : m.next[x] \in B \cup {NULL}
      BY <1>11, <1>12
    <2>2. \A x \in B : m.next[x] \in B => r[m.next[x]] < r[x] /\ \A y \in B : r[x] <= r[y] \/ r[y] <= r[m.next[x]]
      BY <1>1, <1>11 DEF Chain
    <2>3. \A x \in B : m.next[x] = NULL => \A y \in B : r[x] <= r[y]
      BY <1>1, <1>11 DEF Chain
    <2>4. \A x, y \in B : r[x] = r[y] => x = y
      BY <1>1 DEF Chain
    <2>5. m.next \in [Timers -> Links] /\ B \in SUBSET Timers
      BY <1>1, <1>10, ListFacts
    <2> QED
      BY <1>1, <1>11, <2>1, <2>2, <2>3, <2>4, <2>5 DEF Chain
  <1>14. Back(m, B, r)
    <2>1. CASE B = {}
      BY <1>5, <1>10, <2>1 DEF Back
    <2>2. CASE B # {}
      <3>1. h \in B /\ h \in C /\ m.head = h
        BY <1>5, <1>10, <2>2
      <3>2. \A y \in B : r[y] <= r[h]
        BY <1>1, <1>5, <3>1
      <3>3. m.tail \in B /\ m.next[m.tail] = NULL
        <4>1. l.tail \in C /\ l.next[l.tail] = NULL
          BY <1>2, <3>1
        <4>2. r[l.tail] <= r[h]
          BY <1>1, <3>1, <4>1 DEF Chain
        <4>3. l.tail \in B
          BY <1>5, <1>1, <3>1, <4>1, <4>2
        <4> QED
          BY <1>10, <1>11, <4>1, <4>3
      <3>4. HeadBack(m.prev[h], h)
        <4>1. CASE gone # {}
          BY <1>1, <1>10, <3>1, <4>1, HeadNull
        <4>2. CASE gone = {}
          <5>1. l.head \in C /\ l.head \in B
            BY <1>2, <1>8, <3>1, <4>2
          <5>2. r[l.head] <= r[h] /\ r[h] <= r[l.head]
            BY <1>2, <3>1, <3>2, <5>1
          <5>3. h = l.head
            <6>1. r[h] = r[l.head]
              BY <1>1, <3>1, <5>1, <5>2
            <6> QED
              BY <1>1, <3>1, <5>1, <6>1 DEF Chain
          <5> QED
            BY <1>1, <1>2, <1>9, <1>10, <3>1, <4>2, <5>3
        <4> QED
          BY <4>1, <4>2
      <3>5. ASSUME NEW x \in B, x # h PROVE m.prev[x] \in B /\ m.next[m.prev[x]] = x
        <4>1. r[x] <= r[h] /\ r[x] # r[h] /\ r[h] <= r[l.head]
          BY <1>1, <1>2, <3>1, <3>2, <3>5 DEF Chain
        <4>2. x # l.head
          BY <1>1, <3>1, <4>1
        <4>3. l.prev[x] \in C /\ l.next[l.prev[x]] = x
          BY <1>2, <4>2
        <4>4. r[l.prev[x]] <= r[h] \/ r[h] <= r[x]
          <5>1. r[l.prev[x]] <= r[h] \/ r[h] <= r[l.next[l.prev[x]]]
            BY <1>1, <3>1, <4>3 DEF Chain
          <5> QED
            BY <4>3, <5>1
        <4>5. l.prev[x] \in B
          BY <1>1, <1>5, <3>1, <4>1, <4>3, <4>4
        <4> QED
          BY <1>11, <3>5, <4>3, <4>5
      <3>6. \A x \in B : m.next[x] \in B => m.expire[x] <= m.expire[m.next[x]]
        BY <1>2, <1>11
      <3> QED
        BY <2>2, <3>1, <3>2, <3>3, <3>4, <3>5, <3>6 DEF Back
    <2> QED
      BY <2>1, <2>2
  <1>15. Linked(m, B, r)
    BY <1>10, <1>13, <1>14 DEF Linked
  <1>16. Members(m) = B
    BY <1>15, AllMembers
  <1> QED
    BY <1>3, <1>11, <1>15, <1>16

-----------------------------------------------------------------------------
(* What the calls do, told without the heights: a list is sound when some  *)
(* heights link the timers that were not deleted.                          *)
HungOn(l) == {t \in Timers : l.next[t] # Freed}
ListSound(l) == \E r : Linked(l, HungOn(l), r)

Adding(l, t, e, m) == /\ ListSound(m) /\ HungOn(m) = HungOn(l) \cup {t} /\ m.expire[t] = e
                      /\ \A x \in HungOn(l) : m.expire[x] = l.expire[x]
Moving(l, t, e, m) == /\ ListSound(m) /\ HungOn(m) = HungOn(l) /\ m.expire[t] = e
                      /\ \A x \in HungOn(l) \ {t} : m.expire[x] = l.expire[x]
Removing(l, t, m)  == /\ ListSound(m) /\ HungOn(m) = HungOn(l) \ {t}
                      /\ \A x \in HungOn(m) : m.expire[x] = l.expire[x]
Ticking(l, cur, m) == /\ ListSound(m) /\ HungOn(m) = {x \in HungOn(l) : cur < l.expire[x]}
                      /\ \A x \in HungOn(m) : m.expire[x] = l.expire[x]
                      /\ Members(l) \ Members(m) = {x \in HungOn(l) : l.expire[x] <= cur}

(* The timers of a linked list are those whose next is not Freed. *)
LEMMA LinkedHangs ==
  ASSUME NamesOk, NEW l, NEW C, NEW r, Linked(l, C, r), \A x \in Timers \ C : l.next[x] = Freed
  PROVE  C = HungOn(l) /\ ListSound(l)
  <1>1. C \in SUBSET Timers /\ \A x \in C : l.next[x] \in C \cup {NULL}
    BY LinkedFacts DEF Linked, Chain
  <1>2. \A x \in C : l.next[x] # Freed
    BY <1>1, Names
  <1>3. C = HungOn(l)
    BY <1>1, <1>2 DEF HungOn
  <1> QED
    BY <1>3, Zenon DEF ListSound

(* The types of a sound list. *)
LEMMA SoundFacts ==
  ASSUME NamesOk, NEW l, ListSound(l)
  PROVE  /\ HungOn(l) \in SUBSET Timers /\ l.expire \in [Timers -> Int]
         /\ \A x \in Timers \ HungOn(l) : l.next[x] = Freed
         /\ Members(l) = HungOn(l)
  <1>1. PICK r : Linked(l, HungOn(l), r)
    BY DEF ListSound
  <1>2. HungOn(l) \in SUBSET Timers /\ \A x \in Timers \ HungOn(l) : l.next[x] = Freed
    BY DEF HungOn
  <1> DEFINE C == HungOn(l)
  <1>3. Linked(l, C, r)
    BY <1>1
  <1> HIDE DEF C
  <1>4. Members(l) = C /\ l.expire \in [Timers -> Int]
    BY <1>3, AllMembers, LinkedFacts
  <1> QED
    BY <1>2, <1>4 DEF C

(* The list is constructed empty. *)
LEMMA SoundEmpty == NamesOk => ListSound(Empty) /\ HungOn(Empty) = {}
  <1> SUFFICES ASSUME NamesOk PROVE ListSound(Empty) /\ HungOn(Empty) = {}
    OBVIOUS
  <1> DEFINE r == [t \in Timers |-> 0]
             l == Empty
  <1>1. /\ l = [head |-> l.head, tail |-> l.tail, next |-> l.next, prev |-> l.prev, expire |-> l.expire]
        /\ l.head = NULL /\ l.tail = NULL /\ l.next = [t \in Timers |-> Freed] /\ l.prev = [t \in Timers |-> Freed]
        /\ l.expire = [t \in Timers |-> 0]
    BY DEF Empty
  <1> HIDE DEF l
  <1>2. l.next \in [Timers -> Links] /\ l.prev \in [Timers -> Links] /\ l.expire \in [Timers -> Int]
    BY <1>1 DEF Links
  <1>3. l \in TimerList
    BY <1>1, <1>2, IsList
  <1>4. Chain(l.next, {}, r)
    BY <1>1, <1>2 DEF Chain
  <1>5. Back(l, {}, r)
    BY <1>1 DEF Back
  <1> HIDE DEF r
  <1>6. Linked(l, {}, r) /\ \A x \in Timers \ {} : l.next[x] = Freed
    BY <1>1, <1>3, <1>4, <1>5 DEF Linked
  <1>7. {} = HungOn(l) /\ ListSound(l)
    BY <1>6, LinkedHangs
  <1> QED
    BY <1>7 DEF l

(* A sound list is linked and sorted as ListLinked states. *)
LEMMA SoundLinked == NamesOk /\ ListSound(list) => ListLinked
  <1> SUFFICES ASSUME NamesOk, ListSound(list) PROVE ListLinked
    OBVIOUS
  <1> DEFINE M == HungOn(list)
  <1>1. PICK r : Linked(list, M, r)
    BY DEF ListSound
  <1>2. Members(list) = M /\ M = {t \in Timers : list.next[t] # Freed}
    BY SoundFacts DEF HungOn
  <1> HIDE DEF M
  <1>3. Chain(list.next, M, r) /\ Back(list, M, r) /\ NULL \notin M
    BY <1>1, LinkedFacts
  <1>4. \A t \in M : list.next[t] \in M \cup {NULL}
    BY <1>3 DEF Chain
  <1>5. list.head # NULL => M # {}
    BY <1>3 DEF Back
  <1>6. list.head # NULL => list.tail \in M /\ list.next[list.tail] = NULL /\ HeadBack(list.prev[list.head], list.head)
    BY <1>3, <1>5 DEF Back
  <1>7. \A t \in M \ {list.head} : list.prev[t] \in M /\ list.next[list.prev[t]] = t
    BY <1>3 DEF Back
  <1>8. \A t \in M : list.next[t] # NULL => list.expire[t] <= list.expire[list.next[t]]
    BY <1>3, <1>4 DEF Back
  <1>9. list.head # NULL => list.prev[list.head] \in {NULL} \cup (IF Returns THEN {} ELSE {list.head})
    BY <1>6 DEF HeadBack
  <1> QED
    BY <1>2, <1>6, <1>7, <1>8, <1>9 DEF ListLinked

(* add_timer, adjust_timer, del_timer and tick on a sound list. *)
LEMMA SoundAdd ==
  ASSUME NamesOk, NEW l, ListSound(l), NEW t \in Timers, t \notin HungOn(l), NEW e \in Int,
         NEW m, m = add_timer(New(l, t, e), t)
  PROVE  Adding(l, t, e, m)
  <1> DEFINE C == HungOn(l)
             D == C \cup {t}
  <1>1. PICK r : Linked(l, C, r)
    BY DEF ListSound
  <1>2. C \in SUBSET Timers /\ l.expire \in [Timers -> Int] /\ (\A x \in Timers \ C : l.next[x] = Freed) /\ t \in Timers \ C
    BY SoundFacts
  <1> HIDE DEF C
  <1>3. Grown(m, l, C, t, e)
    BY <1>1, <1>2, AddKeeps
  <1>4. PICK q : Linked(m, D, q)
    BY <1>3 DEF Grown
  <1>5. m.expire = [l.expire EXCEPT ![t] = e] /\ \A x \in Timers \ D : m.next[x] = Freed
    BY <1>2, <1>3 DEF Grown
  <1>6. m.expire[t] = e /\ \A x \in C : m.expire[x] = l.expire[x]
    BY <1>2, <1>5
  <1> HIDE DEF D
  <1>7. D = HungOn(m) /\ ListSound(m)
    BY <1>4, <1>5, LinkedHangs
  <1> QED
    BY <1>6, <1>7 DEF Adding, C, D

LEMMA SoundMove ==
  ASSUME NamesOk, NEW l, ListSound(l), NEW t \in HungOn(l), NEW e \in Int, l.expire[t] <= e,
         NEW m, m = adjust_timer([l EXCEPT !.expire[t] = e], t)
  PROVE  Moving(l, t, e, m)
  <1> DEFINE C == HungOn(l)
  <1>1. PICK r : Linked(l, C, r)
    BY DEF ListSound
  <1>2. C \in SUBSET Timers /\ l.expire \in [Timers -> Int] /\ (\A x \in Timers \ C : l.next[x] = Freed) /\ t \in C
    BY SoundFacts
  <1> HIDE DEF C
  <1>3. /\ \E q : Linked(m, C, q)
        /\ m.expire = [l.expire EXCEPT ![t] = e] /\ \A x \in Timers \ C : m.next[x] = Freed
    BY <1>1, <1>2, AdjustKeeps
  <1>4. m.expire[t] = e /\ \A x \in C \ {t} : m.expire[x] = l.expire[x]
    BY <1>2, <1>3
  <1>5. C = HungOn(m) /\ ListSound(m)
    BY <1>3, LinkedHangs
  <1> QED
    BY <1>4, <1>5 DEF Moving, C

LEMMA SoundRemove ==
  ASSUME NamesOk, NEW l, ListSound(l), NEW t \in HungOn(l), NEW m, m = del_timer(l, t)
  PROVE  Removing(l, t, m)
  <1> DEFINE C == HungOn(l)
             D == C \ {t}
  <1>1. PICK r : Linked(l, C, r)
    BY DEF ListSound
  <1>2. C \in SUBSET Timers /\ (\A x \in Timers \ C : l.next[x] = Freed) /\ t \in C
    BY SoundFacts
  <1> HIDE DEF C
  <1>3. /\ Linked(m, C \ {t}, r) /\ m.next[t] = Freed
        /\ \A x \in C \ {t} : m.expire[x] = l.expire[x]
        /\ \A x \in Timers \ C : m.next[x] = Freed
    BY <1>1, <1>2, DelKeeps
  <1>4. Linked(m, D, r) /\ (\A x \in Timers \ D : m.next[x] = Freed) /\ \A x \in D : m.expire[x] = l.expire[x]
    BY <1>3
  <1> HIDE DEF D
  <1>5. D = HungOn(m) /\ ListSound(m)
    BY <1>4, LinkedHangs
  <1> QED
    BY <1>4, <1>5 DEF Removing, C, D

LEMMA SoundTick ==
  ASSUME NamesOk, NEW l, ListSound(l), NEW cur \in Int, NEW m, m = tick(l, cur)
  PROVE  Ticking(l, cur, m)
  <1> DEFINE C == HungOn(l)
             D == {x \in C : cur < l.expire[x]}
  <1>1. PICK r : Linked(l, C, r)
    BY DEF ListSound
  <1>2. C \in SUBSET Timers /\ l.expire \in [Timers -> Int] /\ (\A x \in Timers \ C : l.next[x] = Freed)
    BY SoundFacts
  <1> HIDE DEF C
  <1>3. D = {x \in C : cur < l.expire[x]}
    OBVIOUS
  <1> HIDE DEF D
  <1>4. /\ Linked(m, D, r) /\ \A x \in Timers \ D : m.next[x] = Freed
        /\ \A x \in D : m.expire[x] = l.expire[x]
        /\ Members(l) = C /\ Members(m) = D
    BY <1>1, <1>2, <1>3, TickKeeps
  <1>5. D = HungOn(m) /\ ListSound(m)
    BY <1>4, LinkedHangs
  <1>6. C \ D = {x \in C : l.expire[x] <= cur}
    <2>1. \A x \in C : l.expire[x] \in Int
      BY <1>2
    <2> QED
      BY <1>3, <2>1
  <1> QED
    BY <1>3, <1>4, <1>5, <1>6 DEF Ticking, C
=============================================================================
