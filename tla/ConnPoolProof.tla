--------------------------- MODULE ConnPoolProof ---------------------------
(***************************************************************************)
(* The connection pool keeps its accounts, for any finite sets of threads  *)
(* and of connections: a connection is never in two places, and until the  *)
(* pool is destroyed whoever passed the semaphore finds one in the list.   *)
(***************************************************************************)
EXTENDS ConnPool, FiniteSetTheorems, TLAPS

Places == {"idle", "wait", "take", "using", "post", "undefined"}

(* The types the proof needs; that reserve is bounded is not among them. *)
PoolType ==
    /\ connList \in Seq(Conns)
    /\ m_FreeConn \in Int /\ m_CurConn \in Int /\ reserve \in Nat
    /\ pc \in [Threads -> Places]
    /\ conRAII \in [Threads -> Conns \cup {NULL}]
    /\ destroyed \in BOOLEAN /\ closed \subseteq Conns

(* Only between TakeFront and ReleasePush does a thread hold a connection. *)
HeldInUse == \A t \in Threads : conRAII[t] # NULL => pc[t] = "using"

Holders == {t \in Threads : conRAII[t] # NULL}

PoolInv == PoolType /\ HeldInUse /\ PoolSound

-----------------------------------------------------------------------------
(* Two sets of threads that differ in one thread at most have              *)
(* cardinalities that differ accordingly.                                  *)
LEMMA OneChanges ==
  ASSUME NEW P \in SUBSET Threads, NEW Q \in SUBSET Threads, NEW t \in Threads,
         \A u \in Threads \ {t} : u \in P <=> u \in Q
  PROVE  /\ Cardinality(P) \in Nat /\ Cardinality(Q) \in Nat
         /\ Cardinality(Q) = Cardinality(P) + (IF t \in Q THEN 1 ELSE 0) - (IF t \in P THEN 1 ELSE 0)
         /\ t \in P => Cardinality(P) > 0
  <1>1. IsFiniteSet(P) /\ IsFiniteSet(Q)
    BY FS_Subset, ConnAssumption
  <1>2. Cardinality(P \ {t}) = Cardinality(Q \ {t})
    <2>1. P \ {t} = Q \ {t}
      OBVIOUS
    <2> QED
      BY <2>1
  <1>3. Cardinality(P \ {t}) = (IF t \in P THEN Cardinality(P) - 1 ELSE Cardinality(P))
    BY <1>1, FS_RemoveElement
  <1>4. Cardinality(Q \ {t}) = (IF t \in Q THEN Cardinality(Q) - 1 ELSE Cardinality(Q))
    BY <1>1, FS_RemoveElement
  <1>5. Cardinality(P) \in Nat /\ Cardinality(Q) \in Nat /\ Cardinality(P \ {t}) \in Nat
    BY <1>1, FS_CardinalityType, FS_RemoveElement
  <1> QED
    <2> DEFINE p == Cardinality(P)
               q == Cardinality(Q)
               r == Cardinality(P \ {t})
    <2>1. p \in Nat /\ q \in Nat /\ r \in Nat
      BY <1>5
    <2>2. r = (IF t \in P THEN p - 1 ELSE p) /\ r = (IF t \in Q THEN q - 1 ELSE q)
      BY <1>2, <1>3, <1>4
    <2> HIDE DEF p, q, r
    <2>3. q = p + (IF t \in Q THEN 1 ELSE 0) - (IF t \in P THEN 1 ELSE 0) /\ (t \in P => p > 0)
      BY <2>1, <2>2
    <2> QED
      BY <2>1, <2>3 DEF p, q

(* What moving one thread does to the counts of CountsAgree. *)
LEMMA PcCounts ==
  ASSUME PoolType, NEW t \in Threads, NEW b \in Places, Goto(t, b), NEW s \in Places
  PROVE  /\ Cardinality(At(s)) \in Nat
         /\ Cardinality(At(s))' = Cardinality(At(s)) + (IF b = s THEN 1 ELSE 0) - (IF pc[t] = s THEN 1 ELSE 0)
         /\ pc[t] = s => Cardinality(At(s)) > 0
  <1>1. At(s) \in SUBSET Threads /\ At(s)' \in SUBSET Threads
    BY DEF At
  <1>2. \A u \in Threads \ {t} : u \in At(s) <=> u \in At(s)'
    BY DEF At, Goto, PoolType
  <1>3. (t \in At(s)' <=> b = s) /\ (t \in At(s) <=> pc[t] = s)
    BY DEF At, Goto, PoolType
  <1> QED
    BY <1>1, <1>2, <1>3, OneChanges

LEMMA HolderCounts ==
  ASSUME PoolType, NEW t \in Threads, NEW c \in Conns \cup {NULL}, conRAII' = [conRAII EXCEPT ![t] = c]
  PROVE  /\ Cardinality(Holders) \in Nat
         /\ Cardinality(Holders)' = Cardinality(Holders) + (IF c # NULL THEN 1 ELSE 0) - (IF conRAII[t] # NULL THEN 1 ELSE 0)
  <1>1. Holders \in SUBSET Threads /\ Holders' \in SUBSET Threads
    BY DEF Holders
  <1>2. \A u \in Threads \ {t} : u \in Holders <=> u \in Holders'
    BY DEF Holders, PoolType
  <1>3. (t \in Holders' <=> c # NULL) /\ (t \in Holders <=> conRAII[t] # NULL)
    BY DEF Holders, PoolType
  <1> QED
    BY <1>1, <1>2, <1>3, OneChanges

-----------------------------------------------------------------------------
(* connection_pool::init puts every connection in the list once. *)
LEMMA InitList ==
  /\ Cardinality(Conns) \in Nat
  /\ SetToSeq(Conns) \in Seq(Conns) /\ Len(SetToSeq(Conns)) = Cardinality(Conns)
  /\ \A i, j \in DOMAIN SetToSeq(Conns) : i # j => SetToSeq(Conns)[i] # SetToSeq(Conns)[j]
  <1> DEFINE n == Cardinality(Conns)
             q == SetToSeq(Conns)
  <1>1. n \in Nat /\ ExistsBijection(1 .. n, Conns)
    BY FS_CardinalityType, ConnAssumption
  <1>2. \E f \in [1 .. n -> Conns] : IsInjective(f)
    BY <1>1 DEF ExistsBijection, Bijection, Injection, IsInjective
  <1>3. q \in [1 .. n -> Conns] /\ IsInjective(q)
    BY <1>2 DEF SetToSeq
  <1>4. \A i, j \in 1 .. n : i # j => q[i] # q[j]
    BY <1>3 DEF IsInjective
  <1> HIDE DEF n, q
  <1>5. q \in Seq(Conns) /\ Len(q) = n /\ DOMAIN q = 1 .. n
    BY <1>1, <1>3
  <1> QED
    BY <1>1, <1>4, <1>5 DEF n, q

LEMMA PoolInit == Init => PoolInv
  <1> SUFFICES ASSUME Init PROVE PoolInv
    OBVIOUS
  <1>1. PoolType
    <2>1. /\ connList \in Seq(Conns)
          /\ m_FreeConn \in Int /\ m_CurConn \in Int /\ reserve \in Nat
      BY InitList DEF Init
    <2>2. /\ pc \in [Threads -> Places]
          /\ conRAII \in [Threads -> Conns \cup {NULL}]
          /\ destroyed \in BOOLEAN /\ closed \subseteq Conns
      BY DEF Init, Places
    <2> QED
      BY <2>1, <2>2 DEF PoolType
  <1>2. HeldInUse
    BY DEF Init, HeldInUse
  <1>3. ConnExclusive
    <2>1. Range(connList) \subseteq Conns /\ closed = {}
      BY <1>1 DEF PoolType, Range, Init
    <2>2. \A t \in Threads : \A i \in DOMAIN connList : connList[i] # conRAII[t]
      BY <1>1, ConnAssumption DEF PoolType, Init
    <2> QED
      BY <2>1, <2>2, InitList DEF Init, ConnExclusive
  <1>4. At("take") = {} /\ At("post") = {} /\ Holders = {}
    BY DEF Init, At, Holders
  <1>5. CountsAgree
    <2>1. Cardinality(At("take")) = 0 /\ Cardinality(At("post")) = 0 /\ Cardinality(Holders) = 0
      BY <1>4, FS_EmptySet
    <2> QED
      BY <2>1, InitList DEF Init, CountsAgree, Holders
  <1> QED
    BY <1>1, <1>2, <1>3, <1>5 DEF PoolInv, PoolSound

-----------------------------------------------------------------------------
(* A call of GetConnection or ReleaseConnection that neither changes the   *)
(* list nor who holds what: the first tests, the two halves of the         *)
(* semaphore, and a release of nothing.                                    *)
Quiet(t, b) == /\ Goto(t, b) /\ b \in Places \ {"using"} /\ conRAII[t] = NULL
               /\ UNCHANGED <<connList, m_FreeConn, m_CurConn, conRAII, destroyed, closed>>

(* Such a step keeps exclusion; the counts are kept when the semaphore     *)
(* moves by as much as the threads behind it.                              *)
LEMMA QuietKeeps ==
  ASSUME PoolInv, NEW t \in Threads, NEW b, Quiet(t, b), reserve' \in Nat,
         ~destroyed => reserve' + Cardinality(At("take"))' + Cardinality(At("post"))'
                        = reserve + Cardinality(At("take")) + Cardinality(At("post"))
  PROVE  PoolInv'
  <1> USE DEF PoolInv, PoolSound
  <1>1. PoolType'
    <2>1. pc' \in [Threads -> Places]
      BY DEF Quiet, Goto, PoolType
    <2> QED
      BY <2>1 DEF Quiet, PoolType
  <1>2. HeldInUse'
    BY DEF Quiet, Goto, HeldInUse, PoolType
  <1>3. ConnExclusive'
    BY DEF Quiet, ConnExclusive
  <1>4. CountsAgree'
    BY DEF Quiet, CountsAgree
  <1> QED
    BY <1>1, <1>2, <1>3, <1>4

LEMMA GetFindsNoneKeeps == ASSUME PoolInv, NEW t \in Threads, GetFindsNone(t) PROVE PoolInv'
  <1> USE DEF PoolInv, PoolSound
  <1>1. conRAII[t] = NULL /\ conRAII' = conRAII
    BY DEF GetFindsNone, HeldInUse, PoolType
  <1>2. PoolType'
    <2>1. pc' \in [Threads -> Places]
      BY DEF GetFindsNone, Goto, PoolType, Places
    <2> QED
      BY <1>1, <2>1 DEF GetFindsNone, PoolType
  <1>3. HeldInUse'
    BY <1>1 DEF GetFindsNone, Goto, HeldInUse, PoolType
  <1>4. ConnExclusive'
    BY <1>1 DEF GetFindsNone, ConnExclusive
  <1>5. /\ Cardinality(At("take"))' = Cardinality(At("take"))
        /\ Cardinality(At("post"))' = Cardinality(At("post"))
    BY PcCounts DEF GetFindsNone, Places
  <1>6. CountsAgree'
    BY <1>1, <1>5 DEF GetFindsNone, CountsAgree
  <1> QED
    BY <1>2, <1>3, <1>4, <1>6

LEMMA GetFindsSomeKeeps == ASSUME PoolInv, NEW t \in Threads, GetFindsSome(t) PROVE PoolInv'
  <1>1. Quiet(t, "wait") /\ reserve' = reserve
    BY DEF GetFindsSome, Quiet, PoolInv, HeldInUse, Places
  <1>2. /\ Cardinality(At("take"))' = Cardinality(At("take"))
        /\ Cardinality(At("post"))' = Cardinality(At("post"))
    BY PcCounts DEF GetFindsSome, PoolInv, Places
  <1> QED
    BY <1>1, <1>2, QuietKeeps DEF PoolInv, PoolType

LEMMA ReserveWaitKeeps == ASSUME PoolInv, NEW t \in Threads, ReserveWait(t) PROVE PoolInv'
  <1>1. Quiet(t, "take") /\ reserve' = reserve - 1 /\ reserve > 0 /\ reserve \in Nat
    BY DEF ReserveWait, Quiet, PoolInv, HeldInUse, Places, PoolType
  <1>2. /\ Cardinality(At("take")) \in Nat /\ Cardinality(At("post")) \in Nat
        /\ Cardinality(At("take"))' = Cardinality(At("take")) + 1
        /\ Cardinality(At("post"))' = Cardinality(At("post"))
    BY PcCounts DEF ReserveWait, PoolInv, Places
  <1>3. /\ reserve' + Cardinality(At("take"))' + Cardinality(At("post"))'
            = reserve + Cardinality(At("take")) + Cardinality(At("post"))
        /\ reserve' \in Nat
    BY <1>1, <1>2
  <1> QED
    BY <1>1, <1>3, QuietKeeps

LEMMA ReleaseNullKeeps == ASSUME PoolInv, NEW t \in Threads, ReleaseNull(t) PROVE PoolInv'
  <1>1. Quiet(t, "idle") /\ reserve' = reserve
    BY DEF ReleaseNull, Quiet, Places
  <1>2. /\ Cardinality(At("take"))' = Cardinality(At("take"))
        /\ Cardinality(At("post"))' = Cardinality(At("post"))
    BY PcCounts DEF ReleaseNull, PoolInv, Places
  <1> QED
    BY <1>1, <1>2, QuietKeeps DEF PoolInv, PoolType

LEMMA ReservePostKeeps == ASSUME PoolInv, NEW t \in Threads, ReservePost(t) PROVE PoolInv'
  <1>1. Quiet(t, "idle") /\ reserve' = reserve + 1 /\ reserve \in Nat
    BY DEF ReservePost, Quiet, PoolInv, HeldInUse, Places, PoolType
  <1>2. /\ Cardinality(At("take")) \in Nat /\ Cardinality(At("post")) \in Nat
        /\ Cardinality(At("take"))' = Cardinality(At("take"))
        /\ Cardinality(At("post"))' = Cardinality(At("post")) - 1
    BY PcCounts DEF ReservePost, PoolInv, Places
  <1>3. /\ reserve' + Cardinality(At("take"))' + Cardinality(At("post"))'
            = reserve + Cardinality(At("take")) + Cardinality(At("post"))
        /\ reserve' \in Nat
    BY <1>1, <1>2
  <1> QED
    BY <1>1, <1>3, QuietKeeps

(* The critical section of GetConnection.  In an open pool the accounts    *)
(* say that the list is not empty.                                         *)
LEMMA TakeFrontKeeps == ASSUME PoolInv, NEW t \in Threads, TakeFront(t) PROVE PoolInv'
  <1> USE DEF PoolInv, PoolSound
  <1>0. pc[t] = "take" /\ conRAII[t] = NULL /\ UNCHANGED <<reserve, destroyed, closed>>
    BY DEF TakeFront, HeldInUse
  <1>1. CASE connList # <<>>
    <2> DEFINE c == Head(connList)
    <2>1. /\ Goto(t, "using") /\ conRAII' = [conRAII EXCEPT ![t] = c]
          /\ connList' = Tail(connList)
          /\ m_FreeConn' = m_FreeConn - 1 /\ m_CurConn' = m_CurConn + 1
      BY <1>1 DEF TakeFront
    <2>2. /\ c \in Conns /\ c = connList[1] /\ 1 \in DOMAIN connList
          /\ connList' \in Seq(Conns) /\ Len(connList') = Len(connList) - 1
          /\ \A i \in DOMAIN connList' : i + 1 \in DOMAIN connList /\ i + 1 # 1 /\ connList'[i] = connList[i + 1]
      BY <1>1, <2>1 DEF PoolType
    <2>3. c # NULL
      BY <2>2, ConnAssumption
    <2> HIDE DEF c
    <2>4. PoolType'
      <3>1. pc' \in [Threads -> Places]
        BY <2>1 DEF Goto, PoolType, Places
      <3>2. conRAII' \in [Threads -> Conns \cup {NULL}]
        BY <2>1, <2>2 DEF PoolType
      <3> QED
        BY <1>0, <2>1, <2>2, <3>1, <3>2 DEF PoolType
    <2>5. HeldInUse'
      BY <2>1 DEF Goto, HeldInUse, PoolType
    <2>6. ConnExclusive'
      <3>1. \A u \in Threads : conRAII[u] # c
        BY <2>2 DEF ConnExclusive
      <3>2. conRAII'[t] = c /\ \A u \in Threads \ {t} : conRAII'[u] = conRAII[u]
        BY <2>1 DEF PoolType
      <3>3. \A u, v \in Threads : u # v /\ conRAII'[u] # NULL => conRAII'[u] # conRAII'[v]
        BY <2>3, <3>1, <3>2 DEF ConnExclusive
      <3>4. \A u \in Threads : \A i \in DOMAIN connList' : connList'[i] # conRAII'[u]
        BY <2>2, <3>2 DEF ConnExclusive
      <3>5. \A i, j \in DOMAIN connList' : i # j => connList'[i] # connList'[j]
        BY <2>2, <2>4 DEF ConnExclusive, PoolType
      <3>6. Range(connList') \subseteq Range(connList) /\ c \in Range(connList)
        BY <2>2 DEF Range
      <3>7. Range(conRAII') \subseteq Range(conRAII) \cup {c}
        BY <2>1 DEF Range, PoolType
      <3>8. \A d \in closed' : d \notin Range(connList') \cup Range(conRAII')
        BY <1>0, <3>6, <3>7 DEF ConnExclusive
      <3> QED
        BY <3>3, <3>4, <3>5, <3>8 DEF ConnExclusive
    <2>7. CountsAgree'
      <3> SUFFICES ASSUME ~destroyed
                   PROVE  /\ Len(connList') = reserve + Cardinality(At("take"))' + Cardinality(At("post"))'
                          /\ m_FreeConn' = Len(connList') /\ m_CurConn' = Cardinality(Holders)'
        BY <1>0 DEF CountsAgree, Holders
      <3>1. /\ Cardinality(At("take")) \in Nat /\ Cardinality(At("post")) \in Nat
            /\ Cardinality(At("take"))' = Cardinality(At("take")) - 1
            /\ Cardinality(At("post"))' = Cardinality(At("post"))
        BY <1>0, <2>1, PcCounts DEF Places
      <3>2. Cardinality(Holders)' = Cardinality(Holders) + 1 /\ Cardinality(Holders) \in Nat
        <4>1. /\ Cardinality(Holders) \in Nat
              /\ Cardinality(Holders)' = Cardinality(Holders) + (IF c # NULL THEN 1 ELSE 0)
                                                               - (IF conRAII[t] # NULL THEN 1 ELSE 0)
          BY <2>1, <2>2, HolderCounts
        <4> QED
          BY <1>0, <2>3, <4>1
      <3>3. /\ Len(connList) = reserve + Cardinality(At("take")) + Cardinality(At("post"))
            /\ m_FreeConn = Len(connList) /\ m_CurConn = Cardinality(Holders)
        BY DEF CountsAgree, Holders
      <3> QED
        BY <2>1, <2>2, <3>1, <3>2, <3>3 DEF PoolType
    <2> QED
      BY <2>4, <2>5, <2>6, <2>7
  <1>2. CASE connList = <<>>
    <2>1. Goto(t, "undefined") /\ UNCHANGED <<connList, m_FreeConn, m_CurConn, conRAII>>
      BY <1>2 DEF TakeFront
    <2>2. destroyed
      <3>1. Cardinality(At("take")) > 0 /\ Cardinality(At("take")) \in Nat /\ Cardinality(At("post")) \in Nat
        BY <1>0, <2>1, PcCounts DEF Places
      <3>2. Len(connList) = 0 /\ reserve \in Nat
        BY <1>2 DEF PoolType
      <3> QED
        BY <3>1, <3>2 DEF CountsAgree
    <2>3. Quiet(t, "undefined")
      BY <1>0, <2>1 DEF Quiet, Places
    <2> QED
      BY <1>0, <2>2, <2>3, QuietKeeps DEF PoolType
  <1> QED
    BY <1>1, <1>2

(* The critical section of ReleaseConnection. *)
LEMMA ReleasePushKeeps == ASSUME PoolInv, NEW t \in Threads, ReleasePush(t) PROVE PoolInv'
  <1> USE DEF PoolInv, PoolSound
  <1> DEFINE c == conRAII[t]
  <1>1. /\ Goto(t, "post") /\ conRAII' = [conRAII EXCEPT ![t] = NULL]
        /\ connList' = Append(connList, c) /\ pc[t] = "using" /\ c # NULL
        /\ m_FreeConn' = m_FreeConn + 1 /\ m_CurConn' = m_CurConn - 1
        /\ UNCHANGED <<reserve, destroyed, closed>>
    BY DEF ReleasePush
  <1>2. c \in Conns /\ c \in Range(conRAII)
    BY <1>1 DEF PoolType, Range
  <1>3. /\ connList' \in Seq(Conns) /\ Len(connList') = Len(connList) + 1
        /\ \A i \in DOMAIN connList' : \/ i = Len(connList) + 1 /\ connList'[i] = c
                                       \/ i \in DOMAIN connList /\ connList'[i] = connList[i]
    BY <1>1, <1>2 DEF PoolType
  <1>4. conRAII'[t] = NULL /\ \A u \in Threads \ {t} : conRAII'[u] = conRAII[u]
    BY <1>1 DEF PoolType
  <1>5. PoolType'
    <2>1. pc' \in [Threads -> Places]
      BY <1>1 DEF Goto, PoolType, Places
    <2>2. conRAII' \in [Threads -> Conns \cup {NULL}]
      BY <1>1 DEF PoolType
    <2> QED
      BY <1>1, <1>3, <2>1, <2>2 DEF PoolType
  <1>6. HeldInUse'
    BY <1>1, <1>4 DEF Goto, HeldInUse, PoolType
  <1>7. ConnExclusive'
    <2>1. \A u, v \in Threads : u # v /\ conRAII'[u] # NULL => conRAII'[u] # conRAII'[v]
      BY <1>4 DEF ConnExclusive
    <2>2. \A u \in Threads : \A i \in DOMAIN connList' : connList'[i] # conRAII'[u]
      <3>1. \A i \in DOMAIN connList' : connList'[i] # NULL
        BY <1>3, ConnAssumption
      <3>2. \A u \in Threads \ {t} : conRAII[u] # c
        BY <1>1 DEF ConnExclusive
      <3> QED
        BY <1>3, <1>4, <3>1, <3>2 DEF ConnExclusive
    <2>3. \A i, j \in DOMAIN connList' : i # j => connList'[i] # connList'[j]
      <3>1. \A i \in DOMAIN connList : connList[i] # c
        BY DEF ConnExclusive
      <3> QED
        BY <1>3, <3>1 DEF ConnExclusive
    <2>4. Range(connList') \subseteq Range(connList) \cup {c}
      BY <1>3 DEF Range
    <2>5. Range(conRAII') \subseteq Range(conRAII) \cup {NULL}
      BY <1>1 DEF Range, PoolType
    <2>6. \A d \in closed' : d \notin Range(connList') \cup Range(conRAII')
      BY <1>1, <1>2, <2>4, <2>5, ConnAssumption DEF ConnExclusive, PoolType
    <2> QED
      BY <2>1, <2>2, <2>3, <2>6 DEF ConnExclusive
  <1>8. CountsAgree'
    <2> SUFFICES ASSUME ~destroyed
                 PROVE  /\ Len(connList') = reserve + Cardinality(At("take"))' + Cardinality(At("post"))'
                        /\ m_FreeConn' = Len(connList') /\ m_CurConn' = Cardinality(Holders)'
      BY <1>1 DEF CountsAgree, Holders
    <2>1. /\ Cardinality(At("take")) \in Nat /\ Cardinality(At("post")) \in Nat
          /\ Cardinality(At("take"))' = Cardinality(At("take"))
          /\ Cardinality(At("post"))' = Cardinality(At("post")) + 1
      BY <1>1, PcCounts DEF Places
    <2>2. Cardinality(Holders)' = Cardinality(Holders) - 1 /\ Cardinality(Holders) \in Nat
      <3>1. /\ Cardinality(Holders) \in Nat
            /\ Cardinality(Holders)' = Cardinality(Holders) + (IF NULL # NULL THEN 1 ELSE 0)
                                                             - (IF conRAII[t] # NULL THEN 1 ELSE 0)
        BY <1>1, HolderCounts
      <3> QED
        BY <1>1, <3>1
    <2>3. /\ Len(connList) = reserve + Cardinality(At("take")) + Cardinality(At("post"))
          /\ m_FreeConn = Len(connList) /\ m_CurConn = Cardinality(Holders)
      BY DEF CountsAgree, Holders
    <2> QED
      BY <1>1, <1>3, <2>1, <2>2, <2>3 DEF PoolType
  <1> QED
    BY <1>5, <1>6, <1>7, <1>8

(* DestroyPool closes what is in the list, and only that. *)
LEMMA DestroyKeeps == ASSUME PoolInv, DestroyPool PROVE PoolInv'
  <1> USE DEF PoolInv, PoolSound
  <1>1. /\ connList' = <<>> /\ destroyed' = TRUE /\ closed' = Range(connList)
        /\ UNCHANGED <<reserve, pc, conRAII>>
    BY DEF DestroyPool
  <1>2. PoolType'
    <2>1. m_FreeConn' \in Int /\ m_CurConn' \in Int
      BY DEF DestroyPool, PoolType
    <2>2. closed' \subseteq Conns
      BY <1>1 DEF PoolType, Range
    <2> QED
      BY <1>1, <2>1, <2>2 DEF PoolType
  <1>3. HeldInUse'
    BY <1>1 DEF HeldInUse
  <1>4. ConnExclusive'
    <2>1. \A c \in closed' : c \notin Range(connList') \cup Range(conRAII')
      BY <1>1 DEF ConnExclusive, Range, PoolType
    <2> QED
      BY <1>1, <2>1 DEF ConnExclusive
  <1>5. CountsAgree'
    BY <1>1 DEF CountsAgree
  <1> QED
    BY <1>2, <1>3, <1>4, <1>5

LEMMA PoolStep == PoolInv /\ [Next]_poolVars => PoolInv'
  <1> SUFFICES ASSUME PoolInv, [Next]_poolVars PROVE PoolInv'
    OBVIOUS
  <1>1. CASE DestroyPool
    BY <1>1, DestroyKeeps
  <1>2. ASSUME NEW t \in Threads, GetConnection(t) PROVE PoolInv'
    BY <1>2, GetFindsNoneKeeps, GetFindsSomeKeeps, ReserveWaitKeeps, TakeFrontKeeps DEF GetConnection
  <1>3. ASSUME NEW t \in Threads, ReleaseConnection(t) PROVE PoolInv'
    BY <1>3, ReleaseNullKeeps, ReleasePushKeeps, ReservePostKeeps DEF ReleaseConnection
  <1>4. CASE UNCHANGED poolVars
    BY <1>4 DEF poolVars, PoolInv, PoolType, HeldInUse, PoolSound, ConnExclusive, CountsAgree, At, Range
  <1> QED
    BY <1>1, <1>2, <1>3, <1>4 DEF Next

(* GetConnection and ReleaseConnection never give a connection to two      *)
(* threads nor offer one that is used or closed, and as long as the pool   *)
(* is not destroyed its list, counters and semaphore agree: the test of    *)
(* connList outside the lock is harmless.                                  *)
THEOREM PoolKeepsAccounts == Spec => []PoolSound
  <1>1. PoolInv => PoolSound
    BY DEF PoolInv
  <1> QED
    BY <1>1, PoolInit, PoolStep, PTL DEF Spec

(* In an open pool a thread that passed the semaphore finds a connection,  *)
(* whatever the others did since it tested the list.                       *)
TakeFinds == ~destroyed => \A t \in Threads : pc[t] = "take" => connList # <<>>

(* front() and pop_front() of an empty list, which are undefined, are      *)
(* never reached in GetConnection before DestroyPool.                      *)
THEOREM NoEmptyFront == Spec => []TakeFinds
  <1>1. PoolInv => TakeFinds
    <2> SUFFICES ASSUME PoolInv, ~destroyed, NEW t \in Threads, pc[t] = "take" PROVE connList # <<>>
      BY DEF TakeFinds
    <2>1. At("take") \in SUBSET Threads /\ At("post") \in SUBSET Threads /\ t \in At("take")
      BY DEF At
    <2>2. Cardinality(At("take")) > 0 /\ Cardinality(At("take")) \in Nat
      BY <2>1, OneChanges
    <2>3. Cardinality(At("post")) \in Nat
      BY <2>1, OneChanges
    <2>4. Len(connList) # 0
      BY <2>2, <2>3 DEF PoolInv, PoolSound, PoolType, CountsAgree
    <2> QED
      BY <2>4
  <1> QED
    BY <1>1, PoolInit, PoolStep, PTL DEF Spec
=============================================================================
