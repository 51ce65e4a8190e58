-------------------- MODULE UnboundedLockFreeStackProofs --------------------
(***************************************************************************)
(* Proofs about UnboundedLockFreeStack: for any threads, up to 500 of them *)
(* (ThreadsAssumption), and any number of addresses, the two reference     *)
(* counts of AtomicSharedPtr together are the number of references to a    *)
(* block, so that a block is deleted exactly when the last reference to it *)
(* is gone.                                                                *)
(***************************************************************************)
EXTENDS UnboundedLockFreeStack, FunctionTheorems, FiniteSetTheorems, TLAPS

(***************************************************************************)
(* Sums over the threads.                                                  *)
(***************************************************************************)
(* What SumOf counts: f[t] pairs for each thread t.                        *)
Units(f) == UNION {{t} \X (1 .. f[t]) : t \in Threads}

(* The units of finitely many threads are finitely many.                   *)
LEMMA UnitsFinite ==
  ASSUME NEW f \in [Threads -> Nat]
  PROVE  IsFiniteSet(Units(f)) /\ SumOf(f) = Cardinality(Units(f)) /\ SumOf(f) \in Nat
<1> DEFINE Parts == {{t} \X (1 .. f[t]) : t \in Threads}
           g == [t \in Threads |-> {t} \X (1 .. f[t])]
<1>1. IsFiniteSet(Threads)
  BY BlocksAssumption
<1>2. g \in Surjection(Threads, Parts)
  BY DEF Surjection
<1>3. IsFiniteSet(Parts)
  BY <1>1, <1>2, FS_Surjection
<1>4. ASSUME NEW t \in Threads PROVE IsFiniteSet({t} \X (1 .. f[t]))
  <2>1. IsFiniteSet({t}) /\ IsFiniteSet(1 .. f[t])
    <3>1. IsFiniteSet({t})
      BY FS_Singleton
    <3>2. 1 \in Int /\ f[t] \in Int
      OBVIOUS
    <3>3. IsFiniteSet(1 .. f[t])
      BY <3>2, FS_Interval
    <3> QED BY <3>1, <3>3
  <2> QED BY <2>1, FS_Product
<1>5. \A P \in Parts : IsFiniteSet(P)
  BY <1>4
<1>6. IsFiniteSet(UNION Parts)
  BY <1>3, <1>5, FS_UNION
<1> QED BY <1>6, FS_CardinalityType DEF Units, SumOf

(* The part of one thread in a sum.                                        *)
LEMMA SumSplit ==
  ASSUME NEW f \in [Threads -> Nat], NEW t \in Threads
  PROVE  SumOf(f) = SumOf([f EXCEPT ![t] = 0]) + f[t]
<1> DEFINE z == [f EXCEPT ![t] = 0]
           Own == {t} \X (1 .. f[t])
<1>1. z \in [Threads -> Nat]
  OBVIOUS
<1>2. IsFiniteSet(Own) /\ Cardinality(Own) = f[t]
  <2>1. /\ IsFiniteSet({t}) /\ Cardinality({t}) = 1
        /\ IsFiniteSet(1 .. f[t]) /\ Cardinality(1 .. f[t]) = f[t]
    <3>1. IsFiniteSet({t}) /\ Cardinality({t}) = 1
      BY FS_Singleton
    <3>2. f[t] \in Nat
      OBVIOUS
    <3>3. /\ IsFiniteSet(1 .. f[t])
          /\ Cardinality(1 .. f[t]) = IF 1 > f[t] THEN 0 ELSE f[t] - 1 + 1
      BY <3>2, FS_Interval
    <3> QED BY <3>1, <3>2, <3>3
  <2>2. IsFiniteSet(Own) /\ Cardinality(Own) = Cardinality({t}) * Cardinality(1 .. f[t])
    BY <2>1, FS_Product
  <2> QED BY <2>1, <2>2
<1>3. ASSUME NEW g \in [Threads -> Nat], NEW x
      PROVE  x \in Units(g) <=> \E u \in Threads : x \in {u} \X (1 .. g[u])
  BY DEF Units
<1>4. Units(f) = Units(z) \cup Own
  <2>1. ASSUME NEW x \in Units(f) PROVE x \in Units(z) \cup Own
    <3>1. PICK u \in Threads : x \in {u} \X (1 .. f[u])
      BY <1>3
    <3>2. CASE u = t
      BY <3>1, <3>2
    <3>3. CASE u # t
      <4>1. z[u] = f[u]
        BY <3>3
      <4> QED BY <3>1, <4>1, <1>1, <1>3
    <3> QED BY <3>2, <3>3
  <2>2. ASSUME NEW x \in Units(z) PROVE x \in Units(f)
    <3>1. PICK u \in Threads : x \in {u} \X (1 .. z[u])
      BY <1>1, <1>3
    <3>2. u # t /\ z[u] = f[u]
      BY <3>1
    <3> QED BY <3>1, <3>2, <1>3
  <2>3. Own \subseteq Units(f)
    BY <1>3
  <2> QED BY <2>1, <2>2, <2>3
<1>5. Units(z) \cap Own = {}
  <2>1. SUFFICES ASSUME NEW x \in Units(z), x \in Own PROVE FALSE
    OBVIOUS
  <2>2. PICK u \in Threads : x \in {u} \X (1 .. z[u])
    BY <1>1, <1>3
  <2>3. u = t
    BY <2>1, <2>2
  <2> QED BY <2>2, <2>3
<1>6. Cardinality(Units(f)) = Cardinality(Units(z)) + f[t] - 0
  <2>1. /\ IsFiniteSet(Units(z)) /\ Cardinality(Units(z)) = SumOf(z) /\ SumOf(z) \in Nat
        /\ Cardinality({}) = 0
    BY <1>1, UnitsFinite, FS_EmptySet
  <2>2. Cardinality(Units(z) \cup Own)
          = Cardinality(Units(z)) + Cardinality(Own) - Cardinality(Units(z) \cap Own)
    <3>1. \A S, T : IsFiniteSet(S) /\ IsFiniteSet(T) =>
            Cardinality(S \cup T) = Cardinality(S) + Cardinality(T) - Cardinality(S \cap T)
      BY FS_Union
    <3> HIDE DEF z, Own
    <3> QED BY <1>2, <2>1, <3>1, Zenon
  <2> QED BY <1>2, <1>4, <1>5, <2>1, <2>2
<1>7. SumOf(f) = Cardinality(Units(f)) /\ SumOf(z) = Cardinality(Units(z)) /\ SumOf(z) \in Nat
  BY <1>1, UnitsFinite
<1>8. f[t] \in Nat
  OBVIOUS
<1> HIDE DEF z
<1>9. SumOf(f) = SumOf(z) + f[t]
  BY <1>6, <1>7, <1>8
<1> QED BY <1>9 DEF z

(* A sum changes as much as its only part that changes, and none of its    *)
(* parts is greater than the sum.                                          *)
LEMMA SumChanged ==
  ASSUME NEW f \in [Threads -> Nat], NEW g \in [Threads -> Nat], NEW t \in Threads,
         \A u \in Threads \ {t} : g[u] = f[u]
  PROVE  SumOf(g) = SumOf(f) - f[t] + g[t] /\ SumOf(f) >= f[t]
<1> DEFINE z == [f EXCEPT ![t] = 0]
<1>1. z = [g EXCEPT ![t] = 0] /\ z \in [Threads -> Nat]
  OBVIOUS
<1>2. SumOf(f) = SumOf(z) + f[t] /\ SumOf(g) = SumOf(z) + g[t]
  BY <1>1, SumSplit
<1> HIDE DEF z
<1>3. SumOf(z) \in Nat /\ f[t] \in Nat /\ g[t] \in Nat
  BY <1>1, UnitsFinite
<1> QED BY <1>2, <1>3

(* Two parts are not greater than the sum.                                 *)
LEMMA SumOfTwo ==
  ASSUME NEW f \in [Threads -> Nat], NEW t \in Threads, NEW u \in Threads, t # u
  PROVE  SumOf(f) >= f[t] + f[u]
<1> DEFINE z == [f EXCEPT ![t] = 0]
<1>1. z \in [Threads -> Nat] /\ z[u] = f[u]
  OBVIOUS
<1>2. SumOf(f) = SumOf(z) + f[t]
  BY SumSplit
<1>3. SumOf(z) >= z[u]
  BY <1>1, SumChanged
<1> HIDE DEF z
<1> QED BY <1>1, <1>2, <1>3, UnitsFinite

(* A sum of smaller parts is smaller, by the difference of two parts.      *)
LEMMA SumMonotone ==
  ASSUME NEW f \in [Threads -> Nat], NEW g \in [Threads -> Nat],
         \A u \in Threads : f[u] <= g[u]
  PROVE  SumOf(f) <= SumOf(g) /\ \A t \in Threads : SumOf(f) - f[t] <= SumOf(g) - g[t]
<1>1. ASSUME NEW p \in [Threads -> Nat], NEW q \in [Threads -> Nat],
             \A u \in Threads : p[u] <= q[u]
      PROVE  SumOf(p) <= SumOf(q)
  <2>1. Units(p) \subseteq Units(q)
    <3>1. SUFFICES ASSUME NEW x \in Units(p) PROVE x \in Units(q)
      OBVIOUS
    <3>2. PICK u \in Threads : x \in {u} \X (1 .. p[u])
      BY <3>1 DEF Units
    <3>3. 1 .. p[u] \subseteq 1 .. q[u]
      BY <1>1
    <3>4. x \in {u} \X (1 .. q[u])
      BY <3>2, <3>3
    <3> QED BY <3>4 DEF Units
  <2> QED BY <2>1, UnitsFinite, FS_Subset
<1>2. ASSUME NEW t \in Threads PROVE SumOf(f) - f[t] <= SumOf(g) - g[t]
  <2> DEFINE y == [f EXCEPT ![t] = 0]
             z == [g EXCEPT ![t] = 0]
  <2>1. y \in [Threads -> Nat] /\ z \in [Threads -> Nat] /\ \A u \in Threads : y[u] <= z[u]
    OBVIOUS
  <2>2. SumOf(f) = SumOf(y) + f[t] /\ SumOf(g) = SumOf(z) + g[t]
    BY SumSplit
  <2> HIDE DEF y, z
  <2>3. SumOf(y) <= SumOf(z)
    BY <2>1, <1>1
  <2> QED BY <2>1, <2>2, <2>3, UnitsFinite
<1> QED BY <1>1, <1>2

(* Nothing sums up to nothing, and parts up to 2 to twice their number.    *)
LEMMA SumBounds ==
  ASSUME NEW f \in [Threads -> Nat]
  PROVE  /\ (\A t \in Threads : f[t] = 0) => SumOf(f) = 0
         /\ (\A t \in Threads : f[t] <= 2) => SumOf(f) <= 2 * Cardinality(Threads)
<1>1. ASSUME \A t \in Threads : f[t] = 0 PROVE SumOf(f) = 0
  <2>1. Units(f) = {}
    <3>1. ASSUME NEW x \in Units(f) PROVE FALSE
      <4>1. PICK u \in Threads : x \in {u} \X (1 .. f[u])
        BY DEF Units
      <4> QED BY <4>1, <1>1
    <3> QED BY <3>1
  <2> QED BY <2>1, UnitsFinite, FS_EmptySet
<1>2. ASSUME \A t \in Threads : f[t] <= 2 PROVE SumOf(f) <= 2 * Cardinality(Threads)
  <2>1. Units(f) \subseteq Threads \X (1 .. 2)
    <3>1. SUFFICES ASSUME NEW x \in Units(f) PROVE x \in Threads \X (1 .. 2)
      OBVIOUS
    <3>2. PICK u \in Threads : x \in {u} \X (1 .. f[u])
      BY <3>1 DEF Units
    <3>3. 1 .. f[u] \subseteq 1 .. 2
      BY <1>2
    <3> QED BY <3>2, <3>3
  <2>2. /\ IsFiniteSet(Threads \X (1 .. 2))
        /\ Cardinality(Threads \X (1 .. 2)) = Cardinality(Threads) * 2
    <3>1. IsFiniteSet(1 .. 2) /\ Cardinality(1 .. 2) = 2
      <4>1. 1 \in Int /\ 2 \in Int
        OBVIOUS
      <4>2. IsFiniteSet(1 .. 2) /\ Cardinality(1 .. 2) = IF 1 > 2 THEN 0 ELSE 2 - 1 + 1
        BY <4>1, FS_Interval
      <4> QED BY <4>2
    <3> QED BY <3>1, BlocksAssumption, FS_Product
  <2>3. Cardinality(Threads) \in Nat
    BY BlocksAssumption, FS_CardinalityType
  <2>4. IsFiniteSet(Units(f)) /\ Cardinality(Units(f)) <= Cardinality(Threads \X (1 .. 2))
    BY <2>1, <2>2, FS_Subset
  <2>5. SumOf(f) = Cardinality(Units(f)) /\ SumOf(f) \in Nat
    BY UnitsFinite
  <2> QED BY <2>2, <2>3, <2>4, <2>5
<1> QED BY <1>1, <1>2

(***************************************************************************)
(* What the references of nodes and of threads add up to.                  *)
(***************************************************************************)
(* The references of nodes change by those of the node that changes.       *)
LEMMA NodeRefsStep ==
  ASSUME NEW n \in Blocks, NEW b, \A m \in Blocks \ {n} : prev_'[m] = prev_[m]
  PROVE  /\ NodeRefs(b)' = NodeRefs(b) - One(prev_[n] = b) + One(prev_'[n] = b)
         /\ NodeRefs(b) >= One(prev_[n] = b)
<1> DEFINE P == {m \in Blocks : prev_[m] = b}
           Q == {m \in Blocks : prev_'[m] = b}
           R == {m \in Blocks \ {n} : prev_[m] = b}
<1>1. IsFiniteSet(Blocks)
  BY BlocksAssumption
<1>2. IsFiniteSet(R) /\ n \notin R
  BY <1>1, FS_Subset
<1>3. /\ P = (IF prev_[n] = b THEN R \cup {n} ELSE R)
      /\ Q = (IF prev_'[n] = b THEN R \cup {n} ELSE R)
  OBVIOUS
<1>4. Cardinality(R \cup {n}) = Cardinality(R) + 1
  BY <1>2, FS_AddElement
<1>5. Cardinality(R) \in Nat
  BY <1>2, FS_CardinalityType
<1>6. NodeRefs(b) = Cardinality(P) /\ NodeRefs(b)' = Cardinality(Q)
  BY DEF NodeRefs
<1> HIDE DEF P, Q, R
<1>7. /\ Cardinality(P) = Cardinality(R) + One(prev_[n] = b)
      /\ Cardinality(Q) = Cardinality(R) + One(prev_'[n] = b)
  BY <1>3, <1>4, <1>5 DEF One
<1>8. One(prev_[n] = b) \in 0 .. 1 /\ One(prev_'[n] = b) \in 0 .. 1
  BY DEF One
<1> QED BY <1>5, <1>6, <1>7, <1>8

(* A node refers to b exactly if the number of them is not zero.           *)
LEMMA NodeRefsTell ==
  ASSUME NEW b \in Blocks
  PROVE  NodeRefs(b) \in Nat /\ (NodeRefs(b) > 0 <=> \E n \in Blocks : prev_[n] = b)
<1> DEFINE P == {m \in Blocks : prev_[m] = b}
<1>1. IsFiniteSet(P)
  BY BlocksAssumption, FS_Subset
<1>2. Cardinality(P) \in Nat /\ (Cardinality(P) = 0 <=> P = {})
  BY <1>1, FS_CardinalityType, FS_EmptySet
<1> QED BY <1>2 DEF NodeRefs

(* A thread's local references are some of its references.                 *)
LEMMA RefsOfType ==
  ASSUME diff \in [Threads -> Nat], NEW t \in Threads, NEW b
  PROVE  /\ RefsOf(t, b) \in Nat /\ LocalRefsOf(t, b) \in Nat
         /\ LocalRefsOf(t, b) <= RefsOf(t, b)
BY DEF RefsOf, LocalRefsOf, One

(* What one or two threads have is part of what all threads have.          *)
LEMMA ThreadRefsType ==
  ASSUME diff \in [Threads -> Nat], NEW b
  PROVE  /\ ThreadRefs(b) \in Nat /\ LocalRefs(b) \in Nat
         /\ \A t \in Threads :
              /\ ThreadRefs(b) >= RefsOf(t, b)
              /\ ThreadRefs(b) - LocalRefs(b) >= RefsOf(t, b) - LocalRefsOf(t, b)
         /\ \A t, u \in Threads : t # u => ThreadRefs(b) >= RefsOf(t, b) + RefsOf(u, b)
         /\ ThreadRefs(b) >= LocalRefs(b)
         /\ (\A t \in Threads : RefsOf(t, b) = 0) => ThreadRefs(b) = 0
<1> DEFINE f == [t \in Threads |-> RefsOf(t, b)]
           g == [t \in Threads |-> LocalRefsOf(t, b)]
<1>1. f \in [Threads -> Nat] /\ g \in [Threads -> Nat] /\ \A u \in Threads : g[u] <= f[u]
  BY RefsOfType
<1>2. \A t \in Threads : f[t] = RefsOf(t, b) /\ g[t] = LocalRefsOf(t, b)
  OBVIOUS
<1>3. ThreadRefs(b) = SumOf(f) /\ LocalRefs(b) = SumOf(g)
  BY DEF ThreadRefs, LocalRefs
<1> HIDE DEF f, g
<1>4. SumOf(f) \in Nat /\ SumOf(g) \in Nat
  BY <1>1, UnitsFinite
<1>5. \A t \in Threads : SumOf(f) >= f[t]
  BY <1>1, SumChanged
<1>6. SumOf(g) <= SumOf(f) /\ \A t \in Threads : SumOf(g) - g[t] <= SumOf(f) - f[t]
  BY <1>1, SumMonotone
<1>7. \A t, u \in Threads : t # u => SumOf(f) >= f[t] + f[u]
  BY <1>1, SumOfTwo
<1>8. (\A t \in Threads : f[t] = 0) => SumOf(f) = 0
  BY <1>1, SumBounds
<1>9. ASSUME NEW t \in Threads PROVE SumOf(f) - SumOf(g) >= f[t] - g[t]
  <2>1. f[t] \in Nat /\ g[t] \in Nat
    BY <1>1
  <2> QED BY <2>1, <1>4, <1>6
<1> QED BY <1>2, <1>3, <1>4, <1>5, <1>6, <1>7, <1>8, <1>9

(* The other threads than t keep what is theirs.                           *)
Frame(t) ==
  \A u \in Threads \ {t} :
    /\ pc'[u] = pc[u] /\ ret'[u] = ret[u] /\ todo'[u] = todo[u] /\ op'[u] = op[u]
    /\ top'[u] = top[u] /\ holder'[u] = holder[u] /\ ptr'[u] = ptr[u]
    /\ got'[u] = got[u] /\ expected'[u] = expected[u] /\ diff'[u] = diff[u]

(* The references of all threads change by those of the one that steps.    *)
LEMMA ThreadRefsStep ==
  ASSUME diff \in [Threads -> Nat], (diff \in [Threads -> Nat])', NEW t \in Threads, Frame(t), NEW b
  PROVE  /\ ThreadRefs(b)' = ThreadRefs(b) - RefsOf(t, b) + RefsOf(t, b)'
         /\ LocalRefs(b)' = LocalRefs(b) - LocalRefsOf(t, b) + LocalRefsOf(t, b)'
         /\ ThreadRefs(b)' \in Nat /\ LocalRefs(b)' \in Nat
         /\ RefsOf(t, b)' \in Nat /\ LocalRefsOf(t, b)' \in Nat
         /\ \A u \in Threads : RefsOf(u, b)' \in Nat /\ ThreadRefs(b)' >= RefsOf(u, b)'
<1> DEFINE f == [u \in Threads |-> RefsOf(u, b)]
           g == [u \in Threads |-> LocalRefsOf(u, b)]
           x == [u \in Threads |-> RefsOf(u, b)']
           y == [u \in Threads |-> LocalRefsOf(u, b)']
<1>1. f \in [Threads -> Nat] /\ g \in [Threads -> Nat]
  BY RefsOfType
<1>2. \A u \in Threads : RefsOf(u, b)' \in Nat /\ LocalRefsOf(u, b)' \in Nat
  BY DEF RefsOf, LocalRefsOf, One
<1>3. x \in [Threads -> Nat] /\ y \in [Threads -> Nat]
  BY <1>2
<1>4. ASSUME NEW u \in Threads \ {t}
      PROVE  RefsOf(u, b)' = RefsOf(u, b) /\ LocalRefsOf(u, b)' = LocalRefsOf(u, b)
  BY DEF Frame, RefsOf, LocalRefsOf, One
<1>5. \A u \in Threads \ {t} : x[u] = f[u] /\ y[u] = g[u]
  BY <1>4
<1>6. /\ f[t] = RefsOf(t, b) /\ g[t] = LocalRefsOf(t, b) /\ y[t] = LocalRefsOf(t, b)'
      /\ \A u \in Threads : x[u] = RefsOf(u, b)'
  OBVIOUS
<1>7. /\ ThreadRefs(b) = SumOf(f) /\ LocalRefs(b) = SumOf(g)
      /\ ThreadRefs(b)' = SumOf(x) /\ LocalRefs(b)' = SumOf(y)
  BY DEF ThreadRefs, LocalRefs, SumOf
<1> HIDE DEF f, g, x, y
<1>8. /\ SumOf(x) = SumOf(f) - f[t] + x[t] /\ SumOf(y) = SumOf(g) - g[t] + y[t]
      /\ \A u \in Threads : SumOf(x) >= x[u]
  BY <1>1, <1>3, <1>5, SumChanged
<1>9. SumOf(x) \in Nat /\ SumOf(y) \in Nat
  BY <1>3, UnitsFinite
<1> QED BY <1>2, <1>6, <1>7, <1>8, <1>9

(***************************************************************************)
(* What the invariant says of the counts.                                  *)
(***************************************************************************)
(* What the references to a block are made of.                             *)
LEMMA ReferencesType ==
  ASSUME TypeOK, NEW b \in Blocks
  PROVE  /\ References(b) = One(InHead(b)) + NodeRefs(b) + ThreadRefs(b)
         /\ One(InHead(b)) \in 0 .. 1 /\ NodeRefs(b) \in Nat /\ ThreadRefs(b) \in Nat
         /\ References(b) \in Nat /\ Counted(b) \in Nat /\ refCount[b] \in Nat
<1>1. One(InHead(b)) \in 0 .. 1
  BY DEF One
<1>2. NodeRefs(b) \in Nat /\ ThreadRefs(b) \in Nat
  BY NodeRefsTell, ThreadRefsType DEF TypeOK
<1>3. Counted(b) \in Nat /\ refCount[b] \in Nat
  BY DEF Counted, TypeOK
<1> QED BY <1>1, <1>2, <1>3 DEF References

(* The count in a block covers, besides one reference, what is not in the  *)
(* local count: that of head_ and those of a thread that are not local.    *)
LEMMA RefCountCovers ==
  ASSUME CountInv, NEW b \in live
  PROVE  /\ refCount[b] >= 1
         /\ \A t \in Threads :
              /\ refCount[b] >= One(InHead(b)) + NodeRefs(b) + RefsOf(t, b) - LocalRefsOf(t, b)
              /\ ~InHead(b) => refCount[b] >= RefsOf(t, b)
<1>1. TypeOK /\ b \in Blocks
  BY DEF CountInv, TypeOK
<1>2. /\ ThreadRefs(b) \in Nat /\ LocalRefs(b) \in Nat /\ ThreadRefs(b) >= LocalRefs(b)
      /\ \A t \in Threads : ThreadRefs(b) - LocalRefs(b) >= RefsOf(t, b) - LocalRefsOf(t, b)
      /\ \A t \in Threads : ThreadRefs(b) >= RefsOf(t, b)
  BY <1>1, ThreadRefsType DEF TypeOK
<1>3. \A t \in Threads : RefsOf(t, b) \in Nat /\ LocalRefsOf(t, b) \in Nat
  BY <1>1, RefsOfType DEF TypeOK
<1>4. /\ References(b) = One(InHead(b)) + NodeRefs(b) + ThreadRefs(b)
      /\ One(InHead(b)) \in 0 .. 1 /\ NodeRefs(b) \in Nat /\ refCount[b] \in Nat
  BY <1>1, ReferencesType
<1>5. Counted(b) = References(b) /\ References(b) > 0
  BY <1>1 DEF CountInv, ReferencesConserved, LiveReferenced
<1>6. CASE InHead(b)
  <2>1. packedPtr.count <= LocalRefs(b) /\ packedPtr.count \in Nat
    BY <1>6, <1>1 DEF CountInv, LocalCountBacked, InHead, TypeOK
  <2>2. refCount[b] + packedPtr.count = 1 + NodeRefs(b) + ThreadRefs(b) /\ One(InHead(b)) = 1
    BY <1>4, <1>5, <1>6 DEF Counted, One
  <2>3. refCount[b] >= One(InHead(b)) + NodeRefs(b) + (ThreadRefs(b) - LocalRefs(b))
    BY <1>2, <1>4, <2>1, <2>2
  <2>4. refCount[b] >= 1
    BY <1>2, <1>4, <2>2, <2>3
  <2>5. ASSUME NEW t \in Threads
        PROVE  refCount[b] >= One(InHead(b)) + NodeRefs(b) + RefsOf(t, b) - LocalRefsOf(t, b)
    <3>1. ThreadRefs(b) - LocalRefs(b) >= RefsOf(t, b) - LocalRefsOf(t, b)
      BY <1>2
    <3> QED BY <1>2, <1>3, <1>4, <2>3, <3>1
  <2> QED BY <1>6, <2>4, <2>5
<1>7. CASE ~InHead(b)
  <2>1. refCount[b] = NodeRefs(b) + ThreadRefs(b) /\ One(InHead(b)) = 0
    BY <1>4, <1>5, <1>7 DEF Counted, One
  <2> QED BY <1>2, <1>3, <1>4, <1>5, <2>1
<1> QED BY <1>6, <1>7

(* What is referred to is alive.                                           *)
LEMMA ReferencedIsLive ==
  ASSUME CountInv, NEW b \in Blocks
  PROVE  /\ InHead(b) => b \in live
         /\ \A n \in Blocks : prev_[n] = b => b \in live /\ n \in live
         /\ \A t \in Threads : RefsOf(t, b) > 0 => b \in live
<1>1. TypeOK /\ (b \notin live => References(b) = 0)
  BY DEF CountInv, LiveReferenced
<1>2. /\ References(b) = One(InHead(b)) + NodeRefs(b) + ThreadRefs(b)
      /\ One(InHead(b)) \in 0 .. 1 /\ NodeRefs(b) \in Nat /\ ThreadRefs(b) \in Nat
  BY <1>1, ReferencesType
<1>3. InHead(b) => b \in live
  BY <1>1, <1>2 DEF One
<1>4. ASSUME NEW n \in Blocks, prev_[n] = b PROVE b \in live /\ n \in live
  <2>1. NodeRefs(b) > 0
    BY <1>4, NodeRefsTell
  <2>2. n \in live
    BY <1>4, BlocksAssumption DEF CountInv, LiveReferenced
  <2> QED BY <1>1, <1>2, <2>1, <2>2
<1>5. ASSUME NEW t \in Threads, RefsOf(t, b) > 0 PROVE b \in live
  <2>1. ThreadRefs(b) >= RefsOf(t, b) /\ RefsOf(t, b) \in Nat
    BY <1>1, ThreadRefsType, RefsOfType DEF TypeOK
  <2> QED BY <1>1, <1>2, <1>5, <2>1
<1> QED BY <1>3, <1>4, <1>5

(* Somebody else than a Push that made n has a reference to n.             *)
Shared(t, n) ==
  \/ InHead(n)
  \/ \E m \in Blocks : prev_[m] = n
  \/ top[t].block = n \/ holder[t].block = n \/ got[t] = n \/ todo[t] = n

(* While a Push makes a node nobody else has a reference to it.            *)
LEMMA NewIsNotShared ==
  ASSUME CountInv, NEW n \in Blocks, NEW t \in Threads, NEW u \in Threads, Makes(u, n)
  PROVE  /\ ~Shared(t, n)
         /\ t # u => RefsOf(t, n) = 0
<1>1. TypeOK /\ References(n) = 1
  BY DEF CountInv, NewNodes
<1>2. /\ References(n) = One(InHead(n)) + NodeRefs(n) + ThreadRefs(n)
      /\ One(InHead(n)) \in 0 .. 1 /\ NodeRefs(n) \in Nat /\ ThreadRefs(n) \in Nat
  BY <1>1, ReferencesType
<1>3. /\ ThreadRefs(n) >= RefsOf(u, n) /\ RefsOf(u, n) \in Nat /\ RefsOf(t, n) \in Nat
      /\ t # u => ThreadRefs(n) >= RefsOf(t, n) + RefsOf(u, n)
  BY <1>1, ThreadRefsType, RefsOfType DEF TypeOK
<1>4. diff[t] \in Nat /\ diff[u] \in Nat
  BY <1>1 DEF TypeOK
<1>5. RefsOf(u, n) >= 1
  BY <1>4 DEF Makes, RefsOf, One
<1>6. t # u => RefsOf(t, n) = 0
  BY <1>1, <1>2, <1>3, <1>5
<1>7. ~InHead(n)
  BY <1>1, <1>2, <1>3, <1>5 DEF One
<1>8. ~\E m \in Blocks : prev_[m] = n
  BY <1>1, <1>2, <1>3, <1>5, NodeRefsTell
<1>9. ASSUME top[t].block = n \/ holder[t].block = n \/ got[t] = n \/ todo[t] = n PROVE FALSE
  <2>1. t # u => RefsOf(t, n) >= 1
    BY <1>4, <1>9 DEF RefsOf, One
  <2>2. t = u => RefsOf(t, n) >= 2
    BY <1>4, <1>9 DEF Makes, RefsOf, One
  <2> QED BY <1>1, <1>2, <1>3, <1>6, <2>1, <2>2
<1> QED BY <1>6, <1>7, <1>8, <1>9 DEF Shared

(***************************************************************************)
(* A step of thread t that deletes no block and changes no link.           *)
(***************************************************************************)
(* What it adds to the count of b it adds to the references to b.          *)
Balanced(t) ==
  \A b \in Blocks :
    One(InHead(b))' + RefsOf(t, b)' - Counted(b)' = One(InHead(b)) + RefsOf(t, b) - Counted(b)

(* It makes references only from references.                               *)
AddsToShared(t) == \A b \in Blocks : Counted(b)' > Counted(b) => Shared(t, b)

(* The local count grows only with local references.                       *)
LocalBalanced(t) ==
  \/ packedPtr'.count = 0
  \/ \A b \in Blocks :
       packedPtr.block = b =>
         /\ packedPtr'.block = b
         /\ packedPtr'.count - packedPtr.count <= LocalRefsOf(t, b)' - LocalRefsOf(t, b)

(* A Push gives its node away only when it is linked.                      *)
KeepsNew(t) ==
  \A n \in Blocks :
    /\ Makes(t, n)' => Makes(t, n)
    /\ Makes(t, n) /\ ~Makes(t, n)' => prev_[n] # nullptr
    /\ Makes(t, n)' /\ Label(t)' \in Exchanging \cup {"compare"} => prev_[n] # nullptr

(* A step of one thread leaves the others where they are.                  *)
LEMMA OtherStates ==
  ASSUME CountInv, NEW t \in Threads, Frame(t), alive' = alive, ThreadState(t)'
  PROVE  \A u \in Threads : ThreadState(u)'
<1>1. ASSUME NEW u \in Threads \ {t} PROVE ThreadState(u)'
  <2>1. ThreadState(u)
    BY DEF CountInv
  <2>2. Label(u)' = Label(u)
    BY DEF Frame, Label
  <2>3. CallOf(u)'
    BY <2>1, <2>2 DEF Frame, ThreadState, CallOf, PushLabels, PopLabels
  <2>4. PointersOf(u)'
    BY <2>1, <2>2 DEF Frame, ThreadState, PointersOf, PushLabels, Exchanging
  <2>5. ExpectedOf(u)'
    BY <2>1, <2>2 DEF Frame, ThreadState, ExpectedOf, Known, NoPacked, Packed
  <2> QED BY <2>3, <2>4, <2>5 DEF ThreadState
<1> QED BY <1>1

(* Such a step keeps the invariant.                                        *)
LEMMA QuietStep ==
  ASSUME CountInv, TypeOK', NEW t \in Threads, Frame(t), ThreadState(t)',
         UNCHANGED <<live, prev_, alive>>, alive \/ packedPtr' = packedPtr,
         Balanced(t), AddsToShared(t), LocalBalanced(t), KeepsNew(t),
         \A b \in live : refCount'[b] >= 1
  PROVE  CountInv'
<1>1. TypeOK /\ (\A u \in Threads : ThreadState(u)') /\ live \subseteq Blocks
  BY OtherStates DEF CountInv, TypeOK
<1>2. ASSUME NEW b \in Blocks
      PROVE  /\ References(b)' - Counted(b)' = References(b) - Counted(b)
             /\ References(b)' \in Nat /\ Counted(b)' \in Nat /\ References(b) \in Nat /\ Counted(b) \in Nat
             /\ References(b)' = One(InHead(b))' + NodeRefs(b)' + ThreadRefs(b)'
  <2>1. NodeRefs(b)' = NodeRefs(b)
    BY DEF NodeRefs
  <2>2. /\ References(b) = One(InHead(b)) + NodeRefs(b) + ThreadRefs(b)
        /\ One(InHead(b)) \in 0 .. 1 /\ NodeRefs(b) \in Nat /\ ThreadRefs(b) \in Nat
        /\ References(b) \in Nat /\ Counted(b) \in Nat
    BY <1>1, ReferencesType
  <2>3. /\ ThreadRefs(b)' = ThreadRefs(b) - RefsOf(t, b) + RefsOf(t, b)'
        /\ ThreadRefs(b)' \in Nat /\ RefsOf(t, b)' \in Nat
    BY <1>1, ThreadRefsStep DEF TypeOK
  <2>4. RefsOf(t, b) \in Nat
    BY <1>1, RefsOfType DEF TypeOK
  <2>5. One(InHead(b))' \in 0 .. 1 /\ Counted(b)' \in Nat
    BY DEF One, Counted, TypeOK
  <2>6. References(b)' = One(InHead(b))' + NodeRefs(b)' + ThreadRefs(b)'
    BY DEF References
  <2>7. One(InHead(b))' + RefsOf(t, b)' - Counted(b)' = One(InHead(b)) + RefsOf(t, b) - Counted(b)
    BY DEF Balanced
  <2> QED BY <2>1, <2>2, <2>3, <2>4, <2>5, <2>6, <2>7
<1>3. ReferencesConserved'
  <2>1. ASSUME NEW b \in live PROVE Counted(b)' = References(b)'
    <3>1. Counted(b) = References(b)
      BY DEF CountInv, ReferencesConserved
    <3> QED BY <1>1, <1>2, <3>1
  <2> QED BY <2>1 DEF ReferencesConserved
<1>4. ASSUME NEW b \in Blocks, b \notin live PROVE References(b)' = 0 /\ prev_'[b] = nullptr
  <2>1. References(b) = 0 /\ prev_[b] = nullptr
    BY <1>4 DEF CountInv, LiveReferenced
  <2>2. ~Shared(t, b)
    <3>1. /\ ~InHead(b) /\ (\A n \in Blocks : prev_[n] # b) /\ ~(RefsOf(t, b) > 0)
      BY <1>4, ReferencedIsLive
    <3>2. diff[t] \in Nat
      BY <1>1 DEF TypeOK
    <3>3. top[t].block = b \/ holder[t].block = b \/ got[t] = b \/ todo[t] = b => RefsOf(t, b) > 0
      BY <3>2 DEF RefsOf, One
    <3> QED BY <3>1, <3>3 DEF Shared
  <2>3. Counted(b)' <= Counted(b)
    BY <1>2, <2>2 DEF AddsToShared
  <2> QED BY <1>2, <2>1, <2>3
<1>5. ASSUME NEW b \in live PROVE References(b)' > 0
  <2>1. Counted(b)' = References(b)' /\ refCount'[b] >= 1 /\ packedPtr'.count \in Nat /\ refCount'[b] \in Nat
    BY <1>1, <1>3 DEF ReferencesConserved, TypeOK
  <2>2. Counted(b)' >= refCount'[b]
    BY <2>1 DEF Counted
  <2> QED BY <1>1, <1>2, <2>1, <2>2
<1>6. LiveReferenced'
  BY <1>4, <1>5 DEF LiveReferenced
<1>7. LocalCountBacked'
  <2>1. CASE ~alive
    <3>1. packedPtr'.count <= 0
      BY <2>1 DEF CountInv, LocalCountBacked
    <3> QED BY <2>1, <3>1 DEF LocalCountBacked
  <2>2. CASE alive
    <3>1. ASSUME NEW b \in Blocks PROVE LocalRefs(b)' \in Nat
      BY <1>1, ThreadRefsStep DEF TypeOK
    <3>2. PICK b \in Blocks : packedPtr'.block = b
      BY DEF TypeOK
    <3>3. LocalRefs(packedPtr.block)' = LocalRefs(b)'
      BY <3>2 DEF LocalRefs, LocalRefsOf, One
    <3>4. CASE packedPtr'.count = 0
      BY <2>2, <3>1, <3>2, <3>3, <3>4 DEF LocalCountBacked
    <3>5. CASE packedPtr'.count # 0
      <4>1. packedPtr.block \in Blocks
        BY <1>1 DEF TypeOK
      <4>2. /\ packedPtr.block = b
            /\ packedPtr'.count - packedPtr.count <= LocalRefsOf(t, b)' - LocalRefsOf(t, b)
        BY <3>2, <3>5, <4>1 DEF LocalBalanced
      <4>3. packedPtr.count <= LocalRefs(b)
        BY <2>2, <4>2 DEF CountInv, LocalCountBacked
      <4>4. /\ LocalRefs(b)' = LocalRefs(b) - LocalRefsOf(t, b) + LocalRefsOf(t, b)'
            /\ LocalRefs(b)' \in Nat /\ LocalRefsOf(t, b)' \in Nat
        BY <1>1, ThreadRefsStep DEF TypeOK
      <4>5. LocalRefs(b) \in Nat /\ LocalRefsOf(t, b) \in Nat
        BY <1>1, ThreadRefsType, RefsOfType DEF TypeOK
      <4>6. packedPtr.count \in Nat /\ packedPtr'.count \in Nat
        BY <1>1 DEF TypeOK
      <4>7. packedPtr'.count <= LocalRefs(b)'
        BY <4>2, <4>3, <4>4, <4>5, <4>6
      <4> QED BY <2>2, <3>3, <4>7 DEF LocalCountBacked
    <3> QED BY <3>4, <3>5
  <2> QED BY <2>1, <2>2
<1>8. ASSUME NEW u \in Threads, NEW n \in Blocks PROVE Makes(u, n)' => Makes(u, n)
  BY <1>8 DEF KeepsNew, Frame, Makes
<1>9. NewNodes'
  <2>1. SUFFICES ASSUME NEW u \in Threads, NEW n \in Blocks, Makes(u, n)'
                 PROVE  /\ References(n)' = 1
                        /\ Label(u)' \in Exchanging \cup {"compare"} => prev_'[n] # nullptr
    BY DEF NewNodes, Exchanging
  <2>2. Makes(u, n)
    BY <1>8, <2>1
  <2>3. References(n) = 1 /\ (Label(u) \in Exchanging \cup {"compare"} => prev_[n] # nullptr)
    BY <2>2 DEF CountInv, NewNodes
  <2>4. Counted(n)' <= Counted(n)
    BY <1>2, <2>2, NewIsNotShared DEF AddsToShared
  <2>5. References(n)' >= 1
    <3>1. RefsOf(u, n)' >= 1
      BY <2>1 DEF TypeOK, Makes, RefsOf, One
    <3>2. ThreadRefs(n)' >= RefsOf(u, n)' /\ ThreadRefs(n)' \in Nat /\ RefsOf(u, n)' \in Nat
      BY <1>1, ThreadRefsStep DEF TypeOK
    <3>3. NodeRefs(n)' \in Nat /\ One(InHead(n))' \in 0 .. 1
      <4>1. NodeRefs(n)' = NodeRefs(n)
        BY DEF NodeRefs
      <4> QED BY <4>1, NodeRefsTell DEF One
    <3> QED BY <1>2, <3>1, <3>2, <3>3
  <2>6. References(n)' = 1
    BY <1>2, <2>3, <2>4, <2>5
  <2>7. ASSUME Label(u)' \in Exchanging \cup {"compare"} PROVE prev_'[n] # nullptr
    <3>1. CASE u = t
      BY <2>1, <2>7, <3>1 DEF KeepsNew
    <3>2. CASE u # t
      <4>1. Label(u)' = Label(u)
        BY <3>2 DEF Frame, Label
      <4> QED BY <2>3, <2>7, <4>1 DEF Exchanging
    <3> QED BY <3>1, <3>2
  <2> QED BY <2>6, <2>7
<1>10. NodesLinked'
  <2>1. SUFFICES ASSUME NEW n \in live \ {Bottom}, prev_[n] = nullptr
                 PROVE  \E u \in Threads : Makes(u, n)'
    BY DEF NodesLinked
  <2>2. PICK u \in Threads : Makes(u, n)
    BY <2>1 DEF CountInv, NodesLinked
  <2>3. CASE u = t
    BY <1>1, <2>1, <2>2, <2>3 DEF KeepsNew
  <2>4. CASE u # t
    BY <2>2, <2>4 DEF Frame, Makes
  <2> QED BY <2>3, <2>4
<1> QED BY <1>1, <1>3, <1>6, <1>7, <1>9, <1>10 DEF CountInv

(* The part of TypeOK that is about AtomicSharedPtr.                       *)
PtrTypes ==
  /\ packedPtr \in [block : Blocks, count : Nat]
  /\ refCount \in [Blocks -> Nat] /\ live \subseteq Blocks
  /\ prev_ \in [Blocks -> Blocks \cup {nullptr}]
  /\ pc \in [Threads -> Labels] /\ ret \in [Threads -> Labels \cup {"none"}]
  /\ todo \in [Threads -> Blocks \cup {nullptr}]
  /\ ptr \in [Threads -> Blocks \cup {nullptr}] /\ got \in [Threads -> Blocks \cup {nullptr}]
  /\ top \in [Threads -> [block : Blocks \cup {nullptr}, count : Nat]]
  /\ holder \in [Threads -> [block : Blocks \cup {nullptr}, count : Nat]]
  /\ expected \in [Threads -> [block : Blocks \cup {nullptr}, count : Nat]]
  /\ diff \in [Threads -> Nat]

(* A step that leaves packedPtr alone: the counts in the blocks follow the *)
(* references of the thread.                                               *)
CountsFollow(t) ==
  \A b \in Blocks :
    /\ refCount'[b] - refCount[b] = RefsOf(t, b)' - RefsOf(t, b)
    /\ refCount'[b] > refCount[b] => Shared(t, b)
    /\ b \in live => refCount'[b] >= 1
    /\ packedPtr.block = b /\ packedPtr.count # 0 => LocalRefsOf(t, b)' >= LocalRefsOf(t, b)

(* Such a step is quiet in the sense of QuietStep.                         *)
LEMMA CountStep ==
  ASSUME CountInv, TypeOK', NEW t \in Threads, Frame(t), ThreadState(t)', KeepsNew(t),
         UNCHANGED <<packedPtr, live, prev_, alive>>, CountsFollow(t)
  PROVE  CountInv'
<1>1. TypeOK /\ live \subseteq Blocks
  BY DEF CountInv, TypeOK
<1>2. ASSUME NEW b \in Blocks
      PROVE  /\ InHead(b)' = InHead(b) /\ One(InHead(b))' = One(InHead(b))
             /\ Counted(b)' - Counted(b) = refCount'[b] - refCount[b]
             /\ One(InHead(b)) \in 0 .. 1 /\ Counted(b) \in Nat /\ Counted(b)' \in Nat
             /\ refCount[b] \in Nat /\ refCount'[b] \in Nat
  <2>1. InHead(b)' = InHead(b)
    BY DEF InHead
  <2>2. One(InHead(b)) \in 0 .. 1 /\ One(InHead(b))' = One(InHead(b))
    BY <2>1 DEF One
  <2>3. refCount[b] \in Nat /\ refCount'[b] \in Nat /\ packedPtr.count \in Nat
    BY <1>1 DEF TypeOK
  <2>4. Counted(b) \in Nat /\ Counted(b)' \in Nat /\ Counted(b)' - Counted(b) = refCount'[b] - refCount[b]
    BY <2>1, <2>3 DEF Counted
  <2> QED BY <2>1, <2>2, <2>3, <2>4
<1>3. ASSUME NEW b \in Blocks
      PROVE  /\ RefsOf(t, b) \in Nat /\ RefsOf(t, b)' \in Nat
             /\ LocalRefsOf(t, b) \in Nat /\ LocalRefsOf(t, b)' \in Nat
  BY <1>1, RefsOfType, ThreadRefsStep DEF TypeOK
<1>4. Balanced(t)
  BY <1>2, <1>3 DEF Balanced, CountsFollow
<1>5. AddsToShared(t)
  BY <1>2 DEF AddsToShared, CountsFollow
<1>6. LocalBalanced(t)
  <2>1. packedPtr.block \in Blocks /\ packedPtr.count \in Nat
    BY <1>1 DEF TypeOK
  <2> QED BY <1>3, <2>1 DEF LocalBalanced, CountsFollow
<1>7. \A b \in live : refCount'[b] >= 1
  BY <1>1 DEF CountsFollow
<1> QED BY <1>4, <1>5, <1>6, <1>7, QuietStep

(* A step that changes only the local count: so it does the references of  *)
(* the thread.                                                             *)
HeadFollows(t) ==
  \A b \in Blocks :
    LET d == IF packedPtr.block = b THEN packedPtr'.count - packedPtr.count ELSE 0
    IN  /\ RefsOf(t, b)' = RefsOf(t, b) + d
        /\ packedPtr'.count = 0 \/ LocalRefsOf(t, b)' = LocalRefsOf(t, b) + d

(* It, too, is quiet in the sense of QuietStep.                            *)
LEMMA HeadStep ==
  ASSUME CountInv, TypeOK', NEW t \in Threads, Frame(t), ThreadState(t)', KeepsNew(t), alive,
         UNCHANGED <<refCount, live, prev_, alive>>, packedPtr'.block = packedPtr.block,
         HeadFollows(t)
  PROVE  CountInv'
<1>1. TypeOK /\ live \subseteq Blocks
  BY DEF CountInv, TypeOK
<1>2. packedPtr.count \in Nat /\ packedPtr'.count \in Nat
  BY <1>1 DEF TypeOK
<1>3. ASSUME NEW b \in Blocks
      PROVE  /\ RefsOf(t, b) \in Nat /\ RefsOf(t, b)' \in Nat
             /\ LocalRefsOf(t, b) \in Nat /\ LocalRefsOf(t, b)' \in Nat
  BY <1>1, RefsOfType, ThreadRefsStep DEF TypeOK
<1>4. ASSUME NEW b \in Blocks, packedPtr.block = b
      PROVE  /\ InHead(b) /\ InHead(b)' /\ One(InHead(b)) = 1 /\ One(InHead(b))' = 1
             /\ Counted(b)' = refCount[b] + packedPtr'.count
             /\ Counted(b) = refCount[b] + packedPtr.count
             /\ refCount[b] \in Nat
             /\ RefsOf(t, b)' = RefsOf(t, b) + (packedPtr'.count - packedPtr.count)
  <2>1. InHead(b) /\ InHead(b)'
    BY <1>4 DEF InHead
  <2>2. RefsOf(t, b)' = RefsOf(t, b) + (packedPtr'.count - packedPtr.count)
    BY <1>4 DEF HeadFollows
  <2>3. refCount[b] \in Nat
    BY <1>1 DEF TypeOK
  <2>4. One(InHead(b)) = 1 /\ One(InHead(b))' = 1
    BY <2>1 DEF One
  <2>5. Counted(b)' = refCount[b] + packedPtr'.count /\ Counted(b) = refCount[b] + packedPtr.count
    BY <2>1 DEF Counted
  <2> QED BY <2>1, <2>2, <2>3, <2>4, <2>5
<1>5. ASSUME NEW b \in Blocks, packedPtr.block # b
      PROVE  /\ One(InHead(b)) = 0 /\ One(InHead(b))' = 0
             /\ Counted(b)' = refCount[b] /\ Counted(b) = refCount[b] /\ refCount[b] \in Nat
             /\ RefsOf(t, b)' = RefsOf(t, b) + 0
  <2>1. ~InHead(b) /\ ~InHead(b)'
    BY <1>5 DEF InHead
  <2>2. RefsOf(t, b)' = RefsOf(t, b) + 0
    BY <1>5 DEF HeadFollows
  <2>3. refCount[b] \in Nat
    BY <1>1 DEF TypeOK
  <2>4. One(InHead(b)) = 0 /\ One(InHead(b))' = 0
    BY <2>1 DEF One
  <2>5. Counted(b)' = refCount[b] /\ Counted(b) = refCount[b]
    BY <2>1, <2>3 DEF Counted
  <2> QED BY <2>2, <2>3, <2>4, <2>5
<1>6. Balanced(t)
  <2>1. ASSUME NEW b \in Blocks
        PROVE  One(InHead(b))' + RefsOf(t, b)' - Counted(b)' = One(InHead(b)) + RefsOf(t, b) - Counted(b)
    <3>1. CASE packedPtr.block = b
      BY <1>2, <1>3, <1>4, <3>1
    <3>2. CASE packedPtr.block # b
      BY <1>3, <1>5, <3>2
    <3> QED BY <3>1, <3>2
  <2> QED BY <2>1 DEF Balanced
<1>7. AddsToShared(t)
  <2>1. ASSUME NEW b \in Blocks, Counted(b)' > Counted(b) PROVE Shared(t, b)
    <3>1. CASE packedPtr.block = b
      BY <1>4, <3>1 DEF Shared
    <3>2. CASE packedPtr.block # b
      BY <1>5, <2>1, <3>2
    <3> QED BY <3>1, <3>2
  <2> QED BY <2>1 DEF AddsToShared
<1>8. LocalBalanced(t)
  <2>1. ASSUME packedPtr'.count # 0, NEW b \in Blocks, packedPtr.block = b
        PROVE  packedPtr'.count - packedPtr.count <= LocalRefsOf(t, b)' - LocalRefsOf(t, b)
    <3>1. LocalRefsOf(t, b)' = LocalRefsOf(t, b) + (packedPtr'.count - packedPtr.count)
      BY <2>1 DEF HeadFollows
    <3> QED BY <1>2, <1>3, <3>1
  <2> QED BY <2>1 DEF LocalBalanced
<1>9. \A b \in live : refCount'[b] >= 1
  BY RefCountCovers
<1> QED BY <1>6, <1>7, <1>8, <1>9, QuietStep

(* d more references of the thread to b, and a count that is greater by d. *)
LEMMA FollowedBy ==
  ASSUME CountInv, NEW t \in Threads, NEW b \in Blocks, NEW d \in Int,
         RefsOf(t, b)' = RefsOf(t, b) + d, refCount'[b] = refCount[b] + d,
         d > 0 => Shared(t, b),
         d < 0 /\ b \in live => refCount[b] + d >= 1,
         packedPtr.block = b /\ packedPtr.count # 0 => LocalRefsOf(t, b)' = LocalRefsOf(t, b)
  PROVE  /\ refCount'[b] - refCount[b] = RefsOf(t, b)' - RefsOf(t, b)
         /\ refCount'[b] > refCount[b] => Shared(t, b)
         /\ b \in live => refCount'[b] >= 1
         /\ packedPtr.block = b /\ packedPtr.count # 0 => LocalRefsOf(t, b)' >= LocalRefsOf(t, b)
<1>1. RefsOf(t, b) \in Nat /\ LocalRefsOf(t, b) \in Nat /\ refCount[b] \in Nat
  BY RefsOfType DEF CountInv, TypeOK
<1>2. b \in live => refCount[b] >= 1
  BY RefCountCovers
<1> QED BY <1>1, <1>2

(***************************************************************************)
(* The steps of AtomicSharedPtr.                                           *)
(***************************************************************************)
(* What the stack adds to them: a call ends where they return to idle.     *)
Around(t, result) == Continue(t, result) /\ DataOfLive /\ UNCHANGED alive

(* A step that has the types of the stack's own variables right.           *)
AroundOK(t) ==
  /\ (data_ \in [Blocks -> Values \cup {NoValue}])'
  /\ (element \in [Threads -> Values \cup {NoValue}])'
  /\ (op \in [Threads -> {"none", "Push", "Pop"}])'
  /\ (outcome \in [Threads -> {"none", "empty", "exchanged"}])'
  /\ alive' = alive /\ (alive \in BOOLEAN)'
  /\ \A u \in Threads \ {t} : op'[u] = op[u]
  /\ op'[t] = IF pc'[t] = "idle" THEN "none" ELSE op[t]

(* That keeps the types, and who is in which call.                         *)
LEMMA AroundType ==
  ASSUME TypeOK, NEW t \in Threads, NEW result \in {"none", "empty", "exchanged"}, Around(t, result)
  PROVE  AroundOK(t)
<1>1. (data_ \in [Blocks -> Values \cup {NoValue}])'
  BY DEF TypeOK, Around, DataOfLive
<1>2. (element \in [Threads -> Values \cup {NoValue}])'
  BY DEF TypeOK, Around, Continue
<1>3. (op \in [Threads -> {"none", "Push", "Pop"}])'
  BY DEF TypeOK, Around, Continue
<1>4. (outcome \in [Threads -> {"none", "empty", "exchanged"}])'
  BY DEF TypeOK, Around, Continue
<1>5. alive' = alive /\ (alive \in BOOLEAN)'
  BY DEF TypeOK, Around
<1>6. /\ \A u \in Threads \ {t} : op'[u] = op[u]
      /\ op'[t] = IF pc'[t] = "idle" THEN "none" ELSE op[t]
  BY DEF TypeOK, Around, Continue
<1> QED BY <1>1, <1>2, <1>3, <1>4, <1>5, <1>6 DEF AroundOK

(* get() takes a reference that the block counts.                          *)
LEMMA GetRefStep ==
  ASSUME CountInv, NEW t \in Threads, GetRef(t), Around(t, outcome[t])
  PROVE  CountInv'
<1>1. TypeOK /\ ThreadState(t) /\ outcome[t] \in {"none", "empty", "exchanged"}
  BY DEF CountInv, TypeOK
<1>2. AroundOK(t)
  BY <1>1, AroundType
<1>3. /\ pc[t] = "get_ref" /\ Label(t) = "get_ref" /\ op[t] = "Push" /\ alive
      /\ got[t] \in Blocks /\ todo[t] = nullptr /\ ptr[t] \in Blocks /\ diff[t] = 0
      /\ top[t] = NoPacked /\ holder[t] = NoPacked
      /\ expected[t].block = got[t] /\ expected[t].count > 0
  BY <1>1 DEF TypeOK, GetRef, tvars, fasts, mvars, uvars, cvars, Label, ThreadState, CallOf,
     PointersOf, ExpectedOf, Known, PushLabels, PopLabels, Exchanging
<1>4. /\ pc'[t] = "notify" /\ Label(t)' = "notify" /\ op'[t] = "Push"
      /\ ret' = ret /\ todo' = todo /\ top' = top /\ holder' = holder /\ ptr' = ptr
      /\ got' = got /\ expected' = expected /\ diff' = diff
      /\ packedPtr' = packedPtr /\ live' = live /\ prev_' = prev_ /\ alive' = alive
      /\ refCount' = [refCount EXCEPT ![got[t]] = @ + 1]
  BY <1>1, <1>3, <1>2 DEF TypeOK, Label, GetRef, tvars, fasts, mvars, uvars, cvars, AroundOK
<1>5. PtrTypes'
  BY <1>1, <1>3, <1>4 DEF TypeOK, PtrTypes, Labels, NoPacked, Packed, GetRef, tvars, fasts,
     mvars, uvars, cvars
<1>6. TypeOK'
  BY <1>1, <1>5, <1>2 DEF TypeOK, PtrTypes, AroundOK
<1>7. Frame(t)
  BY <1>1, <1>4, <1>2 DEF TypeOK, Frame, GetRef, tvars, fasts, mvars, uvars, cvars, AroundOK
<1>8. ThreadState(t)'
  BY <1>1, <1>3, <1>4, BlocksAssumption DEF TypeOK, ThreadState, CallOf, PointersOf,
     ExpectedOf, Known, PushLabels, PopLabels, Exchanging, NoPacked, Packed
<1>9. KeepsNew(t)
  BY <1>1, <1>3, <1>4 DEF TypeOK, KeepsNew, Makes, Exchanging
<1>10. CountsFollow(t)
  <2>1. ASSUME NEW b \in Blocks
        PROVE  /\ RefsOf(t, b)' = RefsOf(t, b) + One(got[t] = b)
               /\ packedPtr.block = b /\ packedPtr.count # 0 => LocalRefsOf(t, b)' = LocalRefsOf(t, b)
    BY <1>1, <1>3, <1>4, BlocksAssumption DEF TypeOK, RefsOf, LocalRefsOf, One, NoPacked,
       Packed
  <2>2. ASSUME NEW b \in Blocks PROVE refCount'[b] = refCount[b] + One(got[t] = b) /\ One(got[t] = b) \in Int
    BY <1>1, <1>3, <1>4 DEF TypeOK, One
  <2>3. ASSUME NEW b \in Blocks PROVE One(got[t] = b) > 0 => Shared(t, b)
    BY <1>1, <1>3 DEF TypeOK, One, Shared
  <2>4. ASSUME NEW b \in live PROVE One(got[t] = b) < 0 => refCount[b] + One(got[t] = b) >= 1
    BY <1>1, <1>3, <1>4 DEF TypeOK, One
  <2> QED BY <2>1, <2>2, <2>3, <2>4, FollowedBy DEF CountsFollow
<1> QED BY <1>3, <1>4, <1>6, <1>7, <1>8, <1>9, <1>10, CountStep

(* get() finds that its local reference was moved, or tries again.         *)
LEMMA GetNotifyFailsStep ==
  ASSUME CountInv, NEW t \in Threads, GetNotifyFails(t), Around(t, outcome[t])
  PROVE  CountInv'
<1>1. TypeOK /\ ThreadState(t) /\ outcome[t] \in {"none", "empty", "exchanged"}
  BY DEF CountInv, TypeOK
<1>2. AroundOK(t)
  BY <1>1, AroundType
<1>3. /\ pc[t] = "notify" /\ Label(t) = "notify" /\ op[t] = "Push" /\ alive
      /\ got[t] \in Blocks /\ todo[t] = nullptr /\ ptr[t] \in Blocks /\ diff[t] = 0
      /\ top[t] = NoPacked /\ holder[t] = NoPacked
  BY <1>1 DEF TypeOK, GetNotifyFails, GoTo, tvars, fasts, mvars, uvars, cvars, Label, ThreadState,
     CallOf, PointersOf, ExpectedOf, Known, PushLabels, PopLabels, Exchanging
<1>4. PICK l \in {"notify", "get_unref"}, e \in {packedPtr, NoPacked} :
        /\ GoTo(t, l, e)
        /\ l = "notify" => e = packedPtr /\ packedPtr.block = got[t] /\ packedPtr.count # 0
        /\ l = "get_unref" => packedPtr.block # got[t] \/ packedPtr.count = 0
        /\ UNCHANGED <<packedPtr, mvars, ret, todo, fasts, ptr, got, diff>>
  BY DEF GetNotifyFails
<1>5. /\ pc' = [pc EXCEPT ![t] = l] /\ expected' = [expected EXCEPT ![t] = e] /\ op'[t] = "Push"
      /\ pc'[t] = l /\ Label(t)' = l /\ expected'[t] = e
      /\ ret' = ret /\ todo' = todo /\ top' = top /\ holder' = holder /\ ptr' = ptr
      /\ got' = got /\ diff' = diff
      /\ packedPtr' = packedPtr /\ live' = live /\ prev_' = prev_ /\ alive' = alive
      /\ refCount' = refCount
  BY <1>1, <1>3, <1>2, <1>4 DEF TypeOK, Label, GoTo, tvars, fasts, mvars, uvars, cvars,
     AroundOK
<1>6. PtrTypes'
  BY <1>1, <1>3, <1>5, BlocksAssumption, <1>4 DEF TypeOK, PtrTypes, Labels, NoPacked, Packed,
     GetNotifyFails, GoTo, tvars, fasts, mvars, uvars, cvars
<1>7. TypeOK'
  BY <1>1, <1>6, <1>2 DEF TypeOK, PtrTypes, AroundOK
<1>8. Frame(t)
  BY <1>1, <1>5, <1>2 DEF TypeOK, Frame, GetNotifyFails, GoTo, tvars, fasts, mvars, uvars,
     cvars, AroundOK
<1>9. ThreadState(t)'
  BY <1>1, <1>3, <1>5, BlocksAssumption, <1>4 DEF TypeOK, ThreadState, CallOf, PointersOf,
     ExpectedOf, Known, PushLabels, PopLabels, Exchanging, NoPacked, Packed
<1>10. KeepsNew(t)
  BY <1>1, <1>3, <1>5, <1>4 DEF TypeOK, KeepsNew, Makes, Exchanging
<1>11. CountsFollow(t)
  <2>1. ASSUME NEW b \in Blocks
        PROVE  /\ RefsOf(t, b)' = RefsOf(t, b) + 0
               /\ packedPtr.block = b /\ packedPtr.count # 0 => LocalRefsOf(t, b)' = LocalRefsOf(t, b)
    BY <1>1, <1>3, <1>5, BlocksAssumption, <1>4 DEF TypeOK, RefsOf, LocalRefsOf, One,
       NoPacked, Packed
  <2>2. ASSUME NEW b \in Blocks PROVE refCount'[b] = refCount[b] + 0 /\ 0 \in Int
    BY <1>1, <1>3, <1>5 DEF TypeOK, One
  <2>3. ASSUME NEW b \in Blocks PROVE 0 > 0 => Shared(t, b)
    BY <1>1, <1>3 DEF TypeOK, One, Shared
  <2>4. ASSUME NEW b \in live PROVE 0 < 0 => refCount[b] + 0 >= 1
    BY <1>1, <1>3, <1>5 DEF TypeOK, One
  <2> QED BY <2>1, <2>2, <2>3, <2>4, FollowedBy DEF CountsFollow
<1> QED BY <1>3, <1>5, <1>7, <1>8, <1>9, <1>10, <1>11, CountStep

(* get() gives up a reference where the local one was moved to.            *)
LEMMA GetUnrefStep ==
  ASSUME CountInv, NEW t \in Threads, GetUnref(t, "assign"), Around(t, outcome[t])
  PROVE  CountInv'
<1>1. TypeOK /\ ThreadState(t) /\ outcome[t] \in {"none", "empty", "exchanged"}
  BY DEF CountInv, TypeOK
<1>2. AroundOK(t)
  BY <1>1, AroundType
<1>3. /\ pc[t] = "get_unref" /\ Label(t) = "get_unref" /\ op[t] = "Push" /\ alive
      /\ got[t] \in Blocks /\ todo[t] = nullptr /\ ptr[t] \in Blocks /\ diff[t] = 0
      /\ top[t] = NoPacked /\ holder[t] = NoPacked
  BY <1>1 DEF TypeOK, GetUnref, tvars, fasts, mvars, uvars, cvars, Label, ThreadState, CallOf,
     PointersOf, ExpectedOf, Known, PushLabels, PopLabels, Exchanging
<1>4. got[t] \in live /\ refCount[got[t]] >= 2
  <2>1. RefsOf(t, got[t]) >= LocalRefsOf(t, got[t]) + 2
    BY <1>1, <1>3, BlocksAssumption DEF TypeOK, RefsOf, LocalRefsOf, One, NoPacked, Packed
  <2>2. RefsOf(t, got[t]) \in Nat /\ LocalRefsOf(t, got[t]) \in Nat
    BY <1>1, RefsOfType DEF TypeOK
  <2>3. got[t] \in live
    BY <1>3, <2>1, <2>2, ReferencedIsLive
  <2>4. refCount[got[t]] >= One(InHead(got[t])) + NodeRefs(got[t]) + RefsOf(t, got[t]) - LocalRefsOf(t, got[t])
    BY <2>3, RefCountCovers
  <2>5. One(InHead(got[t])) \in 0 .. 1 /\ NodeRefs(got[t]) \in Nat /\ refCount[got[t]] \in Nat
    BY <1>1, <1>3, ReferencesType
  <2> QED BY <2>1, <2>2, <2>3, <2>4, <2>5
<1>5. /\ pc'[t] = "assign" /\ Label(t)' = "assign" /\ op'[t] = "Push"
      /\ ret' = ret /\ todo' = todo /\ top' = top /\ holder' = holder /\ ptr' = ptr
      /\ got' = got /\ expected' = expected /\ diff' = diff
      /\ packedPtr' = packedPtr /\ live' = live /\ prev_' = prev_ /\ alive' = alive
      /\ refCount' = [refCount EXCEPT ![got[t]] = @ - 1]
      /\ got[t] \in live /\ refCount[got[t]] >= 2
  BY <1>1, <1>3, <1>2, <1>4 DEF TypeOK, Label, GetUnref, tvars, fasts, mvars, uvars, cvars,
     AroundOK
<1>6. PtrTypes'
  BY <1>1, <1>3, <1>5 DEF TypeOK, PtrTypes, Labels, NoPacked, Packed, GetUnref, tvars, fasts,
     mvars, uvars, cvars
<1>7. TypeOK'
  BY <1>1, <1>6, <1>2 DEF TypeOK, PtrTypes, AroundOK
<1>8. Frame(t)
  BY <1>1, <1>5, <1>2 DEF TypeOK, Frame, GetUnref, tvars, fasts, mvars, uvars, cvars, AroundOK
<1>9. ThreadState(t)'
  BY <1>1, <1>3, <1>5, BlocksAssumption DEF TypeOK, ThreadState, CallOf, PointersOf,
     ExpectedOf, Known, PushLabels, PopLabels, Exchanging, NoPacked, Packed
<1>10. KeepsNew(t)
  BY <1>1, <1>3, <1>5 DEF TypeOK, KeepsNew, Makes, Exchanging
<1>11. CountsFollow(t)
  <2>1. ASSUME NEW b \in Blocks
        PROVE  /\ RefsOf(t, b)' = RefsOf(t, b) + (0 - One(got[t] = b))
               /\ packedPtr.block = b /\ packedPtr.count # 0 => LocalRefsOf(t, b)' = LocalRefsOf(t, b)
    BY <1>1, <1>3, <1>5, BlocksAssumption DEF TypeOK, RefsOf, LocalRefsOf, One, NoPacked,
       Packed
  <2>2. ASSUME NEW b \in Blocks
        PROVE  refCount'[b] = refCount[b] + (0 - One(got[t] = b)) /\ (0 - One(got[t] = b)) \in Int
    BY <1>1, <1>3, <1>5 DEF TypeOK, One
  <2>3. ASSUME NEW b \in Blocks PROVE (0 - One(got[t] = b)) > 0 => Shared(t, b)
    BY <1>1, <1>3 DEF TypeOK, One, Shared
  <2>4. ASSUME NEW b \in live PROVE (0 - One(got[t] = b)) < 0 => refCount[b] + (0 - One(got[t] = b)) >= 1
    BY <1>1, <1>3, <1>5 DEF TypeOK, One
  <2> QED BY <2>1, <2>2, <2>3, <2>4, FollowedBy DEF CountsFollow
<1> QED BY <1>3, <1>5, <1>7, <1>8, <1>9, <1>10, <1>11, CountStep

(* destroy() of top tries again.                                           *)
LEMMA ReleaseTopFailsStep ==
  ASSUME CountInv, NEW t \in Threads, ReleaseFails(t, "top"), Around(t, outcome[t])
  PROVE  CountInv'
<1>1. TypeOK /\ ThreadState(t) /\ outcome[t] \in {"none", "empty", "exchanged"}
  BY DEF CountInv, TypeOK
<1>2. AroundOK(t)
  BY <1>1, AroundType
<1>3. /\ pc[t] = "release_top" /\ Label(t) = "release_top" /\ op[t] = "Pop" /\ alive
      /\ todo[t] = nullptr /\ got[t] = nullptr /\ ptr[t] = nullptr /\ diff[t] = 0
      /\ top[t].block \in Blocks /\ top[t].count > 0 /\ Known(holder[t])
      /\ expected[t].block = top[t].block /\ expected[t].count > 0
  BY <1>1 DEF TypeOK, ReleaseFails, ReleaseOf, FastPtr, tvars, fasts, mvars, uvars, cvars, Label,
     ThreadState, CallOf, PointersOf, ExpectedOf, Known, PushLabels, PopLabels, Exchanging
<1>4. /\ pc' = pc /\ Label(t)' = Label(t) /\ op'[t] = op[t]
      /\ expected'[t] = packedPtr /\ packedPtr.block = top[t].block /\ packedPtr.count # 0
      /\ ret' = ret /\ todo' = todo /\ top' = top /\ holder' = holder /\ ptr' = ptr
      /\ got' = got /\ diff' = diff
      /\ packedPtr' = packedPtr /\ live' = live /\ prev_' = prev_ /\ alive' = alive
      /\ refCount' = refCount
  BY <1>1, <1>3, <1>2 DEF TypeOK, Label, ReleaseFails, ReleaseOf, FastPtr, tvars, fasts, mvars,
     uvars, cvars, AroundOK
<1>5. PtrTypes'
  BY <1>1, <1>3, <1>4 DEF TypeOK, PtrTypes, Labels, NoPacked, Packed, ReleaseFails, ReleaseOf,
     FastPtr, tvars, fasts, mvars, uvars, cvars
<1>6. TypeOK'
  BY <1>1, <1>5, <1>2 DEF TypeOK, PtrTypes, AroundOK
<1>7. Frame(t)
  BY <1>1, <1>4, <1>2 DEF TypeOK, Frame, ReleaseFails, ReleaseOf, FastPtr, tvars, fasts, mvars,
     uvars, cvars, AroundOK
<1>8. ThreadState(t)'
  BY <1>1, <1>3, <1>4, BlocksAssumption DEF TypeOK, ThreadState, CallOf, PointersOf,
     ExpectedOf, Known, PushLabels, PopLabels, Exchanging, NoPacked, Packed
<1>9. KeepsNew(t)
  BY <1>1, <1>3, <1>4, BlocksAssumption DEF TypeOK, KeepsNew, Makes, Exchanging
<1>10. CountsFollow(t)
  <2>1. ASSUME NEW b \in Blocks
        PROVE  /\ RefsOf(t, b)' = RefsOf(t, b) + 0
               /\ packedPtr.block = b /\ packedPtr.count # 0 => LocalRefsOf(t, b)' = LocalRefsOf(t, b)
    BY <1>1, <1>3, <1>4, BlocksAssumption DEF TypeOK, RefsOf, LocalRefsOf, One, NoPacked,
       Packed
  <2>2. ASSUME NEW b \in Blocks PROVE refCount'[b] = refCount[b] + 0 /\ 0 \in Int
    BY <1>1, <1>3, <1>4 DEF TypeOK, One
  <2>3. ASSUME NEW b \in Blocks PROVE 0 > 0 => Shared(t, b)
    BY <1>1, <1>3 DEF TypeOK, One, Shared
  <2>4. ASSUME NEW b \in live PROVE 0 < 0 => refCount[b] + 0 >= 1
    BY <1>1, <1>3, <1>4 DEF TypeOK, One
  <2> QED BY <2>1, <2>2, <2>3, <2>4, FollowedBy DEF CountsFollow
<1> QED BY <1>3, <1>4, <1>6, <1>7, <1>8, <1>9, <1>10, CountStep

(* destroy() of holder tries again.                                        *)
LEMMA ReleaseHolderFailsStep ==
  ASSUME CountInv, NEW t \in Threads, ReleaseFails(t, "holder"), Around(t, outcome[t])
  PROVE  CountInv'
<1>1. TypeOK /\ ThreadState(t) /\ outcome[t] \in {"none", "empty", "exchanged"}
  BY DEF CountInv, TypeOK
<1>2. AroundOK(t)
  BY <1>1, AroundType
<1>3. /\ pc[t] = "release_holder" /\ Label(t) = "release_holder" /\ op[t] \in {"Push", "Pop"} /\ alive
      /\ todo[t] = nullptr /\ got[t] = nullptr /\ diff[t] = 0
      /\ op[t] = "Push" => top[t] = NoPacked
      /\ op[t] = "Pop" => top[t].block \in Blocks /\ top[t].count > 0
      /\ holder[t].block \in Blocks /\ holder[t].count > 0
      /\ expected[t].block = holder[t].block /\ expected[t].count > 0
  BY <1>1 DEF TypeOK, ReleaseFails, ReleaseOf, FastPtr, tvars, fasts, mvars, uvars, cvars, Label,
     ThreadState, CallOf, PointersOf, ExpectedOf, Known, PushLabels, PopLabels, Exchanging
<1>4. /\ pc' = pc /\ Label(t)' = Label(t) /\ op'[t] = op[t]
      /\ expected'[t] = packedPtr /\ packedPtr.block = holder[t].block /\ packedPtr.count # 0
      /\ ret' = ret /\ todo' = todo /\ top' = top /\ holder' = holder /\ ptr' = ptr
      /\ got' = got /\ diff' = diff
      /\ packedPtr' = packedPtr /\ live' = live /\ prev_' = prev_ /\ alive' = alive
      /\ refCount' = refCount
  BY <1>1, <1>3, <1>2 DEF TypeOK, Label, ReleaseFails, ReleaseOf, FastPtr, tvars, fasts, mvars,
     uvars, cvars, AroundOK
<1>5. PtrTypes'
  BY <1>1, <1>3, <1>4 DEF TypeOK, PtrTypes, Labels, NoPacked, Packed, ReleaseFails, ReleaseOf,
     FastPtr, tvars, fasts, mvars, uvars, cvars
<1>6. TypeOK'
  BY <1>1, <1>5, <1>2 DEF TypeOK, PtrTypes, AroundOK
<1>7. Frame(t)
  BY <1>1, <1>4, <1>2 DEF TypeOK, Frame, ReleaseFails, ReleaseOf, FastPtr, tvars, fasts, mvars,
     uvars, cvars, AroundOK
<1>8. ThreadState(t)'
  BY <1>1, <1>3, <1>4, BlocksAssumption DEF TypeOK, ThreadState, CallOf, PointersOf,
     ExpectedOf, Known, PushLabels, PopLabels, Exchanging, NoPacked, Packed
<1>9. KeepsNew(t)
  BY <1>1, <1>3, <1>4, BlocksAssumption DEF TypeOK, KeepsNew, Makes, Exchanging
<1>10. CountsFollow(t)
  <2>1. ASSUME NEW b \in Blocks
        PROVE  /\ RefsOf(t, b)' = RefsOf(t, b) + 0
               /\ packedPtr.block = b /\ packedPtr.count # 0 => LocalRefsOf(t, b)' = LocalRefsOf(t, b)
    BY <1>1, <1>3, <1>4, BlocksAssumption DEF TypeOK, RefsOf, LocalRefsOf, One, NoPacked,
       Packed
  <2>2. ASSUME NEW b \in Blocks PROVE refCount'[b] = refCount[b] + 0 /\ 0 \in Int
    BY <1>1, <1>3, <1>4 DEF TypeOK, One
  <2>3. ASSUME NEW b \in Blocks PROVE 0 > 0 => Shared(t, b)
    BY <1>1, <1>3 DEF TypeOK, One, Shared
  <2>4. ASSUME NEW b \in live PROVE 0 < 0 => refCount[b] + 0 >= 1
    BY <1>1, <1>3, <1>4 DEF TypeOK, One
  <2> QED BY <2>1, <2>2, <2>3, <2>4, FollowedBy DEF CountsFollow
<1> QED BY <1>3, <1>4, <1>6, <1>7, <1>8, <1>9, <1>10, CountStep

(* destroy() of top gives up a reference that the block counts.            *)
LEMMA ReleaseTopMovedStep ==
  ASSUME CountInv, NEW t \in Threads, ReleaseMoved(t, "top", After(t, "top"), Rest(t, "top")),
         Around(t, outcome[t])
  PROVE  CountInv'
<1>1. TypeOK /\ ThreadState(t) /\ outcome[t] \in {"none", "empty", "exchanged"}
  BY DEF CountInv, TypeOK
<1>2. AroundOK(t)
  BY <1>1, AroundType
<1>3. /\ pc[t] = "release_top" /\ Label(t) = "release_top" /\ op[t] = "Pop" /\ alive
      /\ todo[t] = nullptr /\ got[t] = nullptr /\ ptr[t] = nullptr /\ diff[t] = 0
      /\ top[t].block \in Blocks /\ top[t].count > 0 /\ Known(holder[t])
      /\ expected[t].block = top[t].block /\ expected[t].count > 0
  BY <1>1 DEF TypeOK, ReleaseMoved, ReleaseOf, FastPtr, Leave, CallUnref, After, Rest, tvars,
     fasts, mvars, uvars, cvars, Label, ThreadState, CallOf, PointersOf, ExpectedOf, Known,
     PushLabels, PopLabels, Exchanging
<1>4. /\ AfterTop(t) \in {"idle", "release_top", "copy"}
      /\ AfterTop(t) = "idle" <=> holder[t].block = nullptr
      /\ AfterTop(t) = "copy" => holder[t].block # Bottom
  BY <1>3, BlocksAssumption DEF AfterTop, Known, NoPacked, Packed
<1>5. /\ pc'[t] = "unref" /\ ret'[t] = AfterTop(t) /\ Label(t)' = AfterTop(t) /\ op'[t] = op[t]
      /\ todo'[t] = top[t].block /\ expected'[t] = NoPacked
      /\ top'[t] = holder[t] /\ holder'[t] = NoPacked
      /\ packedPtr.block # top[t].block \/ packedPtr.count = 0
      /\ ptr' = ptr /\ got' = got /\ diff' = diff
      /\ packedPtr' = packedPtr /\ live' = live /\ prev_' = prev_ /\ alive' = alive
      /\ refCount' = refCount
  BY <1>1, <1>3, <1>2 DEF TypeOK, Label, ReleaseMoved, ReleaseOf, FastPtr, Leave, CallUnref,
     After, Rest, tvars, fasts, mvars, uvars, cvars, AroundOK
<1>6. PtrTypes'
  BY <1>1, <1>3, <1>5, <1>4, BlocksAssumption DEF TypeOK, PtrTypes, Labels, NoPacked, Packed,
     ReleaseMoved, ReleaseOf, FastPtr, Leave, CallUnref, After, Rest, tvars, fasts, mvars, uvars,
     cvars
<1>7. TypeOK'
  BY <1>1, <1>6, <1>2 DEF TypeOK, PtrTypes, AroundOK
<1>8. Frame(t)
  BY <1>1, <1>5, <1>2 DEF TypeOK, Frame, ReleaseMoved, ReleaseOf, FastPtr, Leave, CallUnref,
     After, Rest, tvars, fasts, mvars, uvars, cvars, AroundOK
<1>9. ThreadState(t)'
  BY <1>1, <1>3, <1>5, BlocksAssumption, <1>4 DEF TypeOK, ThreadState, CallOf, PointersOf,
     ExpectedOf, Known, PushLabels, PopLabels, Exchanging, NoPacked, Packed
<1>10. KeepsNew(t)
  BY <1>1, <1>3, <1>5, <1>4, BlocksAssumption DEF TypeOK, KeepsNew, Makes, Exchanging
<1>11. CountsFollow(t)
  <2>1. ASSUME NEW b \in Blocks
        PROVE  /\ RefsOf(t, b)' = RefsOf(t, b) + 0
               /\ packedPtr.block = b /\ packedPtr.count # 0 => LocalRefsOf(t, b)' = LocalRefsOf(t, b)
    BY <1>1, <1>3, <1>5, BlocksAssumption DEF TypeOK, RefsOf, LocalRefsOf, One, NoPacked,
       Packed
  <2>2. ASSUME NEW b \in Blocks PROVE refCount'[b] = refCount[b] + 0 /\ 0 \in Int
    BY <1>1, <1>3, <1>5 DEF TypeOK, One
  <2>3. ASSUME NEW b \in Blocks PROVE 0 > 0 => Shared(t, b)
    BY <1>1, <1>3 DEF TypeOK, One, Shared
  <2>4. ASSUME NEW b \in live PROVE 0 < 0 => refCount[b] + 0 >= 1
    BY <1>1, <1>3, <1>5 DEF TypeOK, One
  <2> QED BY <2>1, <2>2, <2>3, <2>4, FollowedBy DEF CountsFollow
<1> QED BY <1>3, <1>5, <1>7, <1>8, <1>9, <1>10, <1>11, CountStep

(* destroy() of holder gives up a reference that the block counts.         *)
LEMMA ReleaseHolderMovedStep ==
  ASSUME CountInv, NEW t \in Threads, ReleaseMoved(t, "holder", After(t, "holder"), Rest(t, "holder")),
         Around(t, outcome[t])
  PROVE  CountInv'
<1>1. TypeOK /\ ThreadState(t) /\ outcome[t] \in {"none", "empty", "exchanged"}
  BY DEF CountInv, TypeOK
<1>2. AroundOK(t)
  BY <1>1, AroundType
<1>3. /\ pc[t] = "release_holder" /\ Label(t) = "release_holder" /\ op[t] \in {"Push", "Pop"} /\ alive
      /\ todo[t] = nullptr /\ got[t] = nullptr /\ diff[t] = 0
      /\ op[t] = "Push" => top[t] = NoPacked
      /\ op[t] = "Pop" => top[t].block \in Blocks /\ top[t].count > 0
      /\ holder[t].block \in Blocks /\ holder[t].count > 0
      /\ expected[t].block = holder[t].block /\ expected[t].count > 0
  BY <1>1 DEF TypeOK, ReleaseMoved, ReleaseOf, FastPtr, Leave, CallUnref, After, Rest, tvars,
     fasts, mvars, uvars, cvars, Label, ThreadState, CallOf, PointersOf, ExpectedOf, Known,
     PushLabels, PopLabels, Exchanging
<1>4. /\ AfterExchange(t) \in {"idle", "get", "take", "drop"}
      /\ AfterExchange(t) = "idle" => op[t] = "Push" /\ ptr[t] = nullptr
      /\ AfterExchange(t) = "get" => op[t] = "Push" /\ ptr[t] # nullptr
      /\ AfterExchange(t) = "take" => op[t] = "Pop" /\ ptr[t] = nullptr
      /\ AfterExchange(t) = "drop" => op[t] = "Pop" /\ ptr[t] # nullptr
  BY <1>3 DEF AfterExchange
<1>5. /\ pc'[t] = "unref" /\ ret'[t] = AfterExchange(t) /\ Label(t)' = AfterExchange(t) /\ op'[t] = op[t]
      /\ todo'[t] = holder[t].block /\ expected'[t] = NoPacked
      /\ top'[t] = top[t] /\ holder'[t] = NoPacked
      /\ packedPtr.block # holder[t].block \/ packedPtr.count = 0
      /\ ptr' = ptr /\ got' = got /\ diff' = diff
      /\ packedPtr' = packedPtr /\ live' = live /\ prev_' = prev_ /\ alive' = alive
      /\ refCount' = refCount
  BY <1>1, <1>3, <1>2 DEF TypeOK, Label, ReleaseMoved, ReleaseOf, FastPtr, Leave, CallUnref,
     After, Rest, tvars, fasts, mvars, uvars, cvars, AroundOK
<1>6. PtrTypes'
  BY <1>1, <1>3, <1>5, <1>4, BlocksAssumption DEF TypeOK, PtrTypes, Labels, NoPacked, Packed,
     ReleaseMoved, ReleaseOf, FastPtr, Leave, CallUnref, After, Rest, tvars, fasts, mvars, uvars,
     cvars
<1>7. TypeOK'
  BY <1>1, <1>6, <1>2 DEF TypeOK, PtrTypes, AroundOK
<1>8. Frame(t)
  BY <1>1, <1>5, <1>2 DEF TypeOK, Frame, ReleaseMoved, ReleaseOf, FastPtr, Leave, CallUnref,
     After, Rest, tvars, fasts, mvars, uvars, cvars, AroundOK
<1>9. ThreadState(t)'
  BY <1>1, <1>3, <1>5, BlocksAssumption, <1>4 DEF TypeOK, ThreadState, CallOf, PointersOf,
     ExpectedOf, Known, PushLabels, PopLabels, Exchanging, NoPacked, Packed
<1>10. KeepsNew(t)
  BY <1>1, <1>3, <1>5, <1>4, BlocksAssumption DEF TypeOK, KeepsNew, Makes, Exchanging
<1>11. CountsFollow(t)
  <2>1. ASSUME NEW b \in Blocks
        PROVE  /\ RefsOf(t, b)' = RefsOf(t, b) + 0
               /\ packedPtr.block = b /\ packedPtr.count # 0 => LocalRefsOf(t, b)' = LocalRefsOf(t, b)
    BY <1>1, <1>3, <1>5, BlocksAssumption DEF TypeOK, RefsOf, LocalRefsOf, One, NoPacked,
       Packed
  <2>2. ASSUME NEW b \in Blocks PROVE refCount'[b] = refCount[b] + 0 /\ 0 \in Int
    BY <1>1, <1>3, <1>5 DEF TypeOK, One
  <2>3. ASSUME NEW b \in Blocks PROVE 0 > 0 => Shared(t, b)
    BY <1>1, <1>3 DEF TypeOK, One, Shared
  <2>4. ASSUME NEW b \in live PROVE 0 < 0 => refCount[b] + 0 >= 1
    BY <1>1, <1>3, <1>5 DEF TypeOK, One
  <2> QED BY <2>1, <2>2, <2>3, <2>4, FollowedBy DEF CountsFollow
<1> QED BY <1>3, <1>5, <1>7, <1>8, <1>9, <1>10, <1>11, CountStep

(* compareExchange adds the local count to the block.                      *)
LEMMA AddLocalStep ==
  ASSUME CountInv, NEW t \in Threads, AddLocal(t), Around(t, outcome[t])
  PROVE  CountInv'
<1>1. TypeOK /\ ThreadState(t) /\ outcome[t] \in {"none", "empty", "exchanged"}
  BY DEF CountInv, TypeOK
<1>2. AroundOK(t)
  BY <1>1, AroundType
<1>3. /\ pc[t] = "exchange" /\ Label(t) = "exchange" /\ op[t] \in {"Push", "Pop"} /\ alive
      /\ todo[t] = nullptr /\ got[t] = nullptr /\ ptr[t] \in Blocks /\ diff[t] = 0
      /\ op[t] = "Push" => top[t] = NoPacked
      /\ op[t] = "Pop" => top[t].block \in Blocks /\ top[t].count > 0
      /\ holder[t].block \in Blocks /\ holder[t].count > 0
      /\ expected[t].block = holder[t].block /\ expected[t].count # 0
  BY <1>1 DEF TypeOK, AddLocal, tvars, fasts, mvars, uvars, cvars, Label, ThreadState, CallOf,
     PointersOf, ExpectedOf, Known, PushLabels, PopLabels, Exchanging
<1>4. \A n \in Blocks : Makes(t, n) => prev_[n] # nullptr
  BY <1>3 DEF CountInv, NewNodes, Exchanging
<1>5. /\ pc'[t] = "zero" /\ Label(t)' = "zero" /\ diff'[t] = expected[t].count /\ op'[t] = op[t]
      /\ ret' = ret /\ todo' = todo /\ top' = top /\ holder' = holder /\ ptr' = ptr
      /\ got' = got /\ expected' = expected
      /\ packedPtr' = packedPtr /\ live' = live /\ prev_' = prev_ /\ alive' = alive
      /\ refCount' = [refCount EXCEPT ![holder[t].block] = @ + expected[t].count]
  BY <1>1, <1>3, <1>2 DEF TypeOK, Label, AddLocal, tvars, fasts, mvars, uvars, cvars, AroundOK
<1>6. PtrTypes'
  BY <1>1, <1>3, <1>5 DEF TypeOK, PtrTypes, Labels, NoPacked, Packed, AddLocal, tvars, fasts,
     mvars, uvars, cvars
<1>7. TypeOK'
  BY <1>1, <1>6, <1>2 DEF TypeOK, PtrTypes, AroundOK
<1>8. Frame(t)
  BY <1>1, <1>5, <1>2 DEF TypeOK, Frame, AddLocal, tvars, fasts, mvars, uvars, cvars, AroundOK
<1>9. ThreadState(t)'
  BY <1>1, <1>3, <1>5, BlocksAssumption DEF TypeOK, ThreadState, CallOf, PointersOf,
     ExpectedOf, Known, PushLabels, PopLabels, Exchanging, NoPacked, Packed
<1>10. KeepsNew(t)
  BY <1>1, <1>3, <1>5, <1>4 DEF TypeOK, KeepsNew, Makes, Exchanging
<1>11. CountsFollow(t)
  <2>1. ASSUME NEW b \in Blocks
        PROVE  /\ RefsOf(t, b)' = RefsOf(t, b) + (IF holder[t].block = b THEN expected[t].count ELSE 0)
               /\ packedPtr.block = b /\ packedPtr.count # 0 => LocalRefsOf(t, b)' = LocalRefsOf(t, b)
    BY <1>1, <1>3, <1>5, BlocksAssumption DEF TypeOK, RefsOf, LocalRefsOf, One, NoPacked,
       Packed
  <2>2. ASSUME NEW b \in Blocks
        PROVE  /\ refCount'[b] = refCount[b] + (IF holder[t].block = b THEN expected[t].count ELSE 0)
               /\ (IF holder[t].block = b THEN expected[t].count ELSE 0) \in Int
    BY <1>1, <1>3, <1>5 DEF TypeOK, One
  <2>3. ASSUME NEW b \in Blocks
        PROVE  (IF holder[t].block = b THEN expected[t].count ELSE 0) > 0 => Shared(t, b)
    BY <1>1, <1>3 DEF TypeOK, One, Shared
  <2>4. ASSUME NEW b \in live
        PROVE  (IF holder[t].block = b THEN expected[t].count ELSE 0) < 0 =>
                 refCount[b] + (IF holder[t].block = b THEN expected[t].count ELSE 0) >= 1
    BY <1>1, <1>3, <1>5 DEF TypeOK, One
  <2> QED BY <2>1, <2>2, <2>3, <2>4, FollowedBy DEF CountsFollow
<1> QED BY <1>3, <1>5, <1>7, <1>8, <1>9, <1>10, <1>11, CountStep

(* compareExchange finds that packedPtr has changed.                       *)
LEMMA ZeroLocalFailsStep ==
  ASSUME CountInv, NEW t \in Threads, ZeroLocalFails(t), Around(t, outcome[t])
  PROVE  CountInv'
<1>1. TypeOK /\ ThreadState(t) /\ outcome[t] \in {"none", "empty", "exchanged"}
  BY DEF CountInv, TypeOK
<1>2. AroundOK(t)
  BY <1>1, AroundType
<1>3. /\ pc[t] = "zero" /\ Label(t) = "zero" /\ op[t] \in {"Push", "Pop"} /\ alive
      /\ todo[t] = nullptr /\ got[t] = nullptr /\ ptr[t] \in Blocks
      /\ op[t] = "Push" => top[t] = NoPacked
      /\ op[t] = "Pop" => top[t].block \in Blocks /\ top[t].count > 0
      /\ holder[t].block \in Blocks /\ holder[t].count > 0
  BY <1>1 DEF TypeOK, ZeroLocalFails, GoTo, tvars, fasts, mvars, uvars, cvars, Label, ThreadState,
     CallOf, PointersOf, ExpectedOf, Known, PushLabels, PopLabels, Exchanging
<1>4. \A n \in Blocks : Makes(t, n) => prev_[n] # nullptr
  BY <1>3 DEF CountInv, NewNodes, Exchanging
<1>5. /\ pc'[t] = "take_back" /\ Label(t)' = "take_back" /\ expected'[t] = packedPtr /\ op'[t] = op[t]
      /\ ret' = ret /\ todo' = todo /\ top' = top /\ holder' = holder /\ ptr' = ptr
      /\ got' = got /\ diff' = diff
      /\ packedPtr' = packedPtr /\ live' = live /\ prev_' = prev_ /\ alive' = alive
      /\ refCount' = refCount
  BY <1>1, <1>3, <1>2 DEF TypeOK, Label, ZeroLocalFails, GoTo, tvars, fasts, mvars, uvars,
     cvars, AroundOK
<1>6. PtrTypes'
  BY <1>1, <1>3, <1>5 DEF TypeOK, PtrTypes, Labels, NoPacked, Packed, ZeroLocalFails, GoTo,
     tvars, fasts, mvars, uvars, cvars
<1>7. TypeOK'
  BY <1>1, <1>6, <1>2 DEF TypeOK, PtrTypes, AroundOK
<1>8. Frame(t)
  BY <1>1, <1>5, <1>2 DEF TypeOK, Frame, ZeroLocalFails, GoTo, tvars, fasts, mvars, uvars,
     cvars, AroundOK
<1>9. ThreadState(t)'
  BY <1>1, <1>3, <1>5, BlocksAssumption DEF TypeOK, ThreadState, CallOf, PointersOf,
     ExpectedOf, Known, PushLabels, PopLabels, Exchanging, NoPacked, Packed
<1>10. KeepsNew(t)
  BY <1>1, <1>3, <1>5, <1>4 DEF TypeOK, KeepsNew, Makes, Exchanging
<1>11. CountsFollow(t)
  <2>1. ASSUME NEW b \in Blocks
        PROVE  /\ RefsOf(t, b)' = RefsOf(t, b) + 0
               /\ packedPtr.block = b /\ packedPtr.count # 0 => LocalRefsOf(t, b)' = LocalRefsOf(t, b)
    BY <1>1, <1>3, <1>5, BlocksAssumption DEF TypeOK, RefsOf, LocalRefsOf, One, NoPacked,
       Packed
  <2>2. ASSUME NEW b \in Blocks PROVE refCount'[b] = refCount[b] + 0 /\ 0 \in Int
    BY <1>1, <1>3, <1>5 DEF TypeOK, One
  <2>3. ASSUME NEW b \in Blocks PROVE 0 > 0 => Shared(t, b)
    BY <1>1, <1>3 DEF TypeOK, One, Shared
  <2>4. ASSUME NEW b \in live PROVE 0 < 0 => refCount[b] + 0 >= 1
    BY <1>1, <1>3, <1>5 DEF TypeOK, One
  <2> QED BY <2>1, <2>2, <2>3, <2>4, FollowedBy DEF CountsFollow
<1> QED BY <1>3, <1>5, <1>7, <1>8, <1>9, <1>10, <1>11, CountStep

(* compareExchange takes back what it had added.                           *)
LEMMA TakeBackStep ==
  ASSUME CountInv, NEW t \in Threads, TakeBack(t), Around(t, outcome[t])
  PROVE  CountInv'
<1>1. TypeOK /\ ThreadState(t) /\ outcome[t] \in {"none", "empty", "exchanged"}
  BY DEF CountInv, TypeOK
<1>2. AroundOK(t)
  BY <1>1, AroundType
<1>3. /\ pc[t] = "take_back" /\ Label(t) = "take_back" /\ op[t] \in {"Push", "Pop"} /\ alive
      /\ todo[t] = nullptr /\ got[t] = nullptr /\ ptr[t] \in Blocks
      /\ op[t] = "Push" => top[t] = NoPacked
      /\ op[t] = "Pop" => top[t].block \in Blocks /\ top[t].count > 0
      /\ holder[t].block \in Blocks /\ holder[t].count > 0
  BY <1>1 DEF TypeOK, TakeBack, GoTo, tvars, fasts, mvars, uvars, cvars, Label, ThreadState,
     CallOf, PointersOf, ExpectedOf, Known, PushLabels, PopLabels, Exchanging
<1>4. \A n \in Blocks : Makes(t, n) => prev_[n] # nullptr
  BY <1>3 DEF CountInv, NewNodes, Exchanging
<1>5. PICK l \in {"exchange", "release_holder"}, e \in {expected[t], holder[t]} :
        /\ GoTo(t, l, e)
        /\ l = "exchange" => e.block = holder[t].block
        /\ l = "release_holder" => e = holder[t]
  BY DEF TakeBack, Again
<1>6. holder[t].block \in live /\ refCount[holder[t].block] >= 1 + diff[t]
  <2> DEFINE h == holder[t].block
  <2>1. diff[t] \in Nat /\ RefsOf(t, h) \in Nat /\ LocalRefsOf(t, h) \in Nat
    BY <1>1, RefsOfType DEF TypeOK
  <2>2. RefsOf(t, h) >= LocalRefsOf(t, h) + diff[t] /\ RefsOf(t, h) >= 1 + diff[t]
    BY <1>3, <2>1 DEF RefsOf, LocalRefsOf, One
  <2>3. h \in live
    BY <1>3, <2>1, <2>2, ReferencedIsLive
  <2>4. /\ refCount[h] >= One(InHead(h)) + NodeRefs(h) + RefsOf(t, h) - LocalRefsOf(t, h)
        /\ ~InHead(h) => refCount[h] >= RefsOf(t, h)
    BY <2>3, RefCountCovers
  <2>5. NodeRefs(h) \in Nat /\ refCount[h] \in Nat /\ (InHead(h) => One(InHead(h)) = 1)
    BY <1>1, <1>3, ReferencesType DEF One
  <2> HIDE DEF h
  <2>6. h \in live /\ refCount[h] >= 1 + diff[t]
    BY <2>1, <2>2, <2>3, <2>4, <2>5
  <2> QED BY <2>6 DEF h
<1>7. /\ pc' = [pc EXCEPT ![t] = l] /\ expected' = [expected EXCEPT ![t] = e] /\ op'[t] = op[t]
      /\ pc'[t] = l /\ Label(t)' = l /\ expected'[t] = e /\ diff' = [diff EXCEPT ![t] = 0] /\ diff'[t] = 0
      /\ ret' = ret /\ todo' = todo /\ top' = top /\ holder' = holder /\ ptr' = ptr /\ got' = got
      /\ packedPtr' = packedPtr /\ live' = live /\ prev_' = prev_ /\ alive' = alive
      /\ refCount' = [refCount EXCEPT ![holder[t].block] = @ - diff[t]]
  BY <1>1, <1>3, <1>2, <1>5 DEF TypeOK, Label, TakeBack, GoTo, tvars, fasts, mvars, uvars,
     cvars, AroundOK
<1>8. PtrTypes'
  BY <1>1, <1>3, <1>7, <1>5, <1>6 DEF TypeOK, PtrTypes, Labels, NoPacked, Packed, GoTo
<1>9. TypeOK'
  BY <1>1, <1>8, <1>2 DEF TypeOK, PtrTypes, AroundOK
<1>10. Frame(t)
  BY <1>1, <1>7, <1>2 DEF TypeOK, Frame, GoTo, AroundOK
<1>11. ThreadState(t)'
  BY <1>1, <1>3, <1>7, BlocksAssumption, <1>5 DEF TypeOK, ThreadState, CallOf, PointersOf,
     ExpectedOf, Known, PushLabels, PopLabels, Exchanging, NoPacked, Packed
<1>12. KeepsNew(t)
  BY <1>1, <1>3, <1>7, <1>4 DEF TypeOK, KeepsNew, Makes, Exchanging
<1>13. CountsFollow(t)
  <2>1. ASSUME NEW b \in Blocks
        PROVE  /\ RefsOf(t, b)' = RefsOf(t, b) + (IF holder[t].block = b THEN 0 - diff[t] ELSE 0)
               /\ packedPtr.block = b /\ packedPtr.count # 0 => LocalRefsOf(t, b)' = LocalRefsOf(t, b)
    BY <1>1, <1>3, <1>7, BlocksAssumption DEF TypeOK, RefsOf, LocalRefsOf, One, NoPacked,
       Packed
  <2>2. ASSUME NEW b \in Blocks
        PROVE  /\ refCount'[b] = refCount[b] + (IF holder[t].block = b THEN 0 - diff[t] ELSE 0)
               /\ (IF holder[t].block = b THEN 0 - diff[t] ELSE 0) \in Int
    <3>1. diff[t] \in Nat /\ refCount[b] \in Nat
      BY <1>1 DEF TypeOK
    <3>2. refCount'[b] = IF holder[t].block = b THEN refCount[b] - diff[t] ELSE refCount[b]
      BY <1>1, <1>7 DEF TypeOK
    <3> QED BY <3>1, <3>2
  <2>3. ASSUME NEW b \in Blocks PROVE (IF holder[t].block = b THEN 0 - diff[t] ELSE 0) > 0 => Shared(t, b)
    BY <1>1, <1>3 DEF TypeOK, One, Shared
  <2>4. ASSUME NEW b \in live
        PROVE  (IF holder[t].block = b THEN 0 - diff[t] ELSE 0) < 0 =>
                 refCount[b] + (IF holder[t].block = b THEN 0 - diff[t] ELSE 0) >= 1
    <3>1. diff[t] \in Nat /\ refCount[b] \in Nat
      BY <1>1 DEF TypeOK
    <3>2. holder[t].block = b => refCount[b] >= 1 + diff[t]
      BY <1>6
    <3> QED BY <3>1, <3>2
  <2> QED BY <2>1, <2>2, <2>3, <2>4, FollowedBy DEF CountsFollow
<1> QED BY <1>3, <1>7, <1>9, <1>10, <1>11, <1>12, <1>13, CountStep

(* compareExchange finds that packedPtr has changed.                       *)
LEMMA ExchangeFailsStep ==
  ASSUME CountInv, NEW t \in Threads, ExchangeFails(t), Around(t, outcome[t])
  PROVE  CountInv'
<1>1. TypeOK /\ ThreadState(t) /\ outcome[t] \in {"none", "empty", "exchanged"}
  BY DEF CountInv, TypeOK
<1>2. AroundOK(t)
  BY <1>1, AroundType
<1>3. /\ pc[t] = "exchange" /\ Label(t) = "exchange" /\ op[t] \in {"Push", "Pop"} /\ alive
      /\ todo[t] = nullptr /\ got[t] = nullptr /\ ptr[t] \in Blocks /\ diff[t] = 0
      /\ op[t] = "Push" => top[t] = NoPacked
      /\ op[t] = "Pop" => top[t].block \in Blocks /\ top[t].count > 0
      /\ holder[t].block \in Blocks /\ holder[t].count > 0
  BY <1>1 DEF TypeOK, ExchangeFails, GoTo, tvars, fasts, mvars, uvars, cvars, Label, ThreadState,
     CallOf, PointersOf, ExpectedOf, Known, PushLabels, PopLabels, Exchanging
<1>4. \A n \in Blocks : Makes(t, n) => prev_[n] # nullptr
  BY <1>3 DEF CountInv, NewNodes, Exchanging
<1>5. PICK l \in {"exchange", "release_holder"}, e \in {packedPtr, holder[t]} :
        /\ GoTo(t, l, e)
        /\ l = "exchange" => e.block = holder[t].block
        /\ l = "release_holder" => e = holder[t]
  BY DEF ExchangeFails, Again
<1>6. /\ pc' = [pc EXCEPT ![t] = l] /\ expected' = [expected EXCEPT ![t] = e] /\ op'[t] = op[t]
      /\ pc'[t] = l /\ Label(t)' = l /\ expected'[t] = e
      /\ ret' = ret /\ todo' = todo /\ top' = top /\ holder' = holder /\ ptr' = ptr
      /\ got' = got /\ diff' = diff
      /\ packedPtr' = packedPtr /\ live' = live /\ prev_' = prev_ /\ alive' = alive
      /\ refCount' = refCount
  BY <1>1, <1>3, <1>2, <1>5 DEF TypeOK, Label, ExchangeFails, GoTo, tvars, fasts, mvars, uvars,
     cvars, AroundOK
<1>7. PtrTypes'
  BY <1>1, <1>3, <1>6, <1>5 DEF TypeOK, PtrTypes, Labels, NoPacked, Packed, GoTo
<1>8. TypeOK'
  BY <1>1, <1>7, <1>2 DEF TypeOK, PtrTypes, AroundOK
<1>9. Frame(t)
  BY <1>1, <1>6, <1>2 DEF TypeOK, Frame, GoTo, AroundOK
<1>10. ThreadState(t)'
  BY <1>1, <1>3, <1>6, BlocksAssumption, <1>5 DEF TypeOK, ThreadState, CallOf, PointersOf,
     ExpectedOf, Known, PushLabels, PopLabels, Exchanging, NoPacked, Packed
<1>11. KeepsNew(t)
  BY <1>1, <1>3, <1>6, <1>4 DEF TypeOK, KeepsNew, Makes, Exchanging
<1>12. CountsFollow(t)
  <2>1. ASSUME NEW b \in Blocks
        PROVE  /\ RefsOf(t, b)' = RefsOf(t, b) + 0
               /\ packedPtr.block = b /\ packedPtr.count # 0 => LocalRefsOf(t, b)' = LocalRefsOf(t, b)
    BY <1>1, <1>3, <1>6, BlocksAssumption DEF TypeOK, RefsOf, LocalRefsOf, One, NoPacked,
       Packed
  <2>2. ASSUME NEW b \in Blocks PROVE refCount'[b] = refCount[b] + 0 /\ 0 \in Int
    BY <1>1, <1>3, <1>6 DEF TypeOK, One
  <2>3. ASSUME NEW b \in Blocks PROVE 0 > 0 => Shared(t, b)
    BY <1>1, <1>3 DEF TypeOK, One, Shared
  <2>4. ASSUME NEW b \in live PROVE 0 < 0 => refCount[b] + 0 >= 1
    BY <1>1, <1>3, <1>6 DEF TypeOK, One
  <2> QED BY <2>1, <2>2, <2>3, <2>4, FollowedBy DEF CountsFollow
<1> QED BY <1>3, <1>6, <1>8, <1>9, <1>10, <1>11, <1>12, CountStep

(* Pop copies prev_ of its top, which is there.                            *)
LEMMA PopCopyStep ==
  ASSUME CountInv, NEW t \in Threads, PopCopy(t)
  PROVE  CountInv'
<1>1. TypeOK /\ ThreadState(t) /\ outcome[t] \in {"none", "empty", "exchanged"}
  BY DEF CountInv, TypeOK
<1>2. /\ pc[t] = "copy" /\ Label(t) = "copy" /\ op[t] = "Pop" /\ alive
      /\ todo[t] = nullptr /\ got[t] = nullptr /\ diff[t] = 0
      /\ top[t].block \in Blocks /\ top[t].count > 0 /\ holder[t] = NoPacked
      /\ ptr[t] = nullptr /\ top[t].block # Bottom
  BY <1>1 DEF TypeOK, PopCopy, tvars, fasts, mvars, uvars, cvars, Label, ThreadState, CallOf,
     PointersOf, ExpectedOf, Known, PushLabels, PopLabels, Exchanging
<1>3. prev_[top[t].block] \in Blocks
  <2>1. top[t].block \in live
    <3>1. RefsOf(t, top[t].block) > 0
      BY <1>1, <1>2 DEF TypeOK, RefsOf, One
    <3> QED BY <1>2, <3>1, ReferencedIsLive
  <2>2. prev_[top[t].block] # nullptr
    <3>1. SUFFICES ASSUME prev_[top[t].block] = nullptr PROVE FALSE
      OBVIOUS
    <3>2. PICK u \in Threads : Makes(u, top[t].block)
      BY <1>2, <2>1, <3>1 DEF CountInv, NodesLinked
    <3> QED BY <1>2, <3>2, NewIsNotShared DEF Shared
  <2> QED BY <1>1, <1>2, <2>2 DEF TypeOK
<1>4. /\ pc'[t] = "compare" /\ Label(t)' = "compare" /\ ptr'[t] = prev_[top[t].block] /\ op'[t] = "Pop"
      /\ ret' = ret /\ todo' = todo /\ top' = top /\ holder' = holder
      /\ got' = got /\ expected' = expected /\ diff' = diff
      /\ packedPtr' = packedPtr /\ live' = live /\ prev_' = prev_ /\ alive' = alive
      /\ refCount' = [refCount EXCEPT ![prev_[top[t].block]] = @ + 1]
  BY <1>1, <1>2, <1>3 DEF TypeOK, Label, PopCopy, tvars, fasts, mvars, uvars, cvars
<1>5. PtrTypes'
  BY <1>1, <1>2, <1>4, <1>3 DEF TypeOK, PtrTypes, Labels, NoPacked, Packed, PopCopy, tvars,
     fasts, mvars, uvars, cvars
<1>6. TypeOK'
  BY <1>1, <1>5, <1>4 DEF TypeOK, PtrTypes, PopCopy, tvars, fasts, mvars, uvars, cvars
<1>7. Frame(t)
  BY <1>1, <1>4 DEF TypeOK, Frame, PopCopy, tvars, fasts, mvars, uvars, cvars
<1>8. ThreadState(t)'
  BY <1>1, <1>2, <1>4, BlocksAssumption, <1>3 DEF TypeOK, ThreadState, CallOf, PointersOf,
     ExpectedOf, Known, PushLabels, PopLabels, Exchanging, NoPacked, Packed
<1>9. KeepsNew(t)
  BY <1>1, <1>2, <1>4 DEF TypeOK, KeepsNew, Makes, Exchanging
<1>10. CountsFollow(t)
  <2>1. ASSUME NEW b \in Blocks
        PROVE  /\ RefsOf(t, b)' = RefsOf(t, b) + One(prev_[top[t].block] = b)
               /\ packedPtr.block = b /\ packedPtr.count # 0 => LocalRefsOf(t, b)' = LocalRefsOf(t, b)
    BY <1>1, <1>2, <1>4, BlocksAssumption, <1>3 DEF TypeOK, RefsOf, LocalRefsOf, One,
       NoPacked, Packed
  <2>2. ASSUME NEW b \in Blocks
        PROVE  refCount'[b] = refCount[b] + One(prev_[top[t].block] = b) /\ One(prev_[top[t].block] = b) \in Int
    BY <1>1, <1>2, <1>4, <1>3 DEF TypeOK, One
  <2>3. ASSUME NEW b \in Blocks PROVE One(prev_[top[t].block] = b) > 0 => Shared(t, b)
    BY <1>1, <1>2 DEF TypeOK, One, Shared
  <2>4. ASSUME NEW b \in live
        PROVE  One(prev_[top[t].block] = b) < 0 => refCount[b] + One(prev_[top[t].block] = b) >= 1
    BY <1>1, <1>2, <1>4 DEF TypeOK, One
  <2> QED BY <2>1, <2>2, <2>3, <2>4, FollowedBy DEF CountsFollow
<1> QED BY <1>2, <1>4, <1>6, <1>7, <1>8, <1>9, <1>10, CountStep

(* Pop moves the element out of the node.                                  *)
LEMMA PopTakeStep ==
  ASSUME CountInv, NEW t \in Threads, PopTake(t)
  PROVE  CountInv'
<1>1. TypeOK /\ ThreadState(t) /\ outcome[t] \in {"none", "empty", "exchanged"}
  BY DEF CountInv, TypeOK
<1>2. /\ pc[t] = "take" /\ Label(t) = "take" /\ op[t] = "Pop" /\ alive
      /\ todo[t] = nullptr /\ got[t] = nullptr /\ diff[t] = 0
      /\ top[t].block \in Blocks /\ top[t].count > 0 /\ holder[t] = NoPacked
      /\ ptr[t] = nullptr
  BY <1>1 DEF TypeOK, PopTake, GoTo, tvars, fasts, mvars, uvars, cvars, Label, ThreadState, CallOf,
     PointersOf, ExpectedOf, Known, PushLabels, PopLabels, Exchanging
<1>3. /\ pc'[t] = "release_top" /\ Label(t)' = "release_top" /\ expected'[t] = top[t] /\ op'[t] = "Pop"
      /\ ret' = ret /\ todo' = todo /\ top' = top /\ holder' = holder /\ ptr' = ptr
      /\ got' = got /\ diff' = diff
      /\ packedPtr' = packedPtr /\ live' = live /\ prev_' = prev_ /\ alive' = alive
      /\ refCount' = refCount
      /\ (element \in [Threads -> Values \cup {NoValue}])'
  BY <1>1, <1>2 DEF TypeOK, Label, PopTake, GoTo, tvars, fasts, mvars, uvars, cvars
<1>4. PtrTypes'
  BY <1>1, <1>2, <1>3 DEF TypeOK, PtrTypes, Labels, NoPacked, Packed, PopTake, GoTo, tvars,
     fasts, mvars, uvars, cvars
<1>5. TypeOK'
  BY <1>1, <1>4, <1>3 DEF TypeOK, PtrTypes, PopTake, GoTo, tvars, fasts, mvars, uvars, cvars
<1>6. Frame(t)
  BY <1>1, <1>3 DEF TypeOK, Frame, PopTake, GoTo, tvars, fasts, mvars, uvars, cvars
<1>7. ThreadState(t)'
  BY <1>1, <1>2, <1>3, BlocksAssumption DEF TypeOK, ThreadState, CallOf, PointersOf,
     ExpectedOf, Known, PushLabels, PopLabels, Exchanging, NoPacked, Packed
<1>8. KeepsNew(t)
  BY <1>1, <1>2, <1>3 DEF TypeOK, KeepsNew, Makes, Exchanging
<1>9. CountsFollow(t)
  <2>1. ASSUME NEW b \in Blocks
        PROVE  /\ RefsOf(t, b)' = RefsOf(t, b) + 0
               /\ packedPtr.block = b /\ packedPtr.count # 0 => LocalRefsOf(t, b)' = LocalRefsOf(t, b)
    BY <1>1, <1>2, <1>3, BlocksAssumption DEF TypeOK, RefsOf, LocalRefsOf, One, NoPacked,
       Packed
  <2>2. ASSUME NEW b \in Blocks PROVE refCount'[b] = refCount[b] + 0 /\ 0 \in Int
    BY <1>1, <1>2, <1>3 DEF TypeOK, One
  <2>3. ASSUME NEW b \in Blocks PROVE 0 > 0 => Shared(t, b)
    BY <1>1, <1>2 DEF TypeOK, One, Shared
  <2>4. ASSUME NEW b \in live PROVE 0 < 0 => refCount[b] + 0 >= 1
    BY <1>1, <1>2, <1>3 DEF TypeOK, One
  <2> QED BY <2>1, <2>2, <2>3, <2>4, FollowedBy DEF CountsFollow
<1> QED BY <1>2, <1>3, <1>5, <1>6, <1>7, <1>8, <1>9, CountStep

(* Pop is called.                                                          *)
LEMMA PopStep ==
  ASSUME CountInv, NEW t \in Threads, Pop(t)
  PROVE  CountInv'
<1>1. TypeOK /\ ThreadState(t) /\ outcome[t] \in {"none", "empty", "exchanged"}
  BY DEF CountInv, TypeOK
<1>2. /\ pc[t] = "idle" /\ Label(t) = "idle" /\ op[t] = "none" /\ alive
      /\ todo[t] = nullptr /\ got[t] = nullptr /\ ptr[t] = nullptr /\ diff[t] = 0
      /\ top[t] = NoPacked /\ holder[t] = NoPacked
  BY <1>1 DEF TypeOK, Pop, tvars, fasts, mvars, uvars, cvars, Label, ThreadState, CallOf,
     PointersOf, ExpectedOf, Known, PushLabels, PopLabels, Exchanging
<1>3. /\ pc'[t] = "pop" /\ Label(t)' = "pop" /\ op'[t] = "Pop"
      /\ ret' = ret /\ todo' = todo /\ top' = top /\ holder' = holder /\ ptr' = ptr
      /\ got' = got /\ expected' = expected /\ diff' = diff
      /\ packedPtr' = packedPtr /\ live' = live /\ prev_' = prev_ /\ alive' = alive
      /\ refCount' = refCount
  BY <1>1, <1>2 DEF TypeOK, Label, Pop, tvars, fasts, mvars, uvars, cvars
<1>4. PtrTypes'
  BY <1>1, <1>2, <1>3 DEF TypeOK, PtrTypes, Labels, NoPacked, Packed, Pop, tvars, fasts,
     mvars, uvars, cvars
<1>5. TypeOK'
  BY <1>1, <1>4, <1>3 DEF TypeOK, PtrTypes, Pop, tvars, fasts, mvars, uvars, cvars
<1>6. Frame(t)
  BY <1>1, <1>3 DEF TypeOK, Frame, Pop, tvars, fasts, mvars, uvars, cvars
<1>7. ThreadState(t)'
  BY <1>1, <1>2, <1>3, BlocksAssumption DEF TypeOK, ThreadState, CallOf, PointersOf,
     ExpectedOf, Known, PushLabels, PopLabels, Exchanging, NoPacked, Packed
<1>8. KeepsNew(t)
  BY <1>1, <1>2, <1>3 DEF TypeOK, KeepsNew, Makes, Exchanging
<1>9. CountsFollow(t)
  <2>1. ASSUME NEW b \in Blocks
        PROVE  /\ RefsOf(t, b)' = RefsOf(t, b) + 0
               /\ packedPtr.block = b /\ packedPtr.count # 0 => LocalRefsOf(t, b)' = LocalRefsOf(t, b)
    BY <1>1, <1>2, <1>3, BlocksAssumption DEF TypeOK, RefsOf, LocalRefsOf, One, NoPacked,
       Packed
  <2>2. ASSUME NEW b \in Blocks PROVE refCount'[b] = refCount[b] + 0 /\ 0 \in Int
    BY <1>1, <1>2, <1>3 DEF TypeOK, One
  <2>3. ASSUME NEW b \in Blocks PROVE 0 > 0 => Shared(t, b)
    BY <1>1, <1>2 DEF TypeOK, One, Shared
  <2>4. ASSUME NEW b \in live PROVE 0 < 0 => refCount[b] + 0 >= 1
    BY <1>1, <1>2, <1>3 DEF TypeOK, One
  <2> QED BY <2>1, <2>2, <2>3, <2>4, FollowedBy DEF CountsFollow
<1> QED BY <1>2, <1>3, <1>5, <1>6, <1>7, <1>8, <1>9, CountStep

(* get() takes a local reference.                                          *)
LEMMA GetFetchAddStep ==
  ASSUME CountInv, NEW t \in Threads, GetFetchAdd(t), Around(t, outcome[t])
  PROVE  CountInv'
<1>1. TypeOK /\ ThreadState(t) /\ outcome[t] \in {"none", "empty", "exchanged"}
  BY DEF CountInv, TypeOK
<1>2. AroundOK(t)
  BY <1>1, AroundType
<1>3. /\ pc[t] = "get" /\ Label(t) = "get" /\ op[t] = "Push" /\ alive
      /\ todo[t] = nullptr /\ got[t] = nullptr /\ ptr[t] \in Blocks /\ diff[t] = 0
      /\ top[t] = NoPacked /\ holder[t] = NoPacked
  BY <1>1 DEF TypeOK, GetFetchAdd, Referenced, Packed, GoTo, tvars, fasts, mvars, uvars, cvars,
     Label, ThreadState, CallOf, PointersOf, ExpectedOf, Known, PushLabels, PopLabels, Exchanging
<1>4. /\ pc'[t] = "get_ref" /\ Label(t)' = "get_ref" /\ op'[t] = "Push" /\ got'[t] = packedPtr.block
      /\ packedPtr'.block = packedPtr.block /\ packedPtr'.count = packedPtr.count + 1
      /\ expected'[t].block = packedPtr.block /\ expected'[t].count = packedPtr.count + 1
      /\ ret' = ret /\ todo' = todo /\ top' = top /\ holder' = holder /\ ptr' = ptr /\ diff' = diff
      /\ live' = live /\ prev_' = prev_ /\ alive' = alive /\ refCount' = refCount
  BY <1>1, <1>3, <1>2 DEF TypeOK, Label, GetFetchAdd, Referenced, Packed, GoTo, tvars, fasts,
     mvars, uvars, cvars, AroundOK
<1>5. PtrTypes'
  BY <1>1, <1>3, <1>4 DEF TypeOK, PtrTypes, Labels, NoPacked, Packed, GetFetchAdd, Referenced,
     Packed, GoTo, tvars, fasts, mvars, uvars, cvars
<1>6. TypeOK'
  BY <1>1, <1>5, <1>2 DEF TypeOK, PtrTypes, AroundOK
<1>7. Frame(t)
  BY <1>1, <1>4, <1>2 DEF TypeOK, Frame, GetFetchAdd, Referenced, Packed, GoTo, tvars, fasts,
     mvars, uvars, cvars, AroundOK
<1>8. ThreadState(t)'
  BY <1>1, <1>3, <1>4, BlocksAssumption DEF TypeOK, ThreadState, CallOf, PointersOf,
     ExpectedOf, Known, PushLabels, PopLabels, Exchanging, NoPacked, Packed
<1>9. KeepsNew(t)
  BY <1>1, <1>3, <1>4 DEF TypeOK, KeepsNew, Makes, Exchanging
<1>10. HeadFollows(t)
  <2>1. ASSUME NEW b \in Blocks
        PROVE  LET d == IF packedPtr.block = b THEN packedPtr'.count - packedPtr.count ELSE 0
               IN  /\ RefsOf(t, b)' = RefsOf(t, b) + d
                   /\ packedPtr'.count = 0 \/ LocalRefsOf(t, b)' = LocalRefsOf(t, b) + d
    <3>1. RefsOf(t, b)' = RefsOf(t, b) + One(packedPtr.block = b)
      BY <1>1, <1>3, <1>4, BlocksAssumption DEF TypeOK, RefsOf, One, NoPacked, Packed
    <3>2. LocalRefsOf(t, b)' = LocalRefsOf(t, b) + One(packedPtr.block = b)
      BY <1>1, <1>3, <1>4, BlocksAssumption DEF TypeOK, LocalRefsOf, One, NoPacked, Packed
    <3>3. One(packedPtr.block = b) = IF packedPtr.block = b THEN packedPtr'.count - packedPtr.count ELSE 0
      BY <1>1, <1>4 DEF TypeOK, One
    <3> QED BY <3>1, <3>2, <3>3
  <2> QED BY <2>1 DEF HeadFollows
<1> QED BY <1>3, <1>4, <1>6, <1>7, <1>8, <1>9, <1>10, HeadStep

(* get() gives the local reference back.                                   *)
LEMMA GetNotifyStep ==
  ASSUME CountInv, NEW t \in Threads, GetNotify(t, "assign"), Around(t, outcome[t])
  PROVE  CountInv'
<1>1. TypeOK /\ ThreadState(t) /\ outcome[t] \in {"none", "empty", "exchanged"}
  BY DEF CountInv, TypeOK
<1>2. AroundOK(t)
  BY <1>1, AroundType
<1>3. /\ pc[t] = "notify" /\ Label(t) = "notify" /\ op[t] = "Push" /\ alive
      /\ got[t] \in Blocks /\ todo[t] = nullptr /\ ptr[t] \in Blocks /\ diff[t] = 0
      /\ top[t] = NoPacked /\ holder[t] = NoPacked
      /\ expected[t].block = got[t] /\ expected[t].count > 0
  BY <1>1 DEF TypeOK, GetNotify, Packed, NoPacked, GoTo, tvars, fasts, mvars, uvars, cvars, Label,
     ThreadState, CallOf, PointersOf, ExpectedOf, Known, PushLabels, PopLabels, Exchanging
<1>4. /\ pc'[t] = "assign" /\ Label(t)' = "assign" /\ op'[t] = "Push"
      /\ packedPtr'.block = packedPtr.block /\ packedPtr'.count = packedPtr.count - 1
      /\ packedPtr.block = got[t] /\ packedPtr.count > 0
      /\ ret' = ret /\ todo' = todo /\ top' = top /\ holder' = holder /\ ptr' = ptr
      /\ got' = got /\ diff' = diff
      /\ live' = live /\ prev_' = prev_ /\ alive' = alive /\ refCount' = refCount
  BY <1>1, <1>3, <1>2 DEF TypeOK, Label, GetNotify, Packed, NoPacked, GoTo, tvars, fasts, mvars,
     uvars, cvars, AroundOK
<1>5. PtrTypes'
  BY <1>1, <1>3, <1>4 DEF TypeOK, PtrTypes, Labels, NoPacked, Packed, GetNotify, Packed,
     NoPacked, GoTo, tvars, fasts, mvars, uvars, cvars
<1>6. TypeOK'
  BY <1>1, <1>5, <1>2 DEF TypeOK, PtrTypes, AroundOK
<1>7. Frame(t)
  BY <1>1, <1>4, <1>2 DEF TypeOK, Frame, GetNotify, Packed, NoPacked, GoTo, tvars, fasts,
     mvars, uvars, cvars, AroundOK
<1>8. ThreadState(t)'
  BY <1>1, <1>3, <1>4, BlocksAssumption DEF TypeOK, ThreadState, CallOf, PointersOf,
     ExpectedOf, Known, PushLabels, PopLabels, Exchanging, NoPacked, Packed
<1>9. KeepsNew(t)
  BY <1>1, <1>3, <1>4 DEF TypeOK, KeepsNew, Makes, Exchanging
<1>10. HeadFollows(t)
  <2>1. ASSUME NEW b \in Blocks
        PROVE  LET d == IF packedPtr.block = b THEN packedPtr'.count - packedPtr.count ELSE 0
               IN  /\ RefsOf(t, b)' = RefsOf(t, b) + d
                   /\ packedPtr'.count = 0 \/ LocalRefsOf(t, b)' = LocalRefsOf(t, b) + d
    <3>1. RefsOf(t, b)' = RefsOf(t, b) + (0 - One(packedPtr.block = b))
      BY <1>1, <1>3, <1>4, BlocksAssumption DEF TypeOK, RefsOf, One, NoPacked, Packed
    <3>2. LocalRefsOf(t, b)' = LocalRefsOf(t, b) + (0 - One(packedPtr.block = b))
      BY <1>1, <1>3, <1>4, BlocksAssumption DEF TypeOK, LocalRefsOf, One, NoPacked, Packed
    <3>3. (0 - One(packedPtr.block = b)) = IF packedPtr.block = b THEN packedPtr'.count - packedPtr.count ELSE 0
      BY <1>1, <1>4 DEF TypeOK, One
    <3> QED BY <3>1, <3>2, <3>3
  <2> QED BY <2>1 DEF HeadFollows
<1> QED BY <1>3, <1>4, <1>6, <1>7, <1>8, <1>9, <1>10, HeadStep

(* compareExchange sets the local count to zero.                           *)
LEMMA ZeroLocalStep ==
  ASSUME CountInv, NEW t \in Threads, ZeroLocal(t), Around(t, outcome[t])
  PROVE  CountInv'
<1>1. TypeOK /\ ThreadState(t) /\ outcome[t] \in {"none", "empty", "exchanged"}
  BY DEF CountInv, TypeOK
<1>2. AroundOK(t)
  BY <1>1, AroundType
<1>3. /\ pc[t] = "zero" /\ Label(t) = "zero" /\ op[t] \in {"Push", "Pop"} /\ alive
      /\ todo[t] = nullptr /\ got[t] = nullptr /\ ptr[t] \in Blocks
      /\ op[t] = "Push" => top[t] = NoPacked
      /\ op[t] = "Pop" => top[t].block \in Blocks /\ top[t].count > 0
      /\ holder[t].block \in Blocks /\ holder[t].count > 0
      /\ expected[t].block = holder[t].block /\ diff[t] = expected[t].count
  BY <1>1 DEF TypeOK, ZeroLocal, Packed, tvars, fasts, mvars, uvars, cvars, Label, ThreadState,
     CallOf, PointersOf, ExpectedOf, Known, PushLabels, PopLabels, Exchanging
<1>4. \A n \in Blocks : Makes(t, n) => prev_[n] # nullptr
  BY <1>3 DEF CountInv, NewNodes, Exchanging
<1>5. /\ pc'[t] = "exchange" /\ Label(t)' = "exchange" /\ diff'[t] = 0 /\ op'[t] = op[t]
      /\ packedPtr.block = holder[t].block /\ packedPtr.count = diff[t]
      /\ packedPtr'.block = packedPtr.block /\ packedPtr'.count = 0
      /\ ret' = ret /\ todo' = todo /\ top' = top /\ holder' = holder /\ ptr' = ptr
      /\ got' = got /\ expected' = expected
      /\ live' = live /\ prev_' = prev_ /\ alive' = alive /\ refCount' = refCount
  BY <1>1, <1>3, <1>2 DEF TypeOK, Label, ZeroLocal, Packed, tvars, fasts, mvars, uvars, cvars,
     AroundOK
<1>6. PtrTypes'
  BY <1>1, <1>3, <1>5 DEF TypeOK, PtrTypes, Labels, NoPacked, Packed, ZeroLocal, Packed,
     tvars, fasts, mvars, uvars, cvars
<1>7. TypeOK'
  BY <1>1, <1>6, <1>2 DEF TypeOK, PtrTypes, AroundOK
<1>8. Frame(t)
  BY <1>1, <1>5, <1>2 DEF TypeOK, Frame, ZeroLocal, Packed, tvars, fasts, mvars, uvars, cvars,
     AroundOK
<1>9. ThreadState(t)'
  BY <1>1, <1>3, <1>5, BlocksAssumption DEF TypeOK, ThreadState, CallOf, PointersOf,
     ExpectedOf, Known, PushLabels, PopLabels, Exchanging, NoPacked, Packed
<1>10. KeepsNew(t)
  BY <1>1, <1>3, <1>5, <1>4 DEF TypeOK, KeepsNew, Makes, Exchanging
<1>11. HeadFollows(t)
  <2>1. ASSUME NEW b \in Blocks
        PROVE  LET d == IF packedPtr.block = b THEN packedPtr'.count - packedPtr.count ELSE 0
               IN  /\ RefsOf(t, b)' = RefsOf(t, b) + d
                   /\ packedPtr'.count = 0 \/ LocalRefsOf(t, b)' = LocalRefsOf(t, b) + d
    BY <1>1, <1>3, <1>5, BlocksAssumption DEF TypeOK, RefsOf, LocalRefsOf, One, NoPacked,
       Packed
  <2> QED BY <2>1 DEF HeadFollows
<1> QED BY <1>3, <1>5, <1>7, <1>8, <1>9, <1>10, <1>11, HeadStep

(* destroy() of top gives the local reference back.                        *)
LEMMA ReleaseTopStep ==
  ASSUME CountInv, NEW t \in Threads, Release(t, "top", After(t, "top"), Rest(t, "top")),
         Around(t, outcome[t])
  PROVE  CountInv'
<1>1. TypeOK /\ ThreadState(t) /\ outcome[t] \in {"none", "empty", "exchanged"}
  BY DEF CountInv, TypeOK
<1>2. AroundOK(t)
  BY <1>1, AroundType
<1>3. /\ pc[t] = "release_top" /\ Label(t) = "release_top" /\ op[t] = "Pop" /\ alive
      /\ todo[t] = nullptr /\ got[t] = nullptr /\ ptr[t] = nullptr /\ diff[t] = 0
      /\ top[t].block \in Blocks /\ top[t].count > 0 /\ Known(holder[t])
      /\ expected[t].block = top[t].block /\ expected[t].count > 0
  BY <1>1 DEF TypeOK, Release, ReleaseOf, FastPtr, FirstExpected, Leave, Packed, GoTo, After, Rest,
     tvars, fasts, mvars, uvars, cvars, Label, ThreadState, CallOf, PointersOf, ExpectedOf, Known,
     PushLabels, PopLabels, Exchanging
<1>4. /\ AfterTop(t) \in {"idle", "release_top", "copy"}
      /\ AfterTop(t) = "idle" <=> holder[t].block = nullptr
      /\ AfterTop(t) = "copy" => holder[t].block # Bottom
  BY <1>3, BlocksAssumption DEF AfterTop, Known, NoPacked, Packed
<1>5. /\ pc'[t] = AfterTop(t) /\ Label(t)' = AfterTop(t)
      /\ op'[t] = IF AfterTop(t) = "idle" THEN "none" ELSE op[t]
      /\ expected'[t] = IF AfterTop(t) = "release_top" THEN holder[t] ELSE NoPacked
      /\ top'[t] = holder[t] /\ holder'[t] = NoPacked
      /\ packedPtr.block = top[t].block /\ packedPtr.count > 0
      /\ packedPtr'.block = packedPtr.block /\ packedPtr'.count = packedPtr.count - 1
      /\ ret' = ret /\ todo' = todo /\ ptr' = ptr /\ got' = got /\ diff' = diff
      /\ live' = live /\ prev_' = prev_ /\ alive' = alive /\ refCount' = refCount
  BY <1>1, <1>3, <1>2, <1>4 DEF TypeOK, Label, Release, ReleaseOf, FastPtr, FirstExpected,
     Leave, Packed, GoTo, After, Rest, tvars, fasts, mvars, uvars, cvars, AroundOK
<1>6. PtrTypes'
  BY <1>1, <1>3, <1>5, <1>4, BlocksAssumption DEF TypeOK, PtrTypes, Labels, NoPacked, Packed,
     Release, ReleaseOf, FastPtr, FirstExpected, Leave, Packed, GoTo, After, Rest, tvars, fasts,
     mvars, uvars, cvars
<1>7. TypeOK'
  BY <1>1, <1>6, <1>2 DEF TypeOK, PtrTypes, AroundOK
<1>8. Frame(t)
  BY <1>1, <1>5, <1>2 DEF TypeOK, Frame, Release, ReleaseOf, FastPtr, FirstExpected, Leave,
     Packed, GoTo, After, Rest, tvars, fasts, mvars, uvars, cvars, AroundOK
<1>9. ThreadState(t)'
  BY <1>1, <1>3, <1>5, BlocksAssumption, <1>4 DEF TypeOK, ThreadState, CallOf, PointersOf,
     ExpectedOf, Known, PushLabels, PopLabels, Exchanging, NoPacked, Packed
<1>10. KeepsNew(t)
  BY <1>1, <1>3, <1>5, <1>4, BlocksAssumption DEF TypeOK, KeepsNew, Makes, Exchanging
<1>11. HeadFollows(t)
  <2>1. ASSUME NEW b \in Blocks
        PROVE  LET d == IF packedPtr.block = b THEN packedPtr'.count - packedPtr.count ELSE 0
               IN  /\ RefsOf(t, b)' = RefsOf(t, b) + d
                   /\ packedPtr'.count = 0 \/ LocalRefsOf(t, b)' = LocalRefsOf(t, b) + d
    <3>1. RefsOf(t, b)' = RefsOf(t, b) + (0 - One(packedPtr.block = b))
      BY <1>1, <1>3, <1>5, BlocksAssumption DEF TypeOK, RefsOf, One, NoPacked, Packed
    <3>2. LocalRefsOf(t, b)' = LocalRefsOf(t, b) + (0 - One(packedPtr.block = b))
      BY <1>1, <1>3, <1>5, BlocksAssumption DEF TypeOK, LocalRefsOf, One, NoPacked, Packed
    <3>3. (0 - One(packedPtr.block = b)) = IF packedPtr.block = b THEN packedPtr'.count - packedPtr.count ELSE 0
      BY <1>1, <1>5 DEF TypeOK, One
    <3> QED BY <3>1, <3>2, <3>3
  <2> QED BY <2>1 DEF HeadFollows
<1> QED BY <1>3, <1>5, <1>7, <1>8, <1>9, <1>10, <1>11, HeadStep

(* destroy() of holder gives the local reference back.                     *)
LEMMA ReleaseHolderStep ==
  ASSUME CountInv, NEW t \in Threads, Release(t, "holder", After(t, "holder"), Rest(t, "holder")),
         Around(t, outcome[t])
  PROVE  CountInv'
<1>1. TypeOK /\ ThreadState(t) /\ outcome[t] \in {"none", "empty", "exchanged"}
  BY DEF CountInv, TypeOK
<1>2. AroundOK(t)
  BY <1>1, AroundType
<1>3. /\ pc[t] = "release_holder" /\ Label(t) = "release_holder" /\ op[t] \in {"Push", "Pop"} /\ alive
      /\ todo[t] = nullptr /\ got[t] = nullptr /\ diff[t] = 0
      /\ op[t] = "Push" => top[t] = NoPacked
      /\ op[t] = "Pop" => top[t].block \in Blocks /\ top[t].count > 0
      /\ holder[t].block \in Blocks /\ holder[t].count > 0
      /\ expected[t].block = holder[t].block /\ expected[t].count > 0
  BY <1>1 DEF TypeOK, Release, ReleaseOf, FastPtr, FirstExpected, Leave, Packed, GoTo, After, Rest,
     tvars, fasts, mvars, uvars, cvars, Label, ThreadState, CallOf, PointersOf, ExpectedOf, Known,
     PushLabels, PopLabels, Exchanging
<1>4. /\ AfterExchange(t) \in {"idle", "get", "take", "drop"}
      /\ AfterExchange(t) = "idle" => op[t] = "Push" /\ ptr[t] = nullptr
      /\ AfterExchange(t) = "get" => op[t] = "Push" /\ ptr[t] # nullptr
      /\ AfterExchange(t) = "take" => op[t] = "Pop" /\ ptr[t] = nullptr
      /\ AfterExchange(t) = "drop" => op[t] = "Pop" /\ ptr[t] # nullptr
  BY <1>3 DEF AfterExchange
<1>5. /\ pc'[t] = AfterExchange(t) /\ Label(t)' = AfterExchange(t)
      /\ op'[t] = IF AfterExchange(t) = "idle" THEN "none" ELSE op[t]
      /\ expected'[t] = NoPacked
      /\ top'[t] = top[t] /\ holder'[t] = NoPacked
      /\ packedPtr.block = holder[t].block /\ packedPtr.count > 0
      /\ packedPtr'.block = packedPtr.block /\ packedPtr'.count = packedPtr.count - 1
      /\ ret' = ret /\ todo' = todo /\ ptr' = ptr /\ got' = got /\ diff' = diff
      /\ live' = live /\ prev_' = prev_ /\ alive' = alive /\ refCount' = refCount
  BY <1>1, <1>3, <1>2, <1>4 DEF TypeOK, Label, Release, ReleaseOf, FastPtr, FirstExpected,
     Leave, Packed, GoTo, After, Rest, tvars, fasts, mvars, uvars, cvars, AroundOK
<1>6. PtrTypes'
  BY <1>1, <1>3, <1>5, <1>4, BlocksAssumption DEF TypeOK, PtrTypes, Labels, NoPacked, Packed,
     Release, ReleaseOf, FastPtr, FirstExpected, Leave, Packed, GoTo, After, Rest, tvars, fasts,
     mvars, uvars, cvars
<1>7. TypeOK'
  BY <1>1, <1>6, <1>2 DEF TypeOK, PtrTypes, AroundOK
<1>8. Frame(t)
  BY <1>1, <1>5, <1>2 DEF TypeOK, Frame, Release, ReleaseOf, FastPtr, FirstExpected, Leave,
     Packed, GoTo, After, Rest, tvars, fasts, mvars, uvars, cvars, AroundOK
<1>9. ThreadState(t)'
  BY <1>1, <1>3, <1>5, BlocksAssumption, <1>4 DEF TypeOK, ThreadState, CallOf, PointersOf,
     ExpectedOf, Known, PushLabels, PopLabels, Exchanging, NoPacked, Packed
<1>10. KeepsNew(t)
  BY <1>1, <1>3, <1>5, <1>4, BlocksAssumption DEF TypeOK, KeepsNew, Makes, Exchanging
<1>11. HeadFollows(t)
  <2>1. ASSUME NEW b \in Blocks
        PROVE  LET d == IF packedPtr.block = b THEN packedPtr'.count - packedPtr.count ELSE 0
               IN  /\ RefsOf(t, b)' = RefsOf(t, b) + d
                   /\ packedPtr'.count = 0 \/ LocalRefsOf(t, b)' = LocalRefsOf(t, b) + d
    <3>1. RefsOf(t, b)' = RefsOf(t, b) + (0 - One(packedPtr.block = b))
      BY <1>1, <1>3, <1>5, BlocksAssumption DEF TypeOK, RefsOf, One, NoPacked, Packed
    <3>2. LocalRefsOf(t, b)' = LocalRefsOf(t, b) + (0 - One(packedPtr.block = b))
      BY <1>1, <1>3, <1>5, BlocksAssumption DEF TypeOK, LocalRefsOf, One, NoPacked, Packed
    <3>3. (0 - One(packedPtr.block = b)) = IF packedPtr.block = b THEN packedPtr'.count - packedPtr.count ELSE 0
      BY <1>1, <1>5 DEF TypeOK, One
    <3> QED BY <3>1, <3>2, <3>3
  <2> QED BY <2>1 DEF HeadFollows
<1> QED BY <1>3, <1>5, <1>7, <1>8, <1>9, <1>10, <1>11, HeadStep

(* compareExchange takes its holder.                                       *)
LEMMA CompareStep ==
  ASSUME CountInv, NEW t \in Threads, Compare(t, IF op[t] = "Push" THEN prev_[ptr[t]] ELSE top[t].block),
         Around(t, outcome[t])
  PROVE  CountInv'
<1>1. TypeOK /\ ThreadState(t) /\ outcome[t] \in {"none", "empty", "exchanged"}
  BY DEF CountInv, TypeOK
<1>2. AroundOK(t)
  BY <1>1, AroundType
<1>3. /\ pc[t] = "compare" /\ Label(t) = "compare" /\ op[t] \in {"Push", "Pop"} /\ alive
      /\ todo[t] = nullptr /\ got[t] = nullptr /\ ptr[t] \in Blocks /\ diff[t] = 0
      /\ holder[t] = NoPacked
      /\ op[t] = "Push" => top[t] = NoPacked
      /\ op[t] = "Pop" => top[t].block \in Blocks /\ top[t].count > 0
  BY <1>1 DEF TypeOK, Compare, Label, ThreadState, CallOf, PointersOf, ExpectedOf, Known,
     PushLabels, PopLabels, Exchanging
<1>4. \A n \in Blocks : Makes(t, n) => prev_[n] # nullptr
  BY <1>3 DEF CountInv, NewNodes, Exchanging
<1>5. PICK l \in {"exchange", "release_holder"}, e \in [block : Blocks, count : Nat] :
        /\ GetFast(t, "holder", l, e)
        /\ e.block = packedPtr.block
        /\ l = "release_holder" => e.count > 0
  <2>1. packedPtr.block \in Blocks /\ packedPtr.count \in Nat
    BY <1>1 DEF TypeOK
  <2>2. Packed(packedPtr.block, 0) \in [block : Blocks, count : Nat] /\ Packed(packedPtr.block, 0).block = packedPtr.block
    BY <2>1 DEF Packed
  <2>3. /\ Referenced \in [block : Blocks, count : Nat]
        /\ Referenced.block = packedPtr.block /\ Referenced.count > 0
    BY <2>1 DEF Referenced, Packed
  <2> QED BY <2>2, <2>3 DEF Compare
<1>6. /\ pc'[t] = l /\ Label(t)' = l /\ expected'[t] = e /\ op'[t] = op[t]
      /\ holder'[t].block = packedPtr.block /\ holder'[t].count = packedPtr.count + 1
      /\ packedPtr'.block = packedPtr.block /\ packedPtr'.count = packedPtr.count + 1
      /\ ret' = ret /\ todo' = todo /\ top' = top /\ ptr' = ptr /\ got' = got /\ diff' = diff
      /\ live' = live /\ prev_' = prev_ /\ alive' = alive /\ refCount' = refCount
  BY <1>1, <1>3, <1>2, <1>5 DEF TypeOK, Label, GetFast, Referenced, Packed, GoTo, tvars, fasts,
     mvars, uvars, cvars, AroundOK
<1>7. PtrTypes'
  BY <1>1, <1>3, <1>6, <1>5 DEF TypeOK, PtrTypes, Labels, NoPacked, Packed, GetFast,
     Referenced, Packed, GoTo, tvars, fasts, mvars, uvars, cvars
<1>8. TypeOK'
  BY <1>1, <1>7, <1>2 DEF TypeOK, PtrTypes, AroundOK
<1>9. Frame(t)
  BY <1>1, <1>6, <1>2, <1>5 DEF TypeOK, Frame, GetFast, Referenced, Packed, GoTo, tvars,
     fasts, mvars, uvars, cvars, AroundOK
<1>10. ThreadState(t)'
  BY <1>1, <1>3, <1>6, BlocksAssumption, <1>5 DEF TypeOK, ThreadState, CallOf, PointersOf,
     ExpectedOf, Known, PushLabels, PopLabels, Exchanging, NoPacked, Packed
<1>11. KeepsNew(t)
  BY <1>1, <1>3, <1>6, <1>4, <1>5 DEF TypeOK, KeepsNew, Makes, Exchanging
<1>12. HeadFollows(t)
  <2>1. ASSUME NEW b \in Blocks
        PROVE  LET d == IF packedPtr.block = b THEN packedPtr'.count - packedPtr.count ELSE 0
               IN  /\ RefsOf(t, b)' = RefsOf(t, b) + d
                   /\ packedPtr'.count = 0 \/ LocalRefsOf(t, b)' = LocalRefsOf(t, b) + d
    <3>1. RefsOf(t, b)' = RefsOf(t, b) + One(packedPtr.block = b)
      BY <1>1, <1>3, <1>6, BlocksAssumption DEF TypeOK, RefsOf, One, NoPacked, Packed
    <3>2. LocalRefsOf(t, b)' = LocalRefsOf(t, b) + One(packedPtr.block = b)
      BY <1>1, <1>3, <1>6, BlocksAssumption DEF TypeOK, LocalRefsOf, One, NoPacked, Packed
    <3>3. One(packedPtr.block = b) = IF packedPtr.block = b THEN packedPtr'.count - packedPtr.count ELSE 0
      BY <1>1, <1>6 DEF TypeOK, One
    <3> QED BY <3>1, <3>2, <3>3
  <2> QED BY <2>1 DEF HeadFollows
<1> QED BY <1>3, <1>6, <1>8, <1>9, <1>10, <1>11, <1>12, HeadStep

(* Pop takes its top, or finds the stack empty.                            *)
LEMMA PopGetFastStep ==
  ASSUME CountInv, NEW t \in Threads, PopGetFast(t)
  PROVE  CountInv'
<1>1. TypeOK /\ ThreadState(t) /\ outcome[t] \in {"none", "empty", "exchanged"}
  BY DEF CountInv, TypeOK
<1>2. /\ pc[t] = "pop" /\ Label(t) = "pop" /\ op[t] = "Pop" /\ alive
      /\ todo[t] = nullptr /\ got[t] = nullptr /\ diff[t] = 0
      /\ top[t] = NoPacked /\ holder[t] = NoPacked
      /\ ptr[t] = nullptr
  BY <1>1 DEF TypeOK, PopGetFast, Label, ThreadState, CallOf, PointersOf, ExpectedOf, Known,
     PushLabels, PopLabels, Exchanging
<1>3. PICK l \in {"copy", "release_top"}, e \in [block : Blocks \cup {nullptr}, count : Nat] :
        /\ GetFast(t, "top", l, e)
        /\ l = "copy" => packedPtr.block # Bottom
        /\ l = "release_top" => e.block = packedPtr.block /\ e.count > 0
  <2>1. packedPtr.block \in Blocks /\ packedPtr.count \in Nat
    BY <1>1 DEF TypeOK
  <2>2. NoPacked \in [block : Blocks \cup {nullptr}, count : Nat]
    BY DEF Packed, NoPacked
  <2>3. /\ Referenced \in [block : Blocks \cup {nullptr}, count : Nat]
        /\ Referenced.block = packedPtr.block /\ Referenced.count > 0
    BY <2>1 DEF Referenced, Packed
  <2> QED BY <2>2, <2>3 DEF PopGetFast
<1>4. /\ (outcome \in [Threads -> {"none", "empty", "exchanged"}])'
      /\ UNCHANGED <<data_, op, element, alive>>
  BY <1>1 DEF TypeOK, PopGetFast, Found
<1>5. /\ pc'[t] = l /\ Label(t)' = l /\ expected'[t] = e /\ op' = op
      /\ top'[t].block = packedPtr.block /\ top'[t].count = packedPtr.count + 1
      /\ packedPtr'.block = packedPtr.block /\ packedPtr'.count = packedPtr.count + 1
      /\ ret' = ret /\ todo' = todo /\ holder' = holder /\ ptr' = ptr /\ got' = got /\ diff' = diff
      /\ live' = live /\ prev_' = prev_ /\ alive' = alive /\ refCount' = refCount
      /\ (outcome \in [Threads -> {"none", "empty", "exchanged"}])' /\ data_' = data_ /\ element' = element
  BY <1>1, <1>2, <1>3, <1>4 DEF TypeOK, Label, GetFast, Referenced, Packed, GoTo, tvars, fasts,
     mvars, uvars, cvars
<1>6. PtrTypes'
  BY <1>1, <1>2, <1>5, <1>3 DEF TypeOK, PtrTypes, Labels, NoPacked, Packed, GetFast,
     Referenced, Packed, GoTo, tvars, fasts, mvars, uvars, cvars
<1>7. TypeOK'
  BY <1>1, <1>6, <1>5 DEF TypeOK, PtrTypes, GetFast, Referenced, Packed, GoTo, tvars, fasts,
     mvars, uvars, cvars
<1>8. Frame(t)
  BY <1>1, <1>5, <1>3 DEF TypeOK, Frame, GetFast, Referenced, Packed, GoTo, tvars, fasts,
     mvars, uvars, cvars
<1>9. ThreadState(t)'
  BY <1>1, <1>2, <1>5, BlocksAssumption, <1>3 DEF TypeOK, ThreadState, CallOf, PointersOf,
     ExpectedOf, Known, PushLabels, PopLabels, Exchanging, NoPacked, Packed
<1>10. KeepsNew(t)
  BY <1>1, <1>2, <1>5, <1>3 DEF TypeOK, KeepsNew, Makes, Exchanging
<1>11. HeadFollows(t)
  <2>1. ASSUME NEW b \in Blocks
        PROVE  LET d == IF packedPtr.block = b THEN packedPtr'.count - packedPtr.count ELSE 0
               IN  /\ RefsOf(t, b)' = RefsOf(t, b) + d
                   /\ packedPtr'.count = 0 \/ LocalRefsOf(t, b)' = LocalRefsOf(t, b) + d
    <3>1. RefsOf(t, b)' = RefsOf(t, b) + One(packedPtr.block = b)
      BY <1>1, <1>2, <1>5, BlocksAssumption DEF TypeOK, RefsOf, One, NoPacked, Packed
    <3>2. LocalRefsOf(t, b)' = LocalRefsOf(t, b) + One(packedPtr.block = b)
      BY <1>1, <1>2, <1>5, BlocksAssumption DEF TypeOK, LocalRefsOf, One, NoPacked, Packed
    <3>3. One(packedPtr.block = b) = IF packedPtr.block = b THEN packedPtr'.count - packedPtr.count ELSE 0
      BY <1>1, <1>5 DEF TypeOK, One
    <3> QED BY <3>1, <3>2, <3>3
  <2> QED BY <2>1 DEF HeadFollows
<1> QED BY <1>2, <1>5, <1>7, <1>8, <1>9, <1>10, <1>11, HeadStep

(* Pop takes its next top.                                                 *)
LEMMA PopRetryStep ==
  ASSUME CountInv, NEW t \in Threads, PopRetry(t)
  PROVE  CountInv'
<1>1. TypeOK /\ ThreadState(t) /\ outcome[t] \in {"none", "empty", "exchanged"}
  BY DEF CountInv, TypeOK
<1>2. /\ pc[t] = "retry" /\ Label(t) = "retry" /\ op[t] = "Pop" /\ alive
      /\ todo[t] = nullptr /\ got[t] = nullptr /\ diff[t] = 0
      /\ top[t].block \in Blocks /\ top[t].count > 0 /\ holder[t] = NoPacked
      /\ ptr[t] = nullptr
  BY <1>1 DEF TypeOK, PopRetry, Label, ThreadState, CallOf, PointersOf, ExpectedOf, Known,
     PushLabels, PopLabels, Exchanging
<1>3. /\ (outcome \in [Threads -> {"none", "empty", "exchanged"}])'
      /\ UNCHANGED <<data_, op, element, alive>>
  BY <1>1 DEF TypeOK, PopRetry, Found
<1>4. GetFast(t, "holder", "release_top", top[t])
  BY DEF PopRetry
<1>5. /\ pc'[t] = "release_top" /\ Label(t)' = "release_top" /\ expected'[t] = top[t] /\ op' = op
      /\ holder'[t].block = packedPtr.block /\ holder'[t].count = packedPtr.count + 1
      /\ packedPtr'.block = packedPtr.block /\ packedPtr'.count = packedPtr.count + 1
      /\ ret' = ret /\ todo' = todo /\ top' = top /\ ptr' = ptr /\ got' = got /\ diff' = diff
      /\ live' = live /\ prev_' = prev_ /\ alive' = alive /\ refCount' = refCount
      /\ (outcome \in [Threads -> {"none", "empty", "exchanged"}])' /\ data_' = data_ /\ element' = element
  BY <1>1, <1>2, <1>4, <1>3 DEF TypeOK, Label, GetFast, Referenced, Packed, GoTo, tvars, fasts,
     mvars, uvars, cvars
<1>6. PtrTypes'
  BY <1>1, <1>2, <1>5, <1>4 DEF TypeOK, PtrTypes, Labels, NoPacked, Packed, GetFast,
     Referenced, Packed, GoTo, tvars, fasts, mvars, uvars, cvars
<1>7. TypeOK'
  BY <1>1, <1>6, <1>5 DEF TypeOK, PtrTypes, GetFast, Referenced, Packed, GoTo, tvars, fasts,
     mvars, uvars, cvars
<1>8. Frame(t)
  BY <1>1, <1>5, <1>4 DEF TypeOK, Frame, GetFast, Referenced, Packed, GoTo, tvars, fasts,
     mvars, uvars, cvars
<1>9. ThreadState(t)'
  BY <1>1, <1>2, <1>5, BlocksAssumption DEF TypeOK, ThreadState, CallOf, PointersOf,
     ExpectedOf, Known, PushLabels, PopLabels, Exchanging, NoPacked, Packed
<1>10. KeepsNew(t)
  BY <1>1, <1>2, <1>5 DEF TypeOK, KeepsNew, Makes, Exchanging
<1>11. HeadFollows(t)
  <2>1. ASSUME NEW b \in Blocks
        PROVE  LET d == IF packedPtr.block = b THEN packedPtr'.count - packedPtr.count ELSE 0
               IN  /\ RefsOf(t, b)' = RefsOf(t, b) + d
                   /\ packedPtr'.count = 0 \/ LocalRefsOf(t, b)' = LocalRefsOf(t, b) + d
    <3>1. RefsOf(t, b)' = RefsOf(t, b) + One(packedPtr.block = b)
      BY <1>1, <1>2, <1>5, BlocksAssumption DEF TypeOK, RefsOf, One, NoPacked, Packed
    <3>2. LocalRefsOf(t, b)' = LocalRefsOf(t, b) + One(packedPtr.block = b)
      BY <1>1, <1>2, <1>5, BlocksAssumption DEF TypeOK, LocalRefsOf, One, NoPacked, Packed
    <3>3. One(packedPtr.block = b) = IF packedPtr.block = b THEN packedPtr'.count - packedPtr.count ELSE 0
      BY <1>1, <1>5 DEF TypeOK, One
    <3> QED BY <3>1, <3>2, <3>3
  <2> QED BY <2>1 DEF HeadFollows
<1> QED BY <1>2, <1>5, <1>7, <1>8, <1>9, <1>10, <1>11, HeadStep

(***************************************************************************)
(* Steps that give up a reference and may delete the block.                *)
(***************************************************************************)
(* Decrement with the block q, if any, that is to be unreferenced next.    *)
DecrementTo(t, b, next, q) ==
  /\ todo' = [todo EXCEPT ![t] = q]
  /\ ret' = [ret EXCEPT ![t] = IF q = nullptr THEN "none" ELSE next]
  /\ pc' = [pc EXCEPT ![t] = IF q = nullptr THEN next ELSE "unref"]
  /\ expected' = [expected EXCEPT ![t] = IF q = nullptr THEN FirstExpected(next, top[t], holder[t])
                                                        ELSE NoPacked]
  /\ refCount' = [refCount EXCEPT ![b] = @ - 1]
  /\ refCount[b] = 1 => live' = live \ {b} /\ prev_' = [prev_ EXCEPT ![b] = nullptr] /\ q = prev_[b]
  /\ refCount[b] # 1 => live' = live /\ prev_' = prev_ /\ q = nullptr

(* Decrement is DecrementTo for such a block.                              *)
LEMMA DecrementCases ==
  ASSUME TypeOK, NEW t \in Threads, NEW b \in Blocks, NEW next, Decrement(t, b, next)
  PROVE  \E q \in Blocks \cup {nullptr} : DecrementTo(t, b, next, q)
<1>1. prev_[b] \in Blocks \cup {nullptr}
  BY DEF TypeOK
<1>2. CASE refCount[b] = 1 /\ prev_[b] # nullptr
  <2>1. DecrementTo(t, b, next, prev_[b])
    BY <1>2 DEF Decrement, DecrementTo, GoTo
  <2> QED BY <1>1, <2>1
<1>3. CASE refCount[b] = 1 /\ prev_[b] = nullptr
  <2>1. DecrementTo(t, b, next, nullptr)
    BY <1>3 DEF Decrement, DecrementTo, GoTo
  <2> QED BY <2>1
<1>4. CASE refCount[b] # 1
  <2>1. DecrementTo(t, b, next, nullptr)
    BY <1>4 DEF Decrement, DecrementTo, GoTo
  <2> QED BY <2>1
<1> QED BY <1>2, <1>3, <1>4

(* The thread gives up a reference to b that is not local, and gets that   *)
(* of the deleted object, if any, in todo.                                 *)
GivesUp(t, b) ==
  \A c \in Blocks :
    /\ RefsOf(t, c)' = RefsOf(t, c) - One(c = b) + One(todo'[t] = c)
    /\ LocalRefsOf(t, c)' = LocalRefsOf(t, c)

(* Other references to b are left.                                         *)
LEMMA NotLastStep ==
  ASSUME CountInv, TypeOK', NEW t \in Threads, Frame(t), ThreadState(t)', KeepsNew(t),
         NEW b \in live, NEW next, DecrementTo(t, b, next, nullptr), UNCHANGED <<packedPtr, alive>>,
         refCount[b] # 1, GivesUp(t, b)
  PROVE  CountInv'
<1>1. TypeOK /\ b \in Blocks /\ refCount[b] >= 1 /\ refCount[b] \in Nat
  BY RefCountCovers DEF CountInv, TypeOK
<1>2. todo'[t] = nullptr /\ live' = live /\ prev_' = prev_
  BY <1>1 DEF DecrementTo, TypeOK
<1>3. ASSUME NEW c \in Blocks
      PROVE  /\ RefsOf(t, c)' = RefsOf(t, c) + (0 - One(c = b))
             /\ LocalRefsOf(t, c)' = LocalRefsOf(t, c)
             /\ refCount'[c] = refCount[c] + (0 - One(c = b)) /\ (0 - One(c = b)) \in Int
             /\ ~(0 - One(c = b) > 0)
             /\ 0 - One(c = b) < 0 /\ c \in live => refCount[c] + (0 - One(c = b)) >= 1
  <2>1. One(c = b) \in 0 .. 1 /\ One(todo'[t] = c) = 0
    BY <1>2, BlocksAssumption DEF One
  <2>2. RefsOf(t, c) \in Nat
    BY <1>1, RefsOfType DEF TypeOK
  <2>3. /\ RefsOf(t, c)' = RefsOf(t, c) - One(c = b) + One(todo'[t] = c)
        /\ LocalRefsOf(t, c)' = LocalRefsOf(t, c)
    BY DEF GivesUp
  <2>4. refCount'[c] = refCount[c] - One(c = b) /\ refCount[c] \in Nat
    BY <1>1 DEF DecrementTo, TypeOK, One
  <2>5. One(c = b) = 1 => c = b
    BY DEF One
  <2> QED BY <1>1, <2>1, <2>2, <2>3, <2>4, <2>5
<1>4. CountsFollow(t)
  BY <1>3, FollowedBy DEF CountsFollow
<1> QED BY <1>2, <1>4, CountStep

(* The last reference: nothing refers to the block when it is deleted.     *)
LEMMA LastStep ==
  ASSUME CountInv, TypeOK', NEW t \in Threads, Frame(t), ThreadState(t)', KeepsNew(t),
         NEW b \in live, NEW next, DecrementTo(t, b, next, prev_[b]), UNCHANGED <<packedPtr, alive>>,
         refCount[b] = 1, GivesUp(t, b), RefsOf(t, b) > LocalRefsOf(t, b)
  PROVE  CountInv'
<1>1. /\ TypeOK /\ b \in Blocks /\ live \subseteq Blocks /\ (\A u \in Threads : ThreadState(u)')
      /\ todo'[t] = prev_[b] /\ live' = live \ {b} /\ prev_' = [prev_ EXCEPT ![b] = nullptr]
      /\ refCount' = [refCount EXCEPT ![b] = 0] /\ prev_ \in [Blocks -> Blocks \cup {nullptr}]
  BY OtherStates DEF CountInv, TypeOK, DecrementTo
<1>2. ~InHead(b) /\ NodeRefs(b) = 0 /\ References(b) = 1
  <2>1. RefsOf(t, b) \in Nat /\ LocalRefsOf(t, b) \in Nat
    BY <1>1, RefsOfType DEF TypeOK
  <2>2. 1 >= One(InHead(b)) + NodeRefs(b) + RefsOf(t, b) - LocalRefsOf(t, b)
    BY RefCountCovers
  <2>3. One(InHead(b)) \in 0 .. 1 /\ NodeRefs(b) \in Nat
    BY <1>1, ReferencesType
  <2>4. One(InHead(b)) = 0 /\ NodeRefs(b) = 0
    BY <2>1, <2>2, <2>3
  <2>5. ~InHead(b)
    BY <2>4 DEF One
  <2>6. Counted(b) = References(b) /\ Counted(b) = 1
    BY <2>5 DEF CountInv, ReferencesConserved, Counted
  <2> QED BY <2>4, <2>5, <2>6
<1>3. ASSUME NEW c \in Blocks
      PROVE  /\ References(c)' = References(c) - One(c = b)
             /\ References(c) \in Nat /\ LocalRefs(c)' = LocalRefs(c)
             /\ References(c)' = One(InHead(c))' + NodeRefs(c)' + ThreadRefs(c)'
             /\ NodeRefs(c)' \in Nat /\ One(InHead(c))' \in 0 .. 1
  <2>1. NodeRefs(c)' = NodeRefs(c) - One(prev_[b] = c) /\ NodeRefs(c) >= One(prev_[b] = c)
    <3>1. /\ NodeRefs(c)' = NodeRefs(c) - One(prev_[b] = c) + One(prev_'[b] = c)
          /\ NodeRefs(c) >= One(prev_[b] = c)
      <4>1. \A m \in Blocks \ {b} : prev_'[m] = prev_[m]
        BY <1>1
      <4> QED BY <1>1, <4>1, NodeRefsStep
    <3>2. One(prev_'[b] = c) = 0
      BY <1>1, BlocksAssumption DEF One
    <3>3. NodeRefs(c) \in Nat /\ One(prev_[b] = c) \in 0 .. 1
      BY NodeRefsTell DEF One
    <3> QED BY <3>1, <3>2, <3>3
  <2>2. /\ ThreadRefs(c)' = ThreadRefs(c) - RefsOf(t, c) + RefsOf(t, c)'
        /\ LocalRefs(c)' = LocalRefs(c) - LocalRefsOf(t, c) + LocalRefsOf(t, c)'
    BY <1>1, ThreadRefsStep DEF TypeOK
  <2>3. /\ ThreadRefs(c) \in Nat /\ LocalRefs(c) \in Nat /\ RefsOf(t, c) \in Nat /\ LocalRefsOf(t, c) \in Nat
    BY <1>1, ThreadRefsType, RefsOfType DEF TypeOK
  <2>4. /\ RefsOf(t, c)' = RefsOf(t, c) - One(c = b) + One(prev_[b] = c)
        /\ LocalRefsOf(t, c)' = LocalRefsOf(t, c)
    BY <1>1 DEF GivesUp
  <2>5. One(InHead(c))' = One(InHead(c))
    BY DEF InHead, One
  <2>6. /\ References(c) = One(InHead(c)) + NodeRefs(c) + ThreadRefs(c)
        /\ One(InHead(c)) \in 0 .. 1 /\ NodeRefs(c) \in Nat /\ References(c) \in Nat
    BY <1>1, ReferencesType
  <2>7. References(c)' = One(InHead(c))' + NodeRefs(c)' + ThreadRefs(c)'
    BY DEF References
  <2>8. One(c = b) \in 0 .. 1 /\ One(prev_[b] = c) \in 0 .. 1
    BY DEF One
  <2> QED BY <2>1, <2>2, <2>3, <2>4, <2>5, <2>6, <2>7, <2>8
<1>4. References(b)' = 0
  BY <1>1, <1>2, <1>3 DEF One
<1>5. ASSUME NEW c \in Blocks, c # b PROVE References(c)' = References(c)
  BY <1>3, <1>5 DEF One
<1>6. ReferencesConserved'
  <2>1. ASSUME NEW c \in live, c # b PROVE Counted(c)' = References(c)'
    <3>1. Counted(c) = References(c)
      BY DEF CountInv, ReferencesConserved
    <3>2. refCount'[c] = refCount[c] /\ (InHead(c)' = InHead(c))
      BY <1>1, <2>1 DEF TypeOK, InHead
    <3>3. Counted(c)' = Counted(c)
      BY <3>2 DEF Counted
    <3> QED BY <1>1, <1>5, <2>1, <3>1, <3>3
  <2> QED BY <1>1, <2>1 DEF ReferencesConserved
<1>7. LiveReferenced'
  <2>1. ASSUME NEW c \in Blocks, c \in live', c # b PROVE References(c)' > 0
    BY <1>1, <1>5, <2>1 DEF CountInv, LiveReferenced
  <2>2. ASSUME NEW c \in Blocks, c \notin live', c # b PROVE References(c)' = 0 /\ prev_'[c] = nullptr
    BY <1>1, <1>5, <2>2 DEF CountInv, LiveReferenced
  <2>3. b \notin live' /\ prev_'[b] = nullptr
    BY <1>1
  <2> QED BY <1>4, <2>1, <2>2, <2>3 DEF LiveReferenced
<1>8. LocalCountBacked'
  <2>1. PICK h \in Blocks : packedPtr.block = h
    BY <1>1 DEF TypeOK
  <2>2. LocalRefs(packedPtr.block)' = LocalRefs(packedPtr.block)
    <3>1. LocalRefs(packedPtr.block)' = LocalRefs(h)' /\ LocalRefs(packedPtr.block) = LocalRefs(h)
      BY <2>1 DEF LocalRefs, LocalRefsOf, One
    <3> QED BY <1>3, <3>1
  <2> QED BY <2>2 DEF CountInv, LocalCountBacked
<1>9. ASSUME NEW u \in Threads, NEW n \in Blocks, Makes(u, n)' PROVE Makes(u, n) /\ n # b
  <2>1. Makes(u, n)
    BY <1>9 DEF KeepsNew, Frame, Makes
  <2>2. RefsOf(u, n)' >= 1
    BY <1>9 DEF TypeOK, Makes, RefsOf, One
  <2>3. ThreadRefs(n)' >= RefsOf(u, n)' /\ ThreadRefs(n)' \in Nat /\ RefsOf(u, n)' \in Nat
    BY <1>1, ThreadRefsStep DEF TypeOK
  <2>4. References(n)' # 0
    BY <1>3, <2>2, <2>3
  <2> QED BY <1>4, <2>1, <2>4
<1>10. NewNodes'
  <2>1. SUFFICES ASSUME NEW u \in Threads, NEW n \in Blocks, Makes(u, n)'
                 PROVE  /\ References(n)' = 1
                        /\ Label(u)' \in Exchanging \cup {"compare"} => prev_'[n] # nullptr
    BY DEF NewNodes, Exchanging
  <2>2. Makes(u, n) /\ n # b
    BY <1>9, <2>1
  <2>3. References(n) = 1 /\ (Label(u) \in Exchanging \cup {"compare"} => prev_[n] # nullptr)
    BY <2>2 DEF CountInv, NewNodes
  <2>4. References(n)' = 1 /\ prev_'[n] = prev_[n]
    BY <1>1, <1>5, <2>2, <2>3
  <2>5. ASSUME Label(u)' \in Exchanging \cup {"compare"} PROVE prev_[n] # nullptr
    <3>1. CASE u = t
      BY <2>1, <2>5, <3>1 DEF KeepsNew
    <3>2. CASE u # t
      <4>1. Label(u)' = Label(u)
        BY <3>2 DEF Frame, Label
      <4> QED BY <2>3, <2>5, <4>1 DEF Exchanging
    <3> QED BY <3>1, <3>2
  <2> QED BY <2>4, <2>5
<1>11. NodesLinked'
  <2>1. SUFFICES ASSUME NEW n \in live' \ {Bottom}, prev_'[n] = nullptr
                 PROVE  \E u \in Threads : Makes(u, n)'
    BY DEF NodesLinked
  <2>2. n \in live /\ n \in Blocks /\ prev_[n] = nullptr
    BY <1>1, <2>1
  <2>3. PICK u \in Threads : Makes(u, n)
    BY <2>1, <2>2 DEF CountInv, NodesLinked
  <2>4. CASE u = t
    BY <2>2, <2>3, <2>4 DEF KeepsNew
  <2>5. CASE u # t
    BY <2>3, <2>5 DEF Frame, Makes
  <2> QED BY <2>4, <2>5
<1> QED BY <1>1, <1>6, <1>7, <1>8, <1>10, <1>11 DEF CountInv

(* Both together.                                                          *)
LEMMA DecrementStep ==
  ASSUME CountInv, TypeOK', NEW t \in Threads, Frame(t), ThreadState(t)', KeepsNew(t),
         NEW b \in live, NEW next, NEW q, DecrementTo(t, b, next, q), UNCHANGED <<packedPtr, alive>>,
         GivesUp(t, b), RefsOf(t, b) > LocalRefsOf(t, b)
  PROVE  CountInv'
<1>1. CASE refCount[b] = 1
  <2>1. q = prev_[b]
    BY <1>1 DEF DecrementTo
  <2> QED BY <1>1, <2>1, LastStep
<1>2. CASE refCount[b] # 1
  <2>1. q = nullptr
    BY <1>2 DEF DecrementTo
  <2> QED BY <1>2, <2>1, NotLastStep
<1> QED BY <1>1, <1>2

(* unref drops a reference, and what the deleted object refers to next.    *)
LEMMA UnrefStep ==
  ASSUME CountInv, NEW t \in Threads, Unref(t), Around(t, outcome[t])
  PROVE  CountInv'
<1>1. TypeOK /\ ThreadState(t) /\ outcome[t] \in {"none", "empty", "exchanged"}
  BY DEF CountInv, TypeOK
<1>2. /\ (data_ \in [Blocks -> Values \cup {NoValue}])'
      /\ (element \in [Threads -> Values \cup {NoValue}])'
      /\ (op \in [Threads -> {"none", "Push", "Pop"}])'
      /\ (outcome \in [Threads -> {"none", "empty", "exchanged"}])'
      /\ (alive \in BOOLEAN)'
  BY <1>1, AroundType DEF AroundOK
<1>3. /\ alive' = alive /\ \A u \in Threads \ {t} : op'[u] = op[u]
      /\ op'[t] = IF pc'[t] = "idle" THEN "none" ELSE op[t]
  BY <1>1, AroundType DEF AroundOK
<1>4. /\ pc[t] = "unref" /\ todo[t] \in Blocks /\ Label(t) = ret[t]
      /\ ret[t] \in {"idle", "get", "compare", "copy", "drop", "retry", "take",
                   "release_holder", "release_top"}
      /\ got[t] = nullptr /\ diff[t] = 0
  BY <1>1 DEF TypeOK, Unref, fasts, Label, ThreadState, CallOf, PointersOf, ExpectedOf, Known,
     PushLabels, PopLabels, Exchanging
<1>5. PICK q \in Blocks \cup {nullptr} : DecrementTo(t, todo[t], ret[t], q)
  BY <1>1, <1>4, DecrementCases DEF Unref
<1>6. todo[t] \in live /\ refCount[todo[t]] >= 1 /\ RefsOf(t, todo[t]) > LocalRefsOf(t, todo[t])
  <2>1. RefsOf(t, todo[t]) \in Nat /\ LocalRefsOf(t, todo[t]) \in Nat
    BY <1>1, RefsOfType DEF TypeOK
  <2>2. RefsOf(t, todo[t]) > LocalRefsOf(t, todo[t])
    BY <1>1, <1>4 DEF TypeOK, RefsOf, LocalRefsOf, One
  <2>3. todo[t] \in live
    BY <1>4, <2>1, <2>2, ReferencedIsLive
  <2> QED BY <2>2, <2>3, RefCountCovers
<1>7. /\ pc'[t] = (IF q = nullptr THEN ret[t] ELSE "unref") /\ todo'[t] = q
      /\ ret'[t] = IF q = nullptr THEN "none" ELSE ret[t]
      /\ Label(t)' = ret[t]
      /\ op'[t] = IF q = nullptr /\ ret[t] = "idle" THEN "none" ELSE op[t]
      /\ pc'[t] = "release_top" => expected'[t] = top[t]
      /\ pc'[t] = "release_holder" => expected'[t] = holder[t]
      /\ top' = top /\ holder' = holder /\ ptr' = ptr /\ got' = got
      /\ diff' = diff /\ packedPtr' = packedPtr /\ alive' = alive
  <2>1. /\ pc'[t] = (IF q = nullptr THEN ret[t] ELSE "unref") /\ todo'[t] = q
        /\ ret'[t] = IF q = nullptr THEN "none" ELSE ret[t]
        /\ expected'[t] = IF q = nullptr THEN FirstExpected(ret[t], top[t], holder[t]) ELSE NoPacked
    BY <1>1, <1>5 DEF TypeOK, DecrementTo
  <2>2. Label(t)' = ret[t]
    BY <1>4, <2>1 DEF Label
  <2>3. op'[t] = IF q = nullptr /\ ret[t] = "idle" THEN "none" ELSE op[t]
    BY <1>3, <1>4, <2>1
  <2>4. pc'[t] = "release_top" => expected'[t] = top[t]
    BY <1>4, <2>1 DEF FirstExpected
  <2>5. pc'[t] = "release_holder" => expected'[t] = holder[t]
    BY <1>4, <2>1 DEF FirstExpected
  <2>6. /\ top' = top /\ holder' = holder /\ ptr' = ptr /\ got' = got
        /\ diff' = diff /\ packedPtr' = packedPtr /\ alive' = alive
    BY <1>1, <1>3, <1>4 DEF TypeOK, Unref, fasts
  <2> QED BY <2>1, <2>2, <2>3, <2>4, <2>5, <2>6
<1>8. PtrTypes'
  <2>1. refCount' \in [Blocks -> Nat]
    BY <1>1, <1>4, <1>6, <1>5 DEF TypeOK, DecrementTo
  <2>2. live' \subseteq Blocks /\ prev_' \in [Blocks -> Blocks \cup {nullptr}]
    BY <1>1, <1>5 DEF TypeOK, DecrementTo
  <2>3. /\ pc' \in [Threads -> Labels] /\ ret' \in [Threads -> Labels \cup {"none"}]
        /\ todo' \in [Threads -> Blocks \cup {nullptr}]
    BY <1>1, <1>4, <1>5 DEF TypeOK, DecrementTo, Labels
  <2>4. expected' \in [Threads -> [block : Blocks \cup {nullptr}, count : Nat]]
    BY <1>1, <1>5 DEF TypeOK, DecrementTo, FirstExpected, NoPacked, Packed
  <2>5. /\ ptr' \in [Threads -> Blocks \cup {nullptr}] /\ got' = got /\ top' = top /\ holder' = holder
        /\ diff' = diff /\ packedPtr' = packedPtr
    BY <1>1 DEF TypeOK, fasts, Unref, fasts
  <2> QED BY <1>1, <2>1, <2>2, <2>3, <2>4, <2>5 DEF TypeOK, PtrTypes
<1>9. TypeOK'
  BY <1>2, <1>8 DEF TypeOK, PtrTypes
<1>10. Frame(t)
  BY <1>1, <1>3, <1>5, <1>7 DEF TypeOK, Frame, DecrementTo, Unref, fasts
<1>11. ThreadState(t)'
  BY <1>1, <1>3, <1>4, <1>5, <1>7, BlocksAssumption DEF TypeOK, ThreadState, CallOf,
     PointersOf, ExpectedOf, Known, PushLabels, PopLabels, Exchanging, NoPacked, Packed
<1>12. KeepsNew(t)
  <2>1. ASSUME NEW n \in Blocks, Makes(t, n) PROVE Makes(t, n)' /\ ret[t] # "idle"
    <3>1. ret[t] # "idle"
      BY <1>1, <1>4, <2>1, BlocksAssumption DEF Makes, ThreadState, PointersOf, PushLabels, Exchanging
    <3> QED BY <1>3, <1>7, <2>1, <3>1 DEF Makes
  <2>2. ASSUME NEW n \in Blocks, Makes(t, n)' PROVE Makes(t, n)
    BY <1>3, <1>7, <2>2 DEF Makes
  <2>3. ASSUME NEW n \in Blocks, Makes(t, n), ret[t] \in Exchanging \cup {"compare"}
        PROVE  prev_[n] # nullptr
    BY <1>4, <2>3 DEF CountInv, NewNodes, Exchanging
  <2> QED BY <1>7, <2>1, <2>2, <2>3 DEF KeepsNew, Exchanging
<1>13. GivesUp(t, todo[t])
  <2>1. ASSUME NEW c \in Blocks
        PROVE  /\ RefsOf(t, c)' = RefsOf(t, c) - One(c = todo[t]) + One(todo'[t] = c)
               /\ LocalRefsOf(t, c)' = LocalRefsOf(t, c)
    BY <1>1, <1>4, <1>5, <1>7, BlocksAssumption DEF TypeOK, RefsOf, LocalRefsOf, One,
       NoPacked, Packed
  <2> QED BY <2>1 DEF GivesUp
<1> QED BY <1>3, <1>5, <1>6, <1>7, <1>9, <1>10, <1>11, <1>12, <1>13, DecrementStep

(* The control block that was in packedPtr loses that reference.           *)
LEMMA DestroyOldStep ==
  ASSUME CountInv, NEW t \in Threads, DestroyOldControlBlock(t), Around(t, outcome[t])
  PROVE  CountInv'
<1>1. TypeOK /\ ThreadState(t) /\ outcome[t] \in {"none", "empty", "exchanged"}
  BY DEF CountInv, TypeOK
<1>2. /\ (data_ \in [Blocks -> Values \cup {NoValue}])'
      /\ (element \in [Threads -> Values \cup {NoValue}])'
      /\ (op \in [Threads -> {"none", "Push", "Pop"}])'
      /\ (outcome \in [Threads -> {"none", "empty", "exchanged"}])'
      /\ (alive \in BOOLEAN)'
  BY <1>1, AroundType DEF AroundOK
<1>3. /\ alive' = alive /\ \A u \in Threads \ {t} : op'[u] = op[u]
      /\ op'[t] = IF pc'[t] = "idle" THEN "none" ELSE op[t]
  BY <1>1, AroundType DEF AroundOK
<1>4. /\ pc[t] = "destroy_old" /\ Label(t) = "destroy_old" /\ op[t] \in {"Push", "Pop"} /\ alive
      /\ expected[t].block \in Blocks /\ todo[t] = nullptr /\ got[t] = nullptr /\ ptr[t] = nullptr
      /\ diff[t] = 0
      /\ holder[t].block \in Blocks /\ holder[t].count > 0
      /\ op[t] = "Push" => top[t] = NoPacked
      /\ op[t] = "Pop" => top[t].block \in Blocks /\ top[t].count > 0
  BY <1>1 DEF TypeOK, DestroyOldControlBlock, fasts, Label, ThreadState, CallOf, PointersOf,
     ExpectedOf, Known, PushLabels, PopLabels, Exchanging
<1>5. PICK q \in Blocks \cup {nullptr} : DecrementTo(t, expected[t].block, "release_holder", q)
  BY <1>1, <1>4, DecrementCases DEF DestroyOldControlBlock
<1>6. /\ expected[t].block \in live /\ refCount[expected[t].block] >= 1
      /\ RefsOf(t, expected[t].block) > LocalRefsOf(t, expected[t].block)
  <2>1. RefsOf(t, expected[t].block) \in Nat /\ LocalRefsOf(t, expected[t].block) \in Nat
    BY <1>1, RefsOfType DEF TypeOK
  <2>2. RefsOf(t, expected[t].block) > LocalRefsOf(t, expected[t].block)
    BY <1>1, <1>4 DEF TypeOK, RefsOf, LocalRefsOf, One
  <2>3. expected[t].block \in live
    BY <1>4, <2>1, <2>2, ReferencedIsLive
  <2> QED BY <2>2, <2>3, RefCountCovers
<1>7. /\ pc'[t] = (IF q = nullptr THEN "release_holder" ELSE "unref") /\ todo'[t] = q
      /\ ret'[t] = IF q = nullptr THEN "none" ELSE "release_holder"
      /\ Label(t)' = "release_holder" /\ op'[t] = op[t]
      /\ pc'[t] = "release_holder" => expected'[t] = holder[t]
      /\ top' = top /\ holder' = holder /\ ptr' = ptr /\ got' = got
      /\ diff' = diff /\ packedPtr' = packedPtr /\ alive' = alive
  <2>1. /\ pc'[t] = (IF q = nullptr THEN "release_holder" ELSE "unref") /\ todo'[t] = q
        /\ ret'[t] = IF q = nullptr THEN "none" ELSE "release_holder"
        /\ expected'[t] = IF q = nullptr THEN FirstExpected("release_holder", top[t], holder[t]) ELSE NoPacked
    BY <1>1, <1>5 DEF TypeOK, DecrementTo
  <2>2. Label(t)' = "release_holder"
    BY <1>4, <2>1 DEF Label
  <2>3. pc'[t] = "release_holder" => expected'[t] = holder[t]
    BY <1>4, <2>1 DEF FirstExpected
  <2>4. op'[t] = op[t]
    BY <1>3, <1>4, <2>1
  <2>5. /\ top' = top /\ holder' = holder /\ ptr' = ptr /\ got' = got
        /\ diff' = diff /\ packedPtr' = packedPtr /\ alive' = alive
    BY <1>1, <1>3, <1>4 DEF TypeOK, DestroyOldControlBlock, fasts
  <2> QED BY <2>1, <2>2, <2>3, <2>4, <2>5
<1>8. PtrTypes'
  <2>1. refCount' \in [Blocks -> Nat]
    BY <1>1, <1>4, <1>6, <1>5 DEF TypeOK, DecrementTo
  <2>2. live' \subseteq Blocks /\ prev_' \in [Blocks -> Blocks \cup {nullptr}]
    BY <1>1, <1>5 DEF TypeOK, DecrementTo
  <2>3. /\ pc' \in [Threads -> Labels] /\ ret' \in [Threads -> Labels \cup {"none"}]
        /\ todo' \in [Threads -> Blocks \cup {nullptr}]
    BY <1>1, <1>4, <1>5 DEF TypeOK, DecrementTo, Labels
  <2>4. expected' \in [Threads -> [block : Blocks \cup {nullptr}, count : Nat]]
    BY <1>1, <1>5 DEF TypeOK, DecrementTo, FirstExpected, NoPacked, Packed
  <2>5. /\ ptr' \in [Threads -> Blocks \cup {nullptr}] /\ got' = got /\ top' = top /\ holder' = holder
        /\ diff' = diff /\ packedPtr' = packedPtr
    BY <1>1 DEF TypeOK, fasts, DestroyOldControlBlock, fasts
  <2> QED BY <1>1, <2>1, <2>2, <2>3, <2>4, <2>5 DEF TypeOK, PtrTypes
<1>9. TypeOK'
  BY <1>2, <1>8 DEF TypeOK, PtrTypes
<1>10. Frame(t)
  BY <1>1, <1>3, <1>5, <1>7 DEF TypeOK, Frame, DecrementTo, DestroyOldControlBlock, fasts
<1>11. ThreadState(t)'
  BY <1>1, <1>3, <1>4, <1>5, <1>7, BlocksAssumption DEF TypeOK, ThreadState, CallOf,
     PointersOf, ExpectedOf, Known, PushLabels, PopLabels, Exchanging, NoPacked, Packed
<1>12. KeepsNew(t)
  BY <1>1, <1>3, <1>4, <1>7 DEF TypeOK, KeepsNew, Makes, Exchanging
<1>13. GivesUp(t, expected[t].block)
  <2>1. ASSUME NEW c \in Blocks
        PROVE  /\ RefsOf(t, c)' = RefsOf(t, c) - One(c = expected[t].block) + One(todo'[t] = c)
               /\ LocalRefsOf(t, c)' = LocalRefsOf(t, c)
    BY <1>1, <1>4, <1>5, <1>7, BlocksAssumption DEF TypeOK, RefsOf, LocalRefsOf, One,
       NoPacked, Packed
  <2> QED BY <2>1 DEF GivesUp
<1> QED BY <1>3, <1>5, <1>6, <1>7, <1>9, <1>10, <1>11, <1>12, <1>13, DecrementStep

(* Pop destroys its copy of prev_.                                         *)
LEMMA PopDropCopyStep ==
  ASSUME CountInv, NEW t \in Threads, PopDropCopy(t)
  PROVE  CountInv'
<1>1. TypeOK /\ ThreadState(t) /\ outcome[t] \in {"none", "empty", "exchanged"}
  BY DEF CountInv, TypeOK
<1>2. /\ (data_ \in [Blocks -> Values \cup {NoValue}])'
      /\ (element \in [Threads -> Values \cup {NoValue}])'
      /\ (op \in [Threads -> {"none", "Push", "Pop"}])'
      /\ (outcome \in [Threads -> {"none", "empty", "exchanged"}])'
      /\ (alive \in BOOLEAN)'
  BY <1>1 DEF TypeOK, PopDropCopy, DataOfLive, cvars
<1>3. /\ alive' = alive /\ \A u \in Threads \ {t} : op'[u] = op[u]
      /\ op'[t] = op[t]
  BY <1>1 DEF PopDropCopy, cvars
<1>4. /\ pc[t] = "drop" /\ Label(t) = "drop" /\ op[t] = "Pop" /\ alive
      /\ todo[t] = nullptr /\ got[t] = nullptr /\ diff[t] = 0
      /\ top[t].block \in Blocks /\ top[t].count > 0 /\ holder[t] = NoPacked
      /\ ptr[t] \in Blocks
  BY <1>1 DEF TypeOK, PopDropCopy, fasts, cvars, Label, ThreadState, CallOf, PointersOf,
     ExpectedOf, Known, PushLabels, PopLabels, Exchanging
<1>5. PICK q \in Blocks \cup {nullptr} : DecrementTo(t, ptr[t], "retry", q)
  BY <1>1, <1>4, DecrementCases DEF PopDropCopy
<1>6. ptr[t] \in live /\ refCount[ptr[t]] >= 1 /\ RefsOf(t, ptr[t]) > LocalRefsOf(t, ptr[t])
  <2>1. RefsOf(t, ptr[t]) \in Nat /\ LocalRefsOf(t, ptr[t]) \in Nat
    BY <1>1, RefsOfType DEF TypeOK
  <2>2. RefsOf(t, ptr[t]) > LocalRefsOf(t, ptr[t])
    BY <1>1, <1>4 DEF TypeOK, RefsOf, LocalRefsOf, One
  <2>3. ptr[t] \in live
    BY <1>4, <2>1, <2>2, ReferencedIsLive
  <2> QED BY <2>2, <2>3, RefCountCovers
<1>7. /\ pc'[t] = (IF q = nullptr THEN "retry" ELSE "unref") /\ todo'[t] = q
      /\ ret'[t] = IF q = nullptr THEN "none" ELSE "retry"
      /\ Label(t)' = "retry" /\ op'[t] = op[t]
      /\ ptr'[t] = nullptr
      /\ top' = top /\ holder' = holder /\ got' = got
      /\ diff' = diff /\ packedPtr' = packedPtr /\ alive' = alive
  <2>1. /\ pc'[t] = (IF q = nullptr THEN "retry" ELSE "unref") /\ todo'[t] = q
        /\ ret'[t] = IF q = nullptr THEN "none" ELSE "retry"
        /\ expected'[t] = IF q = nullptr THEN FirstExpected("retry", top[t], holder[t]) ELSE NoPacked
    BY <1>1, <1>5 DEF TypeOK, DecrementTo
  <2>2. Label(t)' = "retry"
    BY <1>4, <2>1 DEF Label
  <2>3. op'[t] = op[t]
    BY <1>3, <1>4, <2>1
  <2>4. /\ ptr'[t] = nullptr
        /\ top' = top /\ holder' = holder /\ got' = got
        /\ diff' = diff /\ packedPtr' = packedPtr /\ alive' = alive
    BY <1>1, <1>3, <1>4 DEF TypeOK, PopDropCopy, fasts, cvars
  <2> QED BY <2>1, <2>2, <2>3, <2>4
<1>8. PtrTypes'
  <2>1. refCount' \in [Blocks -> Nat]
    BY <1>1, <1>4, <1>6, <1>5 DEF TypeOK, DecrementTo
  <2>2. live' \subseteq Blocks /\ prev_' \in [Blocks -> Blocks \cup {nullptr}]
    BY <1>1, <1>5 DEF TypeOK, DecrementTo
  <2>3. /\ pc' \in [Threads -> Labels] /\ ret' \in [Threads -> Labels \cup {"none"}]
        /\ todo' \in [Threads -> Blocks \cup {nullptr}]
    BY <1>1, <1>4, <1>5 DEF TypeOK, DecrementTo, Labels
  <2>4. expected' \in [Threads -> [block : Blocks \cup {nullptr}, count : Nat]]
    BY <1>1, <1>5 DEF TypeOK, DecrementTo, FirstExpected, NoPacked, Packed
  <2>5. /\ ptr' \in [Threads -> Blocks \cup {nullptr}] /\ got' = got /\ top' = top /\ holder' = holder
        /\ diff' = diff /\ packedPtr' = packedPtr
    BY <1>1 DEF TypeOK, fasts, PopDropCopy, fasts, cvars
  <2> QED BY <1>1, <2>1, <2>2, <2>3, <2>4, <2>5 DEF TypeOK, PtrTypes
<1>9. TypeOK'
  BY <1>2, <1>8 DEF TypeOK, PtrTypes
<1>10. Frame(t)
  BY <1>1, <1>3, <1>5, <1>7 DEF TypeOK, Frame, DecrementTo, PopDropCopy, fasts, cvars
<1>11. ThreadState(t)'
  BY <1>1, <1>3, <1>4, <1>5, <1>7, BlocksAssumption DEF TypeOK, ThreadState, CallOf,
     PointersOf, ExpectedOf, Known, PushLabels, PopLabels, Exchanging, NoPacked, Packed
<1>12. KeepsNew(t)
  BY <1>1, <1>3, <1>4, <1>7 DEF TypeOK, KeepsNew, Makes, Exchanging
<1>13. GivesUp(t, ptr[t])
  <2>1. ASSUME NEW c \in Blocks
        PROVE  /\ RefsOf(t, c)' = RefsOf(t, c) - One(c = ptr[t]) + One(todo'[t] = c)
               /\ LocalRefsOf(t, c)' = LocalRefsOf(t, c)
    BY <1>1, <1>4, <1>5, <1>7, BlocksAssumption DEF TypeOK, RefsOf, LocalRefsOf, One,
       NoPacked, Packed
  <2> QED BY <2>1 DEF GivesUp
<1> QED BY <1>3, <1>5, <1>6, <1>7, <1>9, <1>10, <1>11, <1>12, <1>13, DecrementStep

(* compareExchange succeeds: newOne is in head_.                           *)
LEMMA ExchangeSucceedsStep ==
  ASSUME CountInv, NEW t \in Threads, Exchange(t), Around(t, "exchanged")
  PROVE  CountInv'
<1>1. TypeOK /\ ThreadState(t) /\ outcome[t] \in {"none", "empty", "exchanged"}
  BY DEF CountInv, TypeOK
<1>2. AroundOK(t)
  BY <1>1, AroundType
<1>3. /\ pc[t] = "exchange" /\ Label(t) = "exchange" /\ op[t] \in {"Push", "Pop"} /\ alive
      /\ todo[t] = nullptr /\ got[t] = nullptr /\ ptr[t] \in Blocks /\ diff[t] = 0
      /\ op[t] = "Push" => top[t] = NoPacked
      /\ op[t] = "Pop" => top[t].block \in Blocks /\ top[t].count > 0
      /\ holder[t].block \in Blocks /\ holder[t].count > 0
      /\ expected[t].block = holder[t].block /\ expected[t].count = 0
      /\ packedPtr.block = holder[t].block /\ packedPtr.count = 0
  BY <1>1 DEF TypeOK, Exchange, Packed, tvars, fasts, mvars, uvars, cvars, Label, ThreadState,
     CallOf, PointersOf, ExpectedOf, Known, PushLabels, PopLabels, Exchanging
<1>4. \A n \in Blocks : Makes(t, n) => prev_[n] # nullptr
  BY <1>3 DEF CountInv, NewNodes, Exchanging
<1>5. /\ pc'[t] = "destroy_old" /\ Label(t)' = "destroy_old" /\ op'[t] = op[t]
      /\ packedPtr'.block = ptr[t] /\ packedPtr'.count = 0 /\ ptr'[t] = nullptr
      /\ ret' = ret /\ todo' = todo /\ top' = top /\ holder' = holder /\ got' = got
      /\ expected' = expected /\ diff' = diff
      /\ live' = live /\ prev_' = prev_ /\ alive' = alive /\ refCount' = refCount
  BY <1>1, <1>3, <1>2 DEF TypeOK, Label, Exchange, Packed, tvars, fasts, mvars, uvars, cvars,
     AroundOK
<1>6. PtrTypes'
  BY <1>1, <1>3, <1>5 DEF TypeOK, PtrTypes, Labels, NoPacked, Packed, Exchange, Packed, tvars,
     fasts, mvars, uvars, cvars
<1>7. TypeOK'
  BY <1>1, <1>6, <1>2 DEF TypeOK, PtrTypes, AroundOK
<1>8. Frame(t)
  BY <1>1, <1>5, <1>2 DEF TypeOK, Frame, Exchange, Packed, tvars, fasts, mvars, uvars, cvars,
     AroundOK
<1>9. ThreadState(t)'
  BY <1>1, <1>3, <1>5, BlocksAssumption DEF TypeOK, ThreadState, CallOf, PointersOf,
     ExpectedOf, Known, PushLabels, PopLabels, Exchanging, NoPacked, Packed
<1>10. KeepsNew(t)
  BY <1>1, <1>3, <1>5, <1>4, BlocksAssumption DEF TypeOK, KeepsNew, Makes, Exchanging
<1>11. ASSUME NEW b \in Blocks
      PROVE  /\ One(InHead(b)) = One(holder[t].block = b) /\ One(InHead(b))' = One(ptr[t] = b)
             /\ RefsOf(t, b)' = RefsOf(t, b) - One(ptr[t] = b) + One(holder[t].block = b)
             /\ Counted(b)' = refCount[b] /\ Counted(b) = refCount[b]
             /\ refCount[b] \in Nat /\ RefsOf(t, b) \in Nat
             /\ One(ptr[t] = b) \in 0 .. 1 /\ One(holder[t].block = b) \in 0 .. 1
  <2>1. One(InHead(b)) = One(holder[t].block = b) /\ One(InHead(b))' = One(ptr[t] = b)
    BY <1>3, <1>5 DEF InHead, One
  <2>2. RefsOf(t, b)' = RefsOf(t, b) - One(ptr[t] = b) + One(holder[t].block = b)
    BY <1>1, <1>3, <1>5, BlocksAssumption DEF TypeOK, RefsOf, One
  <2>3. refCount[b] \in Nat /\ RefsOf(t, b) \in Nat
    BY <1>1, RefsOfType DEF TypeOK
  <2>4. Counted(b)' = refCount[b] /\ Counted(b) = refCount[b]
    BY <1>3, <1>5, <2>3 DEF Counted
  <2>5. One(ptr[t] = b) \in 0 .. 1 /\ One(holder[t].block = b) \in 0 .. 1
    BY DEF One
  <2> QED BY <2>1, <2>2, <2>3, <2>4, <2>5
<1>12. Balanced(t)
  BY <1>11 DEF Balanced
<1>13. AddsToShared(t)
  BY <1>11 DEF AddsToShared
<1>14. LocalBalanced(t)
  BY <1>5 DEF LocalBalanced
<1>15. \A b \in live : refCount'[b] >= 1
  BY <1>5, RefCountCovers
<1> QED
  BY <1>3, <1>4, <1>5, <1>6, <1>7, <1>8, <1>9, <1>10, <1>11, <1>12, <1>13, <1>14, <1>15, QuietStep

(***************************************************************************)
(* Steps that make a node, link it, and take the stack away.               *)
(***************************************************************************)
(* Push makes a node at an address that nothing refers to.                 *)
LEMMA PushStep ==
  ASSUME CountInv, NEW t \in Threads, NEW v \in Values, Push(t, v)
  PROVE  CountInv'
<1>1. TypeOK /\ ThreadState(t) /\ live \subseteq Blocks
  BY DEF CountInv, TypeOK
<1>2. /\ pc[t] = "idle" /\ op[t] = "none" /\ alive
      /\ todo[t] = nullptr /\ got[t] = nullptr /\ ptr[t] = nullptr /\ diff[t] = 0
      /\ top[t] = NoPacked /\ holder[t] = NoPacked
  BY <1>1, BlocksAssumption DEF TypeOK, Push, Label, ThreadState, CallOf, PointersOf, ExpectedOf, Known,
     PushLabels, PopLabels, Exchanging
<1>3. PICK n \in Nodes \ live :
        /\ live' = live \cup {n} /\ refCount' = [refCount EXCEPT ![n] = 1]
        /\ data_' = [data_ EXCEPT ![n] = v] /\ ptr' = [ptr EXCEPT ![t] = n]
  BY DEF Push
<1>4. n \in Blocks /\ n \notin live /\ n # Bottom /\ n # nullptr /\ References(n) = 0 /\ prev_[n] = nullptr
  BY <1>3, BlocksAssumption DEF CountInv, LiveReferenced, Nodes
<1>5. /\ pc'[t] = "get" /\ op'[t] = "Push" /\ ptr'[t] = n
      /\ ret' = ret /\ todo' = todo /\ top' = top /\ holder' = holder /\ got' = got
      /\ expected' = expected /\ diff' = diff /\ packedPtr' = packedPtr /\ prev_' = prev_
      /\ alive' = alive /\ element' = element /\ outcome' = outcome
  BY <1>1, <1>3 DEF TypeOK, Push, fasts
<1>6. Label(t)' = "get"
  BY <1>5 DEF Label
<1>7. TypeOK'
  <2>1. pc' \in [Threads -> Labels]
    BY <1>1 DEF TypeOK, Push, Labels
  <2>2. op' \in [Threads -> {"none", "Push", "Pop"}]
    BY <1>1 DEF TypeOK, Push
  <2>3. /\ refCount' \in [Blocks -> Nat] /\ live' \subseteq Blocks
        /\ ptr' \in [Threads -> Blocks \cup {nullptr}]
        /\ data_' \in [Blocks -> Values \cup {NoValue}]
    BY <1>1, <1>3, <1>4 DEF TypeOK
  <2> QED BY <1>1, <1>5, <2>1, <2>2, <2>3 DEF TypeOK
<1>8. Frame(t)
  BY <1>1, <1>3, <1>5 DEF TypeOK, Frame, Push
<1>9. ThreadState(t)'
  BY <1>1, <1>2, <1>4, <1>5, <1>6, BlocksAssumption DEF ThreadState, CallOf, PointersOf, ExpectedOf, Known,
     PushLabels, PopLabels, Exchanging, NoPacked, Packed
<1>10. \A u \in Threads : ThreadState(u)'
  BY <1>5, <1>8, <1>9, OtherStates
<1>11. ASSUME NEW b \in Blocks
       PROVE  References(b)' = References(b) + One(b = n) /\ LocalRefs(b)' = LocalRefs(b)
  <2>1. RefsOf(t, b)' = RefsOf(t, b) + One(b = n) /\ LocalRefsOf(t, b)' = LocalRefsOf(t, b)
    BY <1>1, <1>2, <1>5, BlocksAssumption DEF TypeOK, RefsOf, LocalRefsOf, One, NoPacked, Packed
  <2>2. /\ ThreadRefs(b)' = ThreadRefs(b) - RefsOf(t, b) + RefsOf(t, b)'
        /\ LocalRefs(b)' = LocalRefs(b) - LocalRefsOf(t, b) + LocalRefsOf(t, b)'
    BY <1>1, <1>7, <1>8, ThreadRefsStep DEF TypeOK
  <2>3. ThreadRefs(b) \in Nat /\ LocalRefs(b) \in Nat /\ RefsOf(t, b) \in Nat /\ LocalRefsOf(t, b) \in Nat
    BY <1>1, ThreadRefsType, RefsOfType DEF TypeOK
  <2>4. NodeRefs(b)' = NodeRefs(b) /\ One(InHead(b))' = One(InHead(b))
    BY <1>5 DEF NodeRefs, InHead, One
  <2>5. /\ References(b) = One(InHead(b)) + NodeRefs(b) + ThreadRefs(b)
        /\ One(InHead(b)) \in 0 .. 1 /\ NodeRefs(b) \in Nat
    BY <1>1, ReferencesType
  <2>6. References(b)' = One(InHead(b))' + NodeRefs(b)' + ThreadRefs(b)'
    BY DEF References
  <2>7. One(b = n) \in 0 .. 1
    BY DEF One
  <2> QED BY <2>1, <2>2, <2>3, <2>4, <2>5, <2>6, <2>7
<1>12. ASSUME NEW b \in Blocks, b # n PROVE References(b)' = References(b)
  <2>1. References(b) \in Nat
    BY <1>1, ReferencesType
  <2> QED BY <1>11, <1>12, <2>1 DEF One
<1>13. References(n)' = 1
  BY <1>4, <1>11 DEF One
<1>14. ReferencesConserved'
  <2>1. ASSUME NEW b \in live PROVE Counted(b)' = References(b)'
    <3>1. b # n /\ b \in Blocks /\ Counted(b) = References(b)
      BY <1>1, <1>4 DEF CountInv, ReferencesConserved
    <3>2. refCount'[b] = refCount[b]
      BY <1>1, <1>3, <3>1 DEF TypeOK
    <3>3. Counted(b)' = Counted(b)
      BY <1>5, <3>2 DEF Counted, InHead
    <3> QED BY <1>12, <3>1, <3>3
  <2>2. Counted(n)' = 1
    <3>1. ~InHead(n)
      BY <1>4, ReferencedIsLive
    <3>2. ~InHead(n)' /\ refCount'[n] = 1
      BY <1>1, <1>3, <1>4, <1>5, <3>1 DEF InHead, TypeOK
    <3> QED BY <3>2 DEF Counted
  <2> QED BY <1>3, <1>13, <2>1, <2>2 DEF ReferencesConserved
<1>15. LiveReferenced'
  <2>1. ASSUME NEW b \in Blocks, b # n
        PROVE  IF b \in live' THEN References(b)' > 0 ELSE References(b)' = 0 /\ prev_'[b] = nullptr
    BY <1>3, <1>5, <1>12, <2>1 DEF CountInv, LiveReferenced
  <2>2. n \in live' /\ References(n)' > 0
    BY <1>3, <1>13
  <2> QED BY <2>1, <2>2 DEF LiveReferenced
<1>16. LocalCountBacked'
  <2>1. PICK h \in Blocks : packedPtr.block = h
    BY <1>1 DEF TypeOK
  <2>2. LocalRefs(packedPtr.block)' = LocalRefs(h)' /\ LocalRefs(packedPtr.block) = LocalRefs(h)
    BY <1>5, <2>1 DEF LocalRefs, LocalRefsOf, One
  <2> QED BY <1>5, <1>11, <2>2 DEF CountInv, LocalCountBacked
<1>17. ASSUME NEW u \in Threads, NEW m \in Blocks, u # t PROVE Makes(u, m)' <=> Makes(u, m)
  BY <1>8, <1>17 DEF Frame, Makes
<1>18. ASSUME NEW u \in Threads, NEW m \in Blocks, Makes(u, m) PROVE u # t /\ m # n /\ References(m) = 1
  <2>1. u # t /\ References(m) = 1
    BY <1>2, <1>18 DEF CountInv, NewNodes, Makes
  <2> QED BY <1>4, <2>1
<1>19. NewNodes'
  <2>1. ASSUME NEW u \in Threads, NEW m \in Blocks, Makes(u, m)', u # t
        PROVE  /\ References(m)' = 1
               /\ Label(u)' \in Exchanging \cup {"compare"} => prev_'[m] # nullptr
    <3>1. Makes(u, m) /\ m # n /\ References(m) = 1
      BY <1>17, <1>18, <2>1
    <3>2. Label(u)' = Label(u)
      BY <1>8, <2>1 DEF Frame, Label
    <3> QED BY <1>5, <1>12, <3>1, <3>2 DEF CountInv, NewNodes
  <2>2. ASSUME NEW m \in Blocks, Makes(t, m)' PROVE m = n
    BY <1>5, <2>2 DEF Makes
  <2>3. Label(t)' \notin Exchanging \cup {"compare"}
    BY <1>6 DEF Exchanging
  <2> QED BY <1>13, <2>1, <2>2, <2>3 DEF NewNodes, Exchanging
<1>20. NodesLinked'
  <2>1. SUFFICES ASSUME NEW m \in live' \ {Bottom}, prev_'[m] = nullptr
                 PROVE  \E u \in Threads : Makes(u, m)'
    BY DEF NodesLinked
  <2>2. CASE m = n
    BY <1>5, <2>2 DEF Makes
  <2>3. CASE m # n
    <3>1. m \in live \ {Bottom} /\ m \in Blocks
      BY <1>1, <1>3, <2>3
    <3>2. PICK u \in Threads : Makes(u, m)
      BY <1>5, <2>1, <3>1 DEF CountInv, NodesLinked
    <3> QED BY <1>17, <1>18, <3>1, <3>2
  <2> QED BY <2>2, <2>3
<1> QED BY <1>7, <1>10, <1>14, <1>15, <1>16, <1>19, <1>20 DEF CountInv

(* Push links its node: the reference of got moves to prev_, and that of   *)
(* prev_ to todo.                                                          *)
LEMMA PushAssignStep ==
  ASSUME CountInv, NEW t \in Threads, PushAssign(t)
  PROVE  CountInv'
<1>1. TypeOK /\ ThreadState(t) /\ live \subseteq Blocks
  BY DEF CountInv, TypeOK
<1>2. /\ pc[t] = "assign" /\ op[t] = "Push" /\ alive
      /\ todo[t] = nullptr /\ got[t] \in Blocks /\ ptr[t] \in Blocks /\ diff[t] = 0
      /\ top[t] = NoPacked /\ holder[t] = NoPacked
  BY <1>1, BlocksAssumption DEF TypeOK, PushAssign, Label, ThreadState, CallOf, PointersOf, ExpectedOf, Known,
     PushLabels, PopLabels, Exchanging
<1>3. PICK n \in Blocks : ptr[t] = n
  BY <1>2
<1>4. prev_[n] \in Blocks \cup {nullptr} /\ Makes(t, n) /\ References(n) = 1 /\ n \in live
  <2>1. Makes(t, n)
    BY <1>2, <1>3 DEF Makes
  <2>2. References(n) = 1
    BY <2>1 DEF CountInv, NewNodes
  <2>3. n \in live
    BY <2>2 DEF CountInv, LiveReferenced
  <2> QED BY <1>1, <2>1, <2>2, <2>3 DEF TypeOK
<1>5. /\ prev_' = [prev_ EXCEPT ![n] = got[t]] /\ got' = [got EXCEPT ![t] = nullptr]
      /\ refCount' = refCount /\ live' = live /\ top' = top /\ holder' = holder /\ ptr' = ptr
      /\ expected' = expected /\ diff' = diff /\ packedPtr' = packedPtr
      /\ alive' = alive /\ op' = op
  BY <1>3 DEF PushAssign, fasts, cvars
<1>6. /\ data_' = data_ /\ element' = element /\ outcome' = outcome
  BY DEF PushAssign, cvars
<1>7. /\ todo' = [todo EXCEPT ![t] = prev_[n]]
      /\ pc' = [pc EXCEPT ![t] = IF prev_[n] = nullptr THEN "compare" ELSE "unref"]
      /\ ret' = IF prev_[n] = nullptr THEN ret ELSE [ret EXCEPT ![t] = "compare"]
  <2>1. CASE prev_[n] = nullptr
    <3>1. pc' = [pc EXCEPT ![t] = "compare"] /\ ret' = ret /\ todo' = todo
      BY <1>3, <2>1 DEF PushAssign
    <3>2. todo = [todo EXCEPT ![t] = nullptr]
      BY <1>1, <1>2 DEF TypeOK
    <3> QED BY <2>1, <3>1, <3>2
  <2>2. CASE prev_[n] # nullptr
    BY <1>3, <2>2 DEF PushAssign, CallUnref
  <2> QED BY <2>1, <2>2
<1>8. /\ prev_'[n] = got[t] /\ got'[t] = nullptr /\ todo'[t] = prev_[n]
      /\ pc'[t] = (IF prev_[n] = nullptr THEN "compare" ELSE "unref")
      /\ prev_[n] # nullptr => ret'[t] = "compare"
  BY <1>1, <1>5, <1>7 DEF TypeOK
<1>9. Label(t)' = "compare"
  BY <1>8 DEF Label
<1>10. TypeOK'
  <2>1. prev_' \in [Blocks -> Blocks \cup {nullptr}] /\ got' \in [Threads -> Blocks \cup {nullptr}]
    BY <1>1, <1>2, <1>5 DEF TypeOK
  <2>2. /\ todo' \in [Threads -> Blocks \cup {nullptr}] /\ pc' \in [Threads -> Labels]
        /\ ret' \in [Threads -> Labels \cup {"none"}]
    BY <1>1, <1>4, <1>7 DEF TypeOK, Labels
  <2> QED BY <1>1, <1>5, <1>6, <2>1, <2>2 DEF TypeOK
<1>11. Frame(t)
  BY <1>1, <1>5, <1>7 DEF TypeOK, Frame
<1>12. ThreadState(t)'
  BY <1>1, <1>2, <1>3, <1>5, <1>8, <1>9, BlocksAssumption DEF ThreadState, CallOf, PointersOf, ExpectedOf,
     Known, PushLabels, PopLabels, Exchanging, NoPacked, Packed
<1>13. \A u \in Threads : ThreadState(u)'
  BY <1>5, <1>11, <1>12, OtherStates
<1>14. ASSUME NEW b \in Blocks
       PROVE  References(b)' = References(b) /\ LocalRefs(b)' = LocalRefs(b)
  <2>1. /\ RefsOf(t, b)' = RefsOf(t, b) - One(got[t] = b) + One(prev_[n] = b)
        /\ LocalRefsOf(t, b)' = LocalRefsOf(t, b)
    BY <1>1, <1>2, <1>5, <1>8, BlocksAssumption DEF TypeOK, RefsOf, LocalRefsOf, One, NoPacked, Packed
  <2>2. /\ ThreadRefs(b)' = ThreadRefs(b) - RefsOf(t, b) + RefsOf(t, b)'
        /\ LocalRefs(b)' = LocalRefs(b) - LocalRefsOf(t, b) + LocalRefsOf(t, b)'
    BY <1>1, <1>10, <1>11, ThreadRefsStep DEF TypeOK
  <2>3. ThreadRefs(b) \in Nat /\ LocalRefs(b) \in Nat /\ RefsOf(t, b) \in Nat /\ LocalRefsOf(t, b) \in Nat
    BY <1>1, ThreadRefsType, RefsOfType DEF TypeOK
  <2>4. NodeRefs(b)' = NodeRefs(b) - One(prev_[n] = b) + One(got[t] = b)
    <3>1. \A m \in Blocks \ {n} : prev_'[m] = prev_[m]
      BY <1>1, <1>5 DEF TypeOK
    <3>2. NodeRefs(b)' = NodeRefs(b) - One(prev_[n] = b) + One(prev_'[n] = b)
      BY <3>1, NodeRefsStep
    <3> QED BY <1>8, <3>2
  <2>5. /\ References(b) = One(InHead(b)) + NodeRefs(b) + ThreadRefs(b)
        /\ One(InHead(b)) \in 0 .. 1 /\ NodeRefs(b) \in Nat
    BY <1>1, ReferencesType
  <2>6. References(b)' = One(InHead(b))' + NodeRefs(b)' + ThreadRefs(b)'
    BY DEF References
  <2>7. One(InHead(b))' = One(InHead(b))
    BY <1>5 DEF InHead, One
  <2>8. One(prev_[n] = b) \in 0 .. 1 /\ One(got[t] = b) \in 0 .. 1
    BY DEF One
  <2> QED BY <2>1, <2>2, <2>3, <2>4, <2>5, <2>6, <2>7, <2>8
<1>15. ReferencesConserved'
  <2>1. ASSUME NEW b \in live PROVE Counted(b)' = References(b)'
    <3>1. Counted(b)' = Counted(b)
      BY <1>5 DEF Counted, InHead
    <3> QED BY <1>1, <1>14, <3>1 DEF CountInv, ReferencesConserved
  <2> QED BY <1>5, <2>1 DEF ReferencesConserved
<1>16. LiveReferenced'
  <2>1. ASSUME NEW b \in Blocks, b \notin live PROVE prev_'[b] = prev_[b]
    BY <1>1, <1>4, <1>5, <2>1 DEF TypeOK
  <2> QED BY <1>5, <1>14, <2>1 DEF CountInv, LiveReferenced
<1>17. LocalCountBacked'
  <2>1. PICK h \in Blocks : packedPtr.block = h
    BY <1>1 DEF TypeOK
  <2>2. LocalRefs(packedPtr.block)' = LocalRefs(h)' /\ LocalRefs(packedPtr.block) = LocalRefs(h)
    BY <1>5, <2>1 DEF LocalRefs, LocalRefsOf, One
  <2> QED BY <1>5, <1>14, <2>2 DEF CountInv, LocalCountBacked
<1>18. ASSUME NEW u \in Threads, NEW m \in Blocks PROVE Makes(u, m)' <=> Makes(u, m)
  BY <1>5 DEF Makes
<1>19. ASSUME NEW m \in Blocks, prev_'[m] = nullptr PROVE prev_[m] = nullptr /\ m # n
  BY <1>1, <1>2, <1>5, <1>8, <1>19, BlocksAssumption DEF TypeOK
<1>20. NewNodes'
  <2>1. SUFFICES ASSUME NEW u \in Threads, NEW m \in Blocks, Makes(u, m)'
                 PROVE  /\ References(m)' = 1
                        /\ Label(u)' \in Exchanging \cup {"compare"} => prev_'[m] # nullptr
    BY DEF NewNodes, Exchanging
  <2>2. Makes(u, m) /\ References(m)' = 1
    BY <1>14, <1>18, <2>1 DEF CountInv, NewNodes
  <2>3. CASE u = t
    <3>1. m = n
      BY <1>3, <2>2, <2>3 DEF Makes
    <3> QED BY <1>19, <2>2, <3>1
  <2>4. CASE u # t
    <3>1. Label(u)' = Label(u)
      BY <1>11, <2>4 DEF Frame, Label
    <3> QED BY <1>19, <2>2, <3>1 DEF CountInv, NewNodes
  <2> QED BY <2>3, <2>4
<1>21. NodesLinked'
  <2>1. SUFFICES ASSUME NEW m \in live \ {Bottom}, prev_'[m] = nullptr
                 PROVE  \E u \in Threads : Makes(u, m)'
    BY <1>5 DEF NodesLinked
  <2>2. PICK u \in Threads : Makes(u, m)
    BY <1>1, <1>19, <2>1 DEF CountInv, NodesLinked
  <2> QED BY <1>1, <1>18, <2>1, <2>2
<1> QED BY <1>10, <1>13, <1>15, <1>16, <1>17, <1>20, <1>21 DEF CountInv

(* The stack is destroyed: no local reference is left, and the reference   *)
(* of head_ moves to todo.                                                 *)
LEMMA DestroyStackStep ==
  ASSUME CountInv, NEW t \in Threads, DestroyStack(t)
  PROVE  CountInv'
<1>1. TypeOK /\ live \subseteq Blocks
  BY DEF CountInv, TypeOK
<1>2. PICK h \in Blocks : packedPtr.block = h
  BY <1>1 DEF TypeOK
<1>3. ASSUME NEW u \in Threads
      PROVE  /\ pc[u] = "idle" /\ op[u] = "none" /\ Label(u) = "idle" /\ todo[u] = nullptr /\ got[u] = nullptr
             /\ ptr[u] = nullptr /\ diff[u] = 0 /\ top[u] = NoPacked /\ holder[u] = NoPacked
  <2>1. pc[u] = "idle" /\ ThreadState(u)
    BY DEF CountInv, DestroyStack
  <2> QED BY <1>1, <2>1, BlocksAssumption DEF TypeOK, Label, ThreadState, CallOf, PointersOf, ExpectedOf,
        Known, PushLabels, PopLabels, Exchanging
<1>4. packedPtr.count = 0
  <2> DEFINE f == [u \in Threads |-> LocalRefsOf(u, h)]
  <2>1. \A u \in Threads : LocalRefsOf(u, h) = 0
    BY <1>3, BlocksAssumption DEF LocalRefsOf, One, NoPacked, Packed
  <2>2. f \in [Threads -> Nat] /\ \A u \in Threads : f[u] = 0
    BY <2>1
  <2>3. LocalRefs(h) = SumOf(f)
    BY DEF LocalRefs
  <2> HIDE DEF f
  <2>4. LocalRefs(h) = 0
    BY <2>2, <2>3, SumBounds
  <2>5. packedPtr.count <= LocalRefs(h)
    BY <1>2 DEF CountInv, LocalCountBacked, DestroyStack
  <2> QED BY <1>1, <2>4, <2>5 DEF TypeOK
<1>5. refCount' = refCount
  BY <1>1, <1>2, <1>4 DEF TypeOK, DestroyStack
<1>6. /\ pc' = [pc EXCEPT ![t] = "unref"] /\ todo' = [todo EXCEPT ![t] = h]
      /\ ret' = [ret EXCEPT ![t] = "idle"]
      /\ packedPtr' = packedPtr /\ live' = live /\ prev_' = prev_ /\ top' = top /\ holder' = holder
      /\ ptr' = ptr /\ got' = got /\ expected' = expected /\ diff' = diff
  BY <1>2 DEF DestroyStack, CallUnref, tvars, fasts
<1>7. /\ alive /\ ~alive' /\ alive' \in BOOLEAN /\ op' = op
      /\ data_' = data_ /\ element' = element /\ outcome' = outcome
  BY DEF DestroyStack, cvars
<1>8. pc'[t] = "unref" /\ todo'[t] = h /\ ret'[t] = "idle"
  BY <1>1, <1>6 DEF TypeOK
<1>9. TypeOK'
  <2>1. /\ pc' \in [Threads -> Labels] /\ ret' \in [Threads -> Labels \cup {"none"}]
        /\ todo' \in [Threads -> Blocks \cup {nullptr}]
    BY <1>1, <1>6 DEF TypeOK, Labels
  <2> QED BY <1>1, <1>5, <1>6, <1>7, <2>1 DEF TypeOK
<1>10. Frame(t)
  BY <1>1, <1>6, <1>7 DEF TypeOK, Frame
<1>11. ASSUME NEW u \in Threads PROVE ThreadState(u)'
  <2>1. Label(u)' = "idle" /\ (u = t => pc'[u] = "unref" /\ ret'[u] = "idle" /\ todo'[u] = h)
    BY <1>3, <1>8, <1>10 DEF Label, Frame
  <2>2. u # t => pc'[u] = "idle" /\ todo'[u] = nullptr
    BY <1>3, <1>10 DEF Frame
  <2>3. /\ op'[u] = "none" /\ top'[u] = NoPacked /\ holder'[u] = NoPacked /\ ptr'[u] = nullptr
        /\ got'[u] = nullptr /\ diff'[u] = 0
    BY <1>3, <1>6, <1>7
  <2> QED BY <1>7, <2>1, <2>2, <2>3, BlocksAssumption DEF ThreadState, CallOf, PointersOf, ExpectedOf, Known,
        PushLabels, PopLabels, Exchanging, NoPacked, Packed
<1>12. ASSUME NEW b \in Blocks PROVE References(b)' = References(b) /\ Counted(b)' = Counted(b)
  <2>1. RefsOf(t, b)' = RefsOf(t, b) + One(b = h)
    BY <1>1, <1>3, <1>6, <1>8, BlocksAssumption DEF TypeOK, RefsOf, One, NoPacked, Packed
  <2>2. ThreadRefs(b)' = ThreadRefs(b) - RefsOf(t, b) + RefsOf(t, b)'
    BY <1>1, <1>9, <1>10, ThreadRefsStep DEF TypeOK
  <2>3. ThreadRefs(b) \in Nat /\ RefsOf(t, b) \in Nat
    BY <1>1, ThreadRefsType, RefsOfType DEF TypeOK
  <2>4. NodeRefs(b)' = NodeRefs(b) /\ One(InHead(b))' = 0 /\ One(InHead(b)) = One(b = h)
    BY <1>2, <1>6, <1>7 DEF NodeRefs, InHead, One
  <2>5. /\ References(b) = One(InHead(b)) + NodeRefs(b) + ThreadRefs(b)
        /\ One(InHead(b)) \in 0 .. 1 /\ NodeRefs(b) \in Nat /\ refCount[b] \in Nat
    BY <1>1, ReferencesType
  <2>6. References(b)' = One(InHead(b))' + NodeRefs(b)' + ThreadRefs(b)'
    BY DEF References
  <2>7. Counted(b)' = refCount[b] /\ Counted(b) = refCount[b]
    BY <1>4, <1>5, <1>6, <2>5 DEF Counted
  <2> QED BY <2>1, <2>2, <2>3, <2>4, <2>5, <2>6, <2>7
<1>13. ReferencesConserved'
  BY <1>1, <1>6, <1>12 DEF CountInv, ReferencesConserved
<1>14. LiveReferenced'
  BY <1>6, <1>12 DEF CountInv, LiveReferenced
<1>15. LocalCountBacked'
  BY <1>4, <1>6, <1>7 DEF LocalCountBacked
<1>16. ASSUME NEW u \in Threads, NEW m \in Blocks PROVE Makes(u, m)' <=> Makes(u, m)
  BY <1>6, <1>7 DEF Makes
<1>17. NewNodes'
  <2>1. ASSUME NEW u \in Threads, NEW m \in Blocks, Makes(u, m)' PROVE FALSE
    BY <1>3, <1>7, <2>1 DEF Makes
  <2> QED BY <2>1 DEF NewNodes
<1>18. NodesLinked'
  <2>1. SUFFICES ASSUME NEW m \in live \ {Bottom}, prev_[m] = nullptr
                 PROVE  \E u \in Threads : Makes(u, m)'
    BY <1>6 DEF NodesLinked
  <2>2. PICK u \in Threads : Makes(u, m)
    BY <2>1 DEF CountInv, NodesLinked
  <2> QED BY <1>1, <1>16, <2>1, <2>2
<1> QED BY <1>9, <1>11, <1>13, <1>14, <1>15, <1>17, <1>18 DEF CountInv

(***************************************************************************)
(* All steps.                                                              *)
(***************************************************************************)
(* The constructor: head_ has the only reference to the last block.        *)
LEMMA InitInvariant ==
  ASSUME Init
  PROVE  CountInv /\ Acyclic
<1>1. TypeOK
  BY BlocksAssumption DEF Init, TypeOK, Labels, Packed, NoPacked
<1>2. ASSUME NEW t \in Threads PROVE ThreadState(t)
  <2>1. /\ pc[t] = "idle" /\ op[t] = "none" /\ todo[t] = nullptr /\ got[t] = nullptr /\ ptr[t] = nullptr
        /\ diff[t] = 0 /\ top[t] = NoPacked /\ holder[t] = NoPacked /\ alive
    BY DEF Init
  <2> QED BY <2>1 DEF Label, ThreadState, CallOf, PointersOf, ExpectedOf, Known, PushLabels, PopLabels,
        Exchanging, NoPacked, Packed
<1>3. ASSUME NEW b \in Blocks
      PROVE  /\ References(b) = One(b = Bottom) /\ Counted(b) = One(b = Bottom)
             /\ LocalRefs(b) \in Nat
  <2>1. ASSUME NEW t \in Threads PROVE RefsOf(t, b) = 0
    BY BlocksAssumption DEF Init, RefsOf, One, NoPacked, Packed
  <2>2. ThreadRefs(b) = 0 /\ LocalRefs(b) \in Nat
    BY <1>1, <2>1, ThreadRefsType DEF TypeOK
  <2>3. NodeRefs(b) = 0
    <3>1. ~\E n \in Blocks : prev_[n] = b
      BY BlocksAssumption DEF Init
    <3> QED BY <3>1, NodeRefsTell
  <2>4. One(InHead(b)) = One(b = Bottom)
    BY DEF Init, InHead, One, Packed
  <2>5. One(b = Bottom) \in 0 .. 1
    BY DEF One
  <2>6. Counted(b) = One(b = Bottom)
    BY DEF Init, Counted, InHead, One, Packed
  <2> QED BY <2>2, <2>3, <2>4, <2>5, <2>6 DEF References
<1>4. ReferencesConserved
  BY <1>1, <1>3 DEF ReferencesConserved, TypeOK
<1>5. LiveReferenced
  BY <1>3 DEF LiveReferenced, Init, One
<1>6. LocalCountBacked
  <2>1. packedPtr.block \in Blocks /\ packedPtr.count = 0 /\ alive
    BY <1>1 DEF TypeOK, Init, Packed
  <2> QED BY <1>3, <2>1 DEF LocalCountBacked
<1>7. NewNodes /\ NodesLinked
  BY DEF Init, NewNodes, NodesLinked, Makes
<1>8. Acyclic
  BY BlocksAssumption DEF Init, Acyclic
<1> QED BY <1>1, <1>2, <1>4, <1>5, <1>6, <1>7, <1>8 DEF CountInv

(* A step of AtomicSharedPtr, in a call of Push or Pop.                    *)
LEMMA PtrStepInvariant ==
  ASSUME CountInv, NEW t \in Threads, PtrStep(t)
  PROVE  CountInv'
<1>1. CASE Exchange(t) /\ Continue(t, "exchanged")
  BY <1>1, ExchangeSucceedsStep DEF PtrStep, Around
<1>2. CASE (Unref(t) \/ FastPtrStep(t) \/ GetStep(t) \/ ExchangeStep(t)) /\ Continue(t, outcome[t])
  <2>1. Around(t, outcome[t])
    BY <1>2 DEF PtrStep, Around
  <2>2. CASE Unref(t)
    BY <2>1, <2>2, UnrefStep
  <2>3. CASE FastPtrStep(t)
    <3>1. PICK h \in FastPtrs :
            \/ Release(t, h, After(t, h), Rest(t, h))
            \/ ReleaseFails(t, h)
            \/ ReleaseMoved(t, h, After(t, h), Rest(t, h))
      BY <2>3 DEF FastPtrStep
    <3>2. CASE h = "top"
      BY <2>1, <3>1, <3>2, ReleaseTopStep, ReleaseTopFailsStep, ReleaseTopMovedStep
    <3>3. CASE h = "holder"
      BY <2>1, <3>1, <3>3, ReleaseHolderStep, ReleaseHolderFailsStep, ReleaseHolderMovedStep
    <3> QED BY <3>1, <3>2, <3>3 DEF FastPtrs
  <2>4. CASE GetStep(t)
    BY <2>1, <2>4, GetFetchAddStep, GetRefStep, GetNotifyStep, GetNotifyFailsStep, GetUnrefStep DEF GetStep
  <2>5. CASE ExchangeStep(t)
    BY <2>1, <2>5, CompareStep, AddLocalStep, ZeroLocalStep, ZeroLocalFailsStep, TakeBackStep,
       ExchangeFailsStep, DestroyOldStep DEF ExchangeStep
  <2> QED BY <1>2, <2>2, <2>3, <2>4, <2>5
<1> QED BY <1>1, <1>2 DEF PtrStep

(* Every step of the stack keeps the references and the counts in step.    *)
LEMMA CountInvariant ==
  ASSUME CountInv, Next
  PROVE  CountInv'
<1>1. PICK t \in Threads : StackStep(t) \/ Call(t)
  BY DEF Next
<1>2. CASE StackStep(t)
  BY <1>2, PtrStepInvariant, PushAssignStep, PopGetFastStep, PopCopyStep, PopDropCopyStep, PopRetryStep,
     PopTakeStep DEF StackStep
<1>3. CASE Call(t)
  <2>1. CASE \E v \in Pushed(t) : Push(t, v)
    <3>1. PICK v \in Pushed(t) : Push(t, v)
      BY <2>1
    <3>2. v \in Values
      BY <3>1, BlocksAssumption
    <3> QED BY <3>1, <3>2, PushStep
  <2>2. CASE Pop(t)
    BY <2>2, PopStep
  <2>3. CASE DestroyStack(t)
    BY <2>3, DestroyStackStep
  <2> QED BY <1>3, <2>1, <2>2, <2>3 DEF Call
<1> QED BY <1>1, <1>2, <1>3

(* A link that is cleared closes no cycle.                                 *)
LEMMA ClearedLink ==
  ASSUME Acyclic, prev_ \in [Blocks -> Blocks \cup {nullptr}],
         NEW b, prev_' = [prev_ EXCEPT ![b] = nullptr]
  PROVE  Acyclic'
<1>1. ASSUME NEW S \in SUBSET Blocks, S # {} PROVE \E c \in S : \A n \in S : prev_'[n] # c
  <2>1. PICK c \in S : \A n \in S : prev_[n] # c
    BY <1>1 DEF Acyclic
  <2>2. ASSUME NEW n \in S PROVE prev_'[n] # c
    BY <2>1, BlocksAssumption
  <2> QED BY <2>2
<1> QED BY <1>1 DEF Acyclic

(* Only Push links a node, and nobody has a reference to that node then.   *)
LEMMA AcyclicStep ==
  ASSUME CountInv, Acyclic, Next
  PROVE  Acyclic'
<1>1. TypeOK /\ prev_ \in [Blocks -> Blocks \cup {nullptr}]
  BY DEF CountInv, TypeOK
<1>2. PICK t \in Threads : StackStep(t) \/ Call(t)
  BY DEF Next
<1>3. CASE prev_' = prev_
  BY <1>3 DEF Acyclic
<1>4. ASSUME NEW b, NEW next, Decrement(t, b, next) PROVE Acyclic'
  <2>1. CASE refCount[b] = 1
    <3>1. prev_' = [prev_ EXCEPT ![b] = nullptr]
      BY <1>4, <2>1 DEF Decrement
    <3> QED BY <1>1, <3>1, ClearedLink
  <2>2. CASE refCount[b] # 1
    BY <1>3, <1>4, <2>2 DEF Decrement
  <2> QED BY <2>1, <2>2
<1>5. CASE PushAssign(t)
  <2>1. /\ ptr[t] \in Blocks /\ got[t] \in Blocks /\ op[t] = "Push"
        /\ prev_' = [prev_ EXCEPT ![ptr[t]] = got[t]]
    BY <1>1, <1>5 DEF PushAssign, CountInv, TypeOK, ThreadState, CallOf, PointersOf, Label, PushLabels
  <2>2. PICK n \in Blocks : ptr[t] = n
    BY <2>1
  <2>3. got[t] # n /\ \A m \in Blocks : prev_[m] # n
    <3>1. Makes(t, n)
      BY <2>1, <2>2 DEF Makes
    <3> QED BY <3>1, NewIsNotShared DEF Shared
  <2>4. ASSUME NEW S \in SUBSET Blocks, S # {} PROVE \E c \in S : \A m \in S : prev_'[m] # c
    <3>1. CASE n \in S
      BY <1>1, <2>1, <2>2, <2>3, <3>1
    <3>2. CASE n \notin S
      <4>1. PICK c \in S : \A m \in S : prev_[m] # c
        BY <2>4 DEF Acyclic
      <4>2. ASSUME NEW m \in S PROVE prev_'[m] # c
        BY <1>1, <2>1, <2>2, <3>2, <4>1
      <4> QED BY <4>2
    <3> QED BY <3>1, <3>2
  <2> QED BY <2>4 DEF Acyclic
<1>6. CASE PtrStep(t)
  <2>1. CASE Unref(t)
    BY <1>4, <2>1 DEF Unref
  <2>2. CASE DestroyOldControlBlock(t)
    BY <1>4, <2>2 DEF DestroyOldControlBlock
  <2>3. CASE FastPtrStep(t) \/ GetStep(t)
    BY <1>3, <2>3 DEF FastPtrStep, Release, ReleaseFails, ReleaseMoved, GetStep, GetFetchAdd, GetRef,
       GetNotify, GetNotifyFails, GetUnref, mvars
  <2>4. CASE Exchange(t)
    BY <1>3, <2>4 DEF Exchange, mvars
  <2>5. CASE ExchangeStep(t) /\ ~DestroyOldControlBlock(t)
    BY <1>3, <2>5 DEF ExchangeStep, Compare, GetFast, AddLocal, ZeroLocal, ZeroLocalFails, TakeBack,
       ExchangeFails, mvars
  <2> QED BY <1>6, <2>1, <2>2, <2>3, <2>4, <2>5 DEF PtrStep
<1>7. CASE PopDropCopy(t)
  BY <1>4, <1>7 DEF PopDropCopy
<1>8. CASE PopGetFast(t) \/ PopCopy(t) \/ PopRetry(t) \/ PopTake(t)
  BY <1>3, <1>8 DEF PopGetFast, PopCopy, PopRetry, PopTake, GetFast, mvars
<1>9. CASE Call(t)
  BY <1>3, <1>9 DEF Call, Push, Pop, DestroyStack, mvars
<1> QED BY <1>2, <1>5, <1>6, <1>7, <1>8, <1>9 DEF StackStep

(* Nothing changes when nothing happens.                                   *)
LEMMA Stuttering ==
  ASSUME CountInv, Acyclic, UNCHANGED vars
  PROVE  CountInv' /\ Acyclic'
<1>1. /\ packedPtr' = packedPtr /\ refCount' = refCount /\ live' = live /\ prev_' = prev_
      /\ pc' = pc /\ ret' = ret /\ todo' = todo /\ top' = top /\ holder' = holder /\ ptr' = ptr
      /\ got' = got /\ expected' = expected /\ diff' = diff /\ data_' = data_ /\ op' = op
      /\ element' = element /\ outcome' = outcome /\ alive' = alive
  BY DEF vars, mvars, uvars, tvars, fasts, cvars
<1>2. Acyclic'
  BY <1>1 DEF Acyclic
<1>3. ASSUME NEW b PROVE LocalRefs(b)' = LocalRefs(b)
  BY <1>1 DEF LocalRefs, LocalRefsOf, SumOf, One
<1>4. ASSUME NEW b PROVE References(b)' = References(b) /\ Counted(b)' = Counted(b)
  BY <1>1 DEF References, NodeRefs, ThreadRefs, RefsOf, SumOf, One, Counted, InHead
<1>5. TypeOK'
  BY <1>1 DEF CountInv, TypeOK
<1>6. \A t \in Threads : ThreadState(t)'
  BY <1>1 DEF CountInv, ThreadState, CallOf, PointersOf, ExpectedOf, Known, Label
<1>7. LocalCountBacked'
  <2>1. LocalRefs(packedPtr.block)' = LocalRefs(packedPtr.block)
    BY <1>1 DEF LocalRefs, LocalRefsOf, SumOf, One
  <2> QED BY <1>1, <2>1 DEF CountInv, LocalCountBacked
<1>8. ReferencesConserved' /\ LiveReferenced'
  BY <1>1, <1>4 DEF CountInv, ReferencesConserved, LiveReferenced
<1>9. NewNodes' /\ NodesLinked'
  BY <1>1, <1>4 DEF CountInv, NewNodes, NodesLinked, Makes, Label
<1> QED BY <1>2, <1>5, <1>6, <1>7, <1>8, <1>9 DEF CountInv

(***************************************************************************)
(* The theorems.                                                           *)
(***************************************************************************)
(* Push, Pop and the destructor keep packedPtr's local count, the counts   *)
(* of the control blocks and the references of threads, nodes and head_ in *)
(* step in every interleaving of their atomic accesses, and no cycle of    *)
(* nodes arises: IInv is inductive.                                        *)
THEOREM InvariantHolds == Spec => []IInv
<1>1. Init => IInv
  BY InitInvariant DEF IInv
<1>2. IInv /\ [Next]_vars => IInv'
  <2>1. IInv /\ Next => IInv'
    BY CountInvariant, AcyclicStep DEF IInv
  <2>2. IInv /\ UNCHANGED vars => IInv'
    BY Stuttering DEF IInv
  <2> QED BY <2>1, <2>2
<1> QED BY <1>1, <1>2, PTL DEF Spec

(* Every variable keeps its type: a call is between two steps of its code, *)
(* and neither refCount nor the local count in packedPtr is decremented    *)
(* below zero.                                                             *)
THEOREM TypeCorrect == Spec => []TypeOK
<1>1. IInv => TypeOK
  BY DEF IInv, CountInv
<1> QED BY <1>1, InvariantHolds, PTL

(* For every block that is alive, refCount and the local count together    *)
(* are the number of references to it, whatever getFast, destroy, get and  *)
(* compareExchange of other threads move between the two.                  *)
THEOREM Conserved == Spec => []ReferencesConserved
<1>1. IInv => ReferencesConserved
  BY DEF IInv, CountInv
<1> QED BY <1>1, InvariantHolds, PTL

(* Nothing that a call of Push or Pop, head_ or a node refers to has been  *)
(* deleted by another call's unref.                                        *)
THEOREM NoDangling == Spec => []NoDanglingPointer
<1>1. IInv => NoDanglingPointer
  <2> SUFFICES ASSUME IInv PROVE NoDanglingPointer
    OBVIOUS
  <2>1. CountInv /\ TypeOK
    BY DEF IInv, CountInv
  <2>2. ASSUME NEW t \in Threads, NEW b \in Held(t) PROVE b \in live
    <3>1. b \in Blocks
      BY <2>1 DEF Held, TypeOK
    <3>2. RefsOf(t, b) > 0
      BY <2>1 DEF Held, TypeOK, RefsOf, One
    <3> QED BY <2>1, <3>1, <3>2, ReferencedIsLive
  <2>3. ASSUME NEW t \in Threads, pc[t] = "destroy_old" PROVE expected[t].block \in live
    <3>1. expected[t].block \in Blocks
      BY <2>1, <2>3 DEF CountInv, TypeOK, ThreadState, ExpectedOf
    <3>2. RefsOf(t, expected[t].block) > 0
      BY <2>1, <2>3 DEF TypeOK, RefsOf, One
    <3> QED BY <2>1, <3>1, <3>2, ReferencedIsLive
  <2>4. alive => packedPtr.block \in live
    BY <2>1, ReferencedIsLive DEF TypeOK, InHead
  <2>5. ASSUME NEW b \in live PROVE prev_[b] \in live \cup {nullptr}
    BY <2>1, ReferencedIsLive DEF TypeOK
  <2> QED BY <2>2, <2>3, <2>4, <2>5 DEF NoDanglingPointer
<1> QED BY <1>1, InvariantHolds, PTL

(* The local count in packedPtr is at most twice the number of threads.    *)
THEOREM LocalBounded == Spec => []LocalCountBounded
<1>1. IInv => LocalCountBounded
  <2> SUFFICES ASSUME IInv PROVE LocalCountBounded
    OBVIOUS
  <2>1. CountInv /\ TypeOK /\ Cardinality(Threads) \in Nat
    BY BlocksAssumption, FS_CardinalityType DEF IInv, CountInv
  <2>2. PICK h \in Blocks : packedPtr.block = h
    BY <2>1 DEF TypeOK
  <2>3. ASSUME NEW t \in Threads PROVE LocalRefsOf(t, h) \in Nat /\ LocalRefsOf(t, h) <= 2
    <3>1. pc[t] \in {"get_ref", "notify"} => top[t].block = nullptr
      BY <2>1 DEF CountInv, TypeOK, ThreadState, CallOf, PointersOf, Label, PushLabels
    <3> QED BY <3>1, BlocksAssumption DEF LocalRefsOf, One
  <2> DEFINE f == [t \in Threads |-> LocalRefsOf(t, h)]
  <2>4. f \in [Threads -> Nat] /\ \A t \in Threads : f[t] <= 2
    BY <2>3
  <2>5. LocalRefs(h) = SumOf(f)
    BY DEF LocalRefs
  <2> HIDE DEF f
  <2>6. LocalRefs(h) <= 2 * Cardinality(Threads) /\ LocalRefs(h) \in Nat
    BY <2>4, <2>5, SumBounds, UnitsFinite
  <2>7. packedPtr.count <= (IF alive THEN LocalRefs(h) ELSE 0) /\ packedPtr.count \in Nat
    BY <2>1, <2>2 DEF CountInv, LocalCountBacked, TypeOK
  <2> QED BY <2>1, <2>6, <2>7 DEF LocalCountBounded
<1> QED BY <1>1, InvariantHolds, PTL

(* With at most 500 threads the constructor of FastSharedPtr never has to  *)
(* move the local count to refCount, so what the model leaves out is never *)
(* reached; the count does not overflow its 16 bits either.                *)
THEOREM LongBranchUnreached == Spec => []LocalCountLow
<1>1. TypeOK /\ LocalCountBounded => LocalCountLow
  <2> SUFFICES ASSUME TypeOK, LocalCountBounded PROVE LocalCountLow
    OBVIOUS
  <2>1. packedPtr.count \in Nat
    BY DEF TypeOK
  <2>2. Cardinality(Threads) \in Nat
    BY BlocksAssumption, FS_CardinalityType
  <2> QED BY <2>1, <2>2, ThreadsAssumption DEF LocalCountBounded, LocalCountLow, LocalLimit
<1> QED BY <1>1, LocalBounded, TypeCorrect, PTL

(* ~UnboundedLockFreeStack and the unrefs that it causes delete every node *)
(* and every control block.                                                *)
THEOREM NothingLeaks == Spec => []NoLeak
<1>1. IInv => NoLeak
  <2> SUFFICES ASSUME IInv, ~alive, \A t \in Threads : pc[t] = "idle", live # {} PROVE FALSE
    BY DEF NoLeak
  <2>1. CountInv /\ TypeOK /\ live \in SUBSET Blocks
    BY DEF IInv, CountInv, TypeOK
  <2>2. PICK b \in live : \A n \in live : prev_[n] # b
    BY <2>1 DEF IInv, Acyclic
  <2>3. ASSUME NEW t \in Threads PROVE RefsOf(t, b) = 0
    <3>1. /\ pc[t] = "idle" /\ todo[t] = nullptr /\ got[t] = nullptr /\ ptr[t] = nullptr
          /\ top[t].block = nullptr /\ holder[t].block = nullptr
      BY <2>1 DEF CountInv, TypeOK, ThreadState, CallOf, PointersOf, Label, PushLabels, Exchanging
    <3> QED BY <2>1, <3>1, BlocksAssumption DEF RefsOf, One
  <2>4. ThreadRefs(b) = 0 /\ One(InHead(b)) = 0
    BY <2>1, <2>3, ThreadRefsType DEF TypeOK, InHead, One
  <2>5. NodeRefs(b) = 0
    <3>1. ASSUME NEW n \in Blocks, prev_[n] = b PROVE FALSE
      BY <2>1, <2>2, <3>1, ReferencedIsLive
    <3> QED BY <2>1, <3>1, NodeRefsTell
  <2>6. References(b) > 0
    BY <2>1 DEF CountInv, LiveReferenced
  <2> QED BY <2>4, <2>5, <2>6 DEF References
<1> QED BY <1>1, InvariantHolds, PTL

=============================================================================
