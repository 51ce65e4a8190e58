-------------------- MODULE BoundedMulticastQueueProofs --------------------
(***************************************************************************)
(* BoundedMulticastQueue implements MulticastLog, for every buffer size,   *)
(* every number of readers, all sizes of messages and every width of the   *)
(* counters, as long as no reader is so far behind that the distance of    *)
(* two counters overflows.                                                 *)
(***************************************************************************)
EXTENDS BoundedMulticastQueue, TLAPS

(***************************************************************************)
(* Quotients, remainders and counters that wrap.                           *)
(***************************************************************************)

(* Division of an integer by a positive number.                            *)
LEMMA Division ==
  ASSUME NEW x \in Int, NEW m \in Nat, m > 0
  PROVE  /\ x \div m \in Int /\ x % m \in 0 .. m - 1
         /\ x = m * (x \div m) + (x % m)
         /\ x \in Nat => x \div m \in Nat
<1>1. x \div m \in Int /\ x % m \in 0 .. m - 1
  OBVIOUS
<1>2. x = m * (x \div m) + (x % m)
  OBVIOUS
<1>3. x \in Nat => x \div m \in Nat
  OBVIOUS
<1> QED
  BY <1>1, <1>2, <1>3

(* Multiples of a positive number keep their distance.                     *)
LEMMA Multiples ==
  ASSUME NEW m \in Nat, m > 0, NEW a \in Int, NEW b \in Int
  PROVE  /\ m * a \in Int /\ m * b \in Int
         /\ a < b => m * a + m <= m * b
         /\ m * a < m * b + m => a <= b
         /\ a = b + 1 => m * a = m * b + m
<1>1. m * a \in Int /\ m * b \in Int
  OBVIOUS
<1>2. ASSUME a < b PROVE m * a + m <= m * b
  <2>1. b - a - 1 \in Nat
    BY <1>2
  <2>2. m * (b - a - 1) >= 0
    BY <2>1
  <2>3. m * (b - a - 1) = m * b - m * a - m
    OBVIOUS
  <2> QED
    BY <1>1, <2>2, <2>3
<1>3. ASSUME b < a PROVE m * b + m <= m * a
  <2>1. a - b - 1 \in Nat
    BY <1>3
  <2>2. m * (a - b - 1) >= 0
    BY <2>1
  <2>3. m * (a - b - 1) = m * a - m * b - m
    OBVIOUS
  <2> QED
    BY <1>1, <2>2, <2>3
<1>4. a = b + 1 => m * a = m * b + m
  OBVIOUS
<1> QED
  BY <1>1, <1>2, <1>3, <1>4

(* Quotient and remainder are the only ones there are.                     *)
LEMMA Quotient ==
  ASSUME NEW m \in Nat, m > 0, NEW x \in Int, NEW q \in Int, NEW d \in 0 .. m - 1,
         x = m * q + d
  PROVE  x \div m = q /\ x % m = d
<1> DEFINE p == x \div m
           e == x % m
<1>1. p \in Int /\ e \in 0 .. m - 1 /\ x = m * p + e
  BY Division
<1> HIDE DEF p, e
<1>2. m * p \in Int /\ m * q \in Int
  BY <1>1, Multiples
<1>3. p <= q
  BY <1>1, <1>2, Multiples
<1>4. q <= p
  BY <1>1, <1>2, Multiples
<1>5. p = q
  BY <1>1, <1>3, <1>4
<1>6. e = d
  BY <1>1, <1>2, <1>5
<1> QED
  BY <1>5, <1>6 DEF p, e

(* Numbers less than a period apart with the same remainder are the same.  *)
LEMMA SameRemainder ==
  ASSUME NEW m \in Nat, m > 0, NEW x \in Int, NEW y \in Int,
         x <= y, y < x + m, x % m = y % m
  PROVE  x = y
<1> DEFINE p == x \div m
           q == y \div m
           d == x % m
<1>1. p \in Int /\ q \in Int /\ d \in 0 .. m - 1 /\ x = m * p + d /\ y = m * q + d
  BY Division
<1> HIDE DEF p, q, d
<1>2. m * p \in Int /\ m * q \in Int
  BY <1>1, Multiples
<1>3. q <= p
  BY <1>1, <1>2, Multiples
<1>4. p <= q
  BY <1>1, <1>2, Multiples
<1> QED
  BY <1>1, <1>3, <1>4

(* A counter that wraps counts on, and carries when it wraps.              *)
LEMMA WrappedSum ==
  ASSUME NEW m \in Nat, m > 0, NEW x \in Int, NEW y \in Int
  PROVE  /\ (x + y) % m = ((x % m) + y) % m
         /\ (x + y) \div m = (x \div m) + (((x % m) + y) \div m)
<1> DEFINE p == x \div m
           z == (x % m) + y
           q == z \div m
<1>1. p \in Int /\ x % m \in Int /\ x = m * p + (x % m)
  BY Division
<1>2. z \in Int /\ x + y = m * p + z
  BY <1>1, Multiples
<1>3. q \in Int /\ z % m \in 0 .. m - 1 /\ z = m * q + (z % m)
  BY <1>2, Division
<1> HIDE DEF p, q, z
<1>4. x + y = m * (p + q) + (z % m)
  <2>1. m * (p + q) = m * p + m * q
    BY <1>1, <1>3
  <2>2. m * p \in Int /\ m * q \in Int
    BY <1>1, <1>3, Multiples
  <2> QED
    BY <1>2, <1>3, <2>1, <2>2
<1>5. (x + y) % m = z % m /\ (x + y) \div m = p + q
  <2>1. p + q \in Int /\ x + y \in Int
    BY <1>1, <1>3
  <2> QED
    BY <1>3, <1>4, <2>1, Quotient
<1> QED
  BY <1>5 DEF p, q, z

(* Subtracting the same number in another lap of the counter.              *)
LEMMA WrappedDifference ==
  ASSUME NEW m \in Nat, m > 0, NEW x \in Int, NEW y \in Int, NEW z \in Int,
         y % m = z % m
  PROVE  (x - y) % m = (x - z) % m
<1> DEFINE p == y \div m
           q == z \div m
           d == y % m
           a == (x - z) \div m
           e == (x - z) % m
<1>1. p \in Int /\ q \in Int /\ d \in 0 .. m - 1 /\ y = m * p + d /\ z = m * q + d
  BY Division
<1>2. x - z \in Int
  OBVIOUS
<1>3. a \in Int /\ e \in 0 .. m - 1 /\ x - z = m * a + e
  BY <1>2, Division
<1> HIDE DEF p, q, d, a, e
<1>4. x - y = m * (a + q - p) + e
  <2>1. m * (a + q - p) = m * a + m * q - m * p
    BY <1>1, <1>3
  <2>2. m * a \in Int /\ m * q \in Int /\ m * p \in Int
    BY <1>1, <1>3, Multiples
  <2> QED
    BY <1>1, <1>3, <2>1, <2>2
<1>5. x - y \in Int /\ a + q - p \in Int
  BY <1>1, <1>3
<1>6. (x - y) % m = e
  BY <1>3, <1>4, <1>5, Quotient
<1> QED
  BY <1>6 DEF e

(* The counter is odd exactly while the writer is at its place.            *)
LEMMA CounterParity ==
  ASSUME NEW n \in Nat
  PROVE  /\ ~IsLocked((2 * n) % CounterModulus)
         /\ IsLocked((2 * n + 1) % CounterModulus)
<1> DEFINE g == CounterModulus \div 4
<1>1. CounterModulus \in Nat /\ CounterModulus > 0 /\ g \in Nat /\ CounterModulus = 4 * g
  BY CounterAssumption
<1> HIDE DEF g
<1>2. ASSUME NEW b \in {0, 1}
      PROVE  ((2 * n + b) % CounterModulus) % 2 = b
  <2> DEFINE x == 2 * n + b
             p == x \div CounterModulus
             d == x % CounterModulus
             t == g * p
             k == n - 2 * t
  <2>1. x \in Int /\ p \in Int /\ d \in Int /\ x = CounterModulus * p + d
    BY <1>1, Division
  <2> HIDE DEF p, d
  <2>2. t \in Int /\ CounterModulus * p = 4 * t
    BY <1>1, <2>1
  <2> HIDE DEF t
  <2>3. k \in Int /\ d = 2 * k + b
    BY <2>1, <2>2
  <2> HIDE DEF x, k
  <2>4. d % 2 = b
    BY <2>1, <2>3
  <2> QED
    BY <2>4 DEF d, x
<1> QED
  BY <1>2 DEF IsLocked

(* The distance of two counters is that of the numbers they stand for, as  *)
(* long as it fits half the counter.                                       *)
LEMMA DistanceOfCounters ==
  ASSUME NEW x \in Nat, NEW y \in Nat,
         x - y < CounterModulus \div 2, y - x <= CounterModulus \div 2
  PROVE  Distance(x % CounterModulus, y % CounterModulus) = x - y
<1> DEFINE M == CounterModulus
           H == M \div 2
<1>1. M \in Nat /\ M > 0 /\ H \in Nat /\ M = 2 * H
  BY CounterAssumption
<1> HIDE DEF M, H
<1>2. ASSUME NEW a \in Int
      PROVE  ToInt32(a) \in Int /\ ToInt32(a) % M = a % M
  <2>1. a % M \in 0 .. M - 1
    BY <1>1, Division
  <2>2. ToInt32(a) = a % M \/ ToInt32(a) = (a % M) - M
    BY DEF ToInt32, M
  <2>3. (a % M) % M = a % M /\ ((a % M) - M) % M = a % M
    <3>1. a % M = M * 0 + (a % M) /\ (a % M) - M = M * (-1) + (a % M)
      BY <1>1, <2>1
    <3>2. a % M \in Int /\ (a % M) - M \in Int
      BY <1>1, <2>1
    <3>3. (a % M) % M = a % M
      BY <1>1, <2>1, <3>1, <3>2, Quotient
    <3>4. ((a % M) - M) % M = a % M
      BY <1>1, <2>1, <3>1, <3>2, Quotient
    <3> QED
      BY <3>3, <3>4
  <2> QED
    BY <1>1, <2>1, <2>2, <2>3
<1>3. ASSUME NEW a \in Int, NEW z \in Int, a % M = z % M, z < H, -z <= H
      PROVE  ToInt32(a) = z
  <2>1. CASE z >= 0
    <3>1. z % M = z
      BY <1>1, <1>3, <2>1
    <3> QED
      BY <1>1, <1>3, <2>1, <3>1 DEF ToInt32, M, H
  <2>2. CASE z < 0
    <3>1. z = M * (-1) + (z + M) /\ z + M \in 0 .. M - 1
      BY <1>1, <1>3, <2>2
    <3>2. z % M = z + M
      BY <1>1, <3>1, Quotient
    <3>3. ~(a % M < H)
      BY <1>1, <1>3, <2>2, <3>2
    <3>4. ToInt32(a) = (a % M) - M
      BY <3>3 DEF ToInt32, M, H
    <3> QED
      BY <1>1, <1>3, <3>2, <3>4
  <2> QED
    BY <2>1, <2>2
<1> DEFINE u == ToInt32(x % M)
           v == ToInt32(y % M)
<1>4. /\ x % M \in Int /\ y % M \in Int
      /\ (x % M) % M = x % M /\ (y % M) % M = y % M
  <2>1. x % M \in 0 .. M - 1 /\ y % M \in 0 .. M - 1
    BY <1>1, Division
  <2> QED
    BY <1>1, <2>1
<1>5. u \in Int /\ v \in Int /\ u % M = x % M /\ v % M = y % M
  BY <1>2, <1>4
<1> HIDE DEF u, v
<1>6. (u - v) % M = (x - y) % M
  <2>1. (u - v) % M = (u - y) % M
    <3>1. u \in Int /\ v \in Int /\ y \in Int /\ v % M = y % M
      BY <1>5
    <3> QED
      BY <1>1, <3>1, WrappedDifference
  <2>2. (u - y) % M = (x - y) % M
    <3>0. u \in Int /\ x \in Int /\ -y \in Int
      BY <1>5
    <3>1. (u + (-y)) % M = ((u % M) + (-y)) % M /\ (x + (-y)) % M = ((x % M) + (-y)) % M
      BY <1>1, <3>0, WrappedSum
    <3>2. u + (-y) = u - y /\ x + (-y) = x - y
      BY <1>5
    <3> QED
      BY <1>5, <3>1, <3>2
  <2> QED
    BY <2>1, <2>2
<1>7. u - v \in Int /\ x - y \in Int /\ x - y < H /\ -(x - y) <= H
  BY <1>1, <1>5 DEF H, M
<1>8. ToInt32(u - v) = x - y
  BY <1>3, <1>6, <1>7
<1> QED
  BY <1>8 DEF Distance, u, v, M

(***************************************************************************)
(* Laps of the buffer.                                                     *)
(***************************************************************************)

(* The number of messages at place i when w messages are written.          *)
LapsAfter(w, i) == (w + BufferSize - 1 - i) \div BufferSize

(* The places before the writer's are one lap ahead of the others.         *)
LEMMA LapsOfPlace ==
  ASSUME NEW w \in Nat, NEW i \in Index
  PROVE  LapsAfter(w, i) = IF i < w % BufferSize THEN (w \div BufferSize) + 1
                                                 ELSE w \div BufferSize
<1> DEFINE q == w \div BufferSize
           d == w % BufferSize
           x == w + BufferSize - 1 - i
<1>1. BufferSize \in Nat /\ BufferSize > 0
  BY SizesAssumption
<1>2. i \in Int /\ 0 <= i /\ i < BufferSize
  BY <1>1 DEF Index
<1>3. q \in Nat /\ d \in 0 .. BufferSize - 1 /\ w = BufferSize * q + d
  BY <1>1, Division
<1> HIDE DEF q, d
<1>4. BufferSize * q \in Int /\ BufferSize * (q + 1) = BufferSize * q + BufferSize
  BY <1>1, <1>3, Multiples
<1>5. x \in Int
  BY <1>1, <1>2
<1>6. CASE i < d
  <2>1. x = BufferSize * (q + 1) + (d - 1 - i) /\ d - 1 - i \in 0 .. BufferSize - 1
    BY <1>1, <1>2, <1>3, <1>4, <1>6
  <2>2. x \div BufferSize = q + 1
    BY <1>1, <1>3, <1>5, <2>1, Quotient
  <2> QED
    BY <1>6, <2>2 DEF LapsAfter, q, d
<1>7. CASE ~(i < d)
  <2>1. x = BufferSize * q + (BufferSize - 1 - i + d) /\ BufferSize - 1 - i + d \in 0 .. BufferSize - 1
    BY <1>1, <1>2, <1>3, <1>4, <1>7
  <2>2. x \div BufferSize = q
    BY <1>1, <1>3, <1>5, <2>1, Quotient
  <2> QED
    BY <1>7, <2>2 DEF LapsAfter, q, d
<1> QED
  BY <1>6, <1>7

(* The next message goes to the next place; the lap ends with the buffer.  *)
LEMMA NextPlace ==
  ASSUME NEW n \in Nat
  PROVE  /\ n % BufferSize \in Index /\ n \div BufferSize \in Nat
         /\ n = BufferSize * (n \div BufferSize) + (n % BufferSize)
         /\ (n + 1) % BufferSize = ((n % BufferSize) + 1) % BufferSize
         /\ (n + 1) \div BufferSize
              = (n \div BufferSize) + (((n % BufferSize) + 1) \div BufferSize)
         /\ (n + 1) % BufferSize = IF n % BufferSize = BufferSize - 1
                                     THEN 0 ELSE (n % BufferSize) + 1
         /\ (n + 1) \div BufferSize = IF n % BufferSize = BufferSize - 1
                                        THEN (n \div BufferSize) + 1 ELSE n \div BufferSize
<1> DEFINE q == n \div BufferSize
           d == n % BufferSize
<1>1. BufferSize \in Nat /\ BufferSize > 0
  BY SizesAssumption
<1>2. q \in Nat /\ d \in 0 .. BufferSize - 1 /\ n = BufferSize * q + d
  BY <1>1, Division
<1>3. (n + 1) % BufferSize = (d + 1) % BufferSize /\ (n + 1) \div BufferSize = q + ((d + 1) \div BufferSize)
  <2>1. n \in Int /\ 1 \in Int
    OBVIOUS
  <2> QED
    BY <1>1, <2>1, WrappedSum
<1> HIDE DEF q, d
<1>4. CASE d = BufferSize - 1
  <2>1. d + 1 = BufferSize * 1 + 0 /\ d + 1 \in Int /\ 0 \in 0 .. BufferSize - 1
    BY <1>1, <1>2, <1>4
  <2>2. (d + 1) % BufferSize = 0 /\ (d + 1) \div BufferSize = 1
    BY <1>1, <2>1, Quotient
  <2> QED
    BY <1>2, <1>3, <1>4, <2>2 DEF q, d, Index
<1>5. CASE d # BufferSize - 1
  <2>1. d + 1 = BufferSize * 0 + (d + 1) /\ d + 1 \in Int /\ d + 1 \in 0 .. BufferSize - 1
    BY <1>1, <1>2, <1>5
  <2>2. (d + 1) % BufferSize = d + 1 /\ (d + 1) \div BufferSize = 0
    BY <1>1, <2>1, Quotient
  <2>3. q + 0 = q
    BY <1>2
  <2> QED
    BY <1>2, <1>3, <1>5, <2>2, <2>3 DEF q, d, Index
<1> QED
  BY <1>4, <1>5

(* A message more is a lap more at its place, and at no other.             *)
LEMMA NextLap ==
  ASSUME NEW w \in Nat, NEW i \in Index
  PROVE  /\ LapsAfter(w, i) \in Nat
         /\ i = w % BufferSize => LapsAfter(w, i) = w \div BufferSize
         /\ LapsAfter(w + 1, i) = LapsAfter(w, i) + (IF i = w % BufferSize THEN 1 ELSE 0)
<1> DEFINE q == w \div BufferSize
           d == w % BufferSize
           q1 == (w + 1) \div BufferSize
           d1 == (w + 1) % BufferSize
<1>1. BufferSize \in Nat /\ BufferSize > 0 /\ i \in Int /\ 0 <= i /\ i < BufferSize
  BY SizesAssumption DEF Index
<1>2. /\ d \in 0 .. BufferSize - 1 /\ q \in Nat
      /\ d1 = IF d = BufferSize - 1 THEN 0 ELSE d + 1
      /\ q1 = IF d = BufferSize - 1 THEN q + 1 ELSE q
  BY NextPlace DEF Index
<1>3. w + 1 \in Nat
  OBVIOUS
<1>4. /\ LapsAfter(w, i) = IF i < d THEN q + 1 ELSE q
      /\ LapsAfter(w + 1, i) = IF i < d1 THEN q1 + 1 ELSE q1
  BY <1>3, LapsOfPlace
<1> HIDE DEF q, d, q1, d1
<1>5. LapsAfter(w + 1, i) = LapsAfter(w, i) + (IF i = d THEN 1 ELSE 0)
  BY <1>1, <1>2, <1>4
<1>6. LapsAfter(w, i) \in Nat /\ (i = d => LapsAfter(w, i) = q)
  BY <1>1, <1>2, <1>4
<1> QED
  BY <1>5, <1>6 DEF q, d

(* How the lap at a reader's place tells where the writer is: at a reader  *)
(* that has gone past n messages, when w are written.                      *)
LEMMA LapsOfReader ==
  ASSUME NEW n \in Nat, NEW w \in Nat
  PROVE  LET l == LapsAfter(w, n % BufferSize)
             q == n \div BufferSize
         IN  /\ l \in Nat /\ q \in Nat
             /\ n <= w => q <= l
             /\ w <= n <=> l <= q
             /\ w <= n + BufferSize <=> l <= q + 1
             /\ \A k \in Nat : w <= n + BufferSize * k => l <= q + k
<1> DEFINE h == n % BufferSize
           q == n \div BufferSize
           x == w + BufferSize - 1 - h
           l == LapsAfter(w, h)
<1>1. BufferSize \in Nat /\ BufferSize > 0
  BY SizesAssumption
<1>2. h \in 0 .. BufferSize - 1 /\ h \in Index /\ q \in Nat /\ n = BufferSize * q + h
  BY NextPlace DEF Index
<1>3. l \in Nat
  BY <1>2, NextLap
<1> HIDE DEF h, q
<1>4. x \in Int
  BY <1>1, <1>2
<1>5. x \div BufferSize = l
  BY DEF LapsAfter
<1>6. x % BufferSize \in 0 .. BufferSize - 1 /\ x = BufferSize * l + (x % BufferSize)
  BY <1>1, <1>4, <1>5, Division
<1>7. PICK e \in 0 .. BufferSize - 1 : x = BufferSize * l + e
  BY <1>6
<1> HIDE DEF l
<1>8. BufferSize * l \in Int /\ BufferSize * q \in Int
  BY <1>1, <1>2, <1>3, Multiples
<1>9. w = BufferSize * l + e + h + 1 - BufferSize
  BY <1>1, <1>2, <1>7, <1>8
<1>10. ASSUME NEW k \in Nat
       PROVE  /\ w <= n + BufferSize * k => l <= q + k
              /\ l <= q + k => w <= n + BufferSize * k
  <2>1. BufferSize * (q + k) = BufferSize * q + BufferSize * k /\ BufferSize * k \in Int
    BY <1>1, <1>2
  <2>2. ASSUME w <= n + BufferSize * k PROVE l <= q + k
    <3>1. BufferSize * l < BufferSize * (q + k) + BufferSize
      BY <1>1, <1>2, <1>8, <1>9, <2>1, <2>2
    <3> QED
      BY <1>1, <1>2, <1>3, <3>1, Multiples
  <2>3. ASSUME l <= q + k PROVE w <= n + BufferSize * k
    <3>1. BufferSize * l <= BufferSize * (q + k)
      BY <1>1, <1>2, <1>3, <1>8, <2>1, <2>3, Multiples
    <3> QED
      BY <1>1, <1>2, <1>8, <1>9, <2>1, <3>1
  <2> QED
    BY <2>2, <2>3
<1>11. n <= w => q <= l
  <2> SUFFICES ASSUME n <= w PROVE q <= l
    OBVIOUS
  <2>1. BufferSize * q < BufferSize * l + BufferSize
    BY <1>1, <1>2, <1>8, <1>9
  <2> QED
    BY <1>1, <1>2, <1>3, <2>1, Multiples
<1>12. BufferSize * 0 = 0 /\ BufferSize * 1 = BufferSize /\ 0 \in Nat /\ 1 \in Nat
  BY <1>1
<1>13. w <= n <=> l <= q
  <2>1. n + 0 = n /\ q + 0 = q
    BY <1>2
  <2> QED
    BY <1>10, <1>12, <2>1
<1>14. w <= n + BufferSize <=> l <= q + 1
  BY <1>10, <1>12
<1> QED
  BY <1>2, <1>3, <1>10, <1>11, <1>13, <1>14 DEF l, q, h

(* What a reader can conclude from the counter of its place: the places    *)
(* are never so far apart that a counter comes back to a value it had      *)
(* since the message before the reader's.                                  *)
LEMMA CounterAtReader ==
  ASSUME TypeOK, SequenceCountsMessages, ReadersInWindow, NEW r \in Readers
  PROVE  LET h == head_[r]
             q == reads[r] \div BufferSize
         IN  /\ h \in Index /\ q \in Nat /\ Laps(h) \in Nat /\ Count(h) \in Nat
             /\ q <= Laps(h)
             /\ written <= reads[r] <=> Laps(h) <= q
             /\ written <= reads[r] + BufferSize <=> Laps(h) <= q + 1
             /\ 2 * q <= Count(h)
             /\ Count(h) + (IF Writing(h) THEN 1 ELSE 0) < 2 * q + CounterModulus
             /\ Copied(r) => /\ ~Writing(h)
                             /\ Distance(seq0[r], expected_seq_[r]) = 2 * (Laps(h) - q - 1)
<1> DEFINE h == head_[r]
           q == reads[r] \div BufferSize
           l == Laps(h)
           g == CounterModulus \div 4
<1>1. /\ BufferSize \in Nat /\ BufferSize > 0 /\ MaxLag \in Nat
      /\ CounterModulus \in Nat /\ CounterModulus > 0
      /\ g \in Nat /\ g > 0 /\ CounterModulus = 4 * g /\ MaxLag <= BufferSize * g
  BY SizesAssumption, CounterAssumption
<1>2. written \in Nat /\ reads[r] \in Nat /\ seq0[r] \in Counter
  BY SizesAssumption DEF TypeOK
<1>3. h = reads[r] % BufferSize /\ h \in Index
  BY <1>2, NextPlace DEF SequenceCountsMessages
<1>4. l = LapsAfter(written, h)
  BY DEF Laps, LapsAfter
<1>5. reads[r] <= written /\ written <= reads[r] + MaxLag
  BY <1>1, <1>2 DEF ReadersInWindow
<1>6. written <= reads[r] + BufferSize * g
  BY <1>1, <1>2, <1>5
<1>7. /\ l \in Nat /\ q \in Nat /\ q <= l /\ l <= q + g
      /\ written <= reads[r] <=> l <= q
      /\ written <= reads[r] + BufferSize <=> l <= q + 1
  BY <1>1, <1>2, <1>3, <1>4, <1>5, <1>6, LapsOfReader
<1> HIDE DEF h, q, l, g
<1>8. Count(h) = 2 * l + (IF Writing(h) THEN 1 ELSE 0)
  BY DEF Count, l
<1>9. /\ Count(h) \in Nat /\ 2 * q <= Count(h)
      /\ Count(h) + (IF Writing(h) THEN 1 ELSE 0) < 2 * q + CounterModulus
  <2>1. CASE ~Writing(h)
    BY <1>1, <1>7, <1>8, <2>1
  <2>2. CASE Writing(h)
    <3>1. h = written % BufferSize /\ wpc # "idle"
      BY <2>2 DEF Writing, SequenceCountsMessages
    <3>2. written + 1 \in Nat /\ written + 1 <= reads[r] + BufferSize * g
      BY <1>1, <1>2, <3>1 DEF ReadersInWindow
    <3>3. LapsAfter(written + 1, h) = l + 1
      BY <1>2, <1>3, <1>4, <3>1, NextLap
    <3>4. LapsAfter(written + 1, h) <= q + g
      BY <1>1, <1>2, <1>3, <3>2, LapsOfReader DEF q
    <3> QED
      BY <1>1, <1>7, <1>8, <2>2, <3>3, <3>4
  <2> QED
    BY <2>1, <2>2
<1>10. ASSUME Copied(r)
       PROVE  ~Writing(h) /\ Distance(seq0[r], expected_seq_[r]) = 2 * (l - q - 1)
  <2>1. seq0[r] = Count(h) % CounterModulus /\ ~IsLocked(seq0[r])
    BY <1>3, <1>10 DEF Copied, SequenceCountsMessages, h
  <2>2. ~Writing(h) /\ Count(h) = 2 * l
    BY <1>7, <1>8, <2>1, CounterParity
  <2>3. expected_seq_[r] = (2 * q + 2) % CounterModulus
    BY DEF SequenceCountsMessages, q
  <2>4. CounterModulus \div 2 = 2 * g
    BY <1>1
  <2>5. /\ 2 * l \in Nat /\ 2 * q + 2 \in Nat
        /\ (2 * l) - (2 * q + 2) < CounterModulus \div 2
        /\ (2 * q + 2) - (2 * l) <= CounterModulus \div 2
    BY <1>1, <1>7, <2>4
  <2>6. Distance(seq0[r], expected_seq_[r]) = (2 * l) - (2 * q + 2)
    BY <2>1, <2>2, <2>3, <2>5, DistanceOfCounters
  <2> QED
    BY <1>7, <2>2, <2>6
<1> QED
  BY <1>3, <1>7, <1>9, <1>10 DEF h, q, l

(* What the three results of a call say about the log.                     *)
LEMMA ResultsTell ==
  ASSUME TypeOK, SequenceCountsMessages, ReadersInWindow, NEW r \in Readers, Copied(r)
  PROVE  LET d == Distance(seq0[r], expected_seq_[r])
         IN  /\ d = 0 => /\ reads[r] < written /\ written <= reads[r] + BufferSize
                         /\ Laps(head_[r]) = (reads[r] \div BufferSize) + 1
             /\ d > 0 => written > reads[r] + BufferSize
             /\ d < 0 => written <= reads[r]
<1>1. written \in Nat /\ reads[r] \in Nat /\ BufferSize \in Nat
  BY SizesAssumption DEF TypeOK
<1>2. PICK q \in Nat, l \in Nat :
        /\ q = reads[r] \div BufferSize /\ l = Laps(head_[r])
        /\ written <= reads[r] <=> l <= q
        /\ written <= reads[r] + BufferSize <=> l <= q + 1
        /\ Distance(seq0[r], expected_seq_[r]) = 2 * (l - q - 1)
  BY CounterAtReader
<1> QED
  BY <1>1, <1>2

(***************************************************************************)
(* The types and the places of the copies.                                 *)
(***************************************************************************)

(* No step leaves the types: no index leaves the buffer, no copy the       *)
(* message, and no reader goes past the writer.                            *)
LEMMA TypePreserved ==
  ASSUME IInv, [Next]_vars
  PROVE  TypeOK'
<1> USE DEF svars, wvars, cvars, lvars
<1>0. /\ TypeOK /\ SequenceCountsMessages /\ CopiesInside /\ ReadersInWindow
      /\ 0 \in Counter /\ 1 \in Chunks /\ NewMessage \in [Chunks -> 0 .. MaxWrites - 1 \cup {NoChunk}]
      /\ 0 \in 0 .. ChunkCount /\ 0 \in 0 .. MaxWrites
  BY SizesAssumption, CounterAssumption DEF IInv, Counter, Chunks, NewMessage
<1>1. ASSUME NEW c \in Int
      PROVE  (c % CounterModulus) \in Counter /\ (c % BufferSize) \in Index
  BY SizesAssumption, CounterAssumption, Division DEF Counter, Index
<1>2. CASE Write
  <2>1. seq_' \in [Index -> Counter]
    BY <1>0, <1>1, <1>2, CounterAssumption DEF Write, TypeOK, Counter
  <2> QED
    BY <1>0, <1>2, <2>1 DEF Write, TypeOK
<1>3. CASE StoreChunk
  <2>1. written \in 0 .. MaxWrites - 1 /\ wnext \in Chunks /\ tail_ \in Index
    BY <1>0, <1>3, SizesAssumption DEF StoreChunk, CopiesInside, TypeOK
  <2>2. data_' \in [Index -> [Chunks -> 0 .. MaxWrites - 1 \cup {NoChunk}]]
    BY <1>0, <1>3, <2>1 DEF StoreChunk, TypeOK
  <2>3. MessageSize(written) \in 1 .. ChunkCount
    BY <2>1, SizesAssumption
  <2>4. wnext' \in Chunks /\ wpc' \in {"idle", "copy", "size", "unlock"}
    BY <1>0, <1>3, <2>1, <2>3, SizesAssumption DEF StoreChunk, Chunks
  <2> QED
    BY <1>0, <1>3, <2>2, <2>4 DEF StoreChunk, TypeOK
<1>4. CASE StoreSize
  <2>1. written \in 0 .. MaxWrites - 1
    BY <1>0, <1>4, SizesAssumption DEF StoreSize, CopiesInside, TypeOK
  <2>2. MessageSize(written) \in 0 .. ChunkCount
    BY <2>1, SizesAssumption
  <2>3. message_size_' \in [Index -> 0 .. ChunkCount]
    BY <1>0, <1>4, <2>2 DEF StoreSize, TypeOK
  <2> QED
    BY <1>0, <1>4, <2>3 DEF StoreSize, TypeOK
<1>5. CASE Unlock
  <2>1. seq_' \in [Index -> Counter]
    BY <1>0, <1>1, <1>5, CounterAssumption DEF Unlock, TypeOK, Counter
  <2>2. tail_' \in Index
    BY <1>0, <1>1, <1>5, SizesAssumption DEF Unlock, TypeOK, Index
  <2>3. written' \in 0 .. MaxWrites
    BY <1>0, <1>5, SizesAssumption DEF Unlock, CopiesInside, TypeOK
  <2> QED
    BY <1>0, <1>5, <2>1, <2>2, <2>3 DEF Unlock, TypeOK
<1>6. ASSUME NEW r \in Readers, NEW o \in {"Read", "TryRead"}, Call(r, o)
      PROVE  TypeOK'
  <2>1. seq0' \in [Readers -> Counter]
    BY <1>0, <1>6 DEF Call, LoadSeq0, TypeOK
  <2> QED
    BY <1>0, <1>6, <2>1 DEF Call, LoadSeq0, DropMessage, TypeOK
<1>7. ASSUME NEW r \in Readers, Retry(r)
      PROVE  TypeOK'
  <2>1. seq0' \in [Readers -> Counter]
    BY <1>0, <1>7 DEF Retry, LoadSeq0, TypeOK
  <2> QED
    BY <1>0, <1>7, <2>1 DEF Retry, LoadSeq0, TypeOK
<1>8. ASSUME NEW r \in Readers, LoadSize(r)
      PROVE  TypeOK'
  <2>1. size' \in [Readers -> 0 .. ChunkCount]
    BY <1>0, <1>8 DEF LoadSize, TypeOK
  <2> QED
    BY <1>0, <1>8, <2>1 DEF LoadSize, TypeOK
<1>9. ASSUME NEW r \in Readers, LoadChunk(r)
      PROVE  TypeOK'
  <2>1. loaded' \in [Readers -> [Chunks -> 0 .. MaxWrites - 1 \cup {NoChunk}]]
    BY <1>0, <1>9 DEF LoadChunk, TypeOK
  <2>2. rnext[r] \in Chunks /\ size[r] \in 0 .. ChunkCount
    BY <1>0 DEF TypeOK
  <2>3. rnext' \in [Readers -> Chunks]
    <3>1. rnext[r] < size[r] => rnext[r] + 1 \in Chunks
      BY <2>2, SizesAssumption DEF Chunks
    <3> QED
      BY <1>0, <1>9, <3>1 DEF LoadChunk, TypeOK
  <2>4. rpc' \in [Readers -> {"idle", "seq0", "size", "copy", "seq1"}]
    BY <1>0, <1>9 DEF LoadChunk, TypeOK
  <2> QED
    BY <1>0, <1>9, <2>1, <2>3, <2>4 DEF LoadChunk, TypeOK
<1>10. ASSUME NEW r \in Readers, UpdateIndexes(r), reads[r] < written
       PROVE  /\ head_' \in [Readers -> Index] /\ expected_seq_' \in [Readers -> Counter]
              /\ reads' \in [Readers -> 0 .. MaxWrites]
  <2>1. head_[r] \in 0 .. BufferSize - 1 /\ expected_seq_[r] \in 0 .. CounterModulus - 1
    BY <1>0 DEF TypeOK, Index, Counter
  <2>2. /\ head_[r] + 1 \in Int
        /\ expected_seq_[r] + 2 * ((head_[r] + 1) \div BufferSize) \in Int
    <3>1. head_[r] + 1 \in Int
      BY <2>1, SizesAssumption
    <3>2. (head_[r] + 1) \div BufferSize \in Int
      BY <3>1, SizesAssumption, Division
    <3> QED
      BY <2>1, <3>1, <3>2, CounterAssumption
  <2>3. reads[r] + 1 \in 0 .. MaxWrites
    BY <1>0, <1>10, SizesAssumption DEF TypeOK
  <2>4. head_' \in [Readers -> Index] /\ reads' \in [Readers -> 0 .. MaxWrites]
    BY <1>0, <1>1, <1>10, <2>2, <2>3 DEF UpdateIndexes, TypeOK
  <2>5. expected_seq_' \in [Readers -> Counter]
    <3> DEFINE x == (expected_seq_[r] + 2 * ((head_[r] + 1) \div BufferSize)) % CounterModulus
    <3>1. x \in Counter
      BY <1>1, <2>2
    <3>2. expected_seq_' = [expected_seq_ EXCEPT ![r] = x]
      BY <1>10 DEF UpdateIndexes
    <3> HIDE DEF x
    <3> QED
      BY <1>0, <3>1, <3>2 DEF TypeOK
  <2> QED
    BY <2>4, <2>5
<1>11. ASSUME NEW r \in Readers, LoadSeq1Retry(r)
       PROVE  TypeOK'
  BY <1>0, <1>11 DEF LoadSeq1Retry, TypeOK
<1>12. ASSUME NEW r \in Readers, LoadSeq1Current(r)
       PROVE  TypeOK'
  <2>1. reads[r] < written
    BY <1>0, <1>12, ResultsTell DEF LoadSeq1Current
  <2>2. /\ head_' \in [Readers -> Index] /\ expected_seq_' \in [Readers -> Counter]
        /\ reads' \in [Readers -> 0 .. MaxWrites]
    BY <1>0, <1>10, <1>12, <2>1 DEF LoadSeq1Current, TypeOK
  <2> QED
    BY <1>0, <1>12, <2>2 DEF LoadSeq1Current, Return, TypeOK
<1>13. ASSUME NEW r \in Readers, LoadSeq1Late(r)
       PROVE  TypeOK'
  BY <1>0, <1>13 DEF LoadSeq1Late, Return, DropMessage, TypeOK
<1>14. ASSUME NEW r \in Readers, LoadSeq1NotUpdated(r)
       PROVE  TypeOK'
  <2>1. CASE op[r] = "TryRead"
    <3>1. Return(r, "not_updated") /\ DropMessage(r) /\ UNCHANGED cvars
      BY <1>14, <2>1 DEF LoadSeq1NotUpdated
    <3> QED
      BY <1>0, <3>1 DEF Return, DropMessage, TypeOK
  <2>2. CASE op[r] # "TryRead"
    BY <1>0, <1>14, <2>2 DEF LoadSeq1NotUpdated, TypeOK
  <2> QED
    BY <2>1, <2>2
<1>15. ASSUME NEW r \in Readers, CallUpdateIndexes(r)
       PROVE  TypeOK'
  <2>1. reads[r] < written
    BY <1>0, <1>15 DEF CallUpdateIndexes, ReadersInWindow
  <2>2. /\ head_' \in [Readers -> Index] /\ expected_seq_' \in [Readers -> Counter]
        /\ reads' \in [Readers -> 0 .. MaxWrites]
    BY <1>10, <1>15, <2>1 DEF CallUpdateIndexes
  <2> QED
    BY <1>0, <1>15, <2>2 DEF CallUpdateIndexes, DropMessage, TypeOK
<1>16. ASSUME NEW r \in Readers, NEW q \in Readers, CopyReader(r, q)
       PROVE  TypeOK'
  <2>1. /\ head_' \in [Readers -> Index] /\ expected_seq_' \in [Readers -> Counter]
        /\ reads' \in [Readers -> 0 .. MaxWrites]
    BY <1>0, <1>16 DEF CopyReader, TypeOK
  <2> QED
    BY <1>0, <1>16, <2>1 DEF CopyReader, DropMessage, TypeOK
<1>17. ASSUME NEW r \in Readers, NEW q \in Readers, SwapReaders(r, q)
       PROVE  TypeOK'
  <2>1. head_' \in [Readers -> Index] /\ expected_seq_' \in [Readers -> Counter]
    BY <1>0, <1>17 DEF SwapReaders, Exchanged, TypeOK
  <2>2. reads' \in [Readers -> 0 .. MaxWrites] /\ size' \in [Readers -> 0 .. ChunkCount]
    BY <1>0, <1>17 DEF SwapReaders, Exchanged, TypeOK
  <2>3. /\ loaded' \in [Readers -> [Chunks -> 0 .. MaxWrites - 1 \cup {NoChunk}]]
        /\ result' \in [Readers -> {"none", "current", "late", "not_updated"}]
    BY <1>0, <1>17 DEF SwapReaders, TypeOK
  <2> QED
    BY <1>0, <1>17, <2>1, <2>2, <2>3 DEF SwapReaders, TypeOK
<1>18. CASE UNCHANGED vars
  BY <1>0, <1>18 DEF vars, TypeOK
<1> QED
  BY <1>2, <1>3, <1>4, <1>5, <1>6, <1>7, <1>8, <1>9, <1>11, <1>12, <1>13, <1>14, <1>15,
     <1>16, <1>17, <1>18 DEF Next, WriterStep, ReaderStep

(* A copy starts at the first chunk and ends at the last.                  *)
LEMMA CopiesPreserved ==
  ASSUME IInv, [Next]_vars
  PROVE  CopiesInside'
<1> USE DEF svars, wvars, cvars, lvars
<1>0. TypeOK /\ CopiesInside
  BY DEF IInv
<1>1. /\ rpc \in [Readers -> {"idle", "seq0", "size", "copy", "seq1"}]
      /\ op \in [Readers -> {"Read", "TryRead"}]
      /\ result \in [Readers -> {"none", "current", "late", "not_updated"}]
      /\ size \in [Readers -> 0 .. ChunkCount] /\ rnext \in [Readers -> Chunks]
  BY <1>0 DEF TypeOK
<1>2. written \in 0 .. MaxWrites /\ wnext \in Chunks
  BY <1>0 DEF TypeOK
<1>3. CASE Write
  <2>1. 1 <= MessageSize(written)
    BY <1>2, <1>3, SizesAssumption DEF Write
  <2> QED
    BY <1>0, <1>3, <2>1 DEF Write, CopiesInside
<1>4. CASE StoreChunk
  <2>1. MessageSize(written) \in 1 .. ChunkCount /\ wnext \in Nat
    BY <1>0, <1>2, <1>4, SizesAssumption DEF StoreChunk, CopiesInside, Chunks
  <2> QED
    BY <1>0, <1>4, <2>1, SizesAssumption DEF StoreChunk, CopiesInside
<1>5. CASE StoreSize \/ Unlock
  BY <1>0, <1>5 DEF StoreSize, Unlock, CopiesInside
<1>6. ASSUME NEW r \in Readers, NEW o \in {"Read", "TryRead"}, Call(r, o)
      PROVE  CopiesInside'
  BY <1>0, <1>1, <1>6 DEF Call, LoadSeq0, DropMessage, CopiesInside
<1>7. ASSUME NEW r \in Readers, Retry(r)
      PROVE  CopiesInside'
  BY <1>0, <1>1, <1>7 DEF Retry, LoadSeq0, CopiesInside
<1>8. ASSUME NEW r \in Readers, LoadSize(r)
      PROVE  CopiesInside'
  <2>1. message_size_[head_[r]] \in 0 .. ChunkCount
    BY <1>0 DEF TypeOK
  <2>2. message_size_[head_[r]] # 0 => 1 <= message_size_[head_[r]]
    BY <2>1, SizesAssumption
  <2> QED
    BY <1>0, <1>1, <1>8, <2>2 DEF LoadSize, CopiesInside
<1>9. ASSUME NEW r \in Readers, LoadChunk(r)
      PROVE  CopiesInside'
  <2>1. rnext[r] \in Nat /\ size[r] \in Nat
    BY <1>1, SizesAssumption DEF Chunks
  <2>2. rnext[r] < size[r] => rnext[r] + 1 <= size[r]
    BY <2>1
  <2>3. CASE rnext[r] < size[r] /\ rnext' = [rnext EXCEPT ![r] = @ + 1] /\ UNCHANGED rpc
    BY <1>0, <1>1, <1>9, <2>2, <2>3 DEF LoadChunk, CopiesInside
  <2>4. CASE rnext' = [rnext EXCEPT ![r] = 1] /\ rpc' = [rpc EXCEPT ![r] = "seq1"]
    BY <1>0, <1>1, <1>9, <2>4 DEF LoadChunk, CopiesInside
  <2> QED
    BY <1>9, <2>3, <2>4 DEF LoadChunk
<1>10. ASSUME NEW r \in Readers, LoadSeq1Retry(r)
       PROVE  CopiesInside'
  BY <1>0, <1>1, <1>10 DEF LoadSeq1Retry, CopiesInside
<1>11. ASSUME NEW r \in Readers, LoadSeq1Current(r)
       PROVE  CopiesInside'
  BY <1>0, <1>1, <1>11 DEF LoadSeq1Current, Return, CopiesInside
<1>12. ASSUME NEW r \in Readers, LoadSeq1Late(r)
       PROVE  CopiesInside'
  BY <1>0, <1>1, <1>12 DEF LoadSeq1Late, Return, DropMessage, CopiesInside
<1>13. ASSUME NEW r \in Readers, LoadSeq1NotUpdated(r)
       PROVE  CopiesInside'
  <2>1. CASE op[r] = "TryRead"
    BY <1>0, <1>1, <1>13, <2>1 DEF LoadSeq1NotUpdated, Return, DropMessage, CopiesInside
  <2>2. CASE op[r] # "TryRead"
    BY <1>0, <1>1, <1>13, <2>2 DEF LoadSeq1NotUpdated, CopiesInside
  <2> QED
    BY <2>1, <2>2
<1>14. ASSUME NEW r \in Readers, CallUpdateIndexes(r)
       PROVE  CopiesInside'
  BY <1>0, <1>1, <1>14 DEF CallUpdateIndexes, DropMessage, CopiesInside
<1>15. ASSUME NEW r \in Readers, NEW q \in Readers, CopyReader(r, q)
       PROVE  CopiesInside'
  BY <1>0, <1>1, <1>15 DEF CopyReader, DropMessage, CopiesInside
<1>16. ASSUME NEW r \in Readers, NEW q \in Readers, SwapReaders(r, q)
       PROVE  CopiesInside'
  BY <1>0, <1>1, <1>16 DEF SwapReaders, CopiesInside
<1>17. CASE UNCHANGED vars
  BY <1>0, <1>17 DEF vars, CopiesInside
<1> QED
  BY <1>3, <1>4, <1>5, <1>6, <1>7, <1>8, <1>9, <1>10, <1>11, <1>12, <1>13, <1>14, <1>15,
     <1>16, <1>17 DEF Next, WriterStep, ReaderStep

(***************************************************************************)
(* The counters and the positions.                                         *)
(***************************************************************************)

(* What the steps do to the positions of the readers: nothing, one step    *)
(* past a message that is written, or an exchange among themselves.        *)
LEMMA ReadersMove ==
  ASSUME IInv, [Next]_vars
  PROVE  \/ Write /\ UNCHANGED cvars
         \/ WriterStep /\ UNCHANGED cvars
         \/ UNCHANGED <<cvars, seq_, wvars>>
         \/ /\ UNCHANGED <<seq_, wvars>>
            /\ \E r \in Readers : UpdateIndexes(r) /\ reads[r] < written
         \/ /\ UNCHANGED <<seq_, wvars>>
            /\ \E r, q \in Readers : CopyReader(r, q) \/ SwapReaders(r, q)
<1> USE DEF svars, wvars, cvars, lvars
<1>0. TypeOK /\ SequenceCountsMessages /\ ReadersInWindow
  BY DEF IInv
<1>1. CASE Write
  BY <1>1 DEF Write
<1>2. CASE WriterStep
  BY <1>2 DEF WriterStep, StoreChunk, StoreSize, Unlock
<1>3. ASSUME NEW r \in Readers, NEW o \in {"Read", "TryRead"}, Call(r, o)
      PROVE  UNCHANGED <<cvars, seq_, wvars>>
  BY <1>3 DEF Call
<1>4. ASSUME NEW r \in Readers,
             \/ Retry(r) \/ LoadSize(r) \/ LoadChunk(r) \/ LoadSeq1Retry(r)
             \/ LoadSeq1Late(r) \/ LoadSeq1NotUpdated(r)
      PROVE  UNCHANGED <<cvars, seq_, wvars>>
  BY <1>4 DEF Retry, LoadSize, LoadChunk, LoadSeq1Retry, LoadSeq1Late, LoadSeq1NotUpdated, Return
<1>5. ASSUME NEW r \in Readers, LoadSeq1Current(r)
      PROVE  /\ UNCHANGED <<seq_, wvars>>
             /\ UNCHANGED cvars \/ (UpdateIndexes(r) /\ reads[r] < written)
  <2>1. reads[r] < written
    BY <1>0, <1>5, ResultsTell DEF LoadSeq1Current
  <2> QED
    BY <1>5, <2>1 DEF LoadSeq1Current, Return
<1>6. ASSUME NEW r \in Readers, CallUpdateIndexes(r)
      PROVE  UNCHANGED <<seq_, wvars>> /\ UpdateIndexes(r) /\ reads[r] < written
  BY <1>0, <1>6 DEF CallUpdateIndexes, ReadersInWindow
<1>7. ASSUME NEW r \in Readers, NEW q \in Readers, CopyReader(r, q) \/ SwapReaders(r, q)
      PROVE  UNCHANGED <<seq_, wvars>>
  BY <1>7 DEF CopyReader, SwapReaders
<1>8. CASE UNCHANGED vars
  BY <1>8 DEF vars
<1> QED
  BY <1>1, <1>2, <1>3, <1>4, <1>5, <1>6, <1>7, <1>8 DEF Next, ReaderStep

(* No reader passes the writer, and the writer waits for the lag.          *)
LEMMA WindowPreserved ==
  ASSUME IInv, [Next]_vars
  PROVE  ReadersInWindow'
<1> USE DEF svars, wvars, cvars, lvars
<1>0. TypeOK /\ SequenceCountsMessages /\ ReadersInWindow
  BY DEF IInv
<1>1. /\ op \in [Readers -> {"Read", "TryRead"}]
      /\ result \in [Readers -> {"none", "current", "late", "not_updated"}]
      /\ reads \in [Readers -> Nat] /\ written \in Nat /\ MaxLag \in Nat
  BY <1>0, SizesAssumption, CounterAssumption DEF TypeOK
<1> DEFINE Behind(n) == /\ n <= written
                        /\ written + (IF wpc = "idle" THEN 0 ELSE 1) <= n + MaxLag
<1>2. \A r \in Readers : Behind(reads[r])
  BY <1>0 DEF ReadersInWindow
<1>3. \A r \in Readers : op[r] = "TryRead" /\ result[r] = "current" => reads[r] < written
  BY <1>0 DEF ReadersInWindow
<1>4. \A r \in Readers : Behind(reads[r])'
  <2>1. CASE Write /\ UNCHANGED cvars
    BY <1>1, <1>2, <2>1 DEF Write
  <2>2. CASE WriterStep /\ UNCHANGED cvars
    BY <1>1, <1>2, <2>2 DEF WriterStep, StoreChunk, StoreSize, Unlock
  <2>3. CASE UNCHANGED <<cvars, seq_, wvars>>
    BY <1>2, <2>3
  <2>4. ASSUME UNCHANGED <<seq_, wvars>>, NEW r \in Readers, UpdateIndexes(r), reads[r] < written
        PROVE  \A x \in Readers : Behind(reads[x])'
    BY <1>1, <1>2, <2>4 DEF UpdateIndexes
  <2>5. ASSUME UNCHANGED <<seq_, wvars>>, NEW r \in Readers, NEW q \in Readers,
               CopyReader(r, q) \/ SwapReaders(r, q)
        PROVE  \A x \in Readers : Behind(reads[x])'
    BY <1>1, <1>2, <2>5 DEF CopyReader, SwapReaders, Exchanged
  <2> QED
    BY <2>1, <2>2, <2>3, <2>4, <2>5, ReadersMove
<1>5. ASSUME NEW x \in Readers
      PROVE  (op[x] = "TryRead" /\ result[x] = "current" => reads[x] < written)'
  <2>1. CASE Write \/ WriterStep
    BY <1>1, <1>3, <2>1 DEF Write, WriterStep, StoreChunk, StoreSize, Unlock
  <2>2. ASSUME NEW r \in Readers, NEW o \in {"Read", "TryRead"}, Call(r, o)
        PROVE  (op[x] = "TryRead" /\ result[x] = "current" => reads[x] < written)'
    BY <1>1, <1>3, <2>2 DEF Call
  <2>3. ASSUME NEW r \in Readers, Retry(r) \/ LoadSize(r) \/ LoadChunk(r) \/ LoadSeq1Retry(r)
        PROVE  (op[x] = "TryRead" /\ result[x] = "current" => reads[x] < written)'
    BY <1>1, <1>3, <2>3 DEF Retry, LoadSize, LoadChunk, LoadSeq1Retry
  <2>4. ASSUME NEW r \in Readers, LoadSeq1Current(r)
        PROVE  (op[x] = "TryRead" /\ result[x] = "current" => reads[x] < written)'
    <3>1. reads[r] < written
      BY <1>0, <2>4, ResultsTell DEF LoadSeq1Current
    <3>2. CASE op[r] = "TryRead"
      BY <1>1, <1>3, <2>4, <3>1, <3>2 DEF LoadSeq1Current, Return
    <3>3. CASE op[r] = "Read"
      BY <1>1, <1>3, <2>4, <3>3 DEF LoadSeq1Current, Return, UpdateIndexes
    <3> QED
      BY <1>1, <3>2, <3>3
  <2>5. ASSUME NEW r \in Readers, LoadSeq1Late(r) \/ LoadSeq1NotUpdated(r)
        PROVE  (op[x] = "TryRead" /\ result[x] = "current" => reads[x] < written)'
    BY <1>1, <1>3, <2>5 DEF LoadSeq1Late, LoadSeq1NotUpdated, Return
  <2>6. ASSUME NEW r \in Readers, CallUpdateIndexes(r)
        PROVE  (op[x] = "TryRead" /\ result[x] = "current" => reads[x] < written)'
    BY <1>1, <1>3, <2>6 DEF CallUpdateIndexes, UpdateIndexes
  <2>7. ASSUME NEW r \in Readers, NEW q \in Readers, CopyReader(r, q) \/ SwapReaders(r, q)
        PROVE  (op[x] = "TryRead" /\ result[x] = "current" => reads[x] < written)'
    BY <1>1, <1>3, <2>7 DEF CopyReader, SwapReaders, Exchanged
  <2>8. CASE UNCHANGED vars
    BY <1>3, <2>8 DEF vars
  <2> QED
    BY <2>1, <2>2, <2>3, <2>4, <2>5, <2>6, <2>7, <2>8 DEF Next, ReaderStep
<1> QED
  BY <1>4, <1>5 DEF ReadersInWindow

(* The writer's steps: Write begins a lap of the counter at its place,     *)
(* Unlock ends it; the counters of the other places stay.                  *)
LEMMA CountMoves ==
  ASSUME TypeOK, SequenceCountsMessages, NEW i \in Index
  PROVE  /\ Laps(i) \in Nat /\ Count(i) \in Nat
         /\ Write => /\ Laps(i)' = Laps(i)
                     /\ Count(i)' = Count(i) + (IF i = tail_ THEN 1 ELSE 0)
         /\ Unlock => /\ Laps(i)' = Laps(i) + (IF i = tail_ THEN 1 ELSE 0)
                      /\ Count(i)' = Count(i) + (IF i = tail_ THEN 1 ELSE 0)
         /\ StoreChunk \/ StoreSize => Laps(i)' = Laps(i) /\ Count(i)' = Count(i)
         /\ UNCHANGED wvars => Laps(i)' = Laps(i) /\ Count(i)' = Count(i)
<1>1. written \in Nat /\ tail_ = written % BufferSize
  BY SizesAssumption DEF TypeOK, SequenceCountsMessages
<1>2. Laps(i) = LapsAfter(written, i) /\ Laps(i)' = LapsAfter(written', i)
  BY DEF Laps, LapsAfter
<1>3. Laps(i) \in Nat /\ LapsAfter(written + 1, i) = Laps(i) + (IF i = tail_ THEN 1 ELSE 0)
  BY <1>1, <1>2, NextLap
<1>4. Count(i) \in Nat
  BY <1>3 DEF Count
<1>5. ASSUME Write
      PROVE  Laps(i)' = Laps(i) /\ Count(i)' = Count(i) + (IF i = tail_ THEN 1 ELSE 0)
  <2>1. Laps(i)' = Laps(i) /\ ~Writing(i) /\ (Writing(i)' <=> i = tail_)
    BY <1>2, <1>5 DEF Write, Writing
  <2> QED
    BY <1>3, <2>1 DEF Count
<1>6. ASSUME Unlock
      PROVE  /\ Laps(i)' = Laps(i) + (IF i = tail_ THEN 1 ELSE 0)
             /\ Count(i)' = Count(i) + (IF i = tail_ THEN 1 ELSE 0)
  <2>1. (Writing(i) <=> i = tail_) /\ ~Writing(i)'
    BY <1>6 DEF Unlock, Writing
  <2>2. Laps(i)' = Laps(i) + (IF i = tail_ THEN 1 ELSE 0)
    BY <1>2, <1>3, <1>6 DEF Unlock
  <2> QED
    BY <1>3, <2>1, <2>2 DEF Count
<1>7. ASSUME StoreChunk \/ StoreSize
      PROVE  Laps(i)' = Laps(i) /\ Count(i)' = Count(i)
  <2>1. Laps(i)' = Laps(i) /\ (Writing(i)' <=> Writing(i))
    BY <1>2, <1>7 DEF StoreChunk, StoreSize, Writing
  <2> QED
    BY <2>1 DEF Count
<1>8. ASSUME UNCHANGED wvars
      PROVE  Laps(i)' = Laps(i) /\ Count(i)' = Count(i)
  <2>1. Laps(i)' = Laps(i) /\ (Writing(i)' <=> Writing(i))
    BY <1>2, <1>8 DEF wvars, Writing
  <2> QED
    BY <2>1 DEF Count
<1> QED
  BY <1>3, <1>4, <1>5, <1>6, <1>7, <1>8

(* The counters and the indices keep telling the same story.               *)
LEMMA SequencePreserved ==
  ASSUME IInv, [Next]_vars
  PROVE  SequenceCountsMessages'
<1> USE DEF wvars, cvars
<1> DEFINE Placed(r) ==
             /\ head_[r] = reads[r] % BufferSize
             /\ expected_seq_[r] = (2 * (reads[r] \div BufferSize) + 2) % CounterModulus
<1>0. TypeOK /\ SequenceCountsMessages
  BY DEF IInv
<1>1. /\ written \in Nat /\ reads \in [Readers -> Nat] /\ seq_ \in [Index -> Counter]
      /\ head_ \in [Readers -> Index] /\ expected_seq_ \in [Readers -> Counter]
      /\ BufferSize \in Nat /\ CounterModulus \in Nat /\ CounterModulus > 0
  BY <1>0, SizesAssumption, CounterAssumption DEF TypeOK
<1>2. /\ tail_ = written % BufferSize /\ tail_ \in Index
      /\ \A i \in Index : seq_[i] = Count(i) % CounterModulus
      /\ \A r \in Readers : Placed(r)
  BY <1>0 DEF SequenceCountsMessages, TypeOK
<1>3. tail_' = written' % BufferSize
  <2>1. CASE Unlock
    BY <1>1, <1>2, <2>1, NextPlace DEF Unlock
  <2>2. CASE Write \/ StoreChunk \/ StoreSize \/ UNCHANGED wvars
    BY <1>2, <2>2 DEF Write, StoreChunk, StoreSize
  <2> QED
    BY <2>1, <2>2, ReadersMove DEF WriterStep
<1>4. ASSUME NEW i \in Index
      PROVE  seq_'[i] = Count(i)' % CounterModulus
  <2>1. Count(i) \in Nat
    BY <1>0, CountMoves
  <2>2. ((Count(i) % CounterModulus) + 1) % CounterModulus = (Count(i) + 1) % CounterModulus
    <3>1. Count(i) \in Int /\ 1 \in Int
      BY <2>1
    <3> QED
      BY <1>1, <3>1, WrappedSum
  <2>3. CASE Write \/ Unlock
    <3>1. seq_' = [seq_ EXCEPT ![tail_] = (@ + 1) % CounterModulus]
      BY <2>3 DEF Write, Unlock
    <3>2. Count(i)' = Count(i) + (IF i = tail_ THEN 1 ELSE 0)
      BY <1>0, <2>3, CountMoves
    <3>3. CASE i = tail_
      BY <1>1, <1>2, <2>2, <3>1, <3>2, <3>3
    <3>4. CASE i # tail_
      BY <1>1, <1>2, <2>1, <3>1, <3>2, <3>4
    <3> QED
      BY <3>3, <3>4
  <2>4. CASE StoreChunk \/ StoreSize \/ UNCHANGED <<seq_, wvars>>
    <3>1. seq_' = seq_ /\ Count(i)' = Count(i)
      BY <1>0, <2>4, CountMoves DEF StoreChunk, StoreSize
    <3> QED
      BY <1>2, <3>1
  <2> QED
    BY <2>3, <2>4, ReadersMove DEF WriterStep
<1>5. \A x \in Readers : Placed(x)'
  <2>1. CASE UNCHANGED cvars
    BY <1>2, <2>1
  <2>2. ASSUME NEW r \in Readers, UpdateIndexes(r)
        PROVE  \A x \in Readers : Placed(x)'
    <3> DEFINE t == (head_[r] + 1) \div BufferSize
               q == reads[r] \div BufferSize
    <3>1. Placed(r) /\ reads[r] \in Nat /\ head_[r] \in Int
      BY <1>1, <1>2 DEF Index
    <3>2. /\ (reads[r] + 1) % BufferSize = (head_[r] + 1) % BufferSize
          /\ (reads[r] + 1) \div BufferSize = q + t
          /\ q \in Nat
      BY <3>1, NextPlace
    <3>3. t \in Int
      BY <3>1, SizesAssumption, Division
    <3> HIDE DEF t, q
    <3>4. (expected_seq_[r] + 2 * t) % CounterModulus = (2 * (q + t) + 2) % CounterModulus
      <4>1. expected_seq_[r] = (2 * q + 2) % CounterModulus
        BY <3>1 DEF q
      <4>2. ((2 * q + 2) + 2 * t) % CounterModulus
              = (((2 * q + 2) % CounterModulus) + 2 * t) % CounterModulus
        <5>1. 2 * q + 2 \in Int /\ 2 * t \in Int
          BY <3>2, <3>3
        <5> QED
          BY <1>1, <5>1, WrappedSum
      <4>3. (2 * q + 2) + 2 * t = 2 * (q + t) + 2
        BY <3>2, <3>3
      <4> QED
        BY <4>1, <4>2, <4>3
    <3>5. Placed(r)'
      <4>1. reads'[r] = reads[r] + 1 /\ head_'[r] = (head_[r] + 1) % BufferSize
        BY <1>1, <2>2 DEF UpdateIndexes
      <4>2. expected_seq_'[r] = (expected_seq_[r] + 2 * t) % CounterModulus
        BY <1>1, <2>2 DEF UpdateIndexes, t
      <4> QED
        BY <3>2, <3>4, <4>1, <4>2
    <3>6. ASSUME NEW x \in Readers, x # r
          PROVE  Placed(x)'
      <4>1. reads'[x] = reads[x] /\ head_'[x] = head_[x] /\ expected_seq_'[x] = expected_seq_[x]
        BY <1>1, <2>2, <3>6 DEF UpdateIndexes
      <4> QED
        BY <1>2, <4>1
    <3> QED
      BY <3>5, <3>6
  <2>3. ASSUME NEW r \in Readers, NEW q \in Readers, CopyReader(r, q) \/ SwapReaders(r, q),
               NEW x \in Readers
        PROVE  Placed(x)'
    <3>1. PICK y \in Readers : /\ reads'[x] = reads[y] /\ head_'[x] = head_[y]
                               /\ expected_seq_'[x] = expected_seq_[y]
      BY <1>1, <2>3 DEF CopyReader, SwapReaders, Exchanged
    <3> QED
      BY <1>2, <3>1
  <2> QED
    BY <2>1, <2>2, <2>3, ReadersMove
<1> QED
  BY <1>3, <1>4, <1>5 DEF SequenceCountsMessages

(***************************************************************************)
(* The messages.                                                           *)
(***************************************************************************)

(* The steps of the readers leave the messages and the writer alone.       *)
LEMMA ReadersOnlyRead ==
  ASSUME IInv, [Next]_vars
  PROVE  \/ Write \/ WriterStep
         \/ UNCHANGED <<svars, wvars>>
<1> USE DEF svars, wvars, cvars, lvars
<1>1. ASSUME NEW r \in Readers, NEW o \in {"Read", "TryRead"}, Call(r, o)
      PROVE  UNCHANGED <<svars, wvars>>
  BY <1>1 DEF Call
<1>2. ASSUME NEW r \in Readers, ReaderStep(r)
      PROVE  UNCHANGED <<svars, wvars>>
  BY <1>2 DEF ReaderStep, Retry, LoadSize, LoadChunk, LoadSeq1Retry, LoadSeq1Current,
              LoadSeq1Late, LoadSeq1NotUpdated, Return
<1>3. ASSUME NEW r \in Readers, CallUpdateIndexes(r)
      PROVE  UNCHANGED <<svars, wvars>>
  BY <1>3 DEF CallUpdateIndexes
<1>4. ASSUME NEW r \in Readers, NEW q \in Readers, CopyReader(r, q) \/ SwapReaders(r, q)
      PROVE  UNCHANGED <<svars, wvars>>
  BY <1>4 DEF CopyReader, SwapReaders
<1>5. UNCHANGED vars => UNCHANGED <<svars, wvars>>
  BY DEF vars
<1> QED
  BY <1>1, <1>2, <1>3, <1>4, <1>5 DEF Next

(* The message of place i is the last one written there.                   *)
Whole(i, n) ==
  /\ message_size_[i] = MessageSize(n)
  /\ \A c \in 1 .. MessageSize(n) : data_[i][c] = n

(* The writer changes the message at its place only, and has stored all    *)
(* of it when it unlocks.                                                  *)
LEMMA StoredPreserved ==
  ASSUME IInv, [Next]_vars
  PROVE  StoredMessages'
<1>0. TypeOK /\ SequenceCountsMessages /\ CopiesInside /\ StoredMessages
  BY DEF IInv
<1>1. /\ data_ \in [Index -> [Chunks -> 0 .. MaxWrites - 1 \cup {NoChunk}]]
      /\ message_size_ \in [Index -> 0 .. ChunkCount]
      /\ tail_ \in Index /\ written \in Nat /\ wnext \in Chunks
      /\ wpc \in {"idle", "copy", "size", "unlock"}
      /\ ChunkCount \in Nat /\ BufferSize \in Nat
  BY <1>0, SizesAssumption DEF TypeOK
<1>2. \A i \in Index : Laps(i) > 0 /\ ~Writing(i) => Whole(i, i + BufferSize * (Laps(i) - 1))
  BY <1>0 DEF StoredMessages, Whole
<1>3. ASSUME wpc # "idle"
      PROVE  MessageSize(written) \in 1 .. ChunkCount
  BY <1>0, <1>1, <1>3, SizesAssumption DEF CopiesInside
<1> DEFINE Kept(i) == Laps(i) > 0 /\ ~Writing(i) => Whole(i, i + BufferSize * (Laps(i) - 1))
<1>4. ASSUME NEW i \in Index, i # tail_, Write \/ WriterStep
      PROVE  Kept(i)'
  <2>1. Laps(i)' = Laps(i)
    BY <1>0, <1>4, CountMoves DEF WriterStep
  <2>2. data_'[i] = data_[i] /\ message_size_'[i] = message_size_[i] /\ ~Writing(i)
    BY <1>1, <1>4 DEF Write, WriterStep, StoreChunk, StoreSize, Unlock, Writing
  <2> QED
    BY <1>2, <1>4, <2>1, <2>2 DEF Whole
<1>5. CASE Write
  <2>1. wpc' = "copy" /\ wnext' = 1 /\ tail_' = tail_ /\ Writing(tail_)'
    BY <1>0, <1>5 DEF Write, Writing, CopiesInside
  <2>2. \A i \in Index : Kept(i)'
    BY <1>4, <1>5, <2>1
  <2> QED
    BY <2>1, <2>2 DEF StoredMessages, Whole
<1>6. CASE StoreChunk
  <2>1. wpc = "copy" /\ tail_' = tail_ /\ written' = written /\ Writing(tail_)'
    BY <1>6 DEF StoreChunk, Writing
  <2>2. \A i \in Index : Kept(i)'
    BY <1>4, <1>6, <2>1 DEF WriterStep
  <2>3. MessageSize(written) \in 1 .. ChunkCount /\ wnext <= MessageSize(written) /\ wnext \in Nat
    BY <1>0, <1>1, <1>3, <2>1 DEF CopiesInside, Chunks
  <2>4. \A c \in 1 .. wnext : data_'[tail_][c] = written
    <3>1. \A c \in 1 .. wnext - 1 : data_[tail_][c] = written
      BY <1>0, <2>1 DEF StoredMessages
    <3>2. data_'[tail_] = [data_[tail_] EXCEPT ![wnext] = written]
      BY <1>1, <1>6 DEF StoreChunk
    <3>3. \A c \in 1 .. wnext : c \in Chunks
      BY <1>1, <2>3 DEF Chunks
    <3> QED
      BY <1>1, <2>3, <3>1, <3>2, <3>3
  <2>5. wpc' = "copy" => \A c \in 1 .. wnext' - 1 : data_'[tail_'][c] = written'
    BY <1>6, <2>1, <2>3, <2>4 DEF StoreChunk
  <2>6. wpc' \in {"size", "unlock"} => wnext = MessageSize(written)
    BY <1>6, <2>1 DEF StoreChunk
  <2>7. wpc' # "unlock"
    BY <1>6, <2>1 DEF StoreChunk
  <2> QED
    BY <2>1, <2>2, <2>4, <2>5, <2>6, <2>7 DEF StoredMessages, Whole
<1>7. CASE StoreSize
  <2>1. /\ wpc = "size" /\ wpc' = "unlock" /\ tail_' = tail_ /\ written' = written
        /\ data_' = data_ /\ Writing(tail_)' /\ message_size_'[tail_] = MessageSize(written)
    BY <1>1, <1>7 DEF StoreSize, Writing
  <2>2. \A i \in Index : Kept(i)'
    BY <1>4, <1>7, <2>1 DEF WriterStep
  <2> QED
    BY <1>0, <2>1, <2>2 DEF StoredMessages, Whole
<1>8. CASE Unlock
  <2>1. wpc = "unlock" /\ data_' = data_ /\ message_size_' = message_size_ /\ wpc' = "idle"
    BY <1>8 DEF Unlock
  <2>2. Whole(tail_, written)
    BY <1>0, <2>1 DEF StoredMessages, Whole
  <2>3. ASSUME NEW i \in Index, i = tail_
        PROVE  Laps(i)' - 1 = written \div BufferSize
    <3>1. Laps(i) = LapsAfter(written, i)
      BY DEF Laps, LapsAfter
    <3>2. Laps(i) = written \div BufferSize
      BY <1>0, <1>1, <2>3, <3>1, NextLap DEF SequenceCountsMessages
    <3>3. Laps(i) \in Nat /\ Laps(i)' = Laps(i) + 1
      BY <1>0, <1>8, <2>3, CountMoves
    <3> QED
      BY <3>2, <3>3
  <2>4. tail_ + BufferSize * (written \div BufferSize) = written
    <3>1. /\ written \div BufferSize \in Nat
          /\ written = BufferSize * (written \div BufferSize) + tail_
      BY <1>0, <1>1, NextPlace DEF SequenceCountsMessages
    <3>2. tail_ \in Int /\ BufferSize * (written \div BufferSize) \in Int
      BY <1>1, <3>1 DEF Index
    <3> QED
      BY <3>1, <3>2
  <2>5. ASSUME NEW i \in Index, i = tail_
        PROVE  Kept(i)'
    <3>1. i + BufferSize * (Laps(i)' - 1) = written
      BY <2>3, <2>4, <2>5
    <3>2. message_size_'[i] = MessageSize(written)
      BY <2>1, <2>2, <2>5 DEF Whole
    <3>3. \A c \in 1 .. MessageSize(written) : data_'[i][c] = written
      BY <2>1, <2>2, <2>5 DEF Whole
    <3> QED
      BY <3>1, <3>2, <3>3 DEF Whole
  <2>6. \A i \in Index : Kept(i)'
    BY <1>4, <1>8, <2>5 DEF WriterStep
  <2> QED
    BY <2>1, <2>6 DEF StoredMessages, Whole
<1>9. CASE UNCHANGED <<svars, wvars>>
  <2>1. /\ data_' = data_ /\ message_size_' = message_size_ /\ tail_' = tail_
        /\ wpc' = wpc /\ wnext' = wnext /\ written' = written
    BY <1>9 DEF svars, wvars
  <2> QED
    BY <1>0, <2>1 DEF StoredMessages, Laps, Writing
<1> QED
  BY <1>5, <1>6, <1>7, <1>8, <1>9, ReadersOnlyRead DEF WriterStep

(***************************************************************************)
(* The copies.                                                             *)
(***************************************************************************)
Since(x) ==
  \E k \in 2 * (reads[x] \div BufferSize) .. Count(head_[x]) : seq0[x] = k % CounterModulus

Agrees(x) ==
  /\ rpc[x] # "size" => size[x] = message_size_[head_[x]]
  /\ \A c \in 1 .. (IF rpc[x] = "seq1" THEN size[x] ELSE rnext[x] - 1) :
       loaded[x][c] = data_[head_[x]][c]

Attempt(x) == rpc[x] \in {"size", "copy", "seq1"} => Since(x) /\ (Copied(x) => Agrees(x))

(* A step of the writer spoils the copies from its place only, and those   *)
(* cannot be taken for good ones: the counter does not come back.          *)
LEMMA WriterSpoilsCopies ==
  ASSUME IInv, Write \/ WriterStep, NEW x \in Readers, Attempt(x)
  PROVE  Attempt(x)'
<1> DEFINE h == head_[x]
           q == reads[x] \div BufferSize
<1>0. TypeOK /\ SequenceCountsMessages /\ ReadersInWindow
  BY DEF IInv
<1>1. UNCHANGED <<cvars, rpc, lvars>>
  BY DEF Write, WriterStep, StoreChunk, StoreSize, Unlock
<1>2. /\ rpc' = rpc /\ head_' = head_ /\ reads' = reads /\ seq0' = seq0
      /\ size' = size /\ loaded' = loaded /\ rnext' = rnext
  BY <1>1 DEF cvars, lvars
<1>3. /\ h \in Index /\ q \in Nat /\ Count(h) \in Nat /\ Laps(h) \in Nat
      /\ Count(h) + (IF Writing(h) THEN 1 ELSE 0) < 2 * q + CounterModulus
      /\ Copied(x) => ~Writing(h)
  BY <1>0, CounterAtReader
<1>4. CounterModulus \in Nat /\ CounterModulus > 0
  BY CounterAssumption
<1>5. ASSUME NEW i \in Index
      PROVE  /\ i = tail_ => \/ Write /\ Count(i)' = Count(i) + 1 /\ Laps(i)' = Laps(i)
                             \/ Unlock /\ Count(i)' = Count(i) + 1
                             \/ (StoreChunk \/ StoreSize) /\ Count(i)' = Count(i)
             /\ i # tail_ => Count(i)' = Count(i)
  BY <1>0, CountMoves DEF WriterStep
<1>6. Count(h)' = Count(h) \/ Count(h)' = Count(h) + 1
  <2>1. ASSUME NEW i \in Index, i = h
        PROVE  Count(i)' = Count(i) \/ Count(i)' = Count(i) + 1
    BY <1>5
  <2> QED
    BY <1>2, <1>3, <2>1
<1> SUFFICES ASSUME rpc[x] \in {"size", "copy", "seq1"}
             PROVE  Since(x)' /\ (Copied(x)' => Agrees(x)')
  BY <1>2 DEF Attempt
<1>7. PICK k \in 2 * q .. Count(h) : seq0[x] = k % CounterModulus
  BY DEF Attempt, Since
<1>8. Since(x)'
  <2>1. k \in 2 * q .. Count(h)'
    BY <1>3, <1>6
  <2> QED
    BY <1>2, <1>7, <2>1 DEF Since
<1>9. CASE h # tail_
  <2>1. seq_'[h] = seq_[h] /\ data_'[h] = data_[h] /\ message_size_'[h] = message_size_[h]
    BY <1>0, <1>3, <1>9 DEF TypeOK, Write, WriterStep, StoreChunk, StoreSize, Unlock
  <2>2. (Copied(x)' <=> Copied(x)) /\ (Agrees(x)' <=> Agrees(x))
    BY <1>2, <2>1 DEF Copied, Agrees
  <2> QED
    BY <1>8, <2>2 DEF Attempt
<1>10. CASE h = tail_
  <2>1. seq_ \in [Index -> Counter] /\ seq_[h] = Count(h) % CounterModulus
    BY <1>0, <1>3 DEF TypeOK, SequenceCountsMessages
  <2>2. ((Count(h) % CounterModulus) + 1) % CounterModulus = (Count(h) + 1) % CounterModulus
    <3>1. Count(h) \in Int /\ 1 \in Int
      BY <1>3
    <3> QED
      BY <1>4, <3>1, WrappedSum
  <2>3. CASE Write
    <3>1. seq_'[h] = (Count(h) + 1) % CounterModulus
      BY <1>3, <1>10, <2>1, <2>2, <2>3 DEF Write
    <3>2. Count(h) = 2 * Laps(h)
      BY <1>3, <2>3 DEF Write, Count, Writing
    <3>3. IsLocked(seq_'[h])
      BY <1>3, <3>1, <3>2, CounterParity
    <3> QED
      BY <1>2, <1>8, <3>3 DEF Copied
  <2>4. CASE Unlock
    <3>1. seq_'[h] = (Count(h) + 1) % CounterModulus
      BY <1>3, <1>10, <2>1, <2>2, <2>4 DEF Unlock
    <3>2. Writing(h)
      BY <1>10, <2>4 DEF Unlock, Writing
    <3>3. k \in Int /\ Count(h) + 1 \in Int /\ k <= Count(h) + 1 /\ Count(h) + 1 < k + CounterModulus
      BY <1>3, <1>4, <3>2
    <3>4. k # Count(h) + 1
      BY <1>3
    <3>5. seq0[x] # seq_'[h]
      BY <1>4, <1>7, <3>1, <3>3, <3>4, SameRemainder
    <3> QED
      BY <1>2, <1>8, <3>5 DEF Copied
  <2>5. CASE StoreChunk \/ StoreSize
    <3>1. seq_' = seq_ /\ Writing(h)
      BY <1>10, <2>5 DEF StoreChunk, StoreSize, Writing
    <3>2. ~Copied(x)'
      BY <1>2, <1>3, <3>1 DEF Copied
    <3> QED
      BY <1>8, <3>2
  <2> QED
    BY <2>3, <2>4, <2>5 DEF WriterStep
<1> QED
  BY <1>9, <1>10

(* The steps of a reader keep its own copy in agreement with the counter   *)
(* it began with, and do not touch the copies of the others.               *)
LEMMA ReadersCopy ==
  ASSUME IInv, [Next]_vars, UNCHANGED <<svars, wvars>>, NEW x \in Readers, Attempt(x)
  PROVE  Attempt(x)'
<1> USE DEF cvars, lvars
<1>0. TypeOK /\ SequenceCountsMessages /\ CopiesInside /\ ReadersInWindow
  BY DEF IInv
<1>1. /\ seq_' = seq_ /\ data_' = data_ /\ message_size_' = message_size_
      /\ \A i \in Index : Count(i)' = Count(i)
  BY <1>0, CountMoves DEF svars
<1>2. /\ rpc \in [Readers -> {"idle", "seq0", "size", "copy", "seq1"}]
      /\ head_ \in [Readers -> Index] /\ reads \in [Readers -> Nat]
      /\ expected_seq_ \in [Readers -> Counter]
      /\ seq0 \in [Readers -> Counter] /\ size \in [Readers -> 0 .. ChunkCount]
      /\ loaded \in [Readers -> [Chunks -> 0 .. MaxWrites - 1 \cup {NoChunk}]]
      /\ rnext \in [Readers -> Chunks] /\ ChunkCount \in Nat
  BY <1>0, SizesAssumption DEF TypeOK
<1>3. \A r \in Readers : rpc[r] # "copy" => rnext[r] = 1
  BY <1>0 DEF CopiesInside
<1>4. ASSUME /\ rpc'[x] = rpc[x] /\ head_'[x] = head_[x] /\ reads'[x] = reads[x]
             /\ seq0'[x] = seq0[x] /\ size'[x] = size[x] /\ loaded'[x] = loaded[x]
             /\ rnext'[x] = rnext[x]
      PROVE  Attempt(x)'
  <2>1. Count(head_[x])' = Count(head_[x])
    BY <1>1, <1>2, <1>4
  <2>2. Since(x)' <=> Since(x)
    BY <1>4, <2>1 DEF Since
  <2>3. (Copied(x)' <=> Copied(x)) /\ (Agrees(x)' <=> Agrees(x))
    BY <1>1, <1>4 DEF Copied, Agrees
  <2> QED
    BY <1>4, <2>2, <2>3 DEF Attempt
<1>5. ASSUME rpc'[x] \in {"idle", "seq0"}
      PROVE  Attempt(x)'
  BY <1>5 DEF Attempt
<1>6. ASSUME LoadSeq0(x), rpc[x] # "copy", UNCHANGED <<cvars, rnext>>
      PROVE  Attempt(x)'
  <2>1. /\ rpc'[x] = "size" /\ seq0'[x] = seq_[head_[x]]
        /\ head_' = head_ /\ reads' = reads /\ rnext'[x] = 1
    BY <1>2, <1>3, <1>6 DEF LoadSeq0
  <2>2. /\ head_[x] \in Index /\ Count(head_[x]) \in Nat
        /\ reads[x] \div BufferSize \in Nat
        /\ 2 * (reads[x] \div BufferSize) <= Count(head_[x])
    BY <1>0, CounterAtReader
  <2>3. Count(head_[x])' = Count(head_[x])
    BY <1>1, <2>1, <2>2
  <2>4. seq0'[x] = Count(head_[x]) % CounterModulus
    BY <1>0, <2>1, <2>2 DEF SequenceCountsMessages
  <2>5. Count(head_[x]) \in 2 * (reads[x] \div BufferSize) .. Count(head_[x])
    BY <2>2
  <2>6. Since(x)'
    BY <2>1, <2>3, <2>4, <2>5 DEF Since
  <2>7. Agrees(x)'
    BY <2>1 DEF Agrees
  <2> QED
    BY <2>6, <2>7 DEF Attempt
<1>7. ASSUME NEW r \in Readers, NEW o \in {"Read", "TryRead"}, Call(r, o)
      PROVE  Attempt(x)'
  <2>1. CASE r = x
    BY <1>6, <1>7, <2>1 DEF Call
  <2>2. CASE r # x
    BY <1>2, <1>4, <1>7, <2>2 DEF Call, LoadSeq0, DropMessage
  <2> QED
    BY <2>1, <2>2
<1>8. ASSUME NEW r \in Readers, Retry(r)
      PROVE  Attempt(x)'
  <2>1. CASE r = x
    BY <1>6, <1>8, <2>1 DEF Retry
  <2>2. CASE r # x
    BY <1>2, <1>4, <1>8, <2>2 DEF Retry, LoadSeq0
  <2> QED
    BY <2>1, <2>2
<1>9. ASSUME NEW r \in Readers, LoadSize(r)
      PROVE  Attempt(x)'
  <2>1. CASE r = x
    <3>1. /\ rpc[x] = "size" /\ head_' = head_ /\ reads' = reads /\ seq0' = seq0
          /\ size'[x] = message_size_[head_[x]] /\ rnext'[x] = 1
          /\ rpc'[x] = IF size'[x] = 0 THEN "seq1" ELSE "copy"
      BY <1>2, <1>3, <1>9, <2>1 DEF LoadSize
    <3>2. Since(x)'
      <4>1. Count(head_[x])' = Count(head_[x])
        BY <1>1, <1>2, <3>1
      <4> QED
        BY <3>1, <4>1 DEF Attempt, Since
    <3>3. Agrees(x)'
      BY <1>1, <3>1 DEF Agrees
    <3> QED
      BY <3>2, <3>3 DEF Attempt
  <2>2. CASE r # x
    BY <1>2, <1>4, <1>9, <2>2 DEF LoadSize
  <2> QED
    BY <2>1, <2>2
<1>10. ASSUME NEW r \in Readers, LoadChunk(r)
       PROVE  Attempt(x)'
  <2>1. CASE r = x
    <3>1. /\ rpc[x] = "copy" /\ head_' = head_ /\ reads' = reads /\ seq0' = seq0 /\ size' = size
          /\ loaded'[x] = [loaded[x] EXCEPT ![rnext[x]] = data_[head_[x]][rnext[x]]]
          /\ \/ rpc'[x] = "copy" /\ rnext'[x] = rnext[x] + 1
             \/ rpc'[x] = "seq1" /\ rnext[x] = size[x]
      BY <1>2, <1>10, <2>1 DEF LoadChunk
    <3>2. Since(x)'
      <4>1. Count(head_[x])' = Count(head_[x])
        BY <1>1, <1>2, <3>1
      <4> QED
        BY <3>1, <4>1 DEF Attempt, Since
    <3>3. ASSUME Copied(x)'
          PROVE  Agrees(x)'
      <4>1. Copied(x)
        BY <1>1, <3>1, <3>3 DEF Copied
      <4>2. /\ size[x] = message_size_[head_[x]]
            /\ \A c \in 1 .. rnext[x] - 1 : loaded[x][c] = data_[head_[x]][c]
        BY <3>1, <4>1 DEF Attempt, Agrees
      <4>3. rnext[x] \in Nat /\ rnext[x] <= ChunkCount /\ rnext[x] \in Chunks
        BY <1>2 DEF Chunks
      <4>4. \A c \in 1 .. rnext[x] : c \in Chunks
        BY <1>2, <4>3 DEF Chunks
      <4>5. \A c \in 1 .. rnext[x] : loaded'[x][c] = data_[head_[x]][c]
        <5>1. ASSUME NEW c \in 1 .. rnext[x], c # rnext[x]
              PROVE  loaded'[x][c] = data_[head_[x]][c]
          <6>1. c \in 1 .. rnext[x] - 1 /\ c \in Chunks
            BY <4>3, <4>4, <5>1
          <6> QED
            BY <1>2, <3>1, <4>2, <5>1, <6>1
        <5>2. loaded'[x][rnext[x]] = data_[head_[x]][rnext[x]]
          BY <1>2, <3>1, <4>3
        <5> QED
          BY <5>1, <5>2
      <4>6. (IF rpc[x] = "seq1" THEN size[x] ELSE rnext[x] - 1)' = rnext[x]
        BY <3>1, <4>3
      <4> QED
        BY <1>1, <3>1, <4>2, <4>5, <4>6 DEF Agrees
    <3> QED
      BY <3>2, <3>3 DEF Attempt
  <2>2. CASE r # x
    BY <1>2, <1>4, <1>10, <2>2 DEF LoadChunk
  <2> QED
    BY <2>1, <2>2
<1>11. ASSUME NEW r \in Readers, LoadSeq1Retry(r)
       PROVE  Attempt(x)'
  BY <1>2, <1>4, <1>5, <1>11 DEF LoadSeq1Retry
<1>12. ASSUME NEW r \in Readers, LoadSeq1Current(r)
       PROVE  Attempt(x)'
  <2>1. CASE r = x
    BY <1>2, <1>5, <1>12, <2>1 DEF LoadSeq1Current, Return
  <2>2. CASE r # x
    BY <1>2, <1>4, <1>12, <2>2 DEF LoadSeq1Current, Return, UpdateIndexes
  <2> QED
    BY <2>1, <2>2
<1>13. ASSUME NEW r \in Readers, LoadSeq1Late(r) \/ LoadSeq1NotUpdated(r)
       PROVE  Attempt(x)'
  <2>1. CASE r = x
    BY <1>2, <1>5, <1>13, <2>1 DEF LoadSeq1Late, LoadSeq1NotUpdated, Return
  <2>2. CASE r # x
    BY <1>2, <1>4, <1>13, <2>2 DEF LoadSeq1Late, LoadSeq1NotUpdated, Return, DropMessage
  <2> QED
    BY <2>1, <2>2
<1>14. ASSUME NEW r \in Readers, CallUpdateIndexes(r)
       PROVE  Attempt(x)'
  <2>1. CASE r = x
    BY <1>5, <1>14, <2>1 DEF CallUpdateIndexes
  <2>2. CASE r # x
    BY <1>2, <1>4, <1>14, <2>2 DEF CallUpdateIndexes, UpdateIndexes, DropMessage
  <2> QED
    BY <2>1, <2>2
<1>15. ASSUME NEW r \in Readers, NEW q \in Readers, CopyReader(r, q) \/ SwapReaders(r, q)
       PROVE  Attempt(x)'
  <2>1. CASE rpc[x] = "idle"
    BY <1>5, <1>15, <2>1 DEF CopyReader, SwapReaders
  <2>2. CASE rpc[x] # "idle"
    BY <1>2, <1>4, <1>15, <2>2 DEF CopyReader, SwapReaders, Exchanged, DropMessage
  <2> QED
    BY <2>1, <2>2
<1>16. CASE UNCHANGED vars
  BY <1>4, <1>16 DEF vars
<1>17. CASE Write \/ WriterStep
  BY <1>17, WriterSpoilsCopies
<1> QED
  BY <1>7, <1>8, <1>9, <1>10, <1>11, <1>12, <1>13, <1>14, <1>15, <1>16, <1>17 DEF Next, ReaderStep

(* So every accepted copy agrees with the message in the buffer.           *)
LEMMA AttemptsPreserved ==
  ASSUME IInv, [Next]_vars
  PROVE  Attempts'
<1>1. ASSUME NEW x \in Readers
      PROVE  Attempt(x)'
  <2>1. Attempt(x)
    BY DEF IInv, Attempts, Attempt, Since, Agrees
  <2> QED
    BY <2>1, ReadersOnlyRead, ReadersCopy, WriterSpoilsCopies
<1> QED
  BY <1>1 DEF Attempts, Attempt, Since, Agrees

(***************************************************************************)
(* The invariant.                                                          *)
(***************************************************************************)

(* At first nothing is written and nobody is in a call.                    *)
LEMMA InitInvariant == Init => IInv
<1> SUFFICES ASSUME Init PROVE IInv
  OBVIOUS
<1> USE DEF Init
<1>1. /\ BufferSize \in Nat /\ BufferSize > 0 /\ MaxLag \in Nat /\ MaxWrites \in Nat
      /\ ChunkCount \in Nat /\ ChunkCount > 0
      /\ CounterModulus \in Nat /\ CounterModulus >= 4
  BY SizesAssumption, CounterAssumption
<1>2. /\ 0 \in Index /\ 0 \in Counter /\ 2 \in Counter /\ 1 \in Chunks
      /\ 0 \in 0 .. ChunkCount /\ 0 \in 0 .. MaxWrites
      /\ NewMessage \in [Chunks -> 0 .. MaxWrites - 1 \cup {NoChunk}]
  BY <1>1 DEF Index, Counter, Chunks, NewMessage
<1>3. TypeOK
  BY <1>2 DEF TypeOK
<1>4. 0 % BufferSize = 0 /\ 0 \div BufferSize = 0 /\ 0 % CounterModulus = 0 /\ 2 % CounterModulus = 2
  BY <1>1
<1>5. ASSUME NEW i \in Index
      PROVE  Laps(i) = 0 /\ Count(i) = 0
  <2>1. Laps(i) = LapsAfter(0, i) /\ 0 \in Nat
    BY DEF Laps, LapsAfter
  <2>2. ~(i < 0)
    BY <1>1 DEF Index
  <2>3. Laps(i) = 0
    BY <1>4, <2>1, <2>2, LapsOfPlace
  <2> QED
    BY <2>3 DEF Count, Writing
<1>6. SequenceCountsMessages
  <2>1. 2 * 0 + 2 = 2
    OBVIOUS
  <2> QED
    BY <1>4, <1>5, <2>1 DEF SequenceCountsMessages
<1>7. CopiesInside /\ ReadersInWindow /\ Attempts
  BY <1>1 DEF CopiesInside, ReadersInWindow, Attempts
<1>8. StoredMessages
  BY <1>5 DEF StoredMessages
<1> QED
  BY <1>3, <1>6, <1>7, <1>8 DEF IInv

(* The inductive invariant of the writer and the readers holds in every    *)
(* state, for every buffer size, every width of the counters (Lock and     *)
(* Unlock wrap them) and any number of readers.                            *)
THEOREM InvariantHolds == Spec => []IInv
<1>1. IInv /\ [Next]_vars => IInv'
  BY TypePreserved, SequencePreserved, CopiesPreserved, WindowPreserved, StoredPreserved,
     AttemptsPreserved DEF IInv
<1> QED
  BY <1>1, InitInvariant, PTL DEF Spec

(* No index of Writer::Write and Reader::Read leaves the buffer and no     *)
(* copy the message.                                                       *)
THEOREM TypeCorrect == Spec => []TypeOK
<1>1. IInv => TypeOK
  BY DEF IInv
<1> QED
  BY <1>1, InvariantHolds, PTL

(* However often the counters wrap, head_, expected_seq_ and the counters  *)
(* of the places that UpdateIndexes and Write move agree.                  *)
THEOREM CountersAgree == Spec => []SequenceCountsMessages
<1>1. IInv => SequenceCountsMessages
  BY DEF IInv
<1> QED
  BY <1>1, InvariantHolds, PTL

(***************************************************************************)
(* The refinement.                                                         *)
(***************************************************************************)
CallOf(r) ==
  [busy |-> rpc[r] # "idle", op |-> op[r], result |-> result[r],
   msg |-> IF result[r] = "current" THEN [c \in 1 .. size[r] |-> loaded[r][c]] ELSE << >>]

LEMMA CallsOfReaders == ReaderCall = [r \in Readers |-> CallOf(r)]
BY DEF ReaderCall, CallOf

(* A step of one reader changes the call of that reader only.              *)
LEMMA OneCallMoves ==
  ASSUME NEW r \in Readers, NEW c, CallOf(r)' = c,
         \A x \in Readers \ {r} : CallOf(x)' = CallOf(x)
  PROVE  ReaderCall' = [ReaderCall EXCEPT ![r] = c]
BY DEF ReaderCall, CallOf

(* A step that leaves the calls of all readers alone.                      *)
LEMMA NoCallMoves ==
  ASSUME \A x \in Readers : CallOf(x)' = CallOf(x)
  PROVE  ReaderCall' = ReaderCall
BY DEF ReaderCall, CallOf

(* The copy that a reader accepts as current is the message at its         *)
(* position in the log.                                                    *)
LEMMA AcceptedMessage ==
  ASSUME IInv, NEW r \in Readers, LoadSeq1Current(r)
  PROVE  /\ reads[r] < written /\ written <= reads[r] + BufferSize
         /\ [c \in 1 .. size[r] |-> loaded[r][c]] = Message(reads[r])
<1> DEFINE h == head_[r]
           q == reads[r] \div BufferSize
<1>0. /\ TypeOK /\ SequenceCountsMessages /\ ReadersInWindow /\ StoredMessages /\ Attempts
      /\ rpc[r] = "seq1" /\ Copied(r)
  BY DEF IInv, LoadSeq1Current
<1>1. reads[r] < written /\ written <= reads[r] + BufferSize /\ Laps(h) = q + 1
  BY <1>0, ResultsTell DEF LoadSeq1Current
<1>2. h \in Index /\ q \in Nat /\ ~Writing(h)
  BY <1>0, CounterAtReader
<1>3. reads[r] \in Nat /\ BufferSize \in Nat
  BY <1>0, SizesAssumption DEF TypeOK
<1>4. Laps(h) > 0 /\ Laps(h) - 1 = q
  BY <1>1, <1>2
<1>5. h + BufferSize * (Laps(h) - 1) = reads[r]
  <2>1. reads[r] = BufferSize * q + h
    BY <1>0, <1>3, NextPlace DEF SequenceCountsMessages
  <2>2. h \in Int /\ BufferSize * q \in Int
    BY <1>2, <1>3 DEF Index
  <2> QED
    BY <1>4, <2>1, <2>2
<1>6. /\ message_size_[h] = MessageSize(reads[r])
      /\ \A c \in 1 .. MessageSize(reads[r]) : data_[h][c] = reads[r]
  BY <1>0, <1>2, <1>4, <1>5 DEF StoredMessages
<1>7. size[r] = message_size_[h] /\ \A c \in 1 .. size[r] : loaded[r][c] = data_[h][c]
  BY <1>0 DEF Attempts
<1>8. size[r] = MessageSize(reads[r]) /\ \A c \in 1 .. size[r] : loaded[r][c] = reads[r]
  BY <1>6, <1>7
<1> QED
  BY <1>1, <1>8 DEF Message

(* Every step of the writer and the readers is one of the log, or none.    *)
LEMMA StepsRefine ==
  ASSUME IInv, [Next]_vars
  PROVE  [Log!Next]_(Log!vars)
<1> USE DEF svars, wvars, cvars, lvars
<1>0. TypeOK /\ CopiesInside /\ ReadersInWindow /\ SequenceCountsMessages
  BY DEF IInv
<1>1. /\ rpc \in [Readers -> {"idle", "seq0", "size", "copy", "seq1"}]
      /\ op \in [Readers -> {"Read", "TryRead"}]
      /\ result \in [Readers -> {"none", "current", "late", "not_updated"}]
      /\ size \in [Readers -> 0 .. ChunkCount]
      /\ loaded \in [Readers -> [Chunks -> 0 .. MaxWrites - 1 \cup {NoChunk}]]
      /\ reads \in [Readers -> Nat] /\ written \in Nat /\ BufferSize \in Nat
  BY <1>0, SizesAssumption DEF TypeOK
<1>2. \A r \in Readers : rpc[r] # "idle" => result[r] = "none"
  BY <1>0 DEF CopiesInside
<1>3. ASSUME NEW x \in Readers, rpc'[x] = rpc[x], op'[x] = op[x], result'[x] = result[x],
             size'[x] = size[x], loaded'[x] = loaded[x]
      PROVE  CallOf(x)' = CallOf(x)
  BY <1>3 DEF CallOf
<1>4. \A r \in Readers : /\ ReaderCall[r].busy <=> rpc[r] # "idle"
                         /\ ReaderCall[r].op = op[r] /\ ReaderCall[r].result = result[r]
  BY DEF ReaderCall
<1>5. CASE Write \/ StoreChunk \/ StoreSize
  <2>1. \A x \in Readers : CallOf(x)' = CallOf(x)
    BY <1>3, <1>5 DEF Write, StoreChunk, StoreSize
  <2>2. written' = written /\ reads' = reads
    BY <1>5 DEF Write, StoreChunk, StoreSize
  <2> QED
    BY <2>1, <2>2, NoCallMoves DEF Log!vars
<1>6. CASE Unlock
  <2>1. \A x \in Readers : CallOf(x)' = CallOf(x)
    BY <1>3, <1>6 DEF Unlock
  <2>2. written' = written + 1 /\ reads' = reads
    BY <1>6 DEF Unlock
  <2>3. Log!Write
    BY <2>1, <2>2, NoCallMoves DEF Log!Write
  <2> QED
    BY <2>3 DEF Log!Next
<1>7. ASSUME NEW r \in Readers, NEW o \in {"Read", "TryRead"}, Call(r, o)
      PROVE  Log!Next
  <2>1. CallOf(r)' = [busy |-> TRUE, op |-> o, result |-> "none", msg |-> << >>]
    BY <1>1, <1>7 DEF Call, LoadSeq0, CallOf
  <2>2. \A x \in Readers \ {r} : CallOf(x)' = CallOf(x)
    BY <1>1, <1>3, <1>7 DEF Call, LoadSeq0, DropMessage
  <2>3. written' = written /\ reads' = reads /\ rpc[r] = "idle"
    BY <1>7 DEF Call
  <2>4. Log!Call(r, o)
    BY <1>4, <2>1, <2>2, <2>3, OneCallMoves DEF Log!Call
  <2> QED
    BY <2>4 DEF Log!Next, Log!Calls
<1>8. ASSUME NEW r \in Readers, Retry(r) \/ LoadSize(r) \/ LoadChunk(r) \/ LoadSeq1Retry(r)
      PROVE  UNCHANGED Log!vars
  <2>1. CallOf(r)' = CallOf(r)
    <3>1. rpc[r] # "idle" /\ rpc'[r] # "idle" /\ op'[r] = op[r] /\ result'[r] = result[r]
      BY <1>1, <1>8 DEF Retry, LoadSize, LoadChunk, LoadSeq1Retry, LoadSeq0
    <3>2. result[r] = "none"
      BY <1>2, <3>1
    <3> QED
      BY <3>1, <3>2 DEF CallOf
  <2>2. \A x \in Readers \ {r} : CallOf(x)' = CallOf(x)
    BY <1>1, <1>3, <1>8 DEF Retry, LoadSize, LoadChunk, LoadSeq1Retry, LoadSeq0
  <2>3. written' = written /\ reads' = reads
    BY <1>8 DEF Retry, LoadSize, LoadChunk, LoadSeq1Retry
  <2> QED
    BY <2>1, <2>2, <2>3, NoCallMoves DEF Log!vars
<1>9. ASSUME NEW r \in Readers, LoadSeq1Current(r)
      PROVE  Log!Next
  <2>1. /\ reads[r] < written /\ written <= reads[r] + BufferSize
        /\ [c \in 1 .. size[r] |-> loaded[r][c]] = Message(reads[r])
    BY <1>9, AcceptedMessage
  <2>2. CallOf(r)' = [busy |-> FALSE, op |-> op[r], result |-> "current", msg |-> Message(reads[r])]
    <3>1. /\ rpc'[r] = "idle" /\ op'[r] = op[r] /\ result'[r] = "current"
          /\ size'[r] = size[r] /\ loaded'[r] = loaded[r]
      BY <1>1, <1>9 DEF LoadSeq1Current, Return
    <3> QED
      BY <2>1, <3>1 DEF CallOf
  <2>3. \A x \in Readers \ {r} : CallOf(x)' = CallOf(x)
    BY <1>1, <1>3, <1>9 DEF LoadSeq1Current, Return
  <2>4. /\ written' = written /\ rpc[r] # "idle"
        /\ reads' = IF op[r] = "Read" THEN [reads EXCEPT ![r] = @ + 1] ELSE reads
    BY <1>9 DEF LoadSeq1Current, Return, UpdateIndexes
  <2>5. ReaderCall' = [ReaderCall EXCEPT ![r] =
                         [busy |-> FALSE, op |-> op[r], result |-> "current", msg |-> Message(reads[r])]]
    BY <2>2, <2>3, OneCallMoves
  <2>6. Log!Return(r, "current", Message(reads[r]))
    BY <1>4, <2>5 DEF Log!Return, Log!Done
  <2>7. ~Log!Missing(r) /\ ~Log!Late(r)
    BY <1>1, <2>1 DEF Log!Missing, Log!Late
  <2>8. Log!Current(r)
    BY <1>4, <2>4, <2>6, <2>7 DEF Log!Current
  <2> QED
    BY <2>8 DEF Log!Next
<1>10. ASSUME NEW r \in Readers, Return(r, "late") \/ Return(r, "not_updated"), DropMessage(r),
              NEW s, s = result'[r]
       PROVE  Log!Return(r, s, << >>)
  <2>1. /\ rpc'[r] = "idle" /\ op'[r] = op[r]
        /\ result'[r] # "current"
    BY <1>1, <1>10 DEF Return
  <2>2. CallOf(r)' = [busy |-> FALSE, op |-> op[r], result |-> s, msg |-> << >>]
    BY <1>10, <2>1 DEF CallOf
  <2>3. \A x \in Readers \ {r} : CallOf(x)' = CallOf(x)
    BY <1>1, <1>3, <1>10 DEF Return, DropMessage
  <2>4. ReaderCall' = [ReaderCall EXCEPT ![r] =
                         [busy |-> FALSE, op |-> op[r], result |-> s, msg |-> << >>]]
    BY <2>2, <2>3, OneCallMoves
  <2> QED
    BY <1>4, <2>4 DEF Log!Return, Log!Done
<1>11. ASSUME NEW r \in Readers, LoadSeq1Late(r)
       PROVE  Log!Next
  <2>1. Log!Late(r)
    BY <1>0, <1>1, <1>11, ResultsTell DEF LoadSeq1Late, Log!Late
  <2>2. result'[r] = "late" /\ written' = written /\ reads' = reads /\ rpc[r] # "idle"
    BY <1>1, <1>11 DEF LoadSeq1Late, Return
  <2>3. Log!Return(r, "late", << >>)
    BY <1>10, <1>11, <2>2 DEF LoadSeq1Late
  <2>4. Log!ReaderLate(r)
    BY <1>4, <2>1, <2>2, <2>3 DEF Log!ReaderLate
  <2> QED
    BY <2>4 DEF Log!Next
<1>12. ASSUME NEW r \in Readers, LoadSeq1NotUpdated(r)
       PROVE  Log!Next \/ UNCHANGED Log!vars
  <2>1. CASE op[r] = "TryRead"
    <3>1. Log!Missing(r)
      BY <1>0, <1>12, ResultsTell DEF LoadSeq1NotUpdated, Log!Missing
    <3>2. Return(r, "not_updated") /\ DropMessage(r) /\ reads' = reads /\ rpc[r] # "idle"
      BY <1>12, <2>1 DEF LoadSeq1NotUpdated
    <3>3. result'[r] = "not_updated" /\ written' = written
      BY <1>1, <3>2 DEF Return
    <3>4. Log!Return(r, "not_updated", << >>)
      BY <1>10, <3>2, <3>3
    <3>5. Log!NotUpdated(r)
      BY <1>4, <2>1, <3>1, <3>2, <3>3, <3>4 DEF Log!NotUpdated
    <3> QED
      BY <3>5 DEF Log!Next
  <2>2. CASE op[r] # "TryRead"
    <3>1. CallOf(r)' = CallOf(r)
      <4>1. rpc[r] # "idle" /\ rpc'[r] # "idle" /\ op'[r] = op[r] /\ result'[r] = result[r]
        BY <1>1, <1>12, <2>2 DEF LoadSeq1NotUpdated
      <4>2. result[r] = "none"
        BY <1>2, <4>1
      <4> QED
        BY <4>1, <4>2 DEF CallOf
    <3>2. \A x \in Readers \ {r} : CallOf(x)' = CallOf(x)
      BY <1>1, <1>3, <1>12, <2>2 DEF LoadSeq1NotUpdated
    <3>3. written' = written /\ reads' = reads
      BY <1>12, <2>2 DEF LoadSeq1NotUpdated
    <3> QED
      BY <3>1, <3>2, <3>3, NoCallMoves DEF Log!vars
  <2> QED
    BY <2>1, <2>2
<1>13. ASSUME NEW r \in Readers, CallUpdateIndexes(r)
       PROVE  Log!Next
  <2>1. CallOf(r)' = [busy |-> FALSE, op |-> op[r], result |-> "none", msg |-> << >>]
    BY <1>1, <1>13 DEF CallUpdateIndexes, CallOf
  <2>2. \A x \in Readers \ {r} : CallOf(x)' = CallOf(x)
    BY <1>1, <1>3, <1>13 DEF CallUpdateIndexes, DropMessage
  <2>3. /\ written' = written /\ rpc[r] = "idle" /\ op[r] = "TryRead" /\ result[r] = "current"
        /\ reads' = [reads EXCEPT ![r] = @ + 1]
    BY <1>13 DEF CallUpdateIndexes, UpdateIndexes
  <2>4. ReaderCall' = [ReaderCall EXCEPT ![r] =
                         [busy |-> FALSE, op |-> op[r], result |-> "none", msg |-> << >>]]
    BY <2>1, <2>2, OneCallMoves
  <2>5. Log!Return(r, "none", << >>)
    BY <1>4, <2>4 DEF Log!Return, Log!Done
  <2>6. Log!UpdateIndexes(r)
    BY <1>4, <2>3, <2>5 DEF Log!UpdateIndexes
  <2> QED
    BY <2>6 DEF Log!Next
<1>14. ASSUME NEW r \in Readers, NEW q \in Readers, CopyReader(r, q)
       PROVE  Log!Next
  <2>1. CallOf(r)' = [busy |-> FALSE, op |-> op[r], result |-> "none", msg |-> << >>]
    BY <1>1, <1>14 DEF CopyReader, CallOf
  <2>2. \A x \in Readers \ {r} : CallOf(x)' = CallOf(x)
    BY <1>1, <1>3, <1>14 DEF CopyReader, DropMessage
  <2>3. /\ written' = written /\ rpc[r] = "idle" /\ rpc[q] = "idle"
        /\ reads' = [reads EXCEPT ![r] = reads[q]]
    BY <1>14 DEF CopyReader
  <2>4. ReaderCall' = [ReaderCall EXCEPT ![r] =
                         [busy |-> FALSE, op |-> op[r], result |-> "none", msg |-> << >>]]
    BY <2>1, <2>2, OneCallMoves
  <2>5. Log!Return(r, "none", << >>)
    BY <1>4, <2>4 DEF Log!Return, Log!Done
  <2>6. Log!CopyReader(r, q)
    BY <1>4, <2>3, <2>5 DEF Log!CopyReader
  <2> QED
    BY <2>6 DEF Log!Next
<1>15. ASSUME NEW r \in Readers, NEW q \in Readers, SwapReaders(r, q)
       PROVE  Log!Next
  <2> DEFINE Reset(x) == [busy |-> FALSE, op |-> op[x], result |-> "none", msg |-> << >>]
  <2>1. CallOf(r)' = Reset(r)
    BY <1>1, <1>15 DEF SwapReaders, CallOf
  <2>2. CallOf(q)' = Reset(q)
    BY <1>1, <1>15 DEF SwapReaders, CallOf
  <2>3. \A x \in Readers \ {r, q} : CallOf(x)' = CallOf(x)
    BY <1>1, <1>3, <1>15 DEF SwapReaders
  <2>4. /\ written' = written /\ rpc[r] = "idle" /\ rpc[q] = "idle"
        /\ reads' = [reads EXCEPT ![r] = reads[q], ![q] = reads[r]]
    BY <1>15 DEF SwapReaders, Exchanged
  <2>5. Log!Done(r, "none", << >>) = Reset(r) /\ Log!Done(q, "none", << >>) = Reset(q)
    BY <1>4 DEF Log!Done
  <2> HIDE DEF Reset
  <2>6. ReaderCall' = [ReaderCall EXCEPT ![r] = Reset(r), ![q] = Reset(q)]
    <3>1. ReaderCall' = [x \in Readers |-> CallOf(x)']
      BY DEF ReaderCall, CallOf
    <3> QED
      BY <2>1, <2>2, <2>3, <3>1, CallsOfReaders
  <2>7. Log!SwapReaders(r, q)
    BY <1>4, <2>4, <2>5, <2>6 DEF Log!SwapReaders
  <2> QED
    BY <2>7 DEF Log!Next
<1>16. CASE UNCHANGED vars
  BY <1>16 DEF vars, Log!vars, ReaderCall
<1> QED
  BY <1>5, <1>6, <1>7, <1>8, <1>9, <1>11, <1>12, <1>13, <1>14, <1>15, <1>16
     DEF Next, WriterStep, ReaderStep

(* BoundedMulticastQueue implements the log its header describes: every    *)
(* Read and TryRead takes effect at one instant, and returns the message   *)
(* at the reader's position whole, or says rightly that it is not there    *)
(* yet or not there any more.                                              *)
THEOREM LogImplemented == Spec => ImplementsLog
<1>1. Init => Log!Init
  <2> SUFFICES ASSUME Init PROVE Log!Init
    OBVIOUS
  <2>1. \A r \in Readers :
          CallOf(r) = [busy |-> FALSE, op |-> "Read", result |-> "none", msg |-> << >>]
    BY DEF Init, CallOf
  <2>2. ReaderCall =
          [r \in Readers |-> [busy |-> FALSE, op |-> "Read", result |-> "none", msg |-> << >>]]
    BY <2>1, CallsOfReaders
  <2> QED
    BY <2>2 DEF Init, Log!Init
<1>2. IInv /\ [Next]_vars => [Log!Next]_(Log!vars)
  BY StepsRefine
<1> QED
  BY <1>1, <1>2, InvariantHolds, PTL DEF Spec, ImplementsLog, Log!Spec

=============================================================================
