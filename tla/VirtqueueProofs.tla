-------------------------- MODULE VirtqueueProofs ---------------------------
(***************************************************************************)
(* Proofs about Virtqueue, for every queue size and every width of the ring *)
(* indices the size divides.                                                *)
(***************************************************************************)
EXTENDS Virtqueue, FiniteSetTheorems, SequenceTheorems, TLAPS

\* How a leaf that names no prover is tried.
USE SMT, Zenon, SMTT(30)

-----------------------------------------------------------------------------
(* Arithmetic modulo a number that is not known.                            *)

\* Division with remainder.
LEMMA Division ==
  ASSUME NEW m \in Nat \ {0}, NEW x \in Int
  PROVE  /\ x \div m \in Int /\ x % m \in Nat /\ x % m < m
         /\ x = m * (x \div m) + (x % m)
<1>1. x \div m \in Int /\ x % m \in Int
  OBVIOUS
<1>2. x % m >= 0 /\ x % m < m
  OBVIOUS
<1>3. x = m * (x \div m) + (x % m)
  OBVIOUS
<1> QED BY <1>1, <1>2, <1>3

\* Quotient and remainder are unique.
LEMMA Remainder ==
  ASSUME NEW m \in Nat \ {0}, NEW k \in Int, NEW r \in Nat, r < m
  PROVE  (m * k + r) % m = r
<1> DEFINE x == m * k + r
           q == x \div m
           s == x % m
<1>1. x \in Int /\ m * k \in Int
  OBVIOUS
<1>2. q \in Int /\ s \in Nat /\ s < m /\ x = m * q + s
  BY <1>1, Division
<1>3. m * k + r = m * q + s
  BY <1>2
<1>4. m * (k - q) = s - r
  <2>1. m * (k - q) = m * k - m * q
    BY <1>2
  <2> QED BY <1>2, <1>3, <2>1
<1> HIDE DEF q, s, x
<1>5. ~(k - q >= 1)
  <2> SUFFICES ASSUME k - q >= 1 PROVE FALSE
    OBVIOUS
  <2>1. m * (k - q) >= m
    BY <1>2
  <2> QED BY <1>2, <1>4, <2>1
<1>6. ~(k - q <= -1)
  <2> SUFFICES ASSUME k - q <= -1 PROVE FALSE
    OBVIOUS
  <2>1. m * (k - q) <= -m
    BY <1>2
  <2> QED BY <1>2, <1>4, <2>1
<1>7. k = q
  BY <1>2, <1>5, <1>6
<1>8. r = s
  BY <1>2, <1>3, <1>7
<1> QED BY <1>8 DEF s, x

\* Adding a multiple of the modulus changes nothing.
LEMMA AddMultiple ==
  ASSUME NEW m \in Nat \ {0}, NEW x \in Int, NEW k \in Int
  PROVE  (x + m * k) % m = x % m
<1> DEFINE q == x \div m
           r == x % m
<1>1. q \in Int /\ r \in Nat /\ r < m /\ x = m * q + r
  BY Division
<1> HIDE DEF q, r
<1>2. x + m * k = m * (q + k) + r
  BY <1>1
<1>3. (m * (q + k) + r) % m = r
  BY <1>1, Remainder
<1> QED BY <1>2, <1>3 DEF r

\* Two numbers less than the modulus apart have different remainders.
LEMMA ApartModulo ==
  ASSUME NEW m \in Nat \ {0}, NEW x \in Int, NEW y \in Int, x < y, y - x < m
  PROVE  x % m # y % m
<1> DEFINE p == x \div m
           q == y \div m
           r == x % m
           s == y % m
<1> SUFFICES ASSUME r = s PROVE FALSE
  OBVIOUS
<1>1. p \in Int /\ r \in Nat /\ x = m * p + r
  BY Division
<1>2. q \in Int /\ s \in Nat /\ y = m * q + s
  BY Division
<1> HIDE DEF p, q, r, s
<1>3. y - x = m * (q - p)
  BY <1>1, <1>2
<1>4. q - p >= 1
  BY <1>1, <1>2, <1>3
<1>5. m * (q - p) >= m
  BY <1>1, <1>2, <1>4
<1> QED BY <1>3, <1>5

-----------------------------------------------------------------------------
(* A ring index is the low bits of a position: the number of entries there  *)
(* have been since the reset.                                               *)

\* Indices count positions: wrapping_add(1) is the index of the next one.
LEMMA IndexOf ==
  ASSUME NEW x \in Nat, NEW k \in Nat
  PROVE  /\ x % IdxMod \in Index
         /\ ((x % IdxMod) + k) % IdxMod = (x + k) % IdxMod
         /\ Succ(x % IdxMod) = (x + 1) % IdxMod
<1> DEFINE q == x \div IdxMod
           r == x % IdxMod
<1>0. IdxMod \in Nat \ {0}
  BY VirtqueueAssumption
<1>1. q \in Int /\ r \in Nat /\ r < IdxMod /\ x = IdxMod * q + r
  BY <1>0, Division
<1>2. r \in Index
  BY <1>0, <1>1 DEF Index
<1> HIDE DEF q, r
<1>3. ASSUME NEW j \in Nat PROVE (r + j) % IdxMod = (x + j) % IdxMod
  <2>0. r + j \in Int
    BY <1>1
  <2>1. ((r + j) + IdxMod * q) % IdxMod = (r + j) % IdxMod
    BY <1>0, <1>1, <2>0, AddMultiple, Zenon
  <2> DEFINE t == IdxMod * q
  <2>2. t \in Int /\ x = t + r
    BY <1>0, <1>1
  <2> HIDE DEF t
  <2>3. (r + j) + t = x + j
    BY <1>1, <2>2
  <2>4. ((r + j) + t) % IdxMod = (r + j) % IdxMod
    BY <2>1 DEF t
  <2> QED BY <2>3, <2>4
<1>4. (r + 1) % IdxMod = (x + 1) % IdxMod
  BY <1>3
<1> QED BY <1>2, <1>3, <1>4 DEF r, Succ

\* The slot of an index is the slot of its position, because the queue size
\* divides the number of indices.
LEMMA SlotOf ==
  ASSUME NEW x \in Nat
  PROVE  Slot(x % IdxMod) = x % QueueSize /\ x % QueueSize \in Slots
<1> DEFINE q == x \div IdxMod
           r == x % IdxMod
           c == IdxMod \div QueueSize
<1>0. IdxMod \in Nat \ {0} /\ QueueSize \in Nat \ {0} /\ IdxMod % QueueSize = 0
  BY VirtqueueAssumption
<1>1. q \in Int /\ r \in Nat /\ x = IdxMod * q + r
  BY <1>0, Division
<1>2. c \in Int /\ IdxMod = QueueSize * c
  BY <1>0, Division
<1>3. x % QueueSize \in Slots
  BY <1>0, Division DEF Slots
<1> HIDE DEF q, r, c
<1> DEFINE n == c * q
<1>4. n \in Int /\ x = r + QueueSize * n
  <2>1. n \in Int
    BY <1>1, <1>2
  <2>2. IdxMod * q = (QueueSize * c) * q
    BY <1>2
  <2>3. (QueueSize * c) * q = QueueSize * n
    BY <1>0, <1>1, <1>2
  <2> DEFINE t == IdxMod * q
             u == QueueSize * n
  <2>4. t = u /\ t \in Int /\ x = t + r
    BY <1>0, <1>1, <2>2, <2>3
  <2> HIDE DEF t, u, n
  <2>5. x = r + u
    BY <1>1, <2>4
  <2> QED BY <2>1, <2>5, Zenon DEF u
<1> HIDE DEF n
<1>5. (r + QueueSize * n) % QueueSize = r % QueueSize
  <2>1. r \in Int
    BY <1>1
  <2> QED BY <1>0, <1>4, <2>1, AddMultiple, Zenon
<1> QED BY <1>3, <1>4, <1>5 DEF Slot, r

\* The wrapped difference of two indices is the distance of their positions.
LEMMA Distance ==
  ASSUME NEW x \in Nat, NEW y \in Nat, x <= y, y <= x + QueueSize
  PROVE  ((y % IdxMod) - (x % IdxMod)) % IdxMod = y - x
<1> DEFINE p == x \div IdxMod
           q == y \div IdxMod
           r == x % IdxMod
           s == y % IdxMod
<1>0. IdxMod \in Nat \ {0} /\ QueueSize \in Nat /\ IdxMod > QueueSize
  BY VirtqueueAssumption
<1>1. p \in Int /\ r \in Nat /\ x = IdxMod * p + r
  BY <1>0, Division
<1>2. q \in Int /\ s \in Nat /\ y = IdxMod * q + s
  BY <1>0, Division
<1> HIDE DEF p, q, r, s
<1>3. s - r \in Int /\ q - p \in Int /\ (s - r) + IdxMod * (q - p) = y - x
  BY <1>0, <1>1, <1>2
<1>4. ((s - r) + IdxMod * (q - p)) % IdxMod = (s - r) % IdxMod
  BY <1>0, <1>3, AddMultiple, Zenon
<1>5. y - x \in Nat /\ y - x < IdxMod
  BY <1>0
<1>6. (IdxMod * 0 + (y - x)) % IdxMod = y - x
  BY <1>0, <1>5, Remainder
<1>7. IdxMod * 0 + (y - x) = y - x
  BY <1>0
<1> QED BY <1>3, <1>4, <1>6, <1>7 DEF r, s

-----------------------------------------------------------------------------
(* The entries of a ring at the positions from a up to b.                   *)

Rings == [Slots -> Heads]

Stretch(ring, a, b) == [i \in 1..(b - a) |-> ring[(a + i - 1) % QueueSize]]

\* What Window reads through wrapped indices.
LEMMA WindowIsStretch ==
  ASSUME NEW ring, NEW a \in Nat, NEW b \in Nat, a <= b, b <= a + QueueSize
  PROVE  Window(ring, a % IdxMod, b % IdxMod) = Stretch(ring, a, b)
<1>1. ((b % IdxMod) - (a % IdxMod)) % IdxMod = b - a
  BY Distance
<1>2. ASSUME NEW i \in 1..(b - a)
      PROVE  Slot(((a % IdxMod) + i - 1) % IdxMod) = (a + i - 1) % QueueSize
  <2> DEFINE k == i - 1
  <2>1. k \in Nat /\ a + k \in Nat
    OBVIOUS
  <2>2. ((a % IdxMod) + k) % IdxMod = (a + k) % IdxMod
    BY <2>1, IndexOf
  <2>3. Slot((a + k) % IdxMod) = (a + k) % QueueSize
    BY <2>1, SlotOf
  <2>4. a % IdxMod \in Int
    BY VirtqueueAssumption, Division
  <2>5. (a % IdxMod) + i - 1 = (a % IdxMod) + k /\ a + i - 1 = a + k
    BY <2>4
  <2> QED BY <2>2, <2>3, <2>5
<1> QED BY <1>1, <1>2 DEF Window, Stretch

\* A stretch is a sequence of heads, as long as the distance it covers.
LEMMA StretchIsSeq ==
  ASSUME NEW ring \in Rings, NEW a \in Nat, NEW b \in Nat, a <= b
  PROVE  /\ Stretch(ring, a, b) \in Seq(Heads)
         /\ Len(Stretch(ring, a, b)) = b - a
         /\ \A i \in 1..(b - a) :
              Stretch(ring, a, b)[i] = ring[(a + i - 1) % QueueSize]
         /\ \A x \in Nat : ring[x % QueueSize] \in Heads
<1>1. ASSUME NEW x \in Nat PROVE ring[x % QueueSize] \in Heads
  BY SlotOf DEF Rings
<1>2. b - a \in Nat
  OBVIOUS
<1>3. ASSUME NEW i \in 1..(b - a) PROVE ring[(a + i - 1) % QueueSize] \in Heads
  <2>1. a + i - 1 \in Nat
    OBVIOUS
  <2> QED BY <1>1, <2>1
<1>4. Stretch(ring, a, b) \in [1..(b - a) -> Heads]
  BY <1>3 DEF Stretch
<1>5. Stretch(ring, a, b) \in Seq(Heads) /\ Len(Stretch(ring, a, b)) = b - a
  BY <1>2, <1>4, SeqDef, LenProperties
<1> QED BY <1>1, <1>5 DEF Stretch

\* Nothing lies between a position and itself.
LEMMA EmptyStretch ==
  ASSUME NEW ring \in Rings, NEW a \in Nat
  PROVE  Stretch(ring, a, a) = <<>>
<1>1. Stretch(ring, a, a) \in Seq(Heads) /\ Len(Stretch(ring, a, a)) = 0
  BY StretchIsSeq
<1> QED BY <1>1, EmptySeq

\* Stretches that agree at every position are equal.
LEMMA SameStretch ==
  ASSUME NEW r1 \in Rings, NEW r2 \in Rings,
         NEW a \in Nat, NEW b \in Nat,
         \A x \in Nat : a <= x /\ x < b => r1[x % QueueSize] = r2[x % QueueSize]
  PROVE  Stretch(r1, a, b) = Stretch(r2, a, b)
<1>1. ASSUME NEW i \in 1..(b - a)
      PROVE  r1[(a + i - 1) % QueueSize] = r2[(a + i - 1) % QueueSize]
  <2>1. a + i - 1 \in Nat /\ a <= a + i - 1 /\ a + i - 1 < b
    OBVIOUS
  <2> QED BY <2>1
<1> QED BY <1>1 DEF Stretch

\* The slots of positions less than the queue size apart are different.
LEMMA OtherSlot ==
  ASSUME NEW x \in Nat, NEW y \in Nat, x # y, x < y + QueueSize, y < x + QueueSize
  PROVE  x % QueueSize # y % QueueSize
<1>1. QueueSize \in Nat \ {0}
  BY VirtqueueAssumption
<1>2. x \in Int /\ y \in Int
  OBVIOUS
<1>3. \/ x < y /\ y - x < QueueSize
      \/ y < x /\ x - y < QueueSize
  BY <1>1
<1> QED BY <1>1, <1>2, <1>3, ApartModulo, Zenon

Put(ring, b, h) == [ring EXCEPT ![b % QueueSize] = h]

\* Writing the slot of a position leaves those less than the queue size away.
LEMMA WriteSlot ==
  ASSUME NEW ring \in Rings, NEW b \in Nat, NEW h \in Heads
  PROVE  /\ Put(ring, b, h) \in Rings /\ Put(ring, b, h)[b % QueueSize] = h
         /\ \A x \in Nat : x # b /\ x < b + QueueSize /\ b < x + QueueSize =>
              Put(ring, b, h)[x % QueueSize] = ring[x % QueueSize]
<1> DEFINE new == Put(ring, b, h)
<1>1. b % QueueSize \in Slots
  BY SlotOf
<1>2. new \in Rings /\ new[b % QueueSize] = h
  BY <1>1 DEF Put, Rings
<1>3. ASSUME NEW x \in Nat, x # b, x < b + QueueSize, b < x + QueueSize
      PROVE  new[x % QueueSize] = ring[x % QueueSize]
  <2>1. x % QueueSize \in Slots /\ x % QueueSize # b % QueueSize
    BY <1>3, SlotOf, OtherSlot
  <2> QED BY <1>1, <2>1 DEF Put, Rings
<1> QED BY <1>2, <1>3

\* Writing the entry at b puts it at the end of the stretch up to b + 1.
LEMMA StretchAppend ==
  ASSUME NEW ring \in Rings, NEW a \in Nat, NEW b \in Nat, a <= b,
         b < a + QueueSize, NEW new \in Rings,
         \A x \in Nat : x # b /\ x < b + QueueSize /\ b < x + QueueSize =>
           new[x % QueueSize] = ring[x % QueueSize]
  PROVE  Stretch(new, a, b + 1) = Append(Stretch(ring, a, b), new[b % QueueSize])
<1> DEFINE h == new[b % QueueSize]
<1>0. h \in Heads
  BY SlotOf DEF Rings
<1> HIDE DEF h
<1> DEFINE s == Stretch(ring, a, b)
           u == Stretch(new, a, b + 1)
<1>1. s \in Seq(Heads) /\ Len(s) = b - a
      /\ \A i \in 1..(b - a) : s[i] = ring[(a + i - 1) % QueueSize]
  BY StretchIsSeq, ZenonT(40)
<1>2. u \in Seq(Heads) /\ Len(u) = b - a + 1
      /\ \A i \in 1..(b - a + 1) : u[i] = new[(a + i - 1) % QueueSize]
  <2> DEFINE e == b + 1
  <2>1. e \in Nat /\ a <= e /\ e - a = b - a + 1 /\ u = Stretch(new, a, e)
    OBVIOUS
  <2> HIDE DEF e, u
  <2>2. /\ Stretch(new, a, e) \in Seq(Heads) /\ Len(Stretch(new, a, e)) = e - a
        /\ \A i \in 1..(e - a) :
             Stretch(new, a, e)[i] = new[(a + i - 1) % QueueSize]
    BY <2>1, StretchIsSeq, Zenon
  <2> QED BY <2>1, <2>2, Zenon
<1> HIDE DEF s, u
<1>3. /\ Append(s, h) \in Seq(Heads) /\ Len(Append(s, h)) = b - a + 1
      /\ \A i \in 1..(b - a) : Append(s, h)[i] = s[i]
      /\ Append(s, h)[b - a + 1] = h
  BY <1>0, <1>1, AppendProperties
<1>4. ASSUME NEW i \in 1..(b - a + 1) PROVE u[i] = Append(s, h)[i]
  <2>1. CASE i = b - a + 1
    <3>1. a + i - 1 = b
      BY <2>1
    <3> QED BY <1>2, <1>3, <2>1, <3>1 DEF h
  <2>2. CASE i # b - a + 1
    <3> DEFINE x == a + i - 1
    <3>1. i \in 1..(b - a) /\ x \in Nat /\ x # b /\ x < b + QueueSize
          /\ b < x + QueueSize
      BY <2>2, VirtqueueAssumption
    <3>2. new[x % QueueSize] = ring[x % QueueSize]
      BY <3>1
    <3> QED BY <1>1, <1>2, <1>3, <3>1, <3>2
  <2> QED BY <2>1, <2>2, Zenon
<1>5. u = Append(s, h)
  BY <1>2, <1>3, <1>4, SeqEqual
<1> QED BY <1>5 DEF s, u, h

\* A stretch that is not empty starts with the entry at its first position.
LEMMA StretchTail ==
  ASSUME NEW ring \in Rings, NEW a \in Nat, NEW b \in Nat, a < b
  PROVE  /\ Stretch(ring, a, b) # <<>>
         /\ Head(Stretch(ring, a, b)) = ring[a % QueueSize]
         /\ Tail(Stretch(ring, a, b)) = Stretch(ring, a + 1, b)
<1> DEFINE s == Stretch(ring, a, b)
           c == a + 1
           u == Stretch(ring, c, b)
<1>0. a <= b /\ c \in Nat /\ c <= b /\ b - c = b - a - 1
  OBVIOUS
<1>1. s \in Seq(Heads) /\ Len(s) = b - a
      /\ \A i \in 1..(b - a) : s[i] = ring[(a + i - 1) % QueueSize]
  BY <1>0, StretchIsSeq, ZenonT(40)
<1> HIDE DEF c
<1>2. u \in Seq(Heads) /\ Len(u) = b - c
      /\ \A i \in 1..(b - c) : u[i] = ring[(c + i - 1) % QueueSize]
  BY <1>0, StretchIsSeq, ZenonT(40)
<1> HIDE DEF s, u
<1>3. s # <<>> /\ Len(s) # 0
  BY <1>1, EmptySeq
<1>4. Head(s) = s[1]
  BY <1>1, <1>3
<1>5. s[1] = ring[a % QueueSize]
  <2>1. a + 1 - 1 = a /\ 1 \in 1..(b - a)
    OBVIOUS
  <2> QED BY <1>1, <2>1
<1> DEFINE w == Tail(s)
<1>6. w \in Seq(Heads) /\ Len(w) = Len(s) - 1
      /\ \A i \in 1..Len(w) : w[i] = s[i + 1]
  BY <1>1, <1>3, HeadTailProperties, Zenon
<1> HIDE DEF w
<1>7. Len(w) = b - c
  BY <1>0, <1>1, <1>6
<1>8. ASSUME NEW i \in 1..(b - c) PROVE u[i] = w[i]
  <2>1. i + 1 \in 1..(b - a) /\ a + (i + 1) - 1 = c + i - 1
    BY <1>0 DEF c
  <2>2. w[i] = s[i + 1]
    BY <1>6, <1>7
  <2> QED BY <1>1, <1>2, <2>1, <2>2, ZenonT(40)
<1>9. u = w
  BY <1>2, <1>6, <1>7, <1>8, SeqEqual
<1> QED BY <1>3, <1>4, <1>5, <1>9 DEF s, u, c, w

First(s, n) == SubSeq(s, 1, n)
After(s, n) == SubSeq(s, n + 1, Len(s))

\* A stretch splits at any position in it.
LEMMA StretchSplit ==
  ASSUME NEW ring \in Rings, NEW a \in Nat, NEW m \in Nat, NEW b \in Nat,
         a <= m, m <= b
  PROVE  /\ Stretch(ring, a, b) = Stretch(ring, a, m) \o Stretch(ring, m, b)
         /\ Stretch(ring, a, m) = First(Stretch(ring, a, b), m - a)
         /\ Stretch(ring, m, b) = After(Stretch(ring, a, b), m - a)
<1> DEFINE s == Stretch(ring, a, b)
           u == Stretch(ring, a, m)
           v == Stretch(ring, m, b)
<1>0. a <= b
  OBVIOUS
<1>1. s \in Seq(Heads) /\ Len(s) = b - a
      /\ \A i \in 1..(b - a) : s[i] = ring[(a + i - 1) % QueueSize]
  BY <1>0, StretchIsSeq, Zenon
<1>2. u \in Seq(Heads) /\ Len(u) = m - a
      /\ \A i \in 1..(m - a) : u[i] = ring[(a + i - 1) % QueueSize]
  BY StretchIsSeq, Zenon
<1>3. v \in Seq(Heads) /\ Len(v) = b - m
      /\ \A i \in 1..(b - m) : v[i] = ring[(m + i - 1) % QueueSize]
  BY StretchIsSeq, ZenonT(40)
<1> HIDE DEF s, u, v
<1>4. \A i \in 1..(m - a) : u[i] = s[i]
  <2>1. \A i \in 1..(m - a) : i \in 1..(b - a)
    OBVIOUS
  <2> QED BY <1>1, <1>2, <2>1, Zenon
<1>5. \A i \in 1..(b - m) : v[i] = s[m - a + i]
  <2> SUFFICES ASSUME NEW i \in 1..(b - m) PROVE v[i] = s[m - a + i]
    OBVIOUS
  <2>1. m - a + i \in 1..(b - a) /\ a + (m - a + i) - 1 = m + i - 1
    OBVIOUS
  <2> QED BY <1>1, <1>3, <2>1
<1>6. s = u \o v
  <2> DEFINE w == u \o v
  <2>1. /\ w \in Seq(Heads) /\ Len(w) = Len(u) + Len(v)
        /\ \A i \in 1..(Len(u) + Len(v)) :
             w[i] = IF i <= Len(u) THEN u[i] ELSE v[i - Len(u)]
    BY <1>2, <1>3, ConcatProperties, Zenon
  <2> HIDE DEF w
  <2>2. Len(w) = b - a
        /\ \A i \in 1..(b - a) : w[i] = IF i <= m - a THEN u[i] ELSE v[i - (m - a)]
    <3>1. Len(u) + Len(v) = b - a
      BY <1>2, <1>3
    <3> QED BY <1>2, <2>1, <3>1
  <2>3. ASSUME NEW i \in 1..(b - a) PROVE s[i] = w[i]
    <3>1. CASE i <= m - a
      BY <1>4, <2>2, <3>1
    <3>2. CASE i > m - a
      <4>1. i - (m - a) \in 1..(b - m) /\ m - a + (i - (m - a)) = i
        BY <3>2
      <4> QED BY <1>5, <2>2, <3>2, <4>1
    <3> QED BY <3>1, <3>2
  <2>4. s = w
    BY <1>1, <2>1, <2>2, <2>3, SeqEqual
  <2> QED BY <2>4 DEF w
<1>7. u = SubSeq(s, 1, m - a)
  <2> DEFINE w == SubSeq(s, 1, m - a)
  <2>1. \A i \in 1..(m - a) : s[i] \in Heads
    BY <1>1, ElementOfSeq
  <2>2. w \in Seq(Heads) /\ Len(w) = m - a /\ \A i \in 1..(m - a) : w[i] = s[i]
    BY <2>1, SubSeqProperties
  <2> HIDE DEF w
  <2>3. u = w
    BY <1>2, <1>4, <2>2, SeqEqual, ZenonT(40)
  <2> QED BY <2>3 DEF w
<1>8. v = SubSeq(s, m - a + 1, b - a)
  <2> DEFINE w == SubSeq(s, m - a + 1, b - a)
  <2>1. \A i \in (m - a + 1)..(b - a) : s[i] \in Heads
    BY <1>1, ElementOfSeq
  <2>2. w \in Seq(Heads) /\ Len(w) = b - m /\ \A i \in 1..(b - m) : w[i] = s[m - a + i]
    BY <2>1, SubSeqProperties
  <2> HIDE DEF w
  <2>3. v = w
    BY <1>3, <1>5, <2>2, SeqEqual
  <2> QED BY <2>3 DEF w
<1>9. u = First(s, m - a) /\ v = After(s, m - a)
  BY <1>1, <1>7, <1>8, Zenon DEF First, After
<1> QED BY <1>6, <1>9, Zenon DEF s, u, v

-----------------------------------------------------------------------------
(* The inductive invariant: the four ring indices are those of positions    *)
(* S <= U <= L <= A, at most a queue apart.                                 *)

Types ==
  /\ availRing \in Rings /\ usedRing \in Rings
  /\ free \subseteq Heads
  /\ pc \in {"idle", "loop", "head", "raise"} /\ processed \in BOOLEAN

\* The request at position x: returned in the used ring before U, still in the
\* available ring from there on.
Entry(x, U) == IF x < U THEN usedRing[x % QueueSize] ELSE availRing[x % QueueSize]

\* The driver has looked at S entries and offered A; the device has published U
\* and filled in L.
Indices(S, U, L, A) ==
  /\ S <= U /\ U <= L /\ L <= A /\ A <= S + QueueSize
  /\ seen = S % IdxMod /\ usedIdx = U % IdxMod
  /\ lastAvailIdx = L % IdxMod /\ availIdx = A % IdxMod

\* The outstanding requests are different, none of them is free, and every other
\* one is.
Outstanding(S, U, A) ==
  /\ IsFiniteSet(free) /\ Cardinality(free) = QueueSize - (A - S)
  /\ \A x \in Nat : S <= x /\ x < A => Entry(x, U) \notin free
  /\ \A x, y \in Nat : S <= x /\ x < y /\ y < A => Entry(x, U) # Entry(y, U)

\* What process has filled in is what was offered; outside it nothing is left
\* unpublished; its snapshot is a position no further than the driver's.
Processing(U, L, A) ==
  /\ \A x \in Nat : U <= x /\ x < L => usedRing[x % QueueSize] = availRing[x % QueueSize]
  /\ pc \in {"idle", "raise"} \/ processed = FALSE => U = L
  /\ pc \in {"loop", "head"} =>
       \E N \in Nat : /\ L <= N /\ N <= A /\ snapshot = N % IdxMod
                      /\ pc = "head" => L < N
  /\ pc = "head" => head = availRing[L % QueueSize]

Positions(S, U, L, A) ==
  Indices(S, U, L, A) /\ Outstanding(S, U, A) /\ Processing(U, L, A)

VirtqueueInv == Types /\ \E S, U, L, A \in Nat : Positions(S, U, L, A)

\* The driver publishes a head: the request joins the outstanding ones.
LEMMA SubmitKeeps ==
  ASSUME Types, NEW S \in Nat, NEW U \in Nat, NEW L \in Nat, NEW A \in Nat,
         Positions(S, U, L, A), NEW h \in Heads, Submit(h)
  PROVE  Types' /\ Positions(S, U, L, A + 1)' /\ Queue!Submit(h)
<1>0. /\ S <= U /\ U <= L /\ L <= A /\ A <= S + QueueSize /\ QueueSize \in Nat \ {0}
      /\ A + 1 \in Nat
  BY VirtqueueAssumption DEF Positions, Indices
<1>1. /\ IsFiniteSet(free') /\ Cardinality(free') = QueueSize - (A + 1 - S)
      /\ A < S + QueueSize
  <2>1. h \in free /\ free' = free \ {h} /\ IsFiniteSet(free)
        /\ Cardinality(free) = QueueSize - (A - S)
    BY DEF Submit, Positions, Outstanding
  <2>2. IsFiniteSet(free') /\ Cardinality(free') = Cardinality(free) - 1
    BY <2>1, FS_RemoveElement
  <2>3. Cardinality(free') \in Nat
    BY <2>2, FS_CardinalityType
  <2> QED BY <1>0, <2>1, <2>2, <2>3
<1>2. /\ availIdx' = (A + 1) % IdxMod
      /\ availRing' = Put(availRing, A, h)
  BY IndexOf, SlotOf, ZenonT(40) DEF Put, Submit, Positions, Indices
<1>3. /\ availRing' \in Rings /\ availRing'[A % QueueSize] = h
      /\ \A x \in Nat : x # A /\ x < A + QueueSize /\ A < x + QueueSize =>
           availRing'[x % QueueSize] = availRing[x % QueueSize]
  <2>1. availRing \in Rings
    BY DEF Types
  <2>2. Put(availRing, A, h) \in Rings
    BY <2>1, WriteSlot
  <2>3. Put(availRing, A, h)[A % QueueSize] = h
    BY <2>1, WriteSlot
  <2>4. \A x \in Nat : x # A /\ x < A + QueueSize /\ A < x + QueueSize =>
           Put(availRing, A, h)[x % QueueSize] = availRing[x % QueueSize]
    BY <2>1, WriteSlot
  <2> QED BY <1>2, <2>2, <2>3, <2>4
<1>4. \A x \in Nat : S <= x /\ x < A => availRing'[x % QueueSize] = availRing[x % QueueSize]
  <2>1. \A x \in Nat : S <= x /\ x < A => x # A /\ x < A + QueueSize /\ A < x + QueueSize
    BY <1>0, <1>1
  <2> QED BY <1>3, <2>1, Zenon
<1>5. h \in free /\ free' = free \ {h} /\ owesNotify' = TRUE
      /\ UNCHANGED <<usedRing, usedIdx, ready, lastAvailIdx, locals, irq, seen, inIsr>>
  BY DEF Submit
<1>6. Types'
  BY <1>3, <1>5 DEF Types, locals
<1>7. Indices(S, U, L, A + 1)'
  BY <1>0, <1>1, <1>2, <1>5 DEF Positions, Indices
<1>8. Outstanding(S, U, A + 1)'
  <2>1. \A x \in Nat : S <= x /\ x < A => Entry(x, U)' = Entry(x, U)
    BY <1>4, <1>5, Zenon DEF Entry
  <2>2. Entry(A, U)' = h
    BY <1>0, <1>3 DEF Entry
  <2>3. \A x \in Nat : x < A + 1 <=> x < A \/ x = A
    BY <1>0
  <2>4. \A x \in Nat : S <= x /\ x < A => Entry(x, U) \notin free
    BY DEF Positions, Outstanding
  <2>5. ASSUME NEW x \in Nat, S <= x, x < A + 1 PROVE Entry(x, U)' \notin free'
    BY <1>5, <2>1, <2>2, <2>3, <2>4, <2>5, ZenonT(40)
  <2>6. ASSUME NEW x \in Nat, NEW y \in Nat, S <= x, x < y, y < A + 1
        PROVE  Entry(x, U)' # Entry(y, U)'
    <3>1. x < A /\ S <= y
      BY <2>6, <1>0
    <3>2. CASE y = A
      BY <1>5, <2>1, <2>2, <2>4, <2>6, <3>1, <3>2, ZenonT(40)
    <3>3. CASE y < A
      BY <2>1, <2>6, <3>1, <3>3, Zenon DEF Positions, Outstanding
    <3> QED BY <2>3, <2>6, <3>2, <3>3, Zenon
  <2> QED BY <1>1, <2>5, <2>6 DEF Outstanding
<1>9. Processing(U, L, A + 1)'
  <2>1. Processing(U, L, A)
    BY DEF Positions
  <2>2. \A x \in Nat : U <= x /\ x < L => S <= x /\ x < A
    BY <1>0
  <2>3. UNCHANGED <<usedRing, pc, processed, snapshot, head>>
    BY <1>5 DEF locals
  <2>4. pc = "head" => L < A
    BY <1>0, <2>1 DEF Processing
  <2>5. \A N \in Nat : N <= A => N <= A + 1
    BY <1>0
  <2>6. (\A x \in Nat : U <= x /\ x < L => usedRing[x % QueueSize] = availRing[x % QueueSize])'
    BY <1>4, <2>1, <2>2, <2>3, Zenon DEF Processing
  <2>7. (pc = "head" => head = availRing[L % QueueSize])'
    BY <1>0, <1>4, <2>1, <2>3, <2>4 DEF Processing
  <2> QED BY <2>1, <2>3, <2>5, <2>6, <2>7, Zenon DEF Processing
<1>10. Queue!Submit(h)
  <2>1. Window(availRing, usedIdx, availIdx) = Stretch(availRing, U, A)
    BY <1>0, WindowIsStretch DEF Positions, Indices
  <2>2. Window(availRing, usedIdx, availIdx)' = Stretch(availRing', U, A + 1)
    BY <1>0, <1>1, <1>7, WindowIsStretch DEF Indices
  <2>3. Stretch(availRing', U, A + 1) = Append(Stretch(availRing, U, A), h)
    <3>1. U <= A /\ A < U + QueueSize /\ availRing \in Rings
      BY <1>0, <1>1 DEF Types
    <3>2. Stretch(availRing', U, A + 1)
            = Append(Stretch(availRing, U, A), availRing'[A % QueueSize])
      BY <1>3, <3>1, StretchAppend, ZenonT(40)
    <3> QED BY <1>3, <3>2, Zenon
  <2>4. UNCHANGED Window(usedRing, seen, usedIdx)
    BY <1>5 DEF Window
  <2> QED BY <1>5, <2>1, <2>2, <2>3, <2>4 DEF Queue!Submit
<1> QED BY <1>6, <1>7, <1>8, <1>9, <1>10 DEF Positions

\* The driver's handler takes the oldest used entry: it is free again.
LEMMA ConsumeKeeps ==
  ASSUME Types, NEW S \in Nat, NEW U \in Nat, NEW L \in Nat, NEW A \in Nat,
         Positions(S, U, L, A), Consume
  PROVE  Types' /\ Positions(S + 1, U, L, A)' /\ Queue!Consume
<1>0. /\ S <= U /\ U <= L /\ L <= A /\ A <= S + QueueSize /\ QueueSize \in Nat \ {0}
      /\ S + 1 \in Nat
  BY VirtqueueAssumption DEF Positions, Indices
<1>1. /\ seen = S % IdxMod /\ usedIdx = U % IdxMod /\ seen' = (S + 1) % IdxMod
      /\ free' = free \union {usedRing[S % QueueSize]} /\ seen # usedIdx
      /\ UNCHANGED <<rings, ready, lastAvailIdx, locals, irq, inIsr, owesNotify>>
  BY IndexOf, SlotOf, ZenonT(40) DEF Consume, Positions, Indices
<1>2. S < U
  BY <1>0, <1>1
<1>3. Entry(S, U) = usedRing[S % QueueSize]
  BY <1>2 DEF Entry
<1>4. \A x \in Nat : S <= x /\ x < A => Entry(x, U) \notin free
  BY DEF Positions, Outstanding
<1>5. usedRing[S % QueueSize] \notin free
  BY <1>0, <1>2, <1>3, <1>4
<1>6. IsFiniteSet(free') /\ Cardinality(free') = QueueSize - (A - (S + 1))
  <2>1. IsFiniteSet(free) /\ Cardinality(free) = QueueSize - (A - S)
    BY DEF Positions, Outstanding
  <2>2. IsFiniteSet(free') /\ Cardinality(free') = Cardinality(free) + 1
    BY <1>1, <1>5, <2>1, FS_AddElement, ZenonT(40)
  <2> QED BY <1>0, <2>1, <2>2
<1>7. Types'
  <2>1. usedRing[S % QueueSize] \in Heads
    BY SlotOf DEF Types, Rings
  <2> QED BY <1>1, <2>1 DEF Types, rings, locals
<1>8. Indices(S + 1, U, L, A)'
  BY <1>0, <1>1, <1>2 DEF Positions, Indices, rings
<1>9. Outstanding(S + 1, U, A)'
  <2>1. \A x \in Nat : Entry(x, U)' = Entry(x, U)
    BY <1>1, Zenon DEF Entry, rings
  <2>2. \A x \in Nat : S + 1 <= x => S <= x /\ S < x
    BY <1>0
  <2>3. \A x, y \in Nat : S <= x /\ x < y /\ y < A => Entry(x, U) # Entry(y, U)
    BY DEF Positions, Outstanding
  <2>4. S <= S
    BY <1>0
  <2>5. ASSUME NEW x \in Nat, S + 1 <= x, x < A PROVE Entry(x, U)' \notin free'
    <3>1. Entry(x, U) \notin free
      BY <1>4, <2>2, <2>5, Zenon
    <3>2. Entry(x, U) # Entry(S, U)
      BY <2>2, <2>3, <2>4, <2>5, Zenon
    <3> QED BY <1>1, <1>3, <2>1, <3>1, <3>2, ZenonT(40)
  <2>6. ASSUME NEW x \in Nat, NEW y \in Nat, S + 1 <= x, x < y, y < A
        PROVE  Entry(x, U)' # Entry(y, U)'
    BY <2>1, <2>2, <2>3, <2>6, Zenon
  <2> QED BY <1>6, <2>5, <2>6 DEF Outstanding
<1>10. Processing(U, L, A)'
  BY <1>1, Zenon DEF Positions, Processing, rings, locals
<1>11. Queue!Consume
  <2>1. Window(usedRing, seen, usedIdx) = Stretch(usedRing, S, U)
    BY <1>0, <1>1, WindowIsStretch
  <2>2. Window(usedRing, seen, usedIdx)' = Stretch(usedRing, S + 1, U)
    <3>1. usedRing' = usedRing /\ usedIdx' = usedIdx
      BY <1>1 DEF rings
    <3>2. S + 1 <= U /\ U <= S + 1 + QueueSize
      BY <1>0, <1>2
    <3> QED BY <1>0, <1>1, <3>1, <3>2, WindowIsStretch
  <2>3. /\ Stretch(usedRing, S, U) # <<>>
        /\ Head(Stretch(usedRing, S, U)) = usedRing[S % QueueSize]
        /\ Tail(Stretch(usedRing, S, U)) = Stretch(usedRing, S + 1, U)
    BY <1>2, StretchTail DEF Types
  <2>4. UNCHANGED Window(availRing, usedIdx, availIdx)
    BY <1>1 DEF Window, rings
  <2> QED BY <1>1, <2>1, <2>2, <2>3, <2>4, ZenonT(40) DEF Queue!Consume
<1> QED BY <1>7, <1>8, <1>9, <1>10, <1>11 DEF Positions

\* process fills in a used entry and moves on; the driver sees nothing of it yet.
LEMMA CompleteChainKeeps ==
  ASSUME Types, NEW S \in Nat, NEW U \in Nat, NEW L \in Nat, NEW A \in Nat,
         Positions(S, U, L, A), CompleteChain
  PROVE  Types' /\ Positions(S, U, L + 1, A)' /\ UNCHANGED Queue!vars
<1>0. /\ S <= U /\ U <= L /\ L <= A /\ A <= S + QueueSize /\ QueueSize \in Nat \ {0}
      /\ L + 1 \in Nat
  BY VirtqueueAssumption DEF Positions, Indices
<1>1. pc = "head" /\ pc' = "loop" /\ processed' = TRUE
      /\ UNCHANGED <<availRing, availIdx, usedIdx, ready, snapshot, irq, driver>>
  BY DEF CompleteChain
<1>2. PICK N \in Nat : L < N /\ N <= A /\ snapshot = N % IdxMod
  BY <1>1 DEF Positions, Processing
<1>3. head = availRing[L % QueueSize] /\ head \in Heads
  BY <1>1, SlotOf DEF Positions, Processing, Types, Rings
<1>4. lastAvailIdx' = (L + 1) % IdxMod /\ usedRing' = Put(usedRing, L, head)
  BY IndexOf, SlotOf, ZenonT(40) DEF Put, CompleteChain, Positions, Indices
<1>5. /\ usedRing' \in Rings /\ usedRing'[L % QueueSize] = head
      /\ \A x \in Nat : x # L /\ x < L + QueueSize /\ L < x + QueueSize =>
           usedRing'[x % QueueSize] = usedRing[x % QueueSize]
  <2>1. usedRing \in Rings
    BY DEF Types
  <2>2. Put(usedRing, L, head) \in Rings
    BY <1>3, <2>1, WriteSlot
  <2>3. Put(usedRing, L, head)[L % QueueSize] = head
    BY <1>3, <2>1, WriteSlot
  <2>4. \A x \in Nat : x # L /\ x < L + QueueSize /\ L < x + QueueSize =>
           Put(usedRing, L, head)[x % QueueSize] = usedRing[x % QueueSize]
    BY <1>3, <2>1, WriteSlot
  <2> QED BY <1>4, <2>2, <2>3, <2>4
<1>6. \A x \in Nat : S <= x /\ x < L => usedRing'[x % QueueSize] = usedRing[x % QueueSize]
  <2>1. \A x \in Nat : S <= x /\ x < L => x # L /\ x < L + QueueSize /\ L < x + QueueSize
    BY <1>0, <1>2
  <2> QED BY <1>5, <2>1, Zenon
<1>7. Types'
  BY <1>1, <1>5 DEF Types, driver
<1>8. Indices(S, U, L + 1, A)'
  BY <1>0, <1>1, <1>2, <1>4 DEF Positions, Indices, driver
<1>9. Outstanding(S, U, A)'
  <2>1. \A x \in Nat : S <= x /\ x < U => x < L
    BY <1>0
  <2>2. \A x \in Nat : S <= x => Entry(x, U)' = Entry(x, U)
    BY <1>1, <1>6, <2>1, Zenon DEF Entry
  <2>3. \A x, y \in Nat : S <= x /\ x < y => S <= y
    BY <1>0
  <2>4. free' = free /\ Outstanding(S, U, A)
    BY <1>1 DEF driver, Positions
  <2> QED BY <2>2, <2>3, <2>4, Zenon DEF Outstanding
<1>10. Processing(U, L + 1, A)'
  <2>1. \A x \in Nat : U <= x => S <= x
    BY <1>0
  <2>2. \A x \in Nat : x < L + 1 => x < L \/ x = L
    BY <1>0
  <2>3. (\A x \in Nat : U <= x /\ x < L + 1 =>
            usedRing[x % QueueSize] = availRing[x % QueueSize])'
    BY <1>1, <1>3, <1>5, <1>6, <2>1, <2>2, ZenonT(40) DEF Positions, Processing
  <2>4. L + 1 <= N
    BY <1>0, <1>2
  <2> QED BY <1>1, <1>2, <2>3, <2>4, Zenon DEF Processing
<1>11. UNCHANGED Queue!vars
  <2>1. UNCHANGED Window(availRing, usedIdx, availIdx) /\ UNCHANGED free
    BY <1>1 DEF Window, driver
  <2>2. Window(usedRing, seen, usedIdx) = Stretch(usedRing, S, U)
    BY <1>0, WindowIsStretch DEF Positions, Indices
  <2>3. Window(usedRing, seen, usedIdx)' = Stretch(usedRing', S, U)
    BY <1>0, <1>8, WindowIsStretch DEF Indices
  <2>4. Stretch(usedRing', S, U) = Stretch(usedRing, S, U)
    <3>1. \A x \in Nat : S <= x /\ x < U => S <= x /\ x < L
      BY <1>0
    <3>2. \A x \in Nat : S <= x /\ x < U =>
            usedRing'[x % QueueSize] = usedRing[x % QueueSize]
      BY <1>6, <3>1, Zenon
    <3> QED BY <1>5, <3>2, SameStretch DEF Types
  <2> QED BY <2>1, <2>2, <2>3, <2>4, ZenonT(40) DEF Queue!vars
<1> QED BY <1>7, <1>8, <1>9, <1>10, <1>11 DEF Positions

\* process publishes what it has filled in: a batch of requests is returned.
LEMMA PublishKeeps ==
  ASSUME Types, NEW S \in Nat, NEW U \in Nat, NEW L \in Nat, NEW A \in Nat,
         Positions(S, U, L, A), Publish
  PROVE  Types' /\ Positions(S, L, L, A)' /\ (Queue!Complete \/ UNCHANGED Queue!vars)
<1>0. /\ S <= U /\ U <= L /\ L <= A /\ A <= S + QueueSize /\ QueueSize \in Nat \ {0}
  BY VirtqueueAssumption DEF Positions, Indices
<1>1. /\ pc = "loop" /\ pc' \in {"idle", "raise"} /\ processed' = FALSE
      /\ UNCHANGED <<availRing, availIdx, usedRing, ready, lastAvailIdx, head, irq, driver>>
      /\ IF processed THEN usedIdx' = lastAvailIdx ELSE usedIdx' = usedIdx
  BY Zenon DEF Publish
<1>2. usedIdx = U % IdxMod /\ lastAvailIdx = L % IdxMod /\ usedIdx' = L % IdxMod
  BY <1>1, Zenon DEF Types, Positions, Indices, Processing
<1>3. \A x \in Nat : U <= x /\ x < L => usedRing[x % QueueSize] = availRing[x % QueueSize]
  BY DEF Positions, Processing
<1>4. Types'
  BY <1>1, Zenon DEF Types, driver
<1>5. S <= L /\ L <= L
  BY <1>0
<1>6. Indices(S, L, L, A)'
  BY <1>0, <1>1, <1>2, <1>5, Zenon DEF Positions, Indices, driver
<1>7. Outstanding(S, L, A)'
  <2>1. \A x \in Nat : (x < U => x < L) /\ (~(x < U) => U <= x)
    BY <1>0
  <2>2. \A x \in Nat : Entry(x, L)' = Entry(x, U)
    BY <1>1, <1>3, <2>1, Zenon DEF Entry
  <2>3. free' = free /\ Outstanding(S, U, A)
    BY <1>1 DEF driver, Positions
  <2> QED BY <2>2, <2>3, Zenon DEF Outstanding
<1>8. Processing(L, L, A)'
  <2>1. \A x \in Nat : ~(L <= x /\ x < L)
    BY <1>0
  <2> QED BY <1>1, <2>1, Zenon DEF Processing
<1>9. Queue!Complete \/ UNCHANGED Queue!vars
  <2> DEFINE sub  == Stretch(availRing, U, A)
             sub2 == Stretch(availRing, L, A)
             don  == Stretch(usedRing, S, U)
             don2 == Stretch(usedRing, S, L)
  <2>1. U <= A /\ A <= U + QueueSize /\ U <= S + QueueSize /\ A <= L + QueueSize
        /\ L <= S + QueueSize
    BY <1>0
  <2>2. Window(availRing, usedIdx, availIdx) = sub /\ Window(usedRing, seen, usedIdx) = don
    BY <1>0, <1>2, <2>1, WindowIsStretch DEF Positions, Indices
  <2>3. /\ Window(availRing, usedIdx, availIdx)' = sub2
        /\ Window(usedRing, seen, usedIdx)' = don2
    <3>1. Window(availRing', L % IdxMod, A % IdxMod) = Stretch(availRing', L, A)
      BY <1>0, <2>1, WindowIsStretch
    <3>2. Window(usedRing', S % IdxMod, L % IdxMod) = Stretch(usedRing', S, L)
      BY <1>5, <2>1, WindowIsStretch
    <3> QED BY <1>1, <1>6, <3>1, <3>2, Zenon DEF Indices
  <2>4. availRing \in Rings /\ usedRing \in Rings /\ free' = free
    BY <1>1 DEF Types, driver
  <2>5. CASE U = L
    BY <2>2, <2>3, <2>4, <2>5, Zenon DEF Queue!vars
  <2>6. CASE U # L
    <3> DEFINE n == L - U
    <3>1. don2 = don \o Stretch(usedRing, U, L)
      BY <1>0, <2>4, StretchSplit
    <3>2. Stretch(usedRing, U, L) = Stretch(availRing, U, L)
      BY <1>3, <2>4, SameStretch
    <3>3. Stretch(availRing, U, L) = First(sub, L - U) /\ sub2 = After(sub, L - U)
      BY <1>0, <2>4, StretchSplit
    <3>4. Len(sub) = A - U
      BY <2>1, <2>4, StretchIsSeq, Zenon
    <3>5. n \in 1..(A - U)
      BY <1>0, <2>6
    <3> HIDE DEF sub, sub2, don, don2, n
    <3>6. /\ n \in 1..Len(sub)
          /\ don2 = don \o SubSeq(sub, 1, n)
          /\ sub2 = SubSeq(sub, n + 1, Len(sub))
      BY <3>1, <3>2, <3>3, <3>4, <3>5, ZenonT(40) DEF n, First, After
    <3> QED BY <2>2, <2>3, <2>4, <3>6, ZenonT(40) DEF Queue!Complete
  <2> QED BY <2>5, <2>6
<1> QED BY <1>4, <1>6, <1>7, <1>8, <1>9 DEF Positions

\* The steps that move no index: entering process, fetching a head, raising the
\* interrupt, enabling the queue, entering and leaving the handler.
LEMMA OthersKeep ==
  ASSUME Types, NEW S \in Nat, NEW U \in Nat, NEW L \in Nat, NEW A \in Nat,
         Positions(S, U, L, A),
         \/ BeginProcess \/ FetchHead \/ RaiseInterrupt
         \/ EnableQueue \/ EnterIsr \/ LeaveIsr \/ UNCHANGED vars
  PROVE  Types' /\ Positions(S, U, L, A)' /\ UNCHANGED Queue!vars
<1>0. /\ S <= U /\ U <= L /\ L <= A /\ A <= S + QueueSize /\ QueueSize \in Nat \ {0}
  BY VirtqueueAssumption DEF Positions, Indices
<1>1. UNCHANGED <<availRing, availIdx, usedRing, usedIdx, lastAvailIdx, free, seen>>
  BY Zenon DEF BeginProcess, FetchHead, RaiseInterrupt, EnableQueue, EnterIsr, LeaveIsr,
               vars, rings, driver, locals
<1>2. UNCHANGED Queue!vars
  BY <1>1 DEF Queue!vars, Window
<1>3. Indices(S, U, L, A)' /\ Outstanding(S, U, A)'
  BY <1>1, Zenon DEF Positions, Indices, Outstanding, Entry
<1>4. (\A x \in Nat : U <= x /\ x < L => usedRing[x % QueueSize] = availRing[x % QueueSize])'
  BY <1>1, Zenon DEF Positions, Processing
<1>5. Processing(U, L, A)
  BY DEF Positions
<1>6. CASE BeginProcess
  <2>1. CASE ready
    <3>1. pc = "idle" /\ pc' = "loop" /\ processed' = FALSE /\ snapshot' = A % IdxMod
      BY <1>6, <2>1, Zenon DEF BeginProcess, Positions, Indices
    <3>2. A <= A
      BY <1>0
    <3>3. Types'
      BY <1>1, <3>1, Zenon DEF Types
    <3>4. Processing(U, L, A)'
      BY <1>0, <1>4, <1>5, <3>1, <3>2, ZenonT(40) DEF Processing
    <3> QED BY <1>2, <1>3, <3>3, <3>4, Zenon DEF Positions
  <2>2. CASE ~ready
    <3>1. UNCHANGED <<pc, snapshot, processed, head>>
      BY <1>6, <2>2, Zenon DEF BeginProcess
    <3>2. Types'
      BY <1>1, <3>1, Zenon DEF Types
    <3>3. Processing(U, L, A)'
      BY <1>1, <1>5, <3>1, Zenon DEF Processing
    <3> QED BY <1>2, <1>3, <3>2, <3>3, Zenon DEF Positions
  <2> QED BY <2>1, <2>2
<1>7. CASE FetchHead
  <2>1. /\ pc = "loop" /\ pc' = "head" /\ lastAvailIdx # snapshot
        /\ head' = availRing[Slot(lastAvailIdx)] /\ UNCHANGED <<snapshot, processed>>
    BY <1>7 DEF FetchHead
  <2>2. PICK N \in Nat : L <= N /\ N <= A /\ snapshot = N % IdxMod
    BY <1>5, <2>1, Zenon DEF Processing
  <2>3. head' = availRing[L % QueueSize] /\ lastAvailIdx = L % IdxMod
    BY <2>1, SlotOf DEF Positions, Indices
  <2>4. L < N
    BY <2>1, <2>2, <2>3
  <2>5. Types'
    BY <1>1, <2>1, Zenon DEF Types
  <2>6. Processing(U, L, A)'
    BY <1>1, <1>4, <1>5, <2>1, <2>2, <2>3, <2>4, ZenonT(40) DEF Processing
  <2> QED BY <1>2, <1>3, <2>5, <2>6, ZenonT(40) DEF Positions
<1>8. CASE RaiseInterrupt
  <2>1. pc = "raise" /\ pc' = "idle" /\ UNCHANGED <<snapshot, head, processed>>
    BY <1>8 DEF RaiseInterrupt
  <2>2. Types'
    BY <1>1, <2>1, Zenon DEF Types
  <2>3. Processing(U, L, A)'
    BY <1>4, <1>5, <2>1, ZenonT(40) DEF Processing
  <2> QED BY <1>2, <1>3, <2>2, <2>3, Zenon DEF Positions
<1>9. CASE EnableQueue \/ EnterIsr \/ LeaveIsr \/ UNCHANGED vars
  <2>1. UNCHANGED <<pc, snapshot, processed, head>>
    BY <1>9, ZenonT(40) DEF EnableQueue, EnterIsr, LeaveIsr, vars, locals
  <2>2. Types'
    BY <1>1, <2>1, Zenon DEF Types
  <2>3. Processing(U, L, A)'
    BY <1>1, <1>5, <2>1, Zenon DEF Processing
  <2> QED BY <1>2, <1>3, <2>2, <2>3, Zenon DEF Positions
<1> QED BY <1>6, <1>7, <1>8, <1>9

\* A reset gives every head back and starts the positions over.
LEMMA ResetKeeps ==
  ASSUME Types, NEW S \in Nat, NEW U \in Nat, NEW L \in Nat, NEW A \in Nat,
         Positions(S, U, L, A), Reset
  PROVE  Types' /\ Positions(0, 0, 0, 0)' /\ Queue!Reset
<1>0. QueueSize \in Nat \ {0} /\ IdxMod \in Nat \ {0} /\ 0 % IdxMod = 0
  BY VirtqueueAssumption
<1>1. /\ pc = "idle" /\ UNCHANGED <<pc, processed>>
      /\ availRing' = ZeroedRing /\ usedRing' = ZeroedRing /\ free' = Heads
      /\ seen' = 0 /\ usedIdx' = 0 /\ lastAvailIdx' = 0 /\ availIdx' = 0
  BY DEF Reset, locals
<1>2. ZeroedRing \in Rings
  BY <1>0 DEF ZeroedRing, Rings, Slots, Heads
<1>3. Types'
  BY <1>1, <1>2 DEF Types
<1>4. Indices(0, 0, 0, 0)'
  BY <1>0, <1>1 DEF Indices
<1>5. Outstanding(0, 0, 0)'
  <2>1. IsFiniteSet(Heads) /\ Cardinality(Heads) = QueueSize
    BY <1>0, FS_Interval DEF Heads
  <2> QED BY <1>0, <1>1, <2>1 DEF Outstanding
<1>6. Processing(0, 0, 0)'
  BY <1>1 DEF Processing
<1>7. Queue!Reset
  <2>1. Window(ZeroedRing, 0 % IdxMod, 0 % IdxMod) = Stretch(ZeroedRing, 0, 0)
    BY <1>0, WindowIsStretch
  <2>2. Stretch(ZeroedRing, 0, 0) = <<>>
    BY <1>2, EmptyStretch
  <2>3. Window(ZeroedRing, 0, 0) = <<>>
    BY <1>0, <2>1, <2>2
  <2> QED BY <1>1, <2>3, Zenon DEF Queue!Reset
<1> QED BY <1>3, <1>4, <1>5, <1>6, <1>7 DEF Positions

\* A queue just created is at position 0 with every head free.
LEMMA InitKeeps == Init => VirtqueueInv /\ Queue!Init
<1> SUFFICES ASSUME Init PROVE VirtqueueInv /\ Queue!Init
  OBVIOUS
<1>0. QueueSize \in Nat \ {0} /\ IdxMod \in Nat \ {0} /\ 0 % IdxMod = 0
  BY VirtqueueAssumption
<1>1. /\ pc = "idle" /\ processed = FALSE
      /\ availRing = ZeroedRing /\ usedRing = ZeroedRing /\ free = Heads
      /\ seen = 0 /\ usedIdx = 0 /\ lastAvailIdx = 0 /\ availIdx = 0
  BY DEF Init
<1>2. ZeroedRing \in Rings
  BY <1>0 DEF ZeroedRing, Rings, Slots, Heads
<1>3. Types
  BY <1>1, <1>2, ZenonT(40) DEF Types
<1>4. Indices(0, 0, 0, 0)
  BY <1>0, <1>1 DEF Indices
<1>5. Outstanding(0, 0, 0)
  <2>1. IsFiniteSet(Heads) /\ Cardinality(Heads) = QueueSize
    BY <1>0, FS_Interval DEF Heads
  <2> QED BY <1>0, <1>1, <2>1 DEF Outstanding
<1>6. Processing(0, 0, 0)
  BY <1>1 DEF Processing
<1>7. Queue!Init
  <2>1. Window(ZeroedRing, 0 % IdxMod, 0 % IdxMod) = Stretch(ZeroedRing, 0, 0)
    BY <1>0, WindowIsStretch
  <2>2. Stretch(ZeroedRing, 0, 0) = <<>>
    BY <1>2, EmptyStretch
  <2>3. Window(ZeroedRing, 0, 0) = <<>>
    BY <1>0, <2>1, <2>2
  <2> QED BY <1>1, <2>3, Zenon DEF Queue!Init
<1>8. 0 \in Nat /\ Positions(0, 0, 0, 0)
  BY <1>4, <1>5, <1>6 DEF Positions
<1> QED BY <1>3, <1>7, <1>8, ZenonT(40) DEF VirtqueueInv

\* Every step keeps the invariant and is a step of the abstract queue.
LEMMA StepKeeps ==
  ASSUME VirtqueueInv, [Next]_vars PROVE VirtqueueInv' /\ [Queue!Next]_(Queue!vars)
<1>0. Types
  BY DEF VirtqueueInv
<1>1. PICK S \in Nat, U \in Nat, L \in Nat, A \in Nat : Positions(S, U, L, A)
  BY DEF VirtqueueInv
<1>2. S + 1 \in Nat /\ L + 1 \in Nat /\ A + 1 \in Nat /\ 0 \in Nat
  OBVIOUS
<1>3. ASSUME NEW h \in Heads, Submit(h) PROVE VirtqueueInv' /\ [Queue!Next]_(Queue!vars)
  <2>1. Types' /\ Positions(S, U, L, A + 1)' /\ Queue!Submit(h)
    BY <1>0, <1>1, <1>3, SubmitKeeps
  <2> QED BY <1>2, <2>1, Zenon DEF VirtqueueInv, Queue!Next
<1>4. CASE Consume
  <2>1. Types' /\ Positions(S + 1, U, L, A)' /\ Queue!Consume
    BY <1>0, <1>1, <1>4, ConsumeKeeps
  <2> QED BY <1>2, <2>1, Zenon DEF VirtqueueInv, Queue!Next
<1>5. CASE CompleteChain
  <2>1. Types' /\ Positions(S, U, L + 1, A)' /\ UNCHANGED Queue!vars
    BY <1>0, <1>1, <1>5, CompleteChainKeeps
  <2> QED BY <1>2, <2>1, Zenon DEF VirtqueueInv
<1>6. CASE Publish
  <2>1. Types' /\ Positions(S, L, L, A)' /\ (Queue!Complete \/ UNCHANGED Queue!vars)
    BY <1>0, <1>1, <1>6, PublishKeeps
  <2> QED BY <1>2, <2>1, Zenon DEF VirtqueueInv, Queue!Next
<1>7. CASE Reset
  <2>1. Types' /\ Positions(0, 0, 0, 0)' /\ Queue!Reset
    BY <1>0, <1>1, <1>7, ResetKeeps
  <2> QED BY <1>2, <2>1, Zenon DEF VirtqueueInv, Queue!Next
<1>8. CASE \/ BeginProcess \/ FetchHead \/ RaiseInterrupt
           \/ EnableQueue \/ EnterIsr \/ LeaveIsr \/ UNCHANGED vars
  <2>1. Types' /\ Positions(S, U, L, A)' /\ UNCHANGED Queue!vars
    BY <1>0, <1>1, <1>8, OthersKeep
  <2> QED BY <2>1, Zenon DEF VirtqueueInv
<1> QED BY <1>3, <1>4, <1>5, <1>6, <1>7, <1>8, ZenonT(40) DEF Next, Process

\* For every queue size and index width: a head the device works on has been
\* given away by the driver and not returned to it.
THEOREM HeadIsOutstandingCorrect == Spec => []HeadIsOutstanding
<1>1. VirtqueueInv => HeadIsOutstanding
  <2> SUFFICES ASSUME VirtqueueInv, pc = "head"
               PROVE  /\ head \notin free
                      /\ \A i \in 1..((usedIdx - seen) % IdxMod) :
                           head # Window(usedRing, seen, usedIdx)[i]
    BY DEF HeadIsOutstanding
  <2>1. PICK S \in Nat, U \in Nat, L \in Nat, A \in Nat : Positions(S, U, L, A)
    BY DEF VirtqueueInv
  <2>2. /\ S <= U /\ U <= L /\ L <= A /\ A <= S + QueueSize /\ QueueSize \in Nat
        /\ seen = S % IdxMod /\ usedIdx = U % IdxMod
    BY <2>1, VirtqueueAssumption DEF Positions, Indices
  <2>3. L < A /\ head = availRing[L % QueueSize]
    BY <2>1, <2>2 DEF Positions, Processing
  <2>4. head = Entry(L, U)
    BY <2>2, <2>3 DEF Entry
  <2>5. head \notin free
    BY <2>1, <2>2, <2>3, <2>4 DEF Positions, Outstanding
  <2>6. (usedIdx - seen) % IdxMod = U - S
    BY <2>2, Distance
  <2>7. Window(usedRing, seen, usedIdx) = Stretch(usedRing, S, U)
    BY <2>2, WindowIsStretch
  <2>8. ASSUME NEW i \in 1..(U - S) PROVE head # Stretch(usedRing, S, U)[i]
    <3> DEFINE x == S + i - 1
    <3>1. x \in Nat /\ S <= x /\ x < U /\ x < L
      BY <2>2
    <3>2. Stretch(usedRing, S, U)[i] = usedRing[x % QueueSize]
      BY DEF Stretch
    <3> HIDE DEF x
    <3>3. Entry(x, U) = usedRing[x % QueueSize]
      BY <3>1, Zenon DEF Entry
    <3>4. Entry(x, U) # Entry(L, U)
      BY <2>1, <2>3, <3>1, Zenon DEF Positions, Outstanding
    <3> QED BY <2>4, <3>2, <3>3, <3>4, Zenon
  <2> QED BY <2>5, <2>6, <2>7, <2>8, ZenonT(40)
<1> QED BY <1>1, InitKeeps, StepKeeps, PTL DEF Spec

\* For every queue size and index width, Virtqueue::process with its driver
\* implements the exactly-once FIFO of module RequestQueue.
THEOREM ImplementsQueueCorrect == Spec => ImplementsQueue
BY InitKeeps, StepKeeps, PTL DEF Spec, ImplementsQueue, Queue!Spec
=============================================================================
