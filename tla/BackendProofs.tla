--------------------------- MODULE BackendProofs ----------------------------
(***************************************************************************)
(* Proofs about DescChain and Backend, for every queue size, descriptor     *)
(* table, set of buffers and disk image, wherever an access fails.          *)
(***************************************************************************)
EXTENDS Backend, FiniteSetTheorems, TLAPS

\* How a leaf that names no prover is tried.
USE SMT, Zenon, SMTT(30)

-----------------------------------------------------------------------------
(* The walk along the descriptors.                                          *)

WalkTypeOK ==
  /\ table \in [InMemory -> [next : Indices, more : BOOLEAN]]
  /\ {head, descIdx} \subseteq Indices /\ hasNext \in BOOLEAN
  /\ chain \in Seq(InMemory) /\ pc \in {"walk", "done"}

\* Where the walk stands: descIdx is the descriptor after the chain so far.
WalkStands ==
  /\ hasNext => IF chain = <<>> THEN descIdx = head
                ELSE table[chain[Len(chain)]].more /\ descIdx = table[chain[Len(chain)]].next
  /\ ~hasNext => chain # <<>> /\ ~table[chain[Len(chain)]].more
  /\ pc = "walk" => hasNext /\ Len(chain) <= Num
  /\ pc = "done" => ~hasNext \/ descIdx \notin InMemory \/ Len(chain) > Num

\* The inductive invariant: the walk is on the way through whatever chain the
\* guest means.
WalkInv ==
  /\ WalkTypeOK /\ WalkStands
  /\ \A n \in 1..Num : \A c \in [1..n -> InMemory] : GuestChain(c) =>
       Len(chain) <= n /\ \A i \in 1..Len(chain) : chain[i] = c[i]

LEMMA WalkInitInv == WalkInit => WalkInv
<1> SUFFICES ASSUME WalkInit PROVE WalkInv
  OBVIOUS
<1>1. <<>> \in Seq(InMemory) /\ Len(<<>>) = 0
  OBVIOUS
<1>2. WalkTypeOK
  BY <1>1 DEF WalkInit, WalkTypeOK
<1>3. WalkStands
  BY <1>1, DescChainAssumption DEF WalkInit, WalkStands
<1> QED BY <1>1, <1>2, <1>3 DEF WalkInit, WalkInv

LEMMA PushDescInv ==
  ASSUME WalkInv, PushDesc
  PROVE  WalkInv'
<1>1. /\ pc = "walk" /\ hasNext /\ descIdx \in InMemory
      /\ chain' = Append(chain, descIdx) /\ table' = table /\ head' = head
      /\ IF table[descIdx].more
         THEN descIdx' = table[descIdx].next /\ hasNext' = hasNext
         ELSE hasNext' = FALSE /\ descIdx' = descIdx
      /\ pc' = IF Len(chain') > Num \/ ~hasNext' THEN "done" ELSE "walk"
  BY Zenon DEF PushDesc
<1> DEFINE l == Len(chain)
<1>2. /\ chain \in Seq(InMemory) /\ l \in Nat /\ l <= Num
      /\ table \in [InMemory -> [next : Indices, more : BOOLEAN]]
      /\ head \in Indices /\ descIdx \in Indices /\ hasNext \in BOOLEAN
  BY <1>1 DEF WalkInv, WalkTypeOK, WalkStands
<1>3. /\ chain' \in Seq(InMemory) /\ Len(chain') = l + 1 /\ chain' # <<>>
      /\ chain'[l + 1] = descIdx /\ \A i \in 1..l : chain'[i] = chain[i]
  BY <1>1, <1>2
<1>4. table[descIdx].more \in BOOLEAN /\ table[descIdx].next \in Indices
  BY <1>1, <1>2
<1>5. WalkTypeOK'
  BY <1>1, <1>2, <1>3, <1>4, Zenon DEF WalkTypeOK
<1>6. WalkStands'
  <2>1. table'[chain'[Len(chain')]] = table[descIdx]
    BY <1>1, <1>3
  <2>2. hasNext' <=> table[descIdx].more
    BY <1>1, <1>4, Zenon
  <2>3. hasNext' => descIdx' = table[descIdx].next
    BY <1>1, <2>2
  <2>4. /\ pc' = "walk" => hasNext' /\ ~(Len(chain') > Num)
        /\ pc' = "done" => ~hasNext' \/ Len(chain') > Num
    BY <1>1
  <2>5. ~(Len(chain') > Num) => Len(chain') <= Num
    BY <1>2, <1>3, DescChainAssumption
  <2> QED BY <1>3, <2>1, <2>2, <2>3, <2>4, <2>5 DEF WalkStands
<1>7. ASSUME NEW n \in 1..Num, NEW c \in [1..n -> InMemory], GuestChain(c)'
      PROVE  Len(chain') <= n /\ \A i \in 1..Len(chain') : chain'[i] = c[i]
  <2>1. n \in Nat \ {0} /\ Len(c) = n /\ GuestChain(c)
    <3>1. GuestChain(c)
      BY <1>1, <1>7 DEF GuestChain
    <3> QED BY <3>1, DescChainAssumption
  <2>2. l <= n /\ \A i \in 1..l : chain[i] = c[i]
    BY <2>1 DEF WalkInv
  <2>3. /\ c[1] = head /\ ~table[c[n]].more
        /\ \A i \in 1..(n - 1) : c[i + 1] = table[c[i]].next
    BY <2>1 DEF GuestChain
  <2>4. l < n /\ descIdx = c[l + 1]
    <3>1. CASE chain = <<>>
      BY <1>1, <2>1, <2>3, <3>1 DEF WalkInv, WalkStands
    <3>2. CASE chain # <<>>
      <4>1. l \in 1..l
        BY <1>2, <3>2
      <4>2. table[chain[l]].more /\ descIdx = table[chain[l]].next
        BY <1>1, <3>2 DEF WalkInv, WalkStands
      <4>3. chain[l] = c[l] /\ l # n
        BY <2>2, <2>3, <4>1, <4>2
      <4> QED BY <1>2, <2>1, <2>2, <2>3, <4>1, <4>2, <4>3
    <3> QED BY <3>1, <3>2
  <2>5. ASSUME NEW i \in 1..(l + 1) PROVE chain'[i] = c[i]
    <3>1. i \in 1..l \/ i = l + 1
      BY <1>2
    <3> QED BY <1>3, <2>2, <2>4, <3>1, Zenon
  <2>6. l + 1 <= n
    BY <1>2, <2>1, <2>4
  <2> QED BY <1>3, <2>5, <2>6, Zenon
<1> QED BY <1>5, <1>6, <1>7 DEF WalkInv

LEMMA WalkNextInv ==
  ASSUME WalkInv, Walk \/ UNCHANGED walkVars
  PROVE  WalkInv'
<1>1. CASE ReadFails \/ UNCHANGED walkVars
  <2>1. /\ UNCHANGED <<table, head, descIdx, hasNext, chain>>
        /\ pc' = pc \/ (pc' = "done" /\ descIdx \notin InMemory)
    BY <1>1 DEF ReadFails, walkVars
  <2>2. WalkTypeOK' /\ WalkStands'
    BY <2>1 DEF WalkInv, WalkTypeOK, WalkStands
  <2>3. \A c : GuestChain(c)' <=> GuestChain(c)
    BY <2>1 DEF GuestChain
  <2> QED BY <2>1, <2>2, <2>3 DEF WalkInv
<1> QED BY <1>1, PushDescInv DEF Walk

\* A walk that ended has the whole of a chain that fits.
LEMMA WholeChain == WalkInv => FittingChainIsWhole
<1> SUFFICES ASSUME WalkInv, pc = "done",
                    NEW n \in 1..Num, NEW c \in [1..n -> InMemory], GuestChain(c)
             PROVE  chain = c
  BY DEF FittingChainIsWhole
<1> DEFINE l == Len(chain)
<1>1. n \in Nat \ {0} /\ n <= Num /\ Num \in Nat /\ c \in Seq(InMemory) /\ Len(c) = n
  BY DescChainAssumption
<1>2. chain \in Seq(InMemory) /\ l \in Nat /\ l <= n /\ \A i \in 1..l : chain[i] = c[i]
  BY DEF WalkInv, WalkTypeOK
<1>3. /\ c[1] = head
      /\ \A i \in 1..(n - 1) : table[c[i]].more /\ c[i + 1] = table[c[i]].next
      /\ \A i \in 1..n : c[i] \in InMemory
  BY <1>1 DEF GuestChain
<1>4. ~(l < n)
  <2> SUFFICES ASSUME l < n PROVE FALSE
    OBVIOUS
  <2>1. ~hasNext \/ descIdx \notin InMemory
    BY <1>1, <1>2 DEF WalkInv, WalkStands
  <2>2. CASE chain = <<>>
    BY <1>1, <1>3, <2>1, <2>2 DEF WalkInv, WalkStands
  <2>3. CASE chain # <<>>
    <3>1. l \in 1..(n - 1) /\ l \in 1..l
      BY <1>1, <1>2, <2>3
    <3>2. table[chain[l]].more /\ table[chain[l]].next = c[l + 1] /\ c[l + 1] \in InMemory
      BY <1>1, <1>2, <1>3, <3>1
    <3> QED BY <2>1, <2>3, <3>2 DEF WalkInv, WalkStands
  <2> QED BY <2>2, <2>3
<1> QED BY <1>1, <1>2, <1>4

-----------------------------------------------------------------------------
(* Lengths, which count bytes.                                              *)

\* The bytes of the buffer at chain position k.
BytesOf(k) == {k} \X (0..(BufLen[chain[k]] - 1))

LEMMA BytesOfCount ==
  ASSUME chain \in Seq(InMemory), NEW k \in 1..Len(chain)
  PROVE  /\ BufLen[chain[k]] \in Nat
         /\ IsFiniteSet(BytesOf(k)) /\ Cardinality(BytesOf(k)) = BufLen[chain[k]]
<1>1. chain[k] \in InMemory
  OBVIOUS
<1>2. BufLen[chain[k]] \in Nat
  BY <1>1, BackendAssumption
<1> DEFINE l == BufLen[chain[k]]
<1>3. IsFiniteSet(0..(l - 1)) /\ Cardinality(0..(l - 1)) = l
  <2> HIDE DEF l
  <2>1. l \in Nat
    BY <1>2 DEF l
  <2> QED BY <2>1, FS_Interval
<1>4. IsFiniteSet({k}) /\ Cardinality({k}) = 1
  BY FS_Singleton, Zenon
<1>5. /\ IsFiniteSet({k} \X (0..(l - 1)))
      /\ Cardinality({k} \X (0..(l - 1))) = 1 * l
  <2> HIDE DEF l
  <2>1. /\ IsFiniteSet({k} \X (0..(l - 1)))
        /\ Cardinality({k} \X (0..(l - 1))) = Cardinality({k}) * Cardinality(0..(l - 1))
    BY <1>3, <1>4, FS_Product, Zenon
  <2> QED BY <1>3, <1>4, <2>1, Zenon
<1> QED BY <1>2, <1>5 DEF BytesOf

LEMMA BytesFinite ==
  ASSUME chain \in Seq(InMemory), NEW k \in Nat, k <= Len(chain)
  PROVE  IsFiniteSet(BytesUpTo(k)) /\ LengthUpTo(k) \in Nat
<1> DEFINE P == 2..k
           B == {BytesOf(p) : p \in P}
           f == [p \in P |-> BytesOf(p)]
<1>1. IsFiniteSet(P)
  BY FS_Interval
<1>2. f \in Surjection(P, B)
  BY DEF Surjection
<1>3. IsFiniteSet(B)
  <2> HIDE DEF P, B, f
  <2> QED BY <1>1, <1>2, FS_Surjection
<1>4. \A T \in B : IsFiniteSet(T)
  <2>1. \A p \in P : p \in 1..Len(chain)
    OBVIOUS
  <2> QED BY <2>1, BytesOfCount
<1>5. BytesUpTo(k) = UNION B
  BY DEF BytesUpTo, BytesOf
<1>6. IsFiniteSet(BytesUpTo(k))
  <2> HIDE DEF B
  <2> QED BY <1>3, <1>4, <1>5, FS_UNION
<1> QED BY <1>6, FS_CardinalityType DEF LengthUpTo

\* There is nothing ahead of the first segment.
LEMMA LengthFirst == LengthUpTo(1) = 0
<1>1. 2..1 = {}
  OBVIOUS
<1>2. BytesUpTo(1) = {}
  BY <1>1 DEF BytesUpTo
<1> QED BY <1>2, FS_EmptySet DEF LengthUpTo

\* One segment more adds its length.
LEMMA LengthNext ==
  ASSUME chain \in Seq(InMemory), NEW k \in 2..Len(chain)
  PROVE  /\ BufLen[chain[k]] \in Nat /\ LengthUpTo(k - 1) \in Nat
         /\ LengthUpTo(k) = LengthUpTo(k - 1) + BufLen[chain[k]]
<1>1. k \in 1..Len(chain) /\ k - 1 \in Nat /\ k - 1 <= Len(chain)
  OBVIOUS
<1>2. IsFiniteSet(BytesUpTo(k - 1)) /\ LengthUpTo(k - 1) \in Nat
  BY <1>1, BytesFinite
<1>3. /\ BufLen[chain[k]] \in Nat
      /\ IsFiniteSet(BytesOf(k)) /\ Cardinality(BytesOf(k)) = BufLen[chain[k]]
  BY <1>1, BytesOfCount
<1>4. BytesUpTo(k) = BytesUpTo(k - 1) \cup BytesOf(k)
  <2>1. 2..k = (2..(k - 1)) \cup {k}
    OBVIOUS
  <2> QED BY <2>1, Zenon DEF BytesUpTo, BytesOf
<1>5. BytesUpTo(k - 1) \cap BytesOf(k) = {}
  <2>1. \A x \in BytesUpTo(k - 1) : x[1] \in 2..(k - 1)
    BY DEF BytesUpTo
  <2>2. \A x \in BytesOf(k) : x[1] = k
    BY DEF BytesOf
  <2>3. k \notin 2..(k - 1)
    OBVIOUS
  <2> QED BY <2>1, <2>2, <2>3, Zenon
<1>6. Cardinality({}) = 0
  BY FS_EmptySet
<1>7. Cardinality(BytesUpTo(k)) =
        Cardinality(BytesUpTo(k - 1)) + Cardinality(BytesOf(k)) - 0
  <2> DEFINE A == BytesUpTo(k - 1)
             B == BytesOf(k)
  <2>1. IsFiniteSet(A) /\ IsFiniteSet(B)
    BY <1>2, <1>3
  <2> HIDE DEF A, B
  <2>2. Cardinality(A \cup B) = Cardinality(A) + Cardinality(B) - Cardinality(A \cap B)
    BY <2>1, FS_Union, Zenon
  <2> QED BY <1>4, <1>5, <1>6, <2>2, Zenon DEF A, B
<1> QED BY <1>2, <1>3, <1>7 DEF LengthUpTo

LEMMA LengthMonotonic ==
  ASSUME chain \in Seq(InMemory), NEW a \in Nat, NEW b \in Nat, a <= b, b <= Len(chain)
  PROVE  LengthUpTo(a) <= LengthUpTo(b) /\ LengthUpTo(a) \in Nat /\ LengthUpTo(b) \in Nat
<1>1. 2..a \subseteq 2..b
  OBVIOUS
<1>2. BytesUpTo(a) \subseteq BytesUpTo(b)
  BY <1>1 DEF BytesUpTo
<1>3. IsFiniteSet(BytesUpTo(b)) /\ LengthUpTo(a) \in Nat /\ LengthUpTo(b) \in Nat
  <2>1. a <= Len(chain)
    OBVIOUS
  <2> QED BY <2>1, BytesFinite
<1> QED BY <1>2, <1>3, FS_Subset DEF LengthUpTo

LEMMA FirstBytes ==
  ASSUME NEW n \in Nat
  PROVE  IsFiniteSet(0..(n - 1)) /\ Cardinality(0..(n - 1)) = n
BY FS_Interval

\* The bytes J of one position are as many as J.
LEMMA StoredCount ==
  ASSUME NEW k, NEW J, IsFiniteSet(J)
  PROVE  IsFiniteSet({k} \X J) /\ Cardinality({k} \X J) = Cardinality(J)
<1>1. IsFiniteSet({k}) /\ Cardinality({k}) = 1 /\ Cardinality(J) \in Nat
  BY FS_Singleton, FS_CardinalityType, Zenon
<1>2. IsFiniteSet({k} \X J) /\ Cardinality({k} \X J) = Cardinality({k}) * Cardinality(J)
  BY <1>1, FS_Product
<1> QED BY <1>1, <1>2

-----------------------------------------------------------------------------
(* The inductive invariant of the backends.                                 *)

\* The request lies within the advertised capacity.
Fits == start + totalLen <= diskBytes

\* Where the backend is in its request.
Control ==
  /\ device \in {"blk", "rng"}
  /\ stage \in {"chain", "execute", "segments", "status", "used"}
  /\ req \in [type : Types, sector : Nat] /\ seg \in Nat \ {0}
  /\ pc = "walk" => stage = "chain" /\ seg = 1
  /\ device = "rng" => stage \in {"chain", "used"}
  /\ stage = "chain" \/ device = "rng" => req.type = "other"
  /\ device = "blk" /\ stage \in {"chain", "execute"} => seg = 1
  /\ stage \in {"execute", "segments", "status"} => Len(chain) >= 2 /\ seg <= Len(chain)
  /\ stage = "segments" => seg >= 2 /\ Fits
  /\ stage \in {"status", "used"} /\ status = S_OK /\ req.type \in {"in", "out"} =>
       seg = Len(chain)

\* Nothing was stored yet at chain position k.
Fresh(k) == \A j : <<k, j>> \notin stored

\* The count stands for the bytes stored.
Exact == written = Cardinality(stored) % U32

Counted ==
  /\ IsFiniteSet(stored) /\ Exact
  /\ stage \in {"chain", "execute", "segments"} => \A k \in Nat : k >= seg => Fresh(k)
  /\ stage = "status" => Fresh(Len(chain))

Answered ==
  /\ stage \in {"chain", "execute", "segments"} \/ device = "rng" => status = None
  /\ device = "blk" /\ status = None => ~ioFailed
  /\ stage = "status" => status # None
  /\ device = "blk" /\ ioFailed => status = S_IOERR
  /\ status = S_IOERR =>
       \/ ioFailed \/ \E k \in DataPositions : chain[k] \in Outside
       \/ req.type = "get_id" /\ DataPositions = {}
       \/ ~Fits

\* The segments behind the loop were read from the disk,
SegmentsRead ==
  \A k \in 2..(seg - 1) : LastUse(k) =>
    \A j \in 0..(BufLen[chain[k]] - 1) : mem[chain[k]][j] = DiskByte(At(k, j))

ReadSoFar ==
  /\ DOMAIN mem = InMemory
  /\ device = "blk" /\ stage \in {"chain", "execute"} => mem = GuestBuffers
  /\ req.type = "in" => SegmentsRead

\* or written to it, and the first n bytes of the range are all that changed.
Prefix(n) ==
  \A b \in DOMAIN disk :
    IF start <= b /\ b < start + n
    THEN \E k \in DataPositions : \E j \in 0..(BufLen[chain[k]] - 1) :
           At(k, j) = b /\ disk[b] = MemByte(chain[k], j)
    ELSE disk[b] = DiskByte(b)

SomePrefix == \E n \in 0..totalLen : Prefix(n)

SegmentsWritten ==
  \A k \in 2..(seg - 1) : \A j \in 0..(BufLen[chain[k]] - 1) :
    disk[At(k, j)] = MemByte(chain[k], j)

WrittenSoFar ==
  /\ DOMAIN disk = 0..(FileLen - 1)
  /\ req.type # "out" \/ stage \in {"chain", "execute"} \/ ~Fits => disk = OpenedDisk
  /\ req.type = "out" /\ stage = "segments" =>
       mem = GuestBuffers /\ Prefix(LengthUpTo(seg - 1))
  /\ req.type = "out" /\ stage \in {"status", "used"} /\ Fits => SomePrefix
  /\ req.type = "out" => SegmentsWritten

BackendInv == WalkInv /\ Control /\ Counted /\ Answered /\ ReadSoFar /\ WrittenSoFar

LEMMA Capacity ==
  /\ FileLen \in Nat \ {0} /\ FileLen <= MaxU64 /\ MaxU64 \in Nat /\ SectorSize \in Nat \ {0}
  /\ diskBytes \in Nat /\ diskBytes <= FileLen
<1>1. /\ FileLen \in Nat \ {0} /\ SectorSize \in Nat \ {0} /\ MaxU64 \in Nat
      /\ FileLen <= MaxU64
  BY BackendAssumption
<1>2. /\ FileLen \div SectorSize \in Nat /\ FileLen % SectorSize \in Nat
      /\ FileLen = SectorSize * (FileLen \div SectorSize) + (FileLen % SectorSize)
  BY <1>1
<1>3. diskBytes = SectorSize * (FileLen \div SectorSize) /\ diskBytes \in Nat
  BY <1>1, <1>2 DEF diskBytes, capacitySectors
<1> QED BY <1>1, <1>2, <1>3

\* What the operators of a request are numbers of.
LEMMA Numbers ==
  ASSUME BackendInv, Len(chain) >= 2
  PROVE  /\ chain \in Seq(InMemory) /\ Len(chain) \in Nat
         /\ start \in Nat /\ totalLen \in Nat
         /\ \A k \in DataPositions : chain[k] \in InMemory /\ BufLen[chain[k]] \in Nat
<1>1. chain \in Seq(InMemory) /\ Len(chain) \in Nat
  BY DEF BackendInv, WalkInv, WalkTypeOK
<1>2. start \in Nat
  <2>1. req.sector \in Nat
    BY DEF BackendInv, Control
  <2> QED BY <2>1, Capacity DEF start
<1>3. totalLen \in Nat
  <2>1. Len(chain) - 1 \in Nat /\ Len(chain) - 1 <= Len(chain)
    BY <1>1
  <2> QED BY <1>1, <2>1, BytesFinite DEF totalLen
<1>4. \A k \in DataPositions : k \in 1..Len(chain)
  BY <1>1 DEF DataPositions
<1> QED BY <1>1, <1>2, <1>3, <1>4, BytesOfCount

\* A segment has its place behind the ones before it and within the request.
LEMMA Place ==
  ASSUME BackendInv, Len(chain) >= 2, NEW k \in DataPositions
  PROVE  /\ LengthUpTo(k - 1) \in Nat /\ BufLen[chain[k]] \in Nat /\ LengthUpTo(k) \in Nat
         /\ LengthUpTo(k) = LengthUpTo(k - 1) + BufLen[chain[k]]
         /\ LengthUpTo(k) <= totalLen
<1>1. chain \in Seq(InMemory) /\ Len(chain) \in Nat
  BY Numbers
<1>2. k \in 2..Len(chain) /\ k \in Nat /\ Len(chain) - 1 \in Nat /\ k <= Len(chain) - 1
      /\ Len(chain) - 1 <= Len(chain)
  BY <1>1 DEF DataPositions
<1>3. LengthUpTo(k) <= LengthUpTo(Len(chain) - 1) /\ LengthUpTo(k) \in Nat
  BY <1>1, <1>2, LengthMonotonic
<1> QED BY <1>1, <1>2, <1>3, LengthNext DEF totalLen

\* The operators of a request depend on the chain and the header only.
LEMMA SameRequest ==
  ASSUME UNCHANGED <<chain, req>>
  PROVE  /\ DataPositions' = DataPositions /\ start' = start /\ totalLen' = totalLen
         /\ Fits' <=> Fits
         /\ \A k : LengthUpTo(k)' = LengthUpTo(k) /\ (LastUse(k)' <=> LastUse(k))
         /\ \A k, j : At(k, j)' = At(k, j)
<1>1. chain' = chain /\ req' = req
  OBVIOUS
<1>2. \A k : BytesUpTo(k)' = BytesUpTo(k)
  BY <1>1 DEF BytesUpTo
<1>3. \A k : LengthUpTo(k)' = LengthUpTo(k)
  BY <1>2 DEF LengthUpTo
<1>4. start' = start /\ totalLen' = totalLen
  BY <1>1, <1>3 DEF start, totalLen
<1> QED BY <1>1, <1>3, <1>4 DEF DataPositions, Fits, diskBytes, capacitySectors, LastUse, At

\* What stands on the disk and in the buffers stands there after a step that
\* leaves them and the request alone.
LEMMA SameDisk ==
  ASSUME UNCHANGED <<chain, req, disk>>
  PROVE  /\ \A n : Prefix(n)' <=> Prefix(n)
         /\ SomePrefix' <=> SomePrefix
         /\ OpenedDisk' = OpenedDisk
<1>1. chain' = chain /\ req' = req /\ disk' = disk
  OBVIOUS
<1>2. \A n : Prefix(n)' <=> Prefix(n)
  BY <1>1, SameRequest DEF Prefix
<1>3. OpenedDisk' = OpenedDisk
  BY DEF OpenedDisk
<1>4. SomePrefix' <=> SomePrefix
  BY <1>1, <1>2, SameRequest, Zenon DEF SomePrefix
<1> QED BY <1>2, <1>3, <1>4

LEMMA SameSegments ==
  ASSUME UNCHANGED <<chain, req, seg>>
  PROVE  /\ UNCHANGED mem => (SegmentsRead' <=> SegmentsRead)
         /\ UNCHANGED disk => (SegmentsWritten' <=> SegmentsWritten)
         /\ GuestBuffers' = GuestBuffers
<1>1. chain' = chain /\ req' = req /\ seg' = seg
  OBVIOUS
<1>2. UNCHANGED mem => (SegmentsRead' <=> SegmentsRead)
  BY <1>1, SameRequest DEF SegmentsRead
<1>3. UNCHANGED disk => (SegmentsWritten' <=> SegmentsWritten)
  BY <1>1, SameRequest DEF SegmentsWritten
<1>4. GuestBuffers' = GuestBuffers
  BY DEF GuestBuffers
<1> QED BY <1>2, <1>3, <1>4

LEMMA BackendInitInv == BackendInit => BackendInv
<1> SUFFICES ASSUME BackendInit PROVE BackendInv
  OBVIOUS
<1>1. WalkInv
  BY WalkInitInv DEF BackendInit
<1>2. Control
  BY DEF BackendInit, WalkInit, Control, Types
<1>3. Counted
  <2>1. U32 \in Nat \ {0} /\ IsFiniteSet({}) /\ Cardinality({}) = 0
    BY BackendAssumption, FS_EmptySet
  <2>2. 0 % U32 = 0
    BY <2>1
  <2> QED BY <2>1, <2>2 DEF BackendInit, Counted, Exact, Fresh
<1>4. Answered
  BY DEF BackendInit, Answered, None, S_IOERR
<1>5. ReadSoFar
  BY DEF BackendInit, ReadSoFar, GuestBuffers
<1>6. WrittenSoFar
  BY DEF BackendInit, WrittenSoFar, OpenedDisk
<1> QED BY <1>1, <1>2, <1>3, <1>4, <1>5, <1>6 DEF BackendInv

LEMMA CollectingInv ==
  ASSUME BackendInv, Collecting
  PROVE  BackendInv'
<1>1. Walk /\ UNCHANGED <<device, req, disk, mem, stage, seg, written, status, stored, ioFailed>>
  BY DEF Collecting, request
<1>2. WalkInv'
  BY <1>1, WalkNextInv DEF BackendInv
<1>3. stage = "chain" /\ seg = 1 /\ req.type = "other" /\ status = None
  BY <1>1 DEF Walk, ReadFails, PushDesc, BackendInv, Control, Answered
<1>4. Control'
  BY <1>1, <1>3 DEF BackendInv, Control
<1>5. Counted'
  BY <1>1, <1>3 DEF BackendInv, Counted, Exact, Fresh
<1>6. Answered'
  BY <1>1, <1>3 DEF BackendInv, Answered, None, S_IOERR
<1>7. ReadSoFar'
  BY <1>1, <1>3 DEF BackendInv, ReadSoFar, GuestBuffers
<1>8. WrittenSoFar'
  BY <1>1, <1>3 DEF BackendInv, WrittenSoFar, OpenedDisk
<1> QED BY <1>2, <1>4, <1>5, <1>6, <1>7, <1>8 DEF BackendInv

\* No request, no data: the chain goes straight back.
LEMMA NoRequestInv ==
  ASSUME BackendInv, NoRequest \/ RngDone \/ Used \/ UNCHANGED backendVars
  PROVE  BackendInv'
<1>1. /\ UNCHANGED <<device, req, disk, mem, seg, written, status, stored, ioFailed>>
      /\ UNCHANGED walkVars /\ UNCHANGED <<chain, pc>>
      /\ stage' = stage \/ (pc = "done" /\ stage = "chain" /\ stage' = "used")
  BY DEF NoRequest, RngDone, Used, backendVars, request, walkVars
<1>2. WalkInv'
  BY <1>1, WalkNextInv DEF BackendInv
<1>3. /\ totalLen' = totalLen /\ DataPositions' = DataPositions
      /\ Fits' <=> Fits
      /\ \A k : Fresh(k)' <=> Fresh(k)
  BY <1>1, SameRequest DEF Fresh
<1>4. Control'
  BY <1>1, <1>3 DEF BackendInv, Control, Answered, None, S_OK
<1>5. Counted'
  BY <1>1, <1>3 DEF BackendInv, Counted, Exact
<1>6. Answered'
  BY <1>1, <1>3 DEF BackendInv, Answered, None, S_IOERR
<1>7. ReadSoFar'
  BY <1>1, SameSegments DEF BackendInv, ReadSoFar
<1>8. WrittenSoFar'
  <2>1. \A n : Prefix(n)' <=> Prefix(n)
    BY <1>1, SameDisk
  <2>2. stage = "chain" => req.type # "out"
    BY DEF BackendInv, Control
  <2> QED BY <1>1, <1>3, <2>1, <2>2, SameRequest, SameDisk, SameSegments
            DEF BackendInv, WrittenSoFar
<1> QED BY <1>2, <1>4, <1>5, <1>6, <1>7, <1>8 DEF BackendInv

LEMMA ReadHeaderInv ==
  ASSUME BackendInv, ReadHeader
  PROVE  BackendInv'
<1>1. /\ UNCHANGED <<device, disk, mem, seg, written, status, stored, ioFailed>>
      /\ UNCHANGED walkVars /\ UNCHANGED <<chain, pc>>
      /\ device = "blk" /\ pc = "done" /\ stage = "chain" /\ stage' = "execute"
      /\ Len(chain) >= 2
  BY DEF ReadHeader, walkVars
<1>2. req' \in [type : Types, sector : Nat]
  BY BackendAssumption DEF ReadHeader
<1>3. WalkInv'
  BY <1>1, WalkNextInv DEF BackendInv
<1>4. seg = 1 /\ Len(chain) \in Nat /\ mem = GuestBuffers /\ disk = OpenedDisk
  BY <1>1 DEF BackendInv, Control, ReadSoFar, WrittenSoFar, WalkInv, WalkTypeOK
<1>5. Control'
  BY <1>1, <1>2, <1>4 DEF Control
<1>6. Counted'
  BY <1>1 DEF BackendInv, Counted, Exact, Fresh
<1>7. Answered'
  BY <1>1 DEF BackendInv, Answered, None, S_IOERR
<1>8. ReadSoFar'
  BY <1>1, <1>4 DEF BackendInv, ReadSoFar, SegmentsRead, GuestBuffers
<1>9. WrittenSoFar'
  BY <1>1, <1>4 DEF BackendInv, WrittenSoFar, SegmentsWritten, OpenedDisk
<1> QED BY <1>3, <1>5, <1>6, <1>7, <1>8, <1>9 DEF BackendInv

\* The bounds check, with all that can go wrong in its arithmetic.
LEMMA InBoundsFits ==
  ASSUME BackendInv, Len(chain) >= 2
  PROVE  InBounds <=> Fits
<1>1. start \in Nat /\ totalLen \in Nat
  BY Numbers
<1> QED BY <1>1, Capacity DEF InBounds, Fits

LEMMA CheckBoundsInv ==
  ASSUME BackendInv, CheckBounds
  PROVE  BackendInv'
<1>1. /\ UNCHANGED <<device, req, disk, mem, written, stored, ioFailed>>
      /\ UNCHANGED walkVars /\ UNCHANGED <<chain, pc>>
      /\ stage = "execute" /\ req.type \notin {"flush", "get_id"}
      /\ \/ InBounds /\ stage' = "segments" /\ seg' = 2 /\ status' = status
         \/ ~InBounds /\ stage' = "status" /\ status' = S_IOERR /\ seg' = seg
  BY DEF CheckBounds, walkVars, request, Return
<1>2. WalkInv'
  BY <1>1, WalkNextInv DEF BackendInv
<1>3. /\ device = "blk" /\ seg = 1 /\ mem = GuestBuffers /\ disk = OpenedDisk /\ pc = "done"
      /\ Len(chain) \in Nat /\ Len(chain) >= 2 /\ status = None /\ ~ioFailed
  BY <1>1 DEF BackendInv, Control, ReadSoFar, WrittenSoFar, WalkInv, WalkTypeOK, Answered
<1>4. InBounds <=> Fits
  BY <1>3, InBoundsFits
<1>5. (Fits' <=> Fits) /\ DataPositions' = DataPositions
  BY <1>1, SameRequest
<1>6. Control'
  BY <1>1, <1>3, <1>4, <1>5 DEF BackendInv, Control, S_OK, S_IOERR
<1>7. Counted'
  BY <1>1, <1>3 DEF BackendInv, Counted, Exact, Fresh
<1>8. Answered'
  BY <1>1, <1>3, <1>4, <1>5, SMTT(30) DEF Answered, None, S_IOERR
<1>9. ReadSoFar'
  BY <1>1, <1>3 DEF BackendInv, ReadSoFar, SegmentsRead, GuestBuffers
<1>10. WrittenSoFar'
  <2>1. start \in Nat
    BY <1>3, Numbers
  <2>2. LengthUpTo(1)' = 0
    BY <1>1, LengthFirst, SameRequest
  <2>3. Prefix(0)
    BY <1>3, <2>1 DEF Prefix, OpenedDisk
  <2>4. Prefix(0)'
    BY <1>1, <2>3, SameDisk
  <2>5. DOMAIN disk = 0..(FileLen - 1)
    BY DEF BackendInv, WrittenSoFar
  <2>6. mem' = GuestBuffers' /\ disk' = OpenedDisk'
    BY <1>1, <1>3 DEF GuestBuffers, OpenedDisk
  <2>7. seg' - 1 = 1 \/ seg' - 1 = 0
    BY <1>1, <1>3
  <2> QED BY <1>1, <1>4, <1>5, <2>2, <2>4, <2>5, <2>6, <2>7, SMTT(30)
            DEF WrittenSoFar, SegmentsWritten, SomePrefix
<1> QED BY <1>2, <1>6, <1>7, <1>8, <1>9, <1>10 DEF BackendInv

\* Flush, and the two ways out of the data loop that touch no data.
LEMMA ReturnInv ==
  ASSUME BackendInv, Flush \/ UnknownSegment \/ SegmentsDone
  PROVE  BackendInv'
<1>1. /\ UNCHANGED <<device, req, disk, mem, seg, written, stored>>
      /\ UNCHANGED walkVars /\ UNCHANGED <<chain, pc>> /\ stage' = "status"
      /\ \/ /\ stage = "execute" /\ req.type = "flush"
            /\ \/ status' = S_OK /\ ioFailed' = FALSE
               \/ status' = S_IOERR /\ ioFailed' = TRUE
         \/ stage = "segments" /\ req.type = "other" /\ status' = S_UNSUPP /\ ioFailed' = ioFailed
         \/ /\ stage = "segments" /\ seg \notin DataPositions
            /\ status' = S_OK /\ ioFailed' = ioFailed
  BY Zenon DEF Flush, UnknownSegment, SegmentsDone, InSegment, Return, walkVars, request
<1>2. WalkInv'
  BY <1>1, WalkNextInv DEF BackendInv
<1>3. /\ device = "blk" /\ pc = "done" /\ status = None /\ ~ioFailed
      /\ Len(chain) \in Nat /\ Len(chain) >= 2 /\ seg \in Nat \ {0} /\ seg <= Len(chain)
      /\ stage = "segments" => seg >= 2 /\ Fits
  BY <1>1 DEF BackendInv, Control, WalkInv, WalkTypeOK, Answered
<1>4. /\ totalLen' = totalLen /\ DataPositions' = DataPositions
      /\ Fits' <=> Fits
      /\ \A k : Fresh(k)' <=> Fresh(k)
  BY <1>1, SameRequest DEF Fresh
<1>5. seg \notin DataPositions /\ seg >= 2 => seg = Len(chain)
  BY <1>3 DEF DataPositions
<1>6. Control'
  BY <1>1, <1>3, <1>5 DEF BackendInv, Control, S_OK, S_IOERR, S_UNSUPP
<1>7. Counted'
  BY <1>1, <1>3, <1>4 DEF BackendInv, Counted, Exact
<1>8. Answered'
  BY <1>1, <1>3, <1>4 DEF Answered, None, S_OK, S_IOERR, S_UNSUPP
<1>9. ReadSoFar'
  BY <1>1, SameSegments DEF BackendInv, ReadSoFar
<1>10. WrittenSoFar'
  <2>1. \A n : Prefix(n)' <=> Prefix(n)
    BY <1>1, SameDisk
  <2>2. stage = "segments" => LengthUpTo(seg - 1) \in 0..totalLen
    <3> SUFFICES ASSUME stage = "segments" PROVE LengthUpTo(seg - 1) \in 0..totalLen
      OBVIOUS
    <3>1. chain \in Seq(InMemory) /\ totalLen \in Nat
      BY <1>3, Numbers
    <3>2. /\ seg - 1 \in Nat /\ Len(chain) - 1 \in Nat
          /\ seg - 1 <= Len(chain) - 1 /\ Len(chain) - 1 <= Len(chain)
      BY <1>3
    <3>3. LengthUpTo(seg - 1) <= LengthUpTo(Len(chain) - 1) /\ LengthUpTo(seg - 1) \in Nat
      BY <3>1, <3>2, LengthMonotonic
    <3> QED BY <3>1, <3>3 DEF totalLen
  <2>3. req.type = "out" => stage = "segments"
    BY <1>1
  <2>4. req.type = "out" => SomePrefix
    BY <2>2, <2>3 DEF BackendInv, WrittenSoFar, SomePrefix
  <2> QED BY <1>1, <1>3, <1>4, <2>3, <2>4, SameDisk, SameSegments
            DEF BackendInv, WrittenSoFar
<1> QED BY <1>2, <1>6, <1>7, <1>8, <1>9, <1>10 DEF BackendInv

\* mem.write_at as a function of the bytes stored.
LEMMA StoreKeeps ==
  ASSUME NEW k, NEW f, DOMAIN mem = InMemory, chain[k] \in InMemory, Store(k, f)
  PROVE  /\ DOMAIN mem' = InMemory
         /\ \A j \in DOMAIN f : mem'[chain[k]][j] = f[j]
         /\ \A i \in InMemory : i # chain[k] => mem'[i] = mem[i]
         /\ stored' = stored \cup ({k} \X DOMAIN f)
BY DEF Store, Over

\* Quotient and remainder are unique.
LEMMA Remainder ==
  ASSUME NEW m \in Nat \ {0}, NEW x \in Nat, NEW k \in Int, NEW r \in Nat, r < m, x = m * k + r
  PROVE  x % m = r
<1>1. PICK q \in Int, s \in Nat : s = x % m /\ s < m /\ x = m * q + s
  <2>1. x \div m \in Int /\ x % m \in Nat /\ x % m < m /\ x = m * (x \div m) + (x % m)
    OBVIOUS
  <2> QED BY <2>1, Zenon
<1>2. m * (k - q) = s - r
  <2>1. m * (k - q) = m * k - m * q
    OBVIOUS
  <2>2. PICK a \in Int, b \in Int : a = m * k /\ b = m * q
    OBVIOUS
  <2>3. a + r = b + s
    BY <1>1, <2>2, Zenon
  <2>4. m * (k - q) = a - b
    BY <2>1, <2>2
  <2> HIDE <2>2
  <2> QED BY <2>3, <2>4
<1>3. ~(k - q >= 1)
  <2>1. k - q >= 1 => m * (k - q) >= m
    OBVIOUS
  <2> QED BY <1>1, <1>2, <2>1
<1>4. ~(k - q <= -1)
  <2>1. k - q <= -1 => m * (k - q) <= -m
    OBVIOUS
  <2> QED BY <1>1, <1>2, <2>1
<1>5. k = q
  BY <1>3, <1>4
<1> QED BY <1>1, <1>5

\* A count kept modulo m goes on counting modulo m.
LEMMA CountsOn ==
  ASSUME NEW m \in Nat \ {0}, NEW a \in Nat, NEW n \in Nat
  PROVE  ((a % m) + n) % m = (a + n) % m
<1>1. PICK q \in Int, r \in Nat : r = a % m /\ a = m * q + r
  <2>1. a \div m \in Int /\ a % m \in Nat /\ a = m * (a \div m) + (a % m)
    OBVIOUS
  <2> QED BY <2>1, Zenon
<1>2. PICK p \in Int, s \in Nat : s = (r + n) % m /\ s < m /\ r + n = m * p + s
  <2>1. r + n \in Nat
    OBVIOUS
  <2>2. /\ (r + n) \div m \in Int /\ (r + n) % m \in Nat /\ (r + n) % m < m
        /\ r + n = m * ((r + n) \div m) + ((r + n) % m)
    BY <2>1
  <2> QED BY <2>2, SMTT(30)
<1>3. a + n = m * (q + p) + s
  <2>1. m * (q + p) = m * q + m * p /\ m * q \in Int /\ m * p \in Int
    OBVIOUS
  <2> QED BY <1>1, <1>2, <2>1
<1>4. (a + n) % m = s
  <2>1. PICK x \in Nat, k \in Int : x = a + n /\ k = q + p
    OBVIOUS
  <2>2. x = m * k + s
    BY <1>3, <2>1
  <2>3. x % m = s
    BY <1>2, <2>2, Remainder, Zenon
  <2> QED BY <2>1, <2>3
<1> QED BY <1>1, <1>2, <1>4

\* What the device stores at a fresh position is counted exactly.
LEMMA StoreCounts ==
  ASSUME Counted, NEW k, NEW n \in Nat, Fresh(k),
         stored' = stored \cup ({k} \X (0..(n - 1))), Count(n)
  PROVE  /\ IsFiniteSet(stored') /\ Exact'
         /\ \A p : p # k => (Fresh(p)' <=> Fresh(p))
<1>1. IsFiniteSet(stored) /\ Exact /\ \A j : <<k, j>> \notin stored
  BY DEF Counted, Exact, Fresh
<1>2. IsFiniteSet(stored') /\ Cardinality(stored') = Cardinality(stored) + n
  <2> DEFINE J == 0..(n - 1)
             N == {k} \X J
  <2>1. stored' = stored \cup N /\ stored \cap N = {}
    BY <1>1
  <2>2. IsFiniteSet(N) /\ Cardinality(N) = n
    <3>1. IsFiniteSet(J) /\ Cardinality(J) = n
      BY FirstBytes
    <3> HIDE DEF J
    <3> QED BY <3>1, StoredCount, Zenon
  <2>3. Cardinality({}) = 0 /\ Cardinality(stored) \in Nat
    BY <1>1, FS_EmptySet, FS_CardinalityType
  <2> HIDE DEF N
  <2>4. /\ IsFiniteSet(stored \cup N)
        /\ Cardinality(stored \cup N) =
             Cardinality(stored) + Cardinality(N) - Cardinality(stored \cap N)
    BY <1>1, <2>2, FS_Union, Zenon
  <2>5. Cardinality(stored \cap N) = 0
    BY <2>1, <2>3, Zenon
  <2>6. Cardinality(stored \cup N) = Cardinality(stored) + n
    BY <2>2, <2>3, <2>4, <2>5
  <2> QED BY <2>1, <2>4, <2>6, Zenon
<1>3. \A p : p # k => (Fresh(p)' <=> Fresh(p))
  <2> TAKE p
  <2>1. p # k => \A j : <<p, j>> \in stored' <=> <<p, j>> \in stored
    OBVIOUS
  <2> QED BY <2>1 DEF Fresh
<1>4. Exact'
  <2>1. written' = ((Cardinality(stored) % U32) + n) % U32
    BY <1>1 DEF Count, Exact
  <2>2. U32 \in Nat \ {0} /\ Cardinality(stored) \in Nat
    BY <1>1, BackendAssumption, FS_CardinalityType
  <2> QED BY <1>2, <2>1, <2>2, CountsOn DEF Exact
<1> QED BY <1>2, <1>3, <1>4

LEMMA GetIdInv ==
  ASSUME BackendInv, GetId
  PROVE  BackendInv'
<1> DEFINE len == Min({BufLen[chain[2]], IdBytes})
<1>1. /\ UNCHANGED <<device, req, disk, seg, ioFailed>>
      /\ UNCHANGED walkVars /\ UNCHANGED <<chain, pc>>
      /\ stage = "execute" /\ req.type = "get_id" /\ stage' = "status"
      /\ \/ /\ DataPositions = {} \/ chain[2] \in Outside
            /\ status' = S_IOERR /\ UNCHANGED <<mem, stored, written>>
         \/ /\ DataPositions # {}
            /\ Store(2, [j \in 0..(len - 1) |-> IdByte]) /\ Count(len)
            /\ status' = S_OK
  BY DEF GetId, Return, walkVars, request
<1> HIDE DEF len
<1>2. WalkInv'
  BY <1>1, WalkNextInv DEF BackendInv
<1>3. /\ device = "blk" /\ pc = "done" /\ status = None /\ ~ioFailed /\ seg = 1
      /\ chain \in Seq(InMemory) /\ Len(chain) \in Nat /\ Len(chain) >= 2
      /\ \A k \in Nat : k >= 1 => Fresh(k)
  BY <1>1 DEF BackendInv, Control, WalkInv, WalkTypeOK, Answered, Counted, Exact
<1>4. /\ DataPositions' = DataPositions
      /\ Fits' <=> Fits
  BY <1>1, SameRequest
<1>5. DataPositions # {} => 2 \in DataPositions /\ Len(chain) # 2
  <2>1. Len(chain) = 2 => DataPositions = {}
    BY DEF DataPositions
  <2>2. Len(chain) # 2 => 2 \in DataPositions
    <3>1. PICK l : l = Len(chain)
      BY Zenon
    <3>2. l \in Nat /\ l >= 2
      BY <1>3, <3>1, Zenon
    <3>3. l # 2 => 2 \in 2..(l - 1)
      BY <3>2
    <3> QED BY <3>1, <3>3, Zenon DEF DataPositions
  <2> QED BY <2>1, <2>2
<1>6. DataPositions # {} => len \in Nat /\ chain[2] \in InMemory
  <2> SUFFICES ASSUME DataPositions # {} PROVE len \in Nat /\ chain[2] \in InMemory
    OBVIOUS
  <2>1. chain[2] \in InMemory /\ BufLen[chain[2]] \in Nat
    BY <1>3, <1>5, Numbers
  <2>2. IdBytes \in Nat
    BY BackendAssumption
  <2> QED BY <2>1, <2>2 DEF len, Min
<1>7. Control'
  BY <1>1, <1>3 DEF BackendInv, Control
<1>8. Counted'
  <2>1. CASE UNCHANGED <<mem, stored, written>>
    BY <1>1, <1>3, <2>1 DEF BackendInv, Counted, Exact, Fresh
  <2>2. CASE DataPositions # {} /\ Store(2, [j \in 0..(len - 1) |-> IdByte])
             /\ Count(len)
    <3>1. stored' = stored \cup ({2} \X (0..(len - 1)))
      BY <2>2 DEF Store
    <3>2. Fresh(2) /\ Fresh(Len(chain)) /\ len \in Nat /\ Len(chain) # 2
      BY <1>3, <1>5, <1>6, <2>2
    <3>3. /\ IsFiniteSet(stored') /\ Exact'
          /\ Fresh(Len(chain))' <=> Fresh(Len(chain))
      <4>1. PICK l : l = Len(chain)
        BY ZenonT(40)
      <4>2. Len(chain)' = l
        BY <1>1, <4>1
      <4> QED BY <2>2, <3>1, <3>2, <4>1, <4>2, StoreCounts, Zenon DEF BackendInv, Fresh
    <3> QED BY <1>1, <3>2, <3>3 DEF Counted, Exact
  <2> QED BY <1>1, <2>1, <2>2
<1>9. Answered'
  BY <1>1, <1>3, <1>4, <1>5, SMTT(30) DEF Answered, None, S_OK, S_IOERR
<1>10. ReadSoFar'
  <2>1. DOMAIN mem' = InMemory
    <3>1. DOMAIN mem = InMemory
      BY SMTT(30) DEF BackendInv, ReadSoFar
    <3> QED BY <1>1, <1>6, <3>1, StoreKeeps, SMTT(30)
  <2> QED BY <1>1, <2>1 DEF ReadSoFar
<1>11. WrittenSoFar'
  BY <1>1 DEF BackendInv, WrittenSoFar, OpenedDisk
<1> QED BY <1>2, <1>7, <1>8, <1>9, <1>10, <1>11, SMTT(30) DEF BackendInv

\* What holds when the data loop is at a segment.
LEMMA AtSegment ==
  ASSUME BackendInv, stage = "segments", seg \in DataPositions
  PROVE  /\ device = "blk" /\ pc = "done" /\ status = None /\ ~ioFailed /\ Fits
         /\ chain \in Seq(InMemory) /\ Len(chain) \in Nat /\ Len(chain) >= 2
         /\ seg \in Nat /\ 2 <= seg /\ seg < Len(chain) /\ chain[seg] \in InMemory
         /\ segLen \in Nat /\ offset \in Nat /\ offset = start + LengthUpTo(seg - 1)
         /\ start \in Nat /\ totalLen \in Nat /\ LengthUpTo(seg - 1) \in Nat
         /\ LengthUpTo(seg) = LengthUpTo(seg - 1) + segLen
         /\ LengthUpTo(seg) <= totalLen
         /\ offset + segLen <= start + totalLen /\ offset + segLen <= FileLen
<1>1. /\ device = "blk" /\ pc = "done" /\ status = None /\ ~ioFailed /\ Fits
      /\ Len(chain) >= 2 /\ seg \in Nat
  BY DEF BackendInv, Control, Answered, WalkInv, WalkTypeOK
<1>2. /\ chain \in Seq(InMemory) /\ Len(chain) \in Nat /\ start \in Nat /\ totalLen \in Nat
      /\ chain[seg] \in InMemory /\ segLen \in Nat
  BY <1>1, Numbers DEF segLen
<1>3. /\ LengthUpTo(seg - 1) \in Nat /\ LengthUpTo(seg) <= totalLen
      /\ LengthUpTo(seg) = LengthUpTo(seg - 1) + segLen
  BY <1>1, Place DEF segLen
<1>4. 2 <= seg /\ seg < Len(chain)
  BY <1>1, <1>2 DEF DataPositions
<1>5. /\ offset \in Nat /\ offset = start + LengthUpTo(seg - 1)
      /\ offset + segLen <= start + totalLen
  BY <1>2, <1>3, SMTT(30) DEF offset
<1>6. offset + segLen <= FileLen
  BY <1>1, <1>2, <1>5, Capacity, SMTT(30) DEF Fits
<1> QED BY <1>1, <1>2, <1>3, <1>4, <1>5, <1>6, SMTT(30)

LEMMA ReadSegmentInv ==
  ASSUME BackendInv, ReadSegment
  PROVE  BackendInv'
<1>1. /\ UNCHANGED <<device, req, disk>>
      /\ UNCHANGED walkVars /\ UNCHANGED <<chain, pc>>
      /\ stage = "segments" /\ seg \in DataPositions /\ req.type = "in"
      /\ \/ /\ ioFailed' = FALSE
            /\ Store(seg, [j \in 0..(segLen - 1) |-> disk[offset + j]])
            /\ Count(segLen) /\ seg' = seg + 1
            /\ stage' = stage /\ status' = status
         \/ /\ ioFailed' = TRUE \/ (ioFailed' = FALSE /\ chain[seg] \in Outside)
            /\ stage' = "status" /\ status' = S_IOERR
            /\ UNCHANGED <<mem, stored, written, seg>>
  BY Zenon DEF ReadSegment, InSegment, Return, walkVars, request
<1>2. WalkInv'
  BY <1>1, WalkNextInv DEF BackendInv
<1>3. /\ device = "blk" /\ pc = "done" /\ status = None /\ ~ioFailed /\ Fits
      /\ chain \in Seq(InMemory) /\ Len(chain) \in Nat /\ Len(chain) >= 2
      /\ seg \in Nat /\ 2 <= seg /\ seg < Len(chain) /\ chain[seg] \in InMemory
      /\ segLen \in Nat /\ offset \in Nat /\ offset = start + LengthUpTo(seg - 1)
      /\ offset + segLen <= FileLen
  BY <1>1, AtSegment
<1>4. /\ DataPositions' = DataPositions
      /\ Fits' <=> Fits
      /\ Len(chain)' = Len(chain)
  BY <1>1, SameRequest
<1>5. Control'
  BY <1>1, <1>3, <1>4, SMTT(30) DEF BackendInv, Control, S_OK, S_IOERR, None
<1>6. Counted'
  <2>1. /\ IsFiniteSet(stored) /\ Exact
        /\ \A k \in Nat : k >= seg => Fresh(k)
    BY <1>1 DEF BackendInv, Counted, Exact
  <2>2. CASE UNCHANGED <<mem, stored, written, seg>> /\ stage' = "status"
    BY <1>3, <1>4, <2>1, <2>2 DEF Counted, Exact, Fresh
  <2>3. CASE /\ Store(seg, [j \in 0..(segLen - 1) |-> disk[offset + j]])
             /\ Count(segLen) /\ seg' = seg + 1 /\ stage' = stage
    <3>1. stored' = stored \cup ({seg} \X (0..(segLen - 1))) /\ Fresh(seg)
      BY <1>3, <2>1, <2>3 DEF Store
    <3>2. /\ IsFiniteSet(stored') /\ Exact'
          /\ \A k : k # seg => (Fresh(k)' <=> Fresh(k))
      BY <1>3, <2>3, <3>1, StoreCounts, Zenon DEF BackendInv
    <3>3. \A k \in Nat : k >= seg' => Fresh(k)'
      BY <1>3, <2>1, <2>3, <3>2
    <3> QED BY <1>1, <2>3, <3>2, <3>3, SMTT(30) DEF Counted, Exact
  <2> QED BY <1>1, <2>2, <2>3
<1>7. Answered'
  BY <1>1, <1>3, <1>4, SMTT(30) DEF Answered, None, S_OK, S_IOERR
<1>8. ReadSoFar'
  <2>1. DOMAIN mem = InMemory /\ SegmentsRead
    BY <1>1 DEF BackendInv, ReadSoFar
  <2>2. CASE UNCHANGED <<mem, stored, written, seg>> /\ stage' = "status"
    BY <1>1, <2>1, <2>2, SameSegments DEF ReadSoFar
  <2>3. CASE /\ Store(seg, [j \in 0..(segLen - 1) |-> disk[offset + j]])
             /\ seg' = seg + 1 /\ stage' = stage
    <3>1. /\ DOMAIN mem' = InMemory
          /\ \A j \in 0..(segLen - 1) : mem'[chain[seg]][j] = disk[offset + j]
          /\ \A i \in InMemory : i # chain[seg] => mem'[i] = mem[i]
      BY <1>3, <2>1, <2>3, StoreKeeps, SMTT(30)
    <3>2. \A j \in 0..(segLen - 1) : disk[offset + j] = DiskByte(At(seg, j))
      <4>1. disk = OpenedDisk
        BY <1>1 DEF BackendInv, WrittenSoFar
      <4>2. \A j \in 0..(segLen - 1) : offset + j \in 0..(FileLen - 1) /\ At(seg, j) = offset + j
        BY <1>3, Capacity, SMTT(30) DEF At
      <4> QED BY <4>1, <4>2 DEF OpenedDisk
    <3>3. ASSUME NEW k \in 2..seg, LastUse(k)
          PROVE  \A j \in 0..(BufLen[chain[k]] - 1) : mem'[chain[k]][j] = DiskByte(At(k, j))
      <4>1. CASE k = seg
        BY <3>1, <3>2, <4>1, SMTT(30) DEF segLen
      <4>2. CASE k # seg
        <5>1. k \in 2..(seg - 1) /\ seg \in (k + 1)..Len(chain) /\ k \in 1..Len(chain)
          BY <1>3, <4>2
        <5>2. chain[seg] # chain[k] /\ chain[k] \in InMemory
          BY <1>3, <3>3, <5>1, SMTT(30) DEF LastUse
        <5> QED BY <2>1, <3>1, <3>3, <5>1, <5>2 DEF SegmentsRead
      <4> QED BY <4>1, <4>2
    <3>4. seg' - 1 = seg
      BY <1>3, <2>3, SMTT(30)
    <3>5. SegmentsRead'
      BY <1>1, <3>3, <3>4, SameRequest, Zenon DEF SegmentsRead
    <3> QED BY <1>1, <2>3, <3>1, <3>5, Zenon DEF ReadSoFar
  <2> QED BY <1>1, <2>2, <2>3
<1>9. WrittenSoFar'
  BY <1>1 DEF BackendInv, WrittenSoFar, OpenedDisk
<1> QED BY <1>2, <1>5, <1>6, <1>7, <1>8, <1>9, SMTT(30) DEF BackendInv

\* W, in numbers: the n bytes at o that a write of a segment of length len puts
\* in a file of length F, where o is a bytes after s and m is how far it gets.
IsWindow(s, a, n, len, F, o, W, m) ==
  /\ W \subseteq 0..(F - 1)
  /\ \A b \in W : /\ b - o \in 0..(len - 1) /\ s + a + (b - o) = b
                  /\ s <= b /\ b < s + m
  /\ \A b \in 0..(F - 1) : b \notin W =>
       ((s <= b /\ b < s + m) <=> (s <= b /\ b < o))
  /\ \A b \in 0..(F - 1) : b < o => b \notin W
  /\ \A j \in 0..(n - 1) : o + j \in W /\ (o + j) - o = j

LEMMA Window ==
  ASSUME NEW s \in Nat, NEW a \in Nat, NEW n \in Nat, NEW len \in Nat, n <= len,
         NEW F \in Nat, NEW o \in Nat, o = s + a, o + len <= F,
         NEW W, W = o..(o + n - 1), NEW m, m = a + n
  PROVE  IsWindow(s, a, n, len, F, o, W, m)
BY DEF IsWindow

LEMMA Before ==
  ASSUME NEW s \in Nat, NEW a \in Nat, NEW l \in Nat, NEW b \in Nat, a + l <= b,
         NEW j \in 0..(l - 1)
  PROVE  s + a + j \in Nat /\ s + a + j < s + b
OBVIOUS

\* The first n bytes of a segment written at their place: the prefix of the
\* request that is on the disk grows by them.
LEMMA WriteGrowsPrefix ==
  ASSUME BackendInv, stage = "segments", seg \in DataPositions, req.type = "out",
         UNCHANGED <<chain, req>>, NEW n \in Nat, n <= segLen,
         NEW f, disk' = Over(f, disk), DOMAIN f = offset..(offset + n - 1),
         \A b \in DOMAIN f : f[b] = mem[chain[seg]][b - offset],
         NEW m, m = LengthUpTo(seg - 1) + n
  PROVE  /\ DOMAIN disk' = 0..(FileLen - 1)
         /\ Prefix(m)'
         /\ \A b \in DOMAIN disk : b < offset => disk'[b] = disk[b]
         /\ \A j \in 0..(n - 1) : disk'[offset + j] = MemByte(chain[seg], j)
<1>1. /\ Len(chain) >= 2 /\ seg \in Nat /\ chain[seg] \in InMemory
      /\ segLen \in Nat /\ offset \in Nat /\ start \in Nat /\ LengthUpTo(seg - 1) \in Nat
      /\ offset = start + LengthUpTo(seg - 1) /\ offset + segLen <= FileLen
  BY AtSegment
<1>2. FileLen \in Nat
  BY Capacity
<1>3. /\ DOMAIN disk = 0..(FileLen - 1) /\ mem = GuestBuffers
      /\ Prefix(LengthUpTo(seg - 1))
  BY DEF BackendInv, WrittenSoFar
<1>4. /\ DOMAIN f \subseteq 0..(FileLen - 1)
      /\ \A b \in DOMAIN f : /\ b - offset \in 0..(segLen - 1)
                             /\ start + LengthUpTo(seg - 1) + (b - offset) = b
                             /\ start <= b /\ b < start + m
      /\ \A b \in 0..(FileLen - 1) : b \notin DOMAIN f =>
           ((start <= b /\ b < start + m) <=> (start <= b /\ b < offset))
      /\ \A b \in 0..(FileLen - 1) : b < offset => b \notin DOMAIN f
      /\ \A j \in 0..(n - 1) : offset + j \in DOMAIN f /\ (offset + j) - offset = j
  <2>1. IsWindow(start, LengthUpTo(seg - 1), n, segLen, FileLen, offset, DOMAIN f, m)
    BY <1>1, <1>2, Window, Zenon
  <2> QED BY <2>1, Zenon DEF IsWindow
<1>5. DOMAIN disk' = 0..(FileLen - 1)
  BY <1>3, <1>4 DEF Over
<1>6. \A b \in DOMAIN f :
        /\ disk'[b] = MemByte(chain[seg], b - offset)
        /\ b - offset \in 0..(BufLen[chain[seg]] - 1)
  <2> TAKE b \in DOMAIN f
  <2>1. b - offset \in 0..(BufLen[chain[seg]] - 1)
    BY <1>4, Zenon DEF segLen
  <2>2. disk'[b] = mem[chain[seg]][b - offset]
    BY DEF Over
  <2> QED BY <1>1, <1>3, <2>1, <2>2 DEF GuestBuffers
<1>7. \A b \in DOMAIN disk : b \notin DOMAIN f => disk'[b] = disk[b]
  BY DEF Over
<1>8. Prefix(m)'
  <2>1. ASSUME NEW b \in 0..(FileLen - 1)
        PROVE  IF start <= b /\ b < start + m
               THEN \E k \in DataPositions : \E j \in 0..(BufLen[chain[k]] - 1) :
                      At(k, j) = b /\ disk'[b] = MemByte(chain[k], j)
               ELSE disk'[b] = DiskByte(b)
    <3>1. IF start <= b /\ b < offset
          THEN \E k \in DataPositions : \E j \in 0..(BufLen[chain[k]] - 1) :
                 At(k, j) = b /\ disk[b] = MemByte(chain[k], j)
          ELSE disk[b] = DiskByte(b)
      BY <1>1, <1>3, Zenon DEF Prefix
    <3>2. CASE b \in DOMAIN f
      <4>1. At(seg, b - offset) = b /\ start <= b /\ b < start + m
        BY <1>4, <3>2, Zenon DEF At
      <4> QED BY <1>6, <3>2, <4>1
    <3>3. CASE b \notin DOMAIN f
      <4>1. disk'[b] = disk[b]
        BY <1>3, <1>7, <3>3
      <4>2. (start <= b /\ b < start + m) <=> (start <= b /\ b < offset)
        BY <1>4, <3>3, Zenon
      <4> QED BY <3>1, <4>1, <4>2
    <3> QED BY <3>2, <3>3
  <2> QED BY <1>5, <2>1, SameRequest DEF Prefix
<1>9. \A b \in DOMAIN disk : b < offset => disk'[b] = disk[b]
  <2> SUFFICES ASSUME NEW b \in DOMAIN disk, b < offset PROVE b \notin DOMAIN f
    BY <1>7
  <2> QED BY <1>3, <1>4, Zenon
<1>10. \A j \in 0..(n - 1) : disk'[offset + j] = MemByte(chain[seg], j)
  <2> TAKE j \in 0..(n - 1)
  <2> QED BY <1>4, <1>6, Zenon
<1> QED BY <1>5, <1>8, <1>9, <1>10, SMTT(30)

LEMMA WriteSegmentInv ==
  ASSUME BackendInv, WriteSegment
  PROVE  BackendInv'
<1>1. /\ UNCHANGED <<device, req, mem, written, stored>>
      /\ UNCHANGED walkVars /\ UNCHANGED <<chain, pc>>
      /\ stage = "segments" /\ seg \in DataPositions /\ req.type = "out"
  BY DEF WriteSegment, InSegment, walkVars, request
<1>2. \/ /\ chain[seg] \in Outside /\ stage' = "status" /\ status' = S_IOERR
         /\ UNCHANGED <<disk, seg, ioFailed>>
      \/ \E n \in 0..segLen :
           /\ disk' = Over([b \in offset..(offset + n - 1) |-> mem[chain[seg]][b - offset]], disk)
           /\ \/ n = segLen /\ seg' = seg + 1 /\ stage' = stage /\ status' = status
                 /\ ioFailed' = ioFailed
              \/ stage' = "status" /\ status' = S_IOERR /\ ioFailed' = TRUE /\ seg' = seg
  BY Zenon DEF WriteSegment, Return
<1>3. \/ /\ stage' = stage /\ status' = status /\ ioFailed' = ioFailed /\ seg' = seg + 1
      \/ /\ stage' = "status" /\ status' = S_IOERR /\ seg' = seg
         /\ ioFailed' = TRUE \/ (ioFailed' = ioFailed /\ chain[seg] \in Outside)
  BY <1>2, Zenon
<1>4. WalkInv'
  BY <1>1, WalkNextInv DEF BackendInv
<1>5. /\ device = "blk" /\ pc = "done" /\ status = None /\ ~ioFailed /\ Fits
      /\ chain \in Seq(InMemory) /\ Len(chain) \in Nat /\ Len(chain) >= 2
      /\ seg \in Nat /\ 2 <= seg /\ seg < Len(chain)
      /\ segLen \in Nat /\ offset \in Nat /\ offset = start + LengthUpTo(seg - 1)
      /\ start \in Nat /\ totalLen \in Nat /\ LengthUpTo(seg - 1) \in Nat
      /\ LengthUpTo(seg) = LengthUpTo(seg - 1) + segLen /\ LengthUpTo(seg) <= totalLen
  BY <1>1, AtSegment
<1>6. /\ DataPositions' = DataPositions
      /\ Fits' <=> Fits
      /\ totalLen' = totalLen
      /\ \A k : Fresh(k)' <=> Fresh(k)
  BY <1>1, SameRequest DEF Fresh
<1> HIDE <1>2
<1>7. Control'
  BY <1>1, <1>3, <1>5, <1>6, SMTT(30) DEF BackendInv, Control, S_OK, S_IOERR, None
<1>8. Counted'
  BY <1>1, <1>3, <1>5, <1>6, SMTT(30) DEF BackendInv, Counted, Exact
<1>9. Answered'
  BY <1>1, <1>3, <1>5, <1>6, SMTT(30) DEF Answered, None, S_OK, S_IOERR
<1>10. ReadSoFar'
  BY <1>1, <1>3 DEF BackendInv, ReadSoFar
<1>11. WrittenSoFar'
  <2>1. /\ DOMAIN disk = 0..(FileLen - 1) /\ mem = GuestBuffers /\ Prefix(LengthUpTo(seg - 1))
        /\ SegmentsWritten
    BY <1>1 DEF BackendInv, WrittenSoFar
  <2>2. mem' = GuestBuffers'
    BY <1>1, <2>1 DEF GuestBuffers
  <2>3. CASE UNCHANGED <<disk, seg>> /\ stage' = "status"
    <3>1. LengthUpTo(seg - 1) \in 0..totalLen
      BY <1>5
    <3>2. SomePrefix'
      BY <1>1, <2>1, <2>3, <3>1, SameDisk, Zenon DEF SomePrefix
    <3> QED BY <1>1, <1>5, <1>6, <2>1, <2>3, <3>2, SameSegments DEF WrittenSoFar
  <2>4. ASSUME NEW n \in 0..segLen,
               disk' = Over([b \in offset..(offset + n - 1) |-> mem[chain[seg]][b - offset]], disk),
               \/ n = segLen /\ seg' = seg + 1 /\ stage' = stage
               \/ stage' = "status" /\ seg' = seg
        PROVE  WrittenSoFar'
    <3>1. PICK f : /\ f = [b \in offset..(offset + n - 1) |-> mem[chain[seg]][b - offset]]
      BY Zenon
    <3>2. /\ disk' = Over(f, disk) /\ DOMAIN f = offset..(offset + n - 1)
          /\ \A b \in DOMAIN f : f[b] = mem[chain[seg]][b - offset]
      BY <2>4, <3>1
    <3>3. PICK m : m = LengthUpTo(seg - 1) + n
      BY Zenon
    <3>4. n \in Nat /\ n <= segLen
      BY <1>5
    <3>5. /\ DOMAIN disk' = 0..(FileLen - 1)
          /\ Prefix(m)'
          /\ \A b \in DOMAIN disk : b < offset => disk'[b] = disk[b]
          /\ \A j \in 0..(n - 1) : disk'[offset + j] = MemByte(chain[seg], j)
      BY <1>1, <3>2, <3>3, <3>4, WriteGrowsPrefix, ZenonT(40)
    <3>6. m \in 0..totalLen
      BY <1>5, <3>3, <3>4, SMTT(30)
    <3>7. ASSUME NEW k \in 2..(seg - 1), NEW j \in 0..(BufLen[chain[k]] - 1)
          PROVE  disk'[At(k, j)] = MemByte(chain[k], j)
      <4>1. k \in DataPositions /\ k \in Nat /\ seg - 1 \in Nat /\ k <= seg - 1
            /\ seg - 1 <= Len(chain)
        BY <1>5, SMTT(30) DEF DataPositions
      <4>2. /\ LengthUpTo(k - 1) \in Nat /\ BufLen[chain[k]] \in Nat
            /\ LengthUpTo(k) = LengthUpTo(k - 1) + BufLen[chain[k]]
        BY <1>5, <4>1, Place, Zenon
      <4>3. LengthUpTo(k) <= LengthUpTo(seg - 1)
        BY <1>5, <4>1, LengthMonotonic, Zenon
      <4>4. At(k, j) \in Nat /\ At(k, j) < offset
        <5>1. LengthUpTo(k - 1) + BufLen[chain[k]] <= LengthUpTo(seg - 1)
          BY <4>2, <4>3, Zenon
        <5>2. /\ start + LengthUpTo(k - 1) + j \in Nat
              /\ start + LengthUpTo(k - 1) + j < start + LengthUpTo(seg - 1)
          BY <1>5, <4>2, <5>1, Before, ZenonT(40)
        <5> QED BY <1>5, <5>2, Zenon DEF At
      <4>5. At(k, j) \in DOMAIN disk
        <5>1. offset <= FileLen /\ FileLen \in Nat
          <6>1. offset \in Nat /\ segLen \in Nat /\ offset + segLen <= FileLen
            BY <1>1, AtSegment, Zenon
          <6>2. FileLen \in Nat
            BY Capacity
          <6> QED BY <6>1, <6>2
        <5>2. At(k, j) \in 0..(FileLen - 1)
          BY <1>5, <4>4, <5>1, SMTT(30)
        <5> QED BY <2>1, <5>2
      <4> QED BY <2>1, <3>5, <3>7, <4>4, <4>5 DEF SegmentsWritten
    <3>8. CASE n = segLen /\ seg' = seg + 1 /\ stage' = stage
      <4>1. seg' - 1 = seg /\ m = LengthUpTo(seg)
        BY <1>5, <3>3, <3>8
      <4>2. ASSUME NEW k \in 2..seg, NEW j \in 0..(BufLen[chain[k]] - 1)
            PROVE  disk'[At(k, j)] = MemByte(chain[k], j)
        <5>1. CASE k = seg
          <6>1. At(seg, j) = offset + j /\ j \in 0..(n - 1)
            BY <1>5, <3>8, <5>1, SMTT(30) DEF At, segLen
          <6> QED BY <3>5, <5>1, <6>1, SMTT(30)
        <5>2. CASE k # seg
          <6>1. k \in 2..(seg - 1)
            BY <1>5, <5>2
          <6> QED BY <3>7, <6>1
        <5> QED BY <5>1, <5>2
      <4>3. LengthUpTo(seg - 1)' = m
        BY <1>1, <4>1, SameRequest
      <4> HIDE <2>4, <3>8
      <4>4. stage' = "segments"
        BY <1>1, <3>8, SMTT(30)
      <4>5. SegmentsWritten'
        BY <1>1, <4>1, <4>2, SameRequest DEF SegmentsWritten
      <4>6. Prefix(LengthUpTo(seg - 1))'
        BY <3>5, <4>3 DEF Prefix
      <4> QED BY <1>1, <1>5, <1>6, <2>2, <3>5, <4>4, <4>5, <4>6 DEF WrittenSoFar
    <3>9. CASE stage' = "status" /\ seg' = seg
      <4>1. SegmentsWritten'
        BY <1>1, <3>7, <3>9, SameRequest DEF SegmentsWritten
      <4>2. SomePrefix'
        BY <1>6, <3>5, <3>6, Zenon DEF SomePrefix
      <4> QED BY <1>1, <1>5, <1>6, <3>5, <3>9, <4>1, <4>2 DEF WrittenSoFar
    <3> QED BY <2>4, <3>8, <3>9
  <2> QED BY <1>2, <2>3, <2>4, Zenon
<1> QED BY <1>4, <1>7, <1>8, <1>9, <1>10, <1>11, SMTT(30) DEF BackendInv

LEMMA WriteStatusInv ==
  ASSUME BackendInv, WriteStatus
  PROVE  BackendInv'
<1>1. /\ UNCHANGED <<device, req, disk, seg, status, ioFailed>>
      /\ UNCHANGED walkVars /\ UNCHANGED <<chain, pc>>
      /\ stage = "status" /\ stage' = "used"
      /\ \/ UNCHANGED <<mem, stored, written>>
         \/ Store(Len(chain), [j \in 0..0 |-> StatusByte]) /\ Count(1)
  BY DEF WriteStatus, walkVars, request
<1>2. WalkInv'
  BY <1>1, WalkNextInv DEF BackendInv
<1>3. /\ device = "blk" /\ pc = "done" /\ Fresh(Len(chain))
      /\ chain \in Seq(InMemory) /\ Len(chain) \in Nat /\ Len(chain) >= 2
      /\ seg \in Nat \ {0} /\ seg <= Len(chain)
  BY <1>1 DEF BackendInv, Control, WalkInv, WalkTypeOK, Counted, Exact
<1>4. /\ DataPositions' = DataPositions /\ totalLen' = totalLen
      /\ Fits' <=> Fits
      /\ Len(chain)' = Len(chain)
      /\ chain[Len(chain)] \in InMemory
  BY <1>1, <1>3, SameRequest
<1>5. Control'
  BY <1>1, <1>3, <1>4 DEF BackendInv, Control
<1>6. Counted'
  <2>1. CASE UNCHANGED <<mem, stored, written>>
    BY <1>1, <2>1 DEF BackendInv, Counted, Exact
  <2>2. CASE Store(Len(chain), [j \in 0..0 |-> StatusByte]) /\ Count(1)
    <3>1. stored' = stored \cup ({Len(chain)} \X (0..(1 - 1)))
      BY <2>2 DEF Store
    <3>2. IsFiniteSet(stored') /\ Exact'
      BY <1>3, <2>2, <3>1, StoreCounts, ZenonT(40) DEF BackendInv
    <3> QED BY <1>1, <3>2 DEF Counted, Exact
  <2> QED BY <1>1, <2>1, <2>2
<1>7. Answered'
  BY <1>1, <1>3, <1>4 DEF BackendInv, Answered
<1>8. ReadSoFar'
  <2>1. DOMAIN mem = InMemory /\ (req.type = "in" => SegmentsRead)
    BY DEF BackendInv, ReadSoFar
  <2>2. CASE UNCHANGED <<mem, stored, written>>
    BY <1>1, <2>1, <2>2, SameSegments DEF ReadSoFar
  <2>3. CASE Store(Len(chain), [j \in 0..0 |-> StatusByte])
    <3>1. /\ DOMAIN mem' = InMemory
          /\ \A i \in InMemory : i # chain[Len(chain)] => mem'[i] = mem[i]
      BY <1>4, <2>1, <2>3, StoreKeeps, SMTT(30)
    <3>2. ASSUME NEW k \in 2..(seg - 1), LastUse(k)
          PROVE  mem'[chain[k]] = mem[chain[k]]
      <4>1. Len(chain) \in (k + 1)..Len(chain) /\ k \in 1..Len(chain)
        BY <1>3
      <4>2. chain[Len(chain)] # chain[k] /\ chain[k] \in InMemory
        BY <1>3, <3>2, <4>1, SMTT(30) DEF LastUse
      <4> QED BY <3>1, <4>2
    <3>3. SegmentsRead => SegmentsRead'
      BY <1>1, <3>2, SameRequest DEF SegmentsRead
    <3> QED BY <1>1, <2>1, <3>1, <3>3 DEF ReadSoFar
  <2> QED BY <1>1, <2>2, <2>3
<1>9. WrittenSoFar'
  BY <1>1, <1>4, SameDisk, SameSegments DEF BackendInv, WrittenSoFar
<1> QED BY <1>2, <1>5, <1>6, <1>7, <1>8, <1>9, SMTT(30) DEF BackendInv

LEMMA RngSegmentInv ==
  ASSUME BackendInv, RngSegment
  PROVE  BackendInv'
<1>1. /\ UNCHANGED <<device, req, disk, stage, status>>
      /\ UNCHANGED walkVars /\ UNCHANGED <<chain, pc>>
      /\ device = "rng" /\ pc = "done" /\ stage = "chain" /\ seg <= Len(chain)
      /\ seg' = seg + 1 /\ ioFailed' \in BOOLEAN
      /\ \/ UNCHANGED <<mem, stored, written>>
         \/ /\ Store(seg, [j \in 0..(segLen - 1) |-> Entropy])
            /\ Count(segLen)
  BY DEF RngSegment, walkVars, request
<1>2. WalkInv'
  BY <1>1, WalkNextInv DEF BackendInv
<1>3. /\ req.type = "other" /\ seg \in Nat \ {0} /\ status = None
      /\ chain \in Seq(InMemory) /\ Len(chain) \in Nat
  BY <1>1 DEF BackendInv, Control, WalkInv, WalkTypeOK, Answered
<1>4. chain[seg] \in InMemory /\ segLen \in Nat
  <2>1. seg \in 1..Len(chain)
    BY <1>1, <1>3
  <2> QED BY <1>3, <2>1, BytesOfCount DEF segLen
<1>5. Control'
  BY <1>1, <1>3 DEF BackendInv, Control, S_OK, None
<1>6. Counted'
  <2>1. /\ IsFiniteSet(stored) /\ Exact
        /\ \A k \in Nat : k >= seg => Fresh(k)
    BY <1>1 DEF BackendInv, Counted, Exact
  <2>2. CASE UNCHANGED <<mem, stored, written>>
    BY <1>1, <1>3, <2>1, <2>2 DEF Counted, Exact, Fresh
  <2>3. CASE /\ Store(seg, [j \in 0..(segLen - 1) |-> Entropy])
             /\ Count(segLen)
    <3>1. stored' = stored \cup ({seg} \X (0..(segLen - 1))) /\ Fresh(seg)
      BY <1>3, <2>1, <2>3 DEF Store
    <3>2. /\ IsFiniteSet(stored') /\ Exact'
          /\ \A k : k # seg => (Fresh(k)' <=> Fresh(k))
      BY <1>4, <2>3, <3>1, StoreCounts, Zenon DEF BackendInv
    <3>3. \A k \in Nat : k >= seg' => Fresh(k)'
      BY <1>1, <1>3, <2>1, <3>2
    <3> QED BY <1>1, <3>2, <3>3 DEF Counted, Exact
  <2> QED BY <1>1, <2>2, <2>3
<1>7. Answered'
  BY <1>1, <1>3 DEF Answered, None, S_OK, S_IOERR
<1>8. ReadSoFar'
  <2>1. DOMAIN mem' = InMemory
    <3>1. DOMAIN mem = InMemory
      BY DEF BackendInv, ReadSoFar
    <3> QED BY <1>1, <1>4, <3>1, StoreKeeps
  <2> QED BY <1>1, <1>3, <2>1 DEF ReadSoFar
<1>9. WrittenSoFar'
  BY <1>1, <1>3 DEF BackendInv, WrittenSoFar, OpenedDisk
<1> QED BY <1>2, <1>5, <1>6, <1>7, <1>8, <1>9 DEF BackendInv

\* A chain without data segments has no bytes.
LEMMA TotalIsNat ==
  ASSUME chain \in Seq(InMemory)
  PROVE  totalLen \in Nat
<1>1. Len(chain) \in Nat
  OBVIOUS
<1>2. CASE Len(chain) = 0
  <2>1. 2..(Len(chain) - 1) = {}
    BY <1>2
  <2>2. BytesUpTo(Len(chain) - 1) = {}
    BY <2>1 DEF BytesUpTo
  <2> QED BY <2>2, FS_EmptySet DEF totalLen, LengthUpTo
<1>3. CASE Len(chain) # 0
  <2>1. Len(chain) - 1 \in Nat /\ Len(chain) - 1 <= Len(chain)
    BY <1>1, <1>3
  <2> QED BY <2>1, BytesFinite DEF totalLen
<1> QED BY <1>2, <1>3

LEMMA BackendNextInv == BackendInv /\ [BackendNext]_backendVars => BackendInv'
<1> SUFFICES ASSUME BackendInv, [BackendNext]_backendVars PROVE BackendInv'
  OBVIOUS
<1>1. CASE Collecting
  BY <1>1, CollectingInv
<1>2. CASE NoRequest \/ RngDone \/ Used \/ UNCHANGED backendVars
  BY <1>2, NoRequestInv
<1>3. CASE ReadHeader
  BY <1>3, ReadHeaderInv
<1>4. CASE Flush \/ UnknownSegment \/ SegmentsDone
  BY <1>4, ReturnInv, SMTT(30)
<1>5. CASE GetId
  BY <1>5, GetIdInv
<1>6. CASE CheckBounds
  BY <1>6, CheckBoundsInv
<1>7. CASE ReadSegment
  BY <1>7, ReadSegmentInv
<1>8. CASE WriteSegment
  BY <1>8, WriteSegmentInv
<1>9. CASE WriteStatus
  BY <1>9, WriteStatusInv
<1>10. CASE RngSegment
  BY <1>10, RngSegmentInv
<1> QED BY <1>1, <1>2, <1>3, <1>4, <1>5, <1>6, <1>7, <1>8, <1>9, <1>10, SMTT(30)
        DEF BackendNext, Step, BlkStep

LEMMA BackendAlways == BackendSpec => []BackendInv
BY BackendInitInv, BackendNextInv, PTL DEF BackendSpec

\* For every descriptor table, disk image and place of the failures: a chain
\* that the guest laid out within the queue's size is collected whole and in
\* order (Virtqueue's chain walk).
THEOREM ChainCorrect == BackendSpec => []FittingChainIsWhole
<1>1. BackendInv => FittingChainIsWhole
  BY WholeChain DEF BackendInv
<1> QED BY <1>1, BackendAlways, PTL

\* For every descriptor table, disk image and place of the failures: a request
\* answered S_OK was carried out in full, each data segment at its place behind
\* the ones before it (VirtioBlk::execute).
THEOREM OkCorrect == BackendSpec => []OkMeansDone
<1>1. BackendInv => OkMeansDone
  <2> SUFFICES ASSUME BackendInv, device = "blk", stage = "used", status = S_OK,
                      NEW k \in DataPositions, NEW j \in 0..(BufLen[chain[k]] - 1)
               PROVE  /\ req.type = "in" /\ LastUse(k) => mem[chain[k]][j] = DiskByte(At(k, j))
                      /\ req.type = "out" => disk[At(k, j)] = MemByte(chain[k], j)
    BY DEF OkMeansDone
  <2>1. req.type \in {"in", "out"} => k \in 2..(seg - 1)
    BY DEF BackendInv, Control, DataPositions
  <2>2. (req.type = "in" => SegmentsRead) /\ (req.type = "out" => SegmentsWritten)
    BY DEF BackendInv, ReadSoFar, WrittenSoFar
  <2> QED BY <2>1, <2>2 DEF SegmentsRead, SegmentsWritten
<1> QED BY <1>1, BackendAlways, PTL

\* For every descriptor table, disk image and place of the failures: the image
\* keeps its length, and differs from the one opened by a prefix of the data of
\* one write request, inside the range it names and the advertised capacity
\* (VirtioBlk::execute).
THEOREM DiskCorrect == BackendSpec => []DiskHoldsAPrefix
<1>1. BackendInv => DiskHoldsAPrefix
  <2> SUFFICES ASSUME BackendInv PROVE DiskHoldsAPrefix
    OBVIOUS
  <2>1. /\ DOMAIN disk = 0..(FileLen - 1) /\ DOMAIN disk = DOMAIN OpenedDisk
        /\ req.sector \in Nat /\ chain \in Seq(InMemory) /\ Len(chain) \in Nat
    BY DEF BackendInv, WrittenSoFar, OpenedDisk, Control, WalkInv, WalkTypeOK
  <2>2. start \in Nat /\ diskBytes \in Nat /\ FileLen \in Nat
    BY <2>1, Capacity DEF start
  <2>3. CASE disk = OpenedDisk
    <3>1. 0 \in 0..diskBytes /\ \A b \in DOMAIN disk : ~(start <= b /\ b < start + 0)
      BY <2>1, <2>2
    <3>2. \A b \in DOMAIN disk : disk[b] = DiskByte(b)
      BY <2>1, <2>3 DEF OpenedDisk
    <3> QED BY <2>1, <3>1, <3>2 DEF DiskHoldsAPrefix
  <2>4. CASE disk # OpenedDisk
    <3>1. req.type = "out" /\ stage \in {"segments", "status", "used"} /\ Fits
      BY <2>4 DEF BackendInv, WrittenSoFar, Control
    <3>2. totalLen \in Nat
      BY <2>1, TotalIsNat
    <3>3. SomePrefix
      <4>1. CASE stage = "segments"
        <5>1. /\ seg - 1 \in Nat /\ Len(chain) - 1 \in Nat
              /\ seg - 1 <= Len(chain) - 1 /\ Len(chain) - 1 <= Len(chain)
          BY <2>1, <4>1 DEF BackendInv, Control
        <5>2. LengthUpTo(seg - 1) <= totalLen /\ LengthUpTo(seg - 1) \in Nat
          BY <2>1, <5>1, LengthMonotonic DEF totalLen
        <5> QED BY <3>1, <3>2, <4>1, <5>2 DEF BackendInv, WrittenSoFar, SomePrefix
      <4>2. CASE stage # "segments"
        BY <3>1, <4>2 DEF BackendInv, WrittenSoFar
      <4> QED BY <4>1, <4>2
    <3>4. PICK n \in 0..totalLen : Prefix(n)
      BY <3>3 DEF SomePrefix
    <3>5. /\ n \in 0..diskBytes
          /\ \A b \in DOMAIN disk : b < start + n => b < diskBytes
      BY <2>1, <2>2, <3>1, <3>2 DEF Fits
    <3> QED BY <2>1, <3>1, <3>4, <3>5, SMTT(30) DEF DiskHoldsAPrefix, Prefix
  <2> QED BY <2>3, <2>4
<1> QED BY <1>1, BackendAlways, PTL

\* For every descriptor table and place of the failures: the length put into
\* the used ring is the number of bytes either backend stored in guest memory
\* (VirtioBlk::process_chain, VirtioRng::process_chain).
THEOREM UsedLengthCorrect == BackendSpec => []UsedLengthIsExact
<1>1. BackendInv => UsedLengthIsExact
  BY DEF BackendInv, Counted, Exact, UsedLengthIsExact
<1> QED BY <1>1, BackendAlways, PTL

\* For every descriptor table, capacity and place of the failures: an error has
\* a cause, and a failure of the host is never answered S_OK
\* (VirtioBlk::execute).
THEOREM ErrorsCorrect == BackendSpec => []ErrorsAreEarned
<1>1. BackendInv => ErrorsAreEarned
  <2> SUFFICES ASSUME BackendInv PROVE ErrorsAreEarned
    OBVIOUS
  <2>1. req.sector \in Nat /\ chain \in Seq(InMemory) /\ Len(chain) \in Nat
    BY DEF BackendInv, Control, WalkInv, WalkTypeOK
  <2>2. start \in Nat /\ diskBytes \in Nat /\ totalLen \in Nat
    BY <2>1, Capacity, TotalIsNat DEF start
  <2>3. ~Fits => start + totalLen > diskBytes
    BY <2>2 DEF Fits
  <2> QED BY <2>3 DEF BackendInv, Answered, ErrorsAreEarned, start, diskBytes
<1> QED BY <1>1, BackendAlways, PTL
=============================================================================
