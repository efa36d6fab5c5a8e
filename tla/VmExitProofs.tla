---------------------------- MODULE VmExitProofs ----------------------------
(***************************************************************************)
(* Proofs about Bus and VmExit, for every address width, access width, data *)
(* area and number of instructions and exits.                               *)
(*                                                                          *)
(* Bus: Sorted is inductive with TypeOK: a range that compares equal to no  *)
(* key is inserted where the search stopped, between its neighbours.  From  *)
(* Sorted follows that the search finds an overlapping key whenever there   *)
(* is one, which gives the exactness of dispatch and of registration.       *)
(*                                                                          *)
(* VmExit: ExitInv says of each place of the thread what it holds for the   *)
(* instruction that left the guest: while an exit is handled, the answers   *)
(* so far are in their slices of the data area; from there to the next run  *)
(* ioctl, the whole answer is in kvm_run or in the entry command.           *)
(***************************************************************************)
EXTENDS VmExit, SequenceTheorems, TLAPS, WellFoundedInduction

\* How a leaf that names no prover is tried.
USE SMT, Zenon, SMTT(30)

-----------------------------------------------------------------------------
(* The bus.                                                                 *)

\* A range as Bus::register lets it into the map, or the key of a lookup.
Key(r) ==
  /\ r \in BusRange /\ r.len > 0
  /\ r.base + r.len <= MaxAddr \/ (r.base = MaxAddr /\ r.len = 1)

\* A non-empty set of naturals has a least element.
LEMMA LeastElement ==
  ASSUME NEW T, T \subseteq Nat, T # {}
  PROVE  \E x \in T : \A y \in T : x <= y
<1> DEFINE R == OpToRel(<, Nat)
<1>1. PICK x \in T : \A y \in T : ~(<<y, x>> \in R)
  <2> HIDE DEF R
  <2>1. IsWellFoundedOn(R, Nat)
    BY NatLessThanWellFounded DEF R
  <2> QED BY <2>1, WFMin, Zenon
<1>2. \A y \in T : x <= y
  <2> TAKE y \in T
  <2>1. ~(<<y, x>> \in R)
    BY <1>1
  <2>2. x \in Nat /\ y \in Nat
    OBVIOUS
  <2> QED BY <2>1, <2>2 DEF OpToRel
<1> QED BY <1>2

\* The map search stops somewhere: Position names the first key that the wanted
\* range does not compare greater than, or the place after the last key.
LEMMA PositionStops ==
  ASSUME NEW map \in Seq(BusRange), NEW r
  PROVE  /\ Position(map, r) \in 1..(Len(map) + 1)
         /\ StopsAt(map, r, Position(map, r))
<1> DEFINE T == {i \in 1..(Len(map) + 1) : i = Len(map) + 1 \/ cmp(r, map[i]) # "Greater"}
<1>0. Len(map) \in Nat
  OBVIOUS
<1>1. T \subseteq Nat /\ Len(map) + 1 \in T
  BY <1>0
<1>2. PICK i \in T : \A j \in T : i <= j
  <2> HIDE DEF T
  <2> QED BY <1>1, LeastElement, Zenon
<1>3. i \in 1..(Len(map) + 1) /\ StopsAt(map, r, i)
  <2>1. ASSUME NEW j \in 1..(i - 1) PROVE cmp(r, map[j]) = "Greater"
    <3>1. j \in 1..(Len(map) + 1) /\ ~(i <= j)
      BY <1>0
    <3> QED BY <3>1, <1>2
  <2> QED BY <2>1 DEF StopsAt
<1> QED BY <1>3 DEF Position

-----------------------------------------------------------------------------
(* The search, on a well-ordered map.                                       *)

\* The base and the length of a range are numbers.
LEMMA RangeNumbers ==
  ASSUME NEW r \in BusRange
  PROVE  r.base \in Nat /\ r.len \in Nat
BY BusAssumption DEF BusRange, Addr

\* Comparing a key with a registered range, in plain arithmetic.
LEMMA Compare ==
  ASSUME NEW r, Key(r), NEW s \in BusRange, s.len > 0, s.base + s.len <= MaxAddr
  PROVE  /\ cmp(r, s) = "Equal" <=> r.base < s.base + s.len /\ s.base < r.base + r.len
         /\ cmp(r, s) = "Less" <=> r.base + r.len <= s.base
         /\ cmp(r, s) = "Greater" <=> s.base + s.len <= r.base
BY BusAssumption DEF Key, cmp, overlaps, end, BusRange, Addr

\* If some key of the map overlaps r, the search finds one that does.
LEMMA SearchFinds ==
  ASSUME NEW map \in Seq(BusRange), WellOrdered(map), NEW r, Key(r),
         NEW i \in 1..Len(map), cmp(r, map[i]) = "Equal"
  PROVE  ContainsKey(map, r)
<1> DEFINE p == Position(map, r)
<1>1. p \in 1..(Len(map) + 1) /\ StopsAt(map, r, p)
  BY PositionStops
<1> HIDE DEF p
<1>2. p <= i
  BY <1>1 DEF StopsAt
<1>3. p \in 1..Len(map) /\ map[p] \in BusRange /\ map[i] \in BusRange
  BY <1>1, <1>2
<1>4. cmp(r, map[p]) # "Greater"
  BY <1>1, <1>3 DEF StopsAt
<1>5. cmp(r, map[p]) # "Less"
  <2> SUFFICES ASSUME cmp(r, map[p]) = "Less" PROVE FALSE
    OBVIOUS
  <2>1. map[p].len > 0 /\ map[p].base + map[p].len <= MaxAddr
        /\ map[i].len > 0 /\ map[i].base + map[i].len <= MaxAddr
    BY <1>3 DEF WellOrdered
  <2>2. r.base + r.len <= map[p].base
    BY <2>1, <1>3, Compare
  <2>3. map[i].base < r.base + r.len
    BY <2>1, <1>3, Compare
  <2>4. p = i \/ map[p].base + map[p].len <= map[i].base
    BY <1>2, <1>3 DEF WellOrdered
  <2>5. /\ map[p].base \in Nat /\ map[p].len \in Nat
        /\ map[i].base \in Nat /\ r.base + r.len \in Nat
    <3>1. r \in BusRange
      BY DEF Key
    <3>2. r.base \in Nat /\ r.len \in Nat
      BY <3>1, RangeNumbers
    <3> QED BY <3>2, <1>3, RangeNumbers
  <2>6. CASE p = i
    BY <2>2, <2>3, <2>5, <2>6
  <2>7. CASE map[p].base + map[p].len <= map[i].base
    BY <2>2, <2>3, <2>5, <2>7
  <2> QED BY <2>4, <2>6, <2>7
<1>6. cmp(r, map[p]) = "Equal"
  BY <1>4, <1>5 DEF cmp
<1> QED BY <1>3, <1>6 DEF ContainsKey, p

\* A lookup stops at the device that owns the address, if there is one.
LEMMA LookupExact ==
  ASSUME NEW map \in Seq(BusRange), WellOrdered(map), NEW addr \in Addr,
         NEW i \in 1..Len(map)
  PROVE  (map[i].base <= addr /\ addr < map[i].base + map[i].len)
           <=> ContainsKey(map, point(addr)) /\ Position(map, point(addr)) = i
<1> DEFINE r == point(addr)
           p == Position(map, r)
<1>1. Key(r) /\ r.base = addr /\ r.len = 1
  BY BusAssumption DEF Key, point, BusRange, Addr
<1> HIDE DEF r
<1>2. \A j \in 1..Len(map) :
        /\ map[j] \in BusRange /\ map[j].len > 0 /\ map[j].base + map[j].len <= MaxAddr
        /\ cmp(r, map[j]) = "Equal" <=> map[j].base <= addr /\ addr < map[j].base + map[j].len
  <2> TAKE j \in 1..Len(map)
  <2>1. map[j] \in BusRange /\ map[j].len > 0 /\ map[j].base + map[j].len <= MaxAddr
    BY DEF WellOrdered
  <2>2. cmp(r, map[j]) = "Equal" <=>
          r.base < map[j].base + map[j].len /\ map[j].base < r.base + r.len
    BY <2>1, <1>1, Compare
  <2>3. map[j].base \in Nat /\ addr \in Nat
    BY <2>1, RangeNumbers, BusAssumption DEF Addr
  <2>4. map[j].base < addr + 1 <=> map[j].base <= addr
    BY <2>3
  <2> QED BY <2>1, <2>2, <2>4, <1>1
<1>3. ContainsKey(map, r) <=> p \in 1..Len(map) /\ cmp(r, map[p]) = "Equal"
  BY PositionStops DEF ContainsKey
<1> HIDE DEF p
<1>4. ASSUME map[i].base <= addr, addr < map[i].base + map[i].len
      PROVE  ContainsKey(map, r) /\ p = i
  <2>1. ContainsKey(map, r)
    BY <1>1, <1>2, <1>4, SearchFinds
  <2>2. p \in 1..Len(map) /\ map[p].base <= addr /\ addr < map[p].base + map[p].len
    BY <2>1, <1>2, <1>3
  <2>3. ~(p < i) /\ ~(i < p)
    <3>1. /\ map[i].base \in Nat /\ map[i].len \in Nat /\ map[p].base \in Nat
          /\ map[p].len \in Nat /\ addr \in Nat
      BY <2>2, <1>2, RangeNumbers, BusAssumption DEF Addr
    <3>2. p < i => map[p].base + map[p].len <= map[i].base
      BY <2>2 DEF WellOrdered
    <3>3. i < p => map[i].base + map[i].len <= map[p].base
      BY <2>2 DEF WellOrdered
    <3> QED BY <3>1, <3>2, <3>3, <2>2, <1>4
  <2> QED BY <2>1, <2>2, <2>3
<1>5. ASSUME ContainsKey(map, r), p = i
      PROVE  map[i].base <= addr /\ addr < map[i].base + map[i].len
  BY <1>2, <1>3, <1>5
<1> QED BY <1>4, <1>5 DEF r, p

-----------------------------------------------------------------------------
(* The inductive invariant.                                                 *)

\* Inserting a range that overlaps no key keeps the map well ordered.
LEMMA InsertKeepsOrder ==
  ASSUME NEW map \in Seq(BusRange), WellOrdered(map),
         NEW r \in BusRange, r.len > 0, r.base + r.len <= MaxAddr,
         ~ContainsKey(map, r)
  PROVE  Insert(map, r) \in Seq(BusRange) /\ WellOrdered(Insert(map, r))
<1> DEFINE at == Position(map, r)
           new == Insert(map, r)
<1>1. at \in 1..(Len(map) + 1) /\ StopsAt(map, r, at) /\ Len(map) \in Nat
  BY PositionStops
<1>2. new = [k \in 1..(Len(map) + 1) |->
               IF k < at THEN map[k] ELSE IF k = at THEN r ELSE map[k - 1]]
  BY DEF Insert
<1>3. Key(r)
  BY DEF Key
<1>4. at \in 1..Len(map) => cmp(r, map[at]) = "Less"
  BY <1>1 DEF ContainsKey, StopsAt, cmp
<1> HIDE DEF at, new
<1>5. \A k \in 1..Len(map) :
        map[k] \in BusRange /\ map[k].len > 0 /\ map[k].base + map[k].len <= MaxAddr
  BY DEF WellOrdered
<1>6. \A k \in 1..Len(map) : k < at => map[k].base + map[k].len <= r.base
  <2> SUFFICES ASSUME NEW k \in 1..Len(map), k < at
               PROVE  map[k].base + map[k].len <= r.base
    OBVIOUS
  <2>1. cmp(r, map[k]) = "Greater"
    BY <1>1 DEF StopsAt
  <2> QED BY <2>1, <1>3, <1>5, Compare
<1>7. \A k \in 1..Len(map) : at <= k => r.base + r.len <= map[k].base
  <2> SUFFICES ASSUME NEW k \in 1..Len(map), at <= k
               PROVE  r.base + r.len <= map[k].base
    OBVIOUS
  <2>1. at \in 1..Len(map) /\ map[at] \in BusRange /\ map[k] \in BusRange
    BY <1>1, <1>5
  <2>2. r.base + r.len <= map[at].base
    BY <2>1, <1>3, <1>4, <1>5, Compare
  <2>3. at = k \/ map[at].base + map[at].len <= map[k].base
    BY <2>1, <1>1 DEF WellOrdered
  <2>4. /\ map[at].base \in Nat /\ map[at].len \in Nat /\ map[k].base \in Nat
        /\ r.base + r.len \in Nat
    <3>1. r.base \in Nat /\ r.len \in Nat
      BY RangeNumbers
    <3> QED BY <3>1, <2>1, RangeNumbers
  <2>5. CASE at = k
    BY <2>2, <2>5
  <2>6. CASE map[at].base + map[at].len <= map[k].base
    <3>1. map[at].base <= map[k].base
      BY <2>4, <2>6
    <3> QED BY <2>2, <2>4, <3>1
  <2> QED BY <2>3, <2>5, <2>6
<1>8. new \in Seq(BusRange) /\ Len(new) = Len(map) + 1
  <2>1. \A k \in 1..(Len(map) + 1) :
          (IF k < at THEN map[k] ELSE IF k = at THEN r ELSE map[k - 1]) \in BusRange
    BY <1>1, <1>5
  <2>2. new \in [1..(Len(map) + 1) -> BusRange]
    BY <2>1, <1>2
  <2> QED BY <2>2, <1>1
<1>9. \A k \in 1..Len(new) : new[k].len > 0 /\ new[k].base + new[k].len <= MaxAddr
  <2> TAKE k \in 1..Len(new)
  <2>1. CASE k < at
    <3>1. new[k] = map[k] /\ k \in 1..Len(map)
      BY <2>1, <1>1, <1>2, <1>8
    <3> QED BY <3>1, <1>5
  <2>2. CASE k = at
    BY <2>2, <1>2, <1>8
  <2>3. CASE k > at
    <3>1. new[k] = map[k - 1] /\ k - 1 \in 1..Len(map)
      BY <2>3, <1>1, <1>2, <1>8
    <3> QED BY <3>1, <1>5
  <2> QED BY <2>1, <2>2, <2>3, <1>1, <1>8
<1>10. \A j, k \in 1..Len(new) : j < k => new[j].base + new[j].len <= new[k].base
  <2> SUFFICES ASSUME NEW j \in 1..Len(new), NEW k \in 1..Len(new), j < k
               PROVE  new[j].base + new[j].len <= new[k].base
    OBVIOUS
  <2>1. CASE k < at
    <3>1. new[j] = map[j] /\ new[k] = map[k] /\ j \in 1..Len(map) /\ k \in 1..Len(map)
      BY <2>1, <1>1, <1>2, <1>8
    <3> QED BY <3>1 DEF WellOrdered
  <2>2. CASE k = at
    <3>1. new[j] = map[j] /\ new[k] = r /\ j \in 1..Len(map)
      BY <2>2, <1>1, <1>2, <1>8
    <3> QED BY <3>1, <2>2, <1>6
  <2>3. CASE k > at /\ j < at
    <3>1. new[j] = map[j] /\ new[k] = map[k - 1]
          /\ j \in 1..Len(map) /\ k - 1 \in 1..Len(map) /\ j < k - 1
      BY <2>3, <1>1, <1>2, <1>8
    <3> QED BY <3>1 DEF WellOrdered
  <2>4. CASE k > at /\ j = at
    <3>1. new[j] = r /\ new[k] = map[k - 1] /\ k - 1 \in 1..Len(map) /\ at <= k - 1
      BY <2>4, <1>1, <1>2, <1>8
    <3> QED BY <3>1, <1>7
  <2>5. CASE j > at
    <3>1. new[j] = map[j - 1] /\ new[k] = map[k - 1]
          /\ j - 1 \in 1..Len(map) /\ k - 1 \in 1..Len(map) /\ j - 1 < k - 1
      BY <2>5, <1>1, <1>2, <1>8
    <3> QED BY <3>1 DEF WellOrdered
  <2> QED BY <2>1, <2>2, <2>3, <2>4, <2>5, <1>1, <1>8
<1> QED BY <1>8, <1>9, <1>10 DEF WellOrdered, new

IndInv == TypeOK /\ Sorted

\* What a dispatch returns has its type.
LEMMA DispatchType ==
  ASSUME NEW map \in Seq(BusRange), NEW addr \in Addr, NEW width
  PROVE  Dispatch(map, addr, width) \in Reached
<1> DEFINE p == Position(map, point(addr))
<1> SUFFICES ASSUME ContainsKey(map, point(addr)), containsRange(map[p], addr, width)
             PROVE  [hit |-> TRUE, range |-> map[p], offset |-> addr - map[p].base] \in Reached
  BY DEF Dispatch, Reached
<1>1. p \in 1..Len(map)
  BY PositionStops DEF ContainsKey
<1>2. map[p] \in BusRange
  BY <1>1
<1> HIDE DEF p
<1>3. addr - map[p].base \in Addr
  BY <1>2, BusAssumption DEF containsRange, BusRange, Addr
<1> QED BY <1>2, <1>3 DEF Reached

\* The invariant holds of the empty bus and is kept by every registration,
\* whatever its outcome, and by every access.
LEMMA IndInvHolds == Spec => []IndInv
<1>1. Init => IndInv
  <2> SUFFICES ASSUME Init PROVE IndInv
    OBVIOUS
  <2>1. devices \in Seq(BusRange) /\ Len(devices) = 0
    BY DEF Init
  <2>2. access \in [addr : Addr, width : Widths \union {0}, reached : Reached]
    BY BusAssumption DEF Init, Reached, Addr
  <2> QED BY <2>1, <2>2 DEF IndInv, TypeOK, Sorted, WellOrdered
<1>2. IndInv /\ [Next]_vars => IndInv'
  <2> SUFFICES ASSUME IndInv, [Next]_vars PROVE IndInv'
    OBVIOUS
  <2> USE DEF IndInv
  <2>1. ASSUME NEW base \in Addr, NEW len \in Lens,
               Register([base |-> base, len |-> len])
        PROVE  IndInv'
    <3> DEFINE r == [base |-> base, len |-> len]
    <3>1. r \in BusRange
      BY BusAssumption DEF BusRange, Addr
    <3>2. CASE RegisterOutcome(devices, r) = "Ok"
      <4>1. r.len > 0 /\ r.base + r.len <= MaxAddr /\ ~ContainsKey(devices, r)
        <5>1. r.len # 0 /\ ~(r.base + r.len > MaxAddr) /\ ~ContainsKey(devices, r)
          BY <3>2 DEF RegisterOutcome
        <5> QED BY <5>1, <3>1, BusAssumption DEF BusRange, Addr
      <4> HIDE DEF r
      <4>2. Insert(devices, r) \in Seq(BusRange) /\ WellOrdered(Insert(devices, r))
        BY <3>1, <4>1, InsertKeepsOrder DEF TypeOK, Sorted
      <4>3. devices' = Insert(devices, r) /\ access' = access
        BY <2>1, <3>2 DEF Register, r
      <4> QED BY <4>2, <4>3 DEF TypeOK, Sorted
    <3>3. CASE RegisterOutcome(devices, r) # "Ok"
      BY <2>1, <3>3 DEF Register, TypeOK, Sorted
    <3> QED BY <3>2, <3>3
  <2>2. ASSUME NEW addr \in Addr, NEW width \in Widths, Access(addr, width)
        PROVE  IndInv'
    <3>1. Dispatch(devices, addr, width) \in Reached /\ Nothing \in Reached
      BY DispatchType, Zenon DEF TypeOK, Reached
    <3>2. access' \in [addr : Addr, width : Widths \union {0}, reached : Reached]
      BY <2>2, <3>1 DEF Access
    <3>3. devices' = devices
      BY <2>2 DEF Access
    <3> QED BY <3>2, <3>3 DEF TypeOK, Sorted
  <2>3. CASE UNCHANGED vars
    BY <2>3 DEF vars, TypeOK, Sorted
  <2> QED BY <2>1, <2>2, <2>3, Zenon DEF Next
<1> QED BY <1>1, <1>2, PTL DEF Spec

-----------------------------------------------------------------------------
(* The theorems.                                                            *)

\* The bus state is well typed, for every address width.
THEOREM TypeCorrect == Spec => []TypeOK
BY IndInvHolds, PTL DEF IndInv

\* The overlap comparison orders the registered devices: the map is always
\* sorted and no two devices share a byte.
THEOREM SortedCorrect == Spec => []Sorted
BY IndInvHolds, PTL DEF IndInv

\* Every guest access reaches exactly the device that owns all of its bytes, at
\* the matching offset, and no device otherwise.
THEOREM DispatchCorrect == Spec => []DispatchExact
<1>1. IndInv => DispatchExact
  <2> SUFFICES ASSUME IndInv, NEW addr \in Addr, NEW width \in Widths \ {0},
                      NEW i \in 1..Len(devices)
               PROVE  Covers(devices[i], addr, width) <=>
                        Dispatch(devices, addr, width) =
                          [hit |-> TRUE, range |-> devices[i],
                           offset |-> addr - devices[i].base]
    BY DEF DispatchExact
  <2> DEFINE p == Position(devices, point(addr))
  <2>1. devices \in Seq(BusRange) /\ WellOrdered(devices)
    BY DEF IndInv, TypeOK, Sorted
  <2>2. width \in Nat /\ width > 0 /\ addr \in Nat /\ MaxAddr \in Nat
    BY BusAssumption DEF Addr
  <2>3. ASSUME NEW j \in 1..Len(devices)
        PROVE  /\ devices[j] \in BusRange /\ devices[j].base \in Nat /\ devices[j].len \in Nat
               /\ devices[j].base + devices[j].len <= MaxAddr
               /\ end(devices[j]) = devices[j].base + devices[j].len
    <3>1. devices[j] \in BusRange /\ devices[j].base + devices[j].len <= MaxAddr
      BY <2>1 DEF WellOrdered
    <3> QED BY <3>1, <2>2 DEF BusRange, Addr, end
  <2>4. ASSUME NEW j \in 1..Len(devices)
        PROVE  Covers(devices[j], addr, width) <=>
                 devices[j].base <= addr /\ addr + width <= devices[j].base + devices[j].len
    <3>1. ASSUME Covers(devices[j], addr, width)
          PROVE  devices[j].base <= addr /\ addr + width <= devices[j].base + devices[j].len
      <4>1. addr \in addr..(addr + width - 1) /\ addr + width - 1 \in addr..(addr + width - 1)
        BY <2>2
      <4>2. addr >= devices[j].base /\ addr + width - 1 < devices[j].base + devices[j].len
        BY <3>1, <4>1 DEF Covers
      <4> QED BY <4>2, <2>2, <2>3
    <3>2. ASSUME devices[j].base <= addr, addr + width <= devices[j].base + devices[j].len
          PROVE  Covers(devices[j], addr, width)
      BY <3>2, <2>2, <2>3 DEF Covers
    <3> QED BY <3>1, <3>2
  <2>5. ASSUME Covers(devices[i], addr, width)
        PROVE  Dispatch(devices, addr, width) =
                 [hit |-> TRUE, range |-> devices[i], offset |-> addr - devices[i].base]
    <3>1. devices[i].base <= addr /\ addr + width <= devices[i].base + devices[i].len
      BY <2>4, <2>5
    <3>2. devices[i].base <= addr /\ addr < devices[i].base + devices[i].len
      BY <3>1, <2>2, <2>3
    <3>3. ContainsKey(devices, point(addr)) /\ p = i
      BY <3>2, <2>1, LookupExact
    <3>4. containsRange(devices[i], addr, width)
      BY <3>1, <2>2, <2>3 DEF containsRange
    <3> QED BY <3>3, <3>4 DEF Dispatch
  <2>6. ASSUME Dispatch(devices, addr, width) =
                 [hit |-> TRUE, range |-> devices[i], offset |-> addr - devices[i].base]
        PROVE  Covers(devices[i], addr, width)
    <3>1. Dispatch(devices, addr, width) # Nothing
      BY <2>6 DEF Nothing
    <3>2. /\ ContainsKey(devices, point(addr)) /\ containsRange(devices[p], addr, width)
          /\ Dispatch(devices, addr, width) =
               [hit |-> TRUE, range |-> devices[p], offset |-> addr - devices[p].base]
      BY <3>1 DEF Dispatch
    <3>3. devices[p] = devices[i]
      BY <3>2, <2>6
    <3>4. devices[i].base <= addr /\ addr + width <= devices[i].base + devices[i].len
      BY <3>2, <3>3, <2>2, <2>3 DEF containsRange
    <3> QED BY <3>4, <2>4
  <2> QED BY <2>5, <2>6
<1> QED BY <1>1, IndInvHolds, PTL

\* Registration refuses a range as overlapping exactly when it shares a byte
\* with a device that is already on the bus.
THEOREM OverlapCorrect == Spec => []OverlapIsRefused
<1>1. IndInv => OverlapIsRefused
  <2> SUFFICES ASSUME IndInv, NEW base \in Addr, NEW len \in Lens \ {0}, base + len <= MaxAddr,
                      NEW r, r = [base |-> base, len |-> len]
               PROVE  RegisterOutcome(devices, r) = "Overlap" <=>
                        \E i \in 1..Len(devices), a \in Addr :
                          Covers(r, a, 1) /\ Covers(devices[i], a, 1)
    BY DEF OverlapIsRefused
  <2>1. devices \in Seq(BusRange) /\ WellOrdered(devices)
    BY DEF IndInv, TypeOK, Sorted
  <2>2. /\ len \in Nat /\ len > 0 /\ base \in Nat /\ MaxAddr \in Nat
        /\ r.base = base /\ r.len = len /\ r \in BusRange /\ Key(r)
    BY BusAssumption DEF Addr, BusRange, Key
  <2>3. RegisterOutcome(devices, r) = "Overlap" <=> ContainsKey(devices, r)
    BY <2>2 DEF RegisterOutcome
  <2>4. ASSUME NEW i \in 1..Len(devices)
        PROVE  /\ devices[i].base \in Nat /\ devices[i].len \in Nat
               /\ devices[i].base + devices[i].len <= MaxAddr
               /\ cmp(r, devices[i]) = "Equal" <=>
                    r.base < devices[i].base + devices[i].len /\ devices[i].base < r.base + r.len
    <3>1. devices[i] \in BusRange /\ devices[i].len > 0
          /\ devices[i].base + devices[i].len <= MaxAddr
      BY <2>1 DEF WellOrdered
    <3> QED BY <3>1, <2>2, Compare DEF BusRange, Addr
  <2>5. ASSUME NEW s, s.base \in Nat, s.len \in Nat, NEW a \in Addr
        PROVE  Covers(s, a, 1) <=> s.base <= a /\ a < s.base + s.len
    <3>1. a \in Nat /\ a..(a + 1 - 1) = {a}
      BY BusAssumption DEF Addr
    <3> QED BY <3>1, <2>5 DEF Covers
  <2>6. ASSUME ContainsKey(devices, r)
        PROVE  \E i \in 1..Len(devices), a \in Addr :
                 Covers(r, a, 1) /\ Covers(devices[i], a, 1)
    <3>1. PICK i \in 1..Len(devices) : cmp(r, devices[i]) = "Equal"
      BY <2>1, <2>6, PositionStops DEF ContainsKey
    <3>2. PICK a \in Addr : /\ r.base <= a /\ a < r.base + r.len
                            /\ devices[i].base <= a /\ a < devices[i].base + devices[i].len
      <4>1. CASE r.base <= devices[i].base
        <5>1. devices[i].base \in Addr
          <6>1. devices[i] \in BusRange
            BY <2>1
          <6> QED BY <6>1 DEF BusRange
        <5>2. devices[i].base < r.base + r.len /\ r.base < devices[i].base + devices[i].len
          BY <3>1, <2>4
        <5>3. devices[i].len > 0
          BY <2>1 DEF WellOrdered
        <5> QED BY <4>1, <5>1, <5>2, <5>3, <2>4, <2>2
      <4>2. CASE devices[i].base <= r.base
        BY <4>2, <3>1, <2>2, <2>4
      <4> QED BY <4>1, <4>2, <2>2, <2>4
    <3>3. Covers(r, a, 1)
      BY <3>2, <2>2, <2>5
    <3>4. Covers(devices[i], a, 1)
      BY <3>2, <2>4, <2>5
    <3> QED BY <3>3, <3>4
  <2>7. ASSUME NEW i \in 1..Len(devices), NEW a \in Addr,
               Covers(r, a, 1), Covers(devices[i], a, 1)
        PROVE  ContainsKey(devices, r)
    <3>1. /\ r.base <= a /\ a < r.base + r.len
          /\ devices[i].base <= a /\ a < devices[i].base + devices[i].len
      <4>1. r.base <= a /\ a < r.base + r.len
        BY <2>2, <2>5, <2>7
      <4>2. devices[i].base <= a /\ a < devices[i].base + devices[i].len
        BY <2>4, <2>5, <2>7
      <4> QED BY <4>1, <4>2
    <3>2. a \in Nat
      BY BusAssumption DEF Addr
    <3>3. cmp(r, devices[i]) = "Equal"
      BY <3>1, <3>2, <2>2, <2>4
    <3> QED BY <3>3, <2>1, <2>2, SearchFinds
  <2> QED BY <2>3, <2>6, <2>7
<1> QED BY <1>1, IndInvHolds, PTL

-----------------------------------------------------------------------------
(* The exit handler.                                                        *)

\* The first n elements of an IN have their answers in data.
Filled(i, accesses, data, n) ==
  i.in => \A e \in 1..n, k \in 1..i.size : data[(e - 1) * i.size + k] = accesses[e]

\* The exit being handled: an instruction's, partly answered, or another.
Handling ==
  \/ /\ instr \in Instrs /\ CanIssue(instr) /\ exit = instr.kind
     /\ Len(log) <= instr.count /\ Filled(instr, log, buf, Len(log))
  \/ instr = NoInstr /\ exit \in OtherExits

\* On the way to the run ioctl: nothing is pending, or its answer is ready.
Ready ==
  \/ instr = NoInstr /\ (native = "bhyve" => cmd.kind = "DEFAULT")
  \/ /\ instr \in Instrs
     /\ Exact(instr, log, IF native = "kvm" THEN buf ELSE cmd.data)
     /\ native = "bhyve" => cmd.kind = instr.kind

ExitInv ==
  /\ ExitTypeOK /\ native \in {"kvm", "bhyve"}
  /\ log \in Seq(Nat \X Nat) /\ issued \in Nat
  /\ vpc = "handle" => Handling
  /\ vpc \in {"check", "run"} => Ready
  /\ exact = TRUE
  /\ ErrorsAreReal

-----------------------------------------------------------------------------
(* The data area.                                                           *)

\* An instruction's fields.
LEMMA InstrFields ==
  ASSUME NEW i \in Instrs
  PROVE  /\ i.kind \in {"INOUT", "MMIO"} /\ i.count \in {1, 2} /\ i.in \in BOOLEAN
         /\ i.addr \in Addr /\ i.size \in Widths \ {0} /\ i.size \in Nat \ {0}
<1>1. /\ i.kind \in {"INOUT", "MMIO"} /\ i.count \in {1, 2} /\ i.in \in BOOLEAN
      /\ i.addr \in Addr /\ i.size \in Widths \ {0}
  BY DEF Instrs
<1>2. \A w \in Widths : w \in Nat
  BY BusAssumption
<1> QED BY <1>1, <1>2

\* Writing the answer of the next element into its slice fills one more element
\* and leaves the earlier ones alone.
LEMMA NextElement ==
  ASSUME NEW i \in Instrs, i.count * i.size <= BufLen,
         NEW T, NEW accesses \in Seq(T), NEW data, NEW answer \in T,
         Len(accesses) < i.count, Filled(i, accesses, data, Len(accesses))
  PROVE  Filled(i, Append(accesses, answer),
                [k \in 1..BufLen |-> IF k \in Slice(i, Len(accesses)) THEN answer ELSE data[k]],
                Len(accesses) + 1)
<1> DEFINE n == Len(accesses)
           new == [k \in 1..BufLen |-> IF k \in Slice(i, n) THEN answer ELSE data[k]]
<1>0. i.count \in {1, 2} /\ i.size \in Nat \ {0} /\ n \in Nat /\ BufLen \in Nat
  BY InstrFields, VmExitAssumption
<1>a. n \in {0, 1} /\ (n = 1 => i.count = 2)
  <2>1. n < i.count
    OBVIOUS
  <2> HIDE DEF n
  <2>2. CASE i.count = 1
    BY <2>1, <2>2, <1>0
  <2>3. CASE i.count = 2
    BY <2>1, <2>3, <1>0
  <2> QED BY <2>2, <2>3, <1>0
<1>b. i.size <= BufLen /\ (i.count = 2 => 2 * i.size <= BufLen)
  <2>1. CASE i.count = 1
    BY <2>1, <1>0
  <2>2. CASE i.count = 2
    BY <2>2, <1>0
  <2> QED BY <2>1, <2>2, <1>0
<1>1. /\ i.size \in Nat \ {0} /\ BufLen \in Nat /\ n \in {0, 1}
      /\ i.size <= BufLen /\ (n = 1 => 2 * i.size <= BufLen)
  BY <1>0, <1>a, <1>b
<1> SUFFICES ASSUME i.in, NEW e \in 1..(n + 1), NEW k \in 1..i.size
             PROVE  new[(e - 1) * i.size + k] = Append(accesses, answer)[e]
  BY DEF Filled
<1> DEFINE at == (e - 1) * i.size + k
<1>c. /\ Append(accesses, answer)[n + 1] = answer
      /\ \A j \in 1..n : Append(accesses, answer)[j] = accesses[j]
  BY AppendProperties
<1>2. CASE e = n + 1
  <2>1. CASE n = 0
    <3>1. at = k /\ Slice(i, n) = 1..i.size
      BY <1>1, <1>2, <2>1 DEF Slice
    <3>2. at \in 1..BufLen /\ at \in Slice(i, n)
      <4> HIDE DEF at
      <4> QED BY <1>1, <3>1
    <3>3. new[at] = answer
      BY <3>2
    <3> QED BY <3>3, <1>2, <1>c
  <2>2. CASE n = 1
    <3>1. at = i.size + k /\ Slice(i, n) = (i.size + 1)..(2 * i.size)
      BY <1>1, <1>2, <2>2 DEF Slice
    <3>2. at \in 1..BufLen /\ at \in Slice(i, n)
      <4> HIDE DEF at
      <4> QED BY <1>1, <2>2, <3>1
    <3>3. new[at] = answer
      BY <3>2
    <3> QED BY <3>3, <1>2, <1>c
  <2> QED BY <2>1, <2>2, <1>1
<1>3. CASE e # n + 1
  <2>1. e = 1 /\ n = 1 /\ at = k
    BY <1>1, <1>3
  <2>2. Slice(i, n) = (i.size + 1)..(2 * i.size)
    BY <2>1, <1>1 DEF Slice
  <2>3. at \in 1..BufLen /\ at \notin Slice(i, n)
    BY <1>1, <2>1, <2>2
  <2>4. data[at] = accesses[1]
    BY <2>1, <1>1 DEF Filled
  <2>5. Append(accesses, answer)[e] = accesses[1]
    BY <2>1, <1>c
  <2> QED BY <2>1, <2>3, <2>4, <2>5
<1> QED BY <1>2, <1>3

-----------------------------------------------------------------------------
(* The invariant.                                                           *)

\* The thread starts with nothing pending and no command.
LEMMA ExitInitInv == ExitInit => ExitInv
BY VmExitAssumption
DEF ExitInit, ExitInv, ExitTypeOK, Ready, NoCommand, NoInstr, ErrorsAreReal

\* While the thread is about to run the guest, its entry command is the one
\* wanted, and what completes is exact.
LEMMA ReadyCompletes ==
  ASSUME ExitInv, vpc = "run"
  PROVE  /\ ~Rejected /\ ~Replays
         /\ Completes => exact' = TRUE
<1>1. Ready
  BY DEF ExitInv
<1>2. CASE instr = NoInstr
  BY <1>1, <1>2, InstrFields, Zenon
     DEF Ready, Rejected, Replays, Pending, Completes, NoInstr, ExitInv
<1>3. CASE instr # NoInstr
  <2>1. /\ instr \in Instrs /\ (native = "bhyve" => cmd.kind = instr.kind)
        /\ Exact(instr, log, IF native = "kvm" THEN buf ELSE cmd.data)
    BY <1>1, <1>3 DEF Ready
  <2>2. ~Rejected /\ ~Replays
    BY <2>1, InstrFields DEF Rejected, Replays
  <2> QED BY <2>1, <2>2, Zenon DEF Completes, ExitInv
<1> QED BY <1>2, <1>3

\* Every step of main, of the thread and of the kernel keeps the invariant.
LEMMA ExitStepInv == ExitInv /\ [ExitNext]_exitVars => ExitInv'
<1> SUFFICES ASSUME ExitInv, [ExitNext]_exitVars PROVE ExitInv'
  OBVIOUS
<1> USE DEF ExitInv
<1>1. CASE MainRegisters
  BY <1>1 DEF MainRegisters, Register, ExitTypeOK, Handling, Ready, OtherExits, CanIssue,
              ErrorsAreReal
<1>2. CASE MainStarts
  BY <1>2 DEF MainStarts, ExitTypeOK, Handling, Ready, OtherExits, CanIssue, ErrorsAreReal
<1>3. CASE RequestShutdown
  BY <1>3 DEF RequestShutdown, ExitTypeOK, Handling, Ready, OtherExits, CanIssue,
              ErrorsAreReal
<1>4. CASE CheckFlag
  BY <1>4 DEF CheckFlag, Finish, ExitTypeOK, Ready, ErrorsAreReal
<1>5. ASSUME CanAccess, NEW i \in Instrs, RunsToAccess(i) PROVE ExitInv'
  <2>1. vpc = "run" /\ ~Replays /\ exact' = TRUE
    BY <1>5, ReadyCompletes, Zenon DEF CanAccess, RunsToAccess
  <2>2. /\ instr' = i /\ CanIssue(i) /\ CanIssue(i)' /\ exit' = i.kind /\ vpc' = "handle"
        /\ log' = <<>> /\ issued' = issued + 1
        /\ UNCHANGED <<native, cmd, result, fault, kick>>
    BY <1>5, <2>1 DEF RunsToAccess, CanIssue
  <2>3. DOMAIN buf' = 1..BufLen
    BY <1>5 DEF RunsToAccess, NoCommand, ExitTypeOK
  <2>4. Handling'
    <3>1. Len(log') = 0 /\ i.count \in {1, 2}
      BY <2>2, InstrFields
    <3>2. Filled(i, log', buf', Len(log'))
      BY <3>1 DEF Filled
    <3> QED BY <2>2, <3>1, <3>2 DEF Handling
  <2>5. ExitTypeOK'
    BY <2>1, <2>2, <2>3 DEF ExitTypeOK
  <2>6. ErrorsAreReal'
    BY <2>2 DEF ErrorsAreReal
  <2>7. log' \in Seq(Nat \X Nat)
    BY <2>2, EmptySeq
  <2> QED BY <2>1, <2>2, <2>4, <2>5, <2>6, <2>7
<1>6. ASSUME NEW e \in OtherExits, RunsToExit(e) PROVE ExitInv'
  <2>1. exact' = TRUE
    BY <1>6, ReadyCompletes, Zenon DEF RunsToExit
  <2>2. log' \in Seq(Nat \X Nat)
    BY <1>6, EmptySeq DEF RunsToExit
  <2> QED BY <1>6, <2>1, <2>2 DEF RunsToExit, ExitTypeOK, Handling, OtherExits, ErrorsAreReal
<1>7. CASE RunInterrupted
  <2>1. exact' = TRUE
    BY <1>7, ReadyCompletes, Zenon DEF RunInterrupted
  <2>2. log' \in Seq(Nat \X Nat)
    BY <1>7, EmptySeq DEF RunInterrupted
  <2>3. /\ instr' = NoInstr /\ kick' = "taken" /\ vpc = "run"
        /\ UNCHANGED <<native, buf, cmd, issued, fault>>
    BY <1>7 DEF RunInterrupted
  <2>4. CASE native = "kvm"
    <3>1. vpc' = "check" /\ UNCHANGED result
      BY <1>7, <2>4 DEF RunInterrupted, Errs, KindOf
    <3> QED BY <2>1, <2>2, <2>3, <2>4, <3>1 DEF ExitTypeOK, Ready, ErrorsAreReal
  <2>5. CASE native = "bhyve"
    <3>1. vpc' = "stopped" /\ result' = "err"
      BY <1>7, <2>5 DEF RunInterrupted, Errs, KindOf, Finish
    <3> QED BY <2>1, <2>2, <2>3, <2>5, <3>1 DEF ExitTypeOK, ErrorsAreReal
  <2> QED BY <2>4, <2>5, Zenon
<1>8. ASSUME NEW kind \in {"WouldBlock", "Other"}, RunFails(kind) PROVE ExitInv'
  <2>1. /\ UNCHANGED <<native, kick, instr, exit, buf, cmd, issued, log, exact>>
        /\ vpc = "run"
    BY <1>8 DEF RunFails
  <2>2. CASE kind = "WouldBlock"
    <3>1. native = "kvm" /\ vpc' = "check" /\ UNCHANGED result /\ fault' = (fault \/ FALSE)
      BY <1>8, <2>2 DEF RunFails, Errs, KindOf
    <3>2. ErrorsAreReal'
      BY <2>1, <3>1, Zenon DEF ErrorsAreReal, ExitTypeOK
    <3> QED BY <2>1, <3>1, <3>2 DEF ExitTypeOK, Ready
  <2>3. CASE kind = "Other"
    <3>1. vpc' = "stopped" /\ result' = "err" /\ fault'
      BY <1>8, <2>3, Zenon DEF RunFails, Errs, KindOf, Finish
    <3> QED BY <2>1, <3>1 DEF ExitTypeOK, ErrorsAreReal
  <2> QED BY <2>2, <2>3, Zenon
<1>9. CASE HandleAccess
  <2> DEFINE answer == IF access'.reached.hit THEN <<issued, Len(log) + 1>> ELSE FF
             data   == [k \in 1..BufLen |-> IF k \in Slice(instr, Len(log)) THEN answer ELSE buf[k]]
  <2>1. /\ vpc = "handle" /\ exit = instr.kind /\ Len(log) < instr.count
        /\ log' = Append(log, answer) /\ buf' = IF instr.in THEN data ELSE buf
        /\ UNCHANGED <<native, vpc, instr, exit, cmd, issued, kick, exact, result, fault>>
    BY <1>9 DEF HandleAccess
  <2>2. /\ instr \in Instrs /\ CanIssue(instr) /\ Filled(instr, log, buf, Len(log))
    BY <2>1 DEF Handling, OtherExits, NoInstr
  <2>3. answer \in Nat \X Nat
    BY DEF FF
  <2> HIDE DEF answer
  <2>4. log' \in Seq(Nat \X Nat) /\ Len(log') = Len(log) + 1 /\ Len(log) \in Nat
    BY <2>1, <2>3, AppendProperties
  <2>5. Filled(instr, log', buf', Len(log'))
    <3>1. instr.count * instr.size <= BufLen
      BY <2>2 DEF CanIssue
    <3>2. Filled(instr, Append(log, answer), data, Len(log) + 1)
      BY <2>1, <2>2, <2>3, <3>1, NextElement
    <3>3. CASE instr.in
      BY <2>1, <2>4, <3>2, <3>3
    <3>4. CASE ~instr.in
      BY <3>4 DEF Filled
    <3> QED BY <3>3, <3>4
  <2>6. Len(log') <= instr.count
    <3>1. instr.count \in Nat
      BY <2>2, InstrFields
    <3> QED BY <3>1, <2>1, <2>4
  <2>7. DOMAIN buf' = 1..BufLen
    BY <2>1 DEF ExitTypeOK
  <2>8. CanIssue(instr)'
    BY <2>1, <2>2 DEF CanIssue
  <2>9. ExitTypeOK'
    BY <2>1, <2>7 DEF ExitTypeOK
  <2>10. Handling'
    BY <2>1, <2>2, <2>5, <2>6, <2>8 DEF Handling
  <2>11. ErrorsAreReal'
    BY <2>1 DEF ErrorsAreReal
  <2> QED BY <2>1, <2>4, <2>9, <2>10, <2>11
<1>10. CASE AccessHandled
  <2>1. /\ vpc = "handle" /\ exit = instr.kind /\ Len(log) >= instr.count /\ vpc' = "check"
        /\ cmd' = IF native = "bhyve" THEN Answer ELSE cmd
        /\ UNCHANGED <<native, instr, buf, issued, kick, log, exact, result, fault>>
    BY <1>10 DEF AccessHandled
  <2>2. /\ instr \in Instrs /\ Filled(instr, log, buf, Len(log)) /\ Len(log) <= instr.count
    BY <2>1 DEF Handling, OtherExits, NoInstr
  <2>3. Len(log) = instr.count
    <3>1. Len(log) \in Nat /\ instr.count \in Nat
      BY <2>2, InstrFields, LenProperties
    <3> QED BY <3>1, <2>1, <2>2
  <2>4. Exact(instr, log, buf)
    BY <2>2, <2>3 DEF Exact, Filled
  <2>5. native = "bhyve" => cmd'.kind = instr.kind /\ cmd'.data = buf
    BY <2>1 DEF Answer
  <2>6. Ready'
    BY <2>1, <2>2, <2>4, <2>5 DEF Ready
  <2>7. cmd'.kind \in {"DEFAULT", "INOUT", "MMIO"} /\ DOMAIN cmd'.data = 1..BufLen
    BY <2>1, <2>2, <2>5, InstrFields DEF ExitTypeOK
  <2>8. ExitTypeOK'
    BY <2>1, <2>7 DEF ExitTypeOK
  <2>9. ErrorsAreReal'
    BY <2>1 DEF ErrorsAreReal
  <2> QED BY <2>1, <2>6, <2>8, <2>9
<1>11. CASE HandleOther
  <2>1. instr = NoInstr /\ instr' = NoInstr
    BY <1>11, InstrFields DEF HandleOther, Handling, OtherExits
  <2>2. cmd'.kind = "DEFAULT" /\ DOMAIN cmd'.data = 1..BufLen
    BY <1>11 DEF HandleOther, NextCommand, NoCommand
  <2> QED BY <1>11, <2>1, <2>2 DEF HandleOther, Finish, ExitTypeOK, Ready, ErrorsAreReal
<1>12. CASE UNCHANGED exitVars
  BY <1>12 DEF exitVars, ExitTypeOK, Handling, Ready, OtherExits, CanIssue, ErrorsAreReal
<1> QED
  BY <1>1, <1>2, <1>3, <1>4, <1>5, <1>6, <1>7, <1>8, <1>9, <1>10, <1>11, <1>12, ZenonT(40)
  DEF ExitNext, VcpuStep, Idle

\* The invariant holds throughout every run of the thread.
THEOREM ExitInvHolds == ExitSpec => []ExitInv
BY ExitInitInv, ExitStepInv, PTL DEF ExitSpec

-----------------------------------------------------------------------------
(* The theorems.                                                            *)

\* The state of the thread and of the commands it exchanges with the kernel is
\* well typed.
THEOREM ExitTypeCorrect == ExitSpec => []ExitTypeOK
BY ExitInvHolds, PTL DEF ExitInv

\* An instruction reaches the bus once per element and in order, and an IN
\* receives its own answers byte for byte, on both backends, for every width,
\* whatever exits, kicks and failures of the ioctl lie between.
THEOREM AnswersCorrect == ExitSpec => []AnswersAreExact
<1>1. ExitInv => AnswersAreExact
  BY DEF ExitInv, AnswersAreExact
<1> QED BY <1>1, ExitInvHolds, PTL

\* No entry carries a stale command, and none lacks the answer it owes: what
\* step_run leaves in next_cmd and next_entry_u is always what is wanted.
THEOREM CommandsCorrect == ExitSpec => []CommandsAreWanted
<1>1. ExitInv => CommandsAreWanted
  BY ReadyCompletes DEF CommandsAreWanted
<1> QED BY <1>1, ExitInvHolds, PTL

\* run_vcpu returns an error for every failure of the run ioctl, and on KVM for
\* nothing else.
THEOREM ErrorsCorrect == ExitSpec => []ErrorsAreReal
BY ExitInvHolds, PTL DEF ExitInv

\* main and the vCPU thread use the bus as module Bus says it is used.
THEOREM BusIsImplemented == ExitSpec => Spec
<1>1. ExitInit => Init
  BY DEF ExitInit
<1>2. ExitInv /\ [ExitNext]_exitVars => [Next]_vars
  <2> SUFFICES ASSUME ExitInv, [ExitNext]_exitVars PROVE [Next]_vars
    OBVIOUS
  <2>1. CASE MainRegisters
    BY <2>1 DEF MainRegisters, Next
  <2>2. CASE HandleAccess
    <3>0. vpc = "handle" /\ exit = instr.kind /\ Access(instr.addr, instr.size)
      BY <2>2 DEF HandleAccess
    <3>1. instr \in Instrs
      BY <3>0 DEF ExitInv, Handling, OtherExits, NoInstr
    <3>2. instr.addr \in Addr /\ instr.size \in Widths
      BY <3>1, InstrFields
    <3> QED BY <3>0, <3>2 DEF Next
  <2>3. CASE ~MainRegisters /\ ~HandleAccess
    BY <2>3 DEF ExitNext, VcpuStep, Idle, MainStarts, RequestShutdown, CheckFlag,
                RunsToAccess, RunsToExit, RunInterrupted, RunFails, AccessHandled,
                HandleOther, exitVars, vars
  <2> QED BY <2>1, <2>2, <2>3
<1> QED BY <1>1, <1>2, ExitInvHolds, PTL DEF ExitSpec, Spec

\* So every access a guest makes, on either backend, reaches exactly the device
\* that owns all of its bytes.
THEOREM GuestDispatchCorrect == ExitSpec => []DispatchExact
BY BusIsImplemented, DispatchCorrect, PTL
=============================================================================
