-------------------------------- MODULE Bus ---------------------------------
(***************************************************************************)
(* The generic I/O bus of src/bus.rs: registration of ranges and dispatch   *)
(* of guest accesses, for ports and for MMIO alike.                         *)
(*                                                                          *)
(* The devices live in a BTreeMap keyed by ranges that compare equal when   *)
(* they overlap.  That is no equivalence, let alone an order, on ranges in  *)
(* general, so whether the map finds the right device is a question of      *)
(* which ranges it holds.  Addresses are u64: additions are checked or      *)
(* saturate at MaxAddr.  A device is known by its range.                    *)
(***************************************************************************)
EXTENDS Naturals, Sequences

CONSTANTS
  MaxAddr,     \* u64::MAX
  Lens,        \* lengths main asks for
  Widths       \* widths of guest accesses

ASSUME BusAssumption ==
  /\ MaxAddr \in Nat \ {0}
  /\ Lens \subseteq 0..MaxAddr
  /\ Widths \subseteq 0..MaxAddr

Addr     == 0..MaxAddr
BusRange == [base : Addr, len : Addr]

VARIABLES
  devices,     \* the keys of BusInner::devices, in the order the map keeps them
  access       \* the last access and what it reached

vars == <<devices, access>>

-----------------------------------------------------------------------------
(* Ranges.                                                                  *)

point(addr) == [base |-> addr, len |-> 1]

\* saturating_add
end(r) == IF r.base + r.len > MaxAddr THEN MaxAddr ELSE r.base + r.len

\* Mutant: the sum is not checked against the width of an address.
containsRangeWraps(r, addr, len) ==
  addr >= r.base /\ (addr + len) % (MaxAddr + 1) <= end(r)

containsRange(r, addr, len) ==
  addr + len <= MaxAddr /\ addr >= r.base /\ addr + len <= end(r)

overlaps(r, s) == r.base < end(s) /\ s.base < end(r)

cmp(r, s) ==
  IF overlaps(r, s) THEN "Equal" ELSE IF end(r) <= s.base THEN "Less" ELSE "Greater"

-----------------------------------------------------------------------------
(* The map.  A BTreeMap of a few keys is one node, searched from its first  *)
(* key until the wanted one no longer compares greater.                     *)

StopsAt(map, r, i) ==
  /\ i = Len(map) + 1 \/ cmp(r, map[i]) # "Greater"
  /\ \A j \in 1..(i - 1) : cmp(r, map[j]) = "Greater"

Position(map, r) == CHOOSE i \in 1..(Len(map) + 1) : StopsAt(map, r, i)

ContainsKey(map, r) ==
  LET i == Position(map, r) IN i <= Len(map) /\ cmp(r, map[i]) = "Equal"

Insert(map, r) ==
  LET at == Position(map, r) IN
  [i \in 1..(Len(map) + 1) |->
     IF i < at THEN map[i] ELSE IF i = at THEN r ELSE map[i - 1]]

-----------------------------------------------------------------------------
(* The bus.                                                                 *)

Nothing == [hit |-> FALSE]

\* lookup, then the check that the access does not leave the device.
Dispatch(map, addr, width) ==
  IF ~ContainsKey(map, point(addr)) THEN Nothing
  ELSE LET range == map[Position(map, point(addr))]
       IN IF ~containsRange(range, addr, width) THEN Nothing
          ELSE [hit |-> TRUE, range |-> range, offset |-> addr - range.base]

Init ==
  /\ devices = <<>>
  /\ access = [addr |-> 0, width |-> 0, reached |-> Nothing]

\* Mutant: only the first byte of the new range is looked up.
RegisterOutcomeFirstByte(map, r) ==
  IF r.len = 0 THEN "ZeroLength"
  ELSE IF r.base + r.len > MaxAddr THEN "Overflow"
  ELSE IF ContainsKey(map, point(r.base)) THEN "Overlap"
  ELSE "Ok"

\* Why a registration is refused, or "Ok".
RegisterOutcome(map, r) ==
  IF r.len = 0 THEN "ZeroLength"
  ELSE IF r.base + r.len > MaxAddr THEN "Overflow"
  ELSE IF ContainsKey(map, r) THEN "Overlap"
  ELSE "Ok"

Register(r) ==
  /\ devices' = IF RegisterOutcome(devices, r) = "Ok" THEN Insert(devices, r) ELSE devices
  /\ UNCHANGED access

\* read and write share their dispatch.  An empty access reaches no device, and
\* an unclaimed one changes none (reads give 0xff).
Access(addr, width) ==
  /\ access' = [addr |-> addr, width |-> width,
                reached |-> IF width = 0 THEN Nothing ELSE Dispatch(devices, addr, width)]
  /\ UNCHANGED devices

Next ==
  \/ \E base \in Addr, len \in Lens : Register([base |-> base, len |-> len])
  \/ \E addr \in Addr, width \in Widths : Access(addr, width)

Spec == Init /\ [][Next]_vars

-----------------------------------------------------------------------------
(* Properties.                                                              *)

Reached ==
  {Nothing} \union [hit : {TRUE}, range : BusRange, offset : Addr]

\* Every variable has its type.
TypeOK ==
  /\ devices \in Seq(BusRange)
  /\ access \in [addr : Addr, width : Widths \union {0}, reached : Reached]

\* Non-empty ranges that end within the address space and follow one another
\* without sharing a byte.
WellOrdered(map) ==
  /\ \A i \in 1..Len(map) : map[i].len > 0 /\ map[i].base + map[i].len <= MaxAddr
  /\ \A i, j \in 1..Len(map) : i < j => map[i].base + map[i].len <= map[j].base

\* Whatever was registered and refused before, the overlap comparison is a total
\* order on the keys in the map: no two devices share a byte, and the map keeps
\* them by address.
Sorted == WellOrdered(devices)

\* Every byte of the access lies in range r.
Covers(r, addr, width) ==
  \A a \in addr..(addr + width - 1) : a >= r.base /\ a < r.base + r.len

\* An access reaches a device exactly when one registered device owns every
\* byte of it, and then it reaches that device at the matching offset.  The map
\* search misses nobody and an access that straddles a device's end, or the end
\* of the address space, is claimed by nobody.
DispatchExact ==
  \A addr \in Addr, width \in Widths \ {0} :
    \A i \in 1..Len(devices) :
      Covers(devices[i], addr, width) <=>
        Dispatch(devices, addr, width) =
          [hit |-> TRUE, range |-> devices[i], offset |-> addr - devices[i].base]

\* A registration is refused as overlapping exactly when it shares a byte with
\* a device that is there already, and a device is never displaced.
OverlapIsRefused ==
  \A base \in Addr, len \in Lens \ {0} :
    base + len <= MaxAddr =>
      LET r == [base |-> base, len |-> len]
      IN RegisterOutcome(devices, r) = "Overlap" <=>
           \E i \in 1..Len(devices), a \in Addr :
             Covers(r, a, 1) /\ Covers(devices[i], a, 1)
=============================================================================
