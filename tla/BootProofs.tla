----------------------------- MODULE BootProofs -----------------------------
(***************************************************************************)
(* Proofs about Boot, for any kernel, initramfs, command line, memory size  *)
(* and number of processors.                                                *)
(***************************************************************************)
EXTENDS Boot, TLAPS

\* How a leaf that names no prover is tried.
USE SMT, Zenon, SMTT(30)

-----------------------------------------------------------------------------
(* Sequences.                                                               *)

\* The elements of a sequence over a set are in the set.
LEMMA ElementOfSeq ==
  ASSUME NEW S, NEW seq \in Seq(S), NEW n \in 1..Len(seq)
  PROVE  seq[n] \in S
OBVIOUS

\* A sequence is a function of the places up to its length.
LEMMA LenProperties ==
  ASSUME NEW S, NEW seq \in Seq(S)
  PROVE  /\ Len(seq) \in Nat /\ DOMAIN seq = 1..Len(seq)
         /\ seq \in [1..Len(seq) -> S]
OBVIOUS

\* The empty sequence, and only it, has length 0.
LEMMA EmptySeq ==
  ASSUME NEW S
  PROVE  /\ << >> \in Seq(S) /\ Len(<< >>) = 0
         /\ \A seq \in Seq(S) : seq # << >> => Len(seq) \in Nat \ {0}
OBVIOUS

\* A function of the places up to a number is a sequence of that length.
LEMMA ASeq ==
  ASSUME NEW S, NEW n \in Nat, NEW f \in [1..n -> S]
  PROVE  f \in Seq(S) /\ Len(f) = n
OBVIOUS

\* What a concatenation holds.
LEMMA ConcatProperties ==
  ASSUME NEW S, NEW s1 \in Seq(S), NEW s2 \in Seq(S)
  PROVE  /\ s1 \o s2 \in Seq(S)
         /\ Len(s1 \o s2) = Len(s1) + Len(s2)
         /\ \A i \in 1..(Len(s1) + Len(s2)) :
              (s1 \o s2)[i] = IF i <= Len(s1) THEN s1[i] ELSE s2[i - Len(s1)]
OBVIOUS

\* Concatenation is associative.
LEMMA ConcatAssociative ==
  ASSUME NEW S, NEW s \in Seq(S), NEW t \in Seq(S), NEW u \in Seq(S)
  PROVE  (s \o t) \o u = s \o (t \o u)
OBVIOUS

\* Appending an element is concatenating it.
LEMMA AppendIsConcat ==
  ASSUME NEW S, NEW seq \in Seq(S), NEW elt \in S
  PROVE  Append(seq, elt) = seq \o <<elt>>
OBVIOUS

\* Two lists end to end, place by place.
LEMMA Joined ==
  ASSUME NEW T, NEW s \in Seq(T), NEW t \in Seq(T)
  PROVE  /\ s \o t \in Seq(T) /\ Len(s \o t) = Len(s) + Len(t)
         /\ DOMAIN (s \o t) = 1..(Len(s) + Len(t))
         /\ \A i \in 1..Len(s) : i \in 1..(Len(s) + Len(t)) /\ (s \o t)[i] = s[i]
         /\ \A i \in 1..Len(t) : Len(s) + i \in 1..(Len(s) + Len(t)) /\ (s \o t)[Len(s) + i] = t[i]
<1> DEFINE m == Len(s)
           n == Len(t)
           u == s \o t
<1>1. m \in Nat /\ n \in Nat
  BY LenProperties
<1>2. /\ u \in Seq(T) /\ Len(u) = m + n
      /\ \A i \in 1..(m + n) : u[i] = IF i <= m THEN s[i] ELSE t[i - m]
  BY ConcatProperties, Zenon
<1> HIDE DEF m, n, u
<1>3. DOMAIN u = 1..(m + n)
  BY <1>2, LenProperties, Zenon
<1>4. \A i \in 1..m : i \in 1..(m + n) /\ i <= m
  BY <1>1
<1>5. \A i \in 1..m : i \in 1..(m + n) /\ u[i] = s[i]
  BY <1>2, <1>4, Zenon
<1>6. ASSUME NEW i \in 1..n PROVE m + i \in 1..(m + n) /\ u[m + i] = t[i]
  <2> DEFINE j == m + i
  <2>1. j \in 1..(m + n) /\ ~(j <= m) /\ j - m = i
    BY <1>1
  <2> HIDE DEF j
  <2>2. u[j] = t[j - m]
    BY <1>2, <2>1, Zenon
  <2> QED BY <2>1, <2>2 DEF j
<1> QED BY <1>2, <1>3, <1>5, <1>6, Zenon DEF m, n, u

\* The regions of a list that grew are those it had and those added.
LEMMA RangeOfBoth ==
  ASSUME NEW T, NEW s \in Seq(T), NEW t \in Seq(T)
  PROVE  Range(s \o t) = Range(s) \union Range(t)
<1> DEFINE m == Len(s)
           n == Len(t)
           k == m + n
           u == s \o t
<1>1. m \in Nat /\ n \in Nat /\ k = m + n /\ DOMAIN s = 1..m /\ DOMAIN t = 1..n
  BY LenProperties
<1>3. /\ DOMAIN u = 1..k
      /\ \A i \in 1..m : i \in 1..k /\ u[i] = s[i]
      /\ \A i \in 1..n : m + i \in 1..k /\ u[m + i] = t[i]
  BY Joined, SMT
<1> HIDE DEF m, n, k, u
<1>4. \A i \in 1..k : i \in 1..m \/ \E j \in 1..n : i = m + j
  <2> SUFFICES ASSUME NEW i \in 1..k, i \notin 1..m PROVE \E j \in 1..n : i = m + j
    OBVIOUS
  <2>1. i - m \in 1..n /\ i = m + (i - m)
    BY <1>1
  <2> QED BY <2>1, Zenon
<1>6. \A e : e \in Range(s) <=> \E i \in 1..m : e = s[i]
  BY <1>1, Zenon DEF Range
<1>7. \A e : e \in Range(t) <=> \E i \in 1..n : e = t[i]
  BY <1>1, Zenon DEF Range
<1>8. \A e : e \in Range(u) <=> \E i \in 1..k : e = u[i]
  BY <1>3, Zenon DEF Range
<1>9. ASSUME NEW e \in Range(u) PROVE e \in Range(s) \union Range(t)
  <2>1. PICK i \in 1..k : e = u[i]
    BY <1>8, Zenon
  <2>2. CASE i \in 1..m
    BY <1>3, <1>6, <2>1, <2>2, Zenon
  <2>3. CASE \E j \in 1..n : i = m + j
    BY <1>3, <1>7, <2>1, <2>3, Zenon
  <2> QED BY <1>4, <2>2, <2>3, Zenon
<1>10. ASSUME NEW e \in Range(s) PROVE e \in Range(u)
  BY <1>3, <1>6, <1>8, SMT
<1>11. ASSUME NEW e \in Range(t) PROVE e \in Range(u)
  BY <1>3, <1>7, <1>8, SMT
<1>12. Range(u) = Range(s) \union Range(t)
  BY <1>9, <1>10, <1>11, Zenon
<1> QED BY <1>12 DEF u

LEMMA RangeOfAppend ==
  ASSUME NEW s, NEW r, NEW T, s \in Seq(T)
  PROVE  Range(Append(s, r)) = Range(s) \union {r}
<1> DEFINE U == T \union {r}
<1>1. s \in Seq(U) /\ <<r>> \in Seq(U)
  <2>1. T \subseteq U /\ r \in U
    OBVIOUS
  <2> HIDE DEF U
  <2> QED BY <2>1
<1>2. Append(s, r) = s \o <<r>>
  BY AppendIsConcat
<1>3. Range(<<r>>) = {r}
  BY DEF Range
<1> HIDE DEF U
<1>4. Range(s \o <<r>>) = Range(s) \union Range(<<r>>)
  BY <1>1, RangeOfBoth, ZenonT(40)
<1> QED BY <1>2, <1>3, <1>4

\* The regions of short lists, and of a list they are added to.
LEMMA RangeOfMore ==
  ASSUME NEW T, NEW s \in Seq(T)
  PROVE  /\ \A a, b : Range(s \o <<a, b>>) = Range(s) \union {a, b}
         /\ \A a, b, c, d : Range(s \o <<a, b, c, d>>) = Range(s) \union {a, b, c, d}
<1>1. ASSUME NEW a, NEW b PROVE Range(s \o <<a, b>>) = Range(s) \union {a, b}
  <2> DEFINE U == T \union {a, b}
  <2>1. a \in U /\ b \in U /\ s \in Seq(U)
    OBVIOUS
  <2> HIDE DEF U
  <2>2. <<a, b>> \in Seq(U)
    BY <2>1
  <2>3. Range(<<a, b>>) = {a, b}
    BY DEF Range
  <2>4. Range(s \o <<a, b>>) = Range(s) \union Range(<<a, b>>)
    BY <2>1, <2>2, RangeOfBoth
  <2> QED BY <2>3, <2>4
<1>2. ASSUME NEW a, NEW b, NEW c, NEW d
      PROVE  Range(s \o <<a, b, c, d>>) = Range(s) \union {a, b, c, d}
  <2> DEFINE U == T \union {a, b, c, d}
  <2>1. a \in U /\ b \in U /\ c \in U /\ d \in U /\ s \in Seq(U)
    OBVIOUS
  <2> HIDE DEF U
  <2>2. <<a, b, c, d>> \in Seq(U)
    BY <2>1
  <2>3. Range(<<a, b, c, d>>) = {a, b, c, d}
    BY DEF Range
  <2>4. Range(s \o <<a, b, c, d>>) = Range(s) \union Range(<<a, b, c, d>>)
    BY <2>1, <2>2, RangeOfBoth, ZenonT(40)
  <2> QED BY <2>3, <2>4
<1> QED BY <1>1, <1>2, Zenon

-----------------------------------------------------------------------------
(* The steps of main: where an action finds main, where it leaves it, and    *)
(* what it keeps.                                                           *)

Goes(from, to) == pc = from /\ pc' \in to /\ input' = input

LEMMA LoadSteps ==
  /\ Allocate => Goes("allocate", {"kernel", "failed"}) /\ sregs' = sregs /\ ram' = ram
  /\ LoadBzImage => Goes("kernel", {"initrd", "failed"}) /\ sregs' = sregs
  /\ LoadSegment => Goes("kernel", {"kernel"}) /\ sregs' = sregs
  /\ SegmentsLoaded => Goes("kernel", {"initrd"}) /\ sregs' = sregs /\ ram' = ram
  /\ DetectFails => Goes("kernel", {"failed", "panicked"}) /\ sregs' = sregs /\ ram' = ram
  /\ load_initrd => Goes("initrd", {"params", "failed"}) /\ sregs' = sregs /\ entry' = entry
<1>1. Allocate => Goes("allocate", {"kernel", "failed"}) /\ sregs' = sregs /\ ram' = ram
  BY Zenon DEF Allocate, Fail, Goes
<1>2. LoadBzImage => Goes("kernel", {"initrd", "failed"}) /\ sregs' = sregs
  BY Zenon DEF LoadBzImage, Fail, Goes
<1>3. LoadSegment => Goes("kernel", {"kernel"}) /\ sregs' = sregs
  BY Zenon DEF LoadSegment, AtHeader, Goes
<1>4. SegmentsLoaded => Goes("kernel", {"initrd"}) /\ sregs' = sregs /\ ram' = ram
  BY Zenon DEF SegmentsLoaded, Goes
<1>5. DetectFails => Goes("kernel", {"failed", "panicked"}) /\ sregs' = sregs /\ ram' = ram
  BY Zenon DEF DetectFails, Fail, Goes
<1>6. load_initrd => Goes("initrd", {"params", "failed"}) /\ sregs' = sregs /\ entry' = entry
  BY DEF load_initrd, Goes
<1> QED BY <1>1, <1>2, <1>3, <1>4, <1>5, <1>6, Zenon

\* Where loading ends while it reads, without a write.
Ends == SegmentRefused \/ OverflowPanics \/ BufferDies \/ ReadFails

LEMMA EndSteps ==
  Ends => /\ pc \in {"kernel", "initrd"} /\ pc' \in {"failed", "panicked", "aborted"}
          /\ input' = input /\ UNCHANGED <<size, ram, ph, entry, params, regs, sregs, mp>>
<1>1. SegmentRefused => pc = "kernel" /\ Fail("failed") /\ input' = input
  BY Zenon DEF SegmentRefused, AtSegment, AtHeader
<1>2. OverflowPanics => pc = "kernel" /\ Fail("panicked") /\ input' = input
  BY Zenon DEF OverflowPanics, AtHeader
<1>3. BufferDies => pc = "kernel" /\ (Fail("panicked") \/ Fail("aborted")) /\ input' = input
  BY Zenon DEF BufferDies, AtSegment, AtHeader, VecDies
<1>4. ReadFails => pc \in {"kernel", "initrd"} /\ Fail("failed") /\ input' = input
  BY Zenon DEF ReadFails
<1> QED BY <1>1, <1>2, <1>3, <1>4, Zenon DEF Ends, Fail

LEMMA SetupSteps ==
  /\ setup_boot_params =>
       /\ Goes("params", {"cmdline", "failed", "panicked"})
       /\ sregs' = sregs /\ entry' = entry /\ size' = size
  /\ setup_cmdline =>
       /\ Goes("cmdline", {"regs", "failed"})
       /\ sregs' = sregs /\ entry' = entry /\ size' = size /\ params' = params
  /\ setup_general_registers =>
       /\ Goes("regs", {"mode", "failed"}) /\ ram' = ram
       /\ sregs' = sregs /\ entry' = entry /\ size' = size /\ params' = params
BY DEF setup_boot_params, setup_cmdline, setup_general_registers, Fail, Goes

LEMMA LastSteps ==
  /\ setup_long_mode \/ setup_protected_mode \/ CheckWindow \/ write_mptable =>
       /\ Goes(pc, {"window", "mptable", "run", "failed"})
       /\ entry' = entry /\ size' = size /\ params' = params /\ regs' = regs
  /\ setup_long_mode => Goes("mode", {"window", "failed"})
  /\ setup_protected_mode => Goes("mode", {"window", "failed"}) /\ ram' = ram
  /\ CheckWindow => Goes("window", {"mptable", "run", "failed"}) /\ sregs' = sregs /\ ram' = ram
  /\ write_mptable => Goes("mptable", {"run", "failed"}) /\ sregs' = sregs
BY DEF setup_long_mode, setup_protected_mode, CheckWindow, write_mptable, Fail, Goes

-----------------------------------------------------------------------------
(* The segments of the boot processor.                                      *)

\* The access word of a segment main builds, unpacked: its fields as they were packed.
LEMMA Unpack ==
  ASSUME NEW type \in 0..15, NEW l \in 0..1, NEW db \in 0..1, NEW g \in 0..1,
         NEW a, a = type + 144 + 8192 * l + 16384 * db + 32768 * g
  PROVE  /\ a % 16 = type /\ Bit(a, 16) = 1 /\ (a \div 32) % 4 = 0 /\ Bit(a, 128) = 1
         /\ Bit(a, 4096) = 0 /\ Bit(a, 8192) = l /\ Bit(a, 16384) = db /\ Bit(a, 32768) = g
         /\ Bit(a, 65536) = 0
<1>1. a \in Nat
  OBVIOUS
<1>2. a % 16 = type
  OBVIOUS
<1>3. Bit(a, 16) = 1
  BY <1>1 DEF Bit
<1>4. (a \div 32) % 4 = 0
  BY <1>1 DEF Bit
<1>5. Bit(a, 128) = 1
  BY <1>1 DEF Bit
<1>6. Bit(a, 4096) = 0
  BY <1>1 DEF Bit
<1>7. Bit(a, 8192) = l
  BY <1>1 DEF Bit
<1>8. Bit(a, 16384) = db
  BY <1>1 DEF Bit
<1>9. Bit(a, 32768) = g
  BY <1>1 DEF Bit
<1>10. Bit(a, 65536) = 0
  BY <1>1 DEF Bit
<1> QED BY <1>2, <1>3, <1>4, <1>5, <1>6, <1>7, <1>8, <1>9, <1>10

\* Both backends hold the segment they are given: bhyve's descriptor loses nothing
\* of it, whatever its type, size and selector.
LEMMA HeldIsGiven ==
  ASSUME NEW selector, NEW limit, NEW type \in 0..15,
         NEW l \in 0..1, NEW db \in 0..1, NEW g \in 0..1
  PROVE  Held(Seg(selector, type, limit, db, l, g)) = Seg(selector, type, limit, db, l, g)
<1> DEFINE seg == Seg(selector, type, limit, db, l, g)
           a   == SegDesc(seg).access
<1>1. a = type + 144 + 8192 * l + 16384 * db + 32768 * g
  BY DEF SegDesc, Seg
<1>2. /\ SegDesc(seg).limit = limit /\ seg.selector = selector
      /\ seg = [selector |-> selector, type |-> type, limit |-> limit, s |-> 1, dpl |-> 0,
                present |-> 1, avl |-> 0, l |-> l, db |-> db, g |-> g, unusable |-> 0]
  BY DEF SegDesc, Seg
<1> HIDE DEF a, seg
<1>3. /\ a % 16 = type /\ Bit(a, 16) = 1 /\ (a \div 32) % 4 = 0 /\ Bit(a, 128) = 1
      /\ Bit(a, 4096) = 0 /\ Bit(a, 8192) = l /\ Bit(a, 16384) = db /\ Bit(a, 32768) = g
      /\ Bit(a, 65536) = 0
  BY <1>1, Unpack
<1>4. SegmentOf(SegDesc(seg), seg.selector) =
        [selector |-> selector, limit |-> limit, type |-> type, s |-> 1, dpl |-> 0,
         present |-> 1, avl |-> 0, l |-> l, db |-> db, g |-> g, unusable |-> 0]
  BY <1>2, <1>3 DEF SegmentOf, a
<1>5. SegmentOf(SegDesc(seg), seg.selector) = seg
  BY <1>2, <1>4
<1>6. Held(seg) = seg
  BY <1>5, Zenon DEF Held
<1> QED BY <1>6 DEF seg

Flat32 ==
  [cs |-> make_flat32_segment(ResetSregs.cs, 11), ds |-> make_flat32_segment(ResetSregs.ds, 3),
   gdt |-> <<>>, PE |-> TRUE, PG |-> FALSE, PAE |-> FALSE, LM |-> FALSE]

\* make_flat32_segment leaves a segment's selector, and nothing of its size.
LEMMA FlatSegment ==
  ASSUME NEW selector, NEW old, NEW type
  PROVE  make_flat32_segment(Seg(selector, old, "ffff", 0, 0, 0), type)
           = Seg(selector, type, "ffffffff", 1, 0, 1)
<1> DEFINE f == make_flat32_segment(Seg(selector, old, "ffff", 0, 0, 0), type)
           b == Seg(selector, type, "ffffffff", 1, 0, 1)
           D == {"selector", "type", "limit", "s", "dpl", "present", "avl", "l", "db", "g",
                 "unusable"}
<1>1. f.selector = b.selector /\ f.type = b.type /\ f.limit = b.limit
  BY DEF make_flat32_segment, Seg
<1>2. f.s = b.s /\ f.dpl = b.dpl /\ f.present = b.present /\ f.avl = b.avl
  BY DEF make_flat32_segment, Seg
<1>3. f.l = b.l /\ f.db = b.db /\ f.g = b.g /\ f.unusable = b.unusable
  BY DEF make_flat32_segment, Seg
<1>4. f = [x \in D |-> f[x]] /\ b = [x \in D |-> b[x]]
  BY ZenonT(40) DEF make_flat32_segment, Seg
<1> HIDE DEF f, b
<1>5. \A x \in D : f[x] = b[x]
  BY <1>1, <1>2, <1>3
<1> HIDE DEF D
<1>6. f = b
  BY <1>4, <1>5
<1> QED BY <1>6 DEF f, b

\* The segments of the two modes, and that the backends hold them as given.
LEMMA ModeSegments ==
  /\ set_sregs(LongMode) = LongMode /\ set_sregs(Flat32) = Flat32
  /\ LongMode.cs = Seg(8, 11, "fffff", 0, 1, 1) /\ LongMode.ds = Seg(16, 3, "fffff", 0, 1, 1)
  /\ Flat32.cs = Seg(\hf000, 11, "ffffffff", 1, 0, 1) /\ Flat32.ds = Seg(0, 3, "ffffffff", 1, 0, 1)
<1>1. LongMode.cs = Seg(8, 11, "fffff", 0, 1, 1) /\ LongMode.ds = Seg(16, 3, "fffff", 0, 1, 1)
  BY DEF LongMode, generate_segment
<1>2. Flat32.cs = Seg(\hf000, 11, "ffffffff", 1, 0, 1)
  <2>1. Flat32.cs = make_flat32_segment(Seg(\hf000, 11, "ffff", 0, 0, 0), 11)
    BY DEF Flat32, ResetSregs
  <2> QED BY <2>1, FlatSegment, SMT
<1>3. Flat32.ds = Seg(0, 3, "ffffffff", 1, 0, 1)
  <2>1. Flat32.ds = make_flat32_segment(Seg(0, 3, "ffff", 0, 0, 0), 3)
    BY DEF Flat32, ResetSregs
  <2> QED BY <2>1, FlatSegment, SMT
<1>4. 11 \in 0..15 /\ 3 \in 0..15 /\ 0 \in 0..1 /\ 1 \in 0..1
  OBVIOUS
<1>5. \A seg \in {LongMode.cs, LongMode.ds, Flat32.cs, Flat32.ds} : Held(seg) = seg
  BY <1>1, <1>2, <1>3, <1>4, HeldIsGiven
<1>6. set_sregs(LongMode) = LongMode
  <2>1. set_sregs(LongMode) = [LongMode EXCEPT !.cs = Held(LongMode.cs), !.ds = Held(LongMode.ds)]
    BY DEF set_sregs, LongMode
  <2> QED BY <1>5, <2>1, ZenonT(40) DEF LongMode
<1>7. set_sregs(Flat32) = Flat32
  <2>1. set_sregs(Flat32) = [Flat32 EXCEPT !.cs = Held(Flat32.cs), !.ds = Held(Flat32.ds)]
    BY DEF set_sregs, Flat32
  <2> QED BY <1>5, <2>1, ZenonT(40) DEF Flat32
<1> QED BY <1>1, <1>2, <1>3, <1>6, <1>7

\* setup_protected_mode, from the state after reset.
LEMMA Flat32IsSet ==
  [ResetSregs EXCEPT !.cs = make_flat32_segment(@, 11), !.ds = make_flat32_segment(@, 3),
                     !.PE = TRUE, !.PG = FALSE, !.PAE = FALSE, !.LM = FALSE] = Flat32
<1> DEFINE c == ResetSregs.cs
           d == ResetSregs.ds
           fc == make_flat32_segment(c, 11)
           fd == make_flat32_segment(d, 3)
<1>1. /\ ResetSregs = [cs |-> c, ds |-> d, gdt |-> <<>>, PE |-> FALSE, PG |-> FALSE,
                       PAE |-> FALSE, LM |-> FALSE]
      /\ Flat32 = [cs |-> fc, ds |-> fd, gdt |-> <<>>, PE |-> TRUE, PG |-> FALSE,
                   PAE |-> FALSE, LM |-> FALSE]
  BY DEF ResetSregs, Flat32
<1> HIDE DEF c, d
<1>2. [ResetSregs EXCEPT !.cs = make_flat32_segment(@, 11), !.ds = make_flat32_segment(@, 3),
                     !.PE = TRUE, !.PG = FALSE, !.PAE = FALSE, !.LM = FALSE]
      = [ResetSregs EXCEPT !.cs = fc, !.ds = fd,
                     !.PE = TRUE, !.PG = FALSE, !.PAE = FALSE, !.LM = FALSE]
  BY <1>1
<1> HIDE DEF fc, fd
<1> DEFINE e == [ResetSregs EXCEPT !.cs = fc, !.ds = fd,
                     !.PE = TRUE, !.PG = FALSE, !.PAE = FALSE, !.LM = FALSE]
           D == {"cs", "ds", "gdt", "PE", "PG", "PAE", "LM"}
<1>3. e.cs = Flat32.cs /\ e.ds = Flat32.ds /\ e.gdt = Flat32.gdt
  BY <1>1
<1>4. e.PE = Flat32.PE /\ e.PG = Flat32.PG /\ e.PAE = Flat32.PAE /\ e.LM = Flat32.LM
  BY <1>1
<1>5. e = [x \in D |-> e[x]] /\ Flat32 = [x \in D |-> Flat32[x]]
  BY <1>1, Zenon
<1> HIDE DEF e
<1>6. \A x \in D : e[x] = Flat32[x]
  BY <1>3, <1>4
<1> HIDE DEF D
<1>7. e = Flat32
  BY <1>5, <1>6
<1> QED BY <1>2, <1>7 DEF e

-----------------------------------------------------------------------------
(* The invariant.                                                           *)

Owners == {"kernel", "initrd", "params", "cmdline", "gdt", "pml4", "pdpt", "pd", "mpc", "mpf"}

\* Where main writes what, in a memory of so many paragraphs: from Lo to Hi.
Lo(o) ==
  CASE o = "kernel" -> HIMEM_START      [] o = "initrd" -> INITRAMFS_ADDR
    [] o = "params" -> ZERO_PAGE_START  [] o = "cmdline" -> CMDLINE_ADDR
    [] o = "gdt" -> BOOT_GDT_OFFSET     [] o = "pml4" -> Paras(\ha000)
    [] o = "pdpt" -> Paras(\hb000)      [] o = "pd" -> Paras(\hc000)
    [] o = "mpc" -> MPC_ADDR            [] o = "mpf" -> MPF_ADDR

Hi(o, sz) ==
  IF o \in {"kernel", "initrd"} THEN sz
  ELSE Lo(o) + (CASE o \in {"params", "pd"} -> 256 [] o = "cmdline" -> 128 [] o = "gdt" -> 2
                  [] o \in {"pml4", "pdpt", "mpf"} -> 1 [] o = "mpc" -> 400)

Placed(sz, owners) ==
  {r \in [owner : owners, from : Nat, to : Nat] : Lo(r.owner) <= r.from /\ r.to <= Hi(r.owner, sz)}

\* Who may have written when main is about to take a step.
SoFar(step) ==
  CASE step \in {"allocate", "kernel", "initrd"} -> {"kernel"}
    [] step = "params" -> {"kernel", "initrd"}
    [] step = "cmdline" -> {"kernel", "initrd", "params"}
    [] step \in {"regs", "mode"} -> {"kernel", "initrd", "params", "cmdline"}
    [] step \in {"window", "mptable"} -> Owners \ {"mpc", "mpf"}
    [] OTHER -> Owners

\* What a later write may do to an earlier one.
Fine(a, b) ==
  Overlap(a, b) =>
    \/ a.owner = "kernel" /\ b.owner = "kernel" /\ ~Plain(kernel)
    \/ a.owner = "kernel" /\ b.owner = "initrd" /\ a.to > INITRAMFS_ADDR

Apart(seq) == \A i, j \in 1..Len(seq) : i < j => Fine(seq[i], seq[j])

\* The segments loaded so far hold what was written of the image.
InSegment(r, n) ==
  \E j \in 1..(n - 1) :
    LET p == kernel.phdrs[j]
    IN p.load /\ Extent(p).from <= r.from /\ r.to <= Extent(p).to

SegmentsSoFar ==
  IF kernel.format = "Elf64"
  THEN /\ ph - 1 <= Len(kernel.phdrs)
       /\ Plain(kernel) => \A i \in 1..Len(ram) : InSegment(ram[i], ph)
  ELSE ram = <<>>

Steps == {"allocate", "kernel", "initrd", "params", "cmdline", "regs", "mode", "window",
          "mptable", "run", "failed", "panicked", "aborted"}

InputOK ==
  /\ mb \in Nat /\ kernel \in Kernels /\ initrd \in Nat \union {-1} /\ cmdline \in Nat
  /\ cpus \in Nat /\ 0 < cpus /\ cpus <= 255

BootInv ==
  /\ InputOK /\ pc \in Steps /\ size \in Nat /\ size < Word \div 2 /\ ph \in Nat \ {0}
  /\ ram \in Seq(Placed(size, SoFar(pc))) /\ Apart(ram)
  /\ pc = "allocate" => ram = <<>> /\ ph = 1
  /\ pc = "kernel" => SegmentsSoFar
  /\ pc \notin {"allocate", "failed", "panicked", "aborted"} => size >= HIMEM_START
  /\ pc \in {"cmdline", "regs", "mode", "window", "mptable", "run"} =>
       params.e820 = e820(size)
  /\ pc \in {"mptable", "run"} => size < PCI_MMIO_WINDOW_END
  /\ DiesOfFileOnly

\* The fixed addresses, in paragraphs.
LEMMA Addresses ==
  /\ HIMEM_START = 65536 /\ INITRAMFS_ADDR = 8388608 /\ CMDLINE_ADDR = 8192
  /\ ZERO_PAGE_START = 1792 /\ EBDA_START = 40896 /\ BOOT_GDT_OFFSET = 80
  /\ MPF_ADDR = 61440 /\ MPC_ADDR = 61441 /\ MiB = 65536 /\ BOOT_STACK_POINTER = 2303
  /\ Paras(4096) = 256 /\ Paras(24) = 2
  /\ Paras(\ha000) = 2560 /\ Paras(\hb000) = 2816 /\ Paras(\hc000) = 3072
BY DEF HIMEM_START, INITRAMFS_ADDR, CMDLINE_ADDR, ZERO_PAGE_START, EBDA_START,
       BOOT_GDT_OFFSET, MPF_ADDR, MPC_ADDR, MiB, BOOT_STACK_POINTER, Paras

\* The places of the owners.
LEMMA Places ==
  /\ Lo("kernel") = 65536 /\ Lo("initrd") = 8388608
  /\ Lo("params") = 1792 /\ Lo("cmdline") = 8192 /\ Lo("gdt") = 80
  /\ Lo("pml4") = 2560 /\ Lo("pdpt") = 2816 /\ Lo("pd") = 3072
  /\ Lo("mpc") = 61441 /\ Lo("mpf") = 61440
  /\ \A sz : /\ Hi("kernel", sz) = sz /\ Hi("initrd", sz) = sz
             /\ Hi("params", sz) = 2048 /\ Hi("cmdline", sz) = 8320 /\ Hi("gdt", sz) = 82
             /\ Hi("pml4", sz) = 2561 /\ Hi("pdpt", sz) = 2817 /\ Hi("pd", sz) = 3328
             /\ Hi("mpc", sz) = 61841 /\ Hi("mpf", sz) = 61441
<1>1. /\ Lo("kernel") = 65536 /\ Lo("initrd") = 8388608
      /\ Lo("params") = 1792 /\ Lo("cmdline") = 8192 /\ Lo("gdt") = 80
      /\ Lo("pml4") = 2560 /\ Lo("pdpt") = 2816 /\ Lo("pd") = 3072
      /\ Lo("mpc") = 61441 /\ Lo("mpf") = 61440
  BY Addresses DEF Lo
<1> QED BY <1>1 DEF Hi

\* A region of a known owner that keeps to its place may be written.
LEMMA PlacedRegion ==
  ASSUME NEW sz \in Nat, NEW owners, NEW o \in owners, NEW from \in Nat, NEW len \in Nat,
         Lo(o) <= from, from + len <= Hi(o, sz)
  PROVE  Region(o, from, len) \in Placed(sz, owners)
<1>1. from + len \in Nat
  OBVIOUS
<1> QED BY <1>1 DEF Placed, Region

\* The regions main writes, where it writes them.
LEMMA Regions ==
  ASSUME NEW sz \in Nat, NEW owners
  PROVE  /\ \A from, len \in Nat :
              "kernel" \in owners /\ HIMEM_START <= from /\ from + len <= sz =>
                Region("kernel", from, len) \in Placed(sz, owners)
         /\ \A len \in Nat : "initrd" \in owners /\ INITRAMFS_ADDR + len <= sz =>
              Region("initrd", INITRAMFS_ADDR, len) \in Placed(sz, owners)
         /\ "params" \in owners =>
              Region("params", ZERO_PAGE_START, Paras(4096)) \in Placed(sz, owners)
         /\ \A len \in Nat : "cmdline" \in owners /\ len <= 128 =>
              Region("cmdline", CMDLINE_ADDR, len) \in Placed(sz, owners)
         /\ "gdt" \in owners => Region("gdt", BOOT_GDT_OFFSET, Paras(24)) \in Placed(sz, owners)
         /\ "pml4" \in owners => Region("pml4", Paras(\ha000), 1) \in Placed(sz, owners)
         /\ "pdpt" \in owners => Region("pdpt", Paras(\hb000), 1) \in Placed(sz, owners)
         /\ "pd" \in owners => Region("pd", Paras(\hc000), Paras(4096)) \in Placed(sz, owners)
         /\ \A len \in Nat : "mpc" \in owners /\ len <= 400 =>
              Region("mpc", MPC_ADDR, len) \in Placed(sz, owners)
         /\ "mpf" \in owners => Region("mpf", MPF_ADDR, 1) \in Placed(sz, owners)
<1>1. ASSUME NEW from \in Nat, NEW len \in Nat, "kernel" \in owners, HIMEM_START <= from,
             from + len <= sz
      PROVE  Region("kernel", from, len) \in Placed(sz, owners)
  <2>1. Lo("kernel") <= from /\ from + len <= Hi("kernel", sz)
    BY <1>1, Addresses, Places, SMT
  <2> QED BY <1>1, <2>1, PlacedRegion, SMT
<1>2. ASSUME NEW len \in Nat, "initrd" \in owners, INITRAMFS_ADDR + len <= sz
      PROVE  Region("initrd", INITRAMFS_ADDR, len) \in Placed(sz, owners)
  <2>1. /\ INITRAMFS_ADDR \in Nat /\ Lo("initrd") <= INITRAMFS_ADDR
        /\ INITRAMFS_ADDR + len <= Hi("initrd", sz)
    BY <1>2, Addresses, Places, SMT
  <2> QED BY <1>2, <2>1, PlacedRegion, SMT
<1>3. ASSUME NEW len \in Nat, "cmdline" \in owners, len <= 128
      PROVE  Region("cmdline", CMDLINE_ADDR, len) \in Placed(sz, owners)
  <2>1. /\ CMDLINE_ADDR \in Nat /\ Lo("cmdline") <= CMDLINE_ADDR
        /\ CMDLINE_ADDR + len <= Hi("cmdline", sz)
    BY <1>3, Addresses, Places, SMT
  <2> QED BY <1>3, <2>1, PlacedRegion, SMT
<1>4. ASSUME NEW len \in Nat, "mpc" \in owners, len <= 400
      PROVE  Region("mpc", MPC_ADDR, len) \in Placed(sz, owners)
  <2>1. /\ MPC_ADDR \in Nat /\ Lo("mpc") <= MPC_ADDR
        /\ MPC_ADDR + len <= Hi("mpc", sz)
    BY <1>4, Addresses, Places, SMT
  <2> QED BY <1>4, <2>1, PlacedRegion, SMT
<1>5. /\ Paras(4096) \in Nat /\ Paras(24) \in Nat /\ 1 \in Nat
      /\ ZERO_PAGE_START \in Nat /\ BOOT_GDT_OFFSET \in Nat /\ MPF_ADDR \in Nat
      /\ Paras(\ha000) \in Nat /\ Paras(\hb000) \in Nat /\ Paras(\hc000) \in Nat
  BY Addresses, SMT
<1>6. /\ Lo("params") <= ZERO_PAGE_START /\ ZERO_PAGE_START + Paras(4096) <= Hi("params", sz)
      /\ Lo("gdt") <= BOOT_GDT_OFFSET /\ BOOT_GDT_OFFSET + Paras(24) <= Hi("gdt", sz)
      /\ Lo("pml4") <= Paras(\ha000) /\ Paras(\ha000) + 1 <= Hi("pml4", sz)
      /\ Lo("pdpt") <= Paras(\hb000) /\ Paras(\hb000) + 1 <= Hi("pdpt", sz)
      /\ Lo("pd") <= Paras(\hc000) /\ Paras(\hc000) + Paras(4096) <= Hi("pd", sz)
      /\ Lo("mpf") <= MPF_ADDR /\ MPF_ADDR + 1 <= Hi("mpf", sz)
  BY Addresses, Places, SMT
<1>7. /\ "params" \in owners =>
           Region("params", ZERO_PAGE_START, Paras(4096)) \in Placed(sz, owners)
      /\ "gdt" \in owners => Region("gdt", BOOT_GDT_OFFSET, Paras(24)) \in Placed(sz, owners)
  BY <1>5, <1>6, PlacedRegion, SMT
<1>8. /\ "pml4" \in owners => Region("pml4", Paras(\ha000), 1) \in Placed(sz, owners)
      /\ "pdpt" \in owners => Region("pdpt", Paras(\hb000), 1) \in Placed(sz, owners)
      /\ "pd" \in owners => Region("pd", Paras(\hc000), Paras(4096)) \in Placed(sz, owners)
      /\ "mpf" \in owners => Region("mpf", MPF_ADDR, 1) \in Placed(sz, owners)
  BY <1>5, <1>6, PlacedRegion
<1> QED BY <1>1, <1>2, <1>3, <1>4, <1>7, <1>8, SMT

\* More owners, more places.
LEMMA MorePlaces ==
  ASSUME NEW sz, NEW few, NEW many, few \subseteq many, NEW seq \in Seq(Placed(sz, few))
  PROVE  seq \in Seq(Placed(sz, many))
<1>1. Placed(sz, few) \subseteq Placed(sz, many)
  BY DEF Placed
<1>2. \A i \in 1..Len(seq) : seq[i] \in Placed(sz, many)
  BY <1>1, ElementOfSeq
<1>3. Len(seq) \in Nat /\ seq = [i \in 1..Len(seq) |-> seq[i]]
  BY LenProperties
<1>4. seq \in [1..Len(seq) -> Placed(sz, many)]
  BY <1>2, <1>3
<1> QED BY <1>3, <1>4, ASeq

\* Two writes share no paragraph unless they are of one owner or are the kernel
\* and the initramfs.
LEMMA OwnersApart ==
  ASSUME NEW sz \in Nat, NEW a \in Placed(sz, Owners), NEW b \in Placed(sz, Owners),
         a.owner # b.owner, ~(a.owner = "kernel" /\ b.owner = "initrd"),
         ~(a.owner = "initrd" /\ b.owner = "kernel")
  PROVE  ~Overlap(a, b)
<1>1. /\ a.from \in Nat /\ a.to \in Nat /\ b.from \in Nat /\ b.to \in Nat
      /\ Lo(a.owner) <= a.from /\ a.to <= Hi(a.owner, sz)
      /\ Lo(b.owner) <= b.from /\ b.to <= Hi(b.owner, sz)
      /\ a.owner \in Owners /\ b.owner \in Owners
  BY DEF Placed
<1> DEFINE la == Lo(a.owner)  ha == Hi(a.owner, sz)  lb == Lo(b.owner)  hb == Hi(b.owner, sz)
<1>2. la \in Nat /\ ha \in Nat /\ lb \in Nat /\ hb \in Nat
  <2>1. \A o \in Owners : Lo(o) \in Nat /\ Hi(o, sz) \in Nat
    BY Places DEF Owners
  <2> QED BY <1>1, <2>1
<1>3. ha <= lb \/ hb <= la
  BY <1>1, Places DEF Owners
<1>4. la <= a.from /\ a.to <= ha /\ lb <= b.from /\ b.to <= hb
  BY <1>1
<1>5. ~(a.from < b.to /\ b.from < a.to)
  <2> HIDE DEF la, ha, lb, hb
  <2> QED BY <1>1, <1>2, <1>3, <1>4
<1> QED BY <1>5 DEF Overlap

\* What lies in regions that are apart is apart.
LEMMA InsideApart ==
  ASSUME NEW a, NEW b, NEW x, NEW y, ~Overlap(x, y),
         a.from \in Nat, a.to \in Nat, b.from \in Nat, b.to \in Nat,
         x.from \in Nat, x.to \in Nat, y.from \in Nat, y.to \in Nat,
         x.from <= a.from, a.to <= x.to, y.from <= b.from, b.to <= y.to
  PROVE  ~Overlap(a, b)
BY SMT DEF Overlap

\* The extent of a segment.
LEMMA ExtentOf ==
  ASSUME NEW p \in [load : BOOLEAN, paddr : Nat, filesz : Nat, memsz : Nat]
  PROVE  /\ Extent(p).from = p.paddr /\ Extent(p).from \in Nat /\ Extent(p).to \in Nat
         /\ p.paddr + p.filesz <= Extent(p).to /\ p.paddr + p.memsz <= Extent(p).to
BY SMT DEF Extent, Region

\* Where a segment goes: as it says, but never below 1 MiB.
LEMMA LoadAddr ==
  ASSUME NEW p \in [load : BOOLEAN, paddr : Nat, filesz : Nat, memsz : Nat]
  PROVE  /\ load_addr(p) \in Nat /\ load_addr(p) >= HIMEM_START
         /\ p.paddr >= HIMEM_START => load_addr(p) = p.paddr
<1>1. p.paddr \in Nat /\ HIMEM_START \in Nat
  BY Addresses
<1> QED BY <1>1, SMT DEF load_addr

\* Writes that are fine with the earlier ones and among themselves.
LEMMA MoreApart ==
  ASSUME NEW S, NEW seq \in Seq(S), NEW more \in Seq(S), Apart(seq), Apart(more),
         \A i \in 1..Len(seq), j \in 1..Len(more) : Fine(seq[i], more[j])
  PROVE  seq \o more \in Seq(S) /\ Apart(seq \o more)
<1>1. /\ seq \o more \in Seq(S) /\ Len(seq \o more) = Len(seq) + Len(more)
      /\ \A i \in 1..(Len(seq) + Len(more)) :
           (seq \o more)[i] = IF i <= Len(seq) THEN seq[i] ELSE more[i - Len(seq)]
  BY ConcatProperties
<1>2. PICK n \in Nat, m \in Nat : n = Len(seq) /\ m = Len(more)
  BY LenProperties
<1> DEFINE all == seq \o more
<1>3. ASSUME NEW i \in 1..(n + m), NEW j \in 1..(n + m), i < j PROVE Fine(all[i], all[j])
  <2>1. CASE j <= n
    <3>1. i \in 1..n /\ j \in 1..n /\ all[i] = seq[i] /\ all[j] = seq[j]
      BY <1>1, <1>2, <1>3, <2>1
    <3> QED BY <1>2, <1>3, <3>1 DEF Apart
  <2>2. CASE i <= n /\ j > n
    <3>1. i \in 1..n /\ j - n \in 1..m /\ all[i] = seq[i] /\ all[j] = more[j - n]
      BY <1>1, <1>2, <1>3, <2>2
    <3> HIDE DEF all
    <3> QED BY <1>2, <3>1
  <2>3. CASE i > n
    <3>1. /\ i - n \in 1..m /\ j - n \in 1..m /\ i - n < j - n
          /\ all[i] = more[i - n] /\ all[j] = more[j - n]
      BY <1>1, <1>2, <1>3, <2>3
    <3> HIDE DEF all
    <3> QED BY <1>2, <3>1 DEF Apart
  <2> QED BY <1>2, <2>1, <2>2, <2>3
<1>4. Apart(all)
  <2> HIDE DEF all
  <2>1. Len(all) = n + m
    BY <1>1, <1>2 DEF all
  <2> QED BY <1>3, <2>1 DEF Apart
<1> QED BY <1>1, <1>4

\* A write of another owner than the earlier ones, and not the initramfs, is fine.
LEMMA NewOwner ==
  ASSUME BootInv, NEW r \in Placed(size, Owners), r.owner \notin SoFar(pc), r.owner # "initrd",
         NEW i \in 1..Len(ram), "kernel" \in SoFar(pc), SoFar(pc) \subseteq Owners
  PROVE  Fine(ram[i], r)
<1>1. ram[i] \in Placed(size, SoFar(pc))
  BY ElementOfSeq DEF BootInv
<1>2. ram[i] \in Placed(size, Owners) /\ ram[i].owner \in SoFar(pc)
  BY <1>1 DEF Placed
<1>3. ~Overlap(ram[i], r)
  BY <1>2, OwnersApart DEF BootInv
<1> QED BY <1>3 DEF Fine

\* One write more.
LEMMA OneMore ==
  ASSUME BootInv, NEW owners, SoFar(pc) \subseteq owners, NEW r \in Placed(size, owners),
         \A i \in 1..Len(ram) : Fine(ram[i], r)
  PROVE  Append(ram, r) \in Seq(Placed(size, owners)) /\ Apart(Append(ram, r))
<1> DEFINE S == Placed(size, owners)
<1>1. ram \in Seq(S) /\ Apart(ram)
  BY MorePlaces DEF BootInv
<1> HIDE DEF S
<1>2. <<r>> \in Seq(S) /\ Len(<<r>>) = 1 /\ <<r>>[1] = r
  BY DEF S
<1>3. Apart(<<r>>)
  BY DEF Apart
<1>4. \A i \in 1..Len(ram), j \in 1..Len(<<r>>) : Fine(ram[i], <<r>>[j])
  BY <1>2
<1>5. ram \o <<r>> \in Seq(S) /\ Apart(ram \o <<r>>)
  BY <1>1, <1>2, <1>3, <1>4, MoreApart, Zenon
<1>6. Append(ram, r) = ram \o <<r>>
  BY <1>1, <1>2
<1> QED BY <1>5, <1>6 DEF S

\* Nothing is written when main starts.
LEMMA BootInitInv == Init => BootInv
<1> SUFFICES ASSUME Init PROVE BootInv
  OBVIOUS
<1>1. InputOK
  BY BootAssumption DEF Init, InputOK
<1>2. ram \in Seq(Placed(size, SoFar(pc))) /\ Apart(ram)
  BY EmptySeq DEF Init, Apart
<1>3. size = 0 /\ 0 < Word \div 2
  BY BootAssumption DEF Init, PCI_MMIO_WINDOW_END, MiB
<1> QED BY <1>1, <1>2, <1>3 DEF Init, BootInv, Steps, DiesOfFileOnly

\* What a step that loads nothing of the image leaves as it was.
LEMMA KernelKept ==
  ASSUME BootInv, UNCHANGED input
  PROVE  /\ InputOK' /\ (Plain(kernel))' = Plain(kernel)
         /\ \A seq : Apart(seq) => Apart(seq)'
         /\ UNCHANGED kernel
BY DEF BootInv, InputOK, input, Plain, Apart, Fine

\* A step that ends loading keeps the invariant.
LEMMA EndsInv ==
  ASSUME BootInv, UNCHANGED input, pc' \in {"failed", "panicked", "aborted"}, DiesOfFileOnly',
         UNCHANGED <<size, ram, ph>>
  PROVE  BootInv'
<1>1. SoFar(pc') = Owners /\ SoFar(pc) \subseteq Owners
  BY DEF SoFar, Owners
<1>2. ram' \in Seq(Placed(size', SoFar(pc')))
  BY <1>1, MorePlaces, SMTT(30) DEF BootInv
<1>3. Apart(ram)' /\ InputOK' /\ UNCHANGED kernel
  BY KernelKept DEF BootInv, Apart
<1> QED BY <1>2, <1>3 DEF BootInv, Steps

\* An error is not a death.
LEMMA FailsInv ==
  ASSUME BootInv, UNCHANGED input, Fail("failed")
  PROVE  BootInv'
<1>1. pc' = "failed" /\ UNCHANGED <<size, ram, ph>>
  BY DEF Fail
<1> QED BY <1>1, EndsInv DEF DiesOfFileOnly

LEMMA SmallMod ==
  ASSUME NEW x \in Nat, NEW w \in Nat, x < w
  PROVE  x % w = x
BY SMT

\* load_elf_kernel dies of an oversized header: a buffer as long as the memory, or
\* longer, is asked for only if the file's bytes alone need it, or if end_addr wrapped.
LEMMA LoadDiesInv ==
  ASSUME BootInv, OverflowPanics \/ BufferDies
  PROVE  BootInv'
<1> DEFINE p == kernel.phdrs[ph]
           at == load_addr(p)
<1>1. /\ AtHeader /\ UNCHANGED <<size, ram, ph>> /\ UNCHANGED input
      /\ pc' \in {"panicked", "aborted"}
  BY ZenonT(40) DEF OverflowPanics, BufferDies, AtSegment, VecDies, Fail
<1>2. /\ kernel \in Kernels /\ kernel.format = "Elf64" /\ size \in Nat /\ size < Word \div 2
      /\ kernel.phdrs \in Seq([load : BOOLEAN, paddr : Nat, filesz : Nat, memsz : Nat])
      /\ ph \in Nat \ {0} /\ ph <= Len(kernel.phdrs) /\ kernel' = kernel
      /\ Word \in Nat
  BY <1>1, BootAssumption DEF AtHeader, BootInv, InputOK, input
<1>3. /\ ph \in DOMAIN kernel.phdrs
      /\ p \in [load : BOOLEAN, paddr : Nat, filesz : Nat, memsz : Nat]
  <2>1. Len(kernel.phdrs) \in Nat /\ DOMAIN kernel.phdrs = 1..Len(kernel.phdrs)
    BY <1>2, LenProperties
  <2>2. ph \in 1..Len(kernel.phdrs)
    BY <1>2, <2>1
  <2> QED BY <1>2, <2>1, <2>2, ElementOfSeq, ZenonT(40)
<1>4. at \in Nat /\ p.memsz \in Nat /\ p.filesz \in Nat
  BY <1>3, LoadAddr
<1>5. phdr_offset(kernel, ph) >= Word \/ Oversized(p)
  <2>1. CASE OverflowPanics
    BY <2>1, Zenon DEF OverflowPanics, AtSegment, Oversized
  <2>2. CASE BufferDies
    <3>1. /\ p.load /\ (at + p.memsz) % Word <= size
          /\ \/ p.filesz >= Word \div 2 \/ size < p.filesz
             \/ p.memsz - p.filesz >= Word \div 2 \/ size < p.memsz - p.filesz
      BY <2>2, ZenonT(40) DEF BufferDies, AtSegment, VecDies, end_addr
    <3> HIDE DEF p, at
    <3>2. size < p.filesz \/ size < p.memsz - p.filesz
      BY <1>2, <1>4, <3>1
    <3>3. at + p.memsz >= Word \/ p.filesz > size
      <4> DEFINE last == at + p.memsz
      <4>1. last \in Nat
        BY <1>4
      <4>2. last % Word <= size
        BY <3>1
      <4>3. last >= p.memsz
        BY <1>4
      <4> HIDE DEF last
      <4>7. last < Word => last <= size
        BY <1>2, <4>1, <4>2, SmallMod, ZenonT(40)
      <4>4. last >= Word \/ last <= size
        BY <1>2, <4>1, <4>7
      <4>5. last <= size => p.memsz - p.filesz <= size
        BY <1>2, <1>4, <4>1, <4>3, SMTT(30)
      <4>6. last >= Word \/ p.filesz > size
        BY <1>2, <1>4, <3>2, <4>1, <4>4, <4>5
      <4> QED BY <4>6, Zenon DEF last
    <3> QED BY <3>1, <3>3, Zenon DEF Oversized, at
  <2> QED BY <2>1, <2>2
<1>6. DiesOfFileOnly'
  <2>1. size' = size
    BY <1>1
  <2>2. (Oversized(p) => (p.load /\ (load_addr(p) + p.memsz >= Word \/ p.filesz > size')))
    BY <2>1, Zenon DEF Oversized
  <2> HIDE DEF at
  <2> QED BY <1>2, <1>3, <1>5, <2>2, Zenon DEF DiesOfFileOnly, Oversized, p
<1> QED BY <1>1, <1>6, EndsInv

\* Every end of loading while it reads.
LEMMA EndStepsInv ==
  ASSUME BootInv, Ends PROVE BootInv'
<1>1. CASE SegmentRefused \/ ReadFails
  BY <1>1, FailsInv, Zenon DEF SegmentRefused, ReadFails
<1>2. CASE OverflowPanics \/ BufferDies
  BY <1>2, LoadDiesInv
<1> QED BY <1>1, <1>2 DEF Ends

\* load_kernel puts the payload of a bzImage at 1 MiB if the memory holds it.
LEMMA LoadBzImageInv ==
  ASSUME BootInv, LoadBzImage PROVE BootInv'
<1> DEFINE at  == payload_offset(kernel)
           len == kernel.len * Sector - at
<1>1. CASE at >= kernel.len * Sector \/ ~Fits(HIMEM_START, len)
  BY <1>1, FailsInv DEF LoadBzImage
<1>2. CASE ~(at >= kernel.len * Sector \/ ~Fits(HIMEM_START, len))
  <2>1. kernel.sects \in Nat /\ kernel.len \in Nat
    BY BootAssumption DEF LoadBzImage, BootInv, InputOK
  <2>2. at \in Nat /\ len \in Nat
    BY <1>2, <2>1 DEF payload_offset, get_setup_sects, Sector
  <2>3. Region("kernel", HIMEM_START, len) \in Placed(size, {"kernel"})
    <3> HIDE DEF len, at
    <3>1. HIMEM_START + len <= size
      BY <1>2 DEF Fits
    <3>2. HIMEM_START \in Nat /\ HIMEM_START <= HIMEM_START
      BY Addresses
    <3> QED BY <2>2, <3>1, <3>2, Regions DEF BootInv
  <2>4. /\ ram' = Append(ram, Region("kernel", HIMEM_START, len)) /\ pc' = "initrd"
        /\ pc = "kernel" /\ UNCHANGED <<size, ph, params>> /\ UNCHANGED input
    BY <1>2 DEF LoadBzImage
  <2>5. ram = <<>>
    BY DEF LoadBzImage, BootInv, SegmentsSoFar
  <2> HIDE DEF len, at
  <2>6. SoFar(pc) = {"kernel"} /\ SoFar(pc') = {"kernel"}
    BY <2>4 DEF SoFar
  <2>7. ram' \in Seq(Placed(size', SoFar(pc'))) /\ Apart(ram')
    <3>1. \A i \in 1..Len(ram) : FALSE
      BY <2>5, EmptySeq
    <3> QED BY <2>3, <2>4, <2>6, <3>1, OneMore, ZenonT(40)
  <2>8. Apart(ram)' /\ InputOK' /\ UNCHANGED kernel
    BY <2>4, <2>7, KernelKept, ZenonT(40) DEF Apart
  <2> QED BY <2>4, <2>7, <2>8 DEF BootInv, Steps, DiesOfFileOnly
<1> QED BY <1>1, <1>2

\* load_initrd puts the initramfs at its address or fails.
LEMMA LoadInitrdInv ==
  ASSUME BootInv, load_initrd PROVE BootInv'
<1>1. /\ pc = "initrd" /\ UNCHANGED <<size, ph, params>> /\ UNCHANGED input
      /\ \/ UNCHANGED ram /\ pc' \in {"params", "failed"}
         \/ /\ initrd # -1 /\ INITRAMFS_ADDR + initrd <= size /\ pc' = "params"
            /\ ram' = Append(ram, Region("initrd", INITRAMFS_ADDR, initrd))
  BY DEF load_initrd, Fits
<1>2. /\ SoFar(pc) = {"kernel"} /\ SoFar("params") = {"kernel", "initrd"}
      /\ SoFar("failed") = Owners /\ {"kernel"} \subseteq Owners
  BY <1>1 DEF SoFar, Owners
<1>3. ram' \in Seq(Placed(size, SoFar(pc'))) /\ Apart(ram')
  <2>1. CASE UNCHANGED ram /\ pc' \in {"params", "failed"}
    BY <1>2, <2>1, MorePlaces DEF BootInv
  <2>2. CASE /\ initrd # -1 /\ INITRAMFS_ADDR + initrd <= size /\ pc' = "params"
             /\ ram' = Append(ram, Region("initrd", INITRAMFS_ADDR, initrd))
    <3> DEFINE r == Region("initrd", INITRAMFS_ADDR, initrd)
    <3>1. initrd \in Nat
      BY <2>2 DEF BootInv, InputOK
    <3>2. r \in Placed(size, {"kernel", "initrd"})
      BY <2>2, <3>1, Regions DEF BootInv
    <3>3. r.owner = "initrd" /\ r.from = INITRAMFS_ADDR
      BY DEF Region
    <3> HIDE DEF r
    <3>4. ASSUME NEW i \in 1..Len(ram) PROVE Fine(ram[i], r)
      <4>1. ram[i] \in Placed(size, {"kernel"})
        BY <1>2, ElementOfSeq DEF BootInv
      <4>2. ram[i].owner = "kernel" /\ ram[i].to \in Nat
        BY <4>1 DEF Placed
      <4> QED BY <3>3, <4>2, Addresses DEF Fine, Overlap
    <3>5. Append(ram, r) \in Seq(Placed(size, {"kernel", "initrd"})) /\ Apart(Append(ram, r))
      BY <1>2, <3>2, <3>4, OneMore
    <3> QED BY <1>2, <2>2, <3>5, Zenon DEF r
  <2> QED BY <1>1, <2>1, <2>2
<1>4. Apart(ram)' /\ InputOK' /\ UNCHANGED kernel
  BY <1>1, <1>3, KernelKept DEF Apart
<1> QED BY <1>1, <1>3, <1>4 DEF BootInv, Steps, DiesOfFileOnly

\* setup_boot_params never subtracts below zero, and describes the memory.
LEMMA SetupBootParamsInv ==
  ASSUME BootInv, setup_boot_params PROVE BootInv'
<1>1. pc = "params" /\ size >= HIMEM_START /\ size \in Nat
  BY DEF setup_boot_params, BootInv
<1>2. ~(size < HIMEM_START)
  BY <1>1, Addresses
<1>3. CASE ~Fits(ZERO_PAGE_START, Paras(4096))
  BY <1>2, <1>3, FailsInv DEF setup_boot_params
<1>4. CASE Fits(ZERO_PAGE_START, Paras(4096))
  <2> DEFINE r == Region("params", ZERO_PAGE_START, Paras(4096))
  <2>1. /\ params'.e820 = e820(size) /\ pc' = "cmdline" /\ ram' = Append(ram, r)
        /\ UNCHANGED <<size, ph>> /\ UNCHANGED input
    BY <1>2, <1>4 DEF setup_boot_params
  <2>2. /\ SoFar(pc) = {"kernel", "initrd"} /\ SoFar(pc') = {"kernel", "initrd", "params"}
        /\ SoFar(pc') \subseteq Owners
    BY <1>1, <2>1 DEF SoFar, Owners
  <2>3. \A owners : "params" \in owners => r \in Placed(size, owners)
    BY <1>1, Regions
  <2>4. r.owner = "params"
    BY DEF Region
  <2> HIDE DEF r
  <2>5. \A i \in 1..Len(ram) : Fine(ram[i], r)
    BY <2>2, <2>3, <2>4, NewOwner DEF Owners
  <2>6. ram' \in Seq(Placed(size, SoFar(pc'))) /\ Apart(ram')
    BY <2>1, <2>2, <2>3, <2>5, OneMore
  <2>7. Apart(ram)' /\ InputOK' /\ UNCHANGED kernel
    BY <2>1, <2>6, KernelKept, ZenonT(40) DEF Apart
  <2>8. e820(size)' = e820(size)
    BY <2>1 DEF e820
  <2> QED BY <1>1, <2>1, <2>6, <2>7, <2>8 DEF BootInv, Steps, DiesOfFileOnly
<1> QED BY <1>3, <1>4

\* setup_cmdline refuses what would not fit between its address and the EBDA.
LEMMA SetupCmdlineInv ==
  ASSUME BootInv, setup_cmdline PROVE BootInv'
<1>1. CASE cmdline + 1 > 2048 \/ ~Fits(CMDLINE_ADDR, Paras(cmdline + 1))
  BY <1>1, FailsInv DEF setup_cmdline
<1>2. CASE ~(cmdline + 1 > 2048 \/ ~Fits(CMDLINE_ADDR, Paras(cmdline + 1)))
  <2> DEFINE r == Region("cmdline", CMDLINE_ADDR, Paras(cmdline + 1))
  <2>1. /\ pc = "cmdline" /\ pc' = "regs" /\ UNCHANGED <<size, ph, params>> /\ UNCHANGED input
        /\ ram' = Append(ram, r)
    BY <1>2 DEF setup_cmdline
  <2>2. /\ SoFar(pc) = {"kernel", "initrd", "params"}
        /\ SoFar(pc') = {"kernel", "initrd", "params", "cmdline"} /\ SoFar(pc') \subseteq Owners
    BY <2>1 DEF SoFar, Owners
  <2>3. cmdline \in Nat /\ cmdline + 1 <= 2048
    BY <1>2 DEF BootInv, InputOK
  <2>4. Paras(cmdline + 1) \in Nat /\ Paras(cmdline + 1) <= 128
    BY <2>3 DEF Paras
  <2>5. \A owners : "cmdline" \in owners => r \in Placed(size, owners)
    <3> DEFINE n == Paras(cmdline + 1)
    <3>1. n \in Nat /\ n <= 128 /\ size \in Nat
      BY <2>4 DEF BootInv
    <3>2. r = Region("cmdline", CMDLINE_ADDR, n)
      OBVIOUS
    <3> HIDE DEF n, r
    <3>3. ASSUME NEW owners, "cmdline" \in owners PROVE r \in Placed(size, owners)
      BY <3>1, <3>2, <3>3, Regions
    <3> QED BY <3>3, SMT
  <2>6. r.owner = "cmdline"
    BY DEF Region
  <2> HIDE DEF r
  <2>7. \A i \in 1..Len(ram) : Fine(ram[i], r)
    BY <2>2, <2>5, <2>6, NewOwner DEF Owners
  <2>8. ram' \in Seq(Placed(size, SoFar(pc'))) /\ Apart(ram')
    BY <2>1, <2>2, <2>5, <2>7, OneMore, SMTT(30)
  <2>9. Apart(ram)' /\ InputOK' /\ UNCHANGED kernel
    <3>1. InputOK' /\ UNCHANGED kernel
      BY <2>1, KernelKept, Zenon
    <3>2. Apart(ram)'
      BY <2>8, <3>1, ZenonT(40) DEF Apart, Fine
    <3> QED BY <3>1, <3>2
  <2>10. e820(size)' = e820(size)
    BY <2>1 DEF e820
  <2> QED BY <2>1, <2>8, <2>9, <2>10 DEF BootInv, Steps, DiesOfFileOnly
<1> QED BY <1>1, <1>2
\* load_elf_kernel puts a segment, its zeros included, from 1 MiB on or fails; in
\* an image whose segments are apart, apart from the earlier ones.
LEMMA LoadSegmentInv ==
  ASSUME BootInv, LoadSegment PROVE BootInv'
<1> DEFINE p    == kernel.phdrs[ph]
           at   == load_addr(p)
           f    == Region("kernel", at, p.filesz)
           z    == Region("kernel", at + p.filesz, p.memsz - p.filesz)
           file == IF p.filesz > 0 THEN <<f>> ELSE <<>>
           bss  == IF p.memsz > p.filesz THEN <<z>> ELSE <<>>
           more == file \o bss
           K    == Placed(size, {"kernel"})
<1>0. /\ pc = "kernel" /\ kernel.format = "Elf64" /\ SegmentsSoFar /\ size \in Nat
      /\ ram \in Seq(K) /\ Apart(ram)
  BY DEF LoadSegment, AtHeader, BootInv, SoFar
<1>1. /\ p \in [load : BOOLEAN, paddr : Nat, filesz : Nat, memsz : Nat]
      /\ ph \in 1..Len(kernel.phdrs) /\ Len(kernel.phdrs) \in Nat
      /\ DOMAIN kernel.phdrs = 1..Len(kernel.phdrs)
  <2>1. kernel.phdrs \in Seq([load : BOOLEAN, paddr : Nat, filesz : Nat, memsz : Nat])
    BY BootAssumption, SMTT(30) DEF LoadSegment, AtHeader, BootInv, InputOK
  <2>2. ph \in 1..Len(kernel.phdrs) /\ Len(kernel.phdrs) \in Nat
    BY <2>1, LenProperties DEF LoadSegment, AtHeader, BootInv
  <2> QED BY <2>1, <2>2, ElementOfSeq, LenProperties, ZenonT(40)
<1>2. /\ at \in Nat /\ at >= HIMEM_START
      /\ p.paddr >= HIMEM_START => at = p.paddr
  BY <1>1, LoadAddr
<1>3. p.load => Fits(at, p.memsz) /\ Fits(at, p.filesz)
  BY ZenonT(40) DEF LoadSegment
<1>4. CASE ~p.load
  <2>1. /\ ph' = ph + 1 /\ UNCHANGED <<pc, size, ram, params>> /\ UNCHANGED input
    BY <1>4, SMTT(30) DEF LoadSegment
  <2>2. Apart(ram)' /\ InputOK' /\ UNCHANGED kernel /\ Plain(kernel)' = Plain(kernel)
    BY <1>0, <2>1, KernelKept, ZenonT(40) DEF Apart
  <2>3. SegmentsSoFar'
    <3>1. \A r : InSegment(r, ph) => InSegment(r, ph')
      BY <1>1, <2>1, SMTT(30) DEF InSegment
    <3>2. \A i \in 1..Len(ram') : InSegment(ram[i], ph)' <=> InSegment(ram'[i], ph')
      BY <2>2 DEF InSegment, Extent, Region
    <3>3. ph' - 1 <= Len(kernel.phdrs)
      BY <1>1, <2>1, SMTT(30)
    <3> QED BY <1>0, <2>1, <2>2, <3>1, <3>2, <3>3, SMTT(30) DEF SegmentsSoFar
  <2> QED BY <1>0, <2>1, <2>2, <2>3, SMTT(30) DEF BootInv, Steps, DiesOfFileOnly
<1>5. CASE p.load /\ Fits(at, p.memsz) /\ Fits(at, p.filesz)
  <2>1. /\ ram' = ram \o file \o bss
        /\ ph' = ph + 1 /\ UNCHANGED <<pc, size, params>> /\ UNCHANGED input
    BY <1>5, Zenon DEF LoadSegment
  <2>2. at + p.memsz <= size /\ at + p.filesz <= size
    BY <1>5, SMTT(30) DEF Fits
  <2>3. f \in K /\ f.owner = "kernel" /\ f.from = at /\ f.to = at + p.filesz
    <3>1. f \in K
      BY <1>0, <1>1, <1>2, <2>2, Regions, SMTT(30)
    <3> QED BY <3>1, SMTT(30) DEF Region
  <2>4. p.memsz > p.filesz =>
          z \in K /\ z.owner = "kernel" /\ z.from = at + p.filesz /\ z.to = at + p.memsz
    <3>1. ASSUME p.memsz > p.filesz
          PROVE  /\ at + p.filesz \in Nat /\ p.memsz - p.filesz \in Nat
                 /\ HIMEM_START <= at + p.filesz
                 /\ at + p.filesz + (p.memsz - p.filesz) = at + p.memsz
      <4>1. p.memsz \in Nat /\ p.filesz \in Nat /\ HIMEM_START \in Nat
        BY <1>1, Addresses, SMTT(30)
      <4> HIDE DEF p, at
      <4> QED BY <1>2, <3>1, <4>1
    <3>2. p.memsz > p.filesz => z \in K
      BY <1>0, <2>2, <3>1, Regions, SMTT(30)
    <3> QED BY <3>1, <3>2 DEF Region
  <2>5. /\ more \in Seq(K) /\ Len(more) \in 0..2 /\ ram' = ram \o more
        /\ \A j \in 1..Len(more) : more[j] = f \/ (more[j] = z /\ p.memsz > p.filesz)
        /\ Len(more) = 2 => more[1] = f /\ more[2] = z /\ p.memsz > p.filesz
    <3> HIDE DEF f, z, at, p, K
    <3>1. /\ file \in Seq(K) /\ Len(file) \in {0, 1}
          /\ Len(file) = 1 => file[1] = f
      BY <2>3, EmptySeq
    <3>2. /\ bss \in Seq(K) /\ Len(bss) \in {0, 1}
          /\ Len(bss) = 1 => bss[1] = z /\ p.memsz > p.filesz
      BY <2>4, EmptySeq, SMTT(30)
    <3> HIDE DEF file, bss
    <3>3. /\ more \in Seq(K) /\ Len(more) = Len(file) + Len(bss)
          /\ \A j \in 1..(Len(file) + Len(bss)) :
               more[j] = IF j <= Len(file) THEN file[j] ELSE bss[j - Len(file)]
      BY <3>1, <3>2, ConcatProperties
    <3>4. ram' = ram \o more
      <4>1. ram \in Seq(K) /\ file \in Seq(K) /\ bss \in Seq(K)
        BY <1>0, <3>1, <3>2
      <4>2. (ram \o file) \o bss = ram \o (file \o bss)
        BY <4>1, ConcatAssociative, SMTT(30)
      <4> QED BY <2>1, <4>2, Zenon
    <3> HIDE DEF more
    <3>5. CASE Len(file) = 0 /\ Len(bss) = 0
      BY <3>3, <3>4, <3>5
    <3>6. CASE Len(file) = 1 /\ Len(bss) = 0
      BY <3>1, <3>3, <3>4, <3>6
    <3>7. CASE Len(file) = 0 /\ Len(bss) = 1
      BY <3>2, <3>3, <3>4, <3>7
    <3>8. CASE Len(file) = 1 /\ Len(bss) = 1
      BY <3>1, <3>2, <3>3, <3>4, <3>8, SMTT(30)
    <3> QED BY <3>1, <3>2, <3>5, <3>6, <3>7, <3>8, SMTT(30)
  <2>6. Plain(kernel) =>
          /\ Extent(p).from = at /\ f.to <= Extent(p).to
          /\ p.memsz > p.filesz => z.to <= Extent(p).to
    <3>1. Plain(kernel) => at = p.paddr
      BY <1>0, <1>1, <1>2, <1>5, SMTT(30) DEF Plain
    <3>2. /\ Extent(p).from = p.paddr /\ Extent(p).to \in Nat
          /\ p.paddr + p.filesz <= Extent(p).to /\ p.paddr + p.memsz <= Extent(p).to
      BY <1>1, ExtentOf, SMTT(30)
    <3> HIDE DEF f, z, at, p
    <3> QED BY <1>1, <1>2, <2>3, <2>4, <3>1, <3>2, SMTT(30)
  <2>7. \A j \in 1..Len(more) :
          /\ more[j].owner = "kernel" /\ more[j] \in K
          /\ Plain(kernel) => Extent(p).from <= more[j].from /\ more[j].to <= Extent(p).to
    <3> HIDE DEF more, f, z, at, p
    <3>1. at + p.filesz \in Nat /\ at <= at + p.filesz /\ at <= at
      BY <1>1, <1>2
    <3> QED BY <2>3, <2>4, <2>5, <2>6, <3>1, SMTT(30)
  <2>8. Apart(more)
    <3> HIDE DEF more, f, z, at, p
    <3>1. at + p.filesz \in Nat
      BY <1>1, <1>2
    <3>2. p.memsz > p.filesz => Fine(f, z)
      BY <2>3, <2>4, <3>1 DEF Fine, Overlap
    <3>3. ASSUME NEW i \in 1..Len(more), NEW j \in 1..Len(more), i < j
          PROVE  Len(more) = 2 /\ i = 1 /\ j = 2
      BY <2>5, <3>3
    <3> QED BY <2>5, <3>2, <3>3 DEF Apart
  <2>9. ASSUME NEW i \in 1..Len(ram), NEW j \in 1..Len(more) PROVE Fine(ram[i], more[j])
    <3> HIDE DEF more, f, z, at
    <3>1. ram[i] \in K /\ ram[i].owner = "kernel"
      <4>1. ram[i] \in K
        BY <1>0, ElementOfSeq
      <4> QED BY <4>1 DEF Placed
    <3>2. ram[i].from \in Nat /\ ram[i].to \in Nat /\ more[j].from \in Nat /\ more[j].to \in Nat
      BY <2>7, <3>1, SMTT(30) DEF Placed
    <3>3. CASE ~Plain(kernel)
      BY <2>7, <3>1, <3>3 DEF Fine
    <3>4. CASE Plain(kernel)
      <4>1. PICK k \in 1..(ph - 1) :
              /\ kernel.phdrs[k].load /\ Extent(kernel.phdrs[k]).from <= ram[i].from
              /\ ram[i].to <= Extent(kernel.phdrs[k]).to
        BY <1>0, <3>4 DEF SegmentsSoFar, InSegment
      <4>2. k \in DOMAIN kernel.phdrs /\ ph \in DOMAIN kernel.phdrs /\ k < ph
        BY <1>1, SMTT(30)
      <4>3. ~Overlap(Extent(kernel.phdrs[k]), Extent(p))
        BY <1>0, <1>5, <3>4, <4>1, <4>2, SMTT(30) DEF Plain
      <4>4. Extent(p).from \in Nat /\ Extent(p).to \in Nat
        BY <1>1, ExtentOf
      <4>5. Extent(kernel.phdrs[k]).from \in Nat /\ Extent(kernel.phdrs[k]).to \in Nat
        <5>1. kernel.phdrs[k] \in [load : BOOLEAN, paddr : Nat, filesz : Nat, memsz : Nat]
          BY <4>2, <1>0, <1>1, BootAssumption, ElementOfSeq, ZenonT(40) DEF BootInv, InputOK
        <5> QED BY <5>1, ExtentOf
      <4>6. Extent(p).from <= more[j].from /\ more[j].to <= Extent(p).to
        BY <2>7, <3>4
      <4> HIDE DEF p
      <4>7. ~Overlap(ram[i], more[j])
        BY <3>2, <4>1, <4>3, <4>4, <4>5, <4>6, InsideApart, ZenonT(40)
      <4> QED BY <4>7 DEF Fine
    <3> QED BY <3>3, <3>4
  <2> HIDE DEF more, K
  <2>10. ram' \in Seq(K) /\ Apart(ram')
    BY <1>0, <2>5, <2>8, <2>9, MoreApart
  <2>11. Apart(ram)' /\ InputOK' /\ UNCHANGED kernel /\ Plain(kernel)' = Plain(kernel)
    BY <2>1, <2>10, KernelKept, ZenonT(40) DEF Apart
  <2>12. SegmentsSoFar'
    <3>1. \A r : InSegment(r, ph) => InSegment(r, ph')
      BY <1>1, <2>1, SMTT(30) DEF InSegment
    <3>2. ASSUME Plain(kernel), NEW j \in 1..Len(more) PROVE InSegment(more[j], ph')
      <4>1. ph \in 1..(ph' - 1)
        BY <1>1, <2>1
      <4> QED BY <1>5, <2>7, <3>2, <4>1, SMTT(30) DEF InSegment
    <3>3. ASSUME Plain(kernel), NEW i \in 1..Len(ram') PROVE InSegment(ram'[i], ph')
      <4>1. PICK n \in Nat, m \in Nat : n = Len(ram) /\ m = Len(more)
        BY <1>0, <2>5, LenProperties, SMTT(30)
      <4>2. i \in 1..(n + m) /\ ram'[i] = IF i <= n THEN ram[i] ELSE more[i - n]
        BY <1>0, <2>5, <4>1, ConcatProperties
      <4>3. CASE i <= n
        <5>1. i \in 1..Len(ram) /\ ram'[i] = ram[i]
          BY <4>1, <4>2, <4>3, SMTT(30)
        <5>2. InSegment(ram[i], ph)
          BY <1>0, <3>3, <5>1 DEF SegmentsSoFar
        <5> QED BY <3>1, <5>1, <5>2
      <4>4. CASE i > n
        <5>1. i - n \in 1..m /\ ram'[i] = more[i - n]
          BY <4>1, <4>2, <4>4, SMTT(30)
        <5> QED BY <3>2, <3>3, <4>1, <5>1, SMTT(30)
      <4> QED BY <4>1, <4>2, <4>3, <4>4, SMTT(30)
    <3>4. \A i \in 1..Len(ram') : InSegment(ram[i], ph)' <=> InSegment(ram'[i], ph')
      BY <2>11 DEF InSegment, Extent, Region
    <3>5. ph' - 1 <= Len(kernel.phdrs)
      BY <1>1, <2>1, SMTT(30)
    <3> QED BY <1>0, <2>11, <3>3, <3>4, <3>5, SMTT(30) DEF SegmentsSoFar
  <2>13. ram' \in Seq(Placed(size', SoFar(pc')))
    BY <1>0, <2>1, <2>10, ZenonT(40) DEF K, SoFar
  <2>14. ph' \in Nat \ {0}
    BY <1>1, <2>1, SMTT(30)
  <2>15. pc' = "kernel" /\ size' \in Nat /\ size' >= HIMEM_START /\ size' < Word \div 2
    BY <1>0, <2>1 DEF BootInv
  <2> HIDE DEF p, at, f, z, file, bss
  <2> QED BY <2>11, <2>12, <2>13, <2>14, <2>15 DEF BootInv, Steps, DiesOfFileOnly
<1> QED BY <1>1, <1>3, <1>4, <1>5, SMTT(30)

\* setup_long_mode's tables lie below the EBDA, apart from each other.
LEMMA SetupLongModeInv ==
  ASSUME BootInv, setup_long_mode PROVE BootInv'
<1>1. CASE Fail("failed")
  BY <1>1, FailsInv DEF setup_long_mode
<1>2. CASE ~Fail("failed")
  <2> DEFINE S == Placed(size, Owners \ {"mpc", "mpf"})
  <2>1. /\ pc = "mode" /\ pc' = "window" /\ UNCHANGED <<size, ph, params>> /\ UNCHANGED input
        /\ ram' = ram \o LongModeTables
    BY <1>2 DEF setup_long_mode
  <2>2. /\ SoFar(pc) = {"kernel", "initrd", "params", "cmdline"}
        /\ SoFar(pc') = Owners \ {"mpc", "mpf"} /\ SoFar(pc) \subseteq SoFar(pc')
    BY <2>1, SMTT(30) DEF SoFar, Owners
  <2> DEFINE gdt  == Region("gdt", BOOT_GDT_OFFSET, Paras(24))
             pml4 == Region("pml4", Paras(\ha000), 1)
             pdpt == Region("pdpt", Paras(\hb000), 1)
             pd   == Region("pd", Paras(\hc000), Paras(4096))
  <2>3. /\ LongModeTables = <<gdt, pml4, pdpt, pd>>
        /\ gdt \in S /\ pml4 \in S /\ pdpt \in S /\ pd \in S
        /\ gdt.owner = "gdt" /\ pml4.owner = "pml4" /\ pdpt.owner = "pdpt" /\ pd.owner = "pd"
    <3>1. gdt \in S /\ pml4 \in S /\ pdpt \in S /\ pd \in S
      BY Regions, SMT DEF BootInv, Owners
    <3>2. \A o, from, len : Region(o, from, len).owner = o
      BY DEF Region
    <3>3. LongModeTables = <<gdt, pml4, pdpt, pd>>
      BY DEF LongModeTables
    <3>4. gdt.owner = "gdt" /\ pml4.owner = "pml4" /\ pdpt.owner = "pdpt" /\ pd.owner = "pd"
      BY <3>2
    <3> QED BY <3>1, <3>3, <3>4, SMTT(30)
  <2>4. S \subseteq Placed(size, Owners)
    BY DEF Placed
  <2> HIDE DEF S, gdt, pml4, pdpt, pd
  <2>5. /\ LongModeTables \in Seq(S) /\ Len(LongModeTables) = 4
        /\ \A j \in 1..4 : /\ LongModeTables[j] \in S
                           /\ LongModeTables[j].owner \in {"gdt", "pml4", "pdpt", "pd"}
        /\ \A j, k \in 1..4 : j < k => LongModeTables[j].owner # LongModeTables[k].owner
    BY <2>3
  <2>6. Apart(LongModeTables)
    <3>1. ASSUME NEW j \in 1..4, NEW k \in 1..4, j < k
          PROVE  ~Overlap(LongModeTables[j], LongModeTables[k])
      BY <2>4, <2>5, <3>1, OwnersApart, SMTT(30) DEF BootInv
    <3> QED BY <2>5, <3>1, SMTT(30) DEF Apart, Fine
  <2>7. ASSUME NEW i \in 1..Len(ram), NEW j \in 1..Len(LongModeTables)
        PROVE  Fine(ram[i], LongModeTables[j])
    BY <2>2, <2>4, <2>5, NewOwner, SMTT(30) DEF Owners
  <2>8. ram \in Seq(S) /\ Apart(ram)
    BY <2>2, MorePlaces DEF BootInv, S
  <2>9. ram' \in Seq(S) /\ Apart(ram')
    BY <2>1, <2>5, <2>6, <2>7, <2>8, MoreApart, ZenonT(40)
  <2>10. Apart(ram)' /\ InputOK' /\ UNCHANGED kernel
    BY <2>1, <2>9, KernelKept, ZenonT(40) DEF Apart
  <2>11. e820(size)' = e820(size)
    BY <2>1 DEF e820
  <2> QED BY <2>1, <2>2, <2>9, <2>10, <2>11, ZenonT(40) DEF S, BootInv, Steps, DiesOfFileOnly
<1> QED BY <1>1, <1>2

\* write_mptable's table ends below 1 MiB for 255 processors.
LEMMA WriteMptableInv ==
  ASSUME BootInv, write_mptable PROVE BootInv'
<1> DEFINE length == 44 + 20 * cpus + 8 + 8 + 16 * 8 + 2 * 8
<1>1. CASE ~Fits(MPC_ADDR, Paras(length))
  BY <1>1, FailsInv DEF write_mptable
<1>2. CASE Fits(MPC_ADDR, Paras(length))
  <2> DEFINE c == Region("mpc", MPC_ADDR, Paras(length))
             f == Region("mpf", MPF_ADDR, 1)
             S == Placed(size, Owners)
  <2>1. /\ pc = "mptable" /\ pc' = "run" /\ UNCHANGED <<size, ph, params>> /\ UNCHANGED input
        /\ ram' = ram \o <<c, f>>
    BY <1>2 DEF write_mptable
  <2>2. /\ SoFar(pc) = Owners \ {"mpc", "mpf"} /\ SoFar(pc') = Owners
        /\ SoFar(pc) \subseteq Owners
    BY <2>1 DEF SoFar, Owners
  <2>3. Paras(length) \in Nat /\ Paras(length) <= 400 /\ size \in Nat
    BY DEF Paras, BootInv, InputOK
  <2>4. c \in S /\ f \in S /\ c.owner = "mpc" /\ f.owner = "mpf"
    <3> DEFINE n == Paras(length)
    <3>1. n \in Nat /\ n <= 400 /\ c = Region("mpc", MPC_ADDR, n)
      BY <2>3
    <3> HIDE DEF n, c
    <3>2. c \in S /\ f \in S
      BY <2>3, <3>1, Regions DEF Owners
    <3> QED BY <3>1, <3>2 DEF Region
  <2> HIDE DEF c, f, S, length
  <2>5. /\ <<c, f>> \in Seq(S) /\ Len(<<c, f>>) = 2 /\ <<c, f>>[1] = c /\ <<c, f>>[2] = f
    BY <2>4
  <2>6. Fine(c, f)
    <3>1. ~Overlap(c, f)
      BY <2>3, <2>4, OwnersApart DEF S
    <3> QED BY <3>1 DEF Fine
  <2>7. Apart(<<c, f>>)
    BY <2>5, <2>6 DEF Apart
  <2>8. \A i \in 1..Len(ram) : Fine(ram[i], c) /\ Fine(ram[i], f)
    BY <2>2, <2>4, NewOwner DEF S, Owners
  <2>9. \A i \in 1..Len(ram), j \in 1..Len(<<c, f>>) : Fine(ram[i], <<c, f>>[j])
    <3>1. \A j \in 1..Len(<<c, f>>) : <<c, f>>[j] = c \/ <<c, f>>[j] = f
      BY <2>5
    <3> QED BY <2>8, <3>1, Zenon
  <2>10. ram \in Seq(S) /\ Apart(ram)
    BY <2>2, MorePlaces DEF BootInv, S
  <2>11. ram' \in Seq(S) /\ Apart(ram')
    BY <2>1, <2>5, <2>7, <2>9, <2>10, MoreApart, ZenonT(40)
  <2>12. Apart(ram)' /\ InputOK' /\ UNCHANGED kernel
    BY <2>1, <2>11, KernelKept, ZenonT(40) DEF Apart
  <2>13. e820(size)' = e820(size)
    BY <2>1 DEF e820
  <2> QED BY <2>1, <2>2, <2>11, <2>12, <2>13, SMTT(30) DEF S, BootInv, Steps, DiesOfFileOnly
<1> QED BY <1>1, <1>2

\* A step that goes on without a write keeps what was written.
LEMMA NothingWritten ==
  ASSUME BootInv, UNCHANGED <<size, ram>>, UNCHANGED input, SoFar(pc) \subseteq SoFar(pc')
  PROVE  ram' \in Seq(Placed(size', SoFar(pc'))) /\ Apart(ram)' /\ InputOK' /\ UNCHANGED kernel
<1>1. ram \in Seq(Placed(size, SoFar(pc')))
  BY MorePlaces DEF BootInv
<1>2. Apart(ram)' /\ InputOK' /\ UNCHANGED kernel
  BY KernelKept DEF BootInv, Apart
<1> QED BY <1>1, <1>2

\* The remaining steps write nothing into memory.
LEMMA NoWriteInv ==
  ASSUME BootInv, \/ Allocate \/ SegmentsLoaded \/ DetectFails \/ setup_general_registers
                  \/ setup_protected_mode \/ CheckWindow \/ UNCHANGED vars
  PROVE  BootInv'
<1>1. CASE Allocate
  <2>1. CASE Fail("failed")
    BY <1>1, <2>1, FailsInv, SMTT(30) DEF Allocate
  <2>2. CASE ~Fail("failed")
    <3>1. /\ size' = mb * MiB /\ mb * MiB < Word \div 2 /\ pc' = "kernel" /\ pc = "allocate" /\ ram' = ram /\ ph' = ph
          /\ UNCHANGED input /\ mb # 0 /\ mb \in Nat /\ ram = <<>> /\ ph = 1
      BY <1>1, <2>2 DEF Allocate, Allocates, BootInv, InputOK
    <3>2. size' \in Nat /\ size' >= HIMEM_START
      BY <3>1, Addresses
    <3>3. ram' \in Seq(Placed(size', SoFar(pc'))) /\ Len(ram') = 0
      BY <3>1, EmptySeq
    <3>4. Apart(ram)' /\ InputOK' /\ UNCHANGED kernel
      BY <3>1, KernelKept DEF BootInv, Apart
    <3>5. SegmentsSoFar'
      <4>1. kernel'.format = "Elf64" => Len(kernel'.phdrs) \in Nat
        BY <3>4, BootAssumption, LenProperties, SMTT(30) DEF InputOK
      <4> QED BY <3>1, <3>3, <4>1 DEF SegmentsSoFar
    <3> QED BY <3>1, <3>2, <3>3, <3>4, <3>5, SMTT(30) DEF BootInv, Steps, DiesOfFileOnly
  <2> QED BY <2>1, <2>2
<1>2. CASE SegmentsLoaded
  <2>1. /\ pc = "kernel" /\ pc' = "initrd" /\ UNCHANGED <<size, ram, ph>> /\ UNCHANGED input
    BY <1>2 DEF SegmentsLoaded
  <2>2. SoFar(pc) \subseteq SoFar(pc')
    BY <2>1 DEF SoFar
  <2> QED BY <2>1, <2>2, NothingWritten DEF BootInv, Steps, DiesOfFileOnly
<1>3. CASE DetectFails
  <2>1. /\ UNCHANGED <<size, ram, ph>> /\ UNCHANGED input
        /\ pc' = "failed" \/ (pc' = "panicked" /\ kernel.format = "Stub")
    BY <1>3, Zenon DEF DetectFails, Fail
  <2>2. kernel' = kernel
    BY <2>1, Zenon DEF input
  <2> QED BY <2>1, <2>2, EndsInv DEF DiesOfFileOnly
<1>4. CASE setup_general_registers \/ setup_protected_mode
  <2>1. CASE pc' = "failed"
    BY <1>4, <2>1, FailsInv, SMTT(30) DEF setup_general_registers, setup_protected_mode
  <2>2. CASE pc' # "failed"
    <3>1. /\ pc \in {"regs", "mode"} /\ pc' \in {"mode", "window"}
          /\ UNCHANGED <<size, ram, ph, params>> /\ UNCHANGED input
      BY <1>4, <2>2 DEF setup_general_registers, setup_protected_mode, Fail
    <3>2. SoFar(pc) \subseteq SoFar(pc') /\ e820(size)' = e820(size)
      BY <3>1, SMTT(30) DEF SoFar, Owners, e820
    <3> QED BY <3>1, <3>2, NothingWritten DEF BootInv, Steps, DiesOfFileOnly
  <2> QED BY <2>1, <2>2
<1>5. CASE CheckWindow
  <2>1. /\ pc = "window" /\ UNCHANGED <<size, ram, ph, params>> /\ UNCHANGED input
        /\ \/ pc' = "failed"
           \/ pc' \in {"mptable", "run"} /\ ~(size >= PCI_MMIO_WINDOW_END)
    BY <1>5 DEF CheckWindow
  <2>2. PCI_MMIO_WINDOW_END \in Nat
    BY DEF PCI_MMIO_WINDOW_END, MiB
  <2>3. pc' \in {"mptable", "run"} => size' < PCI_MMIO_WINDOW_END
    BY <2>1, <2>2 DEF BootInv
  <2>4. SoFar(pc) \subseteq SoFar(pc') /\ e820(size)' = e820(size)
    BY <2>1, SMTT(30) DEF SoFar, Owners, e820
  <2> QED BY <2>1, <2>3, <2>4, NothingWritten DEF BootInv, Steps, DiesOfFileOnly
<1>6. CASE UNCHANGED vars
  <2>1. UNCHANGED <<size, ram, ph, params, pc>> /\ UNCHANGED input
    BY <1>6 DEF vars, input
  <2>2. e820(size)' = e820(size)
    BY <2>1 DEF e820
  <2>3. SegmentsSoFar' <=> SegmentsSoFar
    <3>1. UNCHANGED kernel /\ Plain(kernel)' = Plain(kernel)
      BY <2>1, KernelKept, SMTT(30) DEF BootInv
    <3>2. \A i \in 1..Len(ram) : InSegment(ram[i], ph)' <=> InSegment(ram[i], ph)
      BY <2>1, <3>1 DEF InSegment, Extent, Region
    <3> QED BY <2>1, <3>1, <3>2, SMTT(30) DEF SegmentsSoFar
  <2>4. DiesOfFileOnly'
    <3>1. UNCHANGED <<kernel, size, pc>> /\ DiesOfFileOnly
      BY <2>1, KernelKept DEF BootInv
    <3> QED BY <3>1, ZenonT(40) DEF DiesOfFileOnly, Oversized
  <2> QED BY <2>1, <2>2, <2>3, <2>4, NothingWritten DEF BootInv
<1> QED BY <1>1, <1>2, <1>3, <1>4, <1>5, <1>6

\* Hence every step keeps it.
LEMMA BootStepInv == BootInv /\ [Next]_vars => BootInv'
BY LoadBzImageInv, LoadSegmentInv, EndStepsInv, LoadInitrdInv, SetupBootParamsInv, SetupCmdlineInv,
   SetupLongModeInv, WriteMptableInv, NoWriteInv
DEF Next, Done, Ends

\* The invariant holds throughout every behaviour.
THEOREM BootInvHolds == Spec => []BootInv
BY BootInitInv, BootStepInv, PTL DEF Spec

-----------------------------------------------------------------------------
(* What main leaves to the guest, whatever it was asked to load.            *)

\* Loading panics or aborts on a file too short to be a kernel and on an ELF with an
\* oversized header, and on nothing else, for any width of an address: the
\* subtraction of setup_boot_params never goes below zero.
THEOREM DeathsCorrect == Spec => []DiesOfFileOnly
BY BootInvHolds, PTL DEF BootInv

\* Where everything main wrote lies.
LEMMA PlaceOf ==
  ASSUME BootInv, NEW r \in Range(ram)
  PROVE  /\ r.from \in Nat /\ r.to \in Nat
         /\ IF r.owner \in {"mpc", "mpf"} THEN EBDA_START <= r.from /\ r.to <= HIMEM_START
            ELSE r.to <= EBDA_START \/ (HIMEM_START <= r.from /\ r.to <= size)
         /\ ~Overlap(r, Stack)
<1>1. r \in Placed(size, Owners)
  <2>1. SoFar(pc) \subseteq Owners
    BY DEF SoFar, Owners
  <2>2. ram \in Seq(Placed(size, Owners))
    BY <2>1, MorePlaces DEF BootInv
  <2> QED BY <2>2, LenProperties, ElementOfSeq DEF Range
<1>2. /\ r.from \in Nat /\ r.to \in Nat /\ r.owner \in Owners /\ size \in Nat
      /\ Lo(r.owner) <= r.from /\ r.to <= Hi(r.owner, size)
  BY <1>1 DEF Placed, BootInv
<1>3. IF r.owner \in {"mpc", "mpf"} THEN EBDA_START <= r.from /\ r.to <= HIMEM_START
      ELSE r.to <= EBDA_START \/ (HIMEM_START <= r.from /\ r.to <= size)
  BY <1>2, Places, Addresses DEF Owners
<1>4. ~Overlap(r, Stack)
  <2>1. Stack.from = 2048 /\ Stack.to = 2303
    BY Addresses DEF Stack
  <2>2. r.to <= 2048 \/ 2303 <= r.from
    BY <1>2, Places, SMT DEF Owners
  <2> QED BY <1>2, <2>1, <2>2 DEF Overlap
<1> QED BY <1>2, <1>3, <1>4

\* The guest starts with everything main wrote intact and its stack free, but for
\* the two overlaps that NothingIsOverwritten names.
THEOREM OverwriteCorrect == Spec => []NothingIsOverwritten
<1>1. BootInv => NothingIsOverwritten
  <2> SUFFICES ASSUME BootInv PROVE NothingIsOverwritten
    OBVIOUS
  <2>1. DOMAIN ram = 1..Len(ram)
    BY LenProperties DEF BootInv
  <2>2. \A r \in Range(ram) : ~Overlap(r, Stack)
    BY PlaceOf, SMTT(30)
  <2> QED BY <2>1, <2>2 DEF NothingIsOverwritten, BootInv, Apart, Fine
<1> QED BY <1>1, BootInvHolds, PTL

\* The memory map covers the guest's memory without gap or overlap, stays clear
\* of the PCI window, calls everything main wrote RAM and the MP table reserved.
THEOREM MapCorrect == Spec => []MapIsHonest
<1>1. BootInv => MapIsHonest
  <2> SUFFICES ASSUME BootInv, Running PROVE MapIsHonest
    BY DEF MapIsHonest
  <2> DEFINE map == params.e820
             In(r, type) ==
               \E e \in Range(map) : e.type = type /\ e.addr <= r.from /\ r.to <= e.addr + e.size
             low  == [addr |-> 0, size |-> EBDA_START, type |-> "RAM"]
             res  == [addr |-> EBDA_START, size |-> HIMEM_START - EBDA_START,
                      type |-> "RESERVED"]
             high == [addr |-> HIMEM_START, size |-> size - HIMEM_START, type |-> "RAM"]
  <2>1. size \in Nat /\ size >= HIMEM_START /\ size < PCI_MMIO_WINDOW_END
    BY DEF BootInv, Running
  <2>2. map = <<low, res, high>>
    BY DEF BootInv, Running, e820
  <2>3. Len(map) = 3 /\ map[1] = low /\ map[2] = res /\ map[3] = high
    BY <2>2
  <2>4. /\ map[1].addr = 0 /\ map[Len(map)].addr + map[Len(map)].size = size
        /\ \A i \in 2..Len(map) : map[i].addr = map[i - 1].addr + map[i - 1].size
    <3>1. /\ low.addr = 0 /\ res.addr = low.addr + low.size /\ high.addr = res.addr + res.size
          /\ high.addr + high.size = size
      BY <2>1, Addresses
    <3> HIDE DEF low, res, high, map
    <3>2. ASSUME NEW i \in 2..Len(map) PROVE map[i].addr = map[i - 1].addr + map[i - 1].size
      <4>1. (i = 2 /\ i - 1 = 1) \/ (i = 3 /\ i - 1 = 2)
        BY <2>3
      <4> QED BY <2>3, <3>1, <4>1
    <3> QED BY <2>3, <3>1, <3>2
  <2>5. low \in Range(map) /\ res \in Range(map) /\ high \in Range(map)
    BY <2>2 DEF Range
  <2>6. ASSUME NEW r \in Range(ram)
        PROVE  In(r, IF r.owner \in {"mpc", "mpf"} THEN "RESERVED" ELSE "RAM")
    <3>1. /\ r.from \in Nat /\ r.to \in Nat
          /\ IF r.owner \in {"mpc", "mpf"} THEN EBDA_START <= r.from /\ r.to <= HIMEM_START
             ELSE r.to <= EBDA_START \/ (HIMEM_START <= r.from /\ r.to <= size)
      BY PlaceOf
    <3>2. r.from \in Nat /\ r.to \in Nat
      BY <3>1
    <3>3. CASE r.owner \in {"mpc", "mpf"}
      <4>1. res.type = "RESERVED" /\ res.addr <= r.from /\ r.to <= res.addr + res.size
        BY <3>1, <3>3, Addresses, SMTT(30)
      <4> HIDE DEF res, map
      <4> QED BY <2>5, <3>3, <4>1
    <3>4. CASE r.owner \notin {"mpc", "mpf"} /\ r.to <= EBDA_START
      <4>1. low.type = "RAM" /\ low.addr <= r.from /\ r.to <= low.addr + low.size
        BY <3>2, <3>4, Addresses, SMTT(30)
      <4> HIDE DEF low, map
      <4> QED BY <2>5, <3>4, <4>1
    <3>5. CASE r.owner \notin {"mpc", "mpf"} /\ HIMEM_START <= r.from /\ r.to <= size
      <4>1. high.type = "RAM" /\ high.addr <= r.from /\ r.to <= high.addr + high.size
        BY <2>1, <3>2, <3>5, Addresses
      <4> HIDE DEF high, map
      <4> QED BY <2>5, <3>5, <4>1
    <3> QED BY <3>1, <3>3, <3>4, <3>5
  <2> QED BY <2>1, <2>4, <2>6, SMTT(30) DEF MapIsHonest
<1> QED BY <1>1, BootInvHolds, PTL

-----------------------------------------------------------------------------
(***************************************************************************)
(* What the guest starts with: the mode of its processor, what its          *)
(* registers and boot_params lead to, and its MP table.  What a step of     *)
(* main leaves behind is found again by the guest because no later step     *)
(* takes anything back: ModeInv, HandInv and MpInv say, of every place of   *)
(* main, what the steps before it left.                                     *)
(***************************************************************************)

(* What main wrote stays written.                                           *)

\* What load_elf_kernel writes of a program header.
FilePart(p) ==
  IF p.filesz > 0 THEN <<Region("kernel", load_addr(p), p.filesz)>> ELSE <<>>
BssPart(p) ==
  IF p.memsz > p.filesz
  THEN <<Region("kernel", load_addr(p) + p.filesz, p.memsz - p.filesz)>> ELSE <<>>

\* ... is in memory afterwards, and is the kernel's.
LEMMA SegmentWritten ==
  ASSUME NEW T, NEW s \in Seq(T), NEW p
  PROVE  LET u == s \o FilePart(p) \o BssPart(p)
         IN /\ Range(u) = Range(s) \union Range(FilePart(p)) \union Range(BssPart(p))
            /\ \A r \in Range(FilePart(p)) \union Range(BssPart(p)) : r.owner = "kernel"
            /\ p.filesz > 0 => Region("kernel", load_addr(p), p.filesz) \in Range(FilePart(p))
            /\ p.memsz > p.filesz =>
                 Region("kernel", load_addr(p) + p.filesz, p.memsz - p.filesz) \in Range(BssPart(p))
<1> DEFINE a == Region("kernel", load_addr(p), p.filesz)
           b == Region("kernel", load_addr(p) + p.filesz, p.memsz - p.filesz)
           U == T \union {a, b}
           f == FilePart(p)
           g == BssPart(p)
<1>1. a.owner = "kernel" /\ b.owner = "kernel"
  BY DEF Region
<1>2. f = (IF p.filesz > 0 THEN <<a>> ELSE <<>>) /\ g = (IF p.memsz > p.filesz THEN <<b>> ELSE <<>>)
  BY DEF FilePart, BssPart
<1>3. s \in Seq(U) /\ a \in U /\ b \in U
  OBVIOUS
<1> HIDE DEF a, b, U, f, g
<1>4. /\ \A r : Range(<<r>>) = {r} 
      /\ Range(<<>>) = {}
  BY DEF Range
<1>5. <<a>> \in Seq(U) /\ <<b>> \in Seq(U) /\ <<>> \in Seq(U)
  BY <1>3
<1>6. f \in Seq(U) /\ g \in Seq(U) /\ s \o f \in Seq(U)
  <2>1. f \in Seq(U) /\ g \in Seq(U)
    BY <1>2, <1>5, Zenon
  <2> QED BY <1>3, <2>1, ConcatProperties
<1>7. Range((s \o f) \o g) = Range(s) \union Range(f) \union Range(g)
  <2>1. Range((s \o f) \o g) = Range(s \o f) \union Range(g)
    <3> DEFINE h == s \o f
    <3>1. h \in Seq(U)
      BY <1>6
    <3> HIDE DEF h
    <3>2. Range(h \o g) = Range(h) \union Range(g)
      BY <1>6, <3>1, RangeOfBoth
    <3> QED BY <3>2 DEF h
  <2>2. Range(s \o f) = Range(s) \union Range(f)
    BY <1>3, <1>6, RangeOfBoth
  <2> QED BY <2>1, <2>2, Zenon
<1>8. /\ Range(f) = IF p.filesz > 0 THEN {a} ELSE {}
      /\ Range(g) = IF p.memsz > p.filesz THEN {b} ELSE {}
  BY <1>2, <1>4, Zenon
<1>9. \A r \in Range(f) \union Range(g) : r.owner = "kernel"
  BY <1>1, <1>8, Zenon
<1> QED BY <1>7, <1>8, <1>9, ZenonT(40) DEF f, g, a, b

\* What a step of main adds to memory; nothing that was written goes.
Added(new) == Range(ram') = Range(ram) \union new

LEMMA RamGrows ==
  ASSUME BootInv, [Next]_vars
  PROVE  \E new : Added(new) /\ \A r \in new : r.owner = "initrd" => pc = "initrd" /\ initrd # -1
<1> DEFINE S == Placed(size, SoFar(pc))
           Fits2(new) == Added(new)
                         /\ \A r \in new : r.owner = "initrd" => pc = "initrd" /\ initrd # -1
<1>0. ram \in Seq(S)
  BY DEF BootInv
<1> HIDE DEF S
<1>1. CASE ram' = ram
  <2>1. Fits2({})
    BY <1>1 DEF Added
  <2> QED BY <2>1
<1>2. ASSUME NEW r, ram' = Append(ram, r),
             r.owner = "initrd" => pc = "initrd" /\ initrd # -1
      PROVE  \E new : Fits2(new)
  <2>1. Fits2({r})
    BY <1>0, <1>2, RangeOfAppend, ZenonT(40) DEF Added
  <2> QED BY <2>1
<1>3. CASE LoadBzImage /\ ram' # ram
  <2>1. PICK len : ram' = Append(ram, Region("kernel", HIMEM_START, len))
    BY <1>3 DEF LoadBzImage, Fail
  <2>2. Region("kernel", HIMEM_START, len).owner = "kernel"
    BY DEF Region
  <2> QED BY <1>2, <2>1, <2>2
<1>4. CASE LoadSegment /\ ram' # ram
  <2> DEFINE p == kernel.phdrs[ph]
  <2>1. ram' = ram \o FilePart(p) \o BssPart(p)
    BY <1>4, ZenonT(40) DEF LoadSegment, Fail, FilePart, BssPart
  <2> HIDE DEF p
  <2>2. Fits2(Range(FilePart(p)) \union Range(BssPart(p)))
    <3>1. /\ Range(ram') = Range(ram) \union Range(FilePart(p)) \union Range(BssPart(p))
          /\ \A r \in Range(FilePart(p)) \union Range(BssPart(p)) : r.owner = "kernel"
      BY <1>0, <2>1, SegmentWritten, Zenon
    <3>2. Added(Range(FilePart(p)) \union Range(BssPart(p)))
      BY <3>1, Zenon DEF Added
    <3> QED BY <3>1, <3>2
  <2> QED BY <2>2
<1>5. CASE load_initrd /\ ram' # ram
  <2>1. /\ ram' = Append(ram, Region("initrd", INITRAMFS_ADDR, initrd))
        /\ pc = "initrd" /\ initrd # -1
    BY <1>5 DEF load_initrd
  <2> QED BY <1>2, <2>1
<1>6. CASE setup_boot_params /\ ram' # ram
  <2>1. ram' = Append(ram, Region("params", ZERO_PAGE_START, Paras(4096)))
    BY <1>6 DEF setup_boot_params, Fail
  <2>2. Region("params", ZERO_PAGE_START, Paras(4096)).owner = "params"
    BY DEF Region
  <2> QED BY <1>2, <2>1, <2>2, SMTT(30)
<1>7. CASE setup_cmdline /\ ram' # ram
  <2>1. ram' = Append(ram, Region("cmdline", CMDLINE_ADDR, Paras(cmdline + 1)))
    BY <1>7 DEF setup_cmdline, Fail
  <2>2. Region("cmdline", CMDLINE_ADDR, Paras(cmdline + 1)).owner = "cmdline"
    BY DEF Region
  <2> QED BY <1>2, <2>1, <2>2
<1>8. CASE setup_long_mode /\ ram' # ram
  <2> DEFINE a == Region("gdt", BOOT_GDT_OFFSET, Paras(24))
             b == Region("pml4", Paras(\ha000), 1)
             c == Region("pdpt", Paras(\hb000), 1)
             d == Region("pd", Paras(\hc000), Paras(4096))
  <2>1. ram' = ram \o <<a, b, c, d>>
    BY <1>8, SMTT(30), SMTT(60) DEF setup_long_mode, Fail, LongModeTables
  <2>2. a.owner = "gdt" /\ b.owner = "pml4" /\ c.owner = "pdpt" /\ d.owner = "pd"
    BY DEF Region
  <2> HIDE DEF a, b, c, d
  <2>3. Fits2({a, b, c, d})
    <3>1. Range(ram \o <<a, b, c, d>>) = Range(ram) \union {a, b, c, d}
      BY <1>0, RangeOfMore, SMT
    <3>2. Added({a, b, c, d})
      BY <2>1, <3>1, Zenon DEF Added
    <3> QED BY <2>2, <3>2
  <2> QED BY <2>3
<1>9. CASE write_mptable /\ ram' # ram
  <2> DEFINE a == Region("mpc", MPC_ADDR, Paras(44 + 20 * cpus + 8 + 8 + 16 * 8 + 2 * 8))
             b == Region("mpf", MPF_ADDR, 1)
  <2>1. ram' = ram \o <<a, b>>
    BY <1>9 DEF write_mptable, Fail
  <2>2. a.owner = "mpc" /\ b.owner = "mpf"
    BY DEF Region
  <2> HIDE DEF a, b
  <2>3. Fits2({a, b})
    <3>1. Range(ram \o <<a, b>>) = Range(ram) \union {a, b}
      BY <1>0, RangeOfMore, SMT
    <3>2. Added({a, b})
      BY <2>1, <3>1, Zenon DEF Added
    <3> QED BY <2>2, <3>2
  <2> QED BY <2>3
<1>10. CASE Allocate \/ Ends \/ SegmentsLoaded \/ DetectFails \/ setup_general_registers
            \/ setup_protected_mode \/ CheckWindow \/ Done \/ UNCHANGED vars
  <2>1. ram' = ram
    BY <1>10, LoadSteps, EndSteps, SetupSteps, LastSteps, ZenonT(40) DEF Done, vars
  <2> QED BY <1>1, <2>1
<1> QED BY <1>1, <1>3, <1>4, <1>5, <1>6, <1>7, <1>8, <1>9, <1>10, ZenonT(40) DEF Next, Ends

-----------------------------------------------------------------------------
(* The mode of the boot processor.                                          *)

Early == {"allocate", "kernel", "initrd", "params", "cmdline", "regs", "mode"}

\* The boot processor is as reset left it until its mode is set, and then in one of
\* the two modes, with the tables of the 64-bit one written.
ModeInv ==
  /\ pc \in Early => sregs = ResetSregs
  /\ pc \in {"window", "mptable", "run"} =>
       \/ /\ kernel.format = "Elf64" /\ sregs = LongMode
          /\ \A o \in {"gdt", "pml4", "pdpt", "pd"} : Written(o) # {}
       \/ kernel.format = "BzImage" /\ sregs = Flat32

\* What was written stays written.
LEMMA StaysWritten ==
  ASSUME BootInv, [Next]_vars
  PROVE  /\ Range(ram) \subseteq Range(ram')
         /\ \A o : Written(o) # {} => Written(o)' # {}
<1>1. Range(ram) \subseteq Range(ram')
  BY RamGrows, Zenon DEF Added
<1>2. \A o : Written(o) # {} => Written(o)' # {}
  BY <1>1, Zenon DEF Written
<1> QED BY <1>1, <1>2, Zenon

LEMMA ModeStep == BootInv /\ ModeInv /\ [Next]_vars => ModeInv'
<1> SUFFICES ASSUME BootInv, ModeInv, [Next]_vars PROVE ModeInv'
  OBVIOUS
<1> DEFINE S == Placed(size, SoFar(pc))
<1>0. ram \in Seq(S)
  BY DEF BootInv
<1> HIDE DEF S
<1>1. CASE setup_long_mode /\ pc' = "window"
  <2>1. /\ kernel.format = "Elf64" /\ kernel' = kernel /\ ram' = ram \o LongModeTables
        /\ sregs' = set_sregs(LongMode)
    BY <1>1 DEF setup_long_mode, Fail, input
  <2>2. sregs' = LongMode
    BY <2>1, ModeSegments, SMT
  <2>3. \A o \in {"gdt", "pml4", "pdpt", "pd"} : Written(o)' # {}
    <3> DEFINE a == Region("gdt", BOOT_GDT_OFFSET, Paras(24))
               b == Region("pml4", Paras(\ha000), 1)
               c == Region("pdpt", Paras(\hb000), 1)
               d == Region("pd", Paras(\hc000), Paras(4096))
    <3>1. ram' = ram \o <<a, b, c, d>>
      BY <2>1 DEF LongModeTables
    <3>2. a.owner = "gdt" /\ b.owner = "pml4" /\ c.owner = "pdpt" /\ d.owner = "pd"
      BY DEF Region
    <3> HIDE DEF a, b, c, d
    <3>3. Range(ram \o <<a, b, c, d>>) = Range(ram) \union {a, b, c, d}
      BY <1>0, RangeOfMore, SMT
    <3>4. {a, b, c, d} \subseteq Range(ram')
      BY <3>1, <3>3, ZenonT(40)
    <3> QED BY <3>2, <3>4 DEF Written
  <2> QED BY <1>1, <2>1, <2>2, <2>3 DEF ModeInv, Early
<1>2. CASE setup_protected_mode /\ pc' = "window"
  <2>1. pc = "mode" /\ kernel.format = "BzImage" /\ kernel' = kernel
    BY <1>2 DEF setup_protected_mode, input
  <2>2. sregs = ResetSregs
    BY <2>1 DEF ModeInv, Early
  <2>3. sregs' = set_sregs([sregs EXCEPT !.cs = make_flat32_segment(@, 11),
                                         !.ds = make_flat32_segment(@, 3),
                                         !.PE = TRUE, !.PG = FALSE, !.PAE = FALSE,
                                         !.LM = FALSE])
    BY <1>2 DEF setup_protected_mode, Fail
  <2>4. sregs' = set_sregs(Flat32)
    BY <2>2, <2>3, Flat32IsSet, ZenonT(40)
  <2>5. sregs' = Flat32
    BY <2>4, ModeSegments, SMT
  <2> QED BY <1>2, <2>1, <2>5 DEF ModeInv, Early
<1>3. CASE /\ sregs' = sregs /\ kernel' = kernel
           /\ (pc' \in Early => pc \in Early)
           /\ (pc' \in {"window", "mptable", "run"} => pc \in {"window", "mptable", "run"})
  BY <1>3, StaysWritten, Zenon DEF ModeInv
<1>4. CASE CheckWindow \/ write_mptable
  <2>1. /\ sregs' = sregs /\ input' = input /\ pc \in {"window", "mptable"}
        /\ pc' \in {"mptable", "run", "failed"}
    BY <1>4, LastSteps, Zenon DEF Goes
  <2>2. pc' \notin Early /\ pc \in {"window", "mptable", "run"}
    BY <2>1 DEF Early
  <2>3. kernel' = kernel
    BY <2>1, Zenon DEF input
  <2> QED BY <1>3, <2>1, <2>2, <2>3, ZenonT(40)
<1>5. CASE Done \/ UNCHANGED vars
  <2>1. sregs' = sregs /\ kernel' = kernel /\ pc' = pc
    BY <1>5, Zenon DEF Done, vars, input
  <2> QED BY <1>3, <2>1, Zenon
<1>6. CASE \/ Allocate \/ LoadBzImage \/ LoadSegment \/ Ends \/ SegmentsLoaded \/ DetectFails
           \/ load_initrd \/ setup_boot_params \/ setup_cmdline \/ setup_general_registers
  <2>1. /\ sregs' = sregs /\ input' = input
        /\ pc \in {"allocate", "kernel", "initrd", "params", "cmdline", "regs"}
        /\ pc' \in {"kernel", "initrd", "params", "cmdline", "regs", "mode", "failed",
                    "panicked", "aborted"}
    BY <1>6, LoadSteps, EndSteps, SetupSteps, ZenonT(40) DEF Goes
  <2>2. pc \in Early /\ pc' \notin {"window", "mptable", "run"}
    BY <2>1 DEF Early
  <2>3. kernel' = kernel
    BY <2>1, Zenon DEF input
  <2> QED BY <1>3, <2>1, <2>2, <2>3, Zenon
<1>7. CASE (setup_long_mode \/ setup_protected_mode) /\ pc' # "window"
  <2>1. pc' = "failed"
    BY <1>7, LastSteps, ZenonT(40) DEF Goes
  <2> QED BY <2>1 DEF ModeInv, Early
<1> QED BY <1>1, <1>2, <1>4, <1>5, <1>6, <1>7, ZenonT(40) DEF Next, Ends

\* The processor of a running guest is in one mode, in full.
LEMMA ModeHolds == ModeInv => ModeIsWhole
<1> SUFFICES ASSUME ModeInv, Running PROVE ModeIsWhole
  BY DEF ModeIsWhole
<1>1. CASE /\ kernel.format = "Elf64" /\ sregs = LongMode
           /\ \A o \in {"gdt", "pml4", "pdpt", "pd"} : Written(o) # {}
  <2> DEFINE code == Seg(8, 11, "fffff", 0, 1, 1)
             data == Seg(16, 3, "fffff", 0, 1, 1)
  <2>1. /\ sregs.cs = code /\ sregs.ds = data
        /\ sregs.gdt = <<Unset, segment_gdt_entry(code), segment_gdt_entry(data)>>
        /\ sregs.PE = TRUE /\ sregs.PG = TRUE /\ sregs.PAE = TRUE /\ sregs.LM = TRUE
    BY <1>1, SMTT(30) DEF LongMode, generate_segment
  <2>2. /\ code.present = 1 /\ code.s = 1 /\ code.g = 1 /\ code.l = 1 /\ code.db = 0
        /\ code.selector \div 8 + 1 = 2 /\ data.selector \div 8 + 1 = 3
    BY DEF Seg
  <2> HIDE DEF code, data
  <2>3. \A seg \in {sregs.cs, sregs.ds} : segment_gdt_entry(seg) = sregs.gdt[seg.selector \div 8 + 1]
    BY <2>1, <2>2
  <2> QED BY <1>1, <2>1, <2>2, <2>3, ZenonT(40) DEF ModeIsWhole
<1>2. CASE kernel.format = "BzImage" /\ sregs = Flat32
  <2>1. /\ sregs.cs = Seg(\hf000, 11, "ffffffff", 1, 0, 1)
        /\ sregs.ds = Seg(0, 3, "ffffffff", 1, 0, 1)
    BY <1>2, ModeSegments, SMTT(30)
  <2>2. sregs.PE = TRUE /\ sregs.PG = FALSE /\ sregs.PAE = FALSE /\ sregs.LM = FALSE
    BY <1>2, SMTT(30) DEF Flat32
  <2>3. /\ sregs.cs.present = 1 /\ sregs.cs.s = 1 /\ sregs.cs.g = 1
        /\ \A seg \in {sregs.cs, sregs.ds} : seg.l = 0 /\ seg.db = 1 /\ seg.limit = "ffffffff"
    BY <2>1 DEF Seg
  <2>4. kernel.format # "Elf64"
    BY <1>2
  <2> QED BY <2>2, <2>3, <2>4, ZenonT(40) DEF ModeIsWhole
<1> QED BY <1>1, <1>2, SMTT(30) DEF ModeInv, Running

-----------------------------------------------------------------------------
(* What the registers and boot_params lead to.                              *)

\* A program header is in memory, where load_addr puts it.
IsLoaded(p, written) ==
  p.load =>
    /\ p.filesz > 0 => Region("kernel", load_addr(p), p.filesz) \in written
    /\ p.memsz > p.filesz =>
         Region("kernel", load_addr(p) + p.filesz, p.memsz - p.filesz) \in written

\* An address of a program header that is in memory is in what was written of it.
LEMMA AddressInside ==
  ASSUME NEW p \in [load : BOOLEAN, paddr : Nat, filesz : Nat, memsz : Nat], NEW R,
         IsLoaded(p, R), p.load, p.paddr >= HIMEM_START,
         NEW e \in p.paddr..(p.paddr + p.memsz - 1)
  PROVE  \E r \in R : r.owner = "kernel" /\ r.from <= e /\ e < r.to
<1>1. load_addr(p) = p.paddr
  BY Addresses DEF load_addr
<1>2. CASE e < p.paddr + p.filesz
  <2> DEFINE r == Region("kernel", p.paddr, p.filesz)
  <2>1. r \in R
    BY <1>1, <1>2 DEF IsLoaded
  <2>2. r.owner = "kernel" /\ r.from <= e /\ e < r.to
    BY <1>2, SMTT(30) DEF Region
  <2> HIDE DEF r
  <2> QED BY <2>1, <2>2, ZenonT(40)
<1>3. CASE ~(e < p.paddr + p.filesz)
  <2> DEFINE r == Region("kernel", p.paddr + p.filesz, p.memsz - p.filesz)
  <2>1. r \in R
    BY <1>1, <1>3 DEF IsLoaded
  <2>2. r.owner = "kernel" /\ r.from <= e /\ e < r.to
    BY <1>3 DEF Region
  <2> HIDE DEF r
  <2> QED BY <2>1, <2>2, Zenon
<1> QED BY <1>2, <1>3, ZenonT(40)

\* The entry of an image with one lies in what was written of it.
LEMMA EntryInside ==
  ASSUME NEW k \in Kernels, k.format = "Elf64", Plain(k), HasEntry(k), NEW R,
         \A i \in 1..Len(k.phdrs) : IsLoaded(k.phdrs[i], R)
  PROVE  \E r \in R : r.owner = "kernel" /\ r.from <= k.entry /\ k.entry < r.to
<1>1. k.phdrs \in Seq([load : BOOLEAN, paddr : Nat, filesz : Nat, memsz : Nat])
  BY BootAssumption
<1>2. DOMAIN k.phdrs = 1..Len(k.phdrs)
  BY <1>1, LenProperties, Zenon
<1>3. PICK i \in 1..Len(k.phdrs) :
        /\ k.phdrs[i].load
        /\ k.entry \in k.phdrs[i].paddr..(k.phdrs[i].paddr + k.phdrs[i].memsz - 1)
  BY <1>2, Zenon DEF HasEntry
<1>4. k.phdrs[i].paddr >= HIMEM_START
  BY <1>2, <1>3, Zenon DEF Plain
<1>5. k.phdrs[i] \in [load : BOOLEAN, paddr : Nat, filesz : Nat, memsz : Nat]
  BY <1>1, ElementOfSeq, Zenon
<1> QED BY <1>3, <1>4, <1>5, AddressInside, ZenonT(40)

\* The kernel is in memory and main holds its entry.
KernelLoaded ==
  \/ /\ kernel.format = "BzImage" /\ entry = HIMEM_START
     /\ \E len \in Nat \ {0} : Region("kernel", HIMEM_START, len) \in Range(ram)
  \/ /\ kernel.format = "Elf64" /\ entry = kernel.entry
     /\ \A i \in 1..Len(kernel.phdrs) : IsLoaded(kernel.phdrs[i], Range(ram))

\* The steps of main from one on, errors aside.
From(step) ==
  CASE step = "initrd"  -> {"initrd", "params", "cmdline", "regs", "mode", "window", "mptable", "run"}
    [] step = "params"  -> {"params", "cmdline", "regs", "mode", "window", "mptable", "run"}
    [] step = "cmdline" -> {"cmdline", "regs", "mode", "window", "mptable", "run"}
    [] step = "regs"    -> {"regs", "mode", "window", "mptable", "run"}
    [] step = "mode"    -> {"mode", "window", "mptable", "run"}

ParamsWritten ==
  /\ params = [e820 |-> e820(size), cmd_line_ptr |-> CMDLINE_ADDR,
               cmdline_size |-> cmdline_size,
               ramdisk_image |-> IF initrd = -1 THEN 0 ELSE INITRAMFS_ADDR,
               ramdisk_size |-> IF initrd = -1 THEN 0 ELSE initrd]
  /\ Region("params", ZERO_PAGE_START, Paras(4096)) \in Range(ram)

\* What each step has left behind, for the steps after it.
HandInv ==
  /\ pc = "kernel" /\ kernel.format = "Elf64" =>
       \A i \in 1..Len(kernel.phdrs) : i < ph => IsLoaded(kernel.phdrs[i], Range(ram))
  /\ pc \in From("initrd") => KernelLoaded
  /\ initrd = -1 => \A r \in Range(ram) : r.owner # "initrd"
  /\ pc \in From("params") /\ initrd # -1 =>
       Region("initrd", INITRAMFS_ADDR, initrd) \in Range(ram)
  /\ pc \in From("cmdline") => ParamsWritten
  /\ pc \in From("regs") =>
       Region("cmdline", CMDLINE_ADDR, Paras(cmdline + 1)) \in Range(ram)
  /\ pc \in From("mode") =>
       regs = [rip |-> entry, rsp |-> BOOT_STACK_POINTER, rsi |-> ZERO_PAGE_START]

\* A step of main after which main is at a later step, by the step it was at.
LEMMA StepOrder ==
  ASSUME [Next]_vars
  PROVE  /\ input' = input
         /\ pc' \in From("initrd") =>
              pc \in From("initrd") \/ LoadBzImage \/ SegmentsLoaded
         /\ pc' \in From("params") => pc \in From("params") \/ load_initrd
         /\ pc' \in From("cmdline") => pc \in From("cmdline") \/ setup_boot_params
         /\ pc' \in From("regs") => pc \in From("regs") \/ setup_cmdline
         /\ pc' \in From("mode") => pc \in From("mode") \/ setup_general_registers
         /\ pc' = "kernel" => pc = "kernel" \/ Allocate
         /\ pc \in From("initrd") => UNCHANGED entry
         /\ pc \in From("params") => UNCHANGED size
         /\ pc \in From("cmdline") => UNCHANGED params
         /\ pc \in From("mode") => UNCHANGED regs
<1> DEFINE Order ==
         /\ pc' \in From("initrd") =>
              pc \in From("initrd") \/ LoadBzImage \/ SegmentsLoaded
         /\ pc' \in From("params") => pc \in From("params") \/ load_initrd
         /\ pc' \in From("cmdline") => pc \in From("cmdline") \/ setup_boot_params
         /\ pc' \in From("regs") => pc \in From("regs") \/ setup_cmdline
         /\ pc' \in From("mode") => pc \in From("mode") \/ setup_general_registers
         /\ pc' = "kernel" => pc = "kernel" \/ Allocate
         /\ pc \in From("initrd") => UNCHANGED entry
         /\ pc \in From("params") => UNCHANGED size
         /\ pc \in From("cmdline") => UNCHANGED params
         /\ pc \in From("mode") => UNCHANGED regs
<1>1. CASE Allocate
  <2>1. pc = "allocate" /\ pc' \in {"kernel", "failed"} /\ input' = input
    BY <1>1, LoadSteps, Zenon DEF Goes
  <2>2. Order
    BY <1>1, <2>1 DEF From
  <2> QED BY <2>1, <2>2, ZenonT(40)
<1>2. CASE LoadBzImage
  <2>1. pc = "kernel" /\ pc' \in {"initrd", "failed"} /\ input' = input
    BY <1>2, LoadSteps, Zenon DEF Goes
  <2>2. Order
    BY <1>2, <2>1 DEF From
  <2> QED BY <2>1, <2>2, ZenonT(40)
<1>3. CASE LoadSegment \/ DetectFails
  <2>1. pc = "kernel" /\ pc' \in {"kernel", "failed", "panicked"} /\ input' = input
    BY <1>3, LoadSteps, ZenonT(40) DEF Goes
  <2>2. Order
    BY <2>1 DEF From
  <2> QED BY <2>1, <2>2, ZenonT(40)
<1>11. CASE Ends
  <2>1. /\ pc \in {"kernel", "initrd"} /\ pc' \in {"failed", "panicked", "aborted"}
        /\ input' = input /\ entry' = entry
    BY <1>11, EndSteps, ZenonT(40)
  <2>2. Order
    BY <2>1 DEF From
  <2> QED BY <2>1, <2>2, ZenonT(40)
<1>4. CASE SegmentsLoaded
  <2>1. pc = "kernel" /\ pc' = "initrd" /\ input' = input
    BY <1>4, LoadSteps, ZenonT(40) DEF Goes
  <2>2. Order
    BY <1>4, <2>1 DEF From
  <2> QED BY <2>1, <2>2, ZenonT(40)
<1>5. CASE load_initrd
  <2>1. pc = "initrd" /\ pc' \in {"params", "failed"} /\ input' = input /\ entry' = entry
    BY <1>5, LoadSteps, Zenon DEF Goes
  <2>2. Order
    BY <1>5, <2>1 DEF From
  <2> QED BY <2>1, <2>2, ZenonT(40)
<1>6. CASE setup_boot_params
  <2>1. pc = "params" /\ pc' \in {"cmdline", "failed", "panicked"} /\ input' = input
        /\ entry' = entry /\ size' = size
    BY <1>6, SetupSteps, Zenon DEF Goes
  <2>2. Order
    BY <1>6, <2>1 DEF From
  <2> QED BY <2>1, <2>2, ZenonT(40)
<1>7. CASE setup_cmdline
  <2>1. pc = "cmdline" /\ pc' \in {"regs", "failed"} /\ input' = input
        /\ entry' = entry /\ size' = size /\ params' = params
    BY <1>7, SetupSteps, Zenon DEF Goes
  <2>2. Order
    BY <1>7, <2>1 DEF From
  <2> QED BY <2>1, <2>2, ZenonT(40)
<1>8. CASE setup_general_registers
  <2>1. pc = "regs" /\ pc' \in {"mode", "failed"} /\ input' = input
        /\ entry' = entry /\ size' = size /\ params' = params
    BY <1>8, SetupSteps, Zenon DEF Goes
  <2>2. Order
    BY <1>8, <2>1 DEF From
  <2> QED BY <2>1, <2>2, ZenonT(40)
<1>9. CASE setup_long_mode \/ setup_protected_mode \/ CheckWindow \/ write_mptable
  <2>1. pc \in {"mode", "window", "mptable"}
    BY <1>9, LastSteps, ZenonT(40) DEF Goes
  <2>2. /\ pc' \in {"window", "mptable", "run", "failed"}
        /\ input' = input /\ entry' = entry /\ size' = size /\ params' = params /\ regs' = regs
    BY <1>9, LastSteps, Zenon DEF Goes
  <2>3. Order
    BY <2>1, <2>2 DEF From
  <2> QED BY <2>2, <2>3, ZenonT(40)
<1>10. CASE Done \/ UNCHANGED vars
  <2>1. pc' = pc /\ input' = input /\ entry' = entry /\ size' = size /\ params' = params
        /\ regs' = regs
    BY <1>10 DEF Done, vars, input
  <2>2. Order
    BY <2>1
  <2> QED BY <2>1, <2>2, ZenonT(40)
<1> QED
  BY <1>1, <1>2, <1>3, <1>4, <1>5, <1>6, <1>7, <1>8, <1>9, <1>10, <1>11, ZenonT(40)
  DEF Next, Ends

LEMMA LoadedMore ==
  ASSUME NEW m, NEW n, m \subseteq n, NEW p, IsLoaded(p, m) PROVE IsLoaded(p, n)
BY Zenon DEF IsLoaded

\* The segments loaded so far stay loaded, and LoadSegment loads one more.
LEMMA SegmentsStep ==
  ASSUME BootInv, HandInv, [Next]_vars, pc' = "kernel", kernel.format = "Elf64",
         NEW i \in 1..Len(kernel.phdrs), i < ph'
  PROVE  IsLoaded(kernel.phdrs[i], Range(ram'))
<1> DEFINE S == Placed(size, SoFar(pc))
<1>0. ram \in Seq(S) /\ Range(ram) \subseteq Range(ram') /\ ph \in Nat
  BY StaysWritten DEF BootInv
<1> HIDE DEF S
<1>1. CASE Allocate
  <2>1. pc = "allocate" /\ ph' = ph
    BY <1>1 DEF Allocate, Fail
  <2>2. ph = 1
    BY <2>1 DEF BootInv
  <2>3. Len(kernel.phdrs) \in Nat => FALSE
    BY <2>1, <2>2
  <2>4. CASE Len(kernel.phdrs) \notin Nat
    BY <2>4
  <2> QED BY <2>3, <2>4
<1>2. CASE pc = "kernel" /\ i < ph
  <2>1. IsLoaded(kernel.phdrs[i], Range(ram))
    BY <1>2, Zenon DEF HandInv
  <2> QED BY <1>0, <2>1, LoadedMore, ZenonT(40)
<1>3. CASE LoadSegment /\ ~(i < ph)
  <2> DEFINE p == kernel.phdrs[i]
  <2>1. ph' = ph + 1
    BY <1>3, ZenonT(40) DEF LoadSegment, Fail
  <2>2. i = ph
    BY <1>0, <1>3, <2>1
  <2>3. ram' = IF p.load THEN ram \o FilePart(p) \o BssPart(p) ELSE ram
    BY <1>3, <2>2, ZenonT(40) DEF LoadSegment, Fail, FilePart, BssPart
  <2> HIDE DEF p
  <2>4. CASE p.load
    <3>1. ram' = ram \o FilePart(p) \o BssPart(p)
      BY <2>3, <2>4, ZenonT(40)
    <3>2. /\ Range(ram') = Range(ram) \union Range(FilePart(p)) \union Range(BssPart(p))
          /\ p.filesz > 0 => Region("kernel", load_addr(p), p.filesz) \in Range(FilePart(p))
          /\ p.memsz > p.filesz =>
               Region("kernel", load_addr(p) + p.filesz, p.memsz - p.filesz) \in Range(BssPart(p))
      BY <1>0, <3>1, SegmentWritten, ZenonT(40)
    <3>3. IsLoaded(p, Range(ram'))
      BY <3>2, Zenon DEF IsLoaded
    <3> QED BY <3>3 DEF p
  <2>5. CASE ~p.load
    BY <2>5, Zenon DEF IsLoaded, p
  <2> QED BY <2>4, <2>5, ZenonT(40)
<1>4. CASE pc = "kernel" /\ ~(i < ph) /\ ~LoadSegment
  <2>1. ph' = ph
    <3>1. ~LoadSegment /\ ~Allocate /\ ~load_initrd /\ ~setup_boot_params /\ ~setup_cmdline
      BY <1>4, ZenonT(40) DEF Allocate, load_initrd, setup_boot_params, setup_cmdline
    <3>2. /\ ~setup_general_registers /\ ~setup_long_mode /\ ~setup_protected_mode
          /\ ~CheckWindow /\ ~write_mptable /\ ~Done
      BY <1>4, ZenonT(40) DEF setup_general_registers, setup_long_mode, setup_protected_mode,
         CheckWindow, write_mptable, Done
    <3>3. CASE LoadBzImage \/ SegmentsLoaded
      BY <3>3, Zenon DEF LoadBzImage, SegmentsLoaded, Fail
    <3>4. CASE DetectFails
      BY <3>4, Zenon DEF DetectFails, Fail
    <3>5. CASE UNCHANGED vars
      BY <3>5, Zenon DEF vars
    <3>6. CASE Ends
      BY <3>6, EndSteps, Zenon
    <3> QED BY <3>1, <3>2, <3>3, <3>4, <3>5, <3>6, ZenonT(40) DEF Next, Ends
  <2> QED BY <1>4, <2>1, Zenon
<1> QED BY <1>1, <1>2, <1>3, <1>4, StepOrder, ZenonT(40)

\* The kernel is loaded when main goes on to the initramfs, and stays so.
LEMMA KernelStep ==
  ASSUME BootInv, HandInv, [Next]_vars, pc' \in From("initrd") PROVE KernelLoaded'
<1> DEFINE S == Placed(size, SoFar(pc))
<1>0. /\ ram \in Seq(S) /\ Range(ram) \subseteq Range(ram') /\ kernel' = kernel
      /\ kernel \in Kernels /\ ph \in Nat
  BY StaysWritten, StepOrder DEF BootInv, input, InputOK
<1> HIDE DEF S
<1>1. CASE pc \in From("initrd")
  <2>1. entry' = entry /\ KernelLoaded
    BY <1>1, StepOrder, Zenon DEF HandInv
  <2>2. CASE /\ kernel.format = "BzImage" /\ entry = HIMEM_START
             /\ \E len \in Nat \ {0} : Region("kernel", HIMEM_START, len) \in Range(ram)
    BY <1>0, <2>1, <2>2, ZenonT(40) DEF KernelLoaded
  <2>3. CASE /\ kernel.format = "Elf64" /\ entry = kernel.entry
             /\ \A i \in 1..Len(kernel.phdrs) : IsLoaded(kernel.phdrs[i], Range(ram))
    <3>1. \A i \in 1..Len(kernel.phdrs) : IsLoaded(kernel.phdrs[i], Range(ram'))
      BY <1>0, <2>3, LoadedMore, ZenonT(40)
    <3> QED BY <1>0, <2>1, <2>3, <3>1, ZenonT(40) DEF KernelLoaded
  <2> QED BY <2>1, <2>2, <2>3, ZenonT(40) DEF KernelLoaded
<1>2. CASE LoadBzImage
  <2> DEFINE at == payload_offset(kernel)
             len == kernel.len * Sector - at
  <2>0. pc' # "failed"
    BY DEF From
  <2>1. /\ kernel.format = "BzImage" /\ entry' = HIMEM_START /\ ~(at >= kernel.len * Sector)
        /\ ram' = Append(ram, Region("kernel", HIMEM_START, len))
    BY <1>2, <2>0, ZenonT(40) DEF LoadBzImage, Fail
  <2>2. kernel.len \in Nat /\ kernel.sects \in Nat
    BY <1>0, <2>1, BootAssumption
  <2>3. len \in Nat \ {0}
    <3>1. at \in Nat
      BY <2>2 DEF payload_offset, get_setup_sects, Sector
    <3>2. kernel.len * Sector \in Nat
      BY <2>2 DEF Sector
    <3> HIDE DEF at
    <3> QED BY <2>1, <3>1, <3>2
  <2> HIDE DEF len
  <2>4. Range(ram') = Range(ram) \union {Region("kernel", HIMEM_START, len)}
    BY <1>0, <2>1, RangeOfAppend, ZenonT(40)
  <2>5. Region("kernel", HIMEM_START, len) \in Range(ram')
    BY <2>4, Zenon
  <2> QED BY <1>0, <2>1, <2>3, <2>5, ZenonT(40) DEF KernelLoaded
<1>3. CASE SegmentsLoaded
  <2>1. /\ pc = "kernel" /\ kernel.format = "Elf64" /\ ph > Len(kernel.phdrs)
        /\ entry' = kernel.entry
    BY <1>3, ZenonT(40) DEF SegmentsLoaded
  <2>2. kernel.phdrs \in Seq([load : BOOLEAN, paddr : Nat, filesz : Nat, memsz : Nat])
    BY <1>0, <2>1, BootAssumption
  <2>3. Len(kernel.phdrs) \in Nat
    BY <2>2, LenProperties
  <2>4. \A i \in 1..Len(kernel.phdrs) : i < ph
    BY <1>0, <2>1, <2>3
  <2>5. \A i \in 1..Len(kernel.phdrs) : IsLoaded(kernel.phdrs[i], Range(ram'))
    BY <1>0, <2>1, <2>4, LoadedMore, ZenonT(40) DEF HandInv
  <2> QED BY <1>0, <2>1, <2>5, ZenonT(40) DEF KernelLoaded
<1> QED BY <1>1, <1>2, <1>3, StepOrder, ZenonT(40)

\* Every step of main keeps what the steps before it left behind.
LEMMA HandStep == BootInv /\ HandInv /\ [Next]_vars => HandInv'
<1> SUFFICES ASSUME BootInv, HandInv, [Next]_vars PROVE HandInv'
  OBVIOUS
<1> DEFINE S == Placed(size, SoFar(pc))
<1>0. /\ ram \in Seq(S) /\ Range(ram) \subseteq Range(ram')
      /\ kernel' = kernel /\ initrd' = initrd /\ cmdline' = cmdline
  BY StaysWritten, StepOrder DEF BootInv, input
<1> HIDE DEF S
<1>1. (pc = "kernel" /\ kernel.format = "Elf64" =>
        \A i \in 1..Len(kernel.phdrs) : i < ph => IsLoaded(kernel.phdrs[i], Range(ram)))'
  BY <1>0, SegmentsStep, Zenon
<1>2. (pc \in From("initrd") => KernelLoaded)'
  BY KernelStep, Zenon
<1>3. (initrd = -1 => \A r \in Range(ram) : r.owner # "initrd")'
  BY <1>0, RamGrows, Zenon DEF HandInv, Added
<1>4. ASSUME pc' \in From("params"), initrd # -1
      PROVE  Region("initrd", INITRAMFS_ADDR, initrd) \in Range(ram')
  <2>1. CASE pc \in From("params")
    BY <1>0, <1>4, <2>1, ZenonT(40) DEF HandInv
  <2>2. CASE load_initrd
    <3>1. ram' = Append(ram, Region("initrd", INITRAMFS_ADDR, initrd))
      BY <1>4, <2>2 DEF load_initrd, From
    <3> QED BY <1>0, <3>1, RangeOfAppend
  <2> QED BY <1>4, <2>1, <2>2, StepOrder, ZenonT(40)
<1>5. ASSUME pc' \in From("cmdline") PROVE ParamsWritten'
  <2>1. CASE pc \in From("cmdline")
    <3>1. size' = size /\ params' = params /\ ParamsWritten
      BY <2>1, StepOrder, ZenonT(40) DEF HandInv, From
    <3> QED BY <1>0, <3>1 DEF ParamsWritten, cmdline_size
  <2>2. CASE setup_boot_params
    <3>1. pc' # "failed" /\ pc' # "panicked"
      BY <1>5 DEF From
    <3>2. /\ params' = [e820 |-> e820(size), cmd_line_ptr |-> CMDLINE_ADDR,
                        cmdline_size |-> cmdline_size,
                        ramdisk_image |-> IF initrd = -1 THEN 0 ELSE INITRAMFS_ADDR,
                        ramdisk_size |-> IF initrd = -1 THEN 0 ELSE initrd]
          /\ ram' = Append(ram, Region("params", ZERO_PAGE_START, Paras(4096)))
          /\ size' = size
      BY <2>2, <3>1 DEF setup_boot_params, Fail
    <3>3. Region("params", ZERO_PAGE_START, Paras(4096)) \in Range(ram')
      BY <1>0, <3>2, RangeOfAppend, SMT
    <3> QED BY <1>0, <3>2, <3>3, SMT DEF ParamsWritten, cmdline_size
  <2> QED BY <1>5, <2>1, <2>2, StepOrder, ZenonT(40)
<1>6. ASSUME pc' \in From("regs")
      PROVE  Region("cmdline", CMDLINE_ADDR, Paras(cmdline + 1)) \in Range(ram')
  <2>1. CASE pc \in From("regs")
    BY <1>0, <2>1, ZenonT(40) DEF HandInv
  <2>2. CASE setup_cmdline
    <3>1. ram' = Append(ram, Region("cmdline", CMDLINE_ADDR, Paras(cmdline + 1)))
      BY <1>6, <2>2 DEF setup_cmdline, Fail, From
    <3> QED BY <1>0, <3>1, RangeOfAppend
  <2> QED BY <1>6, <2>1, <2>2, StepOrder, ZenonT(40)
<1>7. ASSUME pc' \in From("mode")
      PROVE  regs' = [rip |-> entry', rsp |-> BOOT_STACK_POINTER, rsi |-> ZERO_PAGE_START]
  <2>1. CASE pc \in From("mode")
    <3>1. pc \in From("initrd")
      BY <2>1 DEF From
    <3>2. regs' = regs /\ entry' = entry
      BY <2>1, <3>1, StepOrder, ZenonT(40)
    <3> QED BY <2>1, <3>2, Zenon DEF HandInv
  <2>2. CASE setup_general_registers
    BY <1>7, <2>2 DEF setup_general_registers, Fail, From
  <2> QED BY <1>7, <2>1, <2>2, StepOrder, ZenonT(40)
<1> QED BY <1>0, <1>1, <1>2, <1>3, <1>4, <1>5, <1>6, <1>7, ZenonT(40) DEF HandInv

\* The registers and boot_params lead to what was written.
LEMMA HandHolds == BootInv /\ HandInv => HandOver
<1> SUFFICES ASSUME BootInv, HandInv, Running PROVE HandOver
  BY DEF HandOver
<1>0. /\ pc \in From("initrd") /\ pc \in From("params") /\ pc \in From("cmdline")
      /\ pc \in From("regs") /\ pc \in From("mode")
  BY DEF From, Running
<1>1. /\ KernelLoaded /\ ParamsWritten
      /\ initrd = -1 => \A r \in Range(ram) : r.owner # "initrd"
      /\ initrd # -1 => Region("initrd", INITRAMFS_ADDR, initrd) \in Range(ram)
      /\ Region("cmdline", CMDLINE_ADDR, Paras(cmdline + 1)) \in Range(ram)
      /\ regs = [rip |-> entry, rsp |-> BOOT_STACK_POINTER, rsi |-> ZERO_PAGE_START]
  BY <1>0, ZenonT(40) DEF HandInv
<1>2. \A o, from, len : /\ Region(o, from, len).owner = o
                        /\ Region(o, from, len).from = from
                        /\ Region(o, from, len).to = from + len
  BY DEF Region
<1>3. \E r \in Written("params") : regs.rsi = r.from
  BY <1>1, <1>2 DEF ParamsWritten, Written
<1>4. \E r \in Written("cmdline") :
         params.cmd_line_ptr = r.from /\ r.to - r.from = Paras(params.cmdline_size)
         /\ params.cmdline_size = cmdline + 1
  <2> DEFINE r == Region("cmdline", CMDLINE_ADDR, Paras(cmdline + 1))
  <2>1. r \in Written("cmdline")
    BY <1>1, <1>2 DEF Written
  <2>2. params.cmd_line_ptr = CMDLINE_ADDR /\ params.cmdline_size = cmdline + 1
    BY <1>1 DEF ParamsWritten, cmdline_size
  <2>3. CMDLINE_ADDR \in Int /\ Paras(cmdline + 1) \in Int
    BY Addresses DEF Paras, BootInv, InputOK
  <2>4. r.from = CMDLINE_ADDR /\ r.to - r.from = Paras(cmdline + 1)
    BY <1>2, <2>3
  <2> HIDE DEF r
  <2> QED BY <2>1, <2>2, <2>4, SMTT(30)
<1>5. IF Written("initrd") = {} THEN params.ramdisk_size = 0
      ELSE \E r \in Written("initrd") :
             params.ramdisk_image = r.from /\ params.ramdisk_size = r.to - r.from
  <2>1. CASE initrd = -1
    <3>1. Written("initrd") = {}
      BY <1>1, <2>1, ZenonT(40) DEF Written
    <3>2. params.ramdisk_size = 0
      BY <1>1, <2>1 DEF ParamsWritten
    <3> QED BY <3>1, <3>2, Zenon
  <2>2. CASE initrd # -1
    <3> DEFINE r == Region("initrd", INITRAMFS_ADDR, initrd)
    <3>1. r \in Written("initrd")
      BY <1>1, <1>2, <2>2, SMTT(30) DEF Written
    <3>2. params.ramdisk_image = INITRAMFS_ADDR /\ params.ramdisk_size = initrd
      BY <1>1, <2>2 DEF ParamsWritten
    <3>3. r.from = INITRAMFS_ADDR /\ r.to - r.from = initrd
      BY <1>2, <2>2, Addresses, SMTT(30) DEF BootInv, InputOK
    <3> HIDE DEF r
    <3> QED BY <3>1, <3>2, <3>3
  <2> QED BY <2>1, <2>2
<1>6. ASSUME Plain(kernel), HasEntry(kernel)
      PROVE  \E r \in Written("kernel") : r.from <= regs.rip /\ regs.rip < r.to
  <2>0. regs.rip = entry /\ kernel \in Kernels
    BY <1>1 DEF BootInv, InputOK
  <2>1. CASE /\ kernel.format = "BzImage" /\ entry = HIMEM_START
             /\ \E len \in Nat \ {0} : Region("kernel", HIMEM_START, len) \in Range(ram)
    <3>1. PICK len \in Nat \ {0} : Region("kernel", HIMEM_START, len) \in Range(ram)
      BY <2>1
    <3> DEFINE r == Region("kernel", HIMEM_START, len)
    <3>2. r \in Written("kernel")
      BY <1>2, <3>1 DEF Written
    <3>3. r.from <= entry /\ entry < r.to
      BY <1>2, <2>1, Addresses
    <3> HIDE DEF r
    <3> QED BY <2>0, <3>2, <3>3
  <2>2. CASE /\ kernel.format = "Elf64" /\ entry = kernel.entry
             /\ \A i \in 1..Len(kernel.phdrs) : IsLoaded(kernel.phdrs[i], Range(ram))
    <3>1. \E r \in Range(ram) : r.owner = "kernel" /\ r.from <= kernel.entry /\ kernel.entry < r.to
      BY <1>6, <2>0, <2>2, EntryInside, ZenonT(40)
    <3> QED BY <2>0, <2>2, <3>1, Zenon DEF Written
  <2> QED BY <1>1, <2>1, <2>2, ZenonT(40) DEF KernelLoaded
<1> QED BY <1>3, <1>4, <1>5, <1>6, ZenonT(40) DEF HandOver

-----------------------------------------------------------------------------
(* The MP table.                                                            *)

\* A round of the checksum: filled in last, it makes the table's bytes sum to 0.
LEMMA ChecksumSums ==
  ASSUME NEW length \in Nat, NEW count \in Nat
  PROVE  LET h == Backfill(length, count)
         IN /\ h.length = length /\ h.count = count
            /\ Bytes(h.length, h.count, h.sum) % 256 = 0
<1> DEFINE b == (length % 256) + (length \div 256) + (count % 256) + (count \div 256)
           s == (256 - (b % 256)) % 256
<1>1. b \in Nat
  OBVIOUS
<1>2. Bytes(length, count, 0) = b /\ Bytes(length, count, s) = b + s
  BY <1>1 DEF Bytes
<1> HIDE DEF b
<1>3. (b + s) % 256 = 0
  BY <1>1
<1>4. checksum(Bytes(length, count, 0)) = s
  BY <1>2 DEF checksum
<1> HIDE DEF s
<1> QED BY <1>2, <1>3, <1>4 DEF Backfill

Bus    == [kind |-> "bus"]
IoApic == [kind |-> "ioapic", id |-> ioapic_id]
Lint   == [kind |-> "lintsrc"]

\* The entries of the table, place by place.
LEMMA EntriesAre ==
  ASSUME cpus \in Nat, 0 < cpus
  PROVE  /\ Len(Entries) = cpus + 20 /\ DOMAIN Entries = 1..(cpus + 20)
         /\ \A i \in 1..cpus : Entries[i] = Processor(i - 1)
         /\ Entries[cpus + 1] = Bus /\ Entries[cpus + 2] = IoApic
         /\ \A i \in 1..16 : Entries[cpus + 2 + i] = IntSrc(i - 1)
         /\ Entries[cpus + 19] = Lint /\ Entries[cpus + 20] = Lint
<1> DEFINE a == [i \in 1..cpus |-> Processor(i - 1)]
           b == <<Bus, IoApic>>
           c == [i \in 1..16 |-> IntSrc(i - 1)]
           d == <<Lint, Lint>>
           T == {a[i] : i \in 1..cpus} \union {Bus, IoApic, Lint} \union {c[i] : i \in 1..16}
<1>1. a \in Seq(T) /\ Len(a) = cpus /\ \A i \in 1..cpus : a[i] = Processor(i - 1)
  <2>1. a \in [1..cpus -> T] /\ cpus \in Nat
    OBVIOUS
  <2> QED BY <2>1, ASeq
<1>2. c \in Seq(T) /\ Len(c) = 16 /\ \A i \in 1..16 : c[i] = IntSrc(i - 1)
  <2>1. c \in [1..16 -> T]
    OBVIOUS
  <2> QED BY <2>1, ASeq
<1>3. b \in Seq(T) /\ Len(b) = 2 /\ b[1] = Bus /\ b[2] = IoApic
  <2>1. Bus \in T /\ IoApic \in T
    OBVIOUS
  <2> HIDE DEF T
  <2> QED BY <2>1
<1>4. d \in Seq(T) /\ Len(d) = 2 /\ d[1] = Lint /\ d[2] = Lint
  <2>1. Lint \in T
    OBVIOUS
  <2> HIDE DEF T
  <2> QED BY <2>1
<1>5. Entries = ((a \o b) \o c) \o d
  BY DEF Entries, Bus, IoApic, Lint
<1> HIDE DEF a, b, c, d, T
<1> DEFINE ab  == a \o b
           abc == ab \o c
           all == abc \o d
           m   == cpus + 2
           n   == cpus + 18
           k   == cpus + 20
<1>0. /\ cpus \in Nat /\ m \in Nat /\ n \in Nat /\ k \in Nat /\ 2 \in Nat /\ 16 \in Nat
      /\ m = cpus + 2 /\ n = m + 16 /\ k = n + 2
      /\ cpus + 1 \in 1..m /\ cpus + 2 \in 1..m
      /\ cpus + 19 = n + 1 /\ cpus + 20 = n + 2 /\ 1 \in 1..2 /\ 2 \in 1..2
  OBVIOUS
<1> HIDE DEF m, n, k
<1>6. /\ ab \in Seq(T) /\ Len(ab) = m
      /\ \A i \in 1..cpus : i \in 1..m /\ ab[i] = a[i]
      /\ \A i \in 1..2 : cpus + i \in 1..m /\ ab[cpus + i] = b[i]
  <2>0. a \in Seq(T) /\ b \in Seq(T)
    BY <1>1, <1>3, ZenonT(40)
  <2>1. /\ ab \in Seq(T) /\ Len(ab) = Len(a) + Len(b)
        /\ \A i \in 1..Len(a) : i \in 1..(Len(a) + Len(b)) /\ ab[i] = a[i]
        /\ \A i \in 1..Len(b) : Len(a) + i \in 1..(Len(a) + Len(b)) /\ ab[Len(a) + i] = b[i]
    BY <2>0, Joined, SMT
  <2> HIDE DEF ab
  <2> QED BY <1>0, <1>1, <1>3, <2>1, ZenonT(40)
<1> HIDE DEF ab
<1>7. /\ abc \in Seq(T) /\ Len(abc) = n
      /\ \A i \in 1..m : i \in 1..n /\ abc[i] = ab[i]
      /\ \A i \in 1..16 : m + i \in 1..n /\ abc[m + i] = c[i]
  <2>0. ab \in Seq(T) /\ c \in Seq(T)
    BY <1>2, <1>6, ZenonT(40)
  <2>1. /\ abc \in Seq(T) /\ Len(abc) = Len(ab) + Len(c)
        /\ \A i \in 1..Len(ab) : i \in 1..(Len(ab) + Len(c)) /\ abc[i] = ab[i]
        /\ \A i \in 1..Len(c) : Len(ab) + i \in 1..(Len(ab) + Len(c)) /\ abc[Len(ab) + i] = c[i]
    BY <2>0, Joined, SMT
  <2> HIDE DEF abc
  <2> QED BY <1>0, <1>2, <1>6, <2>1, ZenonT(40)
<1> HIDE DEF abc
<1>8. /\ Len(all) = k /\ DOMAIN all = 1..k
      /\ \A i \in 1..n : i \in 1..k /\ all[i] = abc[i]
      /\ \A i \in 1..2 : n + i \in 1..k /\ all[n + i] = d[i]
  <2>0. abc \in Seq(T) /\ d \in Seq(T)
    BY <1>4, <1>7, ZenonT(40)
  <2>1. /\ Len(all) = Len(abc) + Len(d) /\ DOMAIN all = 1..(Len(abc) + Len(d))
        /\ \A i \in 1..Len(abc) : i \in 1..(Len(abc) + Len(d)) /\ all[i] = abc[i]
        /\ \A i \in 1..Len(d) : Len(abc) + i \in 1..(Len(abc) + Len(d)) /\ all[Len(abc) + i] = d[i]
    BY <2>0, Joined, SMT
  <2> HIDE DEF all
  <2> QED BY <1>0, <1>4, <1>7, <2>1, ZenonT(40)
<1>9. Entries = all
  BY <1>5 DEF ab, abc
<1> HIDE DEF all
<1>10. ASSUME NEW i \in 1..cpus PROVE all[i] = Processor(i - 1)
  <2>1. i \in 1..m /\ ab[i] = a[i]
    BY <1>6, Zenon
  <2>2. i \in 1..n /\ abc[i] = ab[i]
    BY <1>7, <2>1, Zenon
  <2>3. all[i] = abc[i] /\ a[i] = Processor(i - 1)
    BY <1>1, <1>8, <2>2, ZenonT(40)
  <2> QED BY <2>1, <2>2, <2>3, Zenon
<1>11. all[cpus + 1] = Bus /\ all[cpus + 2] = IoApic
  <2>1. \A i \in 1..2 : all[cpus + i] = b[i]
    BY <1>6, <1>7, <1>8, Zenon
  <2> QED BY <1>0, <1>3, <2>1, Zenon
<1>12. ASSUME NEW i \in 1..16 PROVE all[cpus + 2 + i] = IntSrc(i - 1)
  <2>1. m + i \in 1..n /\ abc[m + i] = c[i]
    BY <1>7, Zenon
  <2>2. all[m + i] = abc[m + i] /\ c[i] = IntSrc(i - 1)
    BY <1>2, <1>8, <2>1, Zenon
  <2>3. all[m + i] = IntSrc(i - 1)
    BY <2>1, <2>2, Zenon
  <2> QED BY <2>3, Zenon DEF m
<1>13. all[cpus + 19] = Lint /\ all[cpus + 20] = Lint
  BY <1>0, <1>4, <1>8, ZenonT(40)
<1> QED BY <1>8, <1>9, <1>10, <1>11, <1>12, <1>13, ZenonT(40) DEF k

\* The kinds of the entries, their ids and pins.
LEMMA Kinds ==
  /\ \A id : /\ Processor(id).kind = "cpu" /\ Processor(id).id = id
             /\ Processor(id).bsp = (id = 0)
  /\ Bus.kind = "bus" /\ IoApic.kind = "ioapic" /\ IoApic.id = cpus /\ Lint.kind = "lintsrc"
  /\ \A pin : IntSrc(pin).kind = "intsrc" /\ IntSrc(pin).pin = pin
  /\ \A pin \in 0..15 : \A gsi \in {4, 12, 14} :
       IntSrc(pin).irq = gsi <=> (pin = gsi /\ IntSrc(pin).type = "INT")
<1>1. \A id : /\ Processor(id).kind = "cpu" /\ Processor(id).id = id
             /\ Processor(id).bsp = (id = 0)
  BY DEF Processor
<1>2. Bus.kind = "bus" /\ IoApic.kind = "ioapic" /\ IoApic.id = cpus /\ Lint.kind = "lintsrc"
  BY DEF Bus, IoApic, Lint, ioapic_id
<1>3. \A pin : IntSrc(pin).kind = "intsrc" /\ IntSrc(pin).pin = pin
  BY DEF IntSrc
<1>4. ASSUME NEW pin \in 0..15, NEW gsi \in {4, 12, 14}
      PROVE  IntSrc(pin).irq = gsi <=> (pin = gsi /\ IntSrc(pin).type = "INT")
  <2>1. /\ IntSrc(pin).irq = IF native = "bhyve" /\ pin = 2 THEN 0 ELSE pin
        /\ IntSrc(pin).type = IF native = "bhyve" /\ pin = 0 THEN "EXTINT" ELSE "INT"
    BY DEF IntSrc
  <2> QED BY <2>1
<1> QED BY <1>1, <1>2, <1>3, <1>4

\* What the table holds, as a set.
LEMMA EntrySet ==
  ASSUME cpus \in Nat, 0 < cpus
  PROVE  Range(Entries) = {Processor(k) : k \in 0..(cpus - 1)} \union {Bus, IoApic, Lint}
                          \union {IntSrc(k) : k \in 0..15}
<1> DEFINE E == {Processor(k) : k \in 0..(cpus - 1)} \union {Bus, IoApic, Lint}
                \union {IntSrc(k) : k \in 0..15}
<1> DEFINE n == cpus + 20
<1>0. n \in Nat /\ n = cpus + 20
  OBVIOUS
<1>1. DOMAIN Entries = 1..n
  BY EntriesAre
<1> HIDE DEF n
<1>2. ASSUME NEW i \in 1..n PROVE Entries[i] \in E
  <2>1. CASE i \in 1..cpus
    <3>1. i - 1 \in 0..(cpus - 1) /\ Entries[i] = Processor(i - 1)
      BY <2>1, EntriesAre
    <3> QED BY <3>1
  <2>2. CASE i \in {cpus + 1, cpus + 2, cpus + 19, cpus + 20}
    <3>1. Entries[i] \in {Bus, IoApic, Lint}
      BY <2>2, EntriesAre, ZenonT(40)
    <3> QED BY <3>1, Zenon
  <2>3. CASE i \notin 1..cpus /\ i \notin {cpus + 1, cpus + 2, cpus + 19, cpus + 20}
    <3> DEFINE k == i - cpus - 2
    <3>1. k \in 1..16 /\ cpus + 2 + k = i /\ k - 1 \in 0..15
      BY <1>0, <2>3
    <3>2. Entries[cpus + 2 + k] = IntSrc(k - 1)
      BY <3>1, EntriesAre, Zenon
    <3> QED BY <3>1, <3>2
  <2> QED BY <2>1, <2>2, <2>3, ZenonT(40)
<1>3. ASSUME NEW e \in E PROVE \E i \in 1..n : Entries[i] = e
  <2>1. ASSUME NEW k \in 0..(cpus - 1), e = Processor(k) PROVE \E i \in 1..n : Entries[i] = e
    <3> DEFINE j == k + 1
    <3>1. j \in 1..cpus /\ j \in 1..n /\ j - 1 = k
      BY <1>0
    <3> HIDE DEF j
    <3>2. Entries[j] = Processor(j - 1)
      BY <3>1, EntriesAre, Zenon
    <3> QED BY <2>1, <3>1, <3>2, ZenonT(40)
  <2>2. CASE e \in {Bus, IoApic, Lint}
    <3>1. cpus + 1 \in 1..n /\ cpus + 2 \in 1..n /\ cpus + 19 \in 1..n
      BY <1>0
    <3> QED BY <2>2, <3>1, EntriesAre, ZenonT(40)
  <2>3. ASSUME NEW k \in 0..15, e = IntSrc(k) PROVE \E i \in 1..n : Entries[i] = e
    <3> DEFINE j == k + 1
    <3>1. j \in 1..16 /\ cpus + 2 + j \in 1..n /\ j - 1 = k
      BY <1>0
    <3> HIDE DEF j
    <3>2. Entries[cpus + 2 + j] = IntSrc(j - 1)
      BY <3>1, EntriesAre, ZenonT(40)
    <3> QED BY <2>3, <3>1, <3>2, ZenonT(40)
  <2> QED BY <2>1, <2>2, <2>3, Zenon
<1> HIDE DEF E
<1>4. Range(Entries) = E
  BY <1>1, <1>2, <1>3, ZenonT(40) DEF Range
<1> QED BY <1>4 DEF E

MpLength(n) == 44 + 20 * n + 8 + 8 + 16 * 8 + 2 * 8
MpCount(n)  == n + 1 + 1 + 16 + 2

\* When an SMP guest runs, the table is the one write_mptable builds.
MpInv ==
  Running /\ cpus > 1 =>
    mp = [entries |-> Entries, header |-> Backfill(MpLength(cpus), MpCount(cpus))]

\* Only write_mptable lets an SMP guest run.
LEMMA MpStep == MpInv /\ [Next]_vars => MpInv'
<1> SUFFICES ASSUME MpInv, [Next]_vars, Running', (cpus > 1)' PROVE MpInv'
  BY DEF MpInv
<1>1. pc' = "run" /\ cpus' > 1
  BY DEF Running
<1>2. CASE write_mptable
  <2>1. /\ mp' = [entries |-> Entries, header |-> Backfill(MpLength(cpus), MpCount(cpus))]
        /\ UNCHANGED input
    BY <1>1, <1>2 DEF write_mptable, Fail, MpLength, MpCount
  <2>2. cpus' = cpus /\ native' = native
    BY <2>1, SMTT(30) DEF input
  <2>3. Entries' = Entries
    BY <2>2 DEF Entries, Processor, IntSrc, ioapic_id
  <2> QED BY <2>1, <2>2, <2>3, SMTT(30) DEF MpInv
<1>3. CASE UNCHANGED vars
  <2>1. cpus' = cpus /\ native' = native /\ mp' = mp /\ pc' = pc
    BY <1>3, SMTT(30) DEF vars
  <2>2. Entries' = Entries
    BY <2>1 DEF Entries, Processor, IntSrc, ioapic_id
  <2> QED BY <1>1, <2>1, <2>2 DEF MpInv, Running
<1>4. CASE CheckWindow
  <2>1. ~(cpus > 1) /\ cpus' = cpus
    BY <1>1, <1>4 DEF CheckWindow, input
  <2> QED BY <1>1, <2>1
<1>5. CASE ~(write_mptable \/ UNCHANGED vars \/ CheckWindow)
  <2>1. /\ ~Allocate /\ ~LoadBzImage /\ ~LoadSegment /\ ~SegmentsLoaded /\ ~DetectFails
        /\ ~load_initrd /\ ~Ends
    BY <1>1, LoadSteps, EndSteps, Zenon DEF Goes
  <2>2. ~setup_boot_params /\ ~setup_cmdline /\ ~setup_general_registers
    BY <1>1, SetupSteps, Zenon DEF Goes
  <2>3. ~setup_long_mode /\ ~setup_protected_mode
    BY <1>1, LastSteps, Zenon DEF Goes
  <2> QED BY <1>5, <2>1, <2>2, <2>3, ZenonT(40) DEF Next, Done, Ends
<1> QED BY <1>2, <1>3, <1>4, <1>5

\* The kinds of the entries, place by place.
LEMMA KindsInPlace ==
  ASSUME cpus \in Nat, 0 < cpus, NEW i \in 1..(cpus + 20)
  PROVE  IF i \in 1..cpus THEN Entries[i].kind = "cpu"
         ELSE Entries[i].kind \in {"bus", "ioapic", "intsrc", "lintsrc"}
<1>1. CASE i \in 1..cpus
  <2>1. Entries[i] = Processor(i - 1)
    BY <1>1, EntriesAre, Zenon
  <2>2. Processor(i - 1).kind = "cpu"
    BY Kinds, ZenonT(40)
  <2> QED BY <1>1, <2>1, <2>2, ZenonT(40)
<1>2. CASE i \in {cpus + 1, cpus + 2, cpus + 19, cpus + 20}
  <2>1. i \notin 1..cpus
    BY <1>2
  <2>2. Entries[i] \in {Bus, IoApic, Lint}
    BY <1>2, EntriesAre, Zenon
  <2>3. \A e \in {Bus, IoApic, Lint} : e.kind \in {"bus", "ioapic", "lintsrc"}
    BY Kinds, Zenon
  <2>4. Entries[i].kind \in {"bus", "ioapic", "lintsrc"}
    BY <2>2, <2>3, ZenonT(40)
  <2> QED BY <2>1, <2>4
<1>3. CASE i \notin 1..cpus /\ i \notin {cpus + 1, cpus + 2, cpus + 19, cpus + 20}
  <2> DEFINE k == i - cpus - 2
  <2>1. k \in 1..16 /\ cpus + 2 + k = i
    BY <1>3
  <2> HIDE DEF k
  <2>2. Entries[cpus + 2 + k] = IntSrc(k - 1)
    BY <2>1, EntriesAre, Zenon
  <2>3. IntSrc(k - 1).kind = "intsrc"
    BY Kinds, Zenon
  <2>4. Entries[i].kind = "intsrc"
    BY <2>1, <2>2, <2>3, Zenon
  <2> QED BY <1>3, <2>4
<1> QED BY <1>1, <1>2, <1>3, Zenon

\* What the proofs use about the size of a set (see SizesHold).
Sizes ==
  /\ \A a, b \in Int : a <= b => Cardinality(a..b) = b - a + 1
  /\ \A x : Cardinality({x}) = 1

\* How many entries there are of a kind: as many as processors, and twenty others.
LEMMA KindCounts ==
  ASSUME cpus \in Nat, 0 < cpus, Sizes
  PROVE  /\ Cardinality({i \in DOMAIN Entries : Entries[i].kind \in {"cpu"}}) = cpus
         /\ Cardinality({i \in DOMAIN Entries :
                           Entries[i].kind \in {"bus", "ioapic", "intsrc", "lintsrc"}}) = 20
<1> DEFINE n == cpus + 20
           others == {"bus", "ioapic", "intsrc", "lintsrc"}
<1>1. DOMAIN Entries = 1..n
  BY EntriesAre, Zenon
<1>2. \A i \in 1..n : IF i \in 1..cpus THEN Entries[i].kind = "cpu" ELSE Entries[i].kind \in others
  BY KindsInPlace, Zenon
<1>3. /\ \A i \in 1..cpus : i \in 1..n
      /\ \A i : i \in (cpus + 1)..n <=> i \in 1..n /\ i \notin 1..cpus
  OBVIOUS
<1>4. "cpu" \notin others
  OBVIOUS
<1>5. /\ Cardinality(1..cpus) = cpus
      /\ Cardinality((cpus + 1)..n) = 20
  <2>1. cpus + 1 \in Int /\ n \in Int /\ 1 \in Int /\ cpus \in Int /\ 1 <= cpus /\ cpus + 1 <= n
        /\ cpus - 1 + 1 = cpus /\ n - (cpus + 1) + 1 = 20
    OBVIOUS
  <2> QED BY <2>1, Zenon DEF Sizes
<1> HIDE DEF n, others
<1>6. {i \in DOMAIN Entries : Entries[i].kind \in {"cpu"}} = 1..cpus
  BY <1>1, <1>2, <1>3, <1>4, ZenonT(40)
<1>7. {i \in DOMAIN Entries : Entries[i].kind \in others} = (cpus + 1)..n
  BY <1>1, <1>2, <1>3, <1>4, ZenonT(40)
<1> QED BY <1>5, <1>6, <1>7, ZenonT(40) DEF others

\* The boot processor, the APIC ids and the sources of the pins, from the entries.
LEMMA EntrySets ==
  ASSUME cpus \in Nat, 0 < cpus
  PROVE  LET entries == Range(Entries)
             sources == {e \in entries : e.kind = "intsrc"}
         IN /\ {e \in entries : e.kind = "cpu" /\ e.bsp} = {Processor(0)}
            /\ {e.id : e \in {x \in entries : x.kind \in {"cpu", "ioapic"}}} = 0..cpus
            /\ sources = {IntSrc(k) : k \in 0..15}
<1> DEFINE entries == Range(Entries)
           P == {Processor(k) : k \in 0..(cpus - 1)}
           S == {IntSrc(k) : k \in 0..15}
           O == {Bus, IoApic, Lint}
<1>1. entries = P \union O \union S
  BY EntrySet, Zenon
<1>2. /\ \A e \in P : e.kind = "cpu"
      /\ \A e \in S : e.kind = "intsrc"
      /\ \A e \in O : e.kind \in {"bus", "ioapic", "lintsrc"}
      /\ \A e \in O : e.kind = "ioapic" <=> e = IoApic
  <2>1. \A e \in P : e.kind = "cpu"
    BY DEF Processor
  <2>2. \A e \in S : e.kind = "intsrc"
    BY DEF IntSrc
  <2>3. /\ \A e \in O : e.kind \in {"bus", "ioapic", "lintsrc"}
        /\ \A e \in O : e.kind = "ioapic" <=> e = IoApic
    BY DEF Bus, IoApic, Lint
  <2> QED BY <2>1, <2>2, <2>3, ZenonT(40)
<1>3. /\ \A e \in P : e.bsp <=> e = Processor(0)
      /\ Processor(0) \in P
  <2>1. 0 \in 0..(cpus - 1)
    OBVIOUS
  <2>2. ASSUME NEW e \in P PROVE e.bsp <=> e = Processor(0)
    <3>1. PICK k \in 0..(cpus - 1) : e = Processor(k)
      OBVIOUS
    <3>2. e.bsp = (k = 0) /\ e.id = k /\ Processor(0).id = 0
      BY <3>1, Kinds, ZenonT(40)
    <3> QED BY <3>1, <3>2, ZenonT(40)
  <2> QED BY <2>1, <2>2, ZenonT(40)
<1>4. /\ \A e \in P : e.id \in 0..(cpus - 1)
      /\ \A k \in 0..(cpus - 1) : \E e \in P : e.id = k
      /\ IoApic.id = cpus
  <2>1. \A e \in P : e.id \in 0..(cpus - 1)
    BY DEF Processor
  <2>2. ASSUME NEW k \in 0..(cpus - 1) PROVE \E e \in P : e.id = k
    <3>1. Processor(k) \in P /\ Processor(k).id = k
      BY DEF Processor
    <3> HIDE DEF P
    <3> QED BY <3>1, ZenonT(40)
  <2>3. IoApic.id = cpus
    BY DEF IoApic, ioapic_id
  <2> QED BY <2>1, <2>2, <2>3, ZenonT(40)
<1>5. \A k : k \in 0..cpus <=> k \in 0..(cpus - 1) \/ k = cpus
  OBVIOUS
<1> HIDE DEF entries, P, S
<1>6. {e \in entries : e.kind = "cpu" /\ e.bsp} = {Processor(0)}
  <2>1. \A e \in entries : e.kind = "cpu" <=> e \in P
    BY <1>1, <1>2
  <2> QED BY <1>1, <1>3, <2>1, ZenonT(40)
<1>7. {e.id : e \in {x \in entries : x.kind \in {"cpu", "ioapic"}}} = 0..cpus
  <2> DEFINE X == {x \in entries : x.kind \in {"cpu", "ioapic"}}
  <2>1. X = P \union {IoApic}
    BY <1>1, <1>2
  <2> HIDE DEF X
  <2>2. {e.id : e \in X} = 0..cpus
    BY <1>4, <1>5, <2>1, ZenonT(40)
  <2> QED BY <2>2, ZenonT(40) DEF X
<1>8. {e \in entries : e.kind = "intsrc"} = S
  BY <1>1, <1>2
<1> QED BY <1>6, <1>7, <1>8, ZenonT(40) DEF entries, S

\* The table write_mptable builds is sound for any number of processors.
LEMMA TableIsSound ==
  ASSUME cpus \in Nat, 0 < cpus, MpInv, Sizes PROVE MpTableIsSound
<1> SUFFICES ASSUME Running, cpus > 1 PROVE MpTableIsSound
  BY DEF MpTableIsSound
<1> DEFINE entries == Range(Entries)
           ids     == {e.id : e \in {x \in entries : x.kind \in {"cpu", "ioapic"}}}
           sources == {e \in entries : e.kind = "intsrc"}
           h       == Backfill(MpLength(cpus), MpCount(cpus))
           Count(kinds) == Cardinality({i \in DOMAIN Entries : Entries[i].kind \in kinds})
<1>0. mp.entries = Entries /\ mp.header = h
  BY DEF MpInv
<1>1. MpLength(cpus) \in Nat /\ MpCount(cpus) \in Nat /\ MpCount(cpus) = cpus + 20
      /\ MpLength(cpus) = 44 + 20 * cpus + 8 * 20
  BY DEF MpLength, MpCount
<1>2. h.length = MpLength(cpus) /\ h.count = MpCount(cpus)
      /\ Bytes(h.length, h.count, h.sum) % 256 = 0
  <2> DEFINE l == MpLength(cpus)
             c == MpCount(cpus)
  <2>1. l \in Nat /\ c \in Nat
    BY <1>1, ZenonT(40)
  <2> HIDE DEF l, c
  <2>2. LET g == Backfill(l, c)
        IN g.length = l /\ g.count = c /\ Bytes(g.length, g.count, g.sum) % 256 = 0
    BY <2>1, ChecksumSums
  <2> QED BY <2>2, ZenonT(40) DEF l, c
<1> HIDE DEF h
<1>3. h.count = Len(Entries)
  <2>1. Len(Entries) = cpus + 20
    BY EntriesAre, Zenon
  <2> QED BY <1>1, <1>2, <2>1, ZenonT(40)
<1>4. h.length = 44 + 20 * Count({"cpu"}) + 8 * Count({"bus", "ioapic", "intsrc", "lintsrc"})
  BY <1>1, <1>2, KindCounts, ZenonT(40)
<1>5. Cardinality({e \in entries : e.kind = "cpu" /\ e.bsp}) = 1
  BY EntrySets, ZenonT(40) DEF Sizes
<1>6. Cardinality(ids) = cpus + 1
  <2>1. ids = 0..cpus
    BY EntrySets, ZenonT(40)
  <2>2. Cardinality(0..cpus) = cpus + 1
    <3>1. 0 \in Int /\ cpus \in Int /\ 0 <= cpus /\ cpus - 0 + 1 = cpus + 1
      OBVIOUS
    <3> QED BY <3>1, Zenon DEF Sizes
  <2> QED BY <2>1, <2>2, ZenonT(40)
<1>7. ASSUME NEW pin \in 0..15 PROVE Cardinality({e \in sources : e.pin = pin}) = 1
  <2>1. sources = {IntSrc(k) : k \in 0..15}
    BY EntrySets, Zenon
  <2>2. {e \in sources : e.pin = pin} = {IntSrc(pin)}
    <3>1. \A e \in sources : \E k \in 0..15 : e = IntSrc(k)
      BY <2>1, ZenonT(40)
    <3>2. \A k \in 0..15 : IntSrc(k) \in sources /\ IntSrc(k).pin = k
      BY <2>1, Kinds
    <3> HIDE DEF sources
    <3> QED BY <3>1, <3>2, ZenonT(40)
  <2> QED BY <2>2, ZenonT(40) DEF Sizes
<1>8. ASSUME NEW gsi \in {4, 12, 14}, NEW e \in sources
      PROVE  e.irq = gsi <=> (e.pin = gsi /\ e.type = "INT")
  <2>1. PICK k \in 0..15 : e = IntSrc(k)
    BY EntrySets, Zenon
  <2> QED BY <2>1, Kinds
<1> HIDE DEF entries, Count
<1> QED BY <1>0, <1>2, <1>3, <1>4, <1>5, <1>6, <1>7, <1>8, ZenonT(40)
     DEF MpTableIsSound, entries, Count

-----------------------------------------------------------------------------
(* The three, of every behaviour.                                           *)

LEMMA BootInitMore == Init => ModeInv /\ HandInv /\ MpInv
<1> SUFFICES ASSUME Init PROVE ModeInv /\ HandInv /\ MpInv
  OBVIOUS
<1>1. pc = "allocate" /\ sregs = ResetSregs /\ ram = <<>>
  BY DEF Init
<1>2. Range(ram) = {}
  BY <1>1 DEF Range
<1>3. ModeInv /\ MpInv
  BY <1>1 DEF ModeInv, MpInv, Running
<1>4. HandInv
  BY <1>1, <1>2 DEF HandInv, From
<1> QED BY <1>3, <1>4

\* On both backends the guest starts with its processor in one mode, in full, and
\* with the tables that mode needs.
THEOREM ModeCorrect == Spec => []ModeIsWhole
<1>1. BootInv /\ ModeInv /\ [Next]_vars => ModeInv'
  BY ModeStep
<1> QED BY <1>1, BootInitMore, BootInvHolds, ModeHolds, PTL DEF Spec

\* The guest's registers and boot_params lead it to what main wrote: the zero
\* page, the command line, the initramfs and the kernel's entry.
THEOREM HandOverCorrect == Spec => []HandOver
<1>1. BootInv /\ HandInv /\ [Next]_vars => HandInv'
  BY HandStep
<1> QED BY <1>1, BootInitMore, BootInvHolds, HandHolds, PTL DEF Spec

\* Only the sizes below need it.
FinSets == INSTANCE FiniteSetTheorems

\* The size of an interval and of a singleton.
LEMMA SizesHold == Sizes
<1>1. \A S : FinSets!Cardinality(S) = Cardinality(S)
  BY Zenon DEF Cardinality, FinSets!Cardinality
<1>2. \A a, b \in Int : a <= b => FinSets!Cardinality(a..b) = b - a + 1
  BY FinSets!FS_Interval
<1>3. \A x : FinSets!Cardinality({x}) = 1
  BY FinSets!FS_Singleton, ZenonT(40)
<1> QED BY <1>1, <1>2, <1>3, Zenon DEF Sizes

\* An SMP guest's MP table is sound for any number of processors, on both
\* backends: length, count, checksum, boot processor, APIC ids, pins and lines.
THEOREM MpTableCorrect == Spec => []MpTableIsSound
<1>1. MpInv /\ [Next]_vars => MpInv'
  BY MpStep
<1>2. BootInv /\ MpInv => MpTableIsSound
  BY TableIsSound, SizesHold DEF BootInv, InputOK
<1> QED BY <1>1, <1>2, BootInitMore, BootInvHolds, PTL DEF Spec
=============================================================================
