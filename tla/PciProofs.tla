----------------------------- MODULE PciProofs ------------------------------
(***************************************************************************)
(* Proofs about PciAccess, for any slots of the functions, any empty slot   *)
(* and any window.                                                          *)
(*                                                                          *)
(* Configuration: Holds relates the bytes of a function's space to the      *)
(* phase of its driver.  An access runs in three steps, so PciInv keeps the *)
(* relation for the phase and the page that the bytes have reached (Reached *)
(* and Given), which run ahead of the driver's while it waits; it also says *)
(* that the latch holds the address of the access under way, and that an    *)
(* access addressed to where there is no function programs nothing.         *)
(*                                                                          *)
(* Dispatch: BarInv keeps the functions that decode the page now between    *)
(* those that have done so all along and those that ever did.  The loop of  *)
(* route passes over no function of the first kind, because it looks at     *)
(* each once, and stops only at one of the second.                          *)
(***************************************************************************)
EXTENDS PciAccess, TLAPS, WellFoundedInduction

\* How a leaf that names no prover is tried.
USE SMT, Zenon, SMTT(30)

-----------------------------------------------------------------------------
(* Configuration space.                                                     *)

\* A guest addresses slots below 32: the host bridge, a function or the empty one.
LEMMA Slot ==
  ASSUME NEW s \in Present \cup {EmptySlot}
  PROVE  s \in Nat /\ s < 32 /\ (s \in Slots <=> s # 0 /\ s # EmptySlot)
BY PciAccessAssumption DEF Present

\* BAR pages are positive numbers.
LEMMA WindowPages == \A p \in Window : p \in Nat /\ p > 0
BY PciAccessAssumption

\* The page a BAR is given can be read off its four bytes again.
LEMMA PageRoundTrip ==
  ASSUME NEW p \in Window, NEW b2, NEW b3, NEW b4,
         b2 = (p % 16) * 16, b3 = (p \div 16) % 256, b4 = p \div 4096
  PROVE  /\ p \in Nat /\ p > 0 /\ b2 \in Nat
         /\ b4 * 4096 + b3 * 16 + b2 \div 16 = p
         /\ (b2 \div 16) * 16 = b2
<1> DEFINE a == p \div 16
           r == p % 16
           b == a \div 256
           s == a % 256
<1>1. p \in Nat /\ p > 0
  BY WindowPages
<1>2. a \in Nat /\ r \in Nat /\ r <= 15 /\ p - 16 * a = r
  BY <1>1
<1>3. b2 = r * 16 /\ b3 = s
  OBVIOUS
<1> HIDE DEF a, r
<1>4. b \in Nat /\ s \in Nat /\ s <= 255 /\ a - 256 * b = s
  BY <1>2
<1> HIDE DEF b, s
<1>5. p = 4096 * b + (16 * s + r) /\ 16 * s + r \in Nat /\ 16 * s + r <= 4095
  BY <1>1, <1>2, <1>4
<1>6. b4 = b
  BY <1>1, <1>4, <1>5
<1>7. b2 \div 16 = r
  BY <1>2, <1>3
<1>8. b4 * 4096 + b3 * 16 + r = p
  BY <1>1, <1>2, <1>3, <1>4, <1>5, <1>6
<1> QED BY <1>1, <1>2, <1>3, <1>7, <1>8

\* The page of a BAR is the one whose bytes were written.
LEMMA PageOf ==
  ASSUME NEW p \in Window
  PROVE  (CHOOSE q \in Window : PageBytes(q) = PageBytes(p)) = p
<1> DEFINE q == CHOOSE x \in Window : PageBytes(x) = PageBytes(p)
           b2 == (p % 16) * 16
           b3 == (p \div 16) % 256
           b4 == p \div 4096
<1>1. q \in Window /\ PageBytes(q) = PageBytes(p)
  OBVIOUS
<1> HIDE DEF q
<1>2. b2 = (q % 16) * 16 /\ b3 = (q \div 16) % 256 /\ b4 = q \div 4096
  BY <1>1 DEF PageBytes
<1>3. b4 * 4096 + b3 * 16 + b2 \div 16 = p
  <2>1. b2 = (p % 16) * 16 /\ b3 = (p \div 16) % 256 /\ b4 = p \div 4096
    OBVIOUS
  <2> HIDE DEF b2, b3, b4
  <2> QED BY <2>1, PageRoundTrip
<1> HIDE DEF b2, b3, b4
<1>4. b4 * 4096 + b3 * 16 + b2 \div 16 = q
  BY <1>1, <1>2, PageRoundTrip
<1>5. q = p
  BY <1>3, <1>4
<1> QED BY <1>5 DEF q

\* What a write leaves in register r, before the BAR's size is imposed.
Stored(c, reg, data, r) ==
  IF r \notin reg..(reg + Len(data) - 1) THEN c[r]
  ELSE IF r \in Programmable THEN data[r - reg + 1]
  ELSE IF r = CAP_MSIX + 3 THEN (data[r - reg + 1] \div 64) * 64 + (c[r] % 64)
  ELSE c[r]

\* What config_write leaves in the registers the properties read.
LEMMA Written ==
  ASSUME NEW c, NEW reg, NEW data
  PROVE  /\ ConfigWrite(c, reg, data)[BAR0] = 0
         /\ ConfigWrite(c, reg, data)[BAR0 + 1] = (Stored(c, reg, data, BAR0 + 1) \div 16) * 16
         /\ \A r \in Regs \ {BAR0, BAR0 + 1} :
              ConfigWrite(c, reg, data)[r] = Stored(c, reg, data, r)
<1> DEFINE f == [r \in Regs |-> Stored(c, reg, data, r)]
<1>1. ConfigWrite(c, reg, data) = [f EXCEPT ![BAR0] = 0, ![BAR0 + 1] = (@ \div 16) * 16]
  BY Zenon DEF ConfigWrite, Stored
<1>2. BAR0 \in Regs /\ BAR0 + 1 \in Regs /\ BAR0 # BAR0 + 1
  BY DEF Regs, BAR0
<1> HIDE DEF f
<1>3. DOMAIN f = Regs /\ \A r \in Regs : f[r] = Stored(c, reg, data, r)
  BY Zenon DEF f
<1> QED BY <1>1, <1>2, <1>3

\* The four bytes of BAR 0.
LEMMA WriteBar ==
  ASSUME NEW c, NEW b1, NEW b2, NEW b3, NEW b4
  PROVE  LET w == ConfigWrite(c, BAR0, <<b1, b2, b3, b4>>) IN
         /\ \A r \in {0, 1, 2, 3, COMMAND, CAP_MSIX + 2, CAP_MSIX + 3} : w[r] = c[r]
         /\ w[BAR0] = 0 /\ w[BAR0 + 1] = (b2 \div 16) * 16
         /\ w[BAR0 + 2] = b3 /\ w[BAR0 + 3] = b4
<1> DEFINE data == <<b1, b2, b3, b4>>
           w == ConfigWrite(c, BAR0, data)
<1>1. Len(data) = 4 /\ data[2] = b2 /\ data[3] = b3 /\ data[4] = b4
  OBVIOUS
<1> HIDE DEF data
<1>2. /\ \A r \in {0, 1, 2, 3, COMMAND, CAP_MSIX + 2, CAP_MSIX + 3} :
           r \in Regs \ {BAR0, BAR0 + 1} /\ Stored(c, BAR0, data, r) = c[r]
      /\ Stored(c, BAR0, data, BAR0 + 1) = b2
      /\ BAR0 + 2 \in Regs \ {BAR0, BAR0 + 1} /\ Stored(c, BAR0, data, BAR0 + 2) = b3
      /\ BAR0 + 3 \in Regs \ {BAR0, BAR0 + 1} /\ Stored(c, BAR0, data, BAR0 + 3) = b4
  BY <1>1 DEF Stored, Regs, Programmable, BAR0, COMMAND, CAP_MSIX, INTERRUPT_LINE
<1>3. /\ w[BAR0] = 0 /\ w[BAR0 + 1] = (Stored(c, BAR0, data, BAR0 + 1) \div 16) * 16
      /\ \A r \in Regs \ {BAR0, BAR0 + 1} : w[r] = Stored(c, BAR0, data, r)
  BY Written
<1> HIDE DEF w
<1>4. /\ \A r \in {0, 1, 2, 3, COMMAND, CAP_MSIX + 2, CAP_MSIX + 3} : w[r] = c[r]
      /\ w[BAR0] = 0 /\ w[BAR0 + 1] = (b2 \div 16) * 16
      /\ w[BAR0 + 2] = b3 /\ w[BAR0 + 3] = b4
  BY <1>2, <1>3, ZenonT(40)
<1> QED BY <1>4 DEF w, data

\* The command register.
LEMMA WriteCommand ==
  ASSUME NEW c, NEW b
  PROVE  LET w == ConfigWrite(c, COMMAND, <<b, 0>>) IN
         /\ \A r \in {0, 1, 2, 3, BAR0 + 2, BAR0 + 3, CAP_MSIX + 2, CAP_MSIX + 3} : w[r] = c[r]
         /\ w[COMMAND] = b /\ w[BAR0] = 0 /\ w[BAR0 + 1] = (c[BAR0 + 1] \div 16) * 16
<1> DEFINE data == <<b, 0>>
           w == ConfigWrite(c, COMMAND, data)
<1>1. Len(data) = 2 /\ data[1] = b
  OBVIOUS
<1> HIDE DEF data
<1>2. /\ \A r \in {0, 1, 2, 3, BAR0 + 2, BAR0 + 3, CAP_MSIX + 2, CAP_MSIX + 3} :
           r \in Regs \ {BAR0, BAR0 + 1} /\ Stored(c, COMMAND, data, r) = c[r]
      /\ Stored(c, COMMAND, data, BAR0 + 1) = c[BAR0 + 1]
      /\ COMMAND \in Regs \ {BAR0, BAR0 + 1} /\ Stored(c, COMMAND, data, COMMAND) = b
  BY <1>1 DEF Stored, Regs, Programmable, BAR0, COMMAND, CAP_MSIX, INTERRUPT_LINE
<1>3. /\ w[BAR0] = 0 /\ w[BAR0 + 1] = (Stored(c, COMMAND, data, BAR0 + 1) \div 16) * 16
      /\ \A r \in Regs \ {BAR0, BAR0 + 1} : w[r] = Stored(c, COMMAND, data, r)
  BY Written
<1> HIDE DEF w
<1>4. /\ \A r \in {0, 1, 2, 3, BAR0 + 2, BAR0 + 3, CAP_MSIX + 2, CAP_MSIX + 3} : w[r] = c[r]
      /\ w[COMMAND] = b /\ w[BAR0] = 0 /\ w[BAR0 + 1] = (c[BAR0 + 1] \div 16) * 16
  BY <1>2, <1>3, ZenonT(40)
<1> QED BY <1>4 DEF w, data

\* MSI-X message control, of which only the two top bits can be written.
LEMMA WriteMsix ==
  ASSUME NEW c, NEW b
  PROVE  LET w == ConfigWrite(c, CAP_MSIX + 2, <<255, b>>) IN
         /\ \A r \in {0, 1, 2, 3, COMMAND, BAR0 + 2, BAR0 + 3, CAP_MSIX + 2} : w[r] = c[r]
         /\ w[BAR0] = 0 /\ w[BAR0 + 1] = (c[BAR0 + 1] \div 16) * 16
         /\ w[CAP_MSIX + 3] = (b \div 64) * 64 + (c[CAP_MSIX + 3] % 64)
<1> DEFINE data == <<255, b>>
           at == CAP_MSIX + 2
           w == ConfigWrite(c, at, data)
<1>1. Len(data) = 2 /\ data[2] = b
  OBVIOUS
<1> HIDE DEF data
<1>2. /\ \A r \in {0, 1, 2, 3, COMMAND, BAR0 + 2, BAR0 + 3, CAP_MSIX + 2} :
           r \in Regs \ {BAR0, BAR0 + 1} /\ Stored(c, at, data, r) = c[r]
      /\ Stored(c, at, data, BAR0 + 1) = c[BAR0 + 1]
  BY <1>1 DEF Stored, Regs, Programmable, BAR0, COMMAND, CAP_MSIX, INTERRUPT_LINE
<1>5. /\ CAP_MSIX + 3 \in Regs \ {BAR0, BAR0 + 1}
      /\ Stored(c, at, data, CAP_MSIX + 3) = (b \div 64) * 64 + (c[CAP_MSIX + 3] % 64)
  <2> DEFINE r == CAP_MSIX + 3
  <2>1. r \in Regs \ {BAR0, BAR0 + 1} /\ r \in at..(at + Len(data) - 1)
        /\ r \notin Programmable /\ r - at + 1 = 2
    BY <1>1 DEF Regs, Programmable, BAR0, COMMAND, CAP_MSIX, INTERRUPT_LINE
  <2>2. r = CAP_MSIX + 3
    OBVIOUS
  <2> HIDE DEF at, r
  <2>3. Stored(c, at, data, r) = (data[r - at + 1] \div 64) * 64 + (c[r] % 64)
    BY <2>1, <2>2, Zenon DEF Stored
  <2>4. Stored(c, at, data, r) = (b \div 64) * 64 + (c[r] % 64)
    BY <1>1, <2>1, <2>3, Zenon
  <2> QED BY <2>1, <2>2, <2>4, Zenon
<1> HIDE DEF at
<1>3. /\ w[BAR0] = 0 /\ w[BAR0 + 1] = (Stored(c, at, data, BAR0 + 1) \div 16) * 16
      /\ \A r \in Regs \ {BAR0, BAR0 + 1} : w[r] = Stored(c, at, data, r)
  BY Written
<1> HIDE DEF w
<1>4. /\ \A r \in {0, 1, 2, 3, COMMAND, BAR0 + 2, BAR0 + 3, CAP_MSIX + 2} : w[r] = c[r]
      /\ w[BAR0] = 0 /\ w[BAR0 + 1] = (c[BAR0 + 1] \div 16) * 16
      /\ w[CAP_MSIX + 3] = (b \div 64) * 64 + (c[CAP_MSIX + 3] % 64)
  <2>1. \A r \in {0, 1, 2, 3, COMMAND, BAR0 + 2, BAR0 + 3, CAP_MSIX + 2} : w[r] = c[r]
    <3> DEFINE Kept == {0, 1, 2, 3, COMMAND, BAR0 + 2, BAR0 + 3, CAP_MSIX + 2}
    <3>1. \A r \in Kept : r \in Regs \ {BAR0, BAR0 + 1} /\ Stored(c, at, data, r) = c[r]
      BY <1>2, Zenon
    <3> HIDE DEF Kept
    <3>2. \A r \in Kept : w[r] = c[r]
      BY <1>3, <3>1, Zenon
    <3> QED BY <3>2, Zenon DEF Kept
  <2>2. w[BAR0] = 0 /\ w[BAR0 + 1] = (c[BAR0 + 1] \div 16) * 16
    BY <1>2, <1>3, <1>5, Zenon
  <2>3. w[CAP_MSIX + 3] = (b \div 64) * 64 + (c[CAP_MSIX + 3] % 64)
    BY <1>2, <1>3, <1>5, Zenon
  <2> QED BY <2>1, <2>2, <2>3, Zenon
<1> QED BY <1>4 DEF w, data, at

-----------------------------------------------------------------------------
(* What a function holds in each phase of its driver.                       *)

\* The phases in which the function's BAR holds the page its driver chose.
Used == {"assigned", "armed", "on"}

\* The configuration space c of the function in slot s is what its driver has
\* programmed in phase ph, with page pg.
Holds(s, c, ph, pg) ==
  /\ \A r \in {0, 1, 2, 3} : c[r] = BuildConfig(s)[r]
  /\ c[COMMAND] = IF ph = "on" THEN 2 ELSE 0
  /\ c[BAR0] = 0
  /\ ph \in {"sizing", "sized"} =>
       c[BAR0 + 1] = 240 /\ c[BAR0 + 2] = 255 /\ c[BAR0 + 3] = 255
  /\ ph \in Used =>
       /\ pg \in Window
       /\ c[BAR0 + 1] = PageBytes(pg)[2] /\ c[BAR0 + 2] = PageBytes(pg)[3]
       /\ c[BAR0 + 3] = PageBytes(pg)[4]
  /\ c[CAP_MSIX + 2] = NumVectors - 1
  /\ c[CAP_MSIX + 3] = IF ph \in {"armed", "on", "disabled"} THEN 128 ELSE 0

\* The bytes of a page in the window, through the mask of the BAR's size.
LEMMA Masked ==
  ASSUME NEW p \in Window
  PROVE  /\ (PageBytes(p)[2] \div 16) * 16 = PageBytes(p)[2]
         /\ PageBytes(p)[4] * 4096 + PageBytes(p)[3] * 16 + PageBytes(p)[2] \div 16 = p
         /\ p > 0 /\ PageBytes(p)[1] = 0
<1> DEFINE b2 == PageBytes(p)[2]
           b3 == PageBytes(p)[3]
           b4 == PageBytes(p)[4]
<1>1. b2 = (p % 16) * 16 /\ b3 = (p \div 16) % 256 /\ b4 = p \div 4096 /\ PageBytes(p)[1] = 0
  BY DEF PageBytes
<1> HIDE DEF b2, b3, b4
<1>2. p > 0 /\ b4 * 4096 + b3 * 16 + b2 \div 16 = p /\ (b2 \div 16) * 16 = b2
  BY <1>1, PageRoundTrip
<1> QED BY <1>1, <1>2 DEF b2, b3, b4

\* Each write of the driver's sequence takes the space from one phase to the
\* next.  Writing all ones sizes the BAR:
LEMMA Sizes ==
  ASSUME NEW s, NEW c, NEW pg, Holds(s, c, "off", pg)
  PROVE  Holds(s, ConfigWrite(c, BAR0, Ones), "sizing", pg)
<1> DEFINE w == ConfigWrite(c, BAR0, Ones)
<1>1. /\ \A r \in {0, 1, 2, 3, COMMAND, CAP_MSIX + 2, CAP_MSIX + 3} : w[r] = c[r]
      /\ w[BAR0] = 0 /\ w[BAR0 + 1] = (255 \div 16) * 16
      /\ w[BAR0 + 2] = 255 /\ w[BAR0 + 3] = 255
  BY WriteBar DEF Ones
<1>2. w[BAR0 + 1] = 240
  BY <1>1
<1> HIDE DEF w
<1>3. Holds(s, w, "sizing", pg)
  BY <1>1, <1>2 DEF Holds, Used
<1> QED BY <1>3 DEF w

\* writing the address of a page assigns it;
LEMMA Assigns ==
  ASSUME NEW s, NEW c, NEW pg, NEW p \in Window, Holds(s, c, "sized", pg)
  PROVE  Holds(s, ConfigWrite(c, BAR0, PageBytes(p)), "assigned", p)
<1> DEFINE w == ConfigWrite(c, BAR0, PageBytes(p))
           b1 == PageBytes(p)[1]
           b2 == PageBytes(p)[2]
           b3 == PageBytes(p)[3]
           b4 == PageBytes(p)[4]
<1>1. PageBytes(p) = <<b1, b2, b3, b4>>
  BY DEF PageBytes
<1>2. (b2 \div 16) * 16 = b2
  BY Masked
<1> HIDE DEF b1, b2, b3, b4
<1>3. /\ \A r \in {0, 1, 2, 3, COMMAND, CAP_MSIX + 2, CAP_MSIX + 3} : w[r] = c[r]
      /\ w[BAR0] = 0 /\ w[BAR0 + 1] = b2 /\ w[BAR0 + 2] = b3 /\ w[BAR0 + 3] = b4
  BY <1>1, <1>2, WriteBar
<1> HIDE DEF w
<1>4. Holds(s, w, "assigned", p)
  BY <1>3 DEF Holds, Used, b2, b3, b4
<1> QED BY <1>4 DEF w

\* writing the message control enables MSI-X and keeps the table size;
LEMMA Arms ==
  ASSUME NEW s, NEW c, NEW pg, Holds(s, c, "assigned", pg)
  PROVE  Holds(s, ConfigWrite(c, CAP_MSIX + 2, <<255, 128>>), "armed", pg)
<1> DEFINE w == ConfigWrite(c, CAP_MSIX + 2, <<255, 128>>)
<1>1. /\ \A r \in {0, 1, 2, 3, COMMAND, BAR0 + 2, BAR0 + 3, CAP_MSIX + 2} : w[r] = c[r]
      /\ w[BAR0] = 0 /\ w[BAR0 + 1] = (c[BAR0 + 1] \div 16) * 16
      /\ w[CAP_MSIX + 3] = (128 \div 64) * 64 + (c[CAP_MSIX + 3] % 64)
  BY WriteMsix
<1> HIDE DEF w
<1>2. w[BAR0 + 1] = c[BAR0 + 1]
  BY <1>1, Masked DEF Holds, Used
<1>3. c[CAP_MSIX + 3] = 0
  BY ZenonT(40) DEF Holds
<1>4. w[CAP_MSIX + 3] = 128
  BY <1>1, <1>3
<1>5. Holds(s, w, "armed", pg)
  BY <1>1, <1>2, <1>4 DEF Holds, Used
<1> QED BY <1>5 DEF w

\* setting the memory bit of the command register turns decoding on;
LEMMA Enables ==
  ASSUME NEW s, NEW c, NEW pg, Holds(s, c, "armed", pg)
  PROVE  Holds(s, ConfigWrite(c, COMMAND, <<2, 0>>), "on", pg)
<1> DEFINE w == ConfigWrite(c, COMMAND, <<2, 0>>)
<1>1. /\ \A r \in {0, 1, 2, 3, BAR0 + 2, BAR0 + 3, CAP_MSIX + 2, CAP_MSIX + 3} : w[r] = c[r]
      /\ w[COMMAND] = 2 /\ w[BAR0] = 0 /\ w[BAR0 + 1] = (c[BAR0 + 1] \div 16) * 16
  BY WriteCommand, ZenonT(40)
<1> HIDE DEF w
<1>2. w[BAR0 + 1] = c[BAR0 + 1]
  BY <1>1, Masked DEF Holds, Used
<1>3. Holds(s, w, "on", pg)
  BY <1>1, <1>2 DEF Holds, Used
<1> QED BY <1>3 DEF w

\* clearing it turns decoding off;
LEMMA Disables ==
  ASSUME NEW s, NEW c, NEW pg, Holds(s, c, "on", pg)
  PROVE  Holds(s, ConfigWrite(c, COMMAND, <<0, 0>>), "disabled", pg)
<1> DEFINE w == ConfigWrite(c, COMMAND, <<0, 0>>)
<1>1. /\ \A r \in {0, 1, 2, 3, BAR0 + 2, BAR0 + 3, CAP_MSIX + 2, CAP_MSIX + 3} : w[r] = c[r]
      /\ w[COMMAND] = 0 /\ w[BAR0] = 0
  BY WriteCommand
<1> HIDE DEF w
<1>2. Holds(s, w, "disabled", pg)
  BY <1>1 DEF Holds, Used
<1> QED BY <1>2 DEF w

\* clearing the message control disables MSI-X.
LEMMA Disarms ==
  ASSUME NEW s, NEW c, NEW pg, Holds(s, c, "disabled", pg)
  PROVE  Holds(s, ConfigWrite(c, CAP_MSIX + 2, <<255, 0>>), "off", pg)
<1> DEFINE w == ConfigWrite(c, CAP_MSIX + 2, <<255, 0>>)
<1>1. /\ \A r \in {0, 1, 2, 3, COMMAND, BAR0 + 2, BAR0 + 3, CAP_MSIX + 2} : w[r] = c[r]
      /\ w[BAR0] = 0 /\ w[CAP_MSIX + 3] = (0 \div 64) * 64 + (c[CAP_MSIX + 3] % 64)
  BY WriteMsix
<1> HIDE DEF w
<1>2. c[CAP_MSIX + 3] = 128
  BY ZenonT(40) DEF Holds
<1>3. w[CAP_MSIX + 3] = 0
  BY <1>1, <1>2
<1>4. Holds(s, w, "off", pg)
  BY <1>1, <1>3 DEF Holds, Used
<1> QED BY <1>4 DEF w

-----------------------------------------------------------------------------
(* The configuration ports.                                                 *)

\* The phases of a driver.
Phases == {"off", "sizing", "sized", "assigned", "armed", "on", "disabled"}

\* The access o is what the driver of a function in phase ph does next.
Programs(ph, o) ==
  \/ ph = "sizing" /\ o.to = "sized" /\ o.reg = BAR0 /\ o.byte = 0 /\ o.data = <<>>
  \/ ph = "off" /\ o.to = "sizing" /\ o.reg = BAR0 /\ o.byte = 0 /\ o.data = Ones
  \/ /\ ph = "sized" /\ o.to = "assigned" /\ o.reg = BAR0 /\ o.byte = 0
     /\ \E p \in Window : o.data = PageBytes(p)
  \/ ph = "assigned" /\ o.to = "armed" /\ o.reg = CAP_MSIX /\ o.byte = 2 /\ o.data = <<255, 128>>
  \/ ph = "armed" /\ o.to = "on" /\ o.reg = COMMAND /\ o.byte = 0 /\ o.data = <<2, 0>>
  \/ ph = "on" /\ o.to = "disabled" /\ o.reg = COMMAND /\ o.byte = 0 /\ o.data = <<0, 0>>
  \/ ph = "disabled" /\ o.to = "off" /\ o.reg = CAP_MSIX /\ o.byte = 2 /\ o.data = <<255, 0>>

\* The access o reads a slot's vendor and device.
Identifies(o) == o.to = "same" /\ o.reg = 0 /\ o.byte = 0 /\ o.data = <<>>

\* The access o is one the guest makes to where there is no function.
Tries(o) ==
  /\ o.to = "same" /\ o.byte = 0
  /\ (o.reg = 0 /\ o.data = <<>>) \/ (o.reg = COMMAND /\ o.data = <<2, 0>>)

\* The access under way is one the guest makes, and the latch holds its address.
OpInv ==
  cpc # "idle" =>
    /\ op.place \in {Home} \cup Elsewhere /\ op.slot \in Present \cup {EmptySlot}
    /\ configAddress =
         <<op.reg, op.slot * 8 + op.place.function, op.place.bus, op.place.enable>>
    /\ op.place = Home =>
         Identifies(op) \/ (op.slot \in Slots /\ Programs(phase[op.slot], op))
    /\ op.place # Home => Tries(op)

\* The phase and the page a function has reached, an access that has taken effect
\* included.
Reached(s) ==
  IF cpc = "returned" /\ op.slot = s /\ op.to # "same" THEN op.to ELSE phase[s]
\* The page the BAR of s holds, the write that has just been done included.
Given(s) ==
  IF cpc = "returned" /\ op.slot = s /\ op.to = "assigned"
  THEN CHOOSE p \in Window : PageBytes(p) = op.data ELSE page[s]

\* The types the argument needs.
PciTypes ==
  /\ phase \in [Slots -> Phases] /\ page \in [Slots -> Nat]
  /\ cpc \in {"idle", "addressed", "returned"} /\ DOMAIN config = Present

\* The inductive invariant of the configuration mechanism.
PciInv ==
  /\ PciTypes /\ OpInv
  /\ config[0] = HostBridge
  /\ \A s \in Slots : Holds(s, config[s], Reached(s), Given(s))
  /\ ConfigReadIsRight

\* A write the driver of s makes next programs its phase.
LEMMA GuestWrite ==
  ASSUME PciTypes, NEW s \in Slots, NEW g \in GuestWrites(s)
  PROVE  Programs(phase[s], g)
<1>0. phase[s] \in Phases
  BY DEF PciTypes
<1>1. CASE phase[s] = "off"
  <2>1. g = Access(BAR0, 0, Ones, "sizing")
    BY <1>1 DEF GuestWrites
  <2> QED BY <1>1, <2>1 DEF Access, Programs
<1>2. CASE phase[s] = "sized"
  <2>1. PICK p \in Window \ {page[t] : t \in InUse} : g = Access(BAR0, 0, PageBytes(p), "assigned")
    BY <1>2 DEF GuestWrites
  <2>2. g.to = "assigned" /\ g.reg = BAR0 /\ g.byte = 0 /\ g.data = PageBytes(p)
    BY <2>1 DEF Access
  <2> QED BY <1>2, <2>1, <2>2, ZenonT(40) DEF Programs
<1>3. CASE phase[s] = "assigned"
  <2>1. g = Access(CAP_MSIX, 2, <<255, 128>>, "armed")
    BY <1>3 DEF GuestWrites
  <2> QED BY <1>3, <2>1 DEF Access, Programs
<1>4. CASE phase[s] = "armed"
  <2>1. g = Access(COMMAND, 0, <<2, 0>>, "on")
    BY <1>4 DEF GuestWrites
  <2> QED BY <1>4, <2>1 DEF Access, Programs
<1>5. CASE phase[s] = "on"
  <2>1. g = Access(COMMAND, 0, <<0, 0>>, "disabled")
    BY <1>5 DEF GuestWrites
  <2> QED BY <1>5, <2>1 DEF Access, Programs
<1>6. CASE phase[s] = "disabled"
  <2>1. g = Access(CAP_MSIX, 2, <<255, 0>>, "off")
    BY <1>6 DEF GuestWrites
  <2> QED BY <1>6, <2>1 DEF Access, Programs
<1>7. CASE phase[s] = "sizing"
  BY <1>7 DEF GuestWrites
<1> QED BY <1>0, <1>1, <1>2, <1>3, <1>4, <1>5, <1>6, <1>7 DEF Phases

\* A read identifies a slot, or reads back the size of a BAR being sized.
LEMMA GuestRead ==
  ASSUME NEW s, NEW g \in GuestReads(s)
  PROVE  Identifies(g) \/ (s \in Slots /\ Programs(phase[s], g))
BY DEF GuestReads, Access, Identifies, Programs

\* What the guest makes of an address away from the functions.
LEMMA GuestProbe ==
  ASSUME NEW g \in Probes
  PROVE  Tries(g)
BY DEF Probes, Access, Tries

\* The access under way stays the one it is while neither it nor its driver moves.
LEMMA OpStays ==
  ASSUME OpInv, UNCHANGED <<configAddress, op, phase>>, cpc' # "idle" => cpc # "idle"
  PROVE  OpInv'
<1>1. configAddress' = configAddress /\ op' = op /\ phase' = phase
  OBVIOUS
<1> QED BY <1>1, Zenon DEF OpInv

\* Writing the address latch keeps the invariant: nothing is programmed yet.
LEMMA WriteAddressKeeps == PciInv /\ WriteAddress => PciInv'
<1> SUFFICES ASSUME PciInv, WriteAddress PROVE PciInv'
  OBVIOUS
<1> DEFINE Intended(s, place) ==
      IF place = Home
      THEN GuestReads(s) \cup (IF s \in Slots THEN GuestWrites(s) ELSE {})
      ELSE IF s \in Slots THEN Probes ELSE {}
<1>0. PICK s \in Present \cup {EmptySlot}, place \in {Home} \cup Elsewhere :
        \E g \in Intended(s, place) :
          /\ op' = [place |-> place, slot |-> s, reg |-> g.reg, byte |-> g.byte,
                    data |-> g.data, to |-> g.to]
          /\ LatchWrite(0, <<g.reg, s * 8 + place.function, place.bus, place.enable>>)
  BY Zenon DEF WriteAddress
<1>1. PICK g \in Intended(s, place) :
          /\ op' = [place |-> place, slot |-> s, reg |-> g.reg, byte |-> g.byte,
                    data |-> g.data, to |-> g.to]
          /\ LatchWrite(0, <<g.reg, s * 8 + place.function, place.bus, place.enable>>)
  BY <1>0, Zenon
<1>2. cpc = "idle" /\ cpc' = "addressed" /\ config' = config /\ phase' = phase /\ page' = page
  BY DEF WriteAddress, guest
<1>3. PciTypes
  BY DEF PciInv
<1>4. /\ op'.place = place /\ op'.slot = s /\ op'.reg = g.reg /\ op'.byte = g.byte
      /\ op'.data = g.data /\ op'.to = g.to
  BY <1>1
<1>5. configAddress' =
        <<op'.reg, op'.slot * 8 + op'.place.function, op'.place.bus, op'.place.enable>>
  <2> DEFINE a == g.reg
             b == s * 8 + place.function
             c == place.bus
             d == place.enable
  <2>1. LatchWrite(0, <<a, b, c, d>>)
    BY <1>1, Zenon
  <2> HIDE DEF a, b, c, d
  <2>2. configAddress' = <<a, b, c, d>>
    BY <2>1 DEF LatchWrite
  <2> QED BY <1>4, <2>2, Zenon DEF a, b, c, d
<1>6. /\ place = Home => Identifies(g) \/ (s \in Slots /\ Programs(phase[s], g))
      /\ place # Home => Tries(g)
  <2>1. CASE place = Home
    <3>1. g \in GuestReads(s) \/ (s \in Slots /\ g \in GuestWrites(s))
      BY <1>1, <2>1, Zenon
    <3> QED BY <1>3, <2>1, <3>1, GuestRead, GuestWrite, Zenon
  <2>2. CASE place # Home
    <3>1. g \in Probes
      BY <1>1, <2>2, Zenon
    <3> QED BY <2>2, <3>1, GuestProbe, Zenon
  <2> QED BY <2>1, <2>2
<1> HIDE DEF Intended
<1>7. PciTypes'
  BY <1>2, <1>3, Zenon DEF PciTypes
<1>8. OpInv'
  <2>1. ASSUME NEW ph PROVE Programs(ph, g) => Programs(ph, op')
    BY <1>4 DEF Programs
  <2>2. (Identifies(g) => Identifies(op')) /\ (Tries(g) => Tries(op'))
    BY <1>4, Zenon DEF Identifies, Tries
  <2>3. Programs(phase[s], g) => Programs(phase'[s], op')
    BY <1>2, <2>1, Zenon
  <2>4. /\ op'.place = Home => Identifies(op') \/ (op'.slot \in Slots /\ Programs(phase'[op'.slot], op'))
        /\ op'.place # Home => Tries(op')
    BY <1>4, <1>6, <2>2, <2>3, Zenon
  <2>5. op'.place \in {Home} \cup Elsewhere /\ op'.slot \in Present \cup {EmptySlot}
    BY <1>0, <1>4, Zenon
  <2> QED BY <1>5, <2>4, <2>5, Zenon DEF OpInv
<1>9. ASSUME NEW t \in Slots PROVE Holds(t, config[t], Reached(t), Given(t))'
  <2>1. /\ Reached(t)' = phase[t] /\ Given(t)' = page[t]
        /\ Reached(t) = phase[t] /\ Given(t) = page[t]
    BY <1>2 DEF Reached, Given
  <2>2. Holds(t, config[t], phase[t], page[t])
    BY <2>1 DEF PciInv
  <2> QED BY <1>2, <2>1, <2>2 DEF Holds
<1>10. ConfigReadIsRight'
  BY <1>2 DEF ConfigReadIsRight
<1> QED BY <1>2, <1>7, <1>8, <1>9, <1>10, Zenon DEF PciInv

\* The parts of an address away from the functions.
LEMMA Away ==
  ASSUME NEW p \in Elsewhere
  PROVE  /\ p.enable < 128 \/ p.bus # 0 \/ p.function = 7
         /\ p.function \in {0, 7} /\ p # Home
BY DEF Elsewhere, Home

\* The latch selects the register the guest addressed, if there is a function.
LEMMA Selects ==
  ASSUME OpInv, cpc = "addressed"
  PROVE  /\ Selected(op.byte).found <=> op.place = Home
         /\ op.place = Home =>
              Selected(op.byte).slot = op.slot /\ Selected(op.byte).reg = op.reg + op.byte
<1> DEFINE f == op.place.function
           b == op.slot * 8 + f
           c == op.place.bus
           d == op.place.enable
<1>1. /\ configAddress = <<op.reg, b, c, d>> /\ op.slot \in Present \cup {EmptySlot}
      /\ op.place \in {Home} \cup Elsewhere
  BY Zenon DEF OpInv
<1>2. op.slot \in Nat
  BY <1>1, Slot
<1>3. op.place = Home => f = 0 /\ c = 0 /\ d = 128
  BY DEF Home
<1>4. op.place # Home => (d < 128 \/ c # 0 \/ f = 7) /\ f \in {0, 7}
  BY <1>1, Away, Zenon
<1> HIDE DEF f
<1>5. (f = 0 => b \div 8 = op.slot /\ b % 8 = 0) /\ (f = 7 => b % 8 = 7)
  BY <1>2
<1> HIDE DEF b, c, d
<1>6. /\ Selected(op.byte).found <=> d >= 128 /\ c = 0 /\ b % 8 = 0
      /\ Selected(op.byte).slot = b \div 8
      /\ Selected(op.byte).reg = (op.reg \div 4) * 4 + op.byte
  BY <1>1 DEF Selected
<1>7. Selected(op.byte).found <=> op.place = Home
  <2>1. CASE op.place = Home
    BY <1>3, <1>5, <1>6, <2>1
  <2>2. CASE op.place # Home
    <3>1. c # 0 \/ b % 8 # 0 \/ d \in {0}
      BY <1>1, <1>4, <1>5, <2>2 DEF Elsewhere, Home, c, d
    <3> QED BY <1>6, <2>2, <3>1
  <2> QED BY <2>1, <2>2
<1>8. ASSUME op.place = Home
      PROVE  Selected(op.byte).slot = op.slot /\ Selected(op.byte).reg = op.reg + op.byte
  <2>1. Identifies(op) \/ Programs(phase[op.slot], op)
    BY <1>8 DEF OpInv
  <2>2. (op.reg \in {0, 4, 16} /\ op.byte = 0) \/ (op.reg = 132 /\ op.byte = 2)
    BY <2>1 DEF Identifies, Programs, BAR0, COMMAND, CAP_MSIX
  <2>3. (op.reg \div 4) * 4 + op.byte = op.reg + op.byte
    BY <2>2
  <2> QED BY <1>3, <1>5, <1>6, <1>8, <2>3
<1> QED BY <1>7, <1>8

\* An access that finds no function leaves the spaces as they are and reads 0xff.
LEMMA NothingThere ==
  ASSUME PciInv, DataAccess, op.place # Home
  PROVE  PciInv'
<1>1. /\ cpc = "addressed" /\ cpc' = "returned"
      /\ UNCHANGED <<configAddress, op, phase, page>>
  BY DEF DataAccess, guest
<1>2. ~Selected(op.byte).found
  BY <1>1, Selects DEF PciInv
<1>3. config' = config /\ (op.data = <<>> => value' = Ones)
  BY <1>2, Zenon DEF DataAccess
<1>4. op.to = "same"
  BY <1>1, Zenon DEF PciInv, OpInv, Tries
<1>5. PciTypes'
  BY <1>1, <1>3 DEF PciInv, PciTypes
<1>6. OpInv'
  BY <1>1, OpStays DEF PciInv
<1>7. ConfigReadIsRight'
  BY <1>1, <1>3, Zenon DEF ConfigReadIsRight
<1>8. ASSUME NEW t \in Slots PROVE Holds(t, config[t], Reached(t), Given(t))'
  <2>1. Reached(t)' = Reached(t) /\ Given(t)' = Given(t)
    BY <1>1, <1>4 DEF Reached, Given
  <2> QED BY <1>3, <2>1 DEF PciInv, Holds
<1> QED BY <1>3, <1>5, <1>6, <1>7, <1>8 DEF PciInv

\* The data access programs the function that the latch selects, as its driver
\* means it, and no other.
LEMMA DataAccessKeeps == PciInv /\ DataAccess => PciInv'
<1> SUFFICES ASSUME PciInv, DataAccess, op.place = Home PROVE PciInv'
  BY NothingThere
<1> PICK s, at : s = op.slot /\ at = op.reg + op.byte
  OBVIOUS
<1>0. /\ cpc = "addressed" /\ cpc' = "returned"
      /\ UNCHANGED <<configAddress, op, phase, page>>
  BY DEF DataAccess, guest
<1>1. Selected(op.byte).found /\ Selected(op.byte).slot = s /\ Selected(op.byte).reg = at
  BY <1>0, Selects DEF PciInv
<1>2. PciTypes /\ OpInv /\ s \in Present \cup {EmptySlot}
      /\ (Identifies(op) \/ (s \in Slots /\ Programs(phase[s], op)))
  BY <1>0 DEF PciInv, OpInv
<1>3. CASE op.data = <<>>
  <2>1. config' = config /\ value' = IF s \in Present THEN ConfigRead(config[s], at, 4) ELSE Ones
    BY <1>1, <1>3, ZenonT(40) DEF DataAccess
  <2>2. \/ Identifies(op)
        \/ /\ s \in Slots /\ phase[s] = "sizing"
           /\ op.to = "sized" /\ op.reg = BAR0 /\ op.byte = 0
    BY <1>2, <1>3 DEF Programs, Ones, PageBytes
  <2>3. ASSUME NEW t \in Slots PROVE Holds(t, config[t], Reached(t), Given(t))'
    <3>1. Reached(t) = phase[t] /\ Given(t) = page[t] /\ Given(t)' = page[t]
      BY <1>0, <2>2 DEF Reached, Given, Identifies
    <3>2. Reached(t)' = phase[t] \/ (phase[t] = "sizing" /\ Reached(t)' = "sized")
      BY <1>0, <2>2 DEF Reached, Identifies
    <3>3. Holds(t, config[t], phase[t], page[t])
      BY <3>1 DEF PciInv
    <3>4. Holds(t, config[t], Reached(t)', page[t])
      BY <3>2, <3>3 DEF Holds, Used
    <3> QED BY <2>1, <3>1, <3>4 DEF Holds
  <2>4. ConfigReadIsRight'
    <3>1. CASE s = EmptySlot
      <4>1. s \notin Present
        BY <3>1, PciAccessAssumption DEF Present
      <4>2. op.slot = EmptySlot /\ op.slot # 0 /\ op.slot \notin Slots
        BY <3>1, PciAccessAssumption
      <4>3. value' = Ones
        BY <2>1, <4>1, Zenon
      <4> QED BY <1>0, <4>2, <4>3 DEF ConfigReadIsRight
    <3>2. CASE s # EmptySlot /\ Identifies(op)
      <4>1. at = 0 /\ op.reg = 0
        BY <3>2 DEF Identifies
      <4>2. s \in Present /\ value' = [i \in 1..4 |-> config[s][i - 1]]
        BY <1>2, <2>1, <3>2, <4>1 DEF ConfigRead
      <4>3. CASE s = 0
        <5>1. /\ config[s][0] = 134 /\ config[s][1] = 128
              /\ config[s][2] = 55 /\ config[s][3] = 18
          BY <4>3 DEF PciInv, HostBridge, Regs
        <5>2. value' = <<134, 128, 55, 18>>
          BY <4>2, <5>1
        <5>3. op.slot = 0 /\ op.slot # EmptySlot /\ op.slot \notin Slots
          BY <3>2, <4>3, PciAccessAssumption
        <5> QED BY <1>0, <5>2, <5>3 DEF ConfigReadIsRight
      <4>4. CASE s # 0
        <5>1. s \in Slots
          BY <4>2, <4>4 DEF Present
        <5>2. \A r \in {0, 1, 2, 3} : config[s][r] = BuildConfig(s)[r]
          BY <5>1 DEF PciInv, Holds
        <5>3. /\ config[s][0] = 244 /\ config[s][1] = 26
              /\ config[s][2] = (IF s = 1 THEN 68 ELSE 66) /\ config[s][3] = 16
          BY <5>2 DEF BuildConfig, Regs, VIRTIO_PCI_VENDOR, VirtioId, CAP_MSIX, INTERRUPT_LINE
        <5>4. value' = <<244, 26, IF s = 1 THEN 68 ELSE 66, 16>>
          BY <4>2, <5>3
        <5>5. value' = VIRTIO_PCI_VENDOR \o <<IF s = 1 THEN 68 ELSE 66, 16>>
          BY <5>4 DEF VIRTIO_PCI_VENDOR
        <5> QED BY <1>0, <3>2, <4>1, <4>4, <5>1, <5>5 DEF ConfigReadIsRight
      <4> QED BY <4>3, <4>4
    <3>3. CASE /\ s # EmptySlot /\ s \in Slots /\ phase[s] = "sizing"
               /\ op.to = "sized" /\ op.reg = BAR0 /\ op.byte = 0
      <4>1. at = 16 /\ s \in Present /\ s # 0 /\ op.reg # 0
        BY <1>2, <3>3, Slot DEF BAR0, Present
      <4>2. value' = [i \in 1..4 |-> config[s][16 + i - 1]]
        BY <2>1, <4>1 DEF ConfigRead
      <4>3. Reached(s) = "sizing"
        BY <1>0, <3>3 DEF Reached
      <4>4. /\ config[s][16] = 0 /\ config[s][17] = 240
            /\ config[s][18] = 255 /\ config[s][19] = 255
        BY <3>3, <4>3 DEF PciInv, Holds, BAR0
      <4>5. value' = <<0, 240, 255, 255>>
        BY <4>2, <4>4
      <4> QED BY <1>0, <3>3, <4>1, <4>5 DEF ConfigReadIsRight
    <3> QED BY <2>2, <3>1, <3>2, <3>3
  <2>5. OpInv'
    BY <1>0, OpStays DEF PciInv
  <2> QED BY <1>0, <2>1, <2>3, <2>4, <2>5 DEF PciInv, PciTypes
<1>4. CASE op.data # <<>>
  <2>1. s \in Slots /\ Programs(phase[s], op) /\ op.to # "same" /\ op.to # "sized"
    BY <1>2, <1>4 DEF Identifies, Programs
  <2>2. /\ config' = [config EXCEPT ![s] = ConfigWrite(config[s], at, op.data)]
        /\ value' = value
    BY <1>1, <1>4, <2>1, Zenon DEF DataAccess
  <2>3. /\ config'[s] = ConfigWrite(config[s], at, op.data) /\ DOMAIN config' = Present
        /\ \A t \in Present : t # s => config'[t] = config[t]
    BY <1>2, <2>1, <2>2 DEF PciTypes, Present
  <2>4. Holds(s, config[s], phase[s], page[s])
    <3>1. Reached(s) = phase[s] /\ Given(s) = page[s]
      BY <1>0 DEF Reached, Given
    <3> QED BY <2>1, <3>1 DEF PciInv
  <2>5. Reached(s)' = op.to
    BY <1>0, <2>1 DEF Reached
  <2>6. Holds(s, config'[s], op.to, Given(s)')
    <3>1. CASE op.to = "assigned"
      <4>1. PICK p \in Window : op.data = PageBytes(p)
        BY <2>1, <3>1 DEF Programs
      <4>2. Given(s)' = p
        <5>1. Given(s)' = CHOOSE q \in Window : PageBytes(q) = PageBytes(p)
          BY <1>0, <3>1, <4>1 DEF Given
        <5> QED BY <5>1, PageOf
      <4>3. phase[s] = "sized" /\ at = BAR0
        BY <2>1, <3>1 DEF Programs, BAR0
      <4> QED BY <2>3, <2>4, <3>1, <4>1, <4>2, <4>3, Assigns
    <3>2. CASE op.to # "assigned"
      <4>0. Given(s)' = page[s]
        BY <1>0, <3>2 DEF Given
      <4>1. CASE phase[s] = "off" /\ op.to = "sizing" /\ at = BAR0 /\ op.data = Ones
        BY <2>3, <2>4, <4>0, <4>1, Sizes
      <4>2. CASE phase[s] = "assigned" /\ op.to = "armed" /\ at = CAP_MSIX + 2
              /\ op.data = <<255, 128>>
        BY <2>3, <2>4, <4>0, <4>2, Arms
      <4>3. CASE phase[s] = "armed" /\ op.to = "on" /\ at = COMMAND /\ op.data = <<2, 0>>
        BY <2>3, <2>4, <4>0, <4>3, Enables
      <4>4. CASE phase[s] = "on" /\ op.to = "disabled" /\ at = COMMAND /\ op.data = <<0, 0>>
        BY <2>3, <2>4, <4>0, <4>4, Disables
      <4>5. CASE phase[s] = "disabled" /\ op.to = "off" /\ at = CAP_MSIX + 2 /\ op.data = <<255, 0>>
        BY <2>3, <2>4, <4>0, <4>5, Disarms
      <4> QED BY <2>1, <3>2, <4>1, <4>2, <4>3, <4>4, <4>5 DEF Programs, BAR0, COMMAND
    <3> QED BY <3>1, <3>2
  <2>7. ASSUME NEW t \in Slots PROVE Holds(t, config[t], Reached(t), Given(t))'
    <3>1. CASE t = s
      BY <2>5, <2>6, <3>1 DEF Holds
    <3>2. CASE t # s
      <4>1. Reached(t)' = Reached(t) /\ Given(t)' = Given(t) /\ config'[t] = config[t]
        BY <1>0, <2>3, <3>2 DEF Reached, Given, Present
      <4> QED BY <4>1 DEF PciInv, Holds
    <3> QED BY <3>1, <3>2
  <2>8. config'[0] = config[0]
    BY <2>1, <2>3, PciAccessAssumption DEF Present
  <2>9. ConfigReadIsRight'
    BY <1>0, <1>4 DEF ConfigReadIsRight
  <2>10. PciTypes'
    BY <1>0, <2>3 DEF PciInv, PciTypes
  <2>11. OpInv'
    BY <1>0, OpStays DEF PciInv
  <2> QED BY <2>7, <2>8, <2>9, <2>10, <2>11 DEF PciInv
<1> QED BY <1>3, <1>4

\* When the access returns, the driver's phase and page catch up with the space.
LEMMA ConfigDoneKeeps == PciInv /\ ConfigDone => PciInv'
<1> SUFFICES ASSUME PciInv, ConfigDone PROVE PciInv'
  OBVIOUS
<1>0. cpc = "returned" /\ cpc' = "idle" /\ config' = config
  BY DEF ConfigDone
<1>1. /\ PciTypes /\ OpInv /\ op.slot \in Present \cup {EmptySlot}
      /\ op.to = "same" \/ (op.slot \in Slots /\ Programs(phase[op.slot], op))
  BY <1>0, Zenon DEF PciInv, OpInv, Identifies, Tries
<1>2. op.to = "same" \/ (op.to \in Phases /\ op.slot \in Slots)
  BY <1>1 DEF Programs, Phases
<1>3. \A t \in Slots : phase'[t] = Reached(t) /\ page'[t] = Given(t)
  BY <1>0, <1>1, <1>2 DEF ConfigDone, Reached, Given, PciTypes
<1>4. ASSUME op.to = "assigned" PROVE Given(op.slot) \in Window
  <2>1. PICK p \in Window : op.data = PageBytes(p)
    BY <1>1, <1>4 DEF Programs
  <2>2. Given(op.slot) = p
    BY <1>0, <1>4, <2>1, PageOf DEF Given
  <2> QED BY <2>2
<1>5. PciTypes'
  <2>1. phase' \in [Slots -> Phases]
    BY <1>1, <1>2 DEF ConfigDone, PciTypes
  <2>2. page' \in [Slots -> Nat]
    <3>1. op.to = "assigned" => Given(op.slot) \in Nat
      BY <1>4, WindowPages
    <3>2. op.to = "assigned" => page' = [page EXCEPT ![op.slot] = Given(op.slot)]
      BY <1>0 DEF ConfigDone, Given
    <3>3. op.to # "assigned" => page' = page
      BY DEF ConfigDone
    <3> QED BY <1>1, <3>1, <3>2, <3>3 DEF PciTypes
  <2> QED BY <1>0, <1>1, <2>1, <2>2 DEF PciTypes
<1>6. ASSUME NEW t \in Slots PROVE Holds(t, config[t], Reached(t), Given(t))'
  <2>1. Reached(t)' = Reached(t) /\ Given(t)' = Given(t)
    BY <1>0, <1>3 DEF Reached, Given
  <2> QED BY <1>0, <2>1 DEF PciInv, Holds
<1> QED BY <1>0, <1>5, <1>6 DEF PciInv, OpInv, ConfigReadIsRight

\* The BAR and the command register of a function, read as PciAccess reads them.
LEMMA Decoded ==
  ASSUME NEW s, NEW c, NEW ph, NEW pg, Holds(s, c, ph, pg)
  PROVE  /\ MemEnabled(c) <=> ph = "on"
         /\ ph \in Used => BarPage(c) = pg /\ pg \in Window /\ pg # 0
<1>1. c[COMMAND] = IF ph = "on" THEN 2 ELSE 0
  BY DEF Holds
<1>2. MemEnabled(c) <=> ph = "on"
  BY <1>1 DEF MemEnabled
<1>3. ASSUME ph \in Used PROVE BarPage(c) = pg /\ pg \in Window /\ pg # 0
  <2>1. /\ pg \in Window /\ c[BAR0 + 1] = PageBytes(pg)[2]
        /\ c[BAR0 + 2] = PageBytes(pg)[3] /\ c[BAR0 + 3] = PageBytes(pg)[4]
    BY <1>3 DEF Holds
  <2>2. PageBytes(pg)[4] * 4096 + PageBytes(pg)[3] * 16 + PageBytes(pg)[2] \div 16 = pg /\ pg # 0
    BY <2>1, Masked, WindowPages
  <2> QED BY <2>1, <2>2 DEF BarPage
<1> QED BY <1>2, <1>3

\* The invariant says nothing of the dispatcher's state.
LEMMA Untouched ==
  PciInv /\ UNCHANGED <<configAddress, config, access, guest>> => PciInv'
<1> SUFFICES ASSUME PciInv, UNCHANGED <<configAddress, config, op, value, cpc, phase, page>>
             PROVE  PciInv'
  BY DEF access, guest
<1>2. PciTypes' /\ ConfigReadIsRight'
  BY DEF PciInv, PciTypes, ConfigReadIsRight
<1>3. OpInv'
  BY OpStays DEF PciInv
<1>4. ASSUME NEW s \in Slots PROVE Holds(s, config[s], Reached(s), Given(s))'
  <2>1. Reached(s)' = Reached(s) /\ Given(s)' = Given(s)
    BY DEF Reached, Given
  <2> QED BY <2>1 DEF PciInv, Holds
<1> QED BY <1>2, <1>3, <1>4 DEF PciInv

\* A freshly built root has every function off.
LEMMA PciInit == Init => PciInv
<1> SUFFICES ASSUME Init PROVE PciInv
  OBVIOUS
<1>1. /\ cpc = "idle" /\ DOMAIN config = Present /\ config[0] = HostBridge
      /\ \A s \in Slots : config[s] = BuildConfig(s) /\ phase[s] = "off"
      /\ phase \in [Slots -> Phases] /\ page \in [Slots -> Nat]
  BY PciAccessAssumption DEF Init, Present, Phases
<1>3. ASSUME NEW s \in Slots PROVE Holds(s, config[s], Reached(s), Given(s))
  <2>1. Reached(s) = "off" /\ config[s] = BuildConfig(s)
    BY <1>1 DEF Reached
  <2>2. /\ BuildConfig(s)[4] = 0 /\ BuildConfig(s)[16] = 0
        /\ BuildConfig(s)[134] = 1 /\ BuildConfig(s)[135] = 0
    BY DEF BuildConfig, Regs, BAR0, CAP_MSIX, INTERRUPT_LINE, NumVectors
  <2> QED BY <2>1, <2>2 DEF Holds, Used, COMMAND, BAR0, CAP_MSIX, NumVectors
<1> QED BY <1>1, <1>3 DEF PciInv, PciTypes, OpInv, ConfigReadIsRight

\* Every step keeps the invariant.
LEMMA PciStep == PciInv /\ [Next]_vars => PciInv'
<1>1. Dispatcher \/ StartAccess \/ UNCHANGED vars
      => UNCHANGED <<configAddress, config, access, guest>>
  BY Zenon DEF Dispatcher, StartAccess, Route, NoRoute, BeginAccess, EndAccess, ReturnAccess, vars
<1> QED BY <1>1, WriteAddressKeeps, DataAccessKeeps, ConfigDoneKeeps, Untouched, Zenon DEF Next

\* A configuration read is answered by the register it was addressed to, for any
\* slots of the functions and any window.
THEOREM ConfigReadCorrect == Spec => []ConfigReadIsRight
<1>1. PciInv => ConfigReadIsRight
  BY DEF PciInv
<1> QED BY <1>1, PciInit, PciStep, PTL DEF Spec

\* What a function holds is what its driver programmed, whatever is done meanwhile
\* to the other functions and where there is none.
THEOREM FunctionsCorrect == Spec => []FunctionsAreIndependent
<1>1. PciInv => FunctionsAreIndependent
  <2> SUFFICES ASSUME PciInv, NEW s \in Slots,
                      cpc = "idle" \/ op.slot # s \/ op.place # Home
               PROVE  /\ MemEnabled(config[s]) <=> phase[s] = "on"
                      /\ s \in InUse => BarPage(config[s]) = page[s]
                      /\ config[s][CAP_MSIX + 3] =
                           IF phase[s] \in {"armed", "on", "disabled"} THEN 128 ELSE 0
                      /\ config[s][CAP_MSIX + 2] = NumVectors - 1
    BY Zenon DEF FunctionsAreIndependent
  <2>1. Reached(s) = phase[s] /\ Given(s) = page[s]
    BY DEF Reached, Given, PciInv, OpInv, Tries
  <2>2. Holds(s, config[s], phase[s], page[s])
    BY <2>1 DEF PciInv
  <2>3. /\ MemEnabled(config[s]) <=> phase[s] = "on"
        /\ s \in InUse => BarPage(config[s]) = page[s]
    <3>1. s \in InUse => phase[s] \in Used
      BY DEF InUse, Used
    <3> QED BY <2>2, <3>1, Decoded, Zenon
  <2>4. /\ config[s][CAP_MSIX + 3] =
             IF phase[s] \in {"armed", "on", "disabled"} THEN 128 ELSE 0
        /\ config[s][CAP_MSIX + 2] = NumVectors - 1
    BY <2>1, <2>2 DEF Holds
  <2> QED BY <2>3, <2>4
<1> QED BY <1>1, PciInit, PciStep, PTL DEF Spec

-----------------------------------------------------------------------------
(* The dispatcher.                                                          *)

\* The inductive invariant of the dispatcher: what decodes the page now decoded it
\* at some time of the access, what has decoded it all along still does, and route
\* has still to look at all of the latter.
BarInv ==
  /\ mpc \in {"idle", "scan", "routed", "access", "done"}
  /\ mpc # "idle" =>
       mmio \in Window /\ always \subseteq Decoding(config, mmio)
                       /\ Decoding(config, mmio) \subseteq ever
  /\ mpc \in {"idle", "scan"} => target = NoOne
  /\ mpc = "scan" => scan \subseteq Slots /\ always \subseteq scan
  /\ mpc \in {"routed", "access"} => target # NoOne
  /\ mpc # "idle" /\ target # NoOne => target \in ever
  /\ mpc = "done" /\ target = NoOne => always = {}
  /\ mpc = "access" => offset \in Offsets

\* A function's BAR covers the page exactly if it decodes it.
LEMMA CoversDecodes ==
  ASSUME NEW s \in Slots, mmio \in Window
  PROVE  Covers(s, mmio) <=> s \in Decoding(config, mmio)
<1>1. mmio # 0
  BY WindowPages
<1> QED BY <1>1 DEF Covers, Decoding

\* A configuration access moves functions in and out of what decodes the page, and
\* the record of the access follows.
LEMMA ConfigKeepsBar ==
  ASSUME BarInv, WriteAddress \/ DataAccess \/ ConfigDone
  PROVE  BarInv'
<1>1. CASE DataAccess
  <2> DEFINE D == Decoding(config', mmio)
  <2>1. /\ ever' = ever \cup D /\ always' = always \cap D
        /\ UNCHANGED <<mmio, offset, scan, target, mpc>>
    BY <1>1, Zenon DEF DataAccess
  <2>2. Decoding(config, mmio)' = D
    BY <2>1, Zenon
  <2> HIDE DEF D
  <2> QED BY <2>1, <2>2 DEF BarInv
<1>2. CASE WriteAddress \/ ConfigDone
  <2>1. UNCHANGED <<config, mmio, offset, ever, always, scan, target, mpc>>
    BY <1>2, ZenonT(40) DEF WriteAddress, ConfigDone, barAccess
  <2>2. Decoding(config, mmio)' = Decoding(config, mmio)
    BY <2>1, Zenon
  <2> QED BY <2>1, <2>2, ZenonT(40) DEF BarInv
<1> QED BY <1>1, <1>2

\* A non-empty set of naturals has a least element.
LEMMA LeastElement ==
  ASSUME NEW T, T \subseteq Nat, T # {}
  PROVE  \E x \in T : \A y \in T : x <= y
<1> DEFINE R == OpToRel(<, Nat)
<1>1. PICK x \in T : \A y \in T : ~(<<y, x>> \in R)
  <2> HIDE DEF R
  <2>1. IsWellFoundedOn(R, Nat)
    BY NatLessThanWellFounded DEF R
  <2> QED BY <2>1, WFMin, Zenon
<1>2. \A y \in T : x <= y
  <2> TAKE y \in T
  <2>1. ~(<<y, x>> \in R)
    BY <1>1
  <2>2. x \in Nat /\ y \in Nat
    OBVIOUS
  <2> QED BY <2>1, <2>2 DEF OpToRel
<1> QED BY <1>2

\* The device that the loop of route looks at is one it has not looked at yet.
LEMMA NextDevice ==
  ASSUME NEW T, T \subseteq Slots, T # {}
  PROVE  Min(T) \in T
<1>1. T \subseteq Nat
  BY PciAccessAssumption
<1>2. \E x \in T : \A y \in T : x <= y
  BY <1>1, LeastElement, ZenonT(40)
<1> QED BY <1>2, Zenon DEF Min

\* An access starts with what decodes its page, and all functions to look at.
LEMMA StartAccessKeepsBar ==
  ASSUME BarInv, StartAccess PROVE BarInv'
<1>1. PICK p \in Window :
        mmio' = p /\ ever' = Decoding(config, p) /\ always' = Decoding(config, p)
  BY ZenonT(40) DEF StartAccess
<1>2. /\ mpc = "idle" /\ scan' = Slots /\ mpc' = "scan" /\ target' = target
      /\ config' = config
  BY DEF StartAccess
<1>3. Decoding(config, mmio)' = Decoding(config, p) /\ Decoding(config, p) \subseteq Slots
  BY <1>1, <1>2, Zenon DEF Decoding
<1>4. NoOne = target
  BY <1>2 DEF BarInv
<1> QED BY <1>1, <1>2, <1>3, <1>4 DEF BarInv

\* route passes over no function that has decoded the page all along, and stops at
\* one that decodes it now.
LEMMA RouteKeepsBar ==
  ASSUME BarInv, Route PROVE BarInv'
<1>1. PICK m : m = Min(scan)
  OBVIOUS
<1>2. m \in scan /\ m \in Slots /\ mmio \in Window /\ m # NoOne
  BY <1>1, NextDevice, PciAccessAssumption DEF Route, BarInv, NoOne
<1>3. UNCHANGED <<config, mmio, offset, ever, always>> /\ mpc = "scan"
  BY DEF Route
<1>4. Decoding(config, mmio)' = Decoding(config, mmio)
  BY <1>3, Zenon
<1>5. CASE Covers(m, mmio)
  <2>1. mpc' = "routed" /\ target' = m
    BY <1>1, <1>5 DEF Route
  <2>2. m \in ever
    BY <1>2, <1>3, <1>5, CoversDecodes DEF BarInv
  <2> QED BY <1>2, <1>3, <1>4, <2>1, <2>2 DEF BarInv
<1>6. CASE ~Covers(m, mmio)
  <2>1. mpc' = "scan" /\ target' = target /\ scan' = scan \ {m}
    BY <1>1, <1>3, <1>6 DEF Route
  <2>2. m \notin always
    BY <1>2, <1>3, <1>6, CoversDecodes DEF BarInv
  <2> QED BY <1>3, <1>4, <2>1, <2>2 DEF BarInv
<1> QED BY <1>5, <1>6

\* The rest of the dispatcher: an empty scan has passed over nobody.
LEMMA DispatcherKeepsBar ==
  ASSUME BarInv, NoRoute \/ BeginAccess \/ EndAccess \/ ReturnAccess
  PROVE  BarInv'
<1>1. CASE ReturnAccess
  BY <1>1 DEF BarInv, ReturnAccess
<1>2. CASE NoRoute \/ BeginAccess \/ EndAccess
  <2>1. UNCHANGED <<config, mmio, ever, always, target>>
    BY <1>2, Zenon DEF NoRoute, BeginAccess, EndAccess
  <2>2. Decoding(config, mmio)' = Decoding(config, mmio)
    BY <2>1, Zenon
  <2>3. CASE NoRoute
    BY <2>1, <2>2, <2>3 DEF BarInv, NoRoute
  <2>4. CASE BeginAccess
    BY <2>1, <2>2, <2>4 DEF BarInv, BeginAccess
  <2>5. CASE EndAccess
    BY <2>1, <2>2, <2>5 DEF BarInv, EndAccess
  <2> QED BY <1>2, <2>3, <2>4, <2>5
<1> QED BY <1>1, <1>2

\* An offset that a capability advertises is dispatched to that region.
LEMMA AdvertisedRegion ==
  ASSUME NEW o \in Offsets
  PROVE  \E r \in DOMAIN Advertised :
           /\ Region(o) = r
           /\ o - Advertised[r].offset \in 0..(Advertised[r].length - 1)
<1>1. PICK r \in DOMAIN Advertised :
        o \in {Advertised[r].offset, Advertised[r].offset + Advertised[r].length - 1}
  BY ZenonT(40) DEF Offsets
<1>2. r \in {"common", "isr", "notify", "device", "table", "pba"}
  BY <1>1 DEF Advertised
<1>3. CASE r = "common"
  <2>1. Advertised[r] = [offset |-> 0, length |-> 64]
    BY <1>3 DEF Advertised, NumVectors
  <2>2. o \in {0, 63}
    BY <1>1, <2>1
  <2>3. Region(o) = r
    BY <1>3, <2>2 DEF Region, NumVectors
  <2> QED BY <1>1, <2>1, <2>2, <2>3
<1>4. CASE r = "isr"
  <2>1. Advertised[r] = [offset |-> 64, length |-> 16]
    BY <1>4 DEF Advertised, NumVectors
  <2>2. o \in {64, 79}
    BY <1>1, <2>1
  <2>3. Region(o) = r
    BY <1>4, <2>2 DEF Region, NumVectors
  <2> QED BY <1>1, <2>1, <2>2, <2>3
<1>5. CASE r = "notify"
  <2>1. Advertised[r] = [offset |-> 80, length |-> 16]
    BY <1>5 DEF Advertised, NumVectors
  <2>2. o \in {80, 95}
    BY <1>1, <2>1
  <2>3. Region(o) = r
    BY <1>5, <2>2 DEF Region, NumVectors
  <2> QED BY <1>1, <2>1, <2>2, <2>3
<1>6. CASE r = "device"
  <2>1. Advertised[r] = [offset |-> 256, length |-> 256]
    BY <1>6 DEF Advertised, NumVectors
  <2>2. o \in {256, 511}
    BY <1>1, <2>1
  <2>3. Region(o) = r
    BY <1>6, <2>2 DEF Region, NumVectors
  <2> QED BY <1>1, <2>1, <2>2, <2>3
<1>7. CASE r = "table"
  <2>1. Advertised[r] = [offset |-> 2048, length |-> 32]
    BY <1>7 DEF Advertised, NumVectors
  <2>2. o \in {2048, 2079}
    BY <1>1, <2>1
  <2>3. Region(o) = r
    BY <1>7, <2>2 DEF Region, NumVectors
  <2> QED BY <1>1, <2>1, <2>2, <2>3
<1>8. CASE r = "pba"
  <2>1. Advertised[r] = [offset |-> 3072, length |-> 8]
    BY <1>8 DEF Advertised, NumVectors
  <2>2. o \in {3072, 3079}
    BY <1>1, <2>1
  <2>3. Region(o) = r
    BY <1>8, <2>2 DEF Region, NumVectors
  <2> QED BY <1>1, <2>1, <2>2, <2>3
<1> QED BY <1>2, <1>3, <1>4, <1>5, <1>6, <1>7, <1>8

\* Whatever another vCPU programs meanwhile, an access to the window reaches only a
\* function that decoded its page during the access, is not lost to one that
\* decodes it all along, and is served by the region that the capability of its
\* offset advertised; for any slots of the functions and any window.
THEOREM AccessCorrect == Spec => []AccessReachesOwner
<1>1. Init => BarInv
  BY DEF Init, BarInv
<1>2. BarInv /\ [Next]_vars => BarInv'
  <2> SUFFICES ASSUME BarInv, [Next]_vars PROVE BarInv'
    OBVIOUS
  <2>1. CASE WriteAddress \/ DataAccess \/ ConfigDone
    BY <2>1, ConfigKeepsBar, Zenon
  <2>2. CASE StartAccess
    BY <2>2, StartAccessKeepsBar
  <2>3. CASE Route
    BY <2>3, RouteKeepsBar
  <2>4. CASE NoRoute \/ BeginAccess \/ EndAccess \/ ReturnAccess
    BY <2>4, DispatcherKeepsBar, ZenonT(40)
  <2>5. CASE UNCHANGED vars
    <3>1. UNCHANGED <<config, barAccess>>
      BY <2>5, Zenon DEF vars
    <3> QED BY <3>1, Zenon DEF barAccess, BarInv, Decoding
  <2> QED BY <2>1, <2>2, <2>3, <2>4, <2>5, Zenon DEF Next, Dispatcher
<1>3. BarInv => AccessReachesOwner
  <2> SUFFICES ASSUME BarInv PROVE AccessReachesOwner
    OBVIOUS
  <2>1. /\ mpc \in {"access", "done"} /\ target # NoOne => target \in ever
        /\ mpc = "done" /\ target = NoOne => always = {}
    BY DEF BarInv
  <2>2. mpc = "access" => offset \in Offsets
    BY DEF BarInv
  <2> QED BY <2>1, <2>2, AdvertisedRegion, Zenon DEF AccessReachesOwner
<1> QED BY <1>1, <1>2, <1>3, PTL DEF Spec
=============================================================================
