----------------------------- MODULE PciAccess ------------------------------
(***************************************************************************)
(* How a guest access finds its PCI function: the CONFIG_ADDRESS and        *)
(* CONFIG_DATA ports of PciRootBus (src/pci.rs), the configuration space of *)
(* a virtio function, and the VirtioPciMmio dispatcher that sends accesses  *)
(* to the MMIO window to whichever BAR covers them (src/virtio/pci.rs).     *)
(*                                                                          *)
(* Two vCPU threads at a time matter: the one that is inside the guest's    *)
(* lock around the two configuration ports, and the one that holds the      *)
(* dispatcher's Mutex, as Bus::read and Bus::write do for a whole access.   *)
(* The dispatcher takes each device's Mutex in turn to look at its BAR, and *)
(* takes the chosen one again for the access itself; configuration accesses *)
(* take only the device's Mutex and come in between.                        *)
(*                                                                          *)
(* The guest is external.  As src/ relies on, it pairs the two ports under  *)
(* a lock of its own, sizes and moves a BAR with memory decoding off, and   *)
(* gives two functions in use different pages; but it may turn decoding off *)
(* and move a BAR while an access to its page is under way.                 *)
(***************************************************************************)
EXTENDS Integers, Sequences, FiniteSetsExt

CONSTANTS
  Slots,       \* slots that hold a virtio function
  EmptySlot,   \* a slot that holds none
  Window       \* pages of the MMIO window that BARs can be given

AllOnesPage == 1048575   \* what sizing writes; the window ends below it

ASSUME PciAccessAssumption ==
  /\ Slots \subseteq 1..31 /\ EmptySlot \in (1..31) \ Slots
  /\ Window \subseteq 1..(AllOnesPage - 1)

NoOne == 0       \* no function

-----------------------------------------------------------------------------
(* Configuration space: a byte for each register that matters here.         *)

COMMAND == 4
BAR0 == 16
INTERRUPT_LINE == 60
CAP_MSIX == 132
Regs == (0..5) \cup (BAR0..(BAR0 + 3)) \cup {INTERRUPT_LINE} \cup (CAP_MSIX..(CAP_MSIX + 3))
Programmable == {COMMAND, COMMAND + 1, INTERRUPT_LINE} \cup (BAR0..(BAR0 + 3))

NumVectors == 2                      \* one queue, and configuration changes
VIRTIO_PCI_VENDOR == <<244, 26>>     \* 0x1af4

\* The virtio device id: an entropy source in slot 1, a block device in slot 2.
VirtioId(slot) == IF slot = 1 THEN 4 ELSE 2

\* The GSI main gives the function.
IrqLine(slot) == IF slot = 1 THEN 12 ELSE 14

BuildConfig(slot) ==
  [r \in Regs |->
     CASE r < 2 -> VIRTIO_PCI_VENDOR[r + 1]
       [] r = 2 -> 64 + VirtioId(slot) [] r = 3 -> 16
       [] r = INTERRUPT_LINE -> IrqLine(slot)
       [] r = CAP_MSIX -> 17
       [] r = CAP_MSIX + 2 -> NumVectors - 1
       [] OTHER -> 0]

\* The host bridge in slot 0: an Intel 440FX, no BAR, read-only.
HostBridge == [r \in Regs |-> IF r < 4 THEN <<134, 128, 55, 18>>[r + 1] ELSE 0]
Present == Slots \cup {0}

\* Pages are 4 KiB, the size of BAR0.  TLC's integers have no room for a base.
BarPage(c) == c[BAR0 + 3] * 4096 + c[BAR0 + 2] * 16 + c[BAR0 + 1] \div 16
MemEnabled(c) == (c[COMMAND] \div 2) % 2 = 1

\* Byte by byte, read-only registers skipped, then BAR0's size re-imposed.
ConfigWrite(c, reg, data) ==
  LET stored ==
        [r \in Regs |->
           IF r \notin reg..(reg + Len(data) - 1) THEN c[r]
           ELSE IF r \in Programmable THEN data[r - reg + 1]
           ELSE IF r = CAP_MSIX + 3 THEN (data[r - reg + 1] \div 64) * 64 + (c[r] % 64)
           ELSE c[r]]
  IN  [stored EXCEPT ![BAR0] = 0, ![BAR0 + 1] = (@ \div 16) * 16]

ConfigRead(c, reg, n) == [i \in 1..n |-> c[reg + i - 1]]

-----------------------------------------------------------------------------
(* BAR0: what the capabilities advertise, and where an offset is served.    *)

\* The regions build_config names in the capability list.
Advertised ==
  [common |-> [offset |-> 0,    length |-> 64],
   isr    |-> [offset |-> 64,   length |-> 16],
   notify |-> [offset |-> 80,   length |-> 16],
   device |-> [offset |-> 256,  length |-> 256],
   table  |-> [offset |-> 2048, length |-> NumVectors * 16],
   pba    |-> [offset |-> 3072, length |-> 8]]

\* The arms of mmio_read, in order.
Region(o) ==
  CASE o < 64 -> "common"
    [] o \in 64..79 -> "isr"
    [] o \in 80..95 -> "notify"
    [] o \in 256..511 -> "device"
    [] o \in 2048..(2048 + NumVectors * 16 - 1) -> "table"
    [] o \in 3072..3079 -> "pba"
    [] OTHER -> "none"

-----------------------------------------------------------------------------
VARIABLES
  configAddress,   \* PciRootBus::config_address, low byte first
  config,          \* each slot's configuration space
  op,              \* the configuration access: place, slot, register, port byte, data
  value,           \* what a configuration read returned
  cpc,             \* where it is: "idle", "addressed", "returned"
  busy,            \* the function whose Mutex the BAR access holds, or NoOne
  mmio,            \* the page of the BAR access, 0 for none
  offset,          \* and the offset within it, fixed when it first matters
  ever, always,    \* the functions that decode its page at some time of it, all the time
  scan,            \* the functions route has still to look at
  target,          \* what route returned, or NoOne
  mpc,             \* where it is: "idle", "scan", "routed", "access", "done"
  phase, page      \* the guest's drivers: what they have done to each function

access == <<op, value, cpc>>
barAccess == <<busy, mmio, offset, ever, always, scan, target, mpc>>
guest == <<phase, page>>
vars == <<configAddress, config, access, barAccess, guest>>

\* The parts of CONFIG_ADDRESS besides slot and register: where the functions are,
\* and addresses that are off it in one of them.
Home == [enable |-> 128, bus |-> 0, function |-> 0]
Elsewhere == {[Home EXCEPT !.enable = 0], [Home EXCEPT !.bus = 1], [Home EXCEPT !.function = 7]}

NoOp == [place |-> Home, slot |-> 0, reg |-> 0, byte |-> 0, data |-> <<>>, to |-> "same"]
Ones == <<255, 255, 255, 255>>
PageBytes(p) == <<0, (p % 16) * 16, (p \div 16) % 256, p \div 4096>>

Init ==
  /\ configAddress = <<0, 0, 0, 0>>
  /\ config = [s \in Present |-> IF s = 0 THEN HostBridge ELSE BuildConfig(s)]
  /\ op = NoOp /\ value = <<>> /\ cpc = "idle"
  /\ busy = NoOne /\ mmio = 0 /\ offset = 0 /\ ever = {} /\ always = {}
  /\ scan = {} /\ target = NoOne /\ mpc = "idle"
  /\ phase = [s \in Slots |-> "off"] /\ page = [s \in Slots |-> 0]

-----------------------------------------------------------------------------
(* Configuration accesses.                                                  *)

InUse == {s \in Slots : phase[s] \in {"assigned", "armed", "on"}}

\* The guest's accesses, with the phase each one brings its function to.
Access(reg, byte, data, to) == [reg |-> reg, byte |-> byte, data |-> data, to |-> to]
GuestWrites(s) ==
  CASE phase[s] = "off" -> {Access(BAR0, 0, Ones, "sizing")}
    [] phase[s] = "sized" ->
         {Access(BAR0, 0, PageBytes(p), "assigned") : p \in Window \ {page[t] : t \in InUse}}
    [] phase[s] = "assigned" -> {Access(CAP_MSIX, 2, <<255, 128>>, "armed")}
    [] phase[s] = "armed" -> {Access(COMMAND, 0, <<2, 0>>, "on")}
    [] phase[s] = "on" -> {Access(COMMAND, 0, <<0, 0>>, "disabled")}
    [] phase[s] = "disabled" -> {Access(CAP_MSIX, 2, <<255, 0>>, "off")}
    [] OTHER -> {}

\* Its reads: identification, and BAR0 once all ones were written to it.
GuestReads(s) ==
  {Access(0, 0, <<>>, "same")} \cup
  (IF s \in Slots /\ phase[s] = "sizing" THEN {Access(BAR0, 0, <<>>, "sized")} ELSE {})

\* The latch: a write below port offset 4 replaces the bytes it covers.
LatchWrite(at, data) ==
  configAddress' =
    [i \in 1..4 |-> IF i - at \in 1..Len(data) THEN data[i - at] ELSE configAddress[i]]

\* What it tries where there is nothing: the identification, and a write.
Probes == {Access(0, 0, <<>>, "same"), Access(COMMAND, 0, <<2, 0>>, "same")}

\* The guest writes CONFIG_ADDRESS for the access it has in mind.
WriteAddress ==
  /\ cpc = "idle"
  /\ \E s \in Present \cup {EmptySlot}, place \in {Home} \cup Elsewhere :
       \E g \in IF place = Home
                THEN GuestReads(s) \cup (IF s \in Slots THEN GuestWrites(s) ELSE {})
                ELSE IF s \in Slots THEN Probes ELSE {} :
         /\ op' = [place |-> place, slot |-> s, reg |-> g.reg, byte |-> g.byte,
                   data |-> g.data, to |-> g.to]
         /\ LatchWrite(0, <<g.reg, s * 8 + place.function, place.bus, place.enable>>)
  /\ cpc' = "addressed"
  /\ UNCHANGED <<config, value, barAccess, guest>>

\* Mutant: the byte within CONFIG_DATA is dropped.
SelectedNoByte(byte) ==
  [found |-> configAddress[4] >= 128 /\ configAddress[3] = 0 /\ configAddress[2] % 8 = 0,
   slot |-> configAddress[2] \div 8, reg |-> (configAddress[1] \div 4) * 4]

\* Mutant: the function number is not part of the key.
SelectedAnyFunction(byte) ==
  [found |-> configAddress[4] >= 128 /\ configAddress[3] = 0,
   slot |-> configAddress[2] \div 8, reg |-> (configAddress[1] \div 4) * 4 + byte]

\* The enable bit, bus 0, then slot, function and register.  main adds every device
\* as function 0 of its slot, so the key of another function finds none.
Selected(byte) ==
  [found |-> configAddress[4] >= 128 /\ configAddress[3] = 0 /\ configAddress[2] % 8 = 0,
   slot |-> configAddress[2] \div 8, reg |-> (configAddress[1] \div 4) * 4 + byte]

\* The functions that decode page p, of the configuration spaces c.
Decoding(c, p) == {s \in Slots : MemEnabled(c[s]) /\ BarPage(c[s]) = p}

\* The guest accesses CONFIG_DATA: the selected device, under its Mutex, or 0xff.
\* The host bridge ignores writes.
DataAccess ==
  LET sel == Selected(op.byte) IN
  /\ cpc = "addressed"
  /\ sel.found /\ sel.slot \in Slots => busy # sel.slot
  /\ IF op.data = <<>>
     THEN /\ value' = IF sel.found /\ sel.slot \in Present
                      THEN ConfigRead(config[sel.slot], sel.reg, 4) ELSE Ones
          /\ UNCHANGED config
     ELSE /\ config' = IF sel.found /\ sel.slot \in Slots
                       THEN [config EXCEPT ![sel.slot] = ConfigWrite(@, sel.reg, op.data)]
                       ELSE config
          /\ UNCHANGED value
  /\ cpc' = "returned"
  /\ ever' = ever \cup Decoding(config', mmio)
  /\ always' = always \cap Decoding(config', mmio)
  /\ UNCHANGED <<configAddress, op, busy, mmio, offset, scan, target, mpc, guest>>

\* The guest has its answer and lets go of its lock.
ConfigDone ==
  /\ cpc = "returned"
  /\ phase' = IF op.to = "same" THEN phase ELSE [phase EXCEPT ![op.slot] = op.to]
  /\ page' = IF op.to # "assigned" THEN page
             ELSE [page EXCEPT ![op.slot] = CHOOSE p \in Window : PageBytes(p) = op.data]
  /\ cpc' = "idle" /\ op' = NoOp /\ value' = <<>>
  /\ UNCHANGED <<configAddress, config, barAccess>>

-----------------------------------------------------------------------------
(* Accesses to the MMIO window.                                             *)

\* The first and the last byte of every region a capability advertises.
Offsets == UNION {{Advertised[r].offset, Advertised[r].offset + Advertised[r].length - 1} :
                    r \in DOMAIN Advertised}

\* A vCPU accesses a page of the window; route begins with the first device.
StartAccess ==
  /\ mpc = "idle"
  /\ \E p \in Window :
       mmio' = p /\ ever' = Decoding(config, p) /\ always' = Decoding(config, p)
  /\ scan' = Slots /\ mpc' = "scan"
  /\ UNCHANGED <<configAddress, config, access, busy, offset, target, guest>>

\* Mutant: decoding need not be on.
CoversIgnoresDecode(s, p) == BarPage(config[s]) # 0 /\ BarPage(config[s]) = p

Covers(s, p) ==
  MemEnabled(config[s]) /\ BarPage(config[s]) # 0 /\ BarPage(config[s]) = p

\* One turn of route: the device's Mutex is held only to look at its BAR.  main adds
\* the functions in the order of their slots.
Route ==
  /\ mpc = "scan" /\ scan # {}
  /\ IF Covers(Min(scan), mmio)
     THEN mpc' = "routed" /\ target' = Min(scan) /\ UNCHANGED scan
     ELSE scan' = scan \ {Min(scan)} /\ UNCHANGED <<mpc, target>>
  /\ UNCHANGED <<configAddress, config, access, busy, mmio, offset, ever, always, guest>>

\* No device covers the address: the access reads 0xff and is over.
NoRoute ==
  /\ mpc = "scan" /\ scan = {}
  /\ mpc' = "done"
  /\ UNCHANGED <<configAddress, config, access, busy, mmio, offset, ever, always, scan,
                 target, guest>>

\* The device is locked again, for the access itself.
BeginAccess ==
  /\ mpc = "routed"
  /\ busy' = target /\ mpc' = "access"
  /\ \E o \in Offsets : offset' = o
  /\ UNCHANGED <<configAddress, config, access, mmio, ever, always, scan, target, guest>>

EndAccess ==
  /\ mpc = "access"
  /\ busy' = NoOne /\ mpc' = "done" /\ offset' = 0
  /\ UNCHANGED <<configAddress, config, access, mmio, ever, always, scan, target, guest>>

\* The access returns to the guest, and the dispatcher's Mutex is free again.
ReturnAccess ==
  /\ mpc = "done"
  /\ mpc' = "idle" /\ mmio' = 0 /\ scan' = {} /\ target' = NoOne
  /\ ever' = {} /\ always' = {}
  /\ UNCHANGED <<configAddress, config, access, busy, offset, guest>>

Dispatcher == Route \/ NoRoute \/ BeginAccess \/ EndAccess \/ ReturnAccess
Next == WriteAddress \/ DataAccess \/ ConfigDone \/ StartAccess \/ Dispatcher

Spec == Init /\ [][Next]_vars

-----------------------------------------------------------------------------
(* Properties.                                                              *)

\* A configuration access is answered by the register it was addressed to: a
\* function is seen in its slot and nowhere else (not as another function of the
\* slot, on another bus, or with the enable bit clear), an empty slot reads 0xff,
\* and reading BAR0 back after writing all ones gives the size mask.
ConfigReadIsRight ==
  cpc = "returned" /\ op.data = <<>> =>
    value = IF op.place # Home \/ op.slot = EmptySlot THEN Ones
            ELSE CASE op.slot = 0 -> <<134, 128, 55, 18>>
                   [] op.slot \in Slots /\ op.reg = 0 ->
                        VIRTIO_PCI_VENDOR \o <<IF op.slot = 1 THEN 68 ELSE 66, 16>>
                   [] OTHER -> <<0, 240, 255, 255>>

\* What a function holds is what its driver programmed, whatever is written to the
\* other functions and where there is none: decoding, BAR and MSI-X enable, with
\* the MSI-X table size never overwritten.
FunctionsAreIndependent ==
  \A s \in Slots : (cpc = "idle" \/ op.slot # s \/ op.place # Home) =>
    /\ MemEnabled(config[s]) <=> phase[s] = "on"
    /\ s \in InUse => BarPage(config[s]) = page[s]
    /\ config[s][CAP_MSIX + 3] = IF phase[s] \in {"armed", "on", "disabled"} THEN 128 ELSE 0
    /\ config[s][CAP_MSIX + 2] = NumVectors - 1

\* Whatever another vCPU sizes, moves, enables or disables while an access to the
\* window is under way, although route holds no Mutex between one function and
\* the next and lets go of the chosen one before the access: the function reached
\* decoded the page at some moment of the access, an access is never lost to a
\* function that decodes its page all along, and the offset is served by the
\* region whose capability advertised it.
AccessReachesOwner ==
  /\ mpc \in {"access", "done"} /\ target # NoOne => target \in ever
  /\ mpc = "done" /\ target = NoOne => always = {}
  /\ mpc = "access" =>
       \E r \in DOMAIN Advertised :
         /\ Region(offset) = r
         /\ offset - Advertised[r].offset \in 0..(Advertised[r].length - 1)
=============================================================================
