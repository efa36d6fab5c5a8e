------------------------------- MODULE Serial -------------------------------
(***************************************************************************)
(* The 16550A UART of src/serial.rs.  Every operation of the device runs    *)
(* under the Mutex<Serial>, so each is one atomic action.  Three threads    *)
(* call it: a vCPU (register reads and writes), the stdin reader            *)
(* (inject_rx, tick_cti) and main (replace_irq_sink, once).                 *)
(*                                                                          *)
(* Registers are sets of the names of their bits.  DLL, DLM, SCR and the    *)
(* LCR bits below DLAB are storage that no operation looks at; of LCR the   *)
(* model keeps DLAB, which selects the bank.  The clock is reduced to the   *)
(* one question tick_cti asks of it: has CTI_TIMEOUT passed since the last  *)
(* RX activity?                                                             *)
(***************************************************************************)
EXTENDS Naturals, Sequences

CONSTANTS
  FIFO_CAP,      \* capacity of the RX FIFO (4096 in the code)
  Bytes,         \* the bytes that travel over the line
  Batches,       \* the non-empty byte strings the reader may inject at once
  IerValues,     \* the values the guest writes to IER
  McrValues,     \* the values the guest writes to MCR
  TriggerCodes   \* the RX trigger codes the guest writes to FCR bits 7:6

IerBits == {"ERBFI", "ETBEI", "ELSI", "EDSSI"}
McrBits == {"DTR", "RTS", "OUT1", "OUT2", "LOOPBACK"}
MsrBits == {"CTS", "DSR", "RI", "DCD"}

ASSUME SerialAssumption ==
  /\ FIFO_CAP \in Nat \ {0}
  /\ Batches \subseteq Seq(Bytes) \ {<<>>}
  /\ IerValues \subseteq SUBSET IerBits
  /\ McrValues \subseteq SUBSET McrBits
  /\ TriggerCodes \subseteq 0..3

VARIABLES
  ier, dlab, mcr, fcrEnabled, rxTrigger,  \* programmable registers
  msrState, msrDelta,                     \* MSR bits 4-7 and 0-3
  rx,                                     \* the RX FIFO, oldest byte first
  overrun, threPending, ctiPending,       \* latched interrupt conditions
  quiet,                                  \* CTI_TIMEOUT has passed since last_rx_activity
  lastIrqLevel,                           \* level last given to the sink
  sink,                                   \* "null" (NullIrqSink) or "gsi"
  line                                    \* the level of the GSI behind "gsi"

regs == <<ier, dlab, mcr, fcrEnabled, rxTrigger>>
msr  == <<msrState, msrDelta>>
irq  == <<lastIrqLevel, sink, line>>
vars == <<regs, msr, rx, overrun, threPending, ctiPending, quiet, irq>>

ConnectedDefault == {"CTS", "DSR", "DCD"}

Init ==
  /\ ier = {} /\ dlab = FALSE /\ mcr = {}
  /\ fcrEnabled = FALSE /\ rxTrigger = 0
  /\ msrState = ConnectedDefault /\ msrDelta = {}
  /\ rx = <<>> /\ overrun = FALSE /\ threPending = FALSE /\ ctiPending = FALSE
  /\ quiet = FALSE
  /\ lastIrqLevel = FALSE /\ sink = "null" /\ line = FALSE

-----------------------------------------------------------------------------
(* The interrupt logic.                                                     *)

TriggerBytes(code) ==
  CASE code = 0 -> 1 [] code = 1 -> 4 [] code = 2 -> 8 [] OTHER -> 14

\* The RX count that raises RDA: any byte in 16450 mode.
RdaThreshold == IF fcrEnabled THEN TriggerBytes(rxTrigger) ELSE 1

\* The sources that are enabled and pending.  RDA takes precedence over CTI.
Source ==
  [RLS  |-> "ELSI" \in ier /\ overrun,
   RDA  |-> "ERBFI" \in ier /\ Len(rx) >= RdaThreshold,
   CTI  |-> "ERBFI" \in ier /\ ctiPending /\ rx # <<>>,
   THRE |-> "ETBEI" \in ier /\ threPending,
   MS   |-> "EDSSI" \in ier /\ msrDelta # {}]

\* The highest-priority pending source: RLS > RDA > CTI > THRE > MS.
PendingInterrupt ==
  IF Source.RLS THEN "RLS"
  ELSE IF Source.RDA THEN "RDA"
  ELSE IF Source.CTI THEN "CTI"
  ELSE IF Source.THRE THEN "THRE"
  ELSE IF Source.MS THEN "MS"
  ELSE "NONE"

\* What the line should be: OUT2 gates the interrupt.
Asserted == "OUT2" \in mcr /\ PendingInterrupt # "NONE"

\* update_irq on the state the operation leaves: the sink is called only when
\* the level differs from the cached one, and NullIrqSink ignores the call.
UpdateIrqOn(cached, target) ==
  /\ lastIrqLevel' = Asserted'
  /\ line' = IF Asserted' # cached /\ target = "gsi" THEN Asserted' ELSE line

UpdateIrq == UpdateIrqOn(lastIrqLevel, sink) /\ UNCHANGED sink

-----------------------------------------------------------------------------
(* The stdin reader and setup.                                              *)

\* Append as much of the batch as fits; the rest is dropped with an overrun.
\* In loopback the line is disconnected and the call returns at once.
InjectRx(batch) ==
  /\ "LOOPBACK" \notin mcr
  /\ LET room == FIFO_CAP - Len(rx)
         kept == IF Len(batch) <= room THEN Len(batch) ELSE room
     IN /\ rx' = rx \o SubSeq(batch, 1, kept)
        /\ overrun' = (overrun \/ kept < Len(batch))
  /\ quiet' = FALSE
  /\ ctiPending' = FALSE
  /\ UNCHANGED <<regs, msr, threPending>>
  /\ UpdateIrq

\* Mutant: the tick ignores the last count below the trigger.
TickCtiOffByOne ==
  /\ ~ctiPending
  /\ rx # <<>> /\ fcrEnabled /\ Len(rx) + 1 < TriggerBytes(rxTrigger) /\ quiet
  /\ ctiPending' = TRUE
  /\ UNCHANGED <<regs, msr, rx, overrun, threPending, quiet>>
  /\ UpdateIrq

\* tick_cti; a tick that changes nothing is a stuttering step.
TickCti ==
  /\ ~ctiPending
  /\ rx # <<>> /\ fcrEnabled /\ Len(rx) < TriggerBytes(rxTrigger) /\ quiet
  /\ ctiPending' = TRUE
  /\ UNCHANGED <<regs, msr, rx, overrun, threPending, quiet>>
  /\ UpdateIrq

\* CTI_TIMEOUT passes with no RX activity.
TimeoutElapses ==
  /\ ~quiet
  /\ quiet' = TRUE
  /\ UNCHANGED <<regs, msr, rx, overrun, threPending, ctiPending, irq>>

\* register_serial swaps NullIrqSink for the GSI's sink.  The cached level is
\* reset first, so a pending interrupt is raised on the new line.  main does so
\* after it starts the reader and before the vCPUs; here it may come at any time.
ReplaceIrqSink ==
  /\ sink = "null"
  /\ sink' = "gsi"
  /\ UNCHANGED <<regs, msr, rx, overrun, threPending, ctiPending, quiet>>
  /\ UpdateIrqOn(FALSE, "gsi")

-----------------------------------------------------------------------------
(* Guest register accesses.                                                 *)

ReadRBR ==
  /\ ~dlab
  /\ rx' = IF rx = <<>> THEN rx ELSE Tail(rx)
  /\ quiet' = FALSE
  /\ ctiPending' = (ctiPending /\ rx' # <<>>)
  /\ UNCHANGED <<regs, msr, overrun, threPending>>
  /\ UpdateIrq

\* Outside loopback the byte goes to stdout; in loopback it comes back in RX.
WriteTHR(b) ==
  /\ ~dlab
  /\ IF "LOOPBACK" \notin mcr
     THEN UNCHANGED <<rx, overrun>>
     ELSE IF Len(rx) >= FIFO_CAP
     THEN overrun' = TRUE /\ UNCHANGED rx
     ELSE rx' = Append(rx, b) /\ UNCHANGED overrun
  /\ threPending' = TRUE
  /\ UNCHANGED <<regs, msr, ctiPending, quiet>>
  /\ UpdateIrq

WriteIER(value) ==
  /\ ~dlab
  /\ ier' = value
  /\ UNCHANGED <<dlab, mcr, fcrEnabled, rxTrigger, msr, rx, overrun,
                 threPending, ctiPending, quiet>>
  /\ UpdateIrq

\* Reading IIR acknowledges THRE, and only when THRE is the source it reports.
ReadIIR ==
  /\ PendingInterrupt = "THRE"
  /\ threPending' = FALSE
  /\ UNCHANGED <<regs, msr, rx, overrun, ctiPending, quiet>>
  /\ UpdateIrq

WriteFCR(enable, clearRx, code) ==
  /\ fcrEnabled' = enable
  /\ rxTrigger' = code
  /\ IF (enable /\ ~fcrEnabled) \/ clearRx
     THEN rx' = <<>> /\ ctiPending' = FALSE
     ELSE UNCHANGED <<rx, ctiPending>>
  /\ UNCHANGED <<ier, dlab, mcr, msr, overrun, threPending, quiet>>
  /\ UpdateIrq

WriteLCR(bank) ==
  /\ dlab' = bank
  /\ UNCHANGED <<ier, mcr, fcrEnabled, rxTrigger, msr, rx, overrun,
                 threPending, ctiPending, quiet, irq>>

\* In loopback the MCR outputs are wired to the MSR inputs.
LoopbackState(value) ==
  {b \in MsrBits : \/ b = "DSR" /\ "DTR"  \in value
                   \/ b = "CTS" /\ "RTS"  \in value
                   \/ b = "RI"  /\ "OUT1" \in value
                   \/ b = "DCD" /\ "OUT2" \in value}

Changed(old, new) == (old \ new) \union (new \ old)

WriteMCR(value) ==
  LET was == "LOOPBACK" \in mcr
      is  == "LOOPBACK" \in value
  IN /\ mcr' = value
     /\ msrState' = IF is THEN LoopbackState(value)
                    ELSE IF was THEN ConnectedDefault ELSE msrState
     /\ msrDelta' = IF is THEN msrDelta \union Changed(msrState, msrState')
                    ELSE msrDelta
     /\ IF is /\ ~was
        THEN rx' = <<>> /\ ctiPending' = FALSE
        ELSE UNCHANGED <<rx, ctiPending>>
     /\ UNCHANGED <<ier, dlab, fcrEnabled, rxTrigger, overrun, threPending, quiet>>
     /\ UpdateIrq

\* Mutant: the read that clears the overrun leaves the line as it was.
ReadLSRForgetsLine ==
  /\ overrun' = FALSE
  /\ UNCHANGED <<regs, msr, rx, threPending, ctiPending, quiet, irq>>

ReadLSR ==
  /\ overrun' = FALSE
  /\ UNCHANGED <<regs, msr, rx, threPending, ctiPending, quiet>>
  /\ UpdateIrq

ReadMSR ==
  /\ msrDelta' = {}
  /\ UNCHANGED <<regs, msrState, rx, overrun, threPending, ctiPending, quiet>>
  /\ UpdateIrq

-----------------------------------------------------------------------------
GuestRead == ReadRBR \/ ReadIIR \/ ReadLSR \/ ReadMSR

GuestWrite ==
  \/ \E b \in Bytes : WriteTHR(b)
  \/ \E value \in IerValues : WriteIER(value)
  \/ \E enable, clearRx \in BOOLEAN, code \in TriggerCodes :
       WriteFCR(enable, clearRx, code)
  \/ \E bank \in BOOLEAN : WriteLCR(bank)
  \/ \E value \in McrValues : WriteMCR(value)

Reader == TickCti \/ \E batch \in Batches : InjectRx(batch)

Next == GuestRead \/ GuestWrite \/ Reader \/ TimeoutElapses \/ ReplaceIrqSink

Spec == Init /\ [][Next]_vars

(***************************************************************************)
(* Fairness.  Time passes; the reader polls with a 2 ms timeout and ticks   *)
(* on every timeout until shutdown; main registers the sink.  The guest and *)
(* the person typing owe nothing.                                           *)
(***************************************************************************)
Fairness ==
  WF_vars(TimeoutElapses) /\ WF_vars(TickCti) /\ WF_vars(ReplaceIrqSink)

FairSpec == Spec /\ Fairness

-----------------------------------------------------------------------------
(* Properties.                                                              *)

\* Every variable has its type, and the FIFO never exceeds its capacity.
TypeOK ==
  /\ ier \in SUBSET IerBits /\ mcr \in SUBSET McrBits
  /\ dlab \in BOOLEAN /\ fcrEnabled \in BOOLEAN /\ rxTrigger \in 0..3
  /\ msrState \in SUBSET MsrBits /\ msrDelta \in SUBSET MsrBits
  /\ rx \in Seq(Bytes) /\ Len(rx) <= FIFO_CAP
  /\ overrun \in BOOLEAN /\ threPending \in BOOLEAN /\ ctiPending \in BOOLEAN
  /\ quiet \in BOOLEAN /\ lastIrqLevel \in BOOLEAN /\ line \in BOOLEAN
  /\ sink \in {"null", "gsi"}

\* The cached level and the GSI line always equal what the registers call for:
\* no operation forgets update_irq, the edge filter never swallows a needed
\* call, and swapping the sink neither loses nor invents an interrupt.
LineFollowsRegisters ==
  /\ lastIrqLevel = Asserted
  /\ line = (sink = "gsi" /\ Asserted)

\* A character timeout is only ever pending for bytes that are still there:
\* every way of emptying the FIFO (RBR read, FCR, entering loopback) cancels it.
CtiNeedsData == ctiPending => rx # <<>>

RxEnabled == "ERBFI" \in ier /\ "OUT2" \in mcr

\* Bytes below the trigger are not stranded: if the guest leaves RX interrupts
\* enabled with data in the FIFO and stops reading it, the line is raised again
\* and again (by CTI when the trigger is not reached), however the injections,
\* the ticks and the other register writes interleave.
ResidualBytesSignalled ==
  (<>[](rx # <<>> /\ RxEnabled) /\ <>[][~ReadRBR]_vars) => []<>line
=============================================================================
