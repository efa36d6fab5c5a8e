---------------------------- MODULE DeviceProofs ----------------------------
(***************************************************************************)
(* Proofs about the devices: Serial, for every FIFO capacity, every set of  *)
(* bytes and batches and every set of register values the guest may write;  *)
(* VirtioPci, for any number of queues; and Console, for any number of keys *)
(* and any size of the reads.                                               *)
(***************************************************************************)
EXTENDS Serial, VirtioPci, Console, SequenceTheorems, FiniteSetTheorems, TLAPS,
        WellFoundedInduction

\* How a leaf that names no prover is tried.
USE SMT, Zenon, SMTT(30)

-----------------------------------------------------------------------------
(* The UART.                                                                *)

\* What inject_rx appends: a prefix of the batch that fits the room left.
LEMMA PrefixFits ==
  ASSUME NEW r \in Seq(Bytes), NEW b \in Seq(Bytes), NEW k \in Nat,
         k <= Len(b), Len(r) + k <= FIFO_CAP
  PROVE  /\ r \o SubSeq(b, 1, k) \in Seq(Bytes)
         /\ Len(r \o SubSeq(b, 1, k)) <= FIFO_CAP
<1>1. SubSeq(b, 1, k) \in Seq(Bytes) /\ Len(SubSeq(b, 1, k)) = k
  OBVIOUS
<1> QED
  BY <1>1

\* An emptied FIFO has its type and fits; so does one byte more when it is not full.
LEMMA EmptyFits == <<>> \in Seq(Bytes) /\ Len(<<>>) = 0 /\ Len(<<>>) <= FIFO_CAP
<1>1. <<>> \in Seq(Bytes) /\ Len(<<>>) = 0
  OBVIOUS
<1> QED
  BY <1>1, SerialAssumption

LEMMA AppendFits ==
  ASSUME NEW r \in Seq(Bytes), NEW b \in Bytes, Len(r) <= FIFO_CAP, ~(Len(r) >= FIFO_CAP)
  PROVE  Append(r, b) \in Seq(Bytes) /\ Len(Append(r, b)) <= FIFO_CAP
<1>1. Append(r, b) \in Seq(Bytes) /\ Len(Append(r, b)) = Len(r) + 1 /\ Len(r) \in Nat
  OBVIOUS
<1> QED
  BY <1>1, SerialAssumption

\* Every variable of the UART keeps its type and the FIFO its bound.
THEOREM TypeCorrect == Spec => []TypeOK
<1>1. Init => TypeOK
  <2> SUFFICES ASSUME Init PROVE TypeOK
    OBVIOUS
  <2>1. rx \in Seq(Bytes) /\ Len(rx) <= FIFO_CAP
    BY EmptyFits DEF Init
  <2>2. msrState \in SUBSET MsrBits
    BY DEF Init, ConnectedDefault, MsrBits
  <2>3. ier \in SUBSET IerBits /\ mcr \in SUBSET McrBits /\ msrDelta \in SUBSET MsrBits
    BY DEF Init
  <2>4. rxTrigger \in 0..3
    BY DEF Init
  <2>5. /\ {dlab, fcrEnabled, overrun, threPending, ctiPending} \subseteq BOOLEAN
        /\ {quiet, lastIrqLevel, line} \subseteq BOOLEAN
        /\ sink \in {"null", "gsi"}
    BY Zenon DEF Init
  <2> QED
    BY <2>1, <2>2, <2>3, <2>4, <2>5 DEF TypeOK
<1>2. TypeOK /\ [Next]_vars => TypeOK'
  <2> SUFFICES ASSUME TypeOK, [Next]_vars PROVE TypeOK'
    OBVIOUS
  <2>0. Asserted' \in BOOLEAN
    BY DEF Asserted
  <2>1. ASSUME NEW cached, NEW target, UpdateIrqOn(cached, target)
        PROVE  lastIrqLevel' \in BOOLEAN /\ line' \in BOOLEAN
    BY <2>0, <2>1 DEF UpdateIrqOn, TypeOK
  <2>2. UpdateIrq => /\ lastIrqLevel' \in BOOLEAN /\ line' \in BOOLEAN
                     /\ sink' \in {"null", "gsi"}
    BY <2>1 DEF UpdateIrq, TypeOK
  <2>3. ASSUME NEW bs \in Batches, InjectRx(bs) PROVE TypeOK'
    <3> DEFINE room == FIFO_CAP - Len(rx)
               kept == IF Len(bs) <= room THEN Len(bs) ELSE room
    <3>1. bs \in Seq(Bytes) /\ Len(bs) \in Nat
      BY SerialAssumption
    <3>2. kept \in Nat /\ kept <= Len(bs) /\ Len(rx) + kept <= FIFO_CAP
      BY <3>1, SerialAssumption DEF TypeOK
    <3>3. rx' \in Seq(Bytes) /\ Len(rx') <= FIFO_CAP
      <4>1. rx' = rx \o SubSeq(bs, 1, kept)
        BY <2>3 DEF InjectRx
      <4> HIDE DEF kept
      <4> QED
        BY <4>1, <3>1, <3>2, PrefixFits DEF TypeOK
    <3>4. overrun' \in BOOLEAN
      BY <2>3 DEF InjectRx, TypeOK
    <3> QED
      BY <2>2, <2>3, <3>3, <3>4, Zenon DEF InjectRx, TypeOK, regs, msr
  <2>4. ASSUME TickCti PROVE TypeOK'
    BY <2>2, <2>4 DEF TickCti, TypeOK, regs, msr
  <2>5. ASSUME TimeoutElapses PROVE TypeOK'
    BY <2>5 DEF TimeoutElapses, TypeOK, regs, msr, irq
  <2>6. ASSUME ReplaceIrqSink PROVE TypeOK'
    BY <2>1, <2>6, ZenonT(40) DEF ReplaceIrqSink, TypeOK, regs, msr
  <2>7. ASSUME ReadRBR PROVE TypeOK'
    <3>1. rx' \in Seq(Bytes) /\ Len(rx') <= FIFO_CAP
      BY <2>7, SerialAssumption DEF ReadRBR, TypeOK
    <3> QED
      BY <2>2, <2>7, <3>1, Zenon DEF ReadRBR, TypeOK, regs, msr
  <2>8. ASSUME NEW b \in Bytes, WriteTHR(b) PROVE TypeOK'
    <3>1. rx' \in Seq(Bytes) /\ Len(rx') <= FIFO_CAP /\ overrun' \in BOOLEAN
      BY <2>8, AppendFits, Zenon DEF WriteTHR, TypeOK
    <3> QED
      BY <2>2, <2>8, <3>1 DEF WriteTHR, TypeOK, regs, msr
  <2>9. ASSUME NEW value \in IerValues, WriteIER(value) PROVE TypeOK'
    BY <2>2, <2>9, SerialAssumption DEF WriteIER, TypeOK, msr
  <2>10. ASSUME ReadIIR PROVE TypeOK'
    BY <2>2, <2>10, Zenon DEF ReadIIR, TypeOK, regs, msr
  <2>11. ASSUME NEW enable \in BOOLEAN, NEW clearRx \in BOOLEAN,
                NEW code \in TriggerCodes, WriteFCR(enable, clearRx, code)
         PROVE  TypeOK'
    <3>1. rx' \in Seq(Bytes) /\ Len(rx') <= FIFO_CAP /\ ctiPending' \in BOOLEAN
      BY <2>11, EmptyFits, Zenon DEF WriteFCR, TypeOK
    <3> QED
      BY <2>2, <2>11, <3>1, SerialAssumption DEF WriteFCR, TypeOK, msr
  <2>12. ASSUME NEW bank \in BOOLEAN, WriteLCR(bank) PROVE TypeOK'
    BY <2>12 DEF WriteLCR, TypeOK, msr, irq
  <2>13. ASSUME NEW value \in McrValues, WriteMCR(value) PROVE TypeOK'
    <3>1. rx' \in Seq(Bytes) /\ Len(rx') <= FIFO_CAP /\ ctiPending' \in BOOLEAN
      BY <2>13, EmptyFits, Zenon DEF WriteMCR, TypeOK
    <3>2. msrState' \in SUBSET MsrBits
      BY <2>13 DEF WriteMCR, TypeOK, LoopbackState, ConnectedDefault, MsrBits
    <3>3. msrDelta' \in SUBSET MsrBits
      BY <2>13, <3>2 DEF WriteMCR, TypeOK, Changed
    <3> QED
      BY <2>2, <2>13, <3>1, <3>2, <3>3, SerialAssumption DEF WriteMCR, TypeOK
  <2>14. ASSUME ReadLSR PROVE TypeOK'
    BY <2>2, <2>14, Zenon DEF ReadLSR, TypeOK, regs, msr
  <2>15. ASSUME ReadMSR PROVE TypeOK'
    BY <2>2, <2>15 DEF ReadMSR, TypeOK, regs
  <2>16. CASE UNCHANGED vars
    BY <2>16 DEF vars, TypeOK, regs, msr, irq
  <2> QED
    BY <2>3, <2>4, <2>5, <2>6, <2>7, <2>8, <2>9, <2>10, <2>11, <2>12, <2>13,
       <2>14, <2>15, <2>16 DEF Next, GuestRead, GuestWrite, Reader
<1> QED
  BY <1>1, <1>2, PTL DEF Spec

-----------------------------------------------------------------------------
\* update_irq establishes the line invariant from the one before it, whatever
\* the operation did to the registers.
LEMMA UpdateIrqRestores ==
  ASSUME LineFollowsRegisters, UpdateIrq
  PROVE  LineFollowsRegisters'
<1>1. Asserted \in BOOLEAN /\ Asserted' \in BOOLEAN
  BY DEF Asserted
<1>2. lastIrqLevel' = Asserted' /\ sink' = sink
  BY DEF UpdateIrq, UpdateIrqOn
<1>3. CASE sink = "gsi"
  BY <1>1, <1>2, <1>3 DEF LineFollowsRegisters, UpdateIrq, UpdateIrqOn
<1>4. CASE sink # "gsi"
  BY <1>1, <1>2, <1>4 DEF LineFollowsRegisters, UpdateIrq, UpdateIrqOn
<1> QED
  BY <1>3, <1>4

\* Swapping the sink restores it on the new line.
LEMMA ReplaceIrqSinkRestores ==
  ASSUME LineFollowsRegisters, ReplaceIrqSink
  PROVE  LineFollowsRegisters'
<1>1. Asserted' \in BOOLEAN /\ sink' = "gsi" /\ lastIrqLevel' = Asserted'
  BY DEF Asserted, ReplaceIrqSink, UpdateIrqOn
<1>2. line = FALSE
  BY DEF LineFollowsRegisters, ReplaceIrqSink
<1>3. line' = IF Asserted' # FALSE THEN Asserted' ELSE line
  BY DEF ReplaceIrqSink, UpdateIrqOn
<1> QED
  BY <1>1, <1>2, <1>3, Zenon DEF LineFollowsRegisters

\* The line equals what the registers call for, in every state: update_irq is
\* never forgotten and its edge filter never swallows a needed call.
THEOREM LineCorrect == Spec => []LineFollowsRegisters
<1>1. Init => LineFollowsRegisters
  BY Zenon DEF Init, LineFollowsRegisters, Asserted
<1>2. LineFollowsRegisters /\ [Next]_vars => LineFollowsRegisters'
  <2> SUFFICES ASSUME LineFollowsRegisters, [Next]_vars PROVE LineFollowsRegisters'
    BY SMTT(30)
  <2>1. \/ UpdateIrq
        \/ ReplaceIrqSink
        \/ UNCHANGED <<ier, mcr, fcrEnabled, rxTrigger, msrDelta, rx, overrun,
                       threPending, ctiPending, irq>>
    BY SMTT(30) DEF Next, GuestRead, GuestWrite, Reader, InjectRx, TickCti, TimeoutElapses,
           ReadRBR, ReadIIR, ReadLSR, ReadMSR, WriteTHR, WriteIER, WriteFCR,
           WriteLCR, WriteMCR, vars, regs, msr
  <2>2. CASE UNCHANGED <<ier, mcr, fcrEnabled, rxTrigger, msrDelta, rx, overrun,
                         threPending, ctiPending, irq>>
    BY <2>2 DEF LineFollowsRegisters, Asserted, PendingInterrupt, Source,
                RdaThreshold, irq
  <2> QED
    BY <2>1, <2>2, UpdateIrqRestores, ReplaceIrqSinkRestores
<1> QED
  BY <1>1, <1>2, PTL DEF Spec

-----------------------------------------------------------------------------
\* A character timeout is pending only while there are bytes to report.
THEOREM CtiCorrect == Spec => []CtiNeedsData
<1>1. Init => CtiNeedsData
  BY DEF Init, CtiNeedsData
<1>2. CtiNeedsData /\ TypeOK /\ [Next]_vars => CtiNeedsData'
  <2> SUFFICES ASSUME CtiNeedsData, TypeOK, [Next]_vars PROVE CtiNeedsData'
    OBVIOUS
  <2>1. ASSUME NEW b \in Bytes, WriteTHR(b) PROVE CtiNeedsData'
    <3>1. Append(rx, b) # <<>>
      BY AppendProperties DEF TypeOK
    <3> QED
      BY <2>1, <3>1 DEF WriteTHR, CtiNeedsData
  <2>2. CASE \E enable, clearRx \in BOOLEAN, code \in TriggerCodes :
               WriteFCR(enable, clearRx, code)
    BY <2>2, Zenon DEF WriteFCR, CtiNeedsData
  <2>3. CASE \E value \in McrValues : WriteMCR(value)
    BY <2>3, Zenon DEF WriteMCR, CtiNeedsData
  <2>4. CASE GuestRead \/ TickCti \/ TimeoutElapses \/ ReplaceIrqSink
    BY <2>4, Zenon DEF GuestRead, ReadRBR, ReadIIR, ReadLSR, ReadMSR, TickCti,
                TimeoutElapses, ReplaceIrqSink, CtiNeedsData, TypeOK
  <2>5. CASE \E bs \in Batches : InjectRx(bs)
    BY <2>5 DEF InjectRx, CtiNeedsData
  <2>6. CASE \/ \E value \in IerValues : WriteIER(value)
             \/ \E bank \in BOOLEAN : WriteLCR(bank)
             \/ UNCHANGED vars
    BY <2>6, Zenon DEF WriteIER, WriteLCR, vars, CtiNeedsData
  <2> QED
    BY <2>1, <2>2, <2>3, <2>4, <2>5, <2>6 DEF Next, GuestWrite, Reader
<1> QED
  BY <1>1, <1>2, TypeCorrect, PTL DEF Spec

-----------------------------------------------------------------------------
(* The virtio-pci function.                                                 *)

\* Every register access of the function keeps every variable in its type.
THEOREM FunctionTypeCorrect == FunctionSpec => []FunctionTypeOK
<1>1. FunctionInit => FunctionTypeOK
  <2> SUFFICES ASSUME FunctionInit PROVE FunctionTypeOK
    OBVIOUS
  <2>0. /\ size \in [Queues -> Nat] /\ ready \in [Queues -> BOOLEAN]
        /\ queueVector \in [Queues -> Vector]
    BY DEF FunctionInit, Vector, QUEUE_SIZE_MAX
  <2>1. queueSelect \in 0..NumQueues /\ sent \in SUBSET Vector
    BY VirtioPciAssumption DEF FunctionInit
  <2>2. masked \in [Vectors -> BOOLEAN] /\ pending \in [Vectors -> BOOLEAN]
    BY DEF FunctionInit
  <2>3. isr \in BOOLEAN /\ intxLine \in BOOLEAN /\ enabled \in BOOLEAN /\ funcMasked \in BOOLEAN
    BY Zenon DEF FunctionInit
  <2> QED
    BY <2>0, <2>1, <2>2, <2>3 DEF FunctionTypeOK
<1>2. FunctionTypeOK /\ [FunctionNext]_functionVars => FunctionTypeOK'
  <2> SUFFICES ASSUME FunctionTypeOK, [FunctionNext]_functionVars PROVE FunctionTypeOK'
    OBVIOUS
  <2> USE DEF FunctionTypeOK, config, intx, msix
  <2>1. ASSUME NEW q \in Queues, NEW completed \in BOOLEAN, Notify(q, completed)
        PROVE  FunctionTypeOK'
    <3>1. UNCHANGED <<config, msix>>
      BY <2>1 DEF Notify
    <3>2. CASE ~completed
      BY <2>1, <3>1, <3>2 DEF Notify
    <3>3. CASE completed /\ ~enabled
      BY <2>1, <3>1, <3>3 DEF Notify, RaiseQueueInterrupt
    <3>4. CASE completed /\ enabled
      <4>1. SignalMsix(queueVector[q]) /\ UNCHANGED intx
        BY <2>1, <3>4 DEF Notify, RaiseQueueInterrupt
      <4>2. pending' \in [Vectors -> BOOLEAN]
        BY <4>1, Zenon DEF SignalMsix
      <4>3. sent' \in SUBSET Vector
        BY <4>1 DEF SignalMsix, Vector
      <4> QED BY <3>1, <4>1, <4>2, <4>3
    <3> QED BY <3>2, <3>3, <3>4
  <2>2. CASE ReadIsr
    BY <2>2, Zenon DEF ReadIsr
  <2>3. CASE WriteStatusZero
    <3>1. /\ size' \in [Queues -> Nat]
          /\ ready' \in [Queues -> BOOLEAN]
          /\ queueVector' \in [Queues -> Vector]
      BY <2>3 DEF WriteStatusZero, Reset, Vector, QUEUE_SIZE_MAX
    <3>2. queueSelect' \in 0..NumQueues /\ sent' \in SUBSET Vector
      BY <2>3, VirtioPciAssumption DEF WriteStatusZero, Reset
    <3>3. isr' \in BOOLEAN /\ intxLine' \in BOOLEAN /\ pending' \in [Vectors -> BOOLEAN]
      BY <2>3, Zenon DEF WriteStatusZero, Reset
    <3> QED
      BY <2>3, <3>1, <3>2, <3>3 DEF WriteStatusZero
  <2>4. ASSUME NEW n \in 0..NumQueues, SelectQueue(n) PROVE FunctionTypeOK'
    BY <2>4 DEF SelectQueue
  <2>5. ASSUME NEW n \in QueueSizes, WriteQueueSize(n) PROVE FunctionTypeOK'
    BY <2>5, VirtioPciAssumption DEF WriteQueueSize
  <2>6. ASSUME NEW b \in BOOLEAN, WriteQueueEnable(b) PROVE FunctionTypeOK'
    BY <2>6 DEF WriteQueueEnable
  <2>7. ASSUME NEW v \in Vector, WriteQueueVector(v) PROVE FunctionTypeOK'
    BY <2>7 DEF WriteQueueVector
  <2>8. ASSUME NEW v \in Vectors, NEW mask \in BOOLEAN, MsixTableWrite(v, mask)
        PROVE  FunctionTypeOK'
    BY <2>8 DEF MsixTableWrite, DeliverPending, Vector
  <2>9. ASSUME NEW enable \in BOOLEAN, NEW mask \in BOOLEAN, ConfigWrite(enable, mask)
        PROVE  FunctionTypeOK'
    BY <2>9 DEF ConfigWrite, DeliverPending, Vector
  <2>10. CASE UNCHANGED functionVars
    BY <2>10 DEF functionVars
  <2> QED
    BY <2>1, <2>2, <2>3, <2>4, <2>5, <2>6, <2>7, <2>8, <2>9, <2>10
       DEF FunctionNext, CommonCfgWrite
<1> QED
  BY <1>1, <1>2, PTL DEF FunctionSpec

\* After deliver_pending nothing that can be delivered is pending.
LEMMA DeliverPendingReleases ==
  ASSUME DeliverPending PROVE NoStrandedVector'
BY Zenon DEF DeliverPending, NoStrandedVector, Deliverable

\* Whatever the order in which a vector is unmasked, the function mask lifted
\* and MSI-X enabled, no interrupt stays pending on a vector that is open.
THEOREM NoVectorIsStranded == FunctionSpec => []NoStrandedVector
<1>1. FunctionInit => NoStrandedVector
  BY DEF FunctionInit, NoStrandedVector
<1>2. FunctionTypeOK /\ NoStrandedVector /\ [FunctionNext]_functionVars => NoStrandedVector'
  <2> SUFFICES ASSUME FunctionTypeOK, NoStrandedVector, [FunctionNext]_functionVars
                      PROVE NoStrandedVector'
    OBVIOUS
  <2>1. ASSUME NEW q \in Queues, NEW completed \in BOOLEAN, Notify(q, completed)
        PROVE  NoStrandedVector'
    <3>1. UNCHANGED msix
      BY <2>1 DEF Notify
    <3>2. CASE UNCHANGED pending
      BY <3>1, <3>2 DEF NoStrandedVector, Deliverable, msix
    <3>3. CASE \E v \in Vectors : /\ funcMasked \/ masked[v]
                                  /\ pending' = [pending EXCEPT ![v] = TRUE]
      BY <3>1, <3>3 DEF NoStrandedVector, Deliverable, msix, FunctionTypeOK
    <3> QED
      BY <2>1, <3>2, <3>3 DEF Notify, RaiseQueueInterrupt, SignalMsix, intx
  <2>2. ASSUME UNCHANGED <<msix, pending>> PROVE NoStrandedVector'
    BY <2>2 DEF msix, NoStrandedVector, Deliverable
  <2>3. CASE CommonCfgWrite
    <3>1. CASE WriteStatusZero
      BY <3>1 DEF WriteStatusZero, Reset, NoStrandedVector
    <3> QED
      BY <2>2, <2>3, <3>1 DEF CommonCfgWrite, SelectQueue, WriteQueueSize,
                              WriteQueueEnable, WriteQueueVector
  <2>4. ASSUME NEW v \in Vectors, NEW mask \in BOOLEAN, MsixTableWrite(v, mask)
        PROVE  NoStrandedVector'
    BY <2>4, DeliverPendingReleases DEF MsixTableWrite
  <2>5. ASSUME NEW enable \in BOOLEAN, NEW mask \in BOOLEAN, ConfigWrite(enable, mask)
        PROVE  NoStrandedVector'
    BY <2>5, DeliverPendingReleases DEF ConfigWrite
  <2> QED
    BY <2>1, <2>2, <2>3, <2>4, <2>5 DEF FunctionNext, ReadIsr, functionVars
<1> QED
  BY <1>1, <1>2, FunctionTypeCorrect, PTL DEF FunctionSpec

\* The INTx line and the ISR register rise and fall together.
THEOREM IntxCorrect == FunctionSpec => []IntxFollowsIsr
<1>1. FunctionInit => IntxFollowsIsr
  BY Zenon DEF FunctionInit, IntxFollowsIsr
<1>2. IntxFollowsIsr /\ [FunctionNext]_functionVars => IntxFollowsIsr'
  <2> SUFFICES ASSUME IntxFollowsIsr, [FunctionNext]_functionVars PROVE IntxFollowsIsr'
    OBVIOUS
  <2>1. ASSUME UNCHANGED intx PROVE IntxFollowsIsr'
    BY <2>1 DEF intx, IntxFollowsIsr
  <2>2. ASSUME intxLine' = isr' PROVE IntxFollowsIsr'
    BY <2>2 DEF IntxFollowsIsr
  <2>3. ASSUME NEW q \in Queues, NEW completed \in BOOLEAN, Notify(q, completed)
        PROVE  IntxFollowsIsr'
    BY <2>1, <2>2, <2>3, Zenon DEF Notify, RaiseQueueInterrupt, intx
  <2>4. CASE ReadIsr \/ CommonCfgWrite
    BY <2>1, <2>2, <2>4, Zenon DEF ReadIsr, CommonCfgWrite, WriteStatusZero, Reset, SelectQueue,
                            WriteQueueSize, WriteQueueEnable, WriteQueueVector, intx
  <2> QED
    BY <2>1, <2>3, <2>4 DEF FunctionNext, functionVars, MsixTableWrite, ConfigWrite
<1> QED
  BY <1>1, <1>2, PTL DEF FunctionSpec

\* A pending bit is cleared only by injecting its message or by a reset.
THEOREM PendingPaidCorrect == FunctionSpec => PendingIsPaid
<1> DEFINE Paid == \A v \in Vectors :
             pending[v] /\ ~pending'[v] => v \in sent' \/ WriteStatusZero
<1>1. FunctionTypeOK /\ [FunctionNext]_functionVars => [Paid]_functionVars
  <2> SUFFICES ASSUME FunctionTypeOK, FunctionNext PROVE Paid
    OBVIOUS
  <2>1. ASSUME NEW q \in Queues, NEW completed \in BOOLEAN, Notify(q, completed)
        PROVE  Paid
    BY <2>1 DEF Notify, RaiseQueueInterrupt, SignalMsix, FunctionTypeOK
  <2>2. CASE ReadIsr \/ CommonCfgWrite
    BY <2>2 DEF ReadIsr, CommonCfgWrite, SelectQueue, WriteQueueSize,
                WriteQueueEnable, WriteQueueVector
  <2>3. ASSUME DeliverPending PROVE Paid
    BY <2>3, Zenon DEF DeliverPending
  <2> QED
    BY <2>1, <2>2, <2>3 DEF FunctionNext, MsixTableWrite, ConfigWrite
<1> QED
  BY <1>1, FunctionTypeCorrect, PTL DEF FunctionSpec, PendingIsPaid

\* No access injects a message for a vector that it leaves masked or disabled.
THEOREM MaskedSilentCorrect == FunctionSpec => MaskedIsSilent
<1> DEFINE Silent == \A v \in sent' \ {NO_VECTOR} : Deliverable(v)'
<1>1. FunctionTypeOK /\ [FunctionNext]_functionVars => [Silent]_functionVars
  <2> SUFFICES ASSUME FunctionTypeOK, FunctionNext PROVE Silent
    OBVIOUS
  <2>1. ASSUME NEW q \in Queues, NEW completed \in BOOLEAN, Notify(q, completed)
        PROVE  Silent
    BY <2>1 DEF Notify, RaiseQueueInterrupt, SignalMsix, Deliverable, msix
  <2>2. CASE ReadIsr \/ CommonCfgWrite
    BY <2>2 DEF ReadIsr, CommonCfgWrite, WriteStatusZero, SelectQueue, WriteQueueSize,
                WriteQueueEnable, WriteQueueVector
  <2>3. ASSUME DeliverPending PROVE Silent
    BY <2>3 DEF DeliverPending, Deliverable
  <2> QED
    BY <2>1, <2>2, <2>3 DEF FunctionNext, MsixTableWrite, ConfigWrite
<1> QED
  BY <1>1, FunctionTypeCorrect, PTL DEF FunctionSpec, MaskedIsSilent

-----------------------------------------------------------------------------
(* The console reader.                                                      *)

\* A non-empty set of naturals has a least element.
LEMMA LeastElement ==
  ASSUME NEW T, T \subseteq Nat, T # {}
  PROVE  \E x \in T : \A y \in T : x <= y
<1> DEFINE R == OpToRel(<, Nat)
<1>1. PICK x \in T : \A y \in T : ~(<<y, x>> \in R)
  <2> HIDE DEF R
  <2>1. IsWellFoundedOn(R, Nat)
    BY NatLessThanWellFounded DEF R
  <2> QED BY <2>1, WFMin, Zenon
<1>2. \A y \in T : x <= y
  <2> TAKE y \in T
  <2>1. ~(<<y, x>> \in R)
    BY <1>1
  <2>2. x \in Nat /\ y \in Nat
    OBVIOUS
  <2> QED BY <2>1, <2>2 DEF OpToRel
<1> QED BY <1>2

\* A run of ^A of length n ends right before position i and is not longer.
RunBefore(s, i, n) ==
  /\ n \in 0..(i - 1)
  /\ \A j \in (i - n)..(i - 1) : s[j] = "^A"
  /\ i - n = 1 \/ s[i - n - 1] # "^A"

LEMMA EscapedByRun ==
  ASSUME NEW s, NEW i \in Nat \ {0}
  PROVE  Escaped(s, i) <=> \E n \in Nat : n % 2 = 1 /\ RunBefore(s, i, n)
BY DEF Escaped, RunBefore

\* Before every position there is one such run,
LEMMA RunExists ==
  ASSUME NEW s, NEW i \in Nat \ {0}
  PROVE  \E n \in Nat : RunBefore(s, i, n)
<1> DEFINE T == {p \in 1..i : \A j \in p..(i - 1) : s[j] = "^A"}
<1>1. T \subseteq Nat /\ i \in T
  OBVIOUS
<1>2. PICK p \in T : \A q \in T : p <= q
  <2> HIDE DEF T
  <2> QED BY <1>1, LeastElement, Zenon
<1>3. p \in 1..i /\ \A j \in p..(i - 1) : s[j] = "^A"
  OBVIOUS
<1>4. p = 1 \/ s[p - 1] # "^A"
  <2> SUFFICES ASSUME p # 1, s[p - 1] = "^A" PROVE FALSE
    OBVIOUS
  <2>1. p - 1 \in 1..i /\ \A j \in (p - 1)..(i - 1) : s[j] = "^A"
    BY <1>3
  <2> QED BY <1>2, <1>3, <2>1
<1> WITNESS i - p \in Nat
<1>5. i - (i - p) = p
  BY <1>3
<1> QED BY <1>3, <1>4, <1>5 DEF RunBefore

\* and no other.
LEMMA RunUnique ==
  ASSUME NEW s, NEW i \in Nat \ {0}, NEW m \in Nat, NEW n \in Nat,
         RunBefore(s, i, m), RunBefore(s, i, n)
  PROVE  ~(m < n)
<1> SUFFICES ASSUME m < n PROVE FALSE
  OBVIOUS
<1>1. i - m - 1 \in (i - n)..(i - 1) /\ i - m # 1
  BY DEF RunBefore
<1> QED BY <1>1 DEF RunBefore

\* The escape machine in one line: a byte is escaped exactly when the one
\* before it is a ^A that is not escaped itself.
LEMMA EscapedStep ==
  ASSUME NEW s, NEW i \in Nat \ {0}
  PROVE  Escaped(s, i + 1) <=> s[i] = "^A" /\ ~Escaped(s, i)
<1>1. PICK m \in Nat : RunBefore(s, i, m)
  BY RunExists
<1>2. Escaped(s, i) <=> m % 2 = 1
  <2>1. \A n \in Nat : RunBefore(s, i, n) => n = m
    BY <1>1, RunUnique
  <2> QED BY <1>1, <2>1, EscapedByRun
<1>3. CASE s[i] # "^A"
  <2>1. \A n \in Nat : RunBefore(s, i + 1, n) => n = 0
    BY <1>3 DEF RunBefore
  <2> QED BY <1>3, <2>1, EscapedByRun
<1>4. CASE s[i] = "^A"
  <2>1. RunBefore(s, i + 1, m + 1)
    <3>1. m \in 0..(i - 1) /\ \A j \in (i - m)..(i - 1) : s[j] = "^A"
      BY <1>1 DEF RunBefore
    <3>2. (i + 1) - (m + 1) = i - m
      OBVIOUS
    <3>3. \A j \in (i - m)..i : s[j] = "^A"
      BY <1>4, <3>1
    <3>4. i - m = 1 \/ s[i - m - 1] # "^A"
      BY <1>1 DEF RunBefore
    <3> QED BY <3>1, <3>2, <3>3, <3>4 DEF RunBefore
  <2>2. \A n \in Nat : RunBefore(s, i + 1, n) => n = m + 1
    BY <2>1, RunUnique
  <2>3. Escaped(s, i + 1) <=> (m + 1) % 2 = 1
    BY <2>1, <2>2, EscapedByRun
  <2>4. (m + 1) % 2 = 1 <=> ~(m % 2 = 1)
    OBVIOUS
  <2> QED BY <1>2, <1>4, <2>3, <2>4
<1> QED BY <1>3, <1>4

\* What a byte means is settled by the bytes up to it.
LEMMA EscapedPrefix ==
  ASSUME NEW s \in Seq(Keys), NEW t \in Seq(Keys), NEW i \in 1..(Len(s) + 1)
  PROVE  Escaped(s \o t, i) <=> Escaped(s, i)
<1>1. \A j \in 1..(i - 1) : (s \o t)[j] = s[j]
  OBVIOUS
<1>2. \A n \in 1..(i - 1) : \A j \in (i - n)..(i - 1) : (s \o t)[j] = s[j]
  BY <1>1
<1>3. \A n \in 1..(i - 1) : i - n # 1 => (s \o t)[i - n - 1] = s[i - n - 1]
  BY <1>1
<1> QED BY <1>2, <1>3, SMTT(30) DEF Escaped

LEMMA MeaningPrefix ==
  ASSUME NEW s \in Seq(Keys), NEW t \in Seq(Keys), NEW i \in 1..Len(s)
  PROVE  /\ QuitsAt(s \o t, i) <=> QuitsAt(s, i)
         /\ ForGuest(s \o t, i) <=> ForGuest(s, i)
<1>1. (s \o t)[i] = s[i]
  OBVIOUS
<1>2. Escaped(s \o t, i) <=> Escaped(s, i)
  BY EscapedPrefix
<1> QED BY <1>1, <1>2 DEF QuitsAt, ForGuest

\* The places of Meant among the first d.
MeantIn(s, d) ==
  {i \in 1..d : ForGuest(s, i) /\ \A j \in 1..(i - 1) : ~QuitsAt(s, j)}

\* What the bytes at these places are, in order.
Spells(out, s, places) ==
  /\ Len(out) = Cardinality(places)
  /\ \A i \in places : out[Cardinality({p \in places : p <= i})] = s[i]

LEMMA MeantPrefix ==
  ASSUME NEW s \in Seq(Keys), NEW t \in Seq(Keys), NEW out,
         Spells(out, s, MeantIn(s, Len(s)))
  PROVE  Spells(out, s \o t, MeantIn(s \o t, Len(s)))
<1>1. MeantIn(s \o t, Len(s)) = MeantIn(s, Len(s))
  <2>1. \A i \in 1..Len(s) : \A j \in 1..(i - 1) : j \in 1..Len(s)
    OBVIOUS
  <2> QED BY <2>1, MeaningPrefix DEF MeantIn
<1>2. \A i \in 1..Len(s) : (s \o t)[i] = s[i]
  OBVIOUS
<1>3. MeantIn(s, Len(s)) \subseteq 1..Len(s)
  BY DEF MeantIn
<1> QED BY <1>1, <1>2, <1>3 DEF Spells

\* One more byte for the guest is one more byte given to it.
LEMMA SpellsOneMore ==
  ASSUME NEW s, NEW d \in Nat, NEW P, P \subseteq 1..d,
         NEW out \in Seq(Keys), Spells(out, s, P), NEW b \in Keys, b = s[d + 1]
  PROVE  Spells(Append(out, b), s, P \cup {d + 1})
<1> DEFINE Q == P \cup {d + 1}
<1>1. IsFiniteSet(P)
  <2>1. IsFiniteSet(1..d)
    BY FS_Interval
  <2> QED BY <2>1, FS_Subset, Zenon
<1>2. Cardinality(P) \in Nat /\ Cardinality(Q) = Cardinality(P) + 1
  <2>1. d + 1 \notin P
    OBVIOUS
  <2> QED BY <1>1, <2>1, FS_AddElement, FS_CardinalityType
<1>3. Len(out) = Cardinality(P)
  BY DEF Spells
<1>4. Len(Append(out, b)) = Cardinality(Q)
  BY <1>2, <1>3
<1>5. ASSUME NEW i \in P
      PROVE  Append(out, b)[Cardinality({p \in Q : p <= i})] = s[i]
  <2> DEFINE R == {p \in P : p <= i}
  <2>1. {p \in Q : p <= i} = R
    OBVIOUS
  <2>2. R \subseteq P /\ i \in R
    OBVIOUS
  <2>3. IsFiniteSet(R) /\ Cardinality(R) <= Cardinality(P) /\ Cardinality(R) \in Nat
    BY <1>1, <2>2, FS_Subset, FS_CardinalityType
  <2>4. Cardinality(R) # 0
    BY <2>2, <2>3, FS_EmptySet, Zenon
  <2>5. out[Cardinality(R)] = s[i]
    BY DEF Spells
  <2> HIDE DEF R
  <2>6. Cardinality(R) \in 1..Len(out)
    BY <1>2, <1>3, <2>3, <2>4
  <2>7. Append(out, b)[Cardinality(R)] = out[Cardinality(R)]
    BY <2>6
  <2> QED BY <2>1, <2>5, <2>7, Zenon
<1>6. {p \in Q : p <= d + 1} = Q
  <2>1. \A p \in Q : p <= d + 1
    OBVIOUS
  <2> HIDE DEF Q
  <2> QED BY <2>1
<1>7. Append(out, b)[Cardinality(Q)] = s[d + 1]
  BY <1>2, <1>3
<1> QED BY <1>4, <1>5, <1>6, <1>7, Zenon DEF Spells

\* How many of the bytes read went through the escape machine, a quit taking
\* the rest of its batch with it.
Decoded == Len(consumed) - Len(buf)

\* The bytes for the guest so far: those injected, and those the batch holds.
Forwarded ==
  IF reader \in {"decode", "inject"} THEN injected \o batch.forward ELSE injected

\* The reader has not met a quit.
NoQuitYet ==
  reader \in {"loop", "decode"} \/ (reader \in {"inject", "finish"} /\ ~batch.quit)

ConsoleTypeOK ==
  /\ {tty, buf, consumed, injected} \subseteq Seq(Keys)
  /\ reader \in {"loop", "decode", "inject", "finish", "gone"}
  /\ prefixSeen \in BOOLEAN
  /\ batch \in [forward : Seq(Keys), help : BOOLEAN, quit : BOOLEAN]

\* The inductive invariant: buf is what is left of consumed, the escape machine
\* is in the state that the stream before it calls for, and the bytes forwarded
\* are the ones the decoded part of the stream means for the guest.
ConsoleInv ==
  /\ ConsoleTypeOK
  /\ reader = "decode" <=> buf # <<>>
  /\ Len(buf) <= Len(consumed)
  /\ \A i \in 1..Len(buf) : buf[i] = consumed[Decoded + i]
  /\ NoQuitYet =>
       /\ prefixSeen <=> Escaped(consumed, Decoded + 1)
       /\ \A j \in 1..Decoded : ~QuitsAt(consumed, j)
  /\ Spells(Forwarded, consumed, MeantIn(consumed, Decoded))

\* EscapeState::feed decides as the reference does.
LEMMA FeedIsRight ==
  ASSUME NEW s, NEW i \in Nat \ {0}, NEW prefix \in BOOLEAN, prefix <=> Escaped(s, i)
  PROVE  /\ feed(prefix, s[i]) = "Quit" <=> QuitsAt(s, i)
         /\ feed(prefix, s[i]) = "Forward" <=> ForGuest(s, i)
         /\ feed(prefix, s[i]) = "Swallowed" <=> Escaped(s, i + 1)
<1>1. Escaped(s, i + 1) <=> s[i] = "^A" /\ ~prefix
  BY EscapedStep
<1> QED BY <1>1 DEF feed, QuitsAt, ForGuest

\* The places meant for the guest after one more byte.
LEMMA MeantInNext ==
  ASSUME NEW s, NEW d \in Nat, \A j \in 1..d : ~QuitsAt(s, j)
  PROVE  MeantIn(s, d + 1) = MeantIn(s, d) \cup (IF ForGuest(s, d + 1) THEN {d + 1} ELSE {})
<1>1. 1..(d + 1) = (1..d) \cup {d + 1}
  OBVIOUS
<1>2. \A j \in 1..((d + 1) - 1) : ~QuitsAt(s, j)
  OBVIOUS
<1> QED BY <1>1, <1>2 DEF MeantIn

\* Nothing after a quit is meant for the guest.
LEMMA MeantInQuit ==
  ASSUME NEW s, NEW d \in Nat, NEW e \in Nat, d + 1 <= e, QuitsAt(s, d + 1)
  PROVE  MeantIn(s, e) = MeantIn(s, d)
<1>1. ~ForGuest(s, d + 1)
  BY DEF QuitsAt, ForGuest
<1>2. \A i \in 1..e : i \in 1..d \/ i = d + 1 \/ d + 1 \in 1..(i - 1)
  OBVIOUS
<1>3. 1..d \subseteq 1..e
  OBVIOUS
<1> QED BY <1>1, <1>2, <1>3 DEF MeantIn

LEMMA ConsoleInitInv == ConsoleInit => ConsoleInv
<1> SUFFICES ASSUME ConsoleInit PROVE ConsoleInv
  OBVIOUS
<1>1. ConsoleTypeOK
  <2>1. <<>> \in Seq(Keys)
    OBVIOUS
  <2>2. NewBatch \in [forward : Seq(Keys), help : BOOLEAN, quit : BOOLEAN]
    BY <2>1, Zenon DEF NewBatch
  <2> QED BY <2>1, <2>2, Zenon DEF ConsoleInit, ConsoleTypeOK
<1>2. Len(buf) = 0 /\ Len(consumed) = 0 /\ Decoded = 0 /\ Forwarded = <<>>
  BY DEF ConsoleInit, Decoded, Forwarded
<1>3. ~Escaped(consumed, 0 + 1)
  BY DEF Escaped
<1>4. MeantIn(consumed, 0) = {} /\ Cardinality({}) = 0
  BY FS_EmptySet DEF MeantIn
<1>5. Spells(Forwarded, consumed, MeantIn(consumed, Decoded))
  BY <1>2, <1>4, Zenon DEF Spells
<1> QED BY <1>1, <1>2, <1>3, <1>5 DEF ConsoleInit, ConsoleInv

\* Steps that touch neither the stream read nor what comes of it.
LEMMA ConsoleIdle ==
  ASSUME ConsoleInv, ConsoleTypeOK',
         UNCHANGED <<prefixSeen, buf, batch, consumed, injected>>,
         reader' = reader \/ (reader = "loop" /\ reader' = "gone")
  PROVE  ConsoleInv'
<1>1. Forwarded' = Forwarded /\ Decoded' = Decoded
  BY DEF Forwarded, Decoded
<1>2. NoQuitYet' => NoQuitYet
  BY DEF NoQuitYet
<1>3. reader' = "decode" <=> buf' # <<>>
  BY DEF ConsoleInv
<1> QED BY <1>1, <1>2, <1>3 DEF ConsoleInv

LEMMA ReadBatchInv ==
  ASSUME ConsoleInv, ReadBatch
  PROVE  ConsoleInv'
<1>1. PICK n \in 1..Batch : n <= Len(tty) /\ buf' = SubSeq(tty, 1, n)
                            /\ tty' = SubSeq(tty, n + 1, Len(tty))
  BY DEF ReadBatch
<1>2. /\ {tty, consumed, injected} \subseteq Seq(Keys)
      /\ reader = "loop" /\ buf = <<>>
  BY DEF ConsoleInv, ConsoleTypeOK, ReadBatch
<1>3. /\ consumed' = consumed \o buf' /\ injected' = injected /\ prefixSeen' = prefixSeen
      /\ batch' = NewBatch /\ reader' = "decode"
  BY DEF ReadBatch
<1>4. buf' \in Seq(Keys) /\ Len(buf') = n /\ tty' \in Seq(Keys) /\ n \in Nat \ {0}
  BY <1>1, <1>2, ConsoleAssumption
<1> DEFINE d == Len(consumed)
<1>5. d \in Nat /\ Decoded = d
  BY <1>2 DEF Decoded
<1>6. consumed' \in Seq(Keys) /\ Len(consumed') = d + n /\ Decoded' = d
  <2>1. consumed \in Seq(Keys) /\ consumed' = consumed \o buf'
    BY <1>2, <1>3
  <2>2. consumed' \in Seq(Keys) /\ Len(consumed') = d + n
    BY <1>4, <2>1, ConcatProperties
  <2> HIDE DEF d
  <2> QED BY <1>4, <1>5, <2>2 DEF Decoded
<1>7. ConsoleTypeOK'
  BY <1>2, <1>3, <1>4, <1>6 DEF ConsoleTypeOK, ConsoleInv, NewBatch
<1>8. \A i \in 1..Len(buf') : buf'[i] = consumed'[d + i]
  BY <1>2, <1>3, <1>4
<1>9. prefixSeen' <=> Escaped(consumed', d + 1)
  <2>1. prefixSeen <=> Escaped(consumed, d + 1)
    BY <1>2, <1>5 DEF ConsoleInv, NoQuitYet
  <2> QED BY <1>2, <1>3, <1>4, <1>5, <2>1, EscapedPrefix
<1>10. \A j \in 1..d : ~QuitsAt(consumed', j)
  <2>1. \A j \in 1..d : ~QuitsAt(consumed, j)
    BY <1>2, <1>5 DEF ConsoleInv, NoQuitYet
  <2> QED BY <1>2, <1>3, <1>4, <1>5, <2>1, MeaningPrefix
<1>11. Forwarded = injected /\ Forwarded' = injected
  BY <1>2, <1>3 DEF Forwarded, NewBatch
<1>12. Spells(injected, consumed, MeantIn(consumed, d))
  BY <1>5, <1>11 DEF ConsoleInv
<1>13. Spells(injected, consumed', MeantIn(consumed', d))
  BY <1>2, <1>3, <1>4, <1>12, MeantPrefix
<1>14. buf' # <<>>
  BY <1>4
<1> HIDE DEF d
<1>15. Spells(Forwarded', consumed', MeantIn(consumed', Decoded'))
  BY <1>6, <1>11, <1>13
<1> QED BY <1>3, <1>4, <1>5, <1>6, <1>7, <1>8, <1>9, <1>10, <1>14, <1>15 DEF ConsoleInv

\* One byte through the escape machine.
LEMMA DecodeByteInv ==
  ASSUME ConsoleInv, DecodeByte
  PROVE  ConsoleInv'
<1> DEFINE d == Decoded
           b == Head(buf)
           action == feed(prefixSeen, b)
<1>1. /\ consumed \in Seq(Keys) /\ injected \in Seq(Keys) /\ buf \in Seq(Keys)
      /\ batch \in [forward : Seq(Keys), help : BOOLEAN, quit : BOOLEAN]
      /\ prefixSeen \in BOOLEAN /\ reader = "decode" /\ buf # <<>>
  BY Zenon DEF ConsoleInv, ConsoleTypeOK, DecodeByte
<1>2. Len(buf) \in Nat \ {0} /\ Len(consumed) \in Nat /\ Len(buf) <= Len(consumed)
  BY <1>1 DEF ConsoleInv
<1>3. d \in Nat /\ d + Len(buf) = Len(consumed)
  BY <1>2 DEF Decoded
<1>4. b \in Keys /\ b = consumed[d + 1]
  <2>1. b = buf[1] /\ 1 \in 1..Len(buf)
    BY <1>1, <1>2
  <2>2. buf[1] = consumed[Decoded + 1]
    BY <2>1 DEF ConsoleInv
  <2> QED BY <1>1, <2>1, <2>2
<1>5. /\ prefixSeen <=> Escaped(consumed, d + 1)
      /\ \A j \in 1..d : ~QuitsAt(consumed, j)
  BY <1>1 DEF ConsoleInv, NoQuitYet
<1> HIDE DEF d, b
<1>6. /\ action = "Quit" <=> QuitsAt(consumed, d + 1)
      /\ action = "Forward" <=> ForGuest(consumed, d + 1)
      /\ action = "Swallowed" <=> Escaped(consumed, (d + 1) + 1)
  <2>1. d + 1 \in Nat \ {0}
    BY <1>3
  <2> QED BY <1>1, <1>4, <1>5, <2>1, FeedIsRight
<1> HIDE DEF action
<1>7. /\ prefixSeen' = (action = "Swallowed") /\ consumed' = consumed /\ injected' = injected
      /\ batch' = [forward |-> IF action = "Forward" THEN Append(batch.forward, b)
                               ELSE batch.forward,
                   help    |-> batch.help \/ action = "Help",
                   quit    |-> action = "Quit"]
      /\ buf' = IF action = "Quit" THEN <<>> ELSE Tail(buf)
      /\ reader' = IF buf' = <<>> THEN "inject" ELSE "decode"
      /\ tty' = tty
  BY DEF DecodeByte, action, b
<1>8. ConsoleTypeOK'
  <2>1. buf' \in Seq(Keys)
    BY <1>1, <1>7
  <2>2. batch'.forward \in Seq(Keys) /\ batch.forward \in Seq(Keys)
    BY <1>1, <1>4, <1>7
  <2>3. batch' \in [forward : Seq(Keys), help : BOOLEAN, quit : BOOLEAN]
    BY <1>1, <1>7, <2>2
  <2>4. reader' \in {"inject", "decode"} /\ prefixSeen' \in BOOLEAN
    BY <1>7
  <2> QED BY <1>7, <2>1, <2>3, <2>4 DEF ConsoleInv, ConsoleTypeOK
<1>9. batch'.forward = IF action = "Forward" THEN Append(batch.forward, b) ELSE batch.forward
  BY <1>7
<1>10. batch'.quit <=> action = "Quit"
  BY <1>7, Zenon
<1>11. Forwarded' = IF action = "Forward" THEN Append(Forwarded, b) ELSE Forwarded
  <2>1. Forwarded = injected \o batch.forward /\ Forwarded' = injected \o batch'.forward
    BY <1>1, <1>7, Zenon DEF Forwarded
  <2>2. batch.forward \in Seq(Keys)
    BY <1>1
  <2>3. injected \o Append(batch.forward, b) = Append(injected \o batch.forward, b)
    BY <1>1, <1>4, <2>2
  <2> QED BY <1>9, <2>1, <2>3, Zenon
<1>12. Forwarded \in Seq(Keys)
  BY <1>1 DEF Forwarded
<1>13. Spells(Forwarded, consumed, MeantIn(consumed, d))
  BY DEF ConsoleInv, d
<1>14. CASE action = "Quit"
  <2>1. Decoded' = Len(consumed) /\ buf' = <<>> /\ Len(buf') = 0
    BY <1>2, <1>7, <1>14 DEF Decoded
  <2>2. ~NoQuitYet'
    BY <1>7, <1>10, <1>14, <2>1 DEF NoQuitYet
  <2>3. MeantIn(consumed, Len(consumed)) = MeantIn(consumed, d)
    BY <1>2, <1>3, <1>6, <1>14, MeantInQuit
  <2>4. Spells(Forwarded', consumed', MeantIn(consumed', Decoded'))
    BY <1>7, <1>11, <1>13, <1>14, <2>1, <2>3
  <2> QED BY <1>2, <1>7, <1>8, <2>1, <2>2, <2>4 DEF ConsoleInv
<1>15. CASE action # "Quit"
  <2>1. buf' = Tail(buf) /\ Len(buf') = Len(buf) - 1 /\ Decoded' = d + 1
    <3>1. buf' = Tail(buf) /\ Len(buf') = Len(buf) - 1
      BY <1>1, <1>7, <1>15
    <3>2. Len(consumed') = Len(consumed)
      BY <1>7
    <3> QED BY <1>2, <1>3, <3>1, <3>2 DEF Decoded
  <2>2. \A i \in 1..Len(buf') : buf'[i] = consumed'[Decoded' + i]
    <3> TAKE i \in 1..Len(buf')
    <3>1. buf'[i] = buf[i + 1] /\ i + 1 \in 1..Len(buf)
      BY <1>1, <1>2, <2>1
    <3>2. buf[i + 1] = consumed[d + (i + 1)]
      BY <3>1 DEF ConsoleInv, d
    <3>3. d + (i + 1) = (d + 1) + i
      BY <1>3
    <3> QED BY <1>7, <2>1, <3>1, <3>2, <3>3
  <2>3. prefixSeen' <=> Escaped(consumed', Decoded' + 1)
    BY <1>6, <1>7, <2>1, Zenon
  <2>4. \A j \in 1..Decoded' : ~QuitsAt(consumed', j)
    BY <1>3, <1>5, <1>6, <1>7, <1>15, <2>1
  <2>5. Spells(Forwarded', consumed', MeantIn(consumed', Decoded'))
    <3> DEFINE P == MeantIn(consumed, d)
    <3>1. P \subseteq 1..d
      BY DEF MeantIn
    <3>2. MeantIn(consumed, d + 1) =
            P \cup (IF ForGuest(consumed, d + 1) THEN {d + 1} ELSE {})
      BY <1>3, <1>5, MeantInNext
    <3> HIDE DEF P
    <3>3. CASE action = "Forward"
      <4>1. MeantIn(consumed, d + 1) = P \cup {d + 1}
        BY <1>6, <3>2, <3>3
      <4>2. Spells(Append(Forwarded, b), consumed, P \cup {d + 1})
        BY <1>3, <1>4, <1>12, <1>13, <3>1, SpellsOneMore, SMTT(30) DEF P
      <4> QED BY <1>7, <1>11, <2>1, <3>3, <4>1, <4>2, Zenon
    <3>4. CASE action # "Forward"
      <4>1. MeantIn(consumed, d + 1) = P
        BY <1>6, <3>2, <3>4
      <4> QED BY <1>7, <1>11, <1>13, <2>1, <3>4, <4>1 DEF P
    <3> QED BY <3>3, <3>4
  <2>6. Len(buf') <= Len(consumed') /\ (reader' = "decode" <=> buf' # <<>>)
    BY <1>2, <1>7, <2>1
  <2> QED BY <1>8, <2>2, <2>3, <2>4, <2>5, <2>6 DEF ConsoleInv
<1> QED BY <1>14, <1>15

LEMMA ConsoleNextInv == ConsoleInv /\ [ConsoleNext]_consoleVars => ConsoleInv'
<1> SUFFICES ASSUME ConsoleInv, [ConsoleNext]_consoleVars PROVE ConsoleInv'
  OBVIOUS
<1>1. CASE \E key \in Keys : Type(key)
  <2>1. PICK key \in Keys : Type(key)
    BY <1>1
  <2>2. tty' \in Seq(Keys)
    <3>1. tty \in Seq(Keys) /\ tty' = Append(tty, key)
      BY <2>1, Zenon DEF Type, ConsoleInv, ConsoleTypeOK
    <3> QED BY <3>1, AppendProperties
  <2>3. ConsoleTypeOK'
    BY <2>1, <2>2 DEF Type, ConsoleInv, ConsoleTypeOK
  <2> QED BY <2>1, <2>3, ConsoleIdle DEF Type
<1>2. CASE OthersRequest \/ ReaderReturns \/ InputFails \/ Returned \/ UNCHANGED consoleVars
  <2>1. ConsoleTypeOK'
    BY <1>2 DEF OthersRequest, ReaderReturns, InputFails, Returned, consoleVars, ConsoleInv,
                ConsoleTypeOK
  <2> QED BY <1>2, <2>1, ConsoleIdle
          DEF OthersRequest, ReaderReturns, InputFails, Returned, consoleVars
<1>3. CASE ReadBatch
  BY <1>3, ReadBatchInv
<1>4. CASE DecodeByte
  BY <1>4, DecodeByteInv
<1>5. CASE InjectBatch \/ FinishBatch
  <2>1. ConsoleTypeOK'
    <3>1. injected \in Seq(Keys) /\ batch.forward \in Seq(Keys)
      BY DEF ConsoleInv, ConsoleTypeOK
    <3>2. injected \o batch.forward \in Seq(Keys)
      BY <3>1, ConcatProperties
    <3> QED BY <1>5, <3>1, <3>2, Zenon DEF ConsoleInv, ConsoleTypeOK, InjectBatch, FinishBatch
  <2>2. Forwarded' = Forwarded /\ Decoded' = Decoded
    BY <1>5, Zenon DEF InjectBatch, FinishBatch, Forwarded, Decoded
  <2>3. NoQuitYet' => NoQuitYet
    BY <1>5 DEF InjectBatch, FinishBatch, NoQuitYet
  <2>4. /\ UNCHANGED <<prefixSeen, buf, consumed>>
        /\ reader # "decode" /\ reader' # "decode"
    BY <1>5 DEF InjectBatch, FinishBatch
  <2> QED BY <2>1, <2>2, <2>3, <2>4 DEF ConsoleInv
<1> QED BY <1>1, <1>2, <1>3, <1>4, <1>5 DEF ConsoleNext, ReaderStep

\* However the reads cut the typed bytes, the guest is given exactly the ones
\* meant for it, in order, for every number of keys and every size of a read.
THEOREM KeysCorrect == ConsoleSpec => []KeysReachGuest
<1>1. ConsoleInv => KeysReachGuest
  <2> SUFFICES ASSUME ConsoleInv, reader \notin {"decode", "inject"} PROVE KeysReachGuest
    BY DEF KeysReachGuest
  <2>1. consumed \in Seq(Keys) /\ buf = <<>>
    BY DEF ConsoleInv, ConsoleTypeOK
  <2>2. Decoded = Len(consumed) /\ Forwarded = injected
    BY <2>1 DEF Decoded, Forwarded
  <2>3. Spells(injected, consumed, MeantIn(consumed, Len(consumed)))
    BY <2>2 DEF ConsoleInv
  <2>4. Meant(consumed) = MeantIn(consumed, Len(consumed))
    BY DEF Meant, MeantIn
  <2> QED BY <2>3, <2>4 DEF KeysReachGuest, Spells
<1> QED BY <1>1, ConsoleInitInv, ConsoleNextInv, PTL DEF ConsoleSpec
=============================================================================
