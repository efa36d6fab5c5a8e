----------------------------- MODULE Virtqueue ------------------------------
(***************************************************************************)
(* The split virtqueue of src/virtio/mod.rs: Virtqueue::process, run by the *)
(* vCPU thread that wrote the notify register (under the device's Mutex),   *)
(* against a driver that runs on the other vCPUs and shares the rings with  *)
(* it through guest memory.                                                 *)
(*                                                                          *)
(* The driver is external.  It behaves as src/ relies on: rings in guest    *)
(* RAM, a head in the ring before the index that publishes it, a notify     *)
(* after that, at most QueueSize heads outstanding.  A chain is its head    *)
(* here; walking it is module DescChain's subject.                          *)
(***************************************************************************)
EXTENDS Integers, Sequences

CONSTANTS
  QueueSize,   \* Virtqueue::num
  IdxMod       \* ring indices are u16: 2^16 in the code

\* A power-of-two queue size divides 2^16; the driver never programs another.
ASSUME VirtqueueAssumption ==
  /\ QueueSize \in Nat \ {0}
  /\ IdxMod \in Nat \ {0} /\ IdxMod > QueueSize /\ IdxMod % QueueSize = 0

Slots == 0..(QueueSize - 1)
Heads == 0..(QueueSize - 1)
Index == 0..(IdxMod - 1)

VARIABLES
  availRing, availIdx, usedRing, usedIdx,  \* the rings, in guest memory
  ready, lastAvailIdx,                     \* the device's Virtqueue
  pc, snapshot, head, processed,           \* process: where it is, and its locals,
                                           \* back at their initial values when dead
  irq,                                     \* an interrupt is latched for the driver
  free, seen, inIsr, owesNotify            \* the driver

rings  == <<availRing, availIdx, usedRing, usedIdx>>
locals == <<pc, snapshot, head, processed>>
driver == <<free, seen, inIsr, owesNotify>>
vars   == <<rings, ready, lastAvailIdx, locals, irq, driver>>

ZeroedRing == [s \in Slots |-> 0]

Init ==
  /\ availRing = ZeroedRing /\ availIdx = 0
  /\ usedRing = ZeroedRing /\ usedIdx = 0
  /\ ready = FALSE /\ lastAvailIdx = 0
  /\ pc = "idle" /\ snapshot = 0 /\ head = 0 /\ processed = FALSE
  /\ irq = FALSE
  /\ free = Heads /\ seen = 0 /\ inIsr = FALSE /\ owesNotify = FALSE

Succ(i) == (i + 1) % IdxMod      \* wrapping_add(1)
Slot(i) == i % QueueSize

-----------------------------------------------------------------------------
(* The driver.                                                              *)

EnableQueue ==
  /\ ~ready /\ pc = "idle"
  /\ ready' = TRUE
  /\ UNCHANGED <<rings, lastAvailIdx, locals, irq, driver>>

Submit(h) ==
  /\ ready /\ h \in free
  /\ availRing' = [availRing EXCEPT ![Slot(availIdx)] = h]
  /\ availIdx' = Succ(availIdx)
  /\ free' = free \ {h}
  /\ owesNotify' = TRUE
  /\ UNCHANGED <<usedRing, usedIdx, ready, lastAvailIdx, locals, irq, seen, inIsr>>

\* The interrupt handler: acknowledge, then take used entries until none is left.
EnterIsr ==
  /\ irq /\ ~inIsr
  /\ irq' = FALSE /\ inIsr' = TRUE
  /\ UNCHANGED <<rings, ready, lastAvailIdx, locals, free, seen, owesNotify>>

Consume ==
  /\ inIsr /\ seen # usedIdx
  /\ free' = free \union {usedRing[Slot(seen)]}
  /\ seen' = Succ(seen)
  /\ UNCHANGED <<rings, ready, lastAvailIdx, locals, irq, inIsr, owesNotify>>

LeaveIsr ==
  /\ inIsr /\ seen = usedIdx
  /\ inIsr' = FALSE
  /\ UNCHANGED <<rings, ready, lastAvailIdx, locals, irq, free, seen, owesNotify>>

\* The driver resets the device, which recreates the Virtqueue, and starts over
\* with zeroed rings.  The Mutex keeps the reset out of a running process; an
\* interrupt already raised may still arrive.
Reset ==
  /\ pc = "idle" /\ ~inIsr
  /\ ready' = FALSE /\ lastAvailIdx' = 0
  /\ availRing' = ZeroedRing /\ availIdx' = 0
  /\ usedRing' = ZeroedRing /\ usedIdx' = 0
  /\ free' = Heads /\ seen' = 0 /\ owesNotify' = FALSE
  /\ UNCHANGED <<locals, irq, inIsr>>

-----------------------------------------------------------------------------
(* The device: Virtqueue::process, from a notify to the interrupt.          *)

\* The available index is read once.  A queue that is not ready is left alone;
\* a notify with nothing new is possible at any time.
BeginProcess ==
  /\ pc = "idle"
  /\ owesNotify' = FALSE
  /\ IF ready
     THEN pc' = "loop" /\ snapshot' = availIdx /\ processed' = FALSE
     ELSE UNCHANGED <<pc, snapshot, processed>>
  /\ UNCHANGED <<rings, ready, lastAvailIdx, head, irq, free, seen, inIsr>>

\* Mutant: the ring is read without wrapping at the queue size.
FetchHeadUnwrapped ==
  /\ pc = "loop" /\ lastAvailIdx # snapshot
  /\ head' = IF lastAvailIdx \in Slots THEN availRing[lastAvailIdx] ELSE 0
  /\ pc' = "head"
  /\ UNCHANGED <<rings, ready, lastAvailIdx, snapshot, processed, irq, driver>>

FetchHead ==
  /\ pc = "loop" /\ lastAvailIdx # snapshot
  /\ head' = availRing[Slot(lastAvailIdx)]
  /\ pc' = "head"
  /\ UNCHANGED <<rings, ready, lastAvailIdx, snapshot, processed, irq, driver>>

\* Mutant: the used element goes to the slot after its own.
CompleteChainOffByOne ==
  /\ pc = "head"
  /\ usedRing' = [usedRing EXCEPT ![Slot(lastAvailIdx + 1)] = head]
  /\ lastAvailIdx' = Succ(lastAvailIdx)
  /\ processed' = TRUE /\ head' = 0
  /\ pc' = "loop"
  /\ UNCHANGED <<availRing, availIdx, usedIdx, ready, snapshot, irq, driver>>

\* process_chain, the used element, and the step to the next entry.
CompleteChain ==
  /\ pc = "head"
  /\ usedRing' = [usedRing EXCEPT ![Slot(lastAvailIdx)] = head]
  /\ lastAvailIdx' = Succ(lastAvailIdx)
  /\ processed' = TRUE /\ head' = 0
  /\ pc' = "loop"
  /\ UNCHANGED <<availRing, availIdx, usedIdx, ready, snapshot, irq, driver>>

\* Mutant: "something was processed" is an index comparison, wrong at the wrap.
PublishIfAhead ==
  /\ pc = "loop" /\ lastAvailIdx = snapshot
  /\ IF lastAvailIdx > usedIdx
     THEN usedIdx' = lastAvailIdx /\ pc' = "raise"
     ELSE UNCHANGED usedIdx /\ pc' = "idle"
  /\ snapshot' = 0 /\ processed' = FALSE
  /\ UNCHANGED <<availRing, availIdx, usedRing, ready, lastAvailIdx, head, irq, driver>>

\* The used index moves once, after the loop, and only if it did anything.
Publish ==
  /\ pc = "loop" /\ lastAvailIdx = snapshot
  /\ IF processed
     THEN usedIdx' = lastAvailIdx /\ pc' = "raise"
     ELSE UNCHANGED usedIdx /\ pc' = "idle"
  /\ snapshot' = 0 /\ processed' = FALSE
  /\ UNCHANGED <<availRing, availIdx, usedRing, ready, lastAvailIdx, head, irq, driver>>

\* on_notify answered true: raise_queue_interrupt, then the Mutex is released.
RaiseInterrupt ==
  /\ pc = "raise"
  /\ irq' = TRUE
  /\ pc' = "idle"
  /\ UNCHANGED <<rings, ready, lastAvailIdx, snapshot, head, processed, driver>>

Process == FetchHead \/ CompleteChain \/ Publish \/ RaiseInterrupt

-----------------------------------------------------------------------------
Next ==
  \/ EnableQueue \/ (\E h \in Heads : Submit(h))
  \/ EnterIsr \/ Consume \/ LeaveIsr \/ Reset
  \/ BeginProcess \/ Process

Spec == Init /\ [][Next]_vars

\* The vCPU thread in process runs on; a notify the driver owes is written and
\* handled; a latched interrupt is taken and its handler runs to its end.
Fairness ==
  /\ WF_vars(Process) /\ WF_vars(owesNotify /\ BeginProcess)
  /\ WF_vars(EnterIsr) /\ WF_vars(Consume) /\ WF_vars(LeaveIsr)

FairSpec == Spec /\ Fairness

-----------------------------------------------------------------------------
(* Properties.                                                              *)

\* The entries of a ring from one index up to another, as a sequence.
Window(ring, from, to) ==
  [i \in 1..((to - from) % IdxMod) |-> ring[Slot((from + i - 1) % IdxMod)]]

\* A head in the device's hands is a request the driver has given away and not
\* got back: the device never works on a stale or a recycled ring entry,
\* however the driver's submissions, its handler and the resets interleave.
HeadIsOutstanding ==
  pc = "head" => /\ head \notin free
                 /\ \A i \in 1..((usedIdx - seen) % IdxMod) :
                      head # Window(usedRing, seen, usedIdx)[i]

\* The queue as its driver sees it.
Queue == INSTANCE RequestQueue
  WITH submitted <- Window(availRing, usedIdx, availIdx),
       done      <- Window(usedRing, seen, usedIdx)

\* Every step is a step of the abstract queue: each request comes back exactly
\* once and in order, across index wrap, batching, spurious notifies and resets.
ImplementsQueue == Queue!Spec

\* Nothing submitted is stranded: every request is completed and its completion
\* reaches the driver, although the device reads the index only once per notify
\* and interrupts only once per batch.
NothingStranded == Queue!Fairness
=============================================================================
