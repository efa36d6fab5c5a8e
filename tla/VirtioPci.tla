----------------------------- MODULE VirtioPci ------------------------------
(***************************************************************************)
(* Interrupts and registers of one virtio-pci function (src/virtio/pci.rs). *)
(* Every register access runs under the device's Mutex, so each is one      *)
(* action.  The device raises used-ring interrupts by MSI-X or by INTx;     *)
(* the guest masks, unmasks, enables and resets underneath it.              *)
(*                                                                          *)
(* Left out is storage that no operation reads: feature selectors, driver   *)
(* features, status, the configuration vector, message addresses and data,   *)
(* ring addresses.  Whether the BAR decodes is the dispatcher's question,   *)
(* not the function's: accesses are accepted at any time.                   *)
(***************************************************************************)
EXTENDS Integers

CONSTANTS
  NumQueues,    \* VirtioDevice::num_queues
  QueueSizes    \* sizes the driver writes to queue_size

NO_VECTOR      == -1         \* VIRTIO_MSI_NO_VECTOR, or any vector past the table
QUEUE_SIZE_MAX == 256

ASSUME VirtioPciAssumption ==
  /\ NumQueues \in Nat \ {0}
  /\ QueueSizes \subseteq Nat

Queues  == 0..(NumQueues - 1)
Vectors == 0..NumQueues      \* one per queue and one for configuration changes
Vector  == Vectors \union {NO_VECTOR}

VARIABLES
  queueSelect,
  size, ready,          \* per queue: Virtqueue::num and ready
  queueVector,          \* queue_msix_vectors
  isr, intxLine,        \* ISR_QUEUE in isr_status, and the level of the INTx line
  enabled, funcMasked,  \* MSI-X message control: enable and function mask
  masked, pending,      \* per vector: control bit 0 and msix_pending
  sent                  \* the vectors whose message the last step injected;
                        \* NO_VECTOR records an interrupt that went nowhere

intx   == <<isr, intxLine>>
msix   == <<enabled, funcMasked, masked>>
config == <<queueSelect, size, ready, queueVector>>
functionVars == <<config, intx, msix, pending, sent>>

FunctionInit ==
  /\ queueSelect = 0
  /\ size = [q \in Queues |-> QUEUE_SIZE_MAX]
  /\ ready = [q \in Queues |-> FALSE]
  /\ queueVector = [q \in Queues |-> NO_VECTOR]
  /\ isr = FALSE /\ intxLine = FALSE
  /\ enabled = FALSE /\ funcMasked = FALSE
  /\ masked = [v \in Vectors |-> TRUE]
  /\ pending = [v \in Vectors |-> FALSE]
  /\ sent = {}

-----------------------------------------------------------------------------
(* Raising interrupts.                                                      *)

\* signal_msix: nothing without a vector, a pending bit if masked, else a message.
SignalMsix(v) ==
  IF v \notin Vectors
  THEN UNCHANGED pending /\ sent' = {NO_VECTOR}
  ELSE IF funcMasked \/ masked[v]
  THEN pending' = [pending EXCEPT ![v] = TRUE] /\ sent' = {}
  ELSE UNCHANGED pending /\ sent' = {v}

RaiseQueueInterrupt(q) ==
  IF enabled
  THEN SignalMsix(queueVector[q]) /\ UNCHANGED intx
  ELSE isr' = TRUE /\ intxLine' = TRUE /\ sent' = {} /\ UNCHANGED pending

\* Mutant: every pending bit is cleared, the ones still masked included.
DeliverPendingClearsAll ==
  LET open == enabled' /\ ~funcMasked'
  IN /\ sent' = {v \in Vectors : open /\ pending[v] /\ ~masked'[v]}
     /\ pending' = [v \in Vectors |-> pending[v] /\ ~open]

\* deliver_pending, on the masks the access leaves behind.
DeliverPending ==
  LET open == enabled' /\ ~funcMasked'
  IN /\ sent' = {v \in Vectors : open /\ pending[v] /\ ~masked'[v]}
     /\ pending' = [v \in Vectors |-> pending[v] /\ v \notin sent']

-----------------------------------------------------------------------------
(* BAR0 accesses.                                                           *)

\* The notify register.  `completed` is what on_notify answers: whether it
\* processed a chain, which takes a ready queue of non-zero size.
Notify(q, completed) ==
  /\ completed => ready[q] /\ size[q] # 0
  /\ IF completed
     THEN RaiseQueueInterrupt(q)
     ELSE UNCHANGED <<intx, pending>> /\ sent' = {}
  /\ UNCHANGED <<config, msix>>

\* The ISR register is read-to-clear and drops the line.
ReadIsr ==
  /\ isr' = FALSE /\ intxLine' = FALSE /\ sent' = {}
  /\ UNCHANGED <<config, msix, pending>>

\* Mutant: the reset forgets to drop the INTx line.
ResetKeepsLine ==
  /\ size' = [q \in Queues |-> QUEUE_SIZE_MAX]
  /\ ready' = [q \in Queues |-> FALSE]
  /\ queueVector' = [q \in Queues |-> NO_VECTOR]
  /\ queueSelect' = 0
  /\ isr' = FALSE /\ UNCHANGED intxLine
  /\ pending' = [v \in Vectors |-> FALSE]

\* reset: virtio state goes back to power-on, the PCI MSI-X table stays.
Reset ==
  /\ size' = [q \in Queues |-> QUEUE_SIZE_MAX]
  /\ ready' = [q \in Queues |-> FALSE]
  /\ queueVector' = [q \in Queues |-> NO_VECTOR]
  /\ queueSelect' = 0
  /\ isr' = FALSE /\ intxLine' = FALSE
  /\ pending' = [v \in Vectors |-> FALSE]

\* device_status: writing zero resets; any other value is only stored.
WriteStatusZero == Reset /\ sent' = {} /\ UNCHANGED msix

\* Any selector may be stored; NumQueues stands for those that name no queue.
SelectQueue(n) ==
  /\ queueSelect' = n /\ sent' = {}
  /\ UNCHANGED <<size, ready, queueVector, intx, msix, pending>>

\* The per-queue registers act on the selected queue, if there is one.
WriteQueueSize(n) ==
  /\ queueSelect \in Queues
  /\ size' = [size EXCEPT ![queueSelect] = n] /\ sent' = {}
  /\ UNCHANGED <<queueSelect, ready, queueVector, intx, msix, pending>>

WriteQueueEnable(b) ==
  /\ queueSelect \in Queues
  /\ ready' = [ready EXCEPT ![queueSelect] = b] /\ sent' = {}
  /\ UNCHANGED <<queueSelect, size, queueVector, intx, msix, pending>>

WriteQueueVector(v) ==
  /\ queueSelect \in Queues
  /\ queueVector' = [queueVector EXCEPT ![queueSelect] = v] /\ sent' = {}
  /\ UNCHANGED <<queueSelect, size, ready, intx, msix, pending>>

CommonCfgWrite ==
  \/ WriteStatusZero
  \/ \E n \in 0..NumQueues : SelectQueue(n)
  \/ \E n \in QueueSizes : WriteQueueSize(n)
  \/ \E b \in BOOLEAN : WriteQueueEnable(b)
  \/ \E v \in Vector : WriteQueueVector(v)

\* Vector control of entry v; the other table fields are storage.
MsixTableWrite(v, mask) ==
  /\ masked' = [masked EXCEPT ![v] = mask]
  /\ UNCHANGED <<config, intx, enabled, funcMasked>>
  /\ DeliverPending

-----------------------------------------------------------------------------
(* Configuration space.                                                     *)

\* Mutant: enabling MSI-X or lifting the function mask releases nothing.
ConfigWriteDeliversNothing(enable, mask) ==
  /\ enabled' = enable /\ funcMasked' = mask
  /\ sent' = {}
  /\ UNCHANGED <<config, intx, masked, pending>>

\* config_write ends in deliver_pending whatever it wrote.  A write that misses
\* the message control leaves both bits as they are.
ConfigWrite(enable, mask) ==
  /\ enabled' = enable /\ funcMasked' = mask
  /\ UNCHANGED <<config, intx, masked>>
  /\ DeliverPending

-----------------------------------------------------------------------------
FunctionNext ==
  \/ \E q \in Queues, completed \in BOOLEAN : Notify(q, completed)
  \/ ReadIsr
  \/ CommonCfgWrite
  \/ \E v \in Vectors, mask \in BOOLEAN : MsixTableWrite(v, mask)
  \/ \E enable, mask \in BOOLEAN : ConfigWrite(enable, mask)

FunctionSpec == FunctionInit /\ [][FunctionNext]_functionVars

-----------------------------------------------------------------------------
(* Properties.                                                              *)

\* Every variable has its type.
FunctionTypeOK ==
  /\ queueSelect \in 0..NumQueues
  /\ size \in [Queues -> Nat] /\ ready \in [Queues -> BOOLEAN]
  /\ queueVector \in [Queues -> Vector]
  /\ isr \in BOOLEAN /\ intxLine \in BOOLEAN
  /\ enabled \in BOOLEAN /\ funcMasked \in BOOLEAN
  /\ masked \in [Vectors -> BOOLEAN] /\ pending \in [Vectors -> BOOLEAN]
  /\ sent \in SUBSET Vector

Deliverable(v) == enabled /\ ~funcMasked /\ ~masked[v]

\* No interrupt is stranded: once a vector can be delivered, nothing is left
\* pending for it.  There are three ways to open a vector (its own mask, the
\* function mask, the enable bit), in any order, and each must release it.
NoStrandedVector == \A v \in Vectors : Deliverable(v) => ~pending[v]

\* The INTx line is high exactly while the ISR register has something to
\* report, across MSI-X being switched on and off and across resets: otherwise
\* a level-triggered line would stick or an interrupt would be lost.
IntxFollowsIsr == intxLine = isr

\* A pending interrupt is forgotten only by being injected or by a reset.
PendingIsPaid ==
  [][\A v \in Vectors : pending[v] /\ ~pending'[v] => v \in sent' \/ WriteStatusZero]_functionVars

\* A message is injected only for a vector that is enabled and not masked by
\* the state the access leaves: a masked vector stays silent.
MaskedIsSilent == [][\A v \in sent' \ {NO_VECTOR} : Deliverable(v)']_functionVars
=============================================================================
