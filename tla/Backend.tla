------------------------------ MODULE Backend -------------------------------
(***************************************************************************)
(* What a device backend does with one descriptor chain: VirtioBlk          *)
(* (src/virtio/blk.rs) and VirtioRng (src/virtio/rng.rs), called by         *)
(* Virtqueue::process with the chain that module DescChain collects.  Every *)
(* access to guest memory, to the disk image and to /dev/urandom is a step  *)
(* and may fail: the buffers in Outside are not in guest memory, and host   *)
(* I/O fails at any time, a write after part of it reached the image.       *)
(***************************************************************************)
EXTENDS DescChain, FiniteSetsExt

CONSTANTS
  BufLen,        \* length of the buffer of each descriptor
  Writable,      \* descriptors with VIRTQ_DESC_F_WRITE
  Outside,       \* descriptors whose buffer is outside guest memory
  SectorSize,    \* SECTOR_SIZE
  FileLen,       \* length of the disk image when it was opened
  IdBytes,       \* VIRTIO_BLK_ID_BYTES
  Sectors,       \* the sectors requests name
  MaxU64,        \* u64::MAX
  U32            \* 2^32, the values of a u32

ASSUME BackendAssumption ==
  /\ BufLen \in [InMemory -> Nat]
  /\ Writable \subseteq InMemory /\ Outside \subseteq InMemory
  /\ {SectorSize, FileLen, IdBytes, MaxU64, U32} \subseteq Nat \ {0}
  /\ FileLen <= MaxU64
  /\ Sectors \subseteq 0..MaxU64

S_OK == 0
S_IOERR == 1
S_UNSUPP == 2
None == 3                        \* no status was decided or stored

Types == {"in", "out", "flush", "get_id", "other"}

VARIABLES
  device,      \* the backend the queue belongs to
  disk,        \* the image: a byte for each offset
  mem,         \* the buffers the descriptors name: a byte for each position
  stage,       \* "chain", "execute", "segments", "status", "used"
  req,         \* type and sector of the header
  seg,         \* the chain position the data loop is at
  written,     \* the length that goes into the used ring
  status,      \* what execute returned
  stored,      \* which bytes of which chain positions write_at stored
  ioFailed     \* a host I/O call failed

request == <<device, req>>
backendVars == <<walkVars, request, disk, mem, stage, seg, written, status, stored, ioFailed>>

\* A byte is told by where it comes from: its place in the image or in a guest
\* buffer as the request found them, or what the device made up.
DiskByte(b) == <<"disk", b>>
MemByte(i, j) == <<"mem", i, j>>
StatusByte == <<"status", status>>
IdByte == <<"id">>
Entropy == <<"random">>

capacitySectors == FileLen \div SectorSize
diskBytes == capacitySectors * SectorSize

OpenedDisk == [b \in 0..(FileLen - 1) |-> DiskByte(b)]
GuestBuffers ==
  [i \in InMemory |-> [j \in 0..(BufLen[i] - 1) |-> MemByte(i, j)]]

BackendInit ==
  /\ WalkInit
  /\ device \in {"blk", "rng"}
  /\ disk = OpenedDisk /\ mem = GuestBuffers
  /\ stage = "chain" /\ req = [type |-> "other", sector |-> 0]
  /\ seg = 1 /\ written = 0 /\ status = None /\ stored = {} /\ ioFailed = FALSE

\* The bytes g with the bytes f stored over them.
Over(f, g) ==
  [j \in DOMAIN f \cup DOMAIN g |-> IF j \in DOMAIN f THEN f[j] ELSE g[j]]

\* mem.write_at: bytes f over the front of the buffer at chain position k.
Store(k, f) ==
  /\ mem' = [mem EXCEPT ![chain[k]] = Over(f, @)]
  /\ stored' = stored \cup ({k} \X DOMAIN f)

\* The length that goes into the used ring is a u32.
Count(n) == written' = (written + n) % U32

\* The data segments lie between the header and the status descriptor.
DataPositions == 2..(Len(chain) - 1)
\* The bytes of the segments up to position k, and how many they are: the sum
\* of the segments' lengths.
BytesUpTo(k) == UNION {{p} \X (0..(BufLen[chain[p]] - 1)) : p \in 2..k}
LengthUpTo(k) == Cardinality(BytesUpTo(k))
totalLen == LengthUpTo(Len(chain) - 1)
start == req.sector * SectorSize

Collecting == Walk /\ UNCHANGED <<request, disk, mem, stage, seg, written, status, stored, ioFailed>>

-----------------------------------------------------------------------------
(* VirtioBlk.                                                               *)

\* Too short a chain, or a header outside guest memory: the chain comes back
\* with length 0 and nothing else happens.
NoRequest ==
  /\ device = "blk" /\ pc = "done" /\ stage = "chain"
  /\ Len(chain) >= 2 => chain[1] \in Outside
  /\ stage' = "used"
  /\ UNCHANGED <<walkVars, request, disk, mem, seg, written, status, stored, ioFailed>>

ReadHeader ==
  /\ device = "blk" /\ pc = "done" /\ stage = "chain"
  /\ Len(chain) >= 2 /\ chain[1] \notin Outside
  /\ \E t \in Types, s \in Sectors : req' = [type |-> t, sector |-> s]
  /\ stage' = "execute"
  /\ UNCHANGED <<walkVars, device, disk, mem, seg, written, status, stored, ioFailed>>

Return(s) == stage' = "status" /\ status' = s

Flush ==
  /\ stage = "execute" /\ req.type = "flush"
  /\ \E ok \in BOOLEAN :
       Return(IF ok THEN S_OK ELSE S_IOERR) /\ ioFailed' = ~ok
  /\ UNCHANGED <<walkVars, request, disk, mem, seg, written, stored>>

GetId ==
  /\ stage = "execute" /\ req.type = "get_id"
  /\ \/ /\ DataPositions = {} \/ chain[2] \in Outside
        /\ Return(S_IOERR)
        /\ UNCHANGED <<mem, stored, written>>
     \/ /\ DataPositions # {} /\ chain[2] \notin Outside
        /\ LET len == Min({BufLen[chain[2]], IdBytes})
           IN  Store(2, [j \in 0..(len - 1) |-> IdByte]) /\ Count(len)
        /\ Return(S_OK)
  /\ UNCHANGED <<walkVars, request, disk, seg, ioFailed>>

\* Mutant: the end is compared with the length of the image file.
InBoundsOfFile ==
  /\ start <= MaxU64 /\ start + totalLen <= MaxU64
  /\ start + totalLen <= FileLen

\* Mutant: a request that ends at the end of the disk is refused.
InBoundsStrict ==
  /\ start <= MaxU64 /\ start + totalLen <= MaxU64
  /\ start + totalLen < diskBytes

\* Both checked_mul and checked_add succeed and the end is within the disk.
InBounds ==
  /\ start <= MaxU64 /\ start + totalLen <= MaxU64
  /\ start + totalLen <= diskBytes

CheckBounds ==
  /\ stage = "execute" /\ req.type \notin {"flush", "get_id"}
  /\ IF InBounds THEN stage' = "segments" /\ seg' = 2 /\ UNCHANGED status
                 ELSE Return(S_IOERR) /\ UNCHANGED seg
  /\ UNCHANGED <<walkVars, request, disk, mem, written, stored, ioFailed>>

\* Mutant: the offset is not advanced from one segment to the next.
offsetStuck == start

offset == start + LengthUpTo(seg - 1)
segLen == BufLen[chain[seg]]
InSegment(t) == stage = "segments" /\ seg \in DataPositions /\ req.type = t

ReadSegment ==
  /\ InSegment("in")
  /\ \E ok \in BOOLEAN :
       /\ ioFailed' = ~ok
       /\ IF ok /\ chain[seg] \notin Outside
          THEN /\ Store(seg, [j \in 0..(segLen - 1) |-> disk[offset + j]])
               /\ Count(segLen)
               /\ seg' = seg + 1
               /\ UNCHANGED <<stage, status>>
          ELSE Return(S_IOERR) /\ UNCHANGED <<mem, stored, written, seg>>
  /\ UNCHANGED <<walkVars, request, disk>>

\* write_all_at that fails may have stored any part of the segment.
WriteSegment ==
  /\ InSegment("out")
  /\ IF chain[seg] \in Outside
     THEN Return(S_IOERR) /\ UNCHANGED <<disk, seg, ioFailed>>
     ELSE \E n \in 0..segLen :
            /\ disk' = Over([b \in offset..(offset + n - 1) |-> mem[chain[seg]][b - offset]], disk)
            /\ \/ n = segLen /\ seg' = seg + 1 /\ UNCHANGED <<stage, status, ioFailed>>
               \/ Return(S_IOERR) /\ ioFailed' = TRUE /\ UNCHANGED seg
  /\ UNCHANGED <<walkVars, request, mem, written, stored>>

UnknownSegment ==
  /\ InSegment("other")
  /\ Return(S_UNSUPP)
  /\ UNCHANGED <<walkVars, request, disk, mem, seg, written, stored, ioFailed>>

\* The loop ran out of segments; of an unknown type only if there were none.
SegmentsDone ==
  /\ stage = "segments" /\ seg \notin DataPositions
  /\ Return(S_OK)
  /\ UNCHANGED <<walkVars, request, disk, mem, seg, written, stored, ioFailed>>

\* Mutant: the status byte is counted whether or not it could be stored.
WriteStatusAlwaysCounts ==
  /\ stage = "status"
  /\ IF chain[Len(chain)] \in Outside
     THEN UNCHANGED <<mem, stored>>
     ELSE Store(Len(chain), [j \in 0..0 |-> StatusByte])
  /\ Count(1)
  /\ stage' = "used"
  /\ UNCHANGED <<walkVars, request, disk, seg, status, ioFailed>>

WriteStatus ==
  /\ stage = "status"
  /\ IF chain[Len(chain)] \in Outside
     THEN UNCHANGED <<mem, stored, written>>
     ELSE Store(Len(chain), [j \in 0..0 |-> StatusByte]) /\ Count(1)
  /\ stage' = "used"
  /\ UNCHANGED <<walkVars, request, disk, seg, status, ioFailed>>

-----------------------------------------------------------------------------
(* VirtioRng.                                                               *)

\* One writable buffer is filled, or skipped when /dev/urandom or the store
\* fails; read-only and empty ones are passed over.
RngSegment ==
  /\ device = "rng" /\ pc = "done" /\ stage = "chain" /\ seg <= Len(chain)
  /\ \E ok \in BOOLEAN :
       /\ ioFailed' = (ioFailed \/ ~ok)
       /\ IF ok /\ chain[seg] \in Writable \ Outside
          THEN /\ Store(seg, [j \in 0..(segLen - 1) |-> Entropy])
               /\ Count(segLen)
          ELSE UNCHANGED <<mem, stored, written>>
  /\ seg' = seg + 1
  /\ UNCHANGED <<walkVars, request, disk, stage, status>>

RngDone ==
  /\ device = "rng" /\ pc = "done" /\ stage = "chain" /\ seg > Len(chain)
  /\ stage' = "used"
  /\ UNCHANGED <<walkVars, request, disk, mem, seg, written, status, stored, ioFailed>>

\* The used element is stored and the queue goes on to its next head.
Used == stage = "used" /\ UNCHANGED backendVars

BlkStep ==
  \/ NoRequest \/ ReadHeader \/ Flush \/ GetId \/ CheckBounds \/ ReadSegment
  \/ WriteSegment \/ UnknownSegment \/ SegmentsDone \/ WriteStatus
Step == Collecting \/ BlkStep \/ RngSegment \/ RngDone
BackendNext == Step \/ Used

\* Sequential code of the vCPU thread that wrote the notify register.
BackendSpec == BackendInit /\ [][BackendNext]_backendVars /\ WF_backendVars(Step)

-----------------------------------------------------------------------------
(* Properties.                                                              *)

\* No position after k stores into the same buffer, so its bytes are final.
LastUse(k) == \A p \in (k + 1)..Len(chain) : chain[p] # chain[k]

\* The byte of the disk at position j of data segment k.
At(k, j) == start + LengthUpTo(k - 1) + j

\* A request answered S_OK was carried out in full: a read filled every data
\* buffer from its place on the disk, a write stored every data buffer at its
\* place, however the chain splits the data (VirtioBlk::execute).
OkMeansDone ==
  device = "blk" /\ stage = "used" /\ status = S_OK =>
    \A k \in DataPositions : \A j \in 0..(BufLen[chain[k]] - 1) :
      /\ req.type = "in" /\ LastUse(k) => mem[chain[k]][j] = DiskByte(At(k, j))
      /\ req.type = "out" => disk[At(k, j)] = MemByte(chain[k], j)

\* The image changes only by a write request, only inside the range it names
\* and the advertised capacity, and from the front: after a failure some prefix
\* of the data is on the disk and every byte behind it is the old one.  The
\* image never grows.
DiskHoldsAPrefix ==
  /\ DOMAIN disk = DOMAIN OpenedDisk
  /\ \E n \in 0..diskBytes : \A b \in DOMAIN disk :
       IF req.type = "out" /\ start <= b /\ b < start + n
       THEN /\ b < diskBytes
            /\ \E k \in DataPositions : \E j \in 0..(BufLen[chain[k]] - 1) :
                 At(k, j) = b /\ disk[b] = MemByte(chain[k], j)
       ELSE disk[b] = DiskByte(b)

\* The used length is exactly, in 32 bits, the number of bytes the backend stored
\* in guest memory, the status byte included, on every error path of either
\* backend.
UsedLengthIsExact == stage = "used" => written = Cardinality(stored) % U32

\* A request inside the capacity the guest was told, with every buffer in guest
\* memory and no host failure, is not answered with an error; and an error
\* leaves no request half reported: S_OK is never the answer to a request that
\* met a failure.
ErrorsAreEarned ==
  device = "blk" /\ stage = "used" /\ status # None =>
    /\ ioFailed => status = S_IOERR
    /\ status = S_IOERR =>
         \/ ioFailed \/ \E k \in DataPositions : chain[k] \in Outside
         \/ req.type = "get_id" /\ DataPositions = {}
         \/ req.sector * SectorSize + totalLen > capacitySectors * SectorSize

\* Every chain comes back: the walk and the backend end on every table,
\* circular ones included, and whatever fails.
ChainComesBack == <>(stage = "used")
=============================================================================
