-------------------------------- MODULE Boot --------------------------------
(***************************************************************************)
(* What main puts into guest memory and into the boot processor before the  *)
(* guest runs: boot.rs, mptable.rs and the memory they write through.       *)
(*                                                                          *)
(* Nothing in the code lays these structures out together.  Each has its    *)
(* own fixed address, the image brings its own, and a write is refused only *)
(* when it leaves the memory, so whether the guest finds them all intact is *)
(* a question about all of them.                                            *)
(*                                                                          *)
(* Guest addresses and sizes are in paragraphs of 16 bytes, rounded up; the *)
(* content of memory is the list of the writes, who made them and where.    *)
(* Addresses that the code takes from the image are 64 bits wide: a build   *)
(* with overflow checks panics where they wrap, another goes on.            *)
(***************************************************************************)
EXTENDS Integers, Sequences, FiniteSets, Functions

CONSTANTS
  MemSizes,    \* --mem, in MiB
  Kernels,     \* kernel files
  Initrds,     \* initramfs: its size, 0 for an empty file, -1 for none
  CmdLens,     \* lengths of the command line, in bytes
  CpuCounts,   \* --cpus
  Word         \* 2^64 bytes, in paragraphs

MiB                 == 65536
PCI_MMIO_WINDOW_END == 3328 * MiB

ASSUME BootAssumption ==
  /\ Word \in Nat /\ PCI_MMIO_WINDOW_END < Word \div 2
  /\ MemSizes \subseteq Nat /\ CmdLens \subseteq Nat
  /\ Initrds \subseteq Nat \union {-1} /\ CpuCounts \subseteq 1..255
  /\ \A k \in Kernels :
       /\ k.format \in {"BzImage", "Elf64", "Other", "Stub"}
       /\ k.format = "BzImage" => k.sects \in Nat /\ k.len \in Nat
       /\ k.format = "Elf64" =>
            /\ k.phoff \in Nat /\ k.phentsize \in Nat
            /\ k.phdrs \in Seq([load : BOOLEAN, paddr : Nat, filesz : Nat, memsz : Nat])

VARIABLES
  native,      \* "kvm" or "bhyve"
  mb, kernel, initrd, cmdline, cpus,    \* the command line of ferrvm
  pc,          \* the next step of main
  size,        \* GuestMemory::size
  ram,         \* the writes so far
  ph,          \* load_elf_kernel: the next program header
  entry,       \* kernel_entry
  params,      \* the boot_params written
  regs,        \* general registers of vCPU 0
  sregs,       \* special registers of vCPU 0, as the hypervisor holds them
  mp           \* the MP configuration table written

input == <<native, mb, kernel, initrd, cmdline, cpus>>
vars == <<native, mb, kernel, initrd, cmdline, cpus, pc, size, ram, ph, entry, params,
          regs, sregs, mp>>

-----------------------------------------------------------------------------
Paras(bytes) == (bytes + 15) \div 16

HIMEM_START         == Paras(\h100000)
INITRAMFS_ADDR      == Paras(\h8000000)
CMDLINE_ADDR        == Paras(\h20000)
ZERO_PAGE_START     == Paras(\h7000)
BOOT_STACK_POINTER  == Paras(\h8ff0)
EBDA_START          == Paras(\h9fc00)
BOOT_GDT_OFFSET     == Paras(\h500)
MPF_ADDR            == Paras(\hF0000)
MPC_ADDR            == MPF_ADDR + 1

Unset == "unset"

-----------------------------------------------------------------------------
(* Guest memory.                                                            *)

Region(owner, from, len) == [owner |-> owner, from |-> from, to |-> from + len]

\* checked_hva
Fits(from, len) == from + len <= size

Overlap(r, s) == r.from < s.to /\ s.from < r.to

Fail(why) == pc' = why /\ UNCHANGED <<size, ram, ph, entry, params, regs, sregs, mp>>

\* Mutant: no size is refused.
AllocatesAny == TRUE

Allocates == mb # 0

\* GuestMemory::allocate: a whole number of MiB is one of pages already.  The mapping
\* may be refused, and is if half of the address space would not hold it.
Allocate ==
  /\ pc = "allocate"
  /\ \/ Fail("failed")
     \/ /\ Allocates /\ mb * MiB < Word \div 2
        /\ size' = mb * MiB /\ pc' = "kernel"
        /\ UNCHANGED <<ram, ph, entry, params, regs, sregs, mp>>
  /\ UNCHANGED input

-----------------------------------------------------------------------------
(* The kernel.  A kernel file is a bzImage of so many 512-byte sectors, an   *)
(* ELF with program headers, too short to hold a setup header, or neither.  *)

Sector == 32

get_setup_sects(k) == IF k.sects = 0 THEN 4 ELSE k.sects

payload_offset(k) == (get_setup_sects(k) + 1) * Sector

LoadBzImage ==
  /\ pc = "kernel" /\ kernel.format = "BzImage"
  /\ LET at  == payload_offset(kernel)
         len == kernel.len * Sector - at
     IN IF at >= kernel.len * Sector \/ ~Fits(HIMEM_START, len) THEN Fail("failed")
        ELSE /\ ram' = Append(ram, Region("kernel", HIMEM_START, len))
             /\ entry' = HIMEM_START /\ pc' = "initrd"
             /\ UNCHANGED <<size, ph, params, regs, sregs, mp>>
  /\ UNCHANGED input

\* Mutant: a segment goes where the image says, low memory or not.
load_addrUnclamped(p) == p.paddr

load_addr(p) == IF p.paddr > HIMEM_START THEN p.paddr ELSE HIMEM_START

phdr_offset(k, i) == k.phoff + (i - 1) * k.phentsize

\* load_elf_kernel is at a program header, that of a segment to load.
AtHeader  == pc = "kernel" /\ kernel.format = "Elf64" /\ ph <= Len(kernel.phdrs)
AtSegment == AtHeader /\ kernel.phdrs[ph].load

\* end_addr, in a build that does not check for overflow.
end_addr(p) == (load_addr(p) + p.memsz) % Word

FileFits(p) == p.filesz = 0 \/ Fits(load_addr(p), p.filesz)

\* One program header of load_elf_kernel, with no error: the bytes of the file, then
\* zeros.  Both are in memory exactly if the segment is, even where end_addr wraps.
LoadSegment ==
  /\ AtHeader
  /\ LET p    == kernel.phdrs[ph]
         at   == load_addr(p)
         file == IF p.filesz > 0 THEN <<Region("kernel", at, p.filesz)>> ELSE <<>>
         bss  == IF p.memsz > p.filesz
                 THEN <<Region("kernel", at + p.filesz, p.memsz - p.filesz)>> ELSE <<>>
     IN /\ p.load => Fits(at, p.memsz) /\ Fits(at, p.filesz)
        /\ ram' = IF p.load THEN ram \o file \o bss ELSE ram
  /\ ph' = ph + 1
  /\ UNCHANGED <<input, pc, size, entry, params, regs, sregs, mp>>

\* The end of the segment, a write of the file's bytes or one of zeros is refused.
SegmentRefused ==
  /\ AtSegment
  /\ LET p == kernel.phdrs[ph] IN
     \/ end_addr(p) > size
     \/ ~FileFits(p) /\ p.filesz < Word \div 2
     \/ /\ FileFits(p) /\ ~Fits(load_addr(p), p.memsz)
        /\ p.memsz - p.filesz \in 1..(Word \div 2 - 1)
  /\ Fail("failed") /\ UNCHANGED input

\* The offset of the header or the end of the segment is past 64 bits, and the build
\* checks.
OverflowPanics ==
  /\ AtHeader
  /\ \/ phdr_offset(kernel, ph) >= Word
     \/ AtSegment /\ load_addr(kernel.phdrs[ph]) + kernel.phdrs[ph].memsz >= Word
  /\ Fail("panicked") /\ UNCHANGED input

\* vec![0; len]: no capacity is over isize::MAX, and a host that has no memory for it
\* aborts.
VecDies(len) ==
  \/ len >= Word \div 2 /\ Fail("panicked")
  \/ size < len /\ len < Word \div 2 /\ Fail("aborted")

\* The lengths of the two buffers come from the header; only end_addr was checked.
BufferDies ==
  /\ AtSegment
  /\ LET p == kernel.phdrs[ph] IN
     /\ end_addr(p) <= size
     /\ VecDies(p.filesz) \/ (FileFits(p) /\ VecDies(p.memsz - p.filesz))
  /\ UNCHANGED input

\* Opening, seeking in or reading the kernel's file or the initramfs's fails: it is
\* not there, or shorter than its headers say.
ReadFails ==
  /\ \/ pc = "kernel" /\ (ph = 1 \/ AtHeader)
     \/ pc = "initrd" /\ initrd # -1
  /\ Fail("failed") /\ UNCHANGED input

SegmentsLoaded ==
  /\ pc = "kernel" /\ kernel.format = "Elf64" /\ ph > Len(kernel.phdrs)
  /\ entry' = kernel.entry /\ pc' = "initrd"
  /\ UNCHANGED <<input, size, ram, ph, params, regs, sregs, mp>>

\* detect_kernel_image_format: is_bzimage indexes its way to the header, so a
\* shorter file is a panic.
DetectFails ==
  /\ pc = "kernel" /\ kernel.format \in {"Other", "Stub"}
  /\ Fail(IF kernel.format = "Stub" THEN "panicked" ELSE "failed")
  /\ UNCHANGED input

-----------------------------------------------------------------------------
(* The initramfs, the boot parameters and the command line.                 *)

load_initrd ==
  /\ pc = "initrd"
  /\ IF initrd = -1 THEN pc' = "params" /\ UNCHANGED ram
     ELSE IF initrd >= 4096 * MiB \/ ~Fits(INITRAMFS_ADDR, initrd)
     THEN pc' = "failed" /\ UNCHANGED ram
     ELSE /\ ram' = Append(ram, Region("initrd", INITRAMFS_ADDR, initrd))
          /\ pc' = "params"
  /\ UNCHANGED <<input, size, ph, entry, params, regs, sregs, mp>>

\* Mutant: low memory is one entry, up to the kernel.
e820Merged(last) ==
  <<[addr |-> 0, size |-> HIMEM_START, type |-> "RAM"],
    [addr |-> HIMEM_START, size |-> last - HIMEM_START, type |-> "RAM"]>>

e820(last) ==
  <<[addr |-> 0, size |-> EBDA_START, type |-> "RAM"],
    [addr |-> EBDA_START, size |-> HIMEM_START - EBDA_START, type |-> "RESERVED"],
    [addr |-> HIMEM_START, size |-> last - HIMEM_START, type |-> "RAM"]>>

\* Mutant: the size of the header's field is that of the string.
cmdline_sizeShort == cmdline

cmdline_size == cmdline + 1

\* The subtraction in the table panics below one MiB.  For a bzImage, hdr is read
\* from the file (long enough: its payload was loaded) and set again.
setup_boot_params ==
  /\ pc = "params"
  /\ IF size < HIMEM_START THEN Fail("panicked")
     ELSE IF ~Fits(ZERO_PAGE_START, Paras(4096)) THEN Fail("failed")
     ELSE /\ params' = [e820 |-> e820(size), cmd_line_ptr |-> CMDLINE_ADDR,
                        cmdline_size |-> cmdline_size,
                        ramdisk_image |-> IF initrd = -1 THEN 0 ELSE INITRAMFS_ADDR,
                        ramdisk_size |-> IF initrd = -1 THEN 0 ELSE initrd]
          /\ ram' = Append(ram, Region("params", ZERO_PAGE_START, Paras(4096)))
          /\ pc' = "cmdline"
          /\ UNCHANGED <<size, ph, entry, regs, sregs, mp>>
  /\ UNCHANGED input

setup_cmdline ==
  /\ pc = "cmdline"
  /\ IF cmdline + 1 > 2048 \/ ~Fits(CMDLINE_ADDR, Paras(cmdline + 1)) THEN Fail("failed")
     ELSE /\ ram' = Append(ram, Region("cmdline", CMDLINE_ADDR, Paras(cmdline + 1)))
          /\ pc' = "regs" /\ UNCHANGED <<size, ph, entry, params, regs, sregs, mp>>
  /\ UNCHANGED input

-----------------------------------------------------------------------------
(* The boot processor.  An ioctl of the hypervisor may fail.                *)

setup_general_registers ==
  /\ pc = "regs"
  /\ \/ Fail("failed")
     \/ /\ regs' = [rip |-> entry, rsp |-> BOOT_STACK_POINTER, rsi |-> ZERO_PAGE_START]
        /\ pc' = "mode" /\ UNCHANGED <<size, ram, ph, entry, params, sregs, mp>>
  /\ UNCHANGED input

\* A segment register: all fields but the base, which is 0 throughout.
Seg(selector, type, limit, db, l, g) ==
  [selector |-> selector, type |-> type, limit |-> limit, s |-> 1, dpl |-> 0,
   present |-> 1, avl |-> 0, l |-> l, db |-> db, g |-> g, unusable |-> 0]

generate_segment(index, type) == Seg(index * 8, type, "fffff", 0, 1, 1)

\* The state after reset (external): real mode, 64 KiB segments.
ResetSregs ==
  [cs |-> Seg(\hf000, 11, "ffff", 0, 0, 0), ds |-> Seg(0, 3, "ffff", 0, 0, 0),
   gdt |-> <<>>, PE |-> FALSE, PG |-> FALSE, PAE |-> FALSE, LM |-> FALSE]

\* A GDT entry by its two fields of flags; the base is 0.
segment_gdt_entry(seg) ==
  [limit  |-> seg.limit,
   flags  |-> 8 * seg.g + 4 * seg.db + 2 * seg.l + seg.avl,
   access |-> 128 * seg.present + 32 * seg.dpl + 16 * seg.s + seg.type]

\* Mutant: two of the flags change places.
SegDescSwapped(seg) ==
  [limit |-> seg.limit,
   access |-> seg.type + 16 * seg.s + 32 * seg.dpl + 128 * seg.present + 4096 * seg.avl
              + 16384 * seg.l + 8192 * seg.db + 32768 * seg.g + 65536 * seg.unusable]

\* bhyve's descriptor of a segment.
SegDesc(seg) ==
  [limit |-> seg.limit,
   access |-> seg.type + 16 * seg.s + 32 * seg.dpl + 128 * seg.present + 4096 * seg.avl
              + 8192 * seg.l + 16384 * seg.db + 32768 * seg.g + 65536 * seg.unusable]

Bit(n, weight) == (n \div weight) % 2

\* The segment of a descriptor; its selector is a register of its own.
SegmentOf(desc, selector) ==
  [selector |-> selector, limit |-> desc.limit, type |-> desc.access % 16,
   s |-> Bit(desc.access, 16), dpl |-> (desc.access \div 32) % 4,
   present |-> Bit(desc.access, 128), avl |-> Bit(desc.access, 4096),
   l |-> Bit(desc.access, 8192), db |-> Bit(desc.access, 16384),
   g |-> Bit(desc.access, 32768), unusable |-> Bit(desc.access, 65536)]

\* set_segment: KVM takes the fields as they are.  The guest then runs with what
\* the descriptor says.
Held(seg) == IF native = "kvm" THEN seg ELSE SegmentOf(SegDesc(seg), seg.selector)

set_sregs(s) == [s EXCEPT !.cs = Held(@), !.ds = Held(@)]

LongMode ==
  LET code == generate_segment(1, 11)
      data == generate_segment(2, 3)
  IN [cs |-> code, ds |-> data,
      gdt |-> <<Unset, segment_gdt_entry(code), segment_gdt_entry(data)>>,
      PE |-> TRUE, PG |-> TRUE, PAE |-> TRUE, LM |-> TRUE]

\* The GDT, one entry each of PML4 and PDPT, and the page directory.
LongModeTables ==
  <<Region("gdt", BOOT_GDT_OFFSET, Paras(24)), Region("pml4", Paras(\ha000), 1),
    Region("pdpt", Paras(\hb000), 1), Region("pd", Paras(\hc000), Paras(4096))>>

setup_long_mode ==
  /\ pc = "mode" /\ kernel.format = "Elf64"
  /\ \/ Fail("failed")
     \/ /\ \A r \in Range(LongModeTables) : Fits(r.from, r.to - r.from)
        /\ ram' = ram \o LongModeTables
        /\ sregs' = set_sregs(LongMode)
        /\ pc' = "window" /\ UNCHANGED <<size, ph, entry, params, regs, mp>>
  /\ UNCHANGED input

make_flat32_segment(seg, type) ==
  [seg EXCEPT !.limit = "ffffffff", !.g = 1, !.db = 1, !.l = 0, !.type = type]

setup_protected_mode ==
  /\ pc = "mode" /\ kernel.format = "BzImage"
  /\ \/ Fail("failed")
     \/ /\ sregs' = set_sregs([sregs EXCEPT !.cs = make_flat32_segment(@, 11),
                                            !.ds = make_flat32_segment(@, 3),
                                            !.PE = TRUE, !.PG = FALSE, !.PAE = FALSE,
                                            !.LM = FALSE])
        /\ pc' = "window" /\ UNCHANGED <<size, ram, ph, entry, params, regs, mp>>
  /\ UNCHANGED input

-----------------------------------------------------------------------------
(* The devices' window, and the MP table of an SMP guest.                   *)

CheckWindow ==
  /\ pc = "window"
  /\ pc' = IF size >= PCI_MMIO_WINDOW_END THEN "failed"
           ELSE IF cpus > 1 THEN "mptable" ELSE "run"
  /\ UNCHANGED <<input, size, ram, ph, entry, params, regs, sregs, mp>>

ioapic_id == cpus

Processor(id) == [kind |-> "cpu", id |-> id, bsp |-> id = 0]

IntSrc(pin) ==
  [kind |-> "intsrc", pin |-> pin, dst |-> ioapic_id,
   type |-> IF native = "bhyve" /\ pin = 0 THEN "EXTINT" ELSE "INT",
   irq  |-> IF native = "bhyve" /\ pin = 2 THEN 0 ELSE pin]

Entries ==
  [i \in 1..cpus |-> Processor(i - 1)]
  \o <<[kind |-> "bus"], [kind |-> "ioapic", id |-> ioapic_id]>>
  \o [i \in 1..16 |-> IntSrc(i - 1)]
  \o <<[kind |-> "lintsrc"], [kind |-> "lintsrc"]>>

\* The table's bytes that vary, the checksum's own among them, as they are summed.
Bytes(length, count, sum) ==
  (length % 256) + (length \div 256) + (count % 256) + (count \div 256) + sum

checksum(bytes) == (256 - (bytes % 256)) % 256

\* Mutant: the checksum is taken before the count is filled in.
BackfillEarly(length, count) ==
  [length |-> length, count |-> count, sum |-> checksum(Bytes(length, 0, 0))]

\* Length, count and, last, the checksum.
Backfill(length, count) ==
  [length |-> length, count |-> count, sum |-> checksum(Bytes(length, count, 0))]

write_mptable ==
  /\ pc = "mptable"
  /\ LET length == 44 + 20 * cpus + 8 + 8 + 16 * 8 + 2 * 8
         count  == cpus + 1 + 1 + 16 + 2
     IN IF ~Fits(MPC_ADDR, Paras(length)) THEN Fail("failed")
        ELSE /\ mp' = [entries |-> Entries, header |-> Backfill(length, count)]
             /\ ram' = ram \o <<Region("mpc", MPC_ADDR, Paras(length)),
                                 Region("mpf", MPF_ADDR, 1)>>
             /\ pc' = "run" /\ UNCHANGED <<size, ph, entry, params, regs, sregs>>
  /\ UNCHANGED input

-----------------------------------------------------------------------------
Init ==
  /\ native \in {"kvm", "bhyve"} /\ mb \in MemSizes /\ kernel \in Kernels
  /\ initrd \in Initrds /\ cmdline \in CmdLens /\ cpus \in CpuCounts
  /\ pc = "allocate" /\ size = 0 /\ ram = <<>> /\ ph = 1 /\ entry = 0
  /\ params = [e820 |-> <<>>] /\ regs = Unset /\ sregs = ResetSregs /\ mp = Unset

Done == pc \in {"run", "failed", "panicked", "aborted"} /\ UNCHANGED vars

Next ==
  \/ Allocate \/ LoadBzImage \/ LoadSegment \/ SegmentRefused \/ OverflowPanics
  \/ BufferDies \/ ReadFails \/ SegmentsLoaded \/ DetectFails
  \/ load_initrd \/ setup_boot_params \/ setup_cmdline \/ setup_general_registers
  \/ setup_long_mode \/ setup_protected_mode \/ CheckWindow \/ write_mptable \/ Done

Spec == Init /\ [][Next]_vars

-----------------------------------------------------------------------------
(* Properties.                                                              *)

Running == pc = "run"

Written(owner) == {r \in Range(ram) : r.owner = owner}

\* The boot stack, from the end of the zero page up to the stack pointer.
Stack ==
  [owner |-> "stack", from |-> ZERO_PAGE_START + Paras(4096), to |-> BOOT_STACK_POINTER]

\* What load_elf_kernel writes of a segment, whichever of its sizes is the larger.
Extent(p) == Region("kernel", p.paddr, IF p.filesz > p.memsz THEN p.filesz ELSE p.memsz)

\* An image all of whose segments lie where load_elf_kernel leaves them, apart.
Plain(k) ==
  k.format = "Elf64" =>
    /\ \A i \in DOMAIN k.phdrs : k.phdrs[i].load => k.phdrs[i].paddr >= HIMEM_START
    /\ \A i, j \in DOMAIN k.phdrs :
         LET p == k.phdrs[i] q == k.phdrs[j] IN
         i < j /\ p.load /\ q.load =>
           ~Overlap(Extent(p), Extent(q))

\* An image whose entry lies in a segment; a bzImage's is its first byte.
HasEntry(k) ==
  k.format = "Elf64" =>
    \E i \in DOMAIN k.phdrs :
      LET p == k.phdrs[i] IN p.load /\ k.entry \in p.paddr..(p.paddr + p.memsz - 1)

\* The guest starts with every structure main wrote intact, and its stack free: no
\* write lands on an earlier one, except that an initramfs, whose place is fixed,
\* is laid over a kernel that reaches 128 MiB, and an image with segments below
\* 1 MiB, which load_elf_kernel moves up, may be laid over itself.
NothingIsOverwritten ==
  Running =>
    /\ \A i, j \in DOMAIN ram :
         i < j /\ Overlap(ram[i], ram[j]) =>
           \/ ram[i].owner = "kernel" /\ ram[j].owner = "kernel" /\ ~Plain(kernel)
           \/ /\ ram[i].owner = "kernel" /\ ram[j].owner = "initrd"
              /\ ram[i].to > INITRAMFS_ADDR
    /\ \A r \in Range(ram) : ~Overlap(r, Stack)

\* The memory map the guest is given covers its memory without gap or overlap,
\* claims nothing of the PCI window, and keeps the MP table, but nothing else main
\* wrote, out of the memory the guest may use.
MapIsHonest ==
  Running =>
    LET map == params.e820
        In(r, type) ==
          \E e \in Range(map) : e.type = type /\ e.addr <= r.from /\ r.to <= e.addr + e.size
    IN /\ map[1].addr = 0 /\ map[Len(map)].addr + map[Len(map)].size = size
       /\ \A i \in 2..Len(map) : map[i].addr = map[i - 1].addr + map[i - 1].size
       /\ size < PCI_MMIO_WINDOW_END
       /\ \A r \in Range(ram) :
            In(r, IF r.owner \in {"mpc", "mpf"} THEN "RESERVED" ELSE "RAM")

\* The registers and boot_params lead to what was written: the zero page, the
\* command line with its terminator, the initramfs, and, for an image with no
\* segment moved and an entry of its own, the kernel.
HandOver ==
  Running =>
    /\ \E r \in Written("params") : regs.rsi = r.from
    /\ \E r \in Written("cmdline") :
         params.cmd_line_ptr = r.from /\ r.to - r.from = Paras(params.cmdline_size)
         /\ params.cmdline_size = cmdline + 1
    /\ IF Written("initrd") = {} THEN params.ramdisk_size = 0
       ELSE \E r \in Written("initrd") :
              params.ramdisk_image = r.from /\ params.ramdisk_size = r.to - r.from
    /\ Plain(kernel) /\ HasEntry(kernel) =>
         \E r \in Written("kernel") : r.from <= regs.rip /\ regs.rip < r.to

\* The processor is in one mode, in full: 64-bit with paging through tables that
\* were written, and the segments of its GDT, or flat 32-bit without paging; on
\* bhyve after the trip through its descriptors too.
ModeIsWhole ==
  Running =>
    /\ sregs.PE /\ sregs.cs.present = 1 /\ sregs.cs.s = 1 /\ sregs.cs.g = 1
    /\ (sregs.LM <=> kernel.format = "Elf64") /\ (sregs.LM <=> sregs.PG /\ sregs.PAE)
    /\ IF sregs.LM
       THEN /\ sregs.cs.l = 1 /\ sregs.cs.db = 0
            /\ \A seg \in {sregs.cs, sregs.ds} :
                 segment_gdt_entry(seg) = sregs.gdt[seg.selector \div 8 + 1]
            /\ \A o \in {"gdt", "pml4", "pdpt", "pd"} : Written(o) # {}
       ELSE \A seg \in {sregs.cs, sregs.ds} :
              seg.l = 0 /\ seg.db = 1 /\ seg.limit = "ffffffff"

\* The MP table of an SMP guest is one it accepts: its length, count and checksum
\* are those of what follows, one processor boots, no APIC id is used twice, every
\* pin has one source, and the lines of COM1, virtio-rng and virtio-blk arrive at
\* the pins the interrupt sinks raise, on both backends.
MpTableIsSound ==
  (Running /\ cpus > 1) =>
    LET entries == Range(mp.entries)
        ids     == {e.id : e \in {x \in entries : x.kind \in {"cpu", "ioapic"}}}
        sources == {e \in entries : e.kind = "intsrc"}
        h       == mp.header
        Count(kinds) == Cardinality({i \in DOMAIN mp.entries : mp.entries[i].kind \in kinds})
    IN /\ h.count = Len(mp.entries)
       /\ h.length = 44 + 20 * Count({"cpu"}) + 8 * Count({"bus", "ioapic", "intsrc", "lintsrc"})
       /\ Bytes(h.length, h.count, h.sum) % 256 = 0
       /\ Cardinality({e \in entries : e.kind = "cpu" /\ e.bsp}) = 1
       /\ Cardinality(ids) = cpus + 1
       /\ \A pin \in 0..15 : Cardinality({e \in sources : e.pin = pin}) = 1
       /\ \A gsi \in {4, 12, 14} :
            \A e \in sources : e.irq = gsi <=> (e.pin = gsi /\ e.type = "INT")

\* A header load_elf_kernel dies on: the segment's end is past 64 bits, or its bytes
\* are more than the guest's memory holds.
Oversized(p) == p.load /\ (load_addr(p) + p.memsz >= Word \/ p.filesz > size)

\* Loading ends in an error or a guest, whatever the memory, the initramfs and the
\* command line; it dies only of the file: one too short to hold a setup header, or
\* an ELF with a header table or an oversized segment that no memory could hold.  In
\* particular the memory map's subtraction never goes below zero, since no size
\* under 1 MiB is left, and zeroing never needs more than the guest's memory unless
\* the segment wraps.
DiesOfFileOnly ==
  pc \in {"panicked", "aborted"} =>
    \/ kernel.format = "Stub"
    \/ /\ kernel.format = "Elf64"
       /\ \E i \in DOMAIN kernel.phdrs :
            phdr_offset(kernel, i) >= Word \/ Oversized(kernel.phdrs[i])
=============================================================================
