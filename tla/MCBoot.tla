------------------------------- MODULE MCBoot -------------------------------
(***************************************************************************)
(* Kernels, sizes and counts at and around the boundaries of Boot.          *)
(***************************************************************************)
EXTENDS Boot

Load(paddr, filesz, memsz) ==
  [load |-> TRUE, paddr |-> paddr, filesz |-> filesz, memsz |-> memsz]

Note == [load |-> FALSE, paddr |-> 0, filesz |-> 1, memsz |-> 1]

\* Headers are 56 bytes each, after the ELF header's 64.
ElfAt(phoff, phdrs, at) ==
  [format |-> "Elf64", phoff |-> phoff, phentsize |-> 4, phdrs |-> phdrs, entry |-> at]

Elf(phdrs, at) == ElfAt(4, phdrs, at)

\* A bzImage so large that its payload ends so many paragraphs above 1 MiB.
Bz(sects, sectors) == [format |-> "BzImage", sects |-> sects, len |-> sectors]

MCKernels ==
  {[format |-> "Stub"], [format |-> "Other"],
   Bz(0, 5), Bz(0, 6), Bz(4, 5 + 2048), Bz(1, 2 + 127 * 2048), Bz(1, 3 + 127 * 2048),
   Elf(<<>>, 0), Elf(<<Note>>, 0),
   Elf(<<Note, Load(16 * MiB, 5, 9), Load(18 * MiB, 0, 4)>>, 16 * MiB + 2),
   Elf(<<Load(MiB, 127 * MiB, 127 * MiB)>>, MiB),
   Elf(<<Load(MiB, 3, 127 * MiB + 1)>>, MiB),
   Elf(<<Load(Paras(\h1000), MiB \div 8, MiB \div 8), Load(MiB, 4, 8)>>, Paras(\h1000)),
   Elf(<<Load(MiB, 8, 4)>>, MiB), Elf(<<Load(MiB, 8, 4), Load(MiB + 4, 4, 4)>>, MiB),
   ElfAt(Word - 4, <<Note, Load(MiB, 4, 4)>>, MiB),
   Elf(<<Load(MiB, 4, 4), Load(2 * MiB, Word \div 2, 4)>>, MiB),
   Elf(<<Load(MiB, Word \div 2 - 1, 4)>>, MiB),
   Elf(<<Load(2 * MiB, 4, Word - MiB)>>, 2 * MiB),
   Elf(<<Load(2 * MiB, 4, Word - 2 * MiB - 1)>>, 2 * MiB),
   Elf(<<Load(3 * (Word \div 4), 4, Word \div 4)>>, MiB),
   Elf(<<Load(3 * (Word \div 4), 0, Word \div 4)>>, MiB),
   Elf(<<Load(Word - 4, 0, 8)>>, MiB)}

MCMemSizes == {0, 1, 2, 3, 127, 128, 129, 256, 3327, 3328}
MCInitrds  == {-1, 0, 1, MiB}
MCCmdLens  == {0, 15, 2047, 2048}
MCCpus     == {1, 2, 255}
=============================================================================
