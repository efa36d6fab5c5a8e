\* Memory sizes, kernels, initramfs sizes, command lines and processor counts on
\* both sides of each limit.  2^30 paragraphs stand for the 2^60 of the address space:
\* sums of two of them are what TLC's integers hold.
CONSTANTS
  MemSizes <- MCMemSizes
  Kernels <- MCKernels
  Initrds <- MCInitrds
  CmdLens <- MCCmdLens
  CpuCounts <- MCCpus
  Word = 1073741824
SPECIFICATION Spec
INVARIANTS NothingIsOverwritten MapIsHonest HandOver ModeIsWhole MpTableIsSound
           DiesOfFileOnly
