CONSTANTS
  b1 = b1
  b2 = b2
  b3 = b3
  b4 = b4
  NULL = NULL
  NbCpu = 9
  Blocks <- MCBlocks
  UserCpus <- MCUserCpus
  MaxCalls = 6
SYMMETRY MCSymmetry
SPECIFICATION Spec
INVARIANTS TypeOK CpuBitsAgree 
