SPECIFICATION FairSpec
CONSTANTS
  getpid = getpid
  read = read
  stat = stat
  vfork = vfork
  Insts <- AllInsts
  Syscalls <- AllSyscalls
  ReadsOf <- Reads
  Supported <- Handled
  ChunkSize = 2
  QueueSize = 2
  MaxRounds = 3
  MaxInts = 1
INVARIANTS Agree Quiet LogInStep StopsReported
PROPERTY ExchangeEnds
CHECK_DEADLOCK FALSE
