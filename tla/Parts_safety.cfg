SPECIFICATION Spec
CHECK_DEADLOCK FALSE
CONSTANTS
  Threads = {"t1", "t2", "t3"}
  Half <- Halves
  Amounts = {0, 1, 3}
  MaxCounts = 3
  Senders = {"s1", "s2"}
  Targets <- OneEach
  Sources <- OneAddress
  HostIndex <- Indices
  Router = "r"
  Streams = 2
  NumPorts = 3
  Word = 5
  PairKeys <- Wraps
  Kinds = {"tcp_synscan", "tcp_synackscan", "icmp_echoscan", "icmp_echo_time"}
  MaxCaptures = 2
  ALIGNMENT = 2
  PoolSizes = {10}
  MaxAlloc = 6
  PoolHeader = 4
  DataHeader = 2
  LargeRecord = 2
  CleanupRecord = 3
  AskedSizes = {0, 1, 6}
  FailLimit = 0
  ReuseLimit = 2
  ObjectMem = 9
  ObjectHeaders = 1
  ObjectSizes = {1, 3, 8}
  Limits = {0, 2}
  PoolCalls = 5
  SendTasks = 2
  HostsEach = 2
  Retries = 1
  TxPerNBuf = 2
  TxQueueLen = 3
  Bits = 2
  BinNumbers <- SomeNumbers
  BinStrings <- SomeStrings
  BinSizes = {3, 12}
  BinWrites = 2
INVARIANTS
  IterationsExact
  BinExact
  RecordExact
  OptionsExact
  ConfigExact
  InterfaceExact
  LocksExact
  LinksExact
  TablesExact
  PoolsExact
  AnswersExact
  StoredOnce
  FileExact
  NamesExact
