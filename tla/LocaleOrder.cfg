SPECIFICATION Spec
CONSTANTS
  NULL = NULL
  Unknown = Unknown
  NoTable = NoTable
  NormOf <- MCNormOf
  Hash <- MCHash
  MsgRank <- MCMsgRank
  LongBits = 64
  FlagI = TRUE
  INITIAL_BLOCK_SIZE = 12
  ALIGN = 4
  Lengths <- MCLengths
  Disk <- MCOrderDisk
  Catalog <- MCOrderCatalog
  AliasPath <- MCAliasPath
  Families <- MCFamilies
  Environments <- MCOrderEnvironments
  Domains <- MCDomains
  DomainRank <- MCDomainRank
  Dirnames <- MCDirnames
  LOCALEDIR <- MCLOCALEDIR
  Codesets <- MCCodesets
  Convertible <- MCConvertible
  OutLength <- MCOutLength
  Calls <- MCCalls
  Category = "LC_MESSAGES"
  SecureModes = {FALSE}
  MaxOps = 2
  MaxChanges = 0
  MaxFailures = 0
INVARIANTS
  AnswerIsPreferred
CHECK_DEADLOCK FALSE
