SPECIFICATION Spec
CONSTANTS
  NULL = NULL
  Unknown = Unknown
  NoTable = NoTable
  NormOf <- MCNormOf
  Hash <- MCHash
  MsgRank <- MCMsgRank
  LongBits = 64
  FlagI = TRUE
  INITIAL_BLOCK_SIZE = 12
  ALIGN = 4
  Lengths <- MCLengths
  Disk <- MCDisk
  Catalog <- MCCatalog
  AliasPath <- MCAliasPath
  Families <- MCFamilies
  Environments <- MCEnvironments
  Domains <- MCDomains
  DomainRank <- MCDomainRank
  Dirnames <- MCDirnames
  LOCALEDIR <- MCLOCALEDIR
  Codesets <- MCCodesets
  Convertible <- MCConvertible
  OutLength <- MCOutLength
  Calls <- MCCalls
  Category = "LC_MESSAGES"
  SecureModes = {TRUE, FALSE}
  MaxOps = 3
  MaxChanges = 1
  MaxFailures = 1
INVARIANTS
  TypeOK
  NothingHidden
  AnswerIsBest
  AnswerInCodeset
  AnswerExists
  PoolIntact
PROPERTY CallsEnd
CHECK_DEADLOCK FALSE
