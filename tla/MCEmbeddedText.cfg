CONSTANTS
  GateThreads = {t1, t2}
  Pointers = {"p1", "p2", "p3", "p4"}
  Names = {"n1", "n2", "n3"}
  NameOf <- MCNameOf
  HashOf <- MCHashOf
  CacheSize = 2
  Configs <- MCConfigs
  NoList = NoList
  NoName = NoName
  NoPointer = NoPointer
  IdThreads = {t1, t2}
  Ids = {"m1", "m2", "m3"}
  IdHash <- MCIdHash
  IdSlots = 2
  Texts = {"a", "b"}
  NoText = ""
  NoId = NoId
  NoThread = NoThread
  Loaders = {t1, t2}
  Libs = {"liba", "libb", "libother", "payload"}
  Payload = "payload"
  Segment <- MCSegment
  PathNames <- MCPathNames
  Listed = {"liba", "libother", "payload"}
  Preloaded = {"libb", "payload"}
  MaxRanges = 2
  ProcessNames <- MCProcessNames
  MayFork = TRUE
  NoPackage = ""
  Users = {t1, t2}
  Classes = {1, 2}
  Sizes = {1, 2, 3}
  Arena = 3
  LastAddress = 10
  MaxNesting = 3
  MaxSections = 2
  Arguments <- MCArguments
  Objects <- MCObjects
  Limits = {2, 3, 4, 5, 6, 7, 8, 9, 11, 13, 16, 99}
  Aheads = {0, 4, 8}
  MaxRefs = 8
  MaxEmbedded = 4
  Types <- MCTypes
  MaxTypes = 3
  MaxArgs = 2
SPECIFICATION MCSpec
INVARIANT EmbeddedTextShown
CHECK_DEADLOCK FALSE
