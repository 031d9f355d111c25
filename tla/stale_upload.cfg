\* A message buffer is handed out again by malloc as it was freed.
SPECIFICATION Spec
CONSTANTS
  MaxReadBytes = 2
  ByteBase = 2
  Byte <- MCByte
  Names = {f, d}
  Dirs = {root}
  EmptyName = empty
  BlockName = block
  Spelled = {block}
  Capacity = 1
  Faults <- StaleHeap
  RootDir = root
  ServerFiles <- FewServFiles
  ListingLengths <- Listings
  ListByte = 0
  ClientFiles <- FewUserFiles
  LpwdName = d
  UserCommands = {"LS", "PUT", "GET"}
  Settled = TRUE
PROPERTIES UploadExact
