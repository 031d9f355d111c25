\* The user types get before the end of the last answer is read.
SPECIFICATION Spec
CONSTANTS
  MaxReadBytes = 2
  ByteBase = 2
  Byte <- MCByte
  Names = {f, d}
  Dirs = {root}
  EmptyName = empty
  BlockName = block
  Spelled = {block}
  Capacity = 2
  Faults <- NoFaults
  RootDir = root
  ServerFiles <- FewServFiles
  ListingLengths <- Listings
  ListByte = 0
  ClientFiles <- FewUserFiles
  LpwdName = d
  UserCommands = {"PUT", "GET"}
  Settled = FALSE
PROPERTIES DownloadExact
\* Only the property is asked.
CHECK_DEADLOCK FALSE
