\* A user who waits until each command has been dealt with, two names,
\* two directories, blocks that spell one of the names or none, and failures
\* that neither end the client nor leave half a file.
SPECIFICATION Spec
CONSTANTS
  MaxReadBytes = 2
  ByteBase = 2
  Byte <- MCByte
  Names = {f, d}
  Dirs = {root, sub}
  EmptyName = empty
  BlockName = block
  Spelled = {d, block}
  Capacity = 1
  Faults <- Recoverable
  RootDir = root
  ServerFiles <- FewServFiles
  ListingLengths <- Listings
  ListByte = 0
  ClientFiles <- FewUserFiles
  LpwdName = d
  UserCommands = {"CD", "LS", "PWD", "MKDIR", "RM", "LPWD", "PUT", "GET"}
  Settled = TRUE
PROPERTIES ImplementsFileService
\* The child leaves at time out.
CHECK_DEADLOCK FALSE
