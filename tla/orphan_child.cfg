\* The client may be killed; the server has its time out.
SPECIFICATION FairSpec
CONSTANTS
  MaxReadBytes = 2
  ByteBase = 2
  Byte <- MCByte
  Names = {d}
  Dirs = {root}
  EmptyName = empty
  BlockName = block
  Spelled = {block}
  Capacity = 1
  Faults <- ClientGone
  RootDir = root
  ServerFiles <- FewServFiles
  ListingLengths <- Listings
  ListByte = 0
  ClientFiles <- FewUserFiles
  LpwdName = d
  UserCommands = {"PUT", "GET"}
  Settled = TRUE
PROPERTIES OrphanEnds
\* The child leaves at time out.
CHECK_DEADLOCK FALSE
