\* Files of every length around the block size, with blocks that may spell a
\* name; the user waits.
SPECIFICATION FairSpec
CONSTANTS
  MaxReadBytes = 2
  ByteBase = 2
  Byte <- MCByte
  Names = {f, d}
  Dirs = {root}
  EmptyName = empty
  BlockName = block
  Spelled = {d, block}
  Capacity = 1
  Faults <- NoFaults
  RootDir = root
  ServerFiles <- AnyServFile
  ListingLengths <- Listings
  ListByte = 0
  ClientFiles <- AnyUserFile
  LpwdName = d
  UserCommands = {"CD", "LS", "PWD", "MKDIR", "RM", "LPWD", "PUT", "GET", "QUIT"}
  Settled = TRUE
PROPERTIES DownloadExact PutEnds GetEnds NeverOverwritten
\* After quit both processes have ended.
CHECK_DEADLOCK FALSE
