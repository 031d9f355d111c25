\* Everything but a full server disk may go wrong, at any time.
SPECIFICATION Spec
CONSTANTS
  MaxReadBytes = 2
  ByteBase = 2
  Byte <- MCByte
  Names = {d}
  Dirs = {root}
  EmptyName = empty
  BlockName = block
  Spelled = {block}
  Capacity = 1
  Faults <- MostFaults
  RootDir = root
  ServerFiles <- SomeServFiles
  ListingLengths <- LongListing
  ListByte = 0
  ClientFiles <- SomeUserFiles
  LpwdName = d
  UserCommands = {"LS", "RM", "LPWD", "PUT", "GET", "QUIT"}
  Settled = FALSE
INVARIANTS TypeOK LoginPhase LoginInv UploadPrefix
\* Either end may be killed.
CHECK_DEADLOCK FALSE
