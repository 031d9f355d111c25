\* The user uploads while a listing is on its way.
SPECIFICATION FairSpec
CONSTANTS
  MaxReadBytes = 2
  ByteBase = 2
  Byte <- MCByte
  Names = {d}
  Dirs = {root}
  EmptyName = empty
  BlockName = block
  Spelled = {block}
  Capacity = 1
  Faults <- NoFaults
  RootDir = root
  ServerFiles <- FewServFiles
  ListingLengths <- LongListing
  ListByte = 0
  ClientFiles <- FewUserFiles
  LpwdName = d
  UserCommands = {"LS", "PUT"}
  Settled = FALSE
PROPERTIES PutEnds
\* Both directions full is the stop in question.
CHECK_DEADLOCK FALSE
