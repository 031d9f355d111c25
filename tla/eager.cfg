\* A user who types ahead of the answers.
SPECIFICATION FairSpec
CONSTANTS
  MaxReadBytes = 2
  ByteBase = 2
  Byte <- MCByte
  Names = {d}
  Dirs = {root}
  EmptyName = empty
  BlockName = block
  Spelled = {block}
  Capacity = 2
  Faults <- NoFaults
  RootDir = root
  ServerFiles <- FewServFiles
  ListingLengths <- LongListing
  ListByte = 0
  ClientFiles <- FewUserFiles
  LpwdName = d
  UserCommands = {"LS", "RM", "LPWD", "PUT", "GET", "QUIT"}
  Settled = FALSE
INVARIANTS InStep
PROPERTIES UploadExact LocalKept QuitEndsSession
\* After quit both have ended; two full directions also stop the session.
CHECK_DEADLOCK FALSE
