\* The version before TLS: a stream that may be cut anywhere, a user who
\* types ahead, and every failure.
SPECIFICATION FairOftpSpec
CONSTANTS
  MaxReadBytes = 2
  ByteBase = 2
  Byte <- MCByte
  Names = {f}
  Dirs = {root, sub}
  EmptyName = empty
  BlockName = block
  Spelled = {block}
  Buffer = 5
  RootDir = root
  HomeDir = home
  UserDirs = {home, other}
  ServerTrees <- MCServerTrees
  UserTrees <- MCUserTrees
  Ahead = {"LS", "QUIT"}
  Listings <- MCListings
  Faults <- AllOftpFaults
INVARIANTS OftpTypeOK Aligned
PROPERTIES OftpGetExact OftpGetEnds BothEnd
\* Both processes end in the course of time.
CHECK_DEADLOCK FALSE
