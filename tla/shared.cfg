\* Two users with a directory each, and one directory of the server.
SPECIFICATION FairSharedSpec
CONSTANTS
  MaxReadBytes = 2
  ByteBase = 2
  Byte <- MCByte
  Names = {f, g}
  Dirs = {}
  EmptyName = empty
  BlockName = block
  Spelled = {block}
  a = a
  b = b
  f = f
  g = g
  here = here
  there = there
  Users = {a, b}
  ServDir = srv
  Home <- OwnHomes
  Initial <- TwoFiles
  MaxCommands = 3
  Capacity = 1
INVARIANTS SharedTypeOK OneWriter NeverMixed
PROPERTIES SharedUploadWhole SharedGetEnds SharedPutEnds
\* The users stop typing.
CHECK_DEADLOCK FALSE
