\* Two users in one directory ask for the same file.
SPECIFICATION SharedSpec
CONSTANTS
  MaxReadBytes = 2
  ByteBase = 2
  Byte <- MCByte
  Names = {f, g}
  Dirs = {}
  EmptyName = empty
  BlockName = block
  Spelled = {block}
  a = a
  b = b
  f = f
  g = g
  here = here
  there = there
  Users = {a, b}
  ServDir = srv
  Home <- OneHome
  Initial <- OneFile
  MaxCommands = 1
  Capacity = 1
PROPERTIES OthersKept
\* The users stop typing.
CHECK_DEADLOCK FALSE
