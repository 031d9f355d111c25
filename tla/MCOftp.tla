------------------------------- MODULE MCOftp -------------------------------
(***************************************************************************)
(* The instance of Oftp for TLC. Blocks of 2 bytes; a byte is its position *)
(* in the file.                                                            *)
(***************************************************************************)
EXTENDS Oftp

MCByte == 1 .. 3

\* One directory of the server holds a block and a half, the other nothing.
MCServerTrees ==
  {[p \in Dirs \X Names |-> IF p[1] = RootDir THEN RegularFile(<<1, 2, 3>>)
                                             ELSE NoEntry]}

\* In one directory of the user the name is free, in the other it is a link
\* or FIFO.
MCUserTrees ==
  {[p \in UserDirs \X Names |-> IF p[1] = HomeDir THEN NoEntry
                                                 ELSE SpecialEntry]}

\* What ls and pwd print: a block and a half.
MCListings == {<<1, 2, 3>>}

AllOftpFaults == OftpFaults

=============================================================================
