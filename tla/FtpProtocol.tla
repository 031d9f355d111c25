---------------------------- MODULE FtpProtocol ----------------------------
(***************************************************************************)
(* What client and server share (common.h, common.c): the command codes,   *)
(* the frame both ends exchange, the block a read() of a file returns and  *)
(* the byte-order arithmetic applied to a block's length.                  *)
(*                                                                         *)
(* One SSL_write of at most MAX_READ_BYTES plus the header is one TLS      *)
(* record, and one SSL_read into a buffer of that size returns one record, *)
(* so a frame is the unit of exchange.                                     *)
(***************************************************************************)
EXTENDS Integers, Sequences

CONSTANTS
  MaxReadBytes,   \* MAX_READ_BYTES: the most file bytes one frame carries
  ByteBase,       \* the values of a byte of an integer in memory: 256
  Byte,           \* the bytes a file or a listing is made of
  Names,          \* the names a file may have
  Dirs,           \* the directories of the server
  EmptyName,      \* the name in an all-zero buffer: ""
  BlockName,      \* the text of a file block
  Spelled         \* what the bytes of a block say where a name is expected

ASSUME ProtocolAssumption ==
  /\ MaxReadBytes \in Nat \ {0}
  /\ ByteBase \in Nat \ {0, 1}
  /\ MaxReadBytes < ByteBase * ByteBase
  /\ EmptyName \notin Names \cup Dirs
  /\ BlockName \notin Names \cup Dirs
  /\ BlockName # EmptyName
  /\ Spelled \subseteq Names \cup {EmptyName, BlockName} /\ Spelled # {}

\* The enumerators of command_type_t that travel; the first one is 0.
command_type_t == {"PUT", "GET", "CD", "LS", "PWD", "MKDIR", "RM", "LPWD",
                   "QUIT", "END_FILE", "NO_FILE", "ERROR_FILE"}

\* A command field that equals no enumerator.
Garbage == "GARBAGE"

\* The command field of a buffer that memset, or fresh memory, left zero.
ZeroCommand == "PUT"

\* struct info of login(), and the "1" or "0" that answers it: neither has
\* a frame header.
Credential == {"KNOWN_USER", "UNKNOWN_USER"}
Verdict    == {"1", "0"}

Text == Names \cup Dirs \cup {EmptyName, BlockName}

\* A frame: its command, its body as text and its body as file bytes. A
\* request has text and no bytes, a block the text BlockName.
msg_head_ctrl_t == [command : command_type_t \cup {Garbage}
                              \cup Credential \cup Verdict,
                    name : Text, data : Seq(Byte)]

Frame(c, n, d) == [command |-> c, name |-> n, data |-> d]
Request(c, n)  == Frame(c, n, << >>)
Block(c, d)    == Frame(c, BlockName, d)
IsBlock(m)     == m.name = BlockName

\* The name that code finds in msg_body, up to its first zero byte. Of a block
\* that is whatever the file holds there: a file name by chance, or, as
\* BlockName itself, one that open refuses (too long, no such directory).
NamesIn(m) == IF IsBlock(m) THEN Spelled ELSE {m.name}

\* What a failed SSL_read leaves in the buffer memset cleared before it.
ZeroFrame == Request(ZeroCommand, EmptyName)

-----------------------------------------------------------------------------
\* A directory entry: absent, a regular file, or something else (a symbolic
\* link, a FIFO) that lstat finds and S_ISREG rejects.
Entry == [kind : {"none", "special"}, data : {<< >>}]
           \cup [kind : {"file"}, data : Seq(Byte)]
NoEntry      == [kind |-> "none", data |-> << >>]
SpecialEntry == [kind |-> "special", data |-> << >>]
RegularFile(d) == [kind |-> "file", data |-> d]

file_exist(e) == e.kind = "file"

\* read(fd, buf, MAX_READ_BYTES) at an offset of a file.
BlockAt(d, off) ==
  SubSeq(d, off + 1, IF off + MaxReadBytes < Len(d) THEN off + MaxReadBytes
                                                    ELSE Len(d))

\* htonl on the little-endian targets of the Makefile (x86 and arm): the
\* integer whose four bytes are those of n in reverse.
htonl(n) ==
  LET B2 == ByteBase * ByteBase
      B3 == ByteBase * B2
  IN  ((n % ByteBase) * B3) + (((n \div ByteBase) % ByteBase) * B2)
        + (((n \div B2) % ByteBase) * ByteBase) + ((n \div B3) % ByteBase)

=============================================================================
