---------------------------- MODULE MCFtpSession ----------------------------
(***************************************************************************)
(* Instances of FtpSession for TLC. Blocks of 2 bytes; file lengths below, *)
(* at and above one block, and of exactly two. A byte is its position in   *)
(* the file, plus 10 when the file was the server's from the start.        *)
(***************************************************************************)
EXTENDS FtpRefinement

MCByte == 0 .. 14

UserFile(n) == RegularFile([i \in 1 .. n |-> i])
ServFile(n) == RegularFile([i \in 1 .. n |-> 10 + i])

Lengths == 0 .. 4

\* Directories that hold regular files only.
AnyUserFile == {NoEntry} \cup {UserFile(n) : n \in Lengths}
AnyServFile == {NoEntry} \cup {ServFile(n) : n \in Lengths}

\* A few of them, where two names make many initial states.
FewUserFiles == {NoEntry, UserFile(1), UserFile(4)}
FewServFiles == {NoEntry, SpecialEntry, ServFile(3)}

\* With entries that are not regular files.
SomeUserFiles == {NoEntry, SpecialEntry, UserFile(3)}
SomeServFiles == {NoEntry, SpecialEntry, ServFile(2), ServFile(3)}

\* What ls and pwd print: nothing, less than a block, two blocks.
Listings == {0, 1, 4}

\* The same, where each more would multiply the states.
LongListing == {4}

NoFaults == {}

\* Failures the two programs detect, or that leave their own files whole.
Recoverable == {"popen", "sopen", "sread", "copen", "cwrite", "timeout"}

\* Everything but a server disk that loses a block.
MostFaults == AllFaults \ {"swrite"}

\* One adversity, or one with its time out, for a question of its own.
StaleHeap  == {"reuse"}
ClientGone == {"kill", "timeout"}

=============================================================================
