---------------------------- MODULE MCSharedDir ----------------------------
(***************************************************************************)
(* Instances of SharedDir for TLC: two users, blocks of 2 bytes. The bytes *)
(* of no two files are equal.                                              *)
(***************************************************************************)
EXTENDS SharedDir

CONSTANTS a, b, f, g, here, there

MCByte == 1 .. 10

\* Each user has a directory, with a file of the same name in both, and one
\* more that only the other user can ask for.
OwnHomes == [u \in Users |-> IF u = a THEN here ELSE there]
TwoFiles == << <<here, f, <<1, 2, 3, 4, 5>>>>, <<there, f, <<6, 7>>>>,
               <<here, g, <<8, 9, 10>>>> >>

\* Both work in one directory, and only the server has a file.
OneHome == [u \in Users |-> here]
OneFile == << <<ServDir, g, <<8, 9, 10>>>> >>

=============================================================================
