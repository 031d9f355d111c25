------------------------------ MODULE TlsLink ------------------------------
(***************************************************************************)
(* The TLS connection between one client and one server child: a bounded   *)
(* FIFO of frames each way, and who holds a descriptor of each end.        *)
(*                                                                         *)
(* The accepted socket is held by the child that serves it and by the      *)
(* parent, which forks without closing it (ftpserver.c:119-146): the       *)
(* client meets end-of-file only when neither holds it.                    *)
(*                                                                         *)
(* What was written before a close arrives, unless the other end finds     *)
(* itself written to after its close, or closed with answers unread: then  *)
(* it resets the connection, and what had not arrived by then is lost.     *)
(***************************************************************************)
EXTENDS FtpProtocol

CONSTANTS
  Capacity,   \* frames a direction holds before SSL_write blocks
  Faults      \* the adversities of the environment that may happen

AllFaults ==
  {"db",        \* sqlite3_open fails
   "popen",     \* popen cannot start the command
   "sighup",    \* the command of popen is killed by signal 1
   "sopen",     \* open() of a server file fails (permissions)
   "sread",     \* read() of a server file fails
   "swrite",    \* write() to a server file fails or is short (disk full)
   "timeout",   \* 600 s pass without a request
   "crash",     \* the child dies
   "parent",    \* the listening process ends
   "copen",     \* open() of a client file fails
   "cwrite",    \* write() to a client file fails or is short
   "reuse",     \* malloc hands out a freed message buffer as it was
   "kill"}      \* the client dies

ASSUME LinkAssumption ==
  /\ Capacity \in Nat \ {0}
  /\ Faults \subseteq AllFaults

VARIABLES
  c2s,     \* frames written by the client and not yet read by the server
  s2c,     \* frames written by the server and not yet read by the client
  cEnd,    \* the client's descriptor is open
  sEnds    \* the server processes whose descriptor is open

linkVars == <<c2s, s2c, cEnd, sEnds>>

LinkTypeOK ==
  /\ c2s \in Seq(msg_head_ctrl_t) /\ Len(c2s) <= Capacity
  /\ s2c \in Seq(msg_head_ctrl_t) /\ Len(s2c) <= Capacity
  /\ cEnd \in BOOLEAN
  /\ sEnds \subseteq {"child", "parent"}

LinkInit ==
  /\ c2s = << >> /\ s2c = << >>
  /\ cEnd = TRUE /\ sEnds = {"child", "parent"}

-----------------------------------------------------------------------------
\* What a reset leaves of the frames in one direction.
Cut(q) == {SubSeq(q, 1, n) : n \in 0 .. Len(q) - 1}

\* SSL_read of the server returns: a frame, or nothing once the client's end
\* is closed and drained. The buffer was cleared, so a failed read is ZeroFrame.
ServReadable == c2s # << >> \/ ~cEnd
ServFrame    == IF c2s # << >> THEN Head(c2s) ELSE ZeroFrame
ServConsume  == c2s' = IF c2s # << >> THEN Tail(c2s) ELSE c2s

\* SSL_write of the server: it blocks while the direction is full, and the
\* kernel may accept bytes nobody will read once the client's end is closed.
ServWrite(m) ==
  \/ /\ cEnd
     /\ Len(s2c) < Capacity
     /\ s2c' = Append(s2c, m)
  \/ ~cEnd /\ UNCHANGED s2c

\* The same for the client.
ClientReadable == s2c # << >> \/ sEnds = {}
ClientFrame    == IF s2c # << >> THEN Head(s2c) ELSE ZeroFrame
ClientConsume  == s2c' = IF s2c # << >> THEN Tail(s2c) ELSE s2c

\* Mutant of ClientWrite: it does not wait for room.
ClientWriteAlways(m) ==
  \/ sEnds # {} /\ c2s' = Append(c2s, m)
  \/ sEnds = {} /\ UNCHANGED c2s

ClientWrite(m) ==
  \/ /\ sEnds # {}
     /\ Len(c2s) < Capacity
     /\ c2s' = Append(c2s, m)
  \/ sEnds = {} /\ UNCHANGED c2s

=============================================================================
