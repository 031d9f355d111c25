------------------------- MODULE SharedFiles_proofs -------------------------
(***************************************************************************)
(* What the shared directories hold, for any number of users, directories, *)
(* files and commands: no file ever mixes two (NeverMixed), and where each *)
(* user has a directory of his own, a finished upload is whole             *)
(* (SharedUploadWhole). Both as long as no block of a file reads as the    *)
(* name of a file: handle_put would store the rest of a refused upload     *)
(* under such a name.                                                      *)
(*                                                                         *)
(* A file is written by one process (OneWriter, of SharedDir_proofs), so   *)
(* what it holds is what that one put there, in the order of its queue.    *)
(* MixInv follows every byte to the file of the start that it comes from,  *)
(* WholeInv every frame of an upload to the user's file.                   *)
(***************************************************************************)
EXTENDS SharedDir_proofs

-----------------------------------------------------------------------------
(***************************************************************************)
(* What the files hold. Every inode has an origin, the file of the start   *)
(* of which it holds the beginning; an upload or a download gives the new  *)
(* inode the origin of the one it reads. The frames of a queue are slices  *)
(* of one origin and lead from the place where the reader of the queue is  *)
(* to the place where its writer is (Run of RunLemmas).                    *)
(***************************************************************************)
Data(j) == Initial[j][3]

\* A place within a file of the start, or between two requests.
Spot == [of : {0} \cup DOMAIN Initial, pos : Nat]
Between == [of |-> 0, pos |-> 0]
Start(s) == s.of # 0 /\ s.pos = 0

\* The bytes d lie between two places of one file.
Piece(s, d, t) ==
  /\ t.of = s.of /\ s.pos <= t.pos /\ t.pos <= Len(Data(s.of))
  /\ d = Slice(Data(s.of), s.pos, t.pos)

\* How a frame of a client, and an answer to a get, lead from s to t.
UpLeads(s, m, t) ==
  \/ /\ s.of = 0 /\ ~IsBlock(m)
     /\ IF m.command = "PUT" THEN Start(t) ELSE t.of = 0
  \/ /\ s.of # 0 /\ IsBlock(m) /\ m.command \notin {"GET", "RM"}
     /\ \E x \in Spot : /\ Piece(s, m.data, x)
                        /\ IF Ends(m) THEN t.of = 0 ELSE t = x
DownLeads(s, m, t) ==
  IF m.command = "NO_FILE" THEN s.of = 0 /\ t.of = 0
                           ELSE s.of # 0 /\ Piece(s, m.data, t)

UpWay   == {x \in Spot \X msg_head_ctrl_t \X Spot : UpLeads(x[1], x[2], x[3])}
DownWay == {x \in Spot \X msg_head_ctrl_t \X Spot : DownLeads(x[1], x[2], x[3])}

\* Every inode holds the beginning of its origin.
Origins(src) ==
  /\ src \in [1 .. Len(ino) -> DOMAIN Initial]
  /\ \A i \in 1 .. Len(ino) :
       /\ Len(ino[i]) <= Len(Data(src[i]))
       /\ ino[i] = Slice(Data(src[i]), 0, Len(ino[i]))

\* Where a process is in what it writes, and in what it reads.
Stored(src, i)    == [of |-> src[i], pos |-> Len(ino[i])]
Fetched(src, x)   == [of |-> src[x.fd], pos |-> x.off]

ChildSpot(u, src, s) ==
  sv[u].pc = "put" /\ sv[u].name \in Names =>
    IF sv[u].fd = NoInode THEN Start(s) ELSE s = Stored(src, sv[u].fd)
ClientSpot(u, src, t) ==
  IF cl[u].pc # "put" THEN t.of = 0
    ELSE IF cl[u].fd = NoInode THEN Start(t) ELSE t = Fetched(src, cl[u])

UpTrace(u, src) ==
  \E s, t \in Spot : /\ Run(up[u], s, t, Spot, UpWay)
                     /\ ChildSpot(u, src, s) /\ ClientSpot(u, src, t)

\* A get: its request is on the way, or the child looks for the file, or
\* reads and has read it; the client stores what it finds in its queue.
Unanswered(u) == cl[u].fd = NoInode /\ down[u] = << >>
Answering(u, src) ==
  \E s, t \in Spot :
    /\ Run(down[u], s, t, Spot, DownWay)
    /\ IF cl[u].fd = NoInode THEN s.pos = 0 ELSE s = Stored(src, cl[u].fd)
    /\ sv[u].pc = "get" => t = Fetched(src, sv[u])
GetTrace(u, src) ==
  \/ /\ up[u] # << >> /\ Tail(up[u]) = << >> /\ Head(up[u]).command = "GET"
     /\ sv[u].pc = "select" /\ Unanswered(u)
  \/ up[u] = << >> /\ sv[u].pc \in {"nofile", "open"} /\ Unanswered(u)
  \/ up[u] = << >> /\ sv[u].pc \in {"get", "select"} /\ Answering(u, src)

Traced(u, src) == UpTrace(u, src) /\ (cl[u].pc = "get" => GetTrace(u, src))

\* No process reads behind the end of its file; a user's command starts in a
\* quiet session; a get that failed has been answered.
Tidy(u) ==
  /\ sv[u].pc = "put" /\ sv[u].fd # NoInode => sv[u].name \in Names
  /\ sv[u].pc \in {"open", "get"} => sv[u].cmd = "GET"
  /\ sv[u].pc = "open" => sv[u].off = 0
  /\ sv[u].pc = "get" => sv[u].off <= Len(ino[sv[u].fd])
  /\ cl[u].pc = "send" => /\ Quiet(u) /\ cl[u].off = 0
                          /\ cl[u].cmd \in {"PUT", "GET", "RM"}
                          /\ cl[u].cmd = "PUT" => DOMAIN Initial # {}
  /\ cl[u].pc = "put" /\ cl[u].fd # NoInode => cl[u].off <= Len(ino[cl[u].fd])
  /\ cl[u].pc = "unlink" => up[u] = << >> /\ sv[u].pc \in {"get", "select"}

MixInv ==
  /\ \A u \in Users : Tidy(u)
  /\ \E src : Origins(src) /\ \A u \in Users : Traced(u, src)

-----------------------------------------------------------------------------
LEMMA DataType ==
  /\ 0 \notin DOMAIN Initial
  /\ \A j \in DOMAIN Initial : Data(j) \in Seq(Byte) /\ Len(Data(j)) \in Nat
BY InitialAssumption DEF Data

LEMMA InodeType ==
  ASSUME NEW s \in Seq(Seq(Byte)), NEW i \in 1 .. Len(s)
  PROVE  s[i] \in Seq(Byte) /\ Len(s[i]) \in Nat
<1>1. s[i] \in Seq(Byte)
  OBVIOUS
<1>2. QED
  BY <1>1

LEMMA SliceOfSlice ==
  ASSUME NEW d \in Seq(Byte), NEW p \in Nat, NEW q \in Nat, NEW n \in Nat,
         p <= q, q <= n, n <= Len(d)
  PROVE  Slice(Slice(d, 0, n), p, q) = Slice(d, p, q)
<1>1. CASE p = q
  <2>1. Slice(d, 0, n) \in Seq(Byte)
    BY SliceType
  <2>2. QED
    BY <1>1, <2>1, SliceNone
<1>2. CASE p < q
  <2>1. 1 \in 1 .. Len(d) /\ n \in 1 .. Len(d)
    BY <1>2
  <2>2. p + 1 \in 1 .. n - 1 + 1 /\ q \in 1 .. n - 1 + 1
    BY <1>2
  <2>3. SubSeq(SubSeq(d, 1, n), p + 1, q) = SubSeq(d, 1 + (p + 1) - 1, 1 + q - 1)
    BY <2>1, <2>2, SubSeqOfSubSeq
  <2>4. 1 + (p + 1) - 1 = p + 1 /\ 1 + q - 1 = q /\ 0 + 1 = 1
    OBVIOUS
  <2>5. QED
    BY <2>3, <2>4 DEF Slice
<1>3. QED
  BY <1>1, <1>2

\* A read of an inode is a piece of its origin.
LEMMA ReadsPiece ==
  ASSUME FilesType, NEW src, Origins(src), NEW x \in 1 .. Len(ino), NEW off \in Nat,
         off <= Len(ino[x])
  PROVE  LET d == BlockOf(x, off)
         IN  /\ d \in Seq(Byte) /\ Len(d) \in Nat
             /\ off + Len(d) <= Len(ino[x])
             /\ Piece([of |-> src[x], pos |-> off], d, [of |-> src[x], pos |-> off + Len(d)])
<1>1. PICK d : d = BlockOf(x, off)
  OBVIOUS
<1>2. PICK n : n = Len(ino[x])
  OBVIOUS
<1>3. PICK f : f = Data(src[x])
  OBVIOUS
<1>4. ino[x] \in Seq(Byte) /\ n \in Nat
  BY <1>2 DEF FilesType
<1>5. src[x] \in DOMAIN Initial /\ ino[x] = Slice(f, 0, n) /\ n <= Len(f)
  BY <1>2, <1>3 DEF Origins
<1>6. f \in Seq(Byte) /\ Len(f) \in Nat
  BY <1>3, <1>5, DataType
<1>7. /\ d \in Seq(Byte) /\ Len(d) \in Nat /\ off + Len(d) <= n
      /\ d = Slice(ino[x], off, off + Len(d))
  BY <1>1, <1>2, <1>4, BlockIsSlice DEF BlockOf
<1>8. d = Slice(f, off, off + Len(d))
  BY <1>4, <1>5, <1>6, <1>7, SliceOfSlice
<1>9. QED
  BY <1>1, <1>2, <1>3, <1>4, <1>5, <1>6, <1>7, <1>8 DEF Piece

\* Behind what it holds, an inode that takes the next piece of its origin
\* holds the beginning of it still.
LEMMA StoresPiece ==
  ASSUME FilesType, NEW src, Origins(src), NEW i \in 1 .. Len(ino), NEW d,
         NEW t \in Spot, Piece(Stored(src, i), d, t), Write(i, d)
  PROVE  /\ Origins(src)' /\ Stored(src, i)' = t
         /\ Len(ino[i]) <= Len(ino'[i])
<1>1. PICK n : n = Len(ino[i])
  OBVIOUS
<1>2. PICK f : f = Data(src[i])
  OBVIOUS
<1>3. /\ src[i] \in DOMAIN Initial /\ ino[i] = Slice(f, 0, n) /\ n \in Nat
      /\ ino \in Seq(Seq(Byte))
  BY <1>1, <1>2 DEF Origins, FilesType
<1>4. f \in Seq(Byte)
  BY <1>2, <1>3, DataType
<1>5. /\ t.of = src[i] /\ n <= t.pos /\ t.pos <= Len(f) /\ d = Slice(f, n, t.pos)
      /\ t.pos \in Nat
  BY <1>1, <1>2 DEF Piece, Stored, Spot
<1>6. ino[i] \o d = Slice(f, 0, t.pos)
  BY <1>3, <1>4, <1>5, SliceJoin
<1>7. Slice(f, 0, t.pos) \in Seq(Byte) /\ Len(Slice(f, 0, t.pos)) = t.pos
  BY <1>4, <1>5, SliceType
<1>8. ino' = [ino EXCEPT ![i] = Slice(f, 0, t.pos)]
  BY <1>6 DEF Write
<1>9. /\ Len(ino') = Len(ino) /\ ino'[i] = Slice(f, 0, t.pos)
      /\ \A k \in 1 .. Len(ino) : k # i => ino'[k] = ino[k]
  BY <1>3, <1>8
<1>10. Origins(src)'
  <2>1. src \in [1 .. Len(ino') -> DOMAIN Initial]
    BY <1>9 DEF Origins
  <2>2. ASSUME NEW k \in 1 .. Len(ino')
        PROVE  /\ Len(ino'[k]) <= Len(Data(src[k]))
               /\ ino'[k] = Slice(Data(src[k]), 0, Len(ino'[k]))
    <3>1. CASE k = i
      BY <1>2, <1>5, <1>7, <1>9, <3>1
    <3>2. CASE k # i
      BY <1>9, <3>2 DEF Origins
    <3>3. QED
      BY <3>1, <3>2
  <2>3. QED
    BY <2>1, <2>2 DEF Origins
<1>11. Stored(src, i)' = t
  <2>1. Stored(src, i)' = [of |-> src[i], pos |-> t.pos]
    BY <1>7, <1>9 DEF Stored
  <2>2. t = [of |-> t.of, pos |-> t.pos]
    BY DEF Spot
  <2>3. QED
    BY <1>5, <2>1, <2>2
<1>12. QED
  BY <1>1, <1>5, <1>7, <1>9, <1>10, <1>11

\* A new inode is empty, and any origin will do for it.
LEMMA NewOrigin ==
  ASSUME FilesType, NEW src, Origins(src), NEW p, Create(p),
         NEW j \in DOMAIN Initial
  PROVE  \E new : /\ Origins(new)' /\ new[NewInode] = j
                  /\ Len(ino'[NewInode]) = 0
                  /\ \A i \in 1 .. Len(ino) : new[i] = src[i] /\ ino'[i] = ino[i]
<1>1. PICK n : n = Len(ino)
  OBVIOUS
<1>2. n \in Nat /\ ino \in Seq(Seq(Byte)) /\ << >> \in Seq(Byte) /\ Len(<< >>) = 0
  BY <1>1 DEF FilesType
<1>3. /\ ino' = Append(ino, << >>) /\ Len(ino') = n + 1 /\ ino'[n + 1] = << >>
      /\ \A i \in 1 .. n : ino'[i] = ino[i]
  BY <1>1, <1>2 DEF Create
<1>4. PICK new : new = [i \in 1 .. n + 1 |-> IF i = n + 1 THEN j ELSE src[i]]
  OBVIOUS
<1>5. /\ new[n + 1] = j /\ \A i \in 1 .. n : new[i] = src[i]
      /\ new \in [1 .. n + 1 -> DOMAIN Initial]
  <2>1. \A i \in 1 .. n + 1 : i # n + 1 => i \in 1 .. n
    BY <1>2
  <2>2. \A i \in 1 .. n : src[i] \in DOMAIN Initial
    BY <1>1 DEF Origins
  <2>3. n + 1 \in 1 .. n + 1 /\ \A i \in 1 .. n : i # n + 1 /\ i \in 1 .. n + 1
    BY <1>2
  <2>4. QED
    BY <1>4, <2>1, <2>2, <2>3
<1>6. ASSUME NEW i \in 1 .. n + 1
      PROVE  /\ Len(ino'[i]) <= Len(Data(new[i]))
             /\ ino'[i] = Slice(Data(new[i]), 0, Len(ino'[i]))
  <2>1. CASE i = n + 1
    <3>1. Data(j) \in Seq(Byte) /\ Len(Data(j)) \in Nat
      BY DataType
    <3>2. Slice(Data(j), 0, 0) = << >>
      BY <3>1, SliceNone
    <3>3. QED
      BY <1>2, <1>3, <1>5, <2>1, <3>1, <3>2
  <2>2. CASE i # n + 1
    <3>1. i \in 1 .. n
      BY <1>2, <2>2
    <3>2. QED
      BY <1>1, <1>3, <1>5, <3>1 DEF Origins
  <2>3. QED
    BY <2>1, <2>2
<1>7. Origins(new)'
  BY <1>3, <1>5, <1>6 DEF Origins
<1>8. QED
  BY <1>1, <1>2, <1>3, <1>5, <1>7 DEF NewInode

-----------------------------------------------------------------------------
\* A step of one session leaves the queues and processes of the others alone,
\* and of the inodes that were there only those it writes grow.
Alone(u) ==
  \A v \in Users \ {u} :
    up'[v] = up[v] /\ down'[v] = down[v] /\ cl'[v] = cl[v] /\ sv'[v] = sv[v]
Kept(src, new) ==
  /\ Len(ino) <= Len(ino')
  /\ \A i \in 1 .. Len(ino) : new[i] = src[i] /\ Len(ino[i]) <= Len(ino'[i])

LEMMA StepAlone ==
  ASSUME SharedInv, NEW u \in Users,
         \/ ClientStep(u) \/ ServStep(u)
         \/ \E c \in {"PUT", "GET", "RM"}, n \in Names : handle_user_input(u, c, n)
  PROVE  Alone(u)
<1>1. /\ DOMAIN up = Users /\ DOMAIN down = Users /\ DOMAIN cl = Users
      /\ DOMAIN sv = Users
  BY Known DEF UpType, DownType, ClientType, ServType
<1>2. \A f, x : DOMAIN f = Users =>
                  \A v \in Users \ {u} : [f EXCEPT ![u] = x][v] = f[v]
  OBVIOUS
<1>3. /\ up' = up \/ \E x : up' = [up EXCEPT ![u] = x]
      /\ down' = down \/ \E x : down' = [down EXCEPT ![u] = x]
      /\ cl' = cl \/ \E x : cl' = [cl EXCEPT ![u] = x]
      /\ sv' = sv \/ \E x : sv' = [sv EXCEPT ![u] = x]
  <2>1. CASE ClientStep(u)
    BY <2>1
       DEF ClientStep, send_command_to_server, put_file_to_server,
           handle_server_ack, get_fails, get_unlinks, get_creates,
           get_file_from_server, ToServer, Consumed
  <2>2. CASE ServStep(u)
    BY <2>2
       DEF ServStep, handle_request_put, handle_request_default,
           handle_request_get, handle_request_rm, handle_answer,
           handle_put_creates, handle_put_refused, handle_put,
           handle_get_opens, handle_get, Requested, Taken, ToClient
  <2>3. CASE \E c \in {"PUT", "GET", "RM"}, n \in Names : handle_user_input(u, c, n)
    BY <2>3 DEF handle_user_input
  <2>4. QED
    BY <2>1, <2>2, <2>3
<1>4. QED
  BY <1>1, <1>2, <1>3 DEF Alone

\* What is known of one session at the start of a step.
LEMMA Session ==
  ASSUME SharedInv, NEW u \in Users
  PROVE  /\ up[u] \in Seq(msg_head_ctrl_t) /\ down[u] \in Seq(msg_head_ctrl_t)
         /\ cl[u] \in Proc(ClientPc, Len(ino)) /\ sv[u] \in Proc(ServPc, Len(ino))
         /\ cl[u].fd \in 0 .. Len(ino) /\ sv[u].fd \in 0 .. Len(ino)
         /\ cl[u].off \in Nat /\ sv[u].off \in Nat
         /\ Len(ino) \in Nat
         /\ sv[u].pc = "get" => sv[u].fd \in 1 .. Len(ino)
<1>1. /\ up[u] \in Seq(msg_head_ctrl_t) /\ down[u] \in Seq(msg_head_ctrl_t)
      /\ Len(ino) \in Nat
      /\ sv[u].pc = "get" => sv[u].fd # 0
  BY Known DEF UpType, DownType, ServNames, NoInode
<1>2. cl[u] \in Proc(ClientPc, Len(ino)) /\ sv[u] \in Proc(ServPc, Len(ino))
  BY Here
<1>3. /\ cl[u].fd \in 0 .. Len(ino) /\ sv[u].fd \in 0 .. Len(ino)
      /\ cl[u].off \in Nat /\ sv[u].off \in Nat
  BY <1>1, <1>2 DEF Proc
<1>4. sv[u].pc = "get" => sv[u].fd \in 1 .. Len(ino)
  BY <1>1, <1>3
<1>5. QED
  BY <1>1, <1>2, <1>3, <1>4

\* The frames a client has sent still lead from where its child is to where
\* it is itself, in a step in which neither moves in an upload.
LEMMA UpRests ==
  ASSUME SharedInv, NEW u \in Users, NEW src, NEW new, Kept(src, new),
         UpTrace(u, src), up'[u] = up[u],
         sv'[u].pc # "put" \/ (sv'[u] = sv[u] /\ ino' = ino),
         cl'[u] = cl[u] \/ "put" \notin {cl[u].pc, cl'[u].pc}
  PROVE  UpTrace(u, new)'
<1>1. cl[u].fd \in 0 .. Len(ino) /\ sv[u].fd \in 0 .. Len(ino) /\ Len(ino) \in Nat
  BY Session
<1>2. PICK s \in Spot, t \in Spot :
        Run(up[u], s, t, Spot, UpWay) /\ ChildSpot(u, src, s) /\ ClientSpot(u, src, t)
  BY DEF UpTrace
<1>3. ChildSpot(u, new, s)'
  BY <1>1, <1>2 DEF ChildSpot, Stored, Kept, NoInode
<1>4. ClientSpot(u, new, t)'
  BY <1>1, <1>2 DEF ClientSpot, Fetched, Kept, NoInode
<1>5. Run(up'[u], s, t, Spot, UpWay)
  BY <1>2
<1>6. QED
  BY <1>3, <1>4, <1>5 DEF UpTrace

LEMMA OtherTraced ==
  ASSUME SharedInv, NEW u \in Users, NEW v \in Users \ {u}, NEW src, NEW new,
         Origins(src), Tidy(v), Traced(v, src), Kept(src, new), Alone(u),
         Len(ino') \in Nat,
         \A i \in 1 .. Len(ino) : Len(ino'[i]) \in Nat /\ Len(ino[i]) \in Nat,
         \A i \in 1 .. Len(ino) :
           i \notin {ServWrites(u), ClientWrites(u)} => Len(ino'[i]) = Len(ino[i])
  PROVE  Tidy(v)' /\ Traced(v, new)'
<1>1. /\ cl[v].fd \in 0 .. Len(ino) /\ sv[v].fd \in 0 .. Len(ino) /\ Len(ino) \in Nat
      /\ sv[v].pc = "get" => sv[v].fd \in 1 .. Len(ino)
      /\ cl[v].off \in Nat /\ sv[v].off \in Nat
  BY Session
<1>2. up'[v] = up[v] /\ down'[v] = down[v] /\ cl'[v] = cl[v] /\ sv'[v] = sv[v]
  BY DEF Alone
<1>3. /\ sv[v].pc = "put" /\ sv[v].fd # NoInode =>
           Len(ino'[sv[v].fd]) = Len(ino[sv[v].fd])
      /\ cl[v].pc = "get" /\ cl[v].fd # NoInode =>
           Len(ino'[cl[v].fd]) = Len(ino[cl[v].fd])
  <2>1. /\ ServWrites(v) # NoInode =>
             ServWrites(v) \notin {ServWrites(u), ClientWrites(u)}
        /\ ClientWrites(v) # NoInode =>
             ClientWrites(v) \notin {ServWrites(u), ClientWrites(u)}
    BY Known DEF OneWriter
  <2>2. /\ sv[v].pc = "put" => ServWrites(v) = sv[v].fd
        /\ cl[v].pc = "get" => ClientWrites(v) = cl[v].fd
    BY DEF ServWrites, ClientWrites
  <2>3. \A i \in 0 .. Len(ino) : i # NoInode => i \in 1 .. Len(ino)
    BY <1>1 DEF NoInode
  <2>4. QED
    BY <1>1, <2>1, <2>2, <2>3
<1>4. \A i \in 1 .. Len(ino) : new[i] = src[i] /\ Len(ino[i]) <= Len(ino'[i])
  BY DEF Kept
<1>5. Tidy(v)'
  <2>1. Quiet(v)' <=> Quiet(v)
    BY <1>2 DEF Quiet
  <2>2. sv[v].pc = "get" => sv[v].off <= Len(ino'[sv[v].fd])
    BY <1>1, <1>4 DEF Tidy
  <2>3. cl[v].pc = "put" /\ cl[v].fd # NoInode => cl[v].off <= Len(ino'[cl[v].fd])
    BY <1>1, <1>4 DEF Tidy, NoInode
  <2>4. QED
    BY <1>2, <2>1, <2>2, <2>3 DEF Tidy
<1>6. UpTrace(v, new)'
  <2>1. PICK s \in Spot, t \in Spot :
          /\ Run(up[v], s, t, Spot, UpWay)
          /\ ChildSpot(v, src, s) /\ ClientSpot(v, src, t)
    BY DEF Traced, UpTrace
  <2>2. ChildSpot(v, new, s)'
    BY <1>1, <1>2, <1>3, <1>4, <2>1 DEF ChildSpot, Stored, NoInode
  <2>3. ClientSpot(v, new, t)'
    BY <1>1, <1>2, <1>4, <2>1 DEF ClientSpot, Fetched, NoInode
  <2>4. Run(up'[v], s, t, Spot, UpWay)
    BY <1>2, <2>1
  <2>5. QED
    BY <2>2, <2>3, <2>4 DEF UpTrace
<1>7. Answering(v, src) /\ cl[v].pc = "get" => Answering(v, new)'
  <2>1. SUFFICES ASSUME Answering(v, src), cl[v].pc = "get"
                 PROVE  Answering(v, new)'
    OBVIOUS
  <2>2. PICK s \in Spot, t \in Spot :
          /\ Run(down[v], s, t, Spot, DownWay)
          /\ IF cl[v].fd = NoInode THEN s.pos = 0 ELSE s = Stored(src, cl[v].fd)
          /\ sv[v].pc = "get" => t = Fetched(src, sv[v])
    BY <2>1 DEF Answering
  <2>3. Run(down'[v], s, t, Spot, DownWay)
    BY <1>2, <2>2
  <2>4. IF cl'[v].fd = NoInode THEN s.pos = 0 ELSE s = Stored(new, cl[v].fd)'
    BY <1>1, <1>2, <1>3, <1>4, <2>1, <2>2 DEF Stored, NoInode
  <2>5. sv'[v].pc = "get" => t = Fetched(new, sv'[v])
    BY <1>1, <1>2, <1>4, <2>2 DEF Fetched
  <2>6. QED
    BY <1>2, <2>3, <2>4, <2>5 DEF Answering
<1>8. cl'[v].pc = "get" => GetTrace(v, new)'
  BY <1>2, <1>7 DEF Traced, GetTrace, Unanswered
<1>9. QED
  BY <1>5, <1>6, <1>8 DEF Traced

LEMMA MixShown ==
  ASSUME SharedInv, SharedInv', \A v \in Users : Tidy(v),
         NEW u \in Users, NEW src, Origins(src), \A v \in Users : Traced(v, src),
         NEW new, Origins(new)', Kept(src, new), Alone(u),
         \A i \in 1 .. Len(ino) :
           i \notin {ServWrites(u), ClientWrites(u)} => Len(ino'[i]) = Len(ino[i]),
         Tidy(u)', Traced(u, new)'
  PROVE  MixInv'
<1>1. /\ Len(ino) \in Nat /\ Len(ino') \in Nat /\ Len(ino) <= Len(ino')
      /\ \A i \in 1 .. Len(ino) : Len(ino[i]) \in Nat
      /\ \A i \in 1 .. Len(ino') : Len(ino'[i]) \in Nat
  <2>1. ino \in Seq(Seq(Byte)) /\ ino' \in Seq(Seq(Byte))
    BY DEF SharedInv, SharedTypeOK
  <2>2. Len(ino) <= Len(ino')
    BY DEF Kept
  <2>3. QED
    BY <2>1, <2>2
<1>2. \A i \in 1 .. Len(ino) : Len(ino'[i]) \in Nat /\ Len(ino[i]) \in Nat
  BY <1>1
<1>3. \A v \in Users \ {u} : Tidy(v)' /\ Traced(v, new)'
  BY <1>1, <1>2, OtherTraced
<1>4. \A v \in Users : Tidy(v)' /\ Traced(v, new)'
  BY <1>3
<1>5. QED
  BY <1>4 DEF MixInv

\* The same for a step that leaves the inodes alone.
LEMMA SameInodes ==
  ASSUME SharedInv, SharedInv', \A v \in Users : Tidy(v),
         NEW u \in Users, NEW src, Origins(src), \A v \in Users : Traced(v, src),
         ino' = ino, Alone(u), Tidy(u)', Traced(u, src)'
  PROVE  MixInv'
<1>1. Origins(src)'
  BY DEF Origins
<1>2. Kept(src, src)
  BY DEF Kept, SharedInv, SharedTypeOK
<1>3. QED
  BY <1>1, <1>2, MixShown

-----------------------------------------------------------------------------
\* The frames that are sent lead on.
LEMMA SpotType ==
  /\ Between \in Spot /\ Between.of = 0 /\ Between.pos = 0
  /\ \A j \in DOMAIN Initial, n \in Nat :
       /\ [of |-> j, pos |-> n] \in Spot
       /\ [of |-> j, pos |-> n].of = j /\ [of |-> j, pos |-> n].pos = n
       /\ j # 0
  /\ \A s \in Spot : /\ s.of # 0 => s.of \in DOMAIN Initial
                     /\ s.pos \in Nat /\ s = [of |-> s.of, pos |-> s.pos]
BY DataType DEF Spot, Between

LEMMA InWay ==
  ASSUME NEW s \in Spot, NEW t \in Spot, NEW m \in msg_head_ctrl_t
  PROVE  /\ <<s, m, t>> \in UpWay <=> UpLeads(s, m, t)
         /\ <<s, m, t>> \in DownWay <=> DownLeads(s, m, t)
BY DEF UpWay, DownWay

LEMMA RequestLeads ==
  ASSUME NEW c \in {"PUT", "GET", "RM"}, NEW n \in Names,
         NEW s \in Spot, s.of = 0, NEW t \in Spot,
         IF c = "PUT" THEN Start(t) ELSE t.of = 0
  PROVE  /\ <<s, Request(c, n), t>> \in UpWay
         /\ Request(c, n) \in msg_head_ctrl_t /\ Request(c, n).command = c
<1>1. /\ Request(c, n) \in msg_head_ctrl_t /\ Request(c, n).command = c
      /\ Request(c, n).name = n
  BY RequestType DEF command_type_t, Text
<1>2. ~IsBlock(Request(c, n))
  BY <1>1, ProtocolAssumption DEF IsBlock
<1>3. UpLeads(s, Request(c, n), t)
  BY <1>1, <1>2 DEF UpLeads
<1>4. QED
  BY <1>1, <1>3, InWay

LEMMA BlockLeads ==
  ASSUME NEW s \in Spot, NEW x \in Spot, s.of # 0, NEW d \in Seq(Byte),
         NEW c \in {"PUT", "END_FILE", "ERROR_FILE"}, Piece(s, d, x),
         NEW t \in Spot, IF c = "END_FILE" THEN t.of = 0 ELSE t = x
  PROVE  <<s, Block(c, d), t>> \in UpWay
<1>1. /\ Block(c, d) \in msg_head_ctrl_t /\ Block(c, d).command = c
      /\ Block(c, d).data = d
  BY BlockFrameType DEF command_type_t
<1>2. IsBlock(Block(c, d))
  BY DEF IsBlock, Block, Frame
<1>3. UpLeads(s, Block(c, d), t)
  BY <1>1, <1>2 DEF UpLeads, Ends
<1>4. QED
  BY <1>1, <1>3, InWay

\* What is in a step's state before it.
LEMMA MixKnown ==
  ASSUME MixInv
  PROVE  /\ \A v \in Users : Tidy(v)
         /\ \E src : Origins(src) /\ \A v \in Users : Traced(v, src)
BY DEF MixInv

\* While a get is going on, the child is not busy with another command.
LEMMA GetOnly ==
  ASSUME NEW u \in Users, NEW src, Traced(u, src), cl[u].pc = "get"
  PROVE  /\ sv[u].pc \notin {"put", "pipe"}
         /\ up[u] # << >> => Tail(up[u]) = << >> /\ Head(up[u]).command = "GET"
                             /\ sv[u].pc = "select" /\ Unanswered(u)
         /\ sv[u].pc = "open" \/ sv[u].pc = "nofile" => up[u] = << >> /\ Unanswered(u)
         /\ down[u] # << >> \/ cl[u].fd # NoInode \/ sv[u].pc = "get"
              => /\ up[u] = << >> /\ sv[u].pc \in {"get", "select"}
                 /\ Answering(u, src)
BY DEF Traced, GetTrace, Unanswered

LEMMA KeptSame ==
  ASSUME SharedInv, ino' = ino, NEW src
  PROVE  Kept(src, src)
<1>1. ino \in Seq(Seq(Byte))
  BY Known DEF FilesType
<1>2. Len(ino) \in Nat /\ \A i \in 1 .. Len(ino) : Len(ino[i]) \in Nat
  BY <1>1, InodeType
<1>3. QED
  BY <1>2 DEF Kept

-----------------------------------------------------------------------------
\* The steps of the client.
LEMMA MixInput ==
  ASSUME SharedInv, SharedInv', MixInv, NEW u \in Users,
         NEW c \in {"PUT", "GET", "RM"}, NEW n \in Names,
         handle_user_input(u, c, n)
  PROVE  MixInv'
<1>1. PICK src : Origins(src) /\ \A v \in Users : Traced(v, src)
  BY MixKnown
<1>2. /\ ino' = ino /\ up' = up /\ down' = down /\ sv' = sv
      /\ cl' = [cl EXCEPT ![u] = At("send", c, n)]
      /\ cl[u].pc = "main" /\ Quiet(u)
      /\ c = "PUT" => ~Missing(<<Home[u], n>>)
  BY DEF handle_user_input, files
<1>3. /\ cl'[u].pc = "send" /\ cl'[u].off = 0 /\ cl'[u].cmd = c
  BY <1>2, Known DEF ClientType, At
<1>4. Alone(u)
  BY StepAlone
<1>5. c = "PUT" => DOMAIN Initial # {}
  <2>1. <<Home[u], n>> \in Places \X Names
    BY DEF Places
  <2>2. dir[<<Home[u], n>>] \in 0 .. Len(ino) /\ Len(ino) \in Nat
    BY <2>1, Known DEF FilesType
  <2>3. c = "PUT" => 1 \in 1 .. Len(ino)
    BY <1>2, <2>2 DEF Missing, NoInode
  <2>4. QED
    BY <1>1, <2>3 DEF Origins
<1>6. Tidy(u)'
  <2>1. Quiet(u)'
    BY <1>2 DEF Quiet
  <2>2. Tidy(u)
    BY MixKnown
  <2>3. QED
    BY <1>2, <1>3, <1>5, <2>1, <2>2 DEF Tidy
<1>7. UpTrace(u, src)'
  <2>1. Kept(src, src)
    BY <1>2 DEF Kept, SharedInv, SharedTypeOK
  <2>2. UpTrace(u, src)
    BY <1>1 DEF Traced
  <2>3. QED
    BY <1>2, <1>3, <2>1, <2>2, UpRests
<1>8. Traced(u, src)'
  BY <1>3, <1>7 DEF Traced
<1>9. QED
  BY <1>1, <1>2, <1>4, <1>6, <1>8, MixKnown, SameInodes

LEMMA MixRequest ==
  ASSUME SharedInv, SharedInv', MixInv, NEW u \in Users, send_command_to_server(u)
  PROVE  MixInv'
<1>1. PICK src : Origins(src) /\ \A v \in Users : Traced(v, src)
  BY MixKnown
<1>2. /\ up[u] = << >> /\ down[u] = << >> /\ sv[u].pc = "select"
      /\ cl[u].off = 0 /\ cl[u].cmd \in {"PUT", "GET", "RM"}
      /\ cl[u].cmd = "PUT" => DOMAIN Initial # {}
      /\ cl[u].pc = "send"
  BY MixKnown DEF send_command_to_server, Tidy, Quiet
<1>3. /\ cl[u] \in Proc(ClientPc, Len(ino)) /\ Len(ino) \in Nat
      /\ cl[u].name \in Names /\ cl[u].fd = NoInode
  BY <1>2, Session, Known DEF ClientNames
<1>4. PICK m : m = Request(cl[u].cmd, cl[u].name)
  OBVIOUS
<1>5. /\ ino' = ino /\ down' = down /\ sv' = sv
      /\ up' = [up EXCEPT ![u] = Append(up[u], m)]
  BY <1>4 DEF send_command_to_server, files, ToServer
<1>6. up'[u] = Append(<< >>, m)
  BY <1>2, <1>5, Known DEF UpType
<1>7. /\ cl[u].cmd = "PUT" => cl'[u] = [cl[u] EXCEPT !.pc = "put", !.fd = dir[Mine(u)]]
      /\ cl[u].cmd = "GET" => cl'[u] = [cl[u] EXCEPT !.pc = "get"]
      /\ cl[u].cmd = "RM" => cl'[u] = Main
  BY <1>2, Known DEF send_command_to_server, ClientType
<1>8. /\ cl[u].cmd = "PUT" => /\ cl'[u].pc = "put" /\ cl'[u].off = 0
                              /\ cl'[u].fd = dir[Mine(u)]
      /\ cl[u].cmd = "GET" => cl'[u].pc = "get" /\ cl'[u].fd = NoInode
      /\ cl[u].cmd = "RM" => cl'[u].pc = "main"
  BY <1>2, <1>3, <1>7, MainType DEF Proc
<1>9. dir[Mine(u)] \in 0 .. Len(ino)
  <2>1. Mine(u) \in Places \X Names
    BY <1>3 DEF Mine, Places
  <2>2. QED
    BY <2>1, Known DEF FilesType
<1>10. PICK t \in Spot : /\ IF cl[u].cmd = "PUT" THEN Start(t) ELSE t.of = 0
                         /\ ClientSpot(u, src, t)'
  <2>1. CASE cl[u].cmd # "PUT"
    BY <1>2, <1>8, <2>1, SpotType DEF ClientSpot
  <2>2. CASE cl[u].cmd = "PUT" /\ dir[Mine(u)] = NoInode
    <3>1. PICK j \in DOMAIN Initial : TRUE
      BY <1>2, <2>2
    <3>2. PICK t : t = [of |-> j, pos |-> 0]
      OBVIOUS
    <3>3. t \in Spot /\ Start(t)
      BY <3>2, SpotType DEF Start
    <3>4. QED
      BY <1>8, <2>2, <3>3 DEF ClientSpot
  <2>3. CASE cl[u].cmd = "PUT" /\ dir[Mine(u)] # NoInode
    <3>1. dir[Mine(u)] \in 1 .. Len(ino)
      BY <1>3, <1>9, <2>3 DEF NoInode
    <3>2. src[dir[Mine(u)]] \in DOMAIN Initial
      BY <1>1, <3>1 DEF Origins
    <3>3. PICK t : t = [of |-> src[dir[Mine(u)]], pos |-> 0]
      OBVIOUS
    <3>4. t \in Spot /\ Start(t)
      BY <3>2, <3>3, SpotType DEF Start
    <3>5. QED
      BY <1>8, <2>3, <3>3, <3>4 DEF ClientSpot, Fetched
  <2>4. QED
    BY <2>1, <2>2, <2>3
<1>11. /\ <<Between, m, t>> \in UpWay
       /\ m \in msg_head_ctrl_t /\ m.command = cl[u].cmd
  BY <1>2, <1>3, <1>4, <1>10, RequestLeads, SpotType
<1>12. UpTrace(u, src)'
  <2>1. Run(<< >>, Between, Between, Spot, UpWay)
    BY RunEmpty, SpotType
  <2>2. << >> \in Seq(msg_head_ctrl_t)
    OBVIOUS
  <2>3. Run(up'[u], Between, t, Spot, UpWay)
    BY <1>6, <1>11, <2>1, <2>2, RunAppend
  <2>4. ChildSpot(u, src, Between)'
    BY <1>2, <1>5 DEF ChildSpot
  <2>5. QED
    BY <1>10, <2>3, <2>4, SpotType DEF UpTrace
<1>13. cl'[u].pc = "get" => GetTrace(u, src)'
  <2>1. /\ Append(<< >>, m) # << >> /\ Tail(Append(<< >>, m)) = << >>
        /\ Head(Append(<< >>, m)) = m
    OBVIOUS
  <2>2. cl'[u].pc = "get" => cl[u].cmd = "GET" /\ cl'[u].fd = NoInode
    BY <1>2, <1>8
  <2>3. QED
    BY <1>2, <1>5, <1>6, <1>11, <2>1, <2>2 DEF GetTrace, Unanswered
<1>14. Tidy(u)'
  <2>1. cl'[u].pc = "put" /\ cl'[u].fd # NoInode => cl'[u].off <= Len(ino'[cl'[u].fd])
    <3>1. SUFFICES ASSUME cl'[u].pc = "put", cl'[u].fd # NoInode
                   PROVE  0 <= Len(ino[cl'[u].fd])
      BY <1>2, <1>5, <1>8
    <3>2. cl'[u].fd \in 1 .. Len(ino)
      BY <1>2, <1>3, <1>8, <1>9, <3>1 DEF NoInode
    <3>3. ino \in Seq(Seq(Byte))
      BY Known DEF FilesType
    <3>4. QED
      BY <3>2, <3>3
  <2>2. cl'[u].pc \notin {"send", "unlink"}
    BY <1>2, <1>8
  <2>3. QED
    BY <1>2, <1>5, <2>1, <2>2 DEF Tidy
<1>15. Alone(u)
  BY StepAlone DEF ClientStep
<1>16. Traced(u, src)'
  BY <1>12, <1>13 DEF Traced
<1>17. QED
  BY <1>1, <1>5, <1>14, <1>15, <1>16, MixKnown, SameInodes

LEMMA MixPut ==
  ASSUME SharedInv, SharedInv', MixInv, NEW u \in Users, put_file_to_server(u)
  PROVE  MixInv'
<1>1. PICK src : Origins(src) /\ \A v \in Users : Traced(v, src)
  BY MixKnown
<1>2. /\ cl[u] \in Proc(ClientPc, Len(ino)) /\ cl[u].pc = "put"
      /\ cl[u].fd \in 0 .. Len(ino) /\ cl[u].off \in Nat /\ Len(ino) \in Nat
      /\ up[u] \in Seq(msg_head_ctrl_t)
      /\ cl[u].fd # NoInode => cl[u].off <= Len(ino[cl[u].fd])
      /\ ino \in Seq(Seq(Byte))
  BY Session, Known, MixKnown DEF put_file_to_server, Tidy, FilesType
<1>3. PICK m : m = IF cl[u].fd = NoInode THEN Block("ERROR_FILE", << >>)
                   ELSE FileFrame(BlockOf(cl[u].fd, cl[u].off), ZeroCommand)
  OBVIOUS
<1>4. /\ ino' = ino /\ down' = down /\ sv' = sv
      /\ up' = [up EXCEPT ![u] = Append(up[u], m)]
      /\ cl' = [cl EXCEPT ![u] = IF Ends(m) THEN Main
                                 ELSE [cl[u] EXCEPT !.off = cl[u].off + Len(m.data)]]
  BY <1>3 DEF put_file_to_server, files, ToServer
<1>5. up'[u] = Append(up[u], m)
  BY <1>4, Known DEF UpType
<1>6. /\ Ends(m) => cl'[u] = Main
      /\ ~Ends(m) => cl'[u] = [cl[u] EXCEPT !.off = cl[u].off + Len(m.data)]
  BY <1>4, Known DEF ClientType
<1>7. PICK s \in Spot, t \in Spot :
        Run(up[u], s, t, Spot, UpWay) /\ ChildSpot(u, src, s) /\ ClientSpot(u, src, t)
  BY <1>1 DEF Traced, UpTrace
<1>8. ChildSpot(u, src, s)'
  BY <1>4, <1>7 DEF ChildSpot, Stored
<1>9. PICK x \in Spot :
        /\ <<t, m, x>> \in UpWay /\ m \in msg_head_ctrl_t /\ ClientSpot(u, src, x)'
        /\ cl'[u].pc = "put" /\ cl'[u].fd # NoInode =>
             cl'[u].off <= Len(ino'[cl'[u].fd])
        /\ cl'[u].pc \notin {"send", "get", "unlink"}
  <2>1. CASE cl[u].fd = NoInode
    <3>1. m = Block("ERROR_FILE", << >>) /\ << >> \in Seq(Byte) /\ Len(<< >>) = 0
      BY <1>3, <2>1
    <3>2. /\ m \in msg_head_ctrl_t /\ m.command = "ERROR_FILE" /\ m.data = << >>
      BY <3>1, BlockFrameType DEF command_type_t
    <3>3. Start(t)
      BY <1>2, <1>7, <2>1 DEF ClientSpot
    <3>4. Piece(t, << >>, t)
      <4>1. t.of \in DOMAIN Initial /\ t.pos = 0
        BY <3>3, SpotType DEF Start
      <4>2. Data(t.of) \in Seq(Byte) /\ Len(Data(t.of)) \in Nat
        BY <4>1, DataType
      <4>3. Slice(Data(t.of), 0, 0) = << >>
        BY <4>2, SliceNone
      <4>4. QED
        BY <4>1, <4>2, <4>3 DEF Piece
    <3>5. <<t, m, t>> \in UpWay
      BY <3>1, <3>3, <3>4, BlockLeads DEF Start
    <3>6. cl'[u] = [cl[u] EXCEPT !.off = cl[u].off + Len(m.data)]
      BY <1>6, <3>2 DEF Ends
    <3>7. cl'[u].pc = "put" /\ cl'[u].fd = NoInode
      BY <1>2, <2>1, <3>6 DEF Proc
    <3>8. QED
      BY <3>2, <3>3, <3>5, <3>7 DEF ClientSpot
  <2>2. CASE cl[u].fd # NoInode
    <3>1. PICK d : d = BlockOf(cl[u].fd, cl[u].off)
      OBVIOUS
    <3>2. cl[u].fd \in 1 .. Len(ino)
      BY <1>2, <2>2 DEF NoInode
    <3>3. t = [of |-> src[cl[u].fd], pos |-> cl[u].off]
      BY <1>2, <1>7, <2>2 DEF ClientSpot, Fetched
    <3>4. PICK y : y = [of |-> src[cl[u].fd], pos |-> cl[u].off + Len(d)]
      OBVIOUS
    <3>5. /\ d \in Seq(Byte) /\ Len(d) \in Nat
          /\ cl[u].off + Len(d) <= Len(ino[cl[u].fd])
          /\ Piece(t, d, y)
      BY <1>1, <1>2, <2>2, <3>1, <3>2, <3>3, <3>4, ReadsPiece, Known
    <3>6. y \in Spot /\ t.of # 0
      <4>1. src[cl[u].fd] \in DOMAIN Initial
        BY <1>1, <3>2 DEF Origins
      <4>2. cl[u].off + Len(d) \in Nat
        BY <1>2, <3>5
      <4>3. QED
        BY <3>3, <3>4, <4>1, <4>2, DataType DEF Spot
    <3>7. PICK c \in {"PUT", "END_FILE"} : m = Block(c, d)
      BY <1>3, <2>2, <3>1 DEF FileFrame, ZeroCommand
    <3>8. m \in msg_head_ctrl_t /\ m.command = c /\ m.data = d
      BY <3>5, <3>7, BlockFrameType DEF command_type_t
    <3>9. CASE c = "END_FILE"
      <4>1. cl'[u].pc = "main"
        BY <1>2, <1>6, <3>8, <3>9, MainType DEF Ends
      <4>2. <<t, m, Between>> \in UpWay
        BY <3>5, <3>6, <3>7, <3>9, BlockLeads, SpotType
      <4>3. QED
        BY <3>8, <4>1, <4>2, SpotType DEF ClientSpot
    <3>10. CASE c = "PUT"
      <4>1. cl'[u] = [cl[u] EXCEPT !.off = cl[u].off + Len(d)]
        BY <1>6, <3>8, <3>10 DEF Ends
      <4>2. /\ cl'[u].pc = "put" /\ cl'[u].fd = cl[u].fd
            /\ cl'[u].off = cl[u].off + Len(d)
        BY <1>2, <4>1 DEF Proc
      <4>3. <<t, m, y>> \in UpWay
        BY <3>5, <3>6, <3>7, <3>10, BlockLeads
      <4>4. ClientSpot(u, src, y)'
        BY <2>2, <3>4, <4>2 DEF ClientSpot, Fetched
      <4>5. QED
        BY <1>4, <3>5, <3>6, <3>8, <4>2, <4>3, <4>4
    <3>11. QED
      BY <3>7, <3>9, <3>10
  <2>3. QED
    BY <2>1, <2>2
<1>10. UpTrace(u, src)'
  <2>1. Run(up'[u], s, x, Spot, UpWay)
    BY <1>2, <1>5, <1>7, <1>9, RunAppend
  <2>2. QED
    BY <1>8, <1>9, <2>1 DEF UpTrace
<1>11. Traced(u, src)'
  BY <1>9, <1>10 DEF Traced
<1>12. Tidy(u)'
  BY <1>4, <1>9, MixKnown DEF Tidy
<1>13. Alone(u)
  BY StepAlone DEF ClientStep
<1>14. QED
  BY <1>1, <1>4, <1>11, <1>12, <1>13, MixKnown, SameInodes

LEMMA MixAck ==
  ASSUME SharedInv, SharedInv', MixInv, NEW u \in Users, handle_server_ack(u)
  PROVE  MixInv'
<1>1. PICK src : Origins(src) /\ \A v \in Users : Traced(v, src)
  BY MixKnown
<1>2. /\ ino' = ino /\ up' = up /\ cl' = cl /\ sv' = sv /\ cl[u].pc = "main"
  BY DEF handle_server_ack, files
<1>3. Tidy(u)'
  BY <1>2, MixKnown DEF Tidy
<1>4. UpTrace(u, src)'
  <2>1. Kept(src, src)
    BY <1>2 DEF Kept, SharedInv, SharedTypeOK
  <2>2. UpTrace(u, src)
    BY <1>1 DEF Traced
  <2>3. QED
    BY <1>2, <2>1, <2>2, UpRests
<1>5. Traced(u, src)'
  BY <1>2, <1>4 DEF Traced
<1>6. Alone(u)
  BY StepAlone DEF ClientStep
<1>7. QED
  BY <1>1, <1>2, <1>3, <1>5, <1>6, MixKnown, SameInodes

LEMMA MixGetFails ==
  ASSUME SharedInv, SharedInv', MixInv, NEW u \in Users,
         get_fails(u) \/ get_unlinks(u)
  PROVE  MixInv'
<1>1. PICK src : Origins(src) /\ \A v \in Users : Traced(v, src)
  BY MixKnown
<1>2. /\ ino' = ino /\ up' = up /\ sv' = sv /\ cl[u].pc \in {"get", "unlink"}
      /\ \/ cl' = [cl EXCEPT ![u].pc = "unlink"]
         \/ cl' = [cl EXCEPT ![u] = Main]
  BY DEF get_fails, get_unlinks, Remove, Answered, files
<1>3. cl'[u].pc \in {"unlink", "main"}
  <2>1. cl'[u] = [cl[u] EXCEPT !.pc = "unlink"] \/ cl'[u] = Main
    BY <1>2, Known DEF ClientType
  <2>2. [cl[u] EXCEPT !.pc = "unlink"].pc = "unlink" /\ Main.pc = "main"
    BY Session DEF Proc, Main, At
  <2>3. QED
    BY <2>1, <2>2
<1>4. Tidy(u)'
  <2>1. up[u] = << >> /\ sv[u].pc \in {"get", "select"}
    <3>1. CASE cl[u].pc = "get"
      <4>1. down[u] # << >>
        BY <3>1 DEF get_fails, get_unlinks, Answered
      <4>2. QED
        BY <1>1, <3>1, <4>1, GetOnly
    <3>2. CASE cl[u].pc = "unlink"
      BY <3>2, MixKnown DEF Tidy
    <3>3. QED
      BY <1>2, <3>1, <3>2
  <2>2. QED
    BY <1>2, <1>3, <2>1, MixKnown DEF Tidy
<1>5. UpTrace(u, src)'
  <2>1. Kept(src, src)
    BY <1>2, KeptSame
  <2>2. UpTrace(u, src)
    BY <1>1 DEF Traced
  <2>3. QED
    BY <1>2, <1>3, <2>1, <2>2, UpRests
<1>6. Traced(u, src)'
  BY <1>3, <1>5 DEF Traced
<1>7. Alone(u)
  BY StepAlone DEF ClientStep
<1>8. QED
  BY <1>1, <1>2, <1>4, <1>6, <1>7, MixKnown, SameInodes

\* The new file gets the origin of the first block.
LEMMA MixGetCreates ==
  ASSUME SharedInv, SharedInv', MixInv, NEW u \in Users, get_creates(u)
  PROVE  MixInv'
<1>1. PICK src : Origins(src) /\ \A v \in Users : Traced(v, src)
  BY MixKnown
<1>2. /\ up' = up /\ down' = down /\ sv' = sv
      /\ cl[u].pc = "get" /\ cl[u].fd = NoInode /\ down[u] # << >>
      /\ Head(down[u]).command # "NO_FILE"
      /\ Create(Mine(u))
      /\ cl' = [cl EXCEPT ![u].fd = NewInode]
  BY DEF get_creates, Answered
<1>3. /\ down[u] \in Seq(msg_head_ctrl_t) /\ cl[u] \in Proc(ClientPc, Len(ino))
      /\ Len(ino) \in Nat /\ sv[u].pc = "get" => sv[u].fd \in 1 .. Len(ino)
      /\ cl[u].fd \in 0 .. Len(ino) /\ sv[u].fd \in 0 .. Len(ino)
  BY Session
<1>4. /\ up[u] = << >> /\ sv[u].pc \in {"get", "select"} /\ Answering(u, src)
  BY <1>1, <1>2, GetOnly
<1>5. PICK s \in Spot, t \in Spot :
        /\ Run(down[u], s, t, Spot, DownWay)
        /\ s.pos = 0
        /\ sv[u].pc = "get" => t = Fetched(src, sv[u])
  BY <1>2, <1>4 DEF Answering
<1>6. s.of \in DOMAIN Initial
  <2>1. PICK x \in Spot : <<s, Head(down[u]), x>> \in DownWay
    BY <1>2, <1>3, <1>5, RunTail
  <2>2. Head(down[u]) \in msg_head_ctrl_t
    BY <1>2, <1>3, TakeFirst
  <2>3. DownLeads(s, Head(down[u]), x)
    BY <2>1, <2>2, InWay
  <2>4. QED
    BY <1>2, <2>3, SpotType DEF DownLeads
<1>7. PICK new : /\ Origins(new)' /\ new[NewInode] = s.of
                 /\ Len(ino'[NewInode]) = 0
                 /\ \A i \in 1 .. Len(ino) : new[i] = src[i] /\ ino'[i] = ino[i]
  BY <1>1, <1>2, <1>6, NewOrigin, Known
<1>8. Kept(src, new)
  <2>1. Len(ino') = Len(ino) + 1
    BY <1>2, CreateFiles, Known
  <2>2. \A i \in 1 .. Len(ino) : Len(ino[i]) \in Nat
    BY Known DEF FilesType
  <2>3. QED
    BY <1>3, <1>7, <2>1, <2>2 DEF Kept
<1>9. /\ cl'[u] = [cl[u] EXCEPT !.fd = NewInode]
      /\ cl'[u].pc = "get" /\ cl'[u].fd = NewInode /\ NewInode # NoInode
  <2>1. cl'[u] = [cl[u] EXCEPT !.fd = NewInode]
    BY <1>2, Known DEF ClientType
  <2>2. NewInode # NoInode
    BY <1>3 DEF NewInode, NoInode
  <2>3. QED
    BY <1>2, <1>3, <2>1, <2>2 DEF Proc
<1>10. UpTrace(u, new)'
  <2>1. UpTrace(u, src)
    BY <1>1 DEF Traced
  <2>2. QED
    BY <1>2, <1>4, <1>8, <1>9, <2>1, UpRests
<1>11. Answering(u, new)'
  <2>1. s = Stored(new, cl[u].fd)'
    BY <1>5, <1>7, <1>9, SpotType DEF Stored
  <2>2. sv'[u].pc = "get" => t = Fetched(new, sv'[u])
    BY <1>2, <1>3, <1>5, <1>7 DEF Fetched
  <2>3. Run(down'[u], s, t, Spot, DownWay)
    BY <1>2, <1>5
  <2>4. QED
    BY <1>9, <2>1, <2>2, <2>3 DEF Answering
<1>12. Traced(u, new)'
  <2>1. GetTrace(u, new)'
    BY <1>2, <1>4, <1>11 DEF GetTrace
  <2>2. QED
    BY <1>10, <2>1 DEF Traced
<1>13. Tidy(u)'
  <2>1. sv[u].pc = "get" => ino'[sv[u].fd] = ino[sv[u].fd]
    BY <1>3, <1>7
  <2>2. QED
    BY <1>2, <1>9, <2>1, MixKnown DEF Tidy
<1>14. Alone(u)
  BY StepAlone DEF ClientStep
<1>15. QED
  BY <1>1, <1>7, <1>8, <1>12, <1>13, <1>14, MixKnown, MixShown

LEMMA MixGets ==
  ASSUME SharedInv, SharedInv', MixInv, NEW u \in Users, get_file_from_server(u)
  PROVE  MixInv'
<1>1. PICK src : Origins(src) /\ \A v \in Users : Traced(v, src)
  BY MixKnown
<1>2. /\ up' = up /\ sv' = sv
      /\ cl[u].pc = "get" /\ cl[u].fd # NoInode /\ down[u] # << >>
      /\ Write(cl[u].fd, Head(down[u]).data)
      /\ down' = [down EXCEPT ![u] = Tail(down[u])]
      /\ cl' = [cl EXCEPT ![u] = IF Ends(Head(down[u])) THEN Main ELSE cl[u]]
  BY DEF get_file_from_server, Answered, Consumed
<1>3. /\ down[u] \in Seq(msg_head_ctrl_t) /\ Len(ino) \in Nat
      /\ cl[u].fd \in 1 .. Len(ino)
      /\ sv[u].pc = "get" => sv[u].fd \in 1 .. Len(ino)
      /\ sv[u].off \in Nat
  BY <1>2, Session DEF NoInode
<1>4. /\ down'[u] = Tail(down[u])
      /\ cl'[u].pc = "main" \/ cl'[u] = cl[u]
  BY <1>2, Known DEF DownType, ClientType, Main, At
<1>5. /\ up[u] = << >> /\ sv[u].pc \in {"get", "select"} /\ Answering(u, src)
  BY <1>1, <1>2, GetOnly
<1>6. PICK s \in Spot, t \in Spot :
        /\ Run(down[u], s, t, Spot, DownWay)
        /\ s = Stored(src, cl[u].fd)
        /\ sv[u].pc = "get" => t = Fetched(src, sv[u])
  BY <1>2, <1>5 DEF Answering
<1>7. PICK x \in Spot : /\ <<s, Head(down[u]), x>> \in DownWay
                        /\ Run(Tail(down[u]), x, t, Spot, DownWay)
  BY <1>2, <1>3, <1>6, RunTail
<1>8. Piece(s, Head(down[u]).data, x)
  <2>1. Head(down[u]) \in msg_head_ctrl_t
    BY <1>2, <1>3, TakeFirst
  <2>2. s.of # 0
    BY <1>1, <1>3, <1>6, DataType DEF Stored, Origins
  <2>3. QED
    BY <1>7, <2>1, <2>2, InWay DEF DownLeads
<1>9. PICK i \in 1 .. Len(ino) :
        /\ i = cl[u].fd /\ Origins(src)' /\ Stored(src, i)' = x
        /\ Len(ino[i]) <= Len(ino'[i])
  <2>1. PICK i, d : i \in 1 .. Len(ino) /\ i = cl[u].fd /\ d = Head(down[u]).data
    BY <1>3
  <2>2. FilesType /\ Origins(src) /\ Piece(Stored(src, i), d, x) /\ Write(i, d)
    BY <1>1, <1>2, <1>6, <1>8, <2>1, Known
  <2>3. QED
    BY <2>1, <2>2, StoresPiece
<1>10. /\ Len(ino') = Len(ino)
       /\ \A k \in 1 .. Len(ino) : k # cl[u].fd => ino'[k] = ino[k]
  BY <1>2, Known DEF Write, FilesType
<1>11. Kept(src, src)
  <2>1. \A k \in 1 .. Len(ino) : Len(ino[k]) \in Nat
    BY Known DEF FilesType
  <2>2. QED
    BY <1>3, <1>9, <1>10, <2>1 DEF Kept
<1>12. UpTrace(u, src)'
  <2>1. UpTrace(u, src)
    BY <1>1 DEF Traced
  <2>2. QED
    BY <1>2, <1>4, <1>5, <1>11, <2>1, UpRests
<1>13. cl'[u].pc = "get" => GetTrace(u, src)'
  <2>1. SUFFICES ASSUME cl'[u] = cl[u] PROVE GetTrace(u, src)'
    BY <1>4
  <2>2. Run(down'[u], x, t, Spot, DownWay)
    BY <1>4, <1>7
  <2>3. sv'[u].pc = "get" => t = Fetched(src, sv'[u])
    BY <1>2, <1>6 DEF Fetched
  <2>4. x = Stored(src, cl[u].fd)'
    BY <1>9, <2>1 DEF Stored
  <2>5. Answering(u, src)'
    BY <1>2, <2>1, <2>2, <2>3, <2>4 DEF Answering
  <2>6. QED
    BY <1>2, <1>5, <2>5 DEF GetTrace
<1>14. Traced(u, src)'
  BY <1>12, <1>13 DEF Traced
<1>15. Tidy(u)'
  <2>1. sv[u].pc = "get" => sv[u].off <= Len(ino'[sv[u].fd])
    <3>1. SUFFICES ASSUME sv[u].pc = "get" PROVE sv[u].off <= Len(ino'[sv[u].fd])
      OBVIOUS
    <3>2. sv[u].off <= Len(ino[sv[u].fd])
      BY <3>1, MixKnown DEF Tidy
    <3>3. Len(ino[sv[u].fd]) <= Len(ino'[sv[u].fd])
      BY <1>3, <1>11, <3>1 DEF Kept
    <3>4. Len(ino[sv[u].fd]) \in Nat /\ Len(ino'[sv[u].fd]) \in Nat
      <4>1. ino \in Seq(Seq(Byte)) /\ ino' \in Seq(Seq(Byte))
        BY DEF SharedInv, SharedTypeOK
      <4>2. sv[u].fd \in 1 .. Len(ino) /\ sv[u].fd \in 1 .. Len(ino')
        BY <1>3, <1>10, <3>1
      <4>3. QED
        BY <4>1, <4>2, InodeType
    <3>5. QED
      BY <1>3, <3>2, <3>3, <3>4
  <2>2. cl'[u].pc \in {"main", "get"}
    BY <1>2, <1>4
  <2>3. QED
    BY <1>2, <1>5, <2>1, <2>2, MixKnown DEF Tidy
<1>16. Alone(u)
  BY StepAlone DEF ClientStep
<1>17. \A k \in 1 .. Len(ino) :
         k \notin {ServWrites(u), ClientWrites(u)} => Len(ino'[k]) = Len(ino[k])
  BY <1>2, <1>10 DEF ClientWrites
<1>18. QED
  BY <1>1, <1>9, <1>11, <1>14, <1>15, <1>16, <1>17, MixKnown, MixShown

-----------------------------------------------------------------------------
\* The steps of the child. A frame it reads takes it along the way.
LEMMA UpTakes ==
  ASSUME SharedInv, NEW u \in Users, NEW src, UpTrace(u, src), up[u] # << >>,
         up' = [up EXCEPT ![u] = Tail(@)]
  PROVE  /\ Head(up[u]) \in msg_head_ctrl_t /\ up'[u] = Tail(up[u])
         /\ \E s, x, t \in Spot :
              /\ UpLeads(s, Head(up[u]), x)
              /\ Run(up'[u], x, t, Spot, UpWay)
              /\ ChildSpot(u, src, s) /\ ClientSpot(u, src, t)
<1>1. up[u] \in Seq(msg_head_ctrl_t) /\ up'[u] = Tail(up[u])
  BY Session, Known DEF UpType
<1>2. Head(up[u]) \in msg_head_ctrl_t
  BY <1>1, TakeFirst
<1>3. PICK s \in Spot, t \in Spot :
        Run(up[u], s, t, Spot, UpWay) /\ ChildSpot(u, src, s) /\ ClientSpot(u, src, t)
  BY DEF UpTrace
<1>4. PICK x \in Spot : /\ <<s, Head(up[u]), x>> \in UpWay
                        /\ Run(Tail(up[u]), x, t, Spot, UpWay)
  BY <1>1, <1>3, RunTail
<1>5. UpLeads(s, Head(up[u]), x)
  BY <1>2, <1>4, InWay
<1>6. QED
  BY <1>1, <1>2, <1>3, <1>4, <1>5

\* The client is where it was, and its file has at best grown.
LEMMA ClientStays ==
  ASSUME SharedInv, NEW u \in Users, NEW src, NEW new, Kept(src, new),
         cl'[u] = cl[u], NEW t, ClientSpot(u, src, t)
  PROVE  ClientSpot(u, new, t)'
<1>1. cl[u].fd \in 0 .. Len(ino) /\ Len(ino) \in Nat
  BY Session
<1>2. QED
  BY <1>1 DEF ClientSpot, Fetched, Kept, NoInode

LEMMA MixChildRequest ==
  ASSUME SharedInv, SharedInv', MixInv, Spelled \cap Names = {}, NEW u \in Users,
         handle_request_put(u) \/ handle_request_default(u)
  PROVE  MixInv'
<1>1. PICK src : Origins(src) /\ \A v \in Users : Traced(v, src)
  BY MixKnown
<1>2. /\ ino' = ino /\ down' = down /\ cl' = cl
      /\ sv[u].pc = "select" /\ up[u] # << >>
      /\ Head(up[u]).command \in {"PUT", "END_FILE", "ERROR_FILE"}
      /\ up' = [up EXCEPT ![u] = Tail(@)]
      /\ \/ sv' = sv /\ Head(up[u]).command # "PUT"
         \/ /\ Head(up[u]).command = "PUT"
            /\ \E n \in NamesIn(Head(up[u])) :
                 sv' = [sv EXCEPT ![u] = At("put", "PUT", n)]
  BY DEF handle_request_put, handle_request_default, Requested, files
<1>3. cl[u].pc # "get"
  BY <1>1, <1>2, GetOnly
<1>4. \/ sv'[u] = sv[u] /\ Head(up[u]).command # "PUT"
      \/ /\ Head(up[u]).command = "PUT"
         /\ \E n \in NamesIn(Head(up[u])) : sv'[u] = At("put", "PUT", n)
  BY <1>2, Known DEF ServType
<1>5. PICK s \in Spot, x \in Spot, t \in Spot :
        /\ UpLeads(s, Head(up[u]), x)
        /\ Run(up'[u], x, t, Spot, UpWay)
        /\ ClientSpot(u, src, t)
  BY <1>1, <1>2, UpTakes DEF Traced
<1>6. ChildSpot(u, src, x)'
  <2>1. CASE sv'[u] = sv[u]
    BY <1>2, <2>1 DEF ChildSpot
  <2>2. ASSUME NEW n \in NamesIn(Head(up[u])), sv'[u] = At("put", "PUT", n),
               Head(up[u]).command = "PUT"
        PROVE  ChildSpot(u, src, x)'
    <3>1. sv'[u].name = n /\ sv'[u].fd = NoInode
      BY <2>2 DEF At
    <3>2. CASE IsBlock(Head(up[u]))
      BY <3>1, <3>2 DEF ChildSpot, NamesIn
    <3>3. CASE ~IsBlock(Head(up[u]))
      BY <1>5, <2>2, <3>1, <3>3 DEF UpLeads, ChildSpot
    <3>4. QED
      BY <3>2, <3>3
  <2>3. QED
    BY <1>4, <2>1, <2>2
<1>7. ClientSpot(u, src, t)'
  BY <1>2, <1>5, ClientStays, KeptSame
<1>8. Traced(u, src)'
  <2>1. UpTrace(u, src)'
    BY <1>5, <1>6, <1>7 DEF UpTrace
  <2>2. QED
    BY <1>2, <1>3, <2>1 DEF Traced
<1>9. Tidy(u)'
  <2>1. cl[u].pc # "send"
    BY <1>2, MixKnown DEF Tidy, Quiet
  <2>2. sv'[u].pc \notin {"open", "get"} /\ (sv'[u].pc = "put" => sv'[u].fd = NoInode)
    <3>1. \A n : At("put", "PUT", n).pc = "put" /\ At("put", "PUT", n).fd = NoInode
      BY DEF At
    <3>2. QED
      BY <1>2, <1>4, <3>1
  <2>3. QED
    BY <1>2, <2>1, <2>2, MixKnown DEF Tidy
<1>10. Alone(u)
  BY StepAlone DEF ServStep
<1>11. QED
  BY <1>1, <1>2, <1>8, <1>9, <1>10, MixKnown, SameInodes

\* A request for a get or an rm, which the child leaves select for.
LEMMA MixChildAsked ==
  ASSUME SharedInv, SharedInv', MixInv, NEW u \in Users,
         handle_request_get(u) \/ handle_request_rm(u)
  PROVE  MixInv'
<1>1. PICK src : Origins(src) /\ \A v \in Users : Traced(v, src)
  BY MixKnown
<1>2. /\ ino' = ino /\ down' = down /\ cl' = cl
      /\ sv[u].pc = "select" /\ up[u] # << >>
      /\ up' = [up EXCEPT ![u] = Tail(@)]
  BY DEF handle_request_get, handle_request_rm, Requested, files, Remove
<1>3. \/ /\ Head(up[u]).command = "GET"
         /\ \E pc \in {"nofile", "open"} :
              sv' = [sv EXCEPT ![u] = At(pc, "GET", Head(up[u]).name)]
      \/ /\ Head(up[u]).command = "RM"
         /\ sv' = [sv EXCEPT ![u] = At("pipe", "RM", EmptyName)]
  BY DEF handle_request_get, handle_request_rm, Requested
<1>4. \/ /\ Head(up[u]).command = "GET" /\ sv'[u].pc \in {"nofile", "open"}
         /\ sv'[u].cmd = "GET" /\ sv'[u].off = 0
      \/ /\ Head(up[u]).command = "RM" /\ sv'[u].pc = "pipe"
  BY <1>3, Known DEF ServType, At
<1>5. PICK x \in Spot, t \in Spot :
        /\ Run(up'[u], x, t, Spot, UpWay)
        /\ ClientSpot(u, src, t)
  BY <1>1, <1>2, UpTakes DEF Traced
<1>6. UpTrace(u, src)'
  <2>1. ChildSpot(u, src, x)'
    BY <1>4 DEF ChildSpot
  <2>2. ClientSpot(u, src, t)'
    BY <1>2, <1>5, ClientStays, KeptSame
  <2>3. QED
    BY <1>5, <2>1, <2>2 DEF UpTrace
<1>7. cl'[u].pc = "get" => GetTrace(u, src)'
  <2>1. SUFFICES ASSUME cl[u].pc = "get" PROVE GetTrace(u, src)'
    BY <1>2
  <2>2. Tail(up[u]) = << >> /\ Head(up[u]).command = "GET" /\ Unanswered(u)
    BY <1>1, <1>2, <2>1, GetOnly
  <2>3. up'[u] = << >>
    BY <1>2, <2>2, Known DEF UpType
  <2>4. QED
    BY <1>2, <1>4, <2>2, <2>3 DEF GetTrace, Unanswered
<1>8. Traced(u, src)'
  BY <1>6, <1>7 DEF Traced
<1>9. Tidy(u)'
  <2>1. cl[u].pc # "send"
    BY <1>2, MixKnown DEF Tidy, Quiet
  <2>2. QED
    BY <1>2, <1>4, <2>1, MixKnown DEF Tidy
<1>10. Alone(u)
  BY StepAlone DEF ServStep
<1>11. QED
  BY <1>1, <1>2, <1>8, <1>9, <1>10, MixKnown, SameInodes

LEMMA MixChildAnswer ==
  ASSUME SharedInv, SharedInv', MixInv, NEW u \in Users, handle_answer(u)
  PROVE  MixInv'
<1>1. PICK src : Origins(src) /\ \A v \in Users : Traced(v, src)
  BY MixKnown
<1>2. PICK m : m = Request(IF sv[u].pc = "pipe" THEN "RM" ELSE "NO_FILE", sv[u].name)
  OBVIOUS
<1>3. /\ ino' = ino /\ up' = up /\ cl' = cl /\ sv[u].pc \in {"pipe", "nofile"}
      /\ down' = [down EXCEPT ![u] = Append(down[u], m)]
      /\ sv' = [sv EXCEPT ![u] = Select]
  BY <1>2 DEF handle_answer, files, ToClient
<1>4. sv'[u].pc = "select"
  BY <1>3, Known DEF ServType, Select, At
<1>5. UpTrace(u, src)'
  <2>1. UpTrace(u, src)
    BY <1>1 DEF Traced
  <2>2. QED
    BY <1>3, <1>4, <2>1, KeptSame, UpRests
<1>6. cl'[u].pc = "get" => GetTrace(u, src)'
  <2>1. SUFFICES ASSUME cl[u].pc = "get" PROVE GetTrace(u, src)'
    BY <1>3
  <2>2. sv[u].pc = "nofile" /\ up[u] = << >> /\ down[u] = << >> /\ cl[u].fd = NoInode
    BY <1>1, <1>3, <2>1, GetOnly DEF Unanswered
  <2>3. m \in msg_head_ctrl_t /\ m.command = "NO_FILE"
    <3>1. sv[u].name \in Text
      <4>1. sv[u] \in Proc(ServPc, Len(ino))
        BY Here
      <4>2. QED
        BY <4>1 DEF Proc
    <3>2. QED
      BY <1>2, <2>2, <3>1, RequestType DEF command_type_t
  <2>4. <<Between, m, Between>> \in DownWay
    <3>1. DownLeads(Between, m, Between)
      BY <2>3, SpotType DEF DownLeads
    <3>2. QED
      BY <2>3, <3>1, SpotType, InWay
  <2>5. Run(down'[u], Between, Between, Spot, DownWay)
    <3>1. Run(<< >>, Between, Between, Spot, DownWay)
      BY RunEmpty, SpotType
    <3>2. << >> \in Seq(msg_head_ctrl_t)
      OBVIOUS
    <3>3. down'[u] = Append(<< >>, m)
      BY <1>3, <2>2, Known DEF DownType
    <3>4. Between \in Spot
      BY SpotType
    <3>5. Run(Append(<< >>, m), Between, Between, Spot, DownWay)
      BY <2>3, <2>4, <3>1, <3>2, <3>4, RunAppend
    <3>6. QED
      BY <3>3, <3>5
  <2>6. Answering(u, src)'
    BY <1>3, <1>4, <2>2, <2>5, SpotType DEF Answering
  <2>7. QED
    BY <1>3, <1>4, <2>2, <2>6 DEF GetTrace
<1>7. Traced(u, src)'
  BY <1>5, <1>6 DEF Traced
<1>8. Tidy(u)'
  <2>1. cl[u].pc # "send"
    BY <1>3, MixKnown DEF Tidy, Quiet
  <2>2. QED
    BY <1>3, <1>4, <2>1, MixKnown DEF Tidy
<1>9. Alone(u)
  BY StepAlone DEF ServStep
<1>10. QED
  BY <1>1, <1>3, <1>7, <1>8, <1>9, MixKnown, SameInodes

\* The new file gets the origin of the first block, which is still to be read.
LEMMA MixPutCreates ==
  ASSUME SharedInv, SharedInv', MixInv, NEW u \in Users, handle_put_creates(u)
  PROVE  MixInv'
<1>1. PICK src : Origins(src) /\ \A v \in Users : Traced(v, src)
  BY MixKnown
<1>2. /\ up' = up /\ down' = down /\ cl' = cl
      /\ sv[u].pc = "put" /\ sv[u].fd = NoInode /\ sv[u].name \in Names
      /\ up[u] # << >>
      /\ Create(Named(u))
      /\ sv' = [sv EXCEPT ![u].fd = dir'[Named(u)]]
  BY DEF handle_put_creates, Uploading
<1>3. /\ sv[u] \in Proc(ServPc, Len(ino)) /\ Len(ino) \in Nat
      /\ up[u] \in Seq(msg_head_ctrl_t)
      /\ cl[u].fd \in 0 .. Len(ino)
  BY Session
<1>4. PICK s \in Spot, t \in Spot :
        Run(up[u], s, t, Spot, UpWay) /\ ChildSpot(u, src, s) /\ ClientSpot(u, src, t)
  BY <1>1 DEF Traced, UpTrace
<1>5. s.of \in DOMAIN Initial /\ s.pos = 0
  BY <1>2, <1>4, SpotType DEF ChildSpot, Start
<1>6. PICK new : /\ Origins(new)' /\ new[NewInode] = s.of
                 /\ Len(ino'[NewInode]) = 0
                 /\ \A i \in 1 .. Len(ino) : new[i] = src[i] /\ ino'[i] = ino[i]
  BY <1>1, <1>2, <1>5, NewOrigin, Known
<1>7. dir'[Named(u)] = NewInode /\ Len(ino') = Len(ino) + 1
  <2>1. Named(u) \in Places \X Names
    BY <1>2 DEF Named, Places
  <2>2. QED
    BY <1>2, <2>1, CreateFiles, Known
<1>8. Kept(src, new)
  <2>1. ino \in Seq(Seq(Byte))
    BY Known DEF FilesType
  <2>2. \A i \in 1 .. Len(ino) : Len(ino[i]) \in Nat
    BY <2>1, InodeType
  <2>3. QED
    BY <1>3, <1>6, <1>7, <2>2 DEF Kept
<1>9. /\ sv'[u].pc = "put" /\ sv'[u].name \in Names
      /\ sv'[u].fd = NewInode /\ NewInode # NoInode
  <2>1. sv'[u] = [sv[u] EXCEPT !.fd = NewInode]
    BY <1>2, <1>7, Known DEF ServType
  <2>2. NewInode # NoInode
    BY <1>3 DEF NewInode, NoInode
  <2>3. QED
    BY <1>2, <1>3, <2>1, <2>2 DEF Proc
<1>10. UpTrace(u, new)'
  <2>1. s = Stored(new, sv[u].fd)'
    BY <1>5, <1>6, <1>9, SpotType DEF Stored
  <2>2. ChildSpot(u, new, s)'
    BY <1>9, <2>1 DEF ChildSpot
  <2>3. ClientSpot(u, new, t)'
    BY <1>2, <1>4, <1>8, ClientStays
  <2>4. Run(up'[u], s, t, Spot, UpWay)
    BY <1>2, <1>4
  <2>5. QED
    BY <2>2, <2>3, <2>4 DEF UpTrace
<1>11. Traced(u, new)'
  <2>1. cl[u].pc # "get"
    BY <1>1, <1>2, GetOnly
  <2>2. QED
    BY <1>2, <1>10, <2>1 DEF Traced
<1>12. Tidy(u)'
  <2>1. cl[u].pc # "send"
    BY <1>2, MixKnown DEF Tidy, Quiet
  <2>2. cl[u].pc = "put" /\ cl[u].fd # NoInode => ino'[cl[u].fd] = ino[cl[u].fd]
    BY <1>3, <1>6 DEF NoInode
  <2>3. QED
    BY <1>2, <1>9, <2>1, <2>2, MixKnown DEF Tidy
<1>13. Alone(u)
  BY StepAlone DEF ServStep
<1>14. QED
  BY <1>1, <1>6, <1>8, <1>11, <1>12, <1>13, MixKnown, MixShown

LEMMA MixPutRefused ==
  ASSUME SharedInv, SharedInv', MixInv, NEW u \in Users, handle_put_refused(u)
  PROVE  MixInv'
<1>1. PICK src : Origins(src) /\ \A v \in Users : Traced(v, src)
  BY MixKnown
<1>2. /\ ino' = ino /\ down' = down /\ cl' = cl
      /\ sv[u].pc = "put" /\ up[u] # << >>
      /\ up' = [up EXCEPT ![u] = Tail(@)]
      /\ sv' = [sv EXCEPT ![u] = Select]
  BY DEF handle_put_refused, Uploading, Taken, files
<1>3. sv'[u].pc = "select"
  BY <1>2, Known DEF ServType, Select, At
<1>4. PICK x \in Spot, t \in Spot :
        /\ Run(up'[u], x, t, Spot, UpWay)
        /\ ClientSpot(u, src, t)
  BY <1>1, <1>2, UpTakes DEF Traced
<1>5. UpTrace(u, src)'
  <2>1. ChildSpot(u, src, x)'
    BY <1>3 DEF ChildSpot
  <2>2. ClientSpot(u, src, t)'
    BY <1>2, <1>4, ClientStays, KeptSame
  <2>3. QED
    BY <1>4, <2>1, <2>2 DEF UpTrace
<1>6. Traced(u, src)'
  <2>1. cl[u].pc # "get"
    BY <1>1, <1>2, GetOnly
  <2>2. QED
    BY <1>2, <1>5, <2>1 DEF Traced
<1>7. Tidy(u)'
  <2>1. cl[u].pc # "send"
    BY <1>2, MixKnown DEF Tidy, Quiet
  <2>2. QED
    BY <1>2, <1>3, <2>1, MixKnown DEF Tidy
<1>8. Alone(u)
  BY StepAlone DEF ServStep
<1>9. QED
  BY <1>1, <1>2, <1>6, <1>7, <1>8, MixKnown, SameInodes

LEMMA MixChildPut ==
  ASSUME SharedInv, SharedInv', MixInv, NEW u \in Users, handle_put(u)
  PROVE  MixInv'
<1>1. PICK src : Origins(src) /\ \A v \in Users : Traced(v, src)
  BY MixKnown
<1>2. /\ down' = down /\ cl' = cl
      /\ sv[u].pc = "put" /\ sv[u].fd # NoInode /\ up[u] # << >>
      /\ Write(sv[u].fd, Head(up[u]).data)
      /\ up' = [up EXCEPT ![u] = Tail(@)]
      /\ sv' = [sv EXCEPT ![u] = IF Ends(Head(up[u])) THEN Select ELSE @]
  BY DEF handle_put, Uploading, Taken
<1>3. /\ sv[u].fd \in 1 .. Len(ino) /\ Len(ino) \in Nat
      /\ cl[u].fd \in 0 .. Len(ino) /\ cl[u].off \in Nat
      /\ sv[u].name \in Names
  BY <1>2, Session, MixKnown DEF NoInode, Tidy
<1>4. \/ Ends(Head(up[u])) /\ sv'[u].pc = "select"
      \/ ~Ends(Head(up[u])) /\ sv'[u] = sv[u]
  BY <1>2, Known DEF ServType, Select, At
<1>5. PICK s \in Spot, x \in Spot, t \in Spot :
        /\ UpLeads(s, Head(up[u]), x)
        /\ Run(up'[u], x, t, Spot, UpWay)
        /\ ChildSpot(u, src, s) /\ ClientSpot(u, src, t)
  BY <1>1, <1>2, UpTakes DEF Traced
<1>6. s = Stored(src, sv[u].fd)
  BY <1>2, <1>3, <1>5 DEF ChildSpot
<1>7. PICK y \in Spot : /\ Piece(s, Head(up[u]).data, y)
                        /\ Ends(Head(up[u])) \/ x = y
  <2>1. s.of # 0
    BY <1>1, <1>3, <1>6, DataType DEF Stored, Origins
  <2>2. QED
    BY <1>5, <2>1 DEF UpLeads
<1>8. PICK i \in 1 .. Len(ino) :
        /\ i = sv[u].fd /\ Origins(src)' /\ Stored(src, i)' = y
        /\ Len(ino[i]) <= Len(ino'[i])
  <2>1. PICK i, d : i \in 1 .. Len(ino) /\ i = sv[u].fd /\ d = Head(up[u]).data
    BY <1>3
  <2>2. FilesType /\ Origins(src) /\ Piece(Stored(src, i), d, y) /\ Write(i, d)
    BY <1>1, <1>2, <1>6, <1>7, <2>1, Known
  <2>3. QED
    BY <2>1, <2>2, StoresPiece
<1>9. /\ Len(ino') = Len(ino)
      /\ \A k \in 1 .. Len(ino) : k # sv[u].fd => ino'[k] = ino[k]
  BY <1>2, Known DEF Write, FilesType
<1>10. Kept(src, src)
  <2>1. ino \in Seq(Seq(Byte))
    BY Known DEF FilesType
  <2>2. \A k \in 1 .. Len(ino) : Len(ino[k]) \in Nat
    BY <2>1, InodeType
  <2>3. QED
    BY <1>3, <1>8, <1>9, <2>2 DEF Kept
<1>11. UpTrace(u, src)'
  <2>1. ClientSpot(u, src, t)'
    BY <1>2, <1>5, <1>10, ClientStays
  <2>2. ChildSpot(u, src, x)'
    <3>1. CASE sv'[u].pc = "select"
      BY <3>1 DEF ChildSpot
    <3>2. CASE ~Ends(Head(up[u])) /\ sv'[u] = sv[u]
      <4>1. x = Stored(src, sv[u].fd)'
        BY <1>7, <1>8, <3>2 DEF Stored
      <4>2. QED
        BY <1>2, <3>2, <4>1 DEF ChildSpot
    <3>3. QED
      BY <1>4, <3>1, <3>2
  <2>3. QED
    BY <1>5, <2>1, <2>2 DEF UpTrace
<1>12. Traced(u, src)'
  <2>1. cl[u].pc # "get"
    BY <1>1, <1>2, GetOnly
  <2>2. QED
    BY <1>2, <1>11, <2>1 DEF Traced
<1>13. Tidy(u)'
  <2>1. cl[u].pc # "send"
    BY <1>2, MixKnown DEF Tidy, Quiet
  <2>2. cl[u].pc = "put" /\ cl[u].fd # NoInode => cl[u].off <= Len(ino'[cl[u].fd])
    <3>1. SUFFICES ASSUME cl[u].pc = "put", cl[u].fd # NoInode
                   PROVE  cl[u].off <= Len(ino'[cl[u].fd])
      OBVIOUS
    <3>2. cl[u].fd \in 1 .. Len(ino) /\ cl[u].fd \in 1 .. Len(ino')
      BY <1>3, <1>9, <3>1 DEF NoInode
    <3>3. cl[u].off <= Len(ino[cl[u].fd]) /\ Len(ino[cl[u].fd]) <= Len(ino'[cl[u].fd])
      BY <1>10, <3>1, <3>2, MixKnown DEF Tidy, Kept
    <3>4. ino \in Seq(Seq(Byte)) /\ ino' \in Seq(Seq(Byte))
      BY DEF SharedInv, SharedTypeOK
    <3>5. Len(ino[cl[u].fd]) \in Nat /\ Len(ino'[cl[u].fd]) \in Nat
      BY <3>2, <3>4, InodeType
    <3>6. QED
      BY <1>3, <3>3, <3>5
  <2>3. QED
    BY <1>2, <1>4, <2>1, <2>2, MixKnown DEF Tidy
<1>14. Alone(u)
  BY StepAlone DEF ServStep
<1>15. \A k \in 1 .. Len(ino) :
         k \notin {ServWrites(u), ClientWrites(u)} => Len(ino'[k]) = Len(ino[k])
  BY <1>2, <1>9 DEF ServWrites
<1>16. QED
  BY <1>1, <1>8, <1>10, <1>12, <1>13, <1>14, <1>15, MixKnown, MixShown

LEMMA MixGetOpens ==
  ASSUME SharedInv, SharedInv', MixInv, NEW u \in Users, handle_get_opens(u)
  PROVE  MixInv'
<1>1. PICK src : Origins(src) /\ \A v \in Users : Traced(v, src)
  BY MixKnown
<1>2. /\ ino' = ino /\ up' = up /\ down' = down /\ cl' = cl /\ sv[u].pc = "open"
      /\ sv' = [sv EXCEPT ![u] = IF Missing(Named(u)) THEN Select
                                 ELSE [@ EXCEPT !.pc = "get", !.fd = dir[Named(u)]]]
  BY DEF handle_get_opens, files
<1>3. /\ sv[u] \in Proc(ServPc, Len(ino)) /\ Len(ino) \in Nat
      /\ sv[u].name \in Names /\ sv[u].off = 0 /\ sv[u].cmd = "GET"
      /\ ino \in Seq(Seq(Byte))
  BY <1>2, Session, Known, MixKnown DEF ServNames, Tidy, FilesType
<1>4. dir[Named(u)] \in 0 .. Len(ino)
  <2>1. Named(u) \in Places \X Names
    BY <1>3 DEF Named, Places
  <2>2. QED
    BY <2>1, Known DEF FilesType
<1>5. \/ sv'[u].pc = "select"
      \/ /\ sv'[u].pc = "get" /\ sv'[u].fd = dir[Named(u)] /\ sv'[u].off = 0
         /\ sv'[u].cmd = "GET" /\ dir[Named(u)] \in 1 .. Len(ino)
  <2>1. CASE Missing(Named(u))
    BY <1>2, <2>1, Known DEF ServType, Select, At
  <2>2. CASE ~Missing(Named(u))
    <3>1. sv'[u] = [sv[u] EXCEPT !.pc = "get", !.fd = dir[Named(u)]]
      BY <1>2, <2>2, Known DEF ServType
    <3>2. dir[Named(u)] \in 1 .. Len(ino)
      BY <1>3, <1>4, <2>2 DEF Missing, NoInode
    <3>3. QED
      BY <1>3, <3>1, <3>2 DEF Proc
  <2>3. QED
    BY <2>1, <2>2
<1>6. UpTrace(u, src)'
  <2>1. UpTrace(u, src)
    BY <1>1 DEF Traced
  <2>2. QED
    BY <1>2, <1>5, <2>1, KeptSame, UpRests
<1>7. cl'[u].pc = "get" => GetTrace(u, src)'
  <2>1. SUFFICES ASSUME cl[u].pc = "get" PROVE GetTrace(u, src)'
    BY <1>2
  <2>2. up[u] = << >> /\ down[u] = << >> /\ cl[u].fd = NoInode
    BY <1>1, <1>2, <2>1, GetOnly DEF Unanswered
  <2>3. PICK s \in Spot : s.pos = 0 /\ (sv'[u].pc = "get" => s = Fetched(src, sv'[u]))
    <3>1. CASE sv'[u].pc = "select"
      BY <3>1, SpotType
    <3>2. CASE /\ sv'[u].pc = "get" /\ sv'[u].fd = dir[Named(u)] /\ sv'[u].off = 0
               /\ dir[Named(u)] \in 1 .. Len(ino)
      <4>1. src[sv'[u].fd] \in DOMAIN Initial
        BY <1>1, <3>2 DEF Origins
      <4>2. QED
        BY <3>2, <4>1, SpotType DEF Fetched
    <3>3. QED
      BY <1>5, <3>1, <3>2
  <2>4. Run(down'[u], s, s, Spot, DownWay)
    BY <1>2, <2>2, RunEmpty
  <2>5. Answering(u, src)'
    BY <1>2, <2>2, <2>3, <2>4 DEF Answering
  <2>6. QED
    BY <1>2, <1>5, <2>2, <2>5 DEF GetTrace
<1>8. Traced(u, src)'
  BY <1>6, <1>7 DEF Traced
<1>9. Tidy(u)'
  <2>1. cl[u].pc # "send"
    BY <1>2, MixKnown DEF Tidy, Quiet
  <2>2. sv'[u].pc = "get" => 0 <= Len(ino[sv'[u].fd])
    BY <1>3, <1>5, InodeType
  <2>3. QED
    BY <1>2, <1>5, <2>1, <2>2, MixKnown DEF Tidy
<1>10. Alone(u)
  BY StepAlone DEF ServStep
<1>11. QED
  BY <1>1, <1>2, <1>8, <1>9, <1>10, MixKnown, SameInodes

LEMMA MixChildGet ==
  ASSUME SharedInv, SharedInv', MixInv, NEW u \in Users, handle_get(u)
  PROVE  MixInv'
<1>1. PICK src : Origins(src) /\ \A v \in Users : Traced(v, src)
  BY MixKnown
<1>2. PICK d : d = BlockOf(sv[u].fd, sv[u].off)
  OBVIOUS
<1>3. PICK m : m = FileFrame(d, sv[u].cmd)
  OBVIOUS
<1>4. /\ ino' = ino /\ up' = up /\ cl' = cl /\ sv[u].pc = "get"
      /\ down' = [down EXCEPT ![u] = Append(down[u], m)]
      /\ sv' = [sv EXCEPT ![u] = IF LastBlock(Len(d)) THEN Select
                                 ELSE [sv[u] EXCEPT !.off = sv[u].off + Len(d)]]
  BY <1>2, <1>3 DEF handle_get, files, ToClient
<1>5. /\ sv[u] \in Proc(ServPc, Len(ino)) /\ Len(ino) \in Nat
      /\ sv[u].fd \in 1 .. Len(ino) /\ sv[u].off \in Nat
      /\ down[u] \in Seq(msg_head_ctrl_t)
  BY <1>4, Session
<1>6. sv[u].cmd = "GET" /\ sv[u].off <= Len(ino[sv[u].fd])
  BY <1>4, MixKnown DEF Tidy
<1>7. PICK s : s = [of |-> src[sv[u].fd], pos |-> sv[u].off]
  OBVIOUS
<1>8. PICK x : x = [of |-> src[sv[u].fd], pos |-> sv[u].off + Len(d)]
  OBVIOUS
<1>9. /\ d \in Seq(Byte) /\ Len(d) \in Nat
      /\ sv[u].off + Len(d) <= Len(ino[sv[u].fd])
      /\ Piece(s, d, x)
  BY <1>1, <1>2, <1>5, <1>6, <1>7, <1>8, ReadsPiece, Known
<1>10. x \in Spot /\ s \in Spot /\ s.of # 0
  <2>1. src[sv[u].fd] \in DOMAIN Initial
    BY <1>1, <1>5 DEF Origins
  <2>2. sv[u].off + Len(d) \in Nat
    BY <1>5, <1>9
  <2>3. QED
    BY <1>5, <1>7, <1>8, <2>1, <2>2, DataType DEF Spot
<1>11. m \in msg_head_ctrl_t /\ m.command \in {"END_FILE", "GET"} /\ m.data = d
  BY <1>3, <1>6, <1>9, FileFrameType DEF command_type_t
<1>12. \/ sv'[u].pc = "select"
       \/ /\ sv'[u].pc = "get" /\ sv'[u].fd = sv[u].fd /\ sv'[u].cmd = "GET"
          /\ sv'[u].off = sv[u].off + Len(d)
  <2>1. CASE LastBlock(Len(d))
    BY <1>4, <2>1, Known DEF ServType, Select, At
  <2>2. CASE ~LastBlock(Len(d))
    <3>1. sv'[u] = [sv[u] EXCEPT !.off = sv[u].off + Len(d)]
      BY <1>4, <2>2, Known DEF ServType
    <3>2. QED
      BY <1>4, <1>5, <1>6, <3>1 DEF Proc
  <2>3. QED
    BY <2>1, <2>2
<1>13. UpTrace(u, src)'
  <2>1. UpTrace(u, src)
    BY <1>1 DEF Traced
  <2>2. QED
    BY <1>4, <1>12, <2>1, KeptSame, UpRests
<1>14. cl'[u].pc = "get" => GetTrace(u, src)'
  <2>1. SUFFICES ASSUME cl[u].pc = "get" PROVE GetTrace(u, src)'
    BY <1>4
  <2>2. up[u] = << >> /\ Answering(u, src)
    BY <1>1, <1>4, <2>1, GetOnly
  <2>3. PICK r \in Spot, t \in Spot :
          /\ Run(down[u], r, t, Spot, DownWay)
          /\ IF cl[u].fd = NoInode THEN r.pos = 0 ELSE r = Stored(src, cl[u].fd)
          /\ t = Fetched(src, sv[u])
    BY <1>4, <2>2 DEF Answering
  <2>4. t = s
    BY <1>7, <2>3 DEF Fetched
  <2>5. <<s, m, x>> \in DownWay
    <3>1. DownLeads(s, m, x)
      BY <1>9, <1>10, <1>11 DEF DownLeads
    <3>2. QED
      BY <1>10, <1>11, <3>1, InWay
  <2>6. Run(down'[u], r, x, Spot, DownWay)
    <3>1. down'[u] = Append(down[u], m)
      BY <1>4, Known DEF DownType
    <3>2. QED
      BY <1>5, <1>10, <1>11, <2>3, <2>4, <2>5, <3>1, RunAppend
  <2>7. sv'[u].pc = "get" => x = Fetched(src, sv'[u])
    BY <1>8, <1>12 DEF Fetched
  <2>8. IF cl'[u].fd = NoInode THEN r.pos = 0 ELSE r = Stored(src, cl[u].fd)'
    BY <1>4, <2>3 DEF Stored
  <2>9. Answering(u, src)'
    BY <1>4, <1>10, <2>6, <2>7, <2>8 DEF Answering
  <2>10. QED
    BY <1>4, <1>12, <2>2, <2>9 DEF GetTrace
<1>15. Traced(u, src)'
  BY <1>13, <1>14 DEF Traced
<1>16. Tidy(u)'
  <2>1. cl[u].pc # "send"
    BY <1>4, MixKnown DEF Tidy, Quiet
  <2>2. QED
    BY <1>4, <1>9, <1>12, <2>1, MixKnown DEF Tidy
<1>17. Alone(u)
  BY StepAlone DEF ServStep
<1>18. QED
  BY <1>1, <1>4, <1>15, <1>16, <1>17, MixKnown, SameInodes

-----------------------------------------------------------------------------
LEMMA MixInit ==
  ASSUME SharedInit
  PROVE  MixInv
<1>1. /\ ino = [i \in DOMAIN Initial |-> Initial[i][3]]
      /\ \A u \in Users : /\ up[u] = << >> /\ cl[u] = Main /\ sv[u] = Select
  BY DEF SharedInit
<1>2. /\ Main.pc = "main" /\ Select.pc = "select"
  BY DEF Main, Select, At
<1>3. /\ Len(Initial) \in Nat /\ DOMAIN Initial = 1 .. Len(Initial)
      /\ \A i \in DOMAIN Initial : Initial[i][3] \in Seq(Byte)
  BY InitialAssumption
<1>4. Len(ino) = Len(Initial) /\ \A i \in 1 .. Len(ino) : ino[i] = Data(i)
  BY <1>1, <1>3 DEF Data
<1>5. PICK src : src = [i \in 1 .. Len(ino) |-> i]
  OBVIOUS
<1>6. Origins(src)
  <2>1. src \in [1 .. Len(ino) -> DOMAIN Initial]
    BY <1>3, <1>4, <1>5
  <2>2. ASSUME NEW i \in 1 .. Len(ino)
        PROVE  /\ Len(ino[i]) <= Len(Data(src[i]))
               /\ ino[i] = Slice(Data(src[i]), 0, Len(ino[i]))
    <3>1. src[i] = i /\ ino[i] = Data(i) /\ i \in DOMAIN Initial
      BY <1>3, <1>4, <1>5
    <3>2. Data(i) \in Seq(Byte) /\ Len(Data(i)) \in Nat
      BY <3>1, DataType
    <3>3. QED
      BY <3>1, <3>2, SliceAll
  <2>3. QED
    BY <2>1, <2>2 DEF Origins
<1>7. ASSUME NEW u \in Users PROVE Tidy(u) /\ Traced(u, src)
  <2>1. Run(up[u], Between, Between, Spot, UpWay)
    BY <1>1, RunEmpty, SpotType
  <2>2. ChildSpot(u, src, Between) /\ ClientSpot(u, src, Between)
    BY <1>1, <1>2, SpotType DEF ChildSpot, ClientSpot
  <2>3. UpTrace(u, src)
    BY <2>1, <2>2, SpotType DEF UpTrace
  <2>4. QED
    BY <1>1, <1>2, <2>3 DEF Traced, Tidy
<1>8. QED
  BY <1>6, <1>7 DEF MixInv

LEMMA MixStep ==
  ASSUME SharedInv, SharedInv', MixInv, Spelled \cap Names = {}, [SharedNext]_svars
  PROVE  MixInv'
<1>1. ASSUME NEW u \in Users, ClientStep(u) PROVE MixInv'
  BY <1>1, MixRequest, MixPut, MixAck, MixGetFails, MixGetCreates, MixGets
     DEF ClientStep
<1>2. ASSUME NEW u \in Users, ServStep(u) PROVE MixInv'
  BY <1>2, MixChildRequest, MixChildAsked, MixChildAnswer, MixPutCreates,
     MixPutRefused, MixChildPut, MixGetOpens, MixChildGet DEF ServStep
<1>3. CASE UNCHANGED svars
  <2>1. /\ ino' = ino /\ dir' = dir /\ up' = up /\ down' = down /\ cl' = cl
        /\ sv' = sv
    BY <1>3 DEF svars, files
  <2>2. \A u \in Users : Tidy(u)'
    BY <2>1, MixKnown DEF Tidy, Quiet
  <2>3. PICK src : Origins(src) /\ \A u \in Users : Traced(u, src)
    BY MixKnown
  <2>4. Origins(src)'
    BY <2>1, <2>3 DEF Origins
  <2>5. \A u \in Users : UpTrace(u, src)'
    BY <2>1, <2>3 DEF Traced, UpTrace, ChildSpot, ClientSpot, Stored, Fetched
  <2>6. \A u \in Users : cl'[u].pc = "get" => GetTrace(u, src)'
    BY <2>1, <2>3 DEF Traced, GetTrace, Unanswered, Answering, Stored, Fetched
  <2>7. QED
    BY <2>2, <2>4, <2>5, <2>6 DEF MixInv, Traced
<1>4. CASE SharedNext
  BY <1>1, <1>2, <1>4, MixInput DEF SharedNext
<1>5. QED
  BY <1>3, <1>4

\* Every inode has an origin, and the frames on their way lead on from what
\* is stored of it, in every state, as long as handle_put finds no file name in
\* a block.
THEOREM OriginsKept ==
  ASSUME Spelled \cap Names = {}
  PROVE  SharedSpec => []MixInv
<1>1. SharedInv /\ SharedInv' /\ MixInv /\ [SharedNext]_svars => MixInv'
  BY MixStep
<1>2. QED
  BY <1>1, MixInit, SharedInvariance, PTL DEF SharedSpec

\* At any moment every file holds the beginning of one file of the start, for
\* any number of sessions and any files: also one that is fetched while it is
\* still uploaded, and one whose name is removed and taken anew within a
\* transfer. What handle_put and get_file_from_server write is never the end
\* of one file behind the beginning of another. This is so as long as no block
\* reads as the name of a file: the rest of a refused upload would go there.
THEOREM NeverMixedEver ==
  ASSUME Spelled \cap Names = {}
  PROVE  SharedSpec => []NeverMixed
<1>1. SharedInv /\ MixInv => NeverMixed
  <2>1. SUFFICES ASSUME SharedInv, MixInv, NEW i \in DOMAIN ino
                 PROVE  \E j \in DOMAIN Initial : \E n \in 0 .. Len(Initial[j][3]) :
                          ino[i] = SubSeq(Initial[j][3], 1, n)
    BY DEF NeverMixed
  <2>2. PICK src : Origins(src)
    BY <2>1, MixKnown
  <2>3. ino \in Seq(Seq(Byte)) /\ i \in 1 .. Len(ino)
    BY <2>1, Known DEF FilesType
  <2>4. PICK j, n : j \in DOMAIN Initial /\ j = src[i] /\ n = Len(ino[i])
    BY <2>2, <2>3 DEF Origins
  <2>5. n \in Nat /\ Len(Data(j)) \in Nat
    BY <2>3, <2>4, InodeType, DataType
  <2>6. n <= Len(Data(j)) /\ ino[i] = Slice(Data(j), 0, n)
    BY <2>2, <2>3, <2>4 DEF Origins
  <2>7. 0 + 1 = 1
    OBVIOUS
  <2>8. QED
    BY <2>4, <2>5, <2>6, <2>7 DEF Data, Slice
<1>2. SharedSpec => []MixInv
  BY OriginsKept
<1>3. QED
  BY <1>1, <1>2, SharedInvariance, PTL

-----------------------------------------------------------------------------
(***************************************************************************)
(* Whole uploads. When every user has a directory of his own, nobody else  *)
(* touches the file a user uploads, and he is busy until the upload is     *)
(* done; so the child stores it as it is. The frames of a session then     *)
(* lead from place to place of the files in the user's directory.          *)
(***************************************************************************)
Apart == \A u, v \in Users : Home[u] = Home[v] => u = v

HomeFiles(u) == [n \in {m \in Names : ~Missing(<<Home[u], m>>)} |->
                   ino[dir[<<Home[u], n>>]]]

\* A place in a file of a directory, or between two requests.
Room == [of : Names \cup {EmptyName}, pos : Nat]
Idle == [of |-> EmptyName, pos |-> 0]

\* How a frame leads on in the files F: a put to the start of its file, a
\* block by its bytes, and the last one to the file's end and out of it.
FileLeads(F, s, m, t) ==
  \/ /\ s.of = EmptyName /\ ~IsBlock(m)
     /\ IF m.command = "PUT" THEN m.name \in DOMAIN F /\ t.of = m.name /\ t.pos = 0
                             ELSE t.of = EmptyName
  \/ /\ s.of \in DOMAIN F /\ IsBlock(m)
     /\ \E q \in Nat :
          /\ s.pos <= q /\ q <= Len(F[s.of])
          /\ m.data = Slice(F[s.of], s.pos, q)
          /\ IF Ends(m) THEN q = Len(F[s.of]) /\ t.of = EmptyName
                        ELSE t = [of |-> s.of, pos |-> q]
FileWay(F) == {x \in Room \X msg_head_ctrl_t \X Room : FileLeads(F, x[1], x[2], x[3])}

\* Where the child is in the file it stores, and the client in the one it reads.
ChildRoom(u, F, s) ==
  sv[u].pc = "put" /\ sv[u].name \in Names =>
    /\ s.of = sv[u].name /\ s.of \in DOMAIN F
    /\ IF sv[u].fd = NoInode THEN s.pos = 0
       ELSE s.pos <= Len(F[s.of]) /\ ino[sv[u].fd] = Slice(F[s.of], 0, s.pos)
ClientRoom(u, F, t) ==
  IF cl[u].pc # "put" THEN t.of = EmptyName
  ELSE /\ t = [of |-> cl[u].name, pos |-> cl[u].off]
       /\ t.of \in DOMAIN F /\ t.pos <= Len(F[t.of])
       /\ cl[u].fd = dir[Mine(u)]

FileTrace(u, F) ==
  \E s, t \in Room : /\ Run(up[u], s, t, Room, FileWay(F))
                     /\ ChildRoom(u, F, s) /\ ClientRoom(u, F, t)
Whole(u) ==
  /\ cl[u].pc = "send" /\ cl[u].cmd = "PUT" => ~Missing(Mine(u))
  /\ FileTrace(u, HomeFiles(u))

\* An inode has one name, and what a process writes has the name it was
\* created under, or none.
Links ==
  /\ \A p, q \in Places \X Names : dir[p] # NoInode /\ dir[p] = dir[q] => p = q
  /\ \A u \in Users, p \in Places \X Names :
       dir[p] # NoInode => /\ ServWrites(u) = dir[p] => p[1] = ServDir
                           /\ ClientWrites(u) = dir[p] => p = Mine(u)

WholeInv == Links /\ \A u \in Users : Whole(u)

-----------------------------------------------------------------------------
\* What a step of one session does to the files: the child works in the
\* directory of the server, the client touches its own file while it gets it.
ServFiles(u) ==
  \/ UNCHANGED files
  \/ \E n : Remove(<<ServDir, n>>) \/ Create(<<ServDir, n>>)
  \/ ServWrites(u) # NoInode /\ \E d : Write(ServWrites(u), d)
ClientFiles(u) ==
  /\ cl[u].pc \in {"get", "unlink"} /\ cl[u].name \in Names
  /\ \/ Remove(Mine(u)) \/ Create(Mine(u))
     \/ ClientWrites(u) # NoInode /\ \E d : Write(ClientWrites(u), d)

\* What it does to the descriptors open for writing.
ServDescriptor(u) ==
  \/ ServWrites(u)' \in {ServWrites(u), NoInode}
  \/ Create(Named(u)) /\ Named(u) \in Places \X Names /\ ServWrites(u)' = NewInode
ClientDescriptor(u) ==
  \/ ClientWrites(u)' = NoInode
  \/ ClientWrites(u)' = ClientWrites(u) /\ Mine(u)' = Mine(u)
  \/ /\ Create(Mine(u)) /\ Mine(u) \in Places \X Names /\ Mine(u)' = Mine(u)
     /\ ClientWrites(u)' = NewInode

LEMMA InputFiles ==
  ASSUME SharedInv, NEW u \in Users,
         NEW c \in {"PUT", "GET", "RM"}, NEW n \in Names, handle_user_input(u, c, n)
  PROVE  UNCHANGED files /\ ServDescriptor(u) /\ ClientDescriptor(u)
<1>1. UNCHANGED files /\ sv' = sv /\ cl' = [cl EXCEPT ![u] = At("send", c, n)]
  BY DEF handle_user_input
<1>2. cl'[u].pc = "send"
  BY <1>1, Known DEF ClientType, At
<1>3. QED
  BY <1>1, <1>2 DEF ServDescriptor, ClientDescriptor, ServWrites, ClientWrites

LEMMA ClientStepFiles ==
  ASSUME SharedInv, NEW u \in Users, ClientStep(u)
  PROVE  /\ UNCHANGED files \/ ClientFiles(u)
         /\ ServDescriptor(u) /\ ClientDescriptor(u)
<1>1. cl[u] \in Proc(ClientPc, Len(ino)) /\ Len(ino) \in Nat
  BY Session
<1>2. cl[u].pc # "main" => cl[u].name \in Names /\ Mine(u) \in Places \X Names
  BY Known DEF ClientNames, Mine, Places
<1>3. sv' = sv
  BY DEF ClientStep, send_command_to_server, put_file_to_server,
         handle_server_ack, get_fails, get_unlinks, get_creates,
         get_file_from_server
<1>4. ServDescriptor(u)
  BY <1>3 DEF ServDescriptor, ServWrites
<1>5. CASE send_command_to_server(u)
  <2>1. UNCHANGED files /\ cl[u].pc = "send" /\ cl[u].fd = NoInode
    BY <1>5, Known DEF send_command_to_server, ClientNames
  <2>2. cl'[u] = CASE cl[u].cmd = "PUT" -> [cl[u] EXCEPT !.pc = "put", !.fd = dir[Mine(u)]]
                   [] cl[u].cmd = "GET" -> [cl[u] EXCEPT !.pc = "get"]
                   [] OTHER             -> Main
    BY <1>5, Known DEF send_command_to_server, ClientType
  <2>3. ClientWrites(u)' = NoInode
    <3>1. CASE cl[u].cmd = "PUT"
      <4>1. cl'[u].pc = "put"
        BY <1>1, <2>2, <3>1 DEF Proc
      <4>2. QED
        BY <4>1 DEF ClientWrites
    <3>2. CASE cl[u].cmd # "PUT" /\ cl[u].cmd = "GET"
      <4>1. cl'[u].fd = NoInode
        BY <1>1, <2>1, <2>2, <3>2 DEF Proc
      <4>2. QED
        BY <4>1 DEF ClientWrites
    <3>3. CASE cl[u].cmd # "PUT" /\ cl[u].cmd # "GET"
      <4>1. cl'[u].pc = "main"
        BY <1>1, <2>2, <3>3, MainType
      <4>2. QED
        BY <4>1 DEF ClientWrites
    <3>4. QED
      BY <3>1, <3>2, <3>3
  <2>4. QED
    BY <1>4, <2>1, <2>3 DEF ClientDescriptor
<1>6. CASE put_file_to_server(u)
  <2>1. UNCHANGED files /\ cl[u].pc = "put"
    BY <1>6 DEF put_file_to_server
  <2>2. cl'[u].pc \in {"put", "main"}
    <3>1. PICK m : cl' = [cl EXCEPT ![u] = IF Ends(m) THEN Main
                                           ELSE [cl[u] EXCEPT !.off = @ + Len(m.data)]]
      BY <1>6 DEF put_file_to_server
    <3>2. cl'[u] = Main \/ cl'[u] = [cl[u] EXCEPT !.off = @ + Len(m.data)]
      BY <3>1, Known DEF ClientType
    <3>3. [cl[u] EXCEPT !.off = @ + Len(m.data)].pc = "put"
      BY <1>1, <2>1 DEF Proc
    <3>4. QED
      BY <1>1, <3>2, <3>3, MainType
  <2>3. QED
    BY <1>4, <2>1, <2>2 DEF ClientDescriptor, ClientWrites
<1>7. CASE handle_server_ack(u)
  BY <1>4, <1>7 DEF handle_server_ack, ClientDescriptor, ClientWrites
<1>8. CASE get_fails(u)
  <2>1. UNCHANGED files
    BY <1>8 DEF get_fails
  <2>2. cl'[u] = [cl[u] EXCEPT !.pc = "unlink"]
    BY <1>8, Known DEF get_fails, ClientType
  <2>3. cl'[u].pc = "unlink"
    BY <1>1, <2>2 DEF Proc
  <2>4. QED
    BY <1>4, <2>1, <2>3 DEF ClientDescriptor, ClientWrites
<1>9. CASE get_creates(u)
  <2>1. Create(Mine(u)) /\ Answered(u) /\ cl[u].pc = "get"
    BY <1>9 DEF get_creates, Answered
  <2>2. cl'[u] = [cl[u] EXCEPT !.fd = NewInode]
    BY <1>9, Known DEF get_creates, ClientType
  <2>3. cl'[u].pc = "get" /\ cl'[u].fd = NewInode /\ cl'[u].name = cl[u].name
    BY <1>1, <2>1, <2>2 DEF Proc
  <2>4. ClientWrites(u)' = NewInode /\ Mine(u)' = Mine(u)
    BY <2>3 DEF ClientWrites, Mine
  <2>5. QED
    BY <1>2, <1>4, <2>1, <2>4 DEF ClientFiles, ClientDescriptor
<1>10. CASE get_file_from_server(u)
  <2>1. /\ Answered(u) /\ cl[u].pc = "get" /\ cl[u].fd # NoInode
        /\ Write(cl[u].fd, Head(down[u]).data)
    BY <1>10 DEF get_file_from_server, Answered
  <2>2. cl'[u] = Main \/ cl'[u] = cl[u]
    BY <1>10, Known DEF get_file_from_server, ClientType
  <2>3. ClientDescriptor(u)
    BY <1>1, <2>2, MainType DEF ClientDescriptor, ClientWrites, Mine
  <2>4. QED
    BY <1>2, <1>4, <2>1, <2>3 DEF ClientFiles, ClientWrites
<1>11. CASE get_unlinks(u)
  <2>1. Remove(Mine(u)) /\ cl[u].pc = "unlink"
    BY <1>11 DEF get_unlinks
  <2>2. cl'[u].pc = "main"
    BY <1>11, Known, MainType DEF get_unlinks, ClientType
  <2>3. QED
    BY <1>2, <1>4, <2>1, <2>2 DEF ClientFiles, ClientDescriptor, ClientWrites
<1>12. QED
  BY <1>5, <1>6, <1>7, <1>8, <1>9, <1>10, <1>11 DEF ClientStep

LEMMA ServStepFiles ==
  ASSUME SharedInv, NEW u \in Users, ServStep(u)
  PROVE  ServFiles(u) /\ ServDescriptor(u) /\ ClientDescriptor(u)
<1>1. sv[u] \in Proc(ServPc, Len(ino)) /\ Len(ino) \in Nat
  BY Session
<1>2. cl' = cl
  BY DEF ServStep, handle_request_put, handle_request_default,
         handle_request_get, handle_request_rm, handle_answer,
         handle_put_creates, handle_put_refused, handle_put, handle_get_opens,
         handle_get, Requested
<1>3. ClientDescriptor(u)
  BY <1>2 DEF ClientDescriptor, ClientWrites, Mine
<1>4. CASE handle_request_put(u) \/ handle_request_default(u)
  <2>1. UNCHANGED files /\ sv[u].pc = "select"
    BY <1>4 DEF handle_request_put, handle_request_default, Requested
  <2>2. sv'[u] = sv[u] \/ \E n : sv'[u] = At("put", "PUT", n)
    BY <1>4, Known DEF handle_request_put, handle_request_default, ServType
  <2>3. ServWrites(u)' = NoInode
    <3>1. \A n : At("put", "PUT", n).fd = NoInode
      BY DEF At
    <3>2. QED
      BY <2>1, <2>2, <3>1 DEF ServWrites
  <2>4. QED
    BY <1>3, <2>1, <2>3 DEF ServFiles, ServDescriptor
<1>5. CASE handle_request_get(u) \/ handle_request_rm(u)
  <2>1. ServFiles(u)
    BY <1>5 DEF handle_request_get, handle_request_rm, ServFiles
  <2>2. sv'[u].pc # "put"
    BY <1>5, Known DEF handle_request_get, handle_request_rm, ServType, At
  <2>3. QED
    BY <1>3, <2>1, <2>2 DEF ServDescriptor, ServWrites
<1>6. CASE handle_answer(u)
  <2>1. UNCHANGED files /\ sv'[u] = Select
    BY <1>6, Known DEF handle_answer, ServType
  <2>2. QED
    BY <1>1, <1>3, <2>1, MainType DEF ServFiles, ServDescriptor, ServWrites
<1>7. CASE handle_put_creates(u)
  <2>1. Create(Named(u)) /\ sv[u].name \in Names /\ sv[u].pc = "put"
    BY <1>7 DEF handle_put_creates, Uploading
  <2>2. Named(u) \in Places \X Names
    BY <2>1 DEF Named, Places
  <2>3. dir'[Named(u)] = NewInode
    BY <2>1, <2>2, CreateFiles, Known
  <2>4. sv'[u] = [sv[u] EXCEPT !.fd = NewInode]
    BY <1>7, <2>3, Known DEF handle_put_creates, ServType
  <2>5. sv'[u].pc = "put" /\ sv'[u].fd = NewInode
    BY <1>1, <2>1, <2>4 DEF Proc
  <2>6. ServWrites(u)' = NewInode
    BY <2>5 DEF ServWrites
  <2>7. QED
    BY <1>3, <2>1, <2>2, <2>6 DEF ServFiles, ServDescriptor, Named
<1>8. CASE handle_put_refused(u)
  <2>1. UNCHANGED files /\ sv'[u] = Select
    BY <1>8, Known DEF handle_put_refused, ServType
  <2>2. QED
    BY <1>1, <1>3, <2>1, MainType DEF ServFiles, ServDescriptor, ServWrites
<1>9. CASE handle_put(u)
  <2>1. /\ sv[u].pc = "put" /\ sv[u].fd # NoInode
        /\ Write(sv[u].fd, Head(up[u]).data)
    BY <1>9 DEF handle_put, Uploading
  <2>2. sv'[u] = Select \/ sv'[u] = sv[u]
    BY <1>9, Known DEF handle_put, ServType
  <2>3. QED
    BY <1>1, <1>3, <2>1, <2>2, MainType DEF ServFiles, ServDescriptor, ServWrites
<1>10. CASE handle_get_opens(u)
  <2>1. UNCHANGED files /\ sv[u].pc = "open"
    BY <1>10 DEF handle_get_opens
  <2>2. \/ sv'[u] = Select
        \/ sv'[u] = [sv[u] EXCEPT !.pc = "get", !.fd = dir[Named(u)]]
    BY <1>10, Known DEF handle_get_opens, ServType
  <2>3. sv'[u].pc # "put"
    BY <1>1, <2>2, MainType DEF Proc
  <2>4. QED
    BY <1>3, <2>1, <2>3 DEF ServFiles, ServDescriptor, ServWrites
<1>11. CASE handle_get(u)
  <2>1. UNCHANGED files /\ sv[u].pc = "get"
    BY <1>11 DEF handle_get
  <2>2. PICK k : sv'[u] = Select \/ sv'[u] = [sv[u] EXCEPT !.off = @ + k]
    BY <1>11, Known DEF handle_get, ServType
  <2>3. sv'[u].pc # "put"
    BY <1>1, <2>1, <2>2, MainType DEF Proc
  <2>4. QED
    BY <1>3, <2>1, <2>3 DEF ServFiles, ServDescriptor, ServWrites
<1>13. QED
  BY <1>4, <1>5, <1>6, <1>7, <1>8, <1>9, <1>10, <1>11 DEF ServStep


-----------------------------------------------------------------------------
\* The directory of a user is touched only by the steps of his own gets.
HomeSame(v) ==
  \A n \in Names :
    LET p == <<Home[v], n>>
    IN  dir'[p] = dir[p] /\ (dir[p] # NoInode => ino'[dir[p]] = ino[dir[p]])

LEMMA HomeFilesSame ==
  ASSUME NEW v \in Users, HomeSame(v)
  PROVE  HomeFiles(v)' = HomeFiles(v)
<1>1. \A n \in Names : Missing(<<Home[v], n>>)' <=> Missing(<<Home[v], n>>)
  BY DEF HomeSame, Missing
<1>2. PICK N, M : /\ N = {m \in Names : ~Missing(<<Home[v], m>>)}
                  /\ M = {m \in Names : ~Missing(<<Home[v], m>>)'}
  OBVIOUS
<1>3. M = N
  BY <1>1, <1>2
<1>4. \A n \in N : ino'[dir'[<<Home[v], n>>]] = ino[dir[<<Home[v], n>>]]
  BY <1>2 DEF HomeSame, Missing
<1>5. HomeFiles(v) = [n \in N |-> ino[dir[<<Home[v], n>>]]]
  BY <1>2 DEF HomeFiles
<1>6. HomeFiles(v)' = [n \in M |-> ino'[dir'[<<Home[v], n>>]]]
  BY <1>2 DEF HomeFiles
<1>7. QED
  BY <1>3, <1>4, <1>5, <1>6

\* What a call of the file system leaves as it was.
LEMMA CallKeeps ==
  ASSUME FilesType, NEW q \in Places \X Names
  PROVE  /\ dir[q] \in 0 .. Len(ino) /\ Len(ino) \in Nat
         /\ \A p : Remove(p) /\ p # q => dir'[q] = dir[q] /\ ino' = ino
         /\ \A p : Remove(p) => dir'[q] \in {dir[q], NoInode}
         /\ \A p : Create(p) /\ p # q =>
              dir'[q] = dir[q] /\ (dir[q] # NoInode => ino'[dir[q]] = ino[dir[q]])
         /\ \A p : Create(p) => IF p = q THEN dir'[q] = NewInode ELSE dir'[q] = dir[q]
         /\ \A i, d : Write(i, d) =>
              dir'[q] = dir[q] /\ (dir[q] # NoInode /\ dir[q] # i =>
                                     ino'[dir[q]] = ino[dir[q]])
<1>1. /\ dir[q] \in 0 .. Len(ino) /\ Len(ino) \in Nat /\ ino \in Seq(Seq(Byte))
      /\ DOMAIN dir = Places \X Names
  BY DEF FilesType
<1>2. \A p, i : [dir EXCEPT ![p] = i][q] = IF p = q THEN i ELSE dir[q]
  BY <1>1
<1>3. dir[q] # NoInode => dir[q] \in 1 .. Len(ino)
  BY <1>1 DEF NoInode
<1>4. \A i \in 1 .. Len(ino) : Append(ino, << >>)[i] = ino[i]
  BY <1>1
<1>5. \A i, x : \A k \in 1 .. Len(ino) : k # i => [ino EXCEPT ![i] = x][k] = ino[k]
  BY <1>1
<1>6. \A i, d : Write(i, d) => ino' = [ino EXCEPT ![i] = ino[i] \o d] /\ dir' = dir
  BY DEF Write
<1>7. QED
  BY <1>1, <1>2, <1>3, <1>4, <1>5, <1>6 DEF Remove, Create, NewInode

LEMMA ServLeavesHome ==
  ASSUME SharedInv, Links, NEW u \in Users, ServFiles(u), NEW v \in Users
  PROVE  HomeSame(v)
<1>1. SUFFICES ASSUME NEW n \in Names, NEW p, p = <<Home[v], n>>
               PROVE  dir'[p] = dir[p] /\ (dir[p] # NoInode => ino'[dir[p]] = ino[dir[p]])
  BY DEF HomeSame
<1>2. p \in Places \X Names /\ \A k : p # <<ServDir, k>>
  BY <1>1, SharedAssumption DEF Places
<1>3. FilesType
  BY Known
<1>4. CASE UNCHANGED files
  BY <1>4 DEF files
<1>5. ASSUME NEW k, Remove(<<ServDir, k>>) \/ Create(<<ServDir, k>>)
      PROVE  dir'[p] = dir[p] /\ (dir[p] # NoInode => ino'[dir[p]] = ino[dir[p]])
  BY <1>2, <1>3, <1>5, CallKeeps
<1>6. ASSUME NEW d, ServWrites(u) # NoInode, Write(ServWrites(u), d)
      PROVE  dir'[p] = dir[p] /\ (dir[p] # NoInode => ino'[dir[p]] = ino[dir[p]])
  <2>1. dir[p] # NoInode => dir[p] # ServWrites(u)
    BY <1>1, <1>2, SharedAssumption DEF Links
  <2>2. QED
    BY <1>2, <1>3, <1>6, <2>1, CallKeeps
<1>7. QED
  BY <1>4, <1>5, <1>6 DEF ServFiles

LEMMA ClientLeavesHome ==
  ASSUME Apart, SharedInv, Links, NEW u \in Users, ClientFiles(u),
         NEW v \in Users \ {u}
  PROVE  HomeSame(v)
<1>1. SUFFICES ASSUME NEW n \in Names, NEW p, p = <<Home[v], n>>
               PROVE  dir'[p] = dir[p] /\ (dir[p] # NoInode => ino'[dir[p]] = ino[dir[p]])
  BY DEF HomeSame
<1>2. p \in Places \X Names /\ p # Mine(u)
  BY <1>1 DEF Places, Mine, Apart
<1>3. FilesType
  BY Known
<1>4. CASE Remove(Mine(u)) \/ Create(Mine(u))
  BY <1>2, <1>3, <1>4, CallKeeps
<1>5. ASSUME NEW d, ClientWrites(u) # NoInode, Write(ClientWrites(u), d)
      PROVE  dir'[p] = dir[p] /\ (dir[p] # NoInode => ino'[dir[p]] = ino[dir[p]])
  <2>1. dir[p] # NoInode => dir[p] # ClientWrites(u)
    BY <1>2 DEF Links
  <2>2. QED
    BY <1>2, <1>3, <1>5, <2>1, CallKeeps
<1>6. QED
  BY <1>4, <1>5 DEF ClientFiles

-----------------------------------------------------------------------------
\* The names of a step's files after it.
DirStep(u) ==
  \/ dir' = dir
  \/ \E p : Remove(p)
  \/ \E p : Create(p)

LEMMA FilesStep ==
  ASSUME NEW u \in Users, UNCHANGED files \/ ServFiles(u) \/ ClientFiles(u)
  PROVE  DirStep(u)
BY DEF DirStep, ServFiles, ClientFiles, files, Write

\* Names go away, or a new one stands for a new inode.
LEMMA NamesStep ==
  ASSUME FilesType, NEW u \in Users, DirStep(u), NEW q \in Places \X Names
  PROVE  \/ dir'[q] \in {dir[q], NoInode}
         \/ Create(q) /\ dir'[q] = NewInode
<1>1. \A p : Remove(p) => dir'[q] \in {dir[q], NoInode}
  BY CallKeeps
<1>2. \A p : Create(p) => IF p = q THEN dir'[q] = NewInode ELSE dir'[q] = dir[q]
  BY CallKeeps
<1>3. QED
  BY <1>1, <1>2 DEF DirStep

LEMMA OneNew ==
  ASSUME FilesType, NEW p \in Places \X Names, NEW q \in Places \X Names,
         Create(p), Create(q)
  PROVE  p = q
<1>1. dir'[q] = NewInode /\ (p # q => dir'[q] = dir[q])
  BY CallKeeps
<1>2. dir[q] \in 0 .. Len(ino) /\ Len(ino) \in Nat
  BY CallKeeps
<1>3. QED
  BY <1>1, <1>2 DEF NewInode

LEMMA LinksStep ==
  ASSUME SharedInv, Links, NEW u \in Users, Alone(u),
         UNCHANGED files \/ ServFiles(u) \/ ClientFiles(u),
         ServDescriptor(u), ClientDescriptor(u)
  PROVE  Links'
<1>1. FilesType /\ DirStep(u)
  BY Known, FilesStep
<1>2. ASSUME NEW q \in Places \X Names
      PROVE  /\ dir[q] \in 0 .. Len(ino) /\ Len(ino) \in Nat
             /\ \/ dir'[q] \in {dir[q], NoInode}
                \/ Create(q) /\ dir'[q] = NewInode
  BY <1>1, NamesStep, CallKeeps
<1>3. ASSUME NEW p \in Places \X Names, NEW q \in Places \X Names,
             dir'[p] # NoInode, dir'[p] = dir'[q]
      PROVE  p = q
  <2>1. /\ dir[p] \in 0 .. Len(ino) /\ dir[q] \in 0 .. Len(ino) /\ Len(ino) \in Nat
    BY <1>2
  <2>2. CASE dir'[p] = dir[p] /\ dir'[q] = dir[q]
    BY <1>3, <2>2 DEF Links
  <2>3. CASE Create(p) /\ Create(q)
    BY <1>1, <2>3, OneNew
  <2>4. ~(dir'[p] = dir[p] /\ dir'[q] = NewInode)
    BY <1>3, <2>1 DEF NewInode
  <2>5. ~(dir'[q] = dir[q] /\ dir'[p] = NewInode)
    BY <1>3, <2>1 DEF NewInode
  <2>6. QED
    BY <1>2, <1>3, <2>2, <2>3, <2>4, <2>5
<1>4. ASSUME NEW v \in Users
      PROVE  ServDescriptor(v) /\ ClientDescriptor(v)
  <2>1. CASE v = u
    BY <2>1
  <2>2. CASE v # u
    <3>1. cl'[v] = cl[v] /\ sv'[v] = sv[v]
      BY <2>2 DEF Alone
    <3>2. QED
      BY <3>1 DEF ServDescriptor, ClientDescriptor, ServWrites, ClientWrites, Mine
  <2>3. QED
    BY <2>1, <2>2
<1>5. ASSUME NEW v \in Users, NEW q \in Places \X Names, dir'[q] # NoInode
      PROVE  /\ ServWrites(v)' = dir'[q] => q[1] = ServDir
             /\ ClientWrites(v)' = dir'[q] => q = Mine(v)'
  <2>1. /\ ServWrites(v) \in 0 .. Len(ino) /\ ClientWrites(v) \in 0 .. Len(ino)
        /\ dir[q] \in 0 .. Len(ino) /\ Len(ino) \in Nat
    BY <1>2, WritesType DEF SharedInv
  <2>2. CASE dir'[q] = dir[q]
    <3>1. /\ ServWrites(v) = dir[q] => q[1] = ServDir
          /\ ClientWrites(v) = dir[q] => q = Mine(v)
      BY <1>5, <2>2 DEF Links
    <3>2. dir'[q] # NewInode
      BY <2>1, <2>2 DEF NewInode
    <3>3. QED
      BY <1>4, <1>5, <2>2, <3>1, <3>2 DEF ServDescriptor, ClientDescriptor
  <2>3. CASE Create(q) /\ dir'[q] = NewInode
    <3>1. ServWrites(v) # NewInode /\ ClientWrites(v) # NewInode
      BY <2>1 DEF NewInode
    <3>2. \A p \in Places \X Names : Create(p) => p = q
      BY <1>1, <2>3, OneNew
    <3>3. ServWrites(v)' = NewInode => Named(v) = q
      BY <1>4, <2>3, <1>5, <3>1, <3>2 DEF ServDescriptor
    <3>4. ClientWrites(v)' = NewInode => Mine(v) = q /\ Mine(v)' = Mine(v)
      BY <1>4, <2>3, <1>5, <3>1, <3>2 DEF ClientDescriptor
    <3>5. QED
      BY <2>3, <3>3, <3>4 DEF Named
  <2>4. QED
    BY <1>2, <1>5, <2>2, <2>3
<1>6. QED
  BY <1>3, <1>5 DEF Links


-----------------------------------------------------------------------------
\* Of the inodes, a step changes what its session writes.
LEMMA InodesStep ==
  ASSUME SharedInv, NEW u \in Users,
         UNCHANGED files \/ ServFiles(u) \/ ClientFiles(u),
         NEW i \in 1 .. Len(ino), i \notin {ServWrites(u), ClientWrites(u)}
  PROVE  ino'[i] = ino[i]
<1>1. ino \in Seq(Seq(Byte))
  BY Known DEF FilesType
<1>2. CASE ino' = ino
  BY <1>2
<1>3. CASE ino' = Append(ino, << >>)
  BY <1>1, <1>3
<1>4. ASSUME NEW k \in {ServWrites(u), ClientWrites(u)}, NEW d, Write(k, d)
      PROVE  ino'[i] = ino[i]
  <2>1. ino' = [ino EXCEPT ![k] = ino[k] \o d] /\ i # k
    BY <1>4 DEF Write
  <2>2. QED
    BY <1>1, <2>1
<1>5. QED
  BY <1>2, <1>3, <1>4 DEF ServFiles, ClientFiles, files, Remove, Create

LEMMA OtherWhole ==
  ASSUME SharedInv, NEW u \in Users, Alone(u), NEW v \in Users \ {u},
         UNCHANGED files \/ ServFiles(u) \/ ClientFiles(u),
         HomeSame(v), Whole(v)
  PROVE  Whole(v)'
<1>1. up'[v] = up[v] /\ cl'[v] = cl[v] /\ sv'[v] = sv[v]
  BY DEF Alone
<1>2. PICK F : F = HomeFiles(v)
  OBVIOUS
<1>3. HomeFiles(v)' = F
  BY <1>2, HomeFilesSame
<1>4. PICK s \in Room, t \in Room :
        /\ Run(up[v], s, t, Room, FileWay(F))
        /\ ChildRoom(v, F, s) /\ ClientRoom(v, F, t)
  BY <1>2 DEF Whole, FileTrace
<1>5. sv[v].pc = "put" /\ sv[v].fd # NoInode => ino'[sv[v].fd] = ino[sv[v].fd]
  <2>1. SUFFICES ASSUME sv[v].pc = "put", sv[v].fd # NoInode
                 PROVE  ino'[sv[v].fd] = ino[sv[v].fd]
    OBVIOUS
  <2>2. sv[v].fd \in 0 .. Len(ino) /\ Len(ino) \in Nat
    BY Session
  <2>3. sv[v].fd \in 1 .. Len(ino)
    BY <2>1, <2>2 DEF NoInode
  <2>4. sv[v].fd \notin {ServWrites(u), ClientWrites(u)}
    <3>1. ServWrites(v) = sv[v].fd
      BY <2>1 DEF ServWrites
    <3>2. QED
      BY <2>1, <3>1, Known DEF OneWriter
  <2>5. QED
    BY <2>3, <2>4, InodesStep
<1>6. ChildRoom(v, F, s)'
  BY <1>1, <1>4, <1>5 DEF ChildRoom
<1>7. cl[v].pc # "main" => /\ Mine(v)' = Mine(v) /\ dir'[Mine(v)] = dir[Mine(v)]
  BY <1>1, Known DEF HomeSame, ClientNames, Mine
<1>8. ClientRoom(v, F, t)'
  BY <1>1, <1>4, <1>7 DEF ClientRoom
<1>9. FileTrace(v, HomeFiles(v))'
  BY <1>1, <1>3, <1>4, <1>6, <1>8 DEF FileTrace
<1>10. QED
  BY <1>1, <1>7, <1>9 DEF Whole, Missing

LEMMA WholeShown ==
  ASSUME Apart, SharedInv, WholeInv, NEW u \in Users, Alone(u),
         UNCHANGED files \/ ServFiles(u) \/ ClientFiles(u),
         ServDescriptor(u), ClientDescriptor(u), Whole(u)'
  PROVE  WholeInv'
<1>1. Links /\ \A v \in Users : Whole(v)
  BY DEF WholeInv
<1>2. Links'
  BY <1>1, LinksStep
<1>3. ASSUME NEW v \in Users \ {u} PROVE HomeSame(v)
  <2>1. CASE UNCHANGED files
    BY <2>1 DEF HomeSame, files
  <2>2. QED
    BY <1>1, <2>1, ServLeavesHome, ClientLeavesHome
<1>4. \A v \in Users \ {u} : Whole(v)'
  BY <1>1, <1>3, OtherWhole
<1>5. QED
  BY <1>2, <1>4 DEF WholeInv

-----------------------------------------------------------------------------
\* The session that takes the step.
LEMMA HomeType ==
  ASSUME SharedInv, NEW u \in Users, NEW F, F = HomeFiles(u)
  PROVE  /\ DOMAIN F = {n \in Names : dir[<<Home[u], n>>] # NoInode}
         /\ \A n \in DOMAIN F : /\ F[n] = ino[dir[<<Home[u], n>>]]
                                /\ dir[<<Home[u], n>>] \in 1 .. Len(ino)
                                /\ dir[<<Home[u], n>>] # NoInode
                                /\ F[n] \in Seq(Byte) /\ Len(F[n]) \in Nat
                                /\ n # EmptyName
<1>1. /\ DOMAIN F = {n \in Names : dir[<<Home[u], n>>] # NoInode}
      /\ \A n \in DOMAIN F : F[n] = ino[dir[<<Home[u], n>>]]
  BY DEF HomeFiles, Missing
<1>2. ASSUME NEW n \in DOMAIN F PROVE dir[<<Home[u], n>>] \in 1 .. Len(ino)
  <2>1. <<Home[u], n>> \in Places \X Names
    BY <1>1 DEF Places
  <2>2. dir[<<Home[u], n>>] \in 0 .. Len(ino) /\ Len(ino) \in Nat
    BY <2>1, Known DEF FilesType
  <2>3. QED
    BY <1>1, <2>2 DEF NoInode
<1>3. \A n \in DOMAIN F : F[n] \in Seq(Byte) /\ Len(F[n]) \in Nat
  <2>1. ino \in Seq(Seq(Byte))
    BY Known DEF FilesType
  <2>2. QED
    BY <1>1, <1>2, <2>1, InodeType
<1>4. QED
  BY <1>1, <1>2, <1>3, ProtocolAssumption

LEMMA RoomType ==
  /\ Idle \in Room /\ Idle.of = EmptyName
  /\ \A n \in Names, k \in Nat :
       /\ [of |-> n, pos |-> k] \in Room
       /\ [of |-> n, pos |-> k].of = n /\ [of |-> n, pos |-> k].pos = k
  /\ \A s \in Room : s.pos \in Nat /\ s = [of |-> s.of, pos |-> s.pos]
BY DEF Room, Idle

LEMMA InFileWay ==
  ASSUME NEW F, NEW s \in Room, NEW t \in Room, NEW m \in msg_head_ctrl_t
  PROVE  <<s, m, t>> \in FileWay(F) <=> FileLeads(F, s, m, t)
BY DEF FileWay

\* What is to be shown of it.
LEMMA TraceShown ==
  ASSUME NEW u \in Users, HomeSame(u), NEW F, F = HomeFiles(u),
         NEW s \in Room, NEW t \in Room, Run(up'[u], s, t, Room, FileWay(F)),
         ChildRoom(u, F, s)', ClientRoom(u, F, t)',
         cl'[u].pc # "send"
  PROVE  Whole(u)'
<1>1. HomeFiles(u)' = F
  BY HomeFilesSame
<1>2. FileTrace(u, HomeFiles(u))'
  BY <1>1 DEF FileTrace
<1>3. QED
  BY <1>2 DEF Whole

\* What is known of it.
LEMMA TraceKnown ==
  ASSUME WholeInv, NEW u \in Users
  PROVE  \E F : /\ F = HomeFiles(u)
               /\ \E s, t \in Room : /\ Run(up[u], s, t, Room, FileWay(F))
                                     /\ ChildRoom(u, F, s) /\ ClientRoom(u, F, t)
BY DEF WholeInv, Whole, FileTrace

\* A session without an upload.
LEMMA NoUpload ==
  ASSUME NEW u \in Users, up'[u] = << >>, sv'[u].pc # "put",
         cl'[u].pc \notin {"put", "send"}
  PROVE  Whole(u)'
<1>1. PICK F : F = HomeFiles(u)'
  OBVIOUS
<1>2. Run(up'[u], Idle, Idle, Room, FileWay(F))
  BY RunEmpty, RoomType
<1>3. ChildRoom(u, F, Idle)' /\ ClientRoom(u, F, Idle)'
  BY RoomType DEF ChildRoom, ClientRoom
<1>4. FileTrace(u, HomeFiles(u))'
  BY <1>1, <1>2, <1>3, RoomType DEF FileTrace
<1>5. QED
  BY <1>4 DEF Whole

\* A step that is no part of an upload.
LEMMA WholeRests ==
  ASSUME SharedInv, WholeInv, NEW u \in Users, UNCHANGED files, up'[u] = up[u],
         sv'[u] = sv[u] \/ sv'[u].pc # "put",
         cl'[u] = cl[u] \/ "put" \notin {cl[u].pc, cl'[u].pc},
         cl'[u].pc # "send" \/ cl'[u].cmd # "PUT" \/ ~Missing(Mine(u))'
  PROVE  Whole(u)'
<1>1. ino' = ino /\ dir' = dir
  BY DEF files
<1>2. HomeSame(u)
  BY <1>1 DEF HomeSame
<1>3. PICK F : /\ F = HomeFiles(u)
               /\ \E s, t \in Room : /\ Run(up[u], s, t, Room, FileWay(F))
                                     /\ ChildRoom(u, F, s) /\ ClientRoom(u, F, t)
  BY TraceKnown
<1>4. PICK s \in Room, t \in Room :
        /\ Run(up[u], s, t, Room, FileWay(F))
        /\ ChildRoom(u, F, s) /\ ClientRoom(u, F, t)
  BY <1>3
<1>5. ChildRoom(u, F, s)'
  BY <1>1, <1>4 DEF ChildRoom
<1>6. ClientRoom(u, F, t)'
  BY <1>1, <1>4 DEF ClientRoom, Mine
<1>7. HomeFiles(u)' = F
  BY <1>2, <1>3, HomeFilesSame
<1>8. FileTrace(u, HomeFiles(u))'
  BY <1>4, <1>5, <1>6, <1>7 DEF FileTrace
<1>9. QED
  BY <1>8 DEF Whole

\* A frame the child reads takes it along the way.
LEMMA FileTakes ==
  ASSUME SharedInv, WholeInv, NEW u \in Users, up[u] # << >>,
         up' = [up EXCEPT ![u] = Tail(@)]
  PROVE  /\ Head(up[u]) \in msg_head_ctrl_t
         /\ \E F : /\ F = HomeFiles(u)
                   /\ \E s, x, t \in Room :
                        /\ FileLeads(F, s, Head(up[u]), x)
                        /\ Run(up'[u], x, t, Room, FileWay(F))
                        /\ ChildRoom(u, F, s) /\ ClientRoom(u, F, t)
<1>1. up[u] \in Seq(msg_head_ctrl_t) /\ up'[u] = Tail(up[u])
  BY Session, Known DEF UpType
<1>2. Head(up[u]) \in msg_head_ctrl_t
  BY <1>1, TakeFirst
<1>3. PICK F : /\ F = HomeFiles(u)
               /\ \E s, t \in Room : /\ Run(up[u], s, t, Room, FileWay(F))
                                     /\ ChildRoom(u, F, s) /\ ClientRoom(u, F, t)
  BY TraceKnown
<1>4. PICK s \in Room, t \in Room :
        /\ Run(up[u], s, t, Room, FileWay(F))
        /\ ChildRoom(u, F, s) /\ ClientRoom(u, F, t)
  BY <1>3
<1>5. PICK x \in Room : /\ <<s, Head(up[u]), x>> \in FileWay(F)
                        /\ Run(Tail(up[u]), x, t, Room, FileWay(F))
  BY <1>1, <1>4, RunTail
<1>6. FileLeads(F, s, Head(up[u]), x)
  BY <1>2, <1>5, InFileWay
<1>7. QED
  BY <1>1, <1>2, <1>3, <1>4, <1>5, <1>6

\* The client stays where it is when its directory does.
LEMMA RoomStays ==
  ASSUME SharedInv, NEW u \in Users, HomeSame(u), cl' = cl, NEW F, NEW t,
         ClientRoom(u, F, t)
  PROVE  ClientRoom(u, F, t)'
<1>1. cl[u].pc # "main" => Mine(u)' = Mine(u) /\ dir'[Mine(u)] = dir[Mine(u)]
  BY Known DEF HomeSame, ClientNames, Mine
<1>2. QED
  BY <1>1 DEF ClientRoom


-----------------------------------------------------------------------------
\* The client sends: a put leads into its file, each block on from there.
LEMMA WholeRequest ==
  ASSUME SharedInv, MixInv, WholeInv, NEW u \in Users, send_command_to_server(u)
  PROVE  Whole(u)'
<1>1. /\ up[u] = << >> /\ sv[u].pc = "select" /\ cl[u].off = 0
      /\ cl[u].cmd \in {"PUT", "GET", "RM"} /\ cl[u].pc = "send"
  BY MixKnown DEF send_command_to_server, Tidy, Quiet
<1>2. cl[u] \in Proc(ClientPc, Len(ino)) /\ Len(ino) \in Nat /\ cl[u].name \in Names
  BY <1>1, Session, Known DEF ClientNames
<1>3. cl[u].cmd = "PUT" => ~Missing(Mine(u))
  BY <1>1 DEF WholeInv, Whole
<1>4. PICK m : m = Request(cl[u].cmd, cl[u].name)
  OBVIOUS
<1>5. /\ ino' = ino /\ dir' = dir /\ sv' = sv /\ up'[u] = Append(<< >>, m)
  BY <1>1, <1>4, Known DEF send_command_to_server, files, ToServer, UpType
<1>6. /\ cl[u].cmd = "PUT" => cl'[u] = [cl[u] EXCEPT !.pc = "put", !.fd = dir[Mine(u)]]
      /\ cl[u].cmd = "GET" => cl'[u] = [cl[u] EXCEPT !.pc = "get"]
      /\ cl[u].cmd = "RM" => cl'[u] = Main
  BY <1>1, Known DEF send_command_to_server, ClientType
<1>7. /\ cl[u].cmd = "PUT" => /\ cl'[u].pc = "put" /\ cl'[u].off = 0
                              /\ cl'[u].fd = dir[Mine(u)] /\ cl'[u].name = cl[u].name
      /\ cl[u].cmd = "GET" => cl'[u].pc = "get"
      /\ cl[u].cmd = "RM" => cl'[u].pc = "main"
  BY <1>1, <1>2, <1>6, MainType DEF Proc
<1>8. PICK F : F = HomeFiles(u)
  OBVIOUS
<1>9. HomeSame(u)
  BY <1>5 DEF HomeSame
<1>10. /\ m \in msg_head_ctrl_t /\ m.command = cl[u].cmd /\ m.name = cl[u].name
       /\ ~IsBlock(m)
  <2>1. cl[u].cmd \in command_type_t /\ cl[u].name \in Text
    BY <1>1, <1>2 DEF command_type_t, Text
  <2>2. m \in msg_head_ctrl_t /\ m.command = cl[u].cmd /\ m.name = cl[u].name
    BY <1>4, <2>1, RequestType
  <2>3. QED
    BY <1>2, <2>2, ProtocolAssumption DEF IsBlock
<1>11. PICK t \in Room : FileLeads(F, Idle, m, t) /\ ClientRoom(u, F, t)'
  <2>1. CASE cl[u].cmd # "PUT"
    <3>1. FileLeads(F, Idle, m, Idle)
      BY <1>10, <2>1, RoomType DEF FileLeads
    <3>2. ClientRoom(u, F, Idle)'
      BY <1>1, <1>7, <2>1, RoomType DEF ClientRoom
    <3>3. QED
      BY <3>1, <3>2, RoomType
  <2>2. CASE cl[u].cmd = "PUT"
    <3>1. PICK t : t = [of |-> cl[u].name, pos |-> 0]
      OBVIOUS
    <3>2. t \in Room /\ t.of = cl[u].name /\ t.pos = 0
      BY <1>2, <3>1, RoomType
    <3>3. cl[u].name \in DOMAIN F /\ Len(F[cl[u].name]) \in Nat
      BY <1>2, <1>3, <1>8, <2>2, HomeType DEF Missing, Mine
    <3>4. FileLeads(F, Idle, m, t)
      BY <1>10, <2>2, <3>2, <3>3, RoomType DEF FileLeads
    <3>5. ClientRoom(u, F, t)'
      BY <1>5, <1>7, <2>2, <3>1, <3>2, <3>3 DEF ClientRoom, Mine
    <3>6. QED
      BY <3>2, <3>4, <3>5
  <2>3. QED
    BY <2>1, <2>2
<1>12. Run(up'[u], Idle, t, Room, FileWay(F))
  <2>1. Run(<< >>, Idle, Idle, Room, FileWay(F))
    BY RunEmpty, RoomType
  <2>2. <<Idle, m, t>> \in FileWay(F)
    BY <1>10, <1>11, InFileWay, RoomType
  <2>3. << >> \in Seq(msg_head_ctrl_t)
    OBVIOUS
  <2>4. QED
    BY <1>5, <1>10, <1>11, <2>1, <2>2, <2>3, RunAppend
<1>13. ChildRoom(u, F, Idle)'
  BY <1>1, <1>5 DEF ChildRoom
<1>14. cl'[u].pc # "send"
  BY <1>1, <1>7
<1>15. QED
  BY <1>8, <1>9, <1>11, <1>12, <1>13, <1>14, RoomType, TraceShown

LEMMA WholePut ==
  ASSUME SharedInv, WholeInv, NEW u \in Users, put_file_to_server(u)
  PROVE  Whole(u)'
<1>1. PICK F : /\ F = HomeFiles(u)
               /\ \E s, t \in Room : /\ Run(up[u], s, t, Room, FileWay(F))
                                     /\ ChildRoom(u, F, s) /\ ClientRoom(u, F, t)
  BY TraceKnown
<1>2. PICK s \in Room, t \in Room :
        /\ Run(up[u], s, t, Room, FileWay(F))
        /\ ChildRoom(u, F, s) /\ ClientRoom(u, F, t)
  BY <1>1
<1>3. /\ cl[u] \in Proc(ClientPc, Len(ino)) /\ cl[u].pc = "put"
      /\ cl[u].off \in Nat /\ up[u] \in Seq(msg_head_ctrl_t)
      /\ cl[u].name \in Names
  BY Session, Known DEF put_file_to_server, ClientNames
<1>4. PICK n : n = cl[u].name
  OBVIOUS
<1>5. /\ t = [of |-> n, pos |-> cl[u].off] /\ n \in DOMAIN F
      /\ cl[u].off <= Len(F[n]) /\ cl[u].fd = dir[<<Home[u], n>>]
      /\ t.of = n /\ t.pos = cl[u].off
  BY <1>2, <1>3, <1>4 DEF ClientRoom, Mine
<1>6. F[n] = ino[cl[u].fd] /\ F[n] \in Seq(Byte) /\ Len(F[n]) \in Nat /\ cl[u].fd # NoInode
  <2>1. F[n] = ino[dir[<<Home[u], n>>]] /\ F[n] \in Seq(Byte) /\ Len(F[n]) \in Nat
    BY <1>1, <1>5, HomeType
  <2>2. dir[<<Home[u], n>>] # NoInode
    BY <1>1, <1>5, HomeType
  <2>3. QED
    BY <1>5, <2>1, <2>2
<1>7. PICK d : d = BlockAt(F[n], cl[u].off)
  OBVIOUS
<1>8. PICK q : q = cl[u].off + Len(d)
  OBVIOUS
<1>9. /\ d \in Seq(Byte) /\ Len(d) \in Nat /\ q \in Nat
      /\ cl[u].off <= q /\ q <= Len(F[n]) /\ d = Slice(F[n], cl[u].off, q)
      /\ Len(d) < MaxReadBytes => q = Len(F[n])
  <2>1. PICK f \in Seq(Byte), off \in Nat : f = F[n] /\ off = cl[u].off
    BY <1>3, <1>6
  <2>2. off <= Len(f) /\ d = BlockAt(f, off)
    BY <1>5, <1>7, <2>1
  <2>3. /\ d \in Seq(Byte) /\ Len(d) \in Nat /\ off + Len(d) <= Len(f)
        /\ d = Slice(f, off, off + Len(d))
        /\ Len(d) < MaxReadBytes => off + Len(d) = Len(f)
    BY <2>2, BlockIsSlice
  <2>4. off <= off + Len(d) /\ off + Len(d) \in Nat
    BY <2>3
  <2>5. QED
    BY <1>8, <2>1, <2>3, <2>4
<1>10. PICK c \in {"PUT", "END_FILE"} :
         c = IF Len(d) < MaxReadBytes THEN "END_FILE" ELSE "PUT"
  OBVIOUS
<1>11. PICK m : m = Block(c, d)
  OBVIOUS
<1>12. /\ ino' = ino /\ dir' = dir /\ sv' = sv
       /\ up'[u] = Append(up[u], m)
       /\ cl'[u] = IF Ends(m) THEN Main
                             ELSE [cl[u] EXCEPT !.off = cl[u].off + Len(m.data)]
  <2>1. FileFrame(BlockOf(cl[u].fd, cl[u].off), ZeroCommand) = m
    BY <1>6, <1>7, <1>10, <1>11 DEF BlockOf, FileFrame, ZeroCommand
  <2>2. /\ up' = [up EXCEPT ![u] = Append(@, m)]
        /\ cl' = [cl EXCEPT ![u] = IF Ends(m) THEN Main
                                   ELSE [cl[u] EXCEPT !.off = @ + Len(m.data)]]
    BY <1>6, <2>1 DEF put_file_to_server, ToServer
  <2>3. QED
    BY <2>2, Known DEF put_file_to_server, files, UpType, ClientType
<1>13. /\ m \in msg_head_ctrl_t /\ m.command = c /\ m.data = d /\ IsBlock(m)
  <2>1. m \in msg_head_ctrl_t /\ m.command = c /\ m.data = d
    BY <1>9, <1>11, BlockFrameType DEF command_type_t
  <2>2. QED
    BY <1>11, <2>1 DEF IsBlock, Block, Frame
<1>14. PICK x \in Room : FileLeads(F, t, m, x) /\ ClientRoom(u, F, x)'
                         /\ cl'[u].pc # "send"
  <2>1. CASE c = "END_FILE"
    <3>1. Ends(m) /\ q = Len(F[n])
      BY <1>9, <1>10, <1>13, <2>1 DEF Ends
    <3>2. FileLeads(F, t, m, Idle)
      BY <1>5, <1>9, <1>13, <3>1, RoomType DEF FileLeads
    <3>3. cl'[u].pc = "main"
      BY <1>12, <3>1 DEF Main, At
    <3>4. ClientRoom(u, F, Idle)'
      BY <3>3, RoomType DEF ClientRoom
    <3>5. QED
      BY <3>2, <3>3, <3>4, RoomType
  <2>2. CASE c = "PUT"
    <3>1. ~Ends(m)
      BY <1>13, <2>2 DEF Ends
    <3>2. cl'[u] = [cl[u] EXCEPT !.off = q]
      BY <1>8, <1>12, <1>13, <3>1
    <3>3. /\ cl'[u].pc = "put" /\ cl'[u].off = q /\ cl'[u].name = n
          /\ cl'[u].fd = cl[u].fd
      BY <1>3, <1>4, <3>2 DEF Proc
    <3>4. PICK x : x = [of |-> n, pos |-> q]
      OBVIOUS
    <3>5. x \in Room /\ x.of = n /\ x.pos = q
      BY <1>3, <1>4, <1>9, <3>4, RoomType
    <3>6. FileLeads(F, t, m, x)
      BY <1>5, <1>9, <1>13, <3>1, <3>4 DEF FileLeads
    <3>7. ClientRoom(u, F, x)'
      BY <1>5, <1>9, <1>12, <3>3, <3>4, <3>5 DEF ClientRoom, Mine
    <3>8. QED
      BY <3>3, <3>5, <3>6, <3>7
  <2>3. QED
    BY <2>1, <2>2
<1>15. Run(up'[u], s, x, Room, FileWay(F))
  <2>1. <<t, m, x>> \in FileWay(F)
    BY <1>13, <1>14, InFileWay
  <2>2. QED
    BY <1>2, <1>3, <1>12, <1>13, <2>1, RunAppend
<1>16. HomeSame(u)
  BY <1>12 DEF HomeSame
<1>17. ChildRoom(u, F, s)'
  BY <1>2, <1>12 DEF ChildRoom
<1>18. QED
  BY <1>1, <1>14, <1>15, <1>16, <1>17, TraceShown

-----------------------------------------------------------------------------
\* The child reads. While a command is on the way, or served, the client of
\* its session is not about to send another.
LEMMA NotSending ==
  ASSUME MixInv, NEW u \in Users, up[u] # << >> \/ sv[u].pc # "select"
  PROVE  cl[u].pc # "send"
BY MixKnown DEF Tidy, Quiet

\* A request, which may turn out to be a block of a refused upload.
LEMMA WholeAsked ==
  ASSUME SharedInv, MixInv, WholeInv, Spelled \cap Names = {}, NEW u \in Users,
         \/ handle_request_put(u) \/ handle_request_default(u)
         \/ handle_request_get(u) \/ handle_request_rm(u)
  PROVE  Whole(u)'
<1>1. sv[u].pc = "select" /\ up[u] # << >> /\ up' = [up EXCEPT ![u] = Tail(@)] /\ cl' = cl
  BY DEF handle_request_put, handle_request_default, handle_request_get,
         handle_request_rm, Requested
<1>2. PICK m : m = Head(up[u])
  OBVIOUS
<1>3. \/ sv'[u].pc # "put"
      \/ /\ m.command = "PUT"
         /\ \E n \in NamesIn(m) : sv'[u] = At("put", "PUT", n)
  <2>1. CASE handle_request_put(u)
    BY <1>2, <2>1, Known DEF handle_request_put, Requested, ServType
  <2>2. CASE handle_request_default(u)
    BY <1>1, <2>2 DEF handle_request_default
  <2>3. CASE handle_request_get(u) \/ handle_request_rm(u)
    BY <2>3, Known DEF handle_request_get, handle_request_rm, ServType, At
  <2>4. QED
    BY <2>1, <2>2, <2>3
<1>4. m \in msg_head_ctrl_t /\ \E F : /\ F = HomeFiles(u)
                   /\ \E s, x, t \in Room :
                        /\ FileLeads(F, s, m, x)
                        /\ Run(up'[u], x, t, Room, FileWay(F))
                        /\ ChildRoom(u, F, s) /\ ClientRoom(u, F, t)
  BY <1>1, <1>2, FileTakes
<1>5. PICK F : /\ F = HomeFiles(u)
               /\ \E s, x, t \in Room :
                    /\ FileLeads(F, s, m, x)
                    /\ Run(up'[u], x, t, Room, FileWay(F))
                    /\ ChildRoom(u, F, s) /\ ClientRoom(u, F, t)
  BY <1>4
<1>6. PICK s \in Room, x \in Room, t \in Room :
        /\ FileLeads(F, s, m, x)
        /\ Run(up'[u], x, t, Room, FileWay(F))
        /\ ClientRoom(u, F, t)
  BY <1>5
<1>7. HomeSame(u)
  <2>1. ServFiles(u)
    BY DEF handle_request_put, handle_request_default, handle_request_get,
           handle_request_rm, ServFiles
  <2>2. QED
    BY <2>1, ServLeavesHome DEF WholeInv
<1>8. ChildRoom(u, F, x)'
  <2>1. CASE sv'[u].pc # "put"
    BY <2>1 DEF ChildRoom
  <2>2. ASSUME NEW n \in NamesIn(m), m.command = "PUT", sv'[u] = At("put", "PUT", n)
        PROVE  ChildRoom(u, F, x)'
    <3>1. sv'[u].name = n /\ sv'[u].fd = NoInode
      BY <2>2 DEF At
    <3>2. CASE IsBlock(m)
      BY <3>1, <3>2 DEF ChildRoom, NamesIn
    <3>3. CASE ~IsBlock(m)
      <4>1. n = m.name
        BY <3>3 DEF NamesIn
      <4>2. QED
        BY <1>6, <2>2, <3>1, <3>3, <4>1 DEF FileLeads, ChildRoom
    <3>4. QED
      BY <3>2, <3>3
  <2>3. QED
    BY <1>3, <2>1, <2>2
<1>9. ClientRoom(u, F, t)'
  BY <1>1, <1>6, <1>7, RoomStays
<1>10. cl'[u].pc # "send"
  BY <1>1, NotSending
<1>11. QED
  BY <1>5, <1>6, <1>7, <1>8, <1>9, <1>10, TraceShown

LEMMA WholeDropped ==
  ASSUME SharedInv, MixInv, WholeInv, NEW u \in Users, handle_put_refused(u)
  PROVE  Whole(u)'
<1>1. /\ UNCHANGED files /\ cl' = cl /\ sv[u].pc = "put" /\ up[u] # << >>
      /\ up' = [up EXCEPT ![u] = Tail(@)]
  BY DEF handle_put_refused, Uploading, Taken
<1>2. sv'[u].pc # "put"
  BY Known DEF handle_put_refused, ServType, Select, At
<1>3. PICK F : /\ F = HomeFiles(u)
               /\ \E s, x, t \in Room :
                    /\ FileLeads(F, s, Head(up[u]), x)
                    /\ Run(up'[u], x, t, Room, FileWay(F))
                    /\ ChildRoom(u, F, s) /\ ClientRoom(u, F, t)
  BY <1>1, FileTakes
<1>4. PICK x \in Room, t \in Room :
        Run(up'[u], x, t, Room, FileWay(F)) /\ ClientRoom(u, F, t)
  BY <1>3
<1>5. HomeSame(u)
  BY <1>1 DEF HomeSame, files
<1>6. ChildRoom(u, F, x)'
  BY <1>2 DEF ChildRoom
<1>7. ClientRoom(u, F, t)'
  BY <1>1, <1>4, <1>5, RoomStays
<1>8. cl'[u].pc # "send"
  BY <1>1, NotSending
<1>9. QED
  BY <1>3, <1>4, <1>5, <1>6, <1>7, <1>8, TraceShown

LEMMA WholeCreates ==
  ASSUME SharedInv, MixInv, WholeInv, NEW u \in Users, handle_put_creates(u)
  PROVE  Whole(u)'
<1>1. /\ up' = up /\ cl' = cl /\ sv[u].pc = "put" /\ sv[u].fd = NoInode
      /\ sv[u].name \in Names /\ up[u] # << >> /\ Create(Named(u))
      /\ sv' = [sv EXCEPT ![u].fd = dir'[Named(u)]]
  BY DEF handle_put_creates, Uploading
<1>2. PICK F : /\ F = HomeFiles(u)
               /\ \E s, t \in Room : /\ Run(up[u], s, t, Room, FileWay(F))
                                     /\ ChildRoom(u, F, s) /\ ClientRoom(u, F, t)
  BY TraceKnown
<1>3. PICK s \in Room, t \in Room :
        /\ Run(up[u], s, t, Room, FileWay(F))
        /\ ChildRoom(u, F, s) /\ ClientRoom(u, F, t)
  BY <1>2
<1>4. HomeSame(u)
  <2>1. ServFiles(u)
    BY <1>1 DEF ServFiles, Named
  <2>2. QED
    BY <2>1, ServLeavesHome DEF WholeInv
<1>5. /\ sv'[u].pc = "put" /\ sv'[u].name = sv[u].name
      /\ sv'[u].fd = NewInode /\ ino'[NewInode] = << >>
  <2>1. Named(u) \in Places \X Names
    BY <1>1 DEF Named, Places
  <2>2. dir'[Named(u)] = NewInode
    BY <1>1, <2>1, CreateFiles, Known
  <2>3. sv[u] \in Proc(ServPc, Len(ino)) /\ sv'[u] = [sv[u] EXCEPT !.fd = NewInode]
    BY <1>1, <2>2, Session, Known DEF ServType
  <2>4. ino' = Append(ino, << >>) /\ ino \in Seq(Seq(Byte))
    BY <1>1, Known DEF Create, FilesType
  <2>5. ino'[NewInode] = << >>
    BY <2>4 DEF NewInode
  <2>6. QED
    BY <1>1, <2>3, <2>5 DEF Proc
<1>6. s.of = sv[u].name /\ s.of \in DOMAIN F /\ s.pos = 0
  BY <1>1, <1>3 DEF ChildRoom
<1>7. Slice(F[s.of], 0, 0) = << >> /\ Len(F[s.of]) \in Nat
  <2>1. F[s.of] \in Seq(Byte) /\ Len(F[s.of]) \in Nat
    BY <1>2, <1>6, HomeType
  <2>2. QED
    BY <2>1, SliceNone
<1>8. ChildRoom(u, F, s)'
  BY <1>5, <1>6, <1>7 DEF ChildRoom
<1>9. ClientRoom(u, F, t)'
  BY <1>1, <1>3, <1>4, RoomStays
<1>10. cl'[u].pc # "send"
  BY <1>1, NotSending
<1>11. Run(up'[u], s, t, Room, FileWay(F))
  BY <1>1, <1>3
<1>12. QED
  BY <1>2, <1>4, <1>8, <1>9, <1>10, <1>11, TraceShown

\* What a block adds to the file: at the last one it is the user's, whole.
LEMMA StoresBlock ==
  ASSUME SharedInv, MixInv, WholeInv, NEW u \in Users, handle_put(u)
  PROVE  \E F, x, t :
           /\ F = HomeFiles(u) /\ x \in Room /\ t \in Room
           /\ Run(up'[u], x, t, Room, FileWay(F)) /\ ClientRoom(u, F, t)
           /\ sv[u].name \in DOMAIN F
           /\ IF Ends(Head(up[u]))
                THEN ino'[sv[u].fd] = F[sv[u].name]
                ELSE /\ x.of = sv[u].name /\ x.pos <= Len(F[x.of])
                     /\ ino'[sv[u].fd] = Slice(F[x.of], 0, x.pos)
<1>1. /\ sv[u].pc = "put" /\ sv[u].fd # NoInode /\ up[u] # << >>
      /\ Write(sv[u].fd, Head(up[u]).data)
      /\ up' = [up EXCEPT ![u] = Tail(@)]
  BY DEF handle_put, Uploading, Taken
<1>2. PICK m : m = Head(up[u])
  OBVIOUS
<1>3. PICK F : /\ F = HomeFiles(u)
               /\ \E s, x, t \in Room :
                    /\ FileLeads(F, s, m, x)
                    /\ Run(up'[u], x, t, Room, FileWay(F))
                    /\ ChildRoom(u, F, s) /\ ClientRoom(u, F, t)
  BY <1>1, <1>2, FileTakes
<1>4. PICK s \in Room, x \in Room, t \in Room :
        /\ FileLeads(F, s, m, x)
        /\ Run(up'[u], x, t, Room, FileWay(F))
        /\ ChildRoom(u, F, s) /\ ClientRoom(u, F, t)
  BY <1>3
<1>5. sv[u].name \in Names /\ sv[u].fd \in 1 .. Len(ino)
  <2>1. sv[u].fd \in 0 .. Len(ino) /\ Len(ino) \in Nat
    BY Session
  <2>2. QED
    BY <1>1, <2>1, MixKnown DEF Tidy, NoInode
<1>6. /\ s.of = sv[u].name /\ s.of \in DOMAIN F /\ s.pos <= Len(F[s.of])
      /\ ino[sv[u].fd] = Slice(F[s.of], 0, s.pos) /\ s.pos \in Nat
  BY <1>1, <1>4, <1>5, RoomType DEF ChildRoom
<1>7. F[s.of] \in Seq(Byte) /\ Len(F[s.of]) \in Nat /\ s.of # EmptyName
  BY <1>3, <1>6, HomeType
<1>8. PICK q \in Nat :
        /\ s.pos <= q /\ q <= Len(F[s.of]) /\ m.data = Slice(F[s.of], s.pos, q)
        /\ IF Ends(m) THEN q = Len(F[s.of]) /\ x.of = EmptyName
                      ELSE x = [of |-> s.of, pos |-> q]
  BY <1>4, <1>7 DEF FileLeads
<1>9. ino'[sv[u].fd] = Slice(F[s.of], 0, q)
  <2>1. ino \in Seq(Seq(Byte))
    BY Known DEF FilesType
  <2>2. ino'[sv[u].fd] = ino[sv[u].fd] \o m.data
    <3>1. PICK k, y : k \in 1 .. Len(ino) /\ k = sv[u].fd /\ y = ino[k] \o m.data
      BY <1>5
    <3>2. ino' = [ino EXCEPT ![k] = y]
      BY <1>1, <1>2, <3>1 DEF Write
    <3>3. k \in DOMAIN ino
      BY <2>1, <3>1
    <3>4. ino'[k] = y
      BY <3>2, <3>3, Zenon
    <3>5. QED
      BY <3>1, <3>4
  <2>3. Slice(F[s.of], 0, s.pos) \o Slice(F[s.of], s.pos, q) = Slice(F[s.of], 0, q)
    BY <1>6, <1>7, <1>8, SliceJoin
  <2>4. QED
    BY <1>6, <1>8, <2>2, <2>3
<1>10. CASE Ends(m)
  <2>1. ino'[sv[u].fd] = F[sv[u].name]
    BY <1>6, <1>7, <1>8, <1>9, <1>10, SliceAll
  <2>2. QED
    BY <1>2, <1>3, <1>4, <1>6, <1>10, <2>1
<1>11. CASE ~Ends(m)
  <2>1. x.of = s.of /\ x.pos = q
    BY <1>8, <1>11
  <2>2. QED
    BY <1>2, <1>3, <1>4, <1>6, <1>8, <1>9, <1>11, <2>1
<1>12. QED
  BY <1>10, <1>11

LEMMA WholeStored ==
  ASSUME SharedInv, MixInv, WholeInv, NEW u \in Users, handle_put(u)
  PROVE  Whole(u)'
<1>1. /\ sv[u].pc = "put" /\ sv[u].fd # NoInode /\ cl' = cl
      /\ Write(sv[u].fd, Head(up[u]).data)
      /\ sv' = [sv EXCEPT ![u] = IF Ends(Head(up[u])) THEN Select ELSE @]
  BY DEF handle_put, Uploading
<1>2. PICK F, x, t :
           /\ F = HomeFiles(u) /\ x \in Room /\ t \in Room
           /\ Run(up'[u], x, t, Room, FileWay(F)) /\ ClientRoom(u, F, t)
           /\ sv[u].name \in DOMAIN F
           /\ IF Ends(Head(up[u]))
                THEN ino'[sv[u].fd] = F[sv[u].name]
                ELSE /\ x.of = sv[u].name /\ x.pos <= Len(F[x.of])
                     /\ ino'[sv[u].fd] = Slice(F[x.of], 0, x.pos)
  BY StoresBlock
<1>3. HomeSame(u)
  <2>1. ServFiles(u)
    BY <1>1 DEF ServFiles, ServWrites
  <2>2. QED
    BY <2>1, ServLeavesHome DEF WholeInv
<1>4. ChildRoom(u, F, x)'
  <2>1. CASE Ends(Head(up[u]))
    <3>1. sv'[u].pc = "select"
      BY <1>1, <2>1, Known DEF ServType, Select, At
    <3>2. QED
      BY <3>1 DEF ChildRoom
  <2>2. CASE ~Ends(Head(up[u]))
    <3>1. sv'[u] = sv[u]
      BY <1>1, <2>2, Known DEF ServType
    <3>2. QED
      BY <1>1, <1>2, <2>2, <3>1 DEF ChildRoom
  <2>3. QED
    BY <2>1, <2>2
<1>5. ClientRoom(u, F, t)'
  BY <1>1, <1>2, <1>3, RoomStays
<1>6. cl'[u].pc # "send"
  BY <1>1, NotSending
<1>7. QED
  BY <1>2, <1>3, <1>4, <1>5, <1>6, TraceShown


-----------------------------------------------------------------------------
LEMMA WholeInit ==
  ASSUME SharedInit
  PROVE  WholeInv
<1>1. \A u \in Users : up[u] = << >> /\ cl[u] = Main /\ sv[u] = Select
  BY DEF SharedInit
<1>2. Main.pc = "main" /\ Select.pc = "select"
  BY DEF Main, Select, At
<1>3. Links
  <2>1. ASSUME NEW p \in Places \X Names, NEW q \in Places \X Names,
               dir[p] # NoInode, dir[p] = dir[q]
        PROVE  p = q
    <3>1. ASSUME NEW r \in Places \X Names, dir[r] # NoInode
          PROVE  <<Initial[dir[r]][1], Initial[dir[r]][2]>> = r
      <4>1. dir[r] = IF \E i \in DOMAIN Initial : <<Initial[i][1], Initial[i][2]>> = r
                      THEN CHOOSE i \in DOMAIN Initial :
                             <<Initial[i][1], Initial[i][2]>> = r
                      ELSE NoInode
        BY DEF SharedInit
      <4>2. PICK i \in DOMAIN Initial : <<Initial[i][1], Initial[i][2]>> = r
        BY <3>1, <4>1
      <4>3. QED
        BY <4>1, <4>2
    <3>2. QED
      BY <2>1, <3>1
  <2>2. \A u \in Users : ServWrites(u) = NoInode /\ ClientWrites(u) = NoInode
    BY <1>1, <1>2 DEF ServWrites, ClientWrites
  <2>3. QED
    BY <2>1, <2>2 DEF Links
<1>4. ASSUME NEW u \in Users PROVE Whole(u)
  <2>1. PICK F : F = HomeFiles(u)
    OBVIOUS
  <2>2. Run(up[u], Idle, Idle, Room, FileWay(F))
    BY <1>1, RunEmpty, RoomType
  <2>3. ChildRoom(u, F, Idle) /\ ClientRoom(u, F, Idle)
    BY <1>1, <1>2, RoomType DEF ChildRoom, ClientRoom
  <2>4. QED
    BY <1>1, <1>2, <2>1, <2>2, <2>3, RoomType DEF Whole, FileTrace
<1>5. QED
  BY <1>3, <1>4 DEF WholeInv

LEMMA WholeInput ==
  ASSUME Apart, SharedInv, WholeInv, NEW u \in Users,
         NEW c \in {"PUT", "GET", "RM"}, NEW n \in Names, handle_user_input(u, c, n)
  PROVE  WholeInv'
<1>1. /\ UNCHANGED files /\ up' = up /\ sv' = sv /\ cl[u].pc = "main"
      /\ cl' = [cl EXCEPT ![u] = At("send", c, n)]
      /\ c = "PUT" => ~Missing(<<Home[u], n>>)
  BY DEF handle_user_input
<1>2. cl'[u].pc = "send" /\ cl'[u].cmd = c /\ cl'[u].name = n
  BY <1>1, Known DEF ClientType, At
<1>3. cl'[u].cmd = "PUT" => ~Missing(Mine(u))'
  BY <1>1, <1>2 DEF Missing, Mine, files
<1>4. Whole(u)'
  BY <1>1, <1>2, <1>3, WholeRests
<1>5. ServDescriptor(u) /\ ClientDescriptor(u)
  BY InputFiles
<1>6. Alone(u)
  BY StepAlone
<1>7. QED
  BY <1>1, <1>4, <1>5, <1>6, WholeShown

LEMMA WholeClient ==
  ASSUME Apart, SharedInv, MixInv, WholeInv, NEW u \in Users, ClientStep(u)
  PROVE  WholeInv'
<1>1. Whole(u)'
  <2>1. CASE send_command_to_server(u)
    BY <2>1, WholeRequest
  <2>2. CASE put_file_to_server(u)
    BY <2>2, WholePut
  <2>3. CASE handle_server_ack(u)
    <3>1. UNCHANGED files /\ up' = up /\ cl' = cl /\ sv' = sv /\ cl[u].pc = "main"
      BY <2>3 DEF handle_server_ack
    <3>2. QED
      BY <3>1, WholeRests
  <2>4. CASE get_fails(u) \/ get_creates(u) \/ get_file_from_server(u)
    <3>1. /\ cl[u].pc = "get" /\ down[u] # << >> /\ up' = up /\ sv' = sv
      BY <2>4 DEF get_fails, get_creates, get_file_from_server, Answered
    <3>2. up[u] = << >> /\ sv[u].pc # "put"
      <4>1. PICK src : Traced(u, src)
        BY MixKnown
      <4>2. QED
        BY <3>1, <4>1, GetOnly
    <3>3. cl'[u] \in {Main, cl[u], [cl[u] EXCEPT !.fd = NewInode],
                     [cl[u] EXCEPT !.pc = "unlink"]}
      BY <2>4, Known DEF get_fails, get_creates, get_file_from_server, ClientType
    <3>4. cl'[u].pc \in {"main", "get", "unlink"}
      <4>1. cl[u] \in Proc(ClientPc, Len(ino)) /\ Main.pc = "main"
        BY Session DEF Main, At
      <4>2. QED
        BY <3>1, <3>3, <4>1 DEF Proc
    <3>5. QED
      BY <3>1, <3>2, <3>4, NoUpload
  <2>5. CASE get_unlinks(u)
    <3>1. /\ up' = up /\ sv' = sv /\ cl'[u] = Main
          /\ up[u] = << >> /\ sv[u].pc # "put"
      BY <2>5, MixKnown, Known DEF get_unlinks, ClientType, Tidy
    <3>2. QED
      BY <3>1, MainType, NoUpload
  <2>6. QED
    BY <2>1, <2>2, <2>3, <2>4, <2>5 DEF ClientStep
<1>2. Alone(u)
  BY StepAlone
<1>3. QED
  BY <1>1, <1>2, ClientStepFiles, WholeShown

LEMMA WholeChild ==
  ASSUME Apart, SharedInv, MixInv, WholeInv, Spelled \cap Names = {},
         NEW u \in Users, ServStep(u)
  PROVE  WholeInv'
<1>1. sv[u] \in Proc(ServPc, Len(ino)) /\ Select.pc = "select"
  BY Session DEF Select, At
<1>2. Whole(u)'
  <2>1. CASE \/ handle_request_put(u) \/ handle_request_default(u)
             \/ handle_request_get(u) \/ handle_request_rm(u)
    BY <2>1, WholeAsked
  <2>2. CASE handle_put_refused(u)
    BY <2>2, WholeDropped
  <2>3. CASE handle_put_creates(u)
    BY <2>3, WholeCreates
  <2>4. CASE handle_put(u)
    BY <2>4, WholeStored
  <2>5. CASE handle_answer(u) \/ handle_get_opens(u) \/ handle_get(u)
    <3>1. /\ UNCHANGED files /\ up' = up /\ cl' = cl
          /\ sv[u].pc \in {"pipe", "nofile", "open", "get"}
      BY <2>5 DEF handle_answer, handle_get_opens, handle_get
    <3>2. sv'[u].pc # "put"
      <4>1. CASE handle_answer(u)
        BY <1>1, <4>1, Known DEF handle_answer, ServType
      <4>2. CASE handle_get_opens(u)
        <5>1. \/ sv'[u] = Select
              \/ sv'[u] = [sv[u] EXCEPT !.pc = "get", !.fd = dir[Named(u)]]
          BY <4>2, Known DEF handle_get_opens, ServType
        <5>2. QED
          BY <1>1, <5>1 DEF Proc
      <4>3. CASE handle_get(u)
        <5>1. sv[u].pc = "get"
          BY <4>3 DEF handle_get
        <5>2. PICK k : sv'[u] = Select \/ sv'[u] = [sv[u] EXCEPT !.off = @ + k]
          BY <4>3, Known DEF handle_get, ServType
        <5>3. QED
          BY <1>1, <5>1, <5>2 DEF Proc
      <4>4. QED
        BY <2>5, <4>1, <4>2, <4>3
    <3>3. cl'[u].pc # "send"
      BY <3>1, NotSending
    <3>4. QED
      BY <3>1, <3>2, <3>3, WholeRests
  <2>6. QED
    BY <2>1, <2>2, <2>3, <2>4, <2>5 DEF ServStep
<1>3. Alone(u)
  BY StepAlone
<1>4. QED
  BY <1>2, <1>3, ServStepFiles, WholeShown


LEMMA WholeStep ==
  ASSUME Apart, SharedInv, MixInv, WholeInv, Spelled \cap Names = {},
         [SharedNext]_svars
  PROVE  WholeInv'
<1>1. CASE UNCHANGED svars
  <2>1. /\ UNCHANGED files /\ ino' = ino /\ dir' = dir /\ up' = up /\ cl' = cl /\ sv' = sv
    BY <1>1 DEF svars, files
  <2>2. Links'
    BY <2>1 DEF WholeInv, Links, ServWrites, ClientWrites, Mine
  <2>3. \A u \in Users : cl[u].pc = "send" /\ cl[u].cmd = "PUT" => ~Missing(Mine(u))'
    BY <2>1 DEF WholeInv, Whole, Missing, Mine
  <2>4. \A u \in Users : Whole(u)'
    BY <2>1, <2>3, WholeRests
  <2>5. QED
    BY <2>2, <2>4 DEF WholeInv
<1>2. CASE SharedNext
  BY <1>2, WholeInput, WholeClient, WholeChild DEF SharedNext
<1>3. QED
  BY <1>1, <1>2

\* The step that ends an upload is the one that stores its last block.
LEMMA EndsUpload ==
  ASSUME SharedInv, MixInv, WholeInv, [SharedNext]_svars, NEW u \in Users,
         sv[u].pc = "put", sv[u].fd # NoInode, sv'[u].pc = "select"
  PROVE  ino'[sv[u].fd] = ino[dir[<<Home[u], sv[u].name>>]]
<1>1. sv[u].name \in Names
  BY MixKnown DEF Tidy
<1>2. ASSUME NEW v \in Users,
             \/ ClientStep(v) \/ ServStep(v)
             \/ \E c \in {"PUT", "GET", "RM"}, n \in Names : handle_user_input(v, c, n)
      PROVE  v = u /\ ServStep(u)
  <2>1. v = u
    BY <1>2, StepAlone DEF Alone
  <2>2. ClientStep(u) => sv' = sv
    BY DEF ClientStep, send_command_to_server, put_file_to_server,
           handle_server_ack, get_fails, get_unlinks, get_creates,
           get_file_from_server
  <2>3. \A c, n : handle_user_input(u, c, n) => sv' = sv
    BY DEF handle_user_input
  <2>4. QED
    BY <1>2, <2>1, <2>2, <2>3
<1>3. ServStep(u)
  <2>1. sv' # sv
    OBVIOUS
  <2>2. QED
    BY <1>2, <2>1 DEF SharedNext, svars
<1>4. handle_put(u) \/ handle_put_creates(u)
  BY <1>1, <1>3
     DEF ServStep, handle_request_put, handle_request_default,
         handle_request_get, handle_request_rm, handle_answer,
         handle_put_refused, handle_get_opens, handle_get, Requested, Uploading
<1>5. handle_put(u) /\ Ends(Head(up[u]))
  <2>1. ~handle_put_creates(u)
    BY DEF handle_put_creates
  <2>2. handle_put(u)
    BY <1>4, <2>1
  <2>3. sv' = [sv EXCEPT ![u] = IF Ends(Head(up[u])) THEN Select ELSE @]
    BY <2>2 DEF handle_put
  <2>4. ~Ends(Head(up[u])) => sv'[u] = sv[u]
    BY <2>3, Known DEF ServType
  <2>5. QED
    BY <2>2, <2>4
<1>6. PICK F : /\ F = HomeFiles(u) /\ sv[u].name \in DOMAIN F
               /\ ino'[sv[u].fd] = F[sv[u].name]
  BY <1>5, StoresBlock
<1>7. F[sv[u].name] = ino[dir[<<Home[u], sv[u].name>>]]
  BY <1>6 DEF HomeFiles
<1>8. QED
  BY <1>6, <1>7

\* When every user has a directory of his own, an upload that the child took
\* to its end has stored the user's file, whole and nothing else: put sent
\* the blocks of that file in order, handle_put appended them to the inode it
\* created, and nobody else touched either file, for any number of users who
\* use the same names on the server. No block may read as the name of a file,
\* which the rest of a refused upload would be stored under.
THEOREM UploadWholeEver ==
  ASSUME \A u, v \in Users : Home[u] = Home[v] => u = v,
         Spelled \cap Names = {}
  PROVE  SharedSpec => SharedUploadWhole
<1>1. Apart
  BY DEF Apart
<1>2. SharedInit => WholeInv
  BY WholeInit
<1>3. SharedInv /\ SharedInv' /\ MixInv /\ WholeInv /\ [SharedNext]_svars => WholeInv'
  BY <1>1, WholeStep
<1>4. SharedInv /\ MixInv /\ WholeInv /\ [SharedNext]_svars =>
        [ \A u \in Users :
            sv[u].pc = "put" /\ sv[u].fd # NoInode /\ sv'[u].pc = "select"
            => ino'[sv[u].fd] = ino[dir[<<Home[u], sv[u].name>>]] ]_svars
  BY EndsUpload
<1>5. SharedSpec => []MixInv
  BY OriginsKept
<1>6. QED
  BY <1>2, <1>3, <1>4, <1>5, SharedInvariance, PTL
     DEF SharedSpec, SharedUploadWhole

=============================================================================
