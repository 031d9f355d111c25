----------------------------- MODULE SharedDir -----------------------------
(***************************************************************************)
(* Several sessions at once: each user has a client and a child of the     *)
(* server, all children work in one directory, and the clients in the      *)
(* directories Home gives them, which may be one and the same.             *)
(*                                                                         *)
(* What sessions share is the file system, so a step here is one call that *)
(* looks at it or changes it, where ServClient and ClientProcess run to    *)
(* the next read or write of the connection. A directory maps names to     *)
(* inodes; an open descriptor holds an inode, which outlives its name.     *)
(* Users wait until their session is quiet, and no failure is injected:    *)
(* what goes wrong here is the doing of the other sessions.                *)
(***************************************************************************)
EXTENDS FtpProtocol

CONSTANTS
  Users,
  ServDir,       \* the directory the children work in
  Home,          \* the directory of each user's client
  Initial,       \* what each directory holds at the start, a path at a time
  MaxCommands,   \* how many commands a user types
  Capacity       \* frames on their way from the read of a file to the write

ASSUME SharedAssumption ==
  /\ DOMAIN Home = Users
  /\ \A u \in Users : Home[u] # ServDir
  /\ MaxCommands \in Nat
  /\ Capacity \in Nat \ {0}

Places == {ServDir} \cup {Home[u] : u \in Users}

ASSUME InitialAssumption == Initial \in Seq(Places \X Names \X Seq(Byte))

NoInode == 0

VARIABLES
  ino,     \* the contents of the inodes, numbered as they are made
  dir,     \* the inode of every name in every directory
  up,      \* frames from each client to its child
  down,    \* frames from each child to its client
  left,    \* how many more commands each user types
  cl,      \* each client: where it is, its command, its open file
  sv       \* each child: the same

files  == <<ino, dir>>
svars  == <<files, up, down, left, cl, sv>>

ClientPc == {"main", "send", "put", "get", "unlink"}
ServPc   == {"select", "put", "open", "get", "nofile", "pipe"}

Process(pcs) ==
  [pc : pcs, cmd : command_type_t, name : Text, off : Nat, fd : 0 .. Len(ino)]

At(pc, c, n) == [pc |-> pc, cmd |-> c, name |-> n, off |-> 0, fd |-> NoInode]
Main   == At("main", ZeroCommand, EmptyName)
Select == At("select", ZeroCommand, EmptyName)

SharedTypeOK ==
  /\ ino \in Seq(Seq(Byte))
  /\ dir \in [Places \X Names -> 0 .. Len(ino)]
  /\ up \in [Users -> Seq(msg_head_ctrl_t)]
  /\ down \in [Users -> Seq(msg_head_ctrl_t)]
  /\ \A u \in Users : Len(up[u]) <= Capacity /\ Len(down[u]) <= Capacity
  /\ left \in [Users -> Nat]
  /\ cl \in [Users -> Process(ClientPc)]
  /\ sv \in [Users -> Process(ServPc)]

SharedInit ==
  /\ ino = [i \in DOMAIN Initial |-> Initial[i][3]]
  /\ dir = [p \in Places \X Names |->
              IF \E i \in DOMAIN Initial : <<Initial[i][1], Initial[i][2]>> = p
                THEN CHOOSE i \in DOMAIN Initial :
                       <<Initial[i][1], Initial[i][2]>> = p
                ELSE NoInode]
  /\ up = [u \in Users |-> << >>] /\ down = [u \in Users |-> << >>]
  /\ left = [u \in Users |-> MaxCommands]
  /\ cl = [u \in Users |-> Main] /\ sv = [u \in Users |-> Select]

-----------------------------------------------------------------------------
\* The file system calls.
Mine(u) == <<Home[u], cl[u].name>>
Named(u) == <<ServDir, sv[u].name>>

Missing(p) == dir[p] = NoInode
NewInode   == Len(ino) + 1

\* Mutant of Create: without O_EXCL, a file that is there is opened.
CreateOrOpen(p) ==
  IF Missing(p) THEN dir' = [dir EXCEPT ![p] = NewInode] /\ ino' = Append(ino, << >>)
                ELSE UNCHANGED files

\* open(O_WRONLY | O_CREAT | O_EXCL) of a name that is not there.
Create(p) == /\ Missing(p)
             /\ dir' = [dir EXCEPT ![p] = NewInode] /\ ino' = Append(ino, << >>)

Remove(p)   == dir' = [dir EXCEPT ![p] = NoInode] /\ UNCHANGED ino
Write(i, d) == ino' = [ino EXCEPT ![i] = @ \o d] /\ UNCHANGED dir

BlockOf(i, off) == BlockAt(ino[i], off)

\* Mutants of FileFrame: a full block may end the file; an empty one does not.
FileFrameOrFull(d, full) ==
  Block(IF Len(d) <= MaxReadBytes THEN "END_FILE" ELSE full, d)
FileFrameShort(d, full) ==
  Block(IF 0 < Len(d) /\ Len(d) < MaxReadBytes THEN "END_FILE" ELSE full, d)

\* The frame for a block, by either end: a short block ends the file.
FileFrame(d, full) == Block(IF Len(d) < MaxReadBytes THEN "END_FILE" ELSE full, d)
Ends(m) == m.command = "END_FILE"

-----------------------------------------------------------------------------
\* The client of u.
Quiet(u) == up[u] = << >> /\ down[u] = << >> /\ sv[u].pc = "select"

\* A line of the user: file_exist asks for the name now, the file is opened
\* later.
handle_user_input(u, c, n) ==
  /\ cl[u].pc = "main" /\ Quiet(u)
  /\ left[u] > 0
  /\ c = "PUT" => ~Missing(<<Home[u], n>>)
  /\ c = "GET" => Missing(<<Home[u], n>>)
  /\ cl' = [cl EXCEPT ![u] = At("send", c, n)]
  /\ left' = [left EXCEPT ![u] = @ - 1]
  /\ UNCHANGED <<files, up, down, sv>>

\* Mutant of ToServer: it does not wait for room.
ToServerAlways(u, m) == up' = [up EXCEPT ![u] = Append(@, m)]

\* SSL_write blocks while the connection is full.
ToServer(u, m) == Len(up[u]) < Capacity /\ up' = [up EXCEPT ![u] = Append(@, m)]
ToClient(u, m) == Len(down[u]) < Capacity /\ down' = [down EXCEPT ![u] = Append(@, m)]

\* The request is sent; put opens its file.
send_command_to_server(u) ==
  /\ cl[u].pc = "send"
  /\ ToServer(u, Request(cl[u].cmd, cl[u].name))
  /\ cl' = [cl EXCEPT ![u] =
              CASE @.cmd = "PUT" -> [@ EXCEPT !.pc = "put", !.fd = dir[Mine(u)]]
                [] @.cmd = "GET" -> [@ EXCEPT !.pc = "get"]
                [] OTHER         -> Main]
  /\ UNCHANGED <<files, down, left, sv>>

\* One block. Without the file, whose name had gone when put opened it, the
\* frame is ERROR_FILE, and that for ever.
put_file_to_server(u) ==
  /\ cl[u].pc = "put"
  /\ LET m == IF cl[u].fd = NoInode THEN Block("ERROR_FILE", << >>)
               ELSE FileFrame(BlockOf(cl[u].fd, cl[u].off), ZeroCommand)
     IN  /\ ToServer(u, m)
         /\ cl' = [cl EXCEPT ![u] = IF Ends(m) THEN Main
                                    ELSE [cl[u] EXCEPT !.off = @ + Len(m.data)]]
  /\ UNCHANGED <<files, down, left, sv>>

handle_server_ack(u) ==
  /\ cl[u].pc = "main" /\ down[u] # << >>
  /\ down' = [down EXCEPT ![u] = Tail(@)]
  /\ UNCHANGED <<files, up, left, cl, sv>>

\* A frame has been read for get_file_from_server; it stays at the head of
\* its queue until it is written.
Answered(u) == cl[u].pc = "get" /\ down[u] # << >>
Consumed(u) == down' = [down EXCEPT ![u] = Tail(@)]

\* NO_FILE, or an open that finds the name taken by now.
get_fails(u) ==
  /\ Answered(u) /\ cl[u].fd = NoInode
  /\ Head(down[u]).command = "NO_FILE" \/ ~Missing(Mine(u))
  /\ Consumed(u)
  /\ cl' = [cl EXCEPT ![u].pc = "unlink"]
  /\ UNCHANGED <<files, up, left, sv>>

\* unlink(user_input) after either, whoever's file has the name by then.
get_unlinks(u) ==
  /\ cl[u].pc = "unlink"
  /\ Remove(Mine(u))
  /\ cl' = [cl EXCEPT ![u] = Main]
  /\ UNCHANGED <<up, down, left, sv>>

get_creates(u) ==
  /\ Answered(u) /\ cl[u].fd = NoInode
  /\ Head(down[u]).command # "NO_FILE"
  /\ Create(Mine(u))
  /\ cl' = [cl EXCEPT ![u].fd = NewInode]
  /\ UNCHANGED <<up, down, left, sv>>

get_file_from_server(u) ==
  /\ Answered(u) /\ cl[u].fd # NoInode
  /\ Write(cl[u].fd, Head(down[u]).data)
  /\ Consumed(u)
  /\ cl' = [cl EXCEPT ![u] = IF Ends(Head(down[u])) THEN Main ELSE @]
  /\ UNCHANGED <<up, left, sv>>

-----------------------------------------------------------------------------
\* The child of u.
Requested(u, commands) ==
  /\ sv[u].pc = "select" /\ up[u] # << >>
  /\ Head(up[u]).command \in commands
  /\ up' = [up EXCEPT ![u] = Tail(@)]
  /\ UNCHANGED <<down, left, cl>>

\* A full block of a refused upload comes here too; the next one goes to a
\* file that is named by its bytes.
handle_request_put(u) ==
  /\ Requested(u, {"PUT"})
  /\ \E n \in NamesIn(Head(up[u])) : sv' = [sv EXCEPT ![u] = At("put", "PUT", n)]
  /\ UNCHANGED files

\* default: the last block of a refused upload is dropped.
handle_request_default(u) ==
  /\ Requested(u, {"END_FILE", "ERROR_FILE"})
  /\ UNCHANGED <<files, sv>>

\* file_exist of handle_get.
handle_request_get(u) ==
  /\ Requested(u, {"GET"})
  /\ LET n == Head(up[u]).name
     IN  sv' = [sv EXCEPT ![u] =
                  At(IF Missing(<<ServDir, n>>) THEN "nofile" ELSE "open", "GET", n)]
  /\ UNCHANGED files

handle_request_rm(u) ==
  /\ Requested(u, {"RM"})
  /\ Remove(<<ServDir, Head(up[u]).name>>)
  /\ sv' = [sv EXCEPT ![u] = At("pipe", "RM", EmptyName)]

\* The frame that answers rm, and the one that says there is no such file.
handle_answer(u) ==
  /\ sv[u].pc \in {"pipe", "nofile"}
  /\ ToClient(u, Request(IF sv[u].pc = "pipe" THEN "RM" ELSE "NO_FILE", sv[u].name))
  /\ sv' = [sv EXCEPT ![u] = Select]
  /\ UNCHANGED <<files, up, left, cl>>

Uploading(u) == sv[u].pc = "put" /\ up[u] # << >>
Taken(u) == up' = [up EXCEPT ![u] = Tail(@)]

\* The first block is there and the open succeeds.
handle_put_creates(u) ==
  /\ Uploading(u) /\ sv[u].fd = NoInode
  /\ sv[u].name \in Names
  /\ Create(Named(u))
  /\ sv' = [sv EXCEPT ![u].fd = dir'[Named(u)]]
  /\ UNCHANGED <<up, down, left, cl>>

\* Mutant of handle_put_refused: the loop goes on with the next block.
handle_put_refused_goes_on(u) ==
  /\ Uploading(u) /\ sv[u].fd = NoInode
  /\ sv[u].name \in Names => ~Missing(Named(u))
  /\ Taken(u)
  /\ UNCHANGED <<files, down, left, cl, sv>>

\* The open is refused: the name is taken, or none.
handle_put_refused(u) ==
  /\ Uploading(u) /\ sv[u].fd = NoInode
  /\ sv[u].name \in Names => ~Missing(Named(u))
  /\ Taken(u)
  /\ sv' = [sv EXCEPT ![u] = Select]
  /\ UNCHANGED <<files, down, left, cl>>

\* One block goes to the file.
handle_put(u) ==
  /\ Uploading(u) /\ sv[u].fd # NoInode
  /\ Write(sv[u].fd, Head(up[u]).data)
  /\ Taken(u)
  /\ sv' = [sv EXCEPT ![u] = IF Ends(Head(up[u])) THEN Select ELSE @]
  /\ UNCHANGED <<down, left, cl>>

\* handle_get opens the file, which may have been removed since file_exist:
\* then it returns without an answer.
handle_get_opens(u) ==
  /\ sv[u].pc = "open"
  /\ sv' = [sv EXCEPT ![u] = IF Missing(Named(u)) THEN Select
                             ELSE [@ EXCEPT !.pc = "get", !.fd = dir[Named(u)]]]
  /\ UNCHANGED <<files, up, down, left, cl>>

\* Mutant of LastBlock: a full block may be the last.
LastBlockOrFull(n) == n <= MaxReadBytes

LastBlock(n) == htonl(n) < MaxReadBytes

\* One read and one frame. The loop ends after an empty block, so what is
\* written behind a short one is still sent.
handle_get(u) ==
  /\ sv[u].pc = "get"
  /\ LET d == BlockOf(sv[u].fd, sv[u].off)
     IN  /\ ToClient(u, FileFrame(d, sv[u].cmd))
         /\ sv' = [sv EXCEPT ![u] = IF LastBlock(Len(d)) THEN Select
                                    ELSE [sv[u] EXCEPT !.off = @ + Len(d)]]
  /\ UNCHANGED <<files, up, left, cl>>

-----------------------------------------------------------------------------
ClientStep(u) ==
  \/ send_command_to_server(u)
  \/ put_file_to_server(u)
  \/ handle_server_ack(u)
  \/ get_fails(u)
  \/ get_unlinks(u)
  \/ get_creates(u)
  \/ get_file_from_server(u)

ServStep(u) ==
  \/ handle_request_put(u)
  \/ handle_request_default(u)
  \/ handle_request_get(u)
  \/ handle_request_rm(u)
  \/ handle_answer(u)
  \/ handle_put_creates(u)
  \/ handle_put_refused(u)
  \/ handle_put(u)
  \/ handle_get_opens(u)
  \/ handle_get(u)

SharedNext ==
  \E u \in Users :
    \/ \E c \in {"PUT", "GET", "RM"}, n \in Names : handle_user_input(u, c, n)
    \/ ClientStep(u)
    \/ ServStep(u)

SharedSpec == SharedInit /\ [][SharedNext]_svars

\* Every process that is not blocked runs.
FairSharedSpec ==
  SharedSpec /\ \A u \in Users : WF_svars(ClientStep(u)) /\ WF_svars(ServStep(u))

-----------------------------------------------------------------------------
\* The inode a child or a client has open for writing.
ServWrites(u)   == IF sv[u].pc = "put" THEN sv[u].fd ELSE NoInode
ClientWrites(u) == IF cl[u].pc = "get" THEN cl[u].fd ELSE NoInode

\* No file has two transfers writing it, whatever names the sessions use and
\* whoever removes and creates them meanwhile, and none of those that were
\* there at the start is written at all.
OneWriter ==
  \A u, v \in Users :
    /\ ServWrites(u) # NoInode /\ ServWrites(u) = ServWrites(v) => u = v
    /\ ClientWrites(u) # NoInode /\ ClientWrites(u) = ClientWrites(v) => u = v
    /\ ServWrites(u) # NoInode => ServWrites(u) # ClientWrites(v)
    /\ ServWrites(u) # NoInode => ServWrites(u) > Len(Initial)
    /\ ClientWrites(u) # NoInode => ClientWrites(u) > Len(Initial)

\* No file ever mixes two: at any moment every one holds the beginning of
\* some file of the start, also one fetched while another session uploads it.
\* This is about files whose blocks spell no name, as is SharedUploadWhole: what
\* a refused upload leaves under such a name begins in the middle of a file.
NeverMixed ==
  \A i \in DOMAIN ino : \E j \in DOMAIN Initial :
    \E n \in 0 .. Len(Initial[j][3]) : ino[i] = SubSeq(Initial[j][3], 1, n)

\* An upload that the child took to its end has put the user's whole file
\* into the inode it created, whatever the other sessions did.
SharedUploadWhole ==
  [][ \A u \in Users :
        sv[u].pc = "put" /\ sv[u].fd # NoInode /\ sv'[u].pc = "select"
        => ino'[sv[u].fd] = ino[dir[<<Home[u], sv[u].name>>]] ]_svars

\* A get comes to an end, unless its file is removed between the moment the
\* child looks for it and the moment it opens it: then no answer comes, and
\* the session falls quiet with the file gone.
SharedGetEnds ==
  \A u \in Users :
    cl[u].pc = "get" /\ ~Quiet(u)
      ~> \/ cl[u].pc = "main"
         \/ Quiet(u) /\ Missing(<<ServDir, cl[u].name>>)

\* An upload comes to an end, also one that lost its name to another.
SharedPutEnds ==
  \A u \in Users : cl[u].pc = "put" ~> cl[u].pc # "put" /\ sv[u].pc # "put"

\* A file of a user's directory goes away only at the hands of the get that
\* created it.
OthersKept ==
  [][ \A u \in Users, n \in Names :
        LET p == <<Home[u], n>>
        IN  ~Missing(p) /\ dir'[p] # dir[p]
            => \E v \in Users : ClientWrites(v) = dir[p] /\ cl'[v].pc = "main" ]_svars

=============================================================================
