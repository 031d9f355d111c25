-------------------------------- MODULE Oftp --------------------------------
(***************************************************************************)
(* The version of the two programs before TLS (oftp/): one client, the     *)
(* child that serves it, and the TCP connection between them. A message is *)
(* a header of body_len and command, then body_len more; TCP carries a     *)
(* stream, and a message may arrive in pieces. The receiver looks at       *)
(* body_len with MSG_PEEK and asks for the whole message: the client with  *)
(* MSG_WAITALL, the server without.                                        *)
(*                                                                         *)
(* A stream is a sequence of cells: body_len, the command, and one for     *)
(* each byte of a block or for the argument of a request. It may be cut    *)
(* between any two of them.                                                *)
(***************************************************************************)
EXTENDS FtpProtocol

CONSTANTS
  Buffer,          \* cells a direction of the connection holds
  RootDir,         \* the directory the server was started in
  HomeDir,         \* the directory the client was started in
  UserDirs,        \* the directories of the user
  ServerTrees,     \* what the directories of the server may hold
  UserTrees,       \* what those of the user may initially hold
  Ahead,           \* the commands this user types ahead of the answers
  Listings,        \* what ls and pwd may print
  Faults           \* what may go wrong

OftpFaults ==
  {"fork",       \* the parent cannot fork
   "popen",      \* popen cannot start the command
   "sighup",     \* the command of popen is killed by signal 1
   "sopen",      \* open() of a server file fails
   "sread",      \* read() of a server file fails
   "crash",      \* the child dies
   "copen",      \* open() of a client file fails
   "cwrite",     \* write() to a client file fails or is short
   "kill"}       \* the client dies

ASSUME OftpAssumption ==
  /\ Buffer \in Nat /\ Buffer >= MaxReadBytes + 2
  /\ RootDir \in Dirs /\ HomeDir \in UserDirs
  /\ ServerTrees \subseteq [Dirs \X Names -> Entry]
  /\ UserTrees \subseteq [UserDirs \X Names -> Entry]
  /\ Ahead \subseteq {"CD", "LS", "PWD", "GET", "QUIT"}
  /\ Listings \subseteq Seq(Byte)
  /\ Faults \subseteq OftpFaults

VARIABLES
  up, sbuf,      \* client to server: in flight, and arrived but not received
  down, cbuf,    \* server to client: the same
  cEnd,          \* the client's socket is open
  sEnds,         \* the server processes whose descriptor of it is open
  spc, scmd, sname, soff, sout, scwd,     \* the child
  cpc, ccmd, cname, copen, lcwd, local,   \* the client
  remote                                  \* the files of the server

link   == <<up, sbuf, down, cbuf, cEnd, sEnds>>
child  == <<spc, scmd, sname, soff, sout, scwd>>
client == <<cpc, ccmd, cname, copen, lcwd, local>>
ovars  == <<link, child, client, remote>>

Commands == {"CD", "LS", "PWD", "GET", "QUIT", "NO_FILE", "END_FILE", "ERROR_FILE"}

Cell == ({"body_len"} \X Nat) \cup ({"command"} \X Commands)
          \cup ({"arg"} \X Text) \cup ({"byte"} \X Byte)

\* A request or a refusal carries an argument, a block its bytes.
Header(c, n)    == << <<"body_len", n>>, <<"command", c>> >>
Message(c, arg) == Header(c, 1) \o << <<"arg", arg>> >>
Chunk(c, d)     == Header(c, Len(d)) \o [i \in DOMAIN d |-> <<"byte", d[i]>>]

\* What recv puts in the caller's buffer, read as msg_head_ctrl_t: total_len
\* is what MSG_PEEK makes the caller ask for.
total_len(buf) == buf[1][2] + 2
command(buf)   == buf[2][2]
arg(buf)       == buf[3][2]
bytes(buf)     == [i \in 1 .. buf[1][2] |-> buf[i + 2][2]]
Rest(buf)      == SubSeq(buf, total_len(buf) + 1, Len(buf))

OftpInit ==
  /\ up = << >> /\ sbuf = << >> /\ down = << >> /\ cbuf = << >>
  /\ cEnd = TRUE /\ sEnds = {"parent"}
  /\ spc = "fork" /\ scmd = "PWD" /\ sname = EmptyName
  /\ soff = 0 /\ sout = << >> /\ scwd = RootDir
  /\ cpc = "main" /\ ccmd = "PWD" /\ cname = EmptyName
  /\ copen = FALSE /\ lcwd = HomeDir
  /\ local \in UserTrees
  /\ remote \in ServerTrees

-----------------------------------------------------------------------------
\* The network delivers the next cell; once the sending end is closed it may
\* reset the connection instead, and what is in flight is lost.
deliver ==
  /\ \/ up # << >> /\ up' = Tail(up) /\ sbuf' = Append(sbuf, Head(up))
        /\ UNCHANGED <<down, cbuf>>
     \/ down # << >> /\ down' = Tail(down) /\ cbuf' = Append(cbuf, Head(down))
        /\ UNCHANGED <<up, sbuf>>
  /\ UNCHANGED <<cEnd, sEnds, child, client, remote>>

reset ==
  /\ \/ ~cEnd /\ up # << >> /\ up' = << >> /\ UNCHANGED down
     \/ sEnds = {} /\ down # << >> /\ down' = << >> /\ UNCHANGED up
  /\ UNCHANGED <<sbuf, cbuf, cEnd, sEnds, child, client, remote>>

\* recv meets the end of the stream after what has arrived.
ServEof   == up = << >> /\ ~cEnd
ClientEof == down = << >> /\ sEnds = {}

\* send returns when the kernel has taken the message. After the other end
\* has closed, it may still take it, for nobody to read.
ServSend(m) ==
  \/ cEnd /\ Len(down) + Len(cbuf) + Len(m) <= Buffer /\ down' = down \o m
  \/ ~cEnd /\ UNCHANGED down

\* Mutant of ClientSend: it does not wait for room.
ClientSendAlways(m) ==
  \/ sEnds # {} /\ up' = up \o m
  \/ sEnds = {} /\ UNCHANGED up

ClientSend(m) ==
  \/ sEnds # {} /\ Len(up) + Len(sbuf) + Len(m) <= Buffer /\ up' = up \o m
  \/ sEnds = {} /\ UNCHANGED up

-----------------------------------------------------------------------------
\* The parent: fork, and close its copy of the accepted socket either way.
main_fork ==
  /\ spc = "fork"
  /\ \/ spc' = "select" /\ sEnds' = sEnds \cup {"child"}
     \/ "fork" \in Faults /\ spc' = "exit" /\ UNCHANGED sEnds
  /\ UNCHANGED <<scmd, sname, soff, sout, scwd, remote>>
  /\ UNCHANGED <<up, sbuf, down, cbuf, cEnd, client>>

\* Mutant of main_close: the parent keeps its copy.
main_close_never == FALSE

main_close ==
  /\ spc # "fork" /\ "parent" \in sEnds
  /\ sEnds' = sEnds \ {"parent"}
  /\ UNCHANGED <<up, sbuf, down, cbuf, cEnd, child, client, remote>>

-----------------------------------------------------------------------------
Locals(c, n, out) == scmd' = c /\ sname' = n /\ soff' = 0 /\ sout' = out

ToSelect == spc' = "select" /\ Locals("PWD", EmptyName, << >>) /\ UNCHANGED sEnds
ToExit   == spc' = "exit" /\ Locals("PWD", EmptyName, << >>)
            /\ sEnds' = sEnds \ {"child"}

\* select of serv_client returns 0 after DEFAULT_TIME_OUT.
serv_client_timeout ==
  /\ spc = "select" /\ sbuf = << >> /\ ~ServEof
  /\ ToExit
  /\ UNCHANGED <<up, sbuf, down, cbuf, cEnd, scwd>>

\* Mutant of serv_client_closed: recv's 0 is not looked at.
serv_client_closed_ignored ==
  /\ spc = "select" /\ sbuf = << >> /\ ServEof
  /\ UNCHANGED <<up, sbuf, down, cbuf, cEnd, sEnds, child>>

\* MSG_PEEK returns 0 or an error.
serv_client_closed ==
  /\ spc = "select" /\ sbuf = << >> /\ ServEof
  /\ ToExit
  /\ UNCHANGED <<up, sbuf, down, cbuf, cEnd, scwd>>

\* Mutant of serv_client_short: back to select with the piece thrown away.
serv_client_short_dropped ==
  /\ spc = "select" /\ sbuf # << >> /\ Len(sbuf) < total_len(sbuf)
  /\ sbuf' = << >>
  /\ UNCHANGED <<up, down, cbuf, cEnd, sEnds, child>>

\* Only a piece of the request is there: recv returns it, and serv_client
\* returns.
serv_client_short ==
  /\ spc = "select" /\ sbuf # << >> /\ Len(sbuf) < total_len(sbuf)
  /\ sbuf' = << >>
  /\ ToExit
  /\ UNCHANGED <<up, down, cbuf, cEnd, scwd>>

\* A whole request is there; handle_request looks at its command.
Receive(c) ==
  /\ spc = "select" /\ sbuf # << >> /\ Len(sbuf) >= total_len(sbuf)
  /\ command(sbuf) = c
  /\ sbuf' = Rest(sbuf)
  /\ UNCHANGED <<up, down, cbuf, cEnd>>

serv_client_quit == Receive("QUIT") /\ ToExit /\ UNCHANGED scwd

handle_request_cd ==
  /\ Receive("CD")
  /\ scwd' = IF arg(sbuf) \in Dirs THEN arg(sbuf) ELSE scwd
  /\ ToSelect

handle_request_popen(c) ==
  /\ Receive(c)
  /\ \/ \E out \in Listings :
          spc' = "pipe" /\ Locals(c, EmptyName, out) /\ UNCHANGED sEnds
     \/ "popen" \in Faults /\ ToSelect
  /\ UNCHANGED scwd

\* file_exist, then open.
handle_request_get ==
  /\ Receive("GET")
  /\ LET found == file_exist(remote[<<scwd, arg(sbuf)>>])
     IN  \/ /\ spc' = IF found THEN "get" ELSE "nofile"
            /\ Locals("GET", arg(sbuf), << >>)
            /\ UNCHANGED sEnds
         \/ found /\ "sopen" \in Faults /\ ToSelect
  /\ UNCHANGED scwd

-----------------------------------------------------------------------------
\* A send to a closed connection fails, or SIGPIPE kills the child.
SockError == ~cEnd /\ ToExit /\ UNCHANGED down

handle_get_no_file ==
  /\ spc = "nofile"
  /\ \/ ServSend(Message("NO_FILE", sname)) /\ ToSelect
     \/ SockError
  /\ UNCHANGED <<up, sbuf, cbuf, cEnd, scwd>>

\* The loop of handle_get ends after a message with an empty body.
LastRead(n) == n = 0

\* One read of the file and the message for it.
handle_get ==
  /\ spc = "get"
  /\ LET d == BlockAt(remote[<<scwd, sname>>].data, soff)
     IN  /\ ServSend(Chunk(IF d = << >> THEN "END_FILE" ELSE "GET", d))
         /\ \/ LastRead(Len(d)) /\ ToSelect
            \/ /\ ~LastRead(Len(d))
               /\ soff' = soff + Len(d)
               /\ UNCHANGED <<spc, scmd, sname, sout, sEnds>>
  /\ UNCHANGED <<up, sbuf, cbuf, cEnd, scwd>>

handle_get_read_error ==
  /\ "sread" \in Faults /\ spc = "get"
  /\ ServSend(Chunk("ERROR_FILE", << >>)) /\ ToSelect
  /\ UNCHANGED <<up, sbuf, cbuf, cEnd, scwd>>

\* One fread of the command's output and the message for it; a short one is
\* the last. There is no return statement: the caller sees pclose's status.
handle_ls_pwd ==
  /\ spc = "pipe"
  /\ LET d == BlockAt(sout, soff)
     IN  /\ ServSend(Chunk(scmd, d))
         /\ \/ Len(d) < MaxReadBytes /\ ToSelect
            \/ Len(d) < MaxReadBytes /\ "sighup" \in Faults /\ ToExit
            \/ /\ Len(d) = MaxReadBytes
               /\ soff' = soff + Len(d)
               /\ UNCHANGED <<spc, scmd, sname, sout, sEnds>>
  /\ UNCHANGED <<up, sbuf, cbuf, cEnd, scwd>>

handler_sock_error ==
  /\ spc \in {"get", "pipe"}
  /\ SockError
  /\ UNCHANGED <<up, sbuf, cbuf, cEnd, scwd>>

\* The child dies.
child_crash ==
  /\ "crash" \in Faults /\ spc \notin {"fork", "exit"}
  /\ ToExit
  /\ UNCHANGED <<up, sbuf, down, cbuf, cEnd, scwd>>

-----------------------------------------------------------------------------
Request0 == ccmd' = "PWD" /\ cname' = EmptyName /\ copen' = FALSE

ToMain == cpc' = "main" /\ Request0 /\ UNCHANGED cEnd
ToEnd  == cpc' = "exit" /\ Request0 /\ cEnd' = FALSE

\* MSG_WAITALL returns with everything that was asked for, or at the end of
\* the stream.
Whole(buf) == buf # << >> /\ Len(buf) >= total_len(buf)

\* A message of the server in the loop of clinet_process: shown or dropped.
\* The function ends without a return statement, and what its caller reads
\* may be SOCK_ERROR, which leaves the loop. If select also found a line on
\* standard input, that is next.
handle_server_ack ==
  /\ cpc = "main" /\ cbuf # << >>
  /\ \/ Whole(cbuf) /\ cbuf' = Rest(cbuf)
     \/ ~Whole(cbuf) /\ ClientEof /\ cbuf' = << >>
  /\ \/ ToMain
     \/ ToEnd
     \/ cpc' = "stdin" /\ UNCHANGED <<ccmd, cname, copen, cEnd>>
  /\ UNCHANGED <<up, sbuf, down, sEnds, lcwd, local>>

\* MSG_PEEK returns 0 or an error: exit(-1).
handle_server_ack_lost ==
  /\ cpc = "main" /\ cbuf = << >> /\ ClientEof
  /\ ToEnd
  /\ UNCHANGED <<up, sbuf, down, cbuf, sEnds, lcwd, local>>

\* What was typed before has been dealt with.
Quiet == up \o sbuf \o down \o cbuf = << >> /\ spc \in {"select", "exit"}

\* select found a line, and nothing of the server unless that was handled.
LineTyped == \/ cpc = "stdin"
             \/ cpc = "main" /\ cbuf = << >> /\ ~ClientEof

\* A line that is sent.
handle_user_input ==
  /\ LineTyped
  /\ \/ ccmd' \in {"LS", "PWD", "QUIT"} /\ cname' = EmptyName
     \/ ccmd' = "CD" /\ cname' \in Dirs
     \/ /\ ccmd' = "GET" /\ cname' \in Names
        /\ ~file_exist(local[<<lcwd, cname'>>])
  /\ ccmd' \in Ahead \/ Quiet
  /\ cpc' = "send"
  /\ UNCHANGED <<link, copen, lcwd, local>>

handle_user_input_lcd ==
  /\ LineTyped
  /\ lcwd' \in UserDirs \ {lcwd}
  /\ cpc' = "main"
  /\ UNCHANGED <<link, ccmd, cname, copen, local>>

\* A line without effect here: put, which does nothing, lls and lpwd, a get of
\* a file that is there, or no command.
handle_user_input_nothing ==
  /\ cpc = "stdin"
  /\ cpc' = "main"
  /\ UNCHANGED <<link, ccmd, cname, copen, lcwd, local>>

\* exit() after quit, whether or not it could be sent.
send_command_to_server ==
  /\ cpc = "send"
  /\ ClientSend(Message(ccmd, cname))
  /\ \/ ccmd = "QUIT" /\ ToEnd
     \/ ccmd = "GET" /\ cpc' = "get" /\ UNCHANGED <<ccmd, cname, copen, cEnd>>
     \/ ccmd \notin {"QUIT", "GET"} /\ ToMain
  /\ UNCHANGED <<sbuf, down, cbuf, sEnds, lcwd, local>>

client_sock_error ==
  /\ cpc = "send" /\ sEnds = {}
  /\ ToEnd
  /\ UNCHANGED <<up, sbuf, down, cbuf, sEnds, lcwd, local>>

-----------------------------------------------------------------------------
file == <<lcwd, cname>>

\* Mutant of Unlink: a file that was opened stays.
UnlinkUnopened == local' = IF copen THEN local
                                    ELSE [local EXCEPT ![file] = NoEntry]

\* Exit of get_file_from_server, when ret is not SUCCESSFUL.
Unlink == local' = [local EXCEPT ![file] = NoEntry]

\* A whole message is there for get_file_from_server.
GetRead ==
  /\ cpc = "get" /\ Whole(cbuf)
  /\ cbuf' = Rest(cbuf)
  /\ UNCHANGED <<up, sbuf, down, sEnds, lcwd>>

\* recv finds the end of the stream, before or in the middle of a message.
get_lost ==
  /\ cpc = "get" /\ ClientEof /\ ~Whole(cbuf)
  /\ cbuf' = << >>
  /\ Unlink /\ ToEnd
  /\ UNCHANGED <<up, sbuf, down, sEnds, lcwd>>

get_no_file ==
  /\ GetRead /\ command(cbuf) = "NO_FILE"
  /\ Unlink /\ ToMain

get_unopened ==
  /\ GetRead /\ command(cbuf) # "NO_FILE"
  /\ ~copen /\ (local[file].kind # "none" \/ "copen" \in Faults)
  /\ Unlink /\ ToMain

get_write_error ==
  /\ "cwrite" \in Faults
  /\ GetRead /\ command(cbuf) # "NO_FILE"
  /\ copen \/ local[file].kind = "none"
  /\ Unlink /\ ToMain

get_file_from_server ==
  /\ GetRead /\ command(cbuf) # "NO_FILE"
  /\ copen \/ local[file].kind = "none"
  /\ local' = [local EXCEPT ![file] = RegularFile(@.data \o bytes(cbuf))]
  /\ \/ command(cbuf) = "END_FILE" /\ ToMain
     \/ /\ command(cbuf) # "END_FILE"
        /\ copen' = TRUE
        /\ UNCHANGED <<cpc, ccmd, cname, cEnd>>

\* The client is killed.
client_kill ==
  /\ "kill" \in Faults /\ cpc \notin {"exit", "killed"}
  /\ cpc' = "killed" /\ Request0 /\ cEnd' = FALSE
  /\ UNCHANGED <<up, sbuf, down, cbuf, sEnds, lcwd, local>>

-----------------------------------------------------------------------------
ServStep ==
  /\ \/ serv_client_timeout
     \/ serv_client_closed
     \/ serv_client_short
     \/ serv_client_quit
     \/ handle_request_cd
     \/ \E c \in {"LS", "PWD"} : handle_request_popen(c)
     \/ handle_request_get
     \/ handle_get_no_file
     \/ handle_get
     \/ handle_ls_pwd
     \/ handler_sock_error
  /\ UNCHANGED <<client, remote>>

ClientStep ==
  /\ \/ handle_server_ack
     \/ handle_server_ack_lost
     \/ handle_user_input_nothing
     \/ send_command_to_server
     \/ client_sock_error
     \/ get_lost
     \/ get_no_file
     \/ get_unopened
     \/ get_file_from_server
  /\ UNCHANGED <<child, remote>>

UserStep == (handle_user_input \/ handle_user_input_lcd)
              /\ UNCHANGED <<child, remote>>

OftpFault ==
  \/ (handle_get_read_error \/ child_crash) /\ UNCHANGED <<client, remote>>
  \/ (get_write_error \/ client_kill) /\ UNCHANGED <<child, remote>>

OftpNext ==
  \/ deliver \/ reset \/ main_fork \/ main_close
  \/ ServStep \/ ClientStep \/ UserStep \/ OftpFault

OftpSpec == OftpInit /\ [][OftpNext]_ovars

\* The network delivers, the three processes run when they can; the user
\* owes nothing.
FairOftpSpec ==
  OftpSpec /\ WF_ovars(deliver) /\ WF_ovars(main_fork) /\ WF_ovars(main_close)
           /\ WF_ovars(ServStep) /\ WF_ovars(ClientStep)

-----------------------------------------------------------------------------
OftpTypeOK ==
  /\ up \o sbuf \in Seq(Cell) /\ Len(up) + Len(sbuf) <= Buffer
  /\ down \o cbuf \in Seq(Cell) /\ Len(down) + Len(cbuf) <= Buffer
  /\ cEnd \in BOOLEAN /\ sEnds \subseteq {"child", "parent"}
  /\ spc \in {"fork", "select", "get", "nofile", "pipe", "exit"}
  /\ scmd \in Commands /\ sname \in Text
  /\ soff \in Nat /\ sout \in Seq(Byte) /\ scwd \in Dirs
  /\ cpc \in {"main", "stdin", "send", "get", "exit", "killed"}
  /\ ccmd \in Commands /\ cname \in Text
  /\ copen \in BOOLEAN /\ lcwd \in UserDirs
  /\ local \in [UserDirs \X Names -> Entry]
  /\ remote \in [Dirs \X Names -> Entry]

\* Wherever the stream is cut, each end that is alive begins its next recv at
\* the start of a message: body_len is never read out of a body.
Aligned ==
  /\ spc # "exit" /\ sbuf \o up # << >> => (sbuf \o up)[1][1] = "body_len"
  /\ cEnd /\ cbuf \o down # << >> => (cbuf \o down)[1][1] = "body_len"

\* However a get ends, short of the client being killed, the user has the
\* server's file or no file: never a part of it. This needs a user who waits
\* for the answers before a get: get_file_from_server stores whatever message
\* comes, the rest of a listing too.
OftpGetExact ==
  [][ cpc = "get" /\ cpc' \in {"main", "exit"} /\ local'[file] # NoEntry
      => local'[file] = remote[<<scwd, cname>>] ]_ovars

\* A get ends, also when the server never answers it: the parent holds no
\* copy of the socket, so the end of the child, at its time out if not
\* before, reaches the client.
OftpGetEnds == cpc = "get" ~> cpc # "get"

\* Whichever process is gone, the other one follows.
BothEnd == ~cEnd \/ spc = "exit" ~> ~cEnd /\ spc = "exit"

=============================================================================
