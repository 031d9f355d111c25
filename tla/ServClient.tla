----------------------------- MODULE ServClient -----------------------------
(***************************************************************************)
(* One child of the ftp server (serv_client.c): authentication, the        *)
(* request loop of serv_client, and the handlers of the requests. It is a  *)
(* sequential process; an action runs from one blocking call to the next.  *)
(***************************************************************************)
EXTENDS TlsLink

CONSTANTS
  RootDir,         \* the directory the server was started in
  ServerFiles,     \* what a path of the server may initially hold
  ListingLengths,  \* how many bytes ls and pwd may print
  ListByte         \* a byte of such a listing

ASSUME ServerAssumption ==
  /\ RootDir \in Dirs
  /\ ServerFiles \subseteq Entry
  /\ ListingLengths \subseteq Nat
  /\ ListByte \in Byte

VARIABLES
  spc,      \* where the child is
  scmd,     \* msg->command of the request being handled
  sname,    \* msg->msg_body of that request
  soff,     \* handle_get: how far the file is read
  sopen,    \* handle_put: fd # -1
  sleft,    \* handle_ls_pwd: output bytes not yet read from the pipe
  remote,   \* the files, by directory and name
  sdirs,    \* the directories that exist
  scwd      \* the child's working directory

slocals == <<scmd, sname, soff, sopen, sleft>>
sfiles  == <<remote, sdirs, scwd>>
servVars == <<spc, slocals, sfiles>>

Paths == Dirs \X Names
path  == <<scwd, sname>>

ServTypeOK ==
  /\ spc \in {"auth", "select", "put", "get", "nofile", "pipe", "exit"}
  /\ scmd \in command_type_t \cup {Garbage}
  /\ sname \in Text
  /\ soff \in Nat /\ sleft \in Nat
  /\ sopen \in BOOLEAN
  /\ remote \in [Paths -> Entry]
  /\ sdirs \subseteq Dirs
  /\ scwd \in Dirs

ServInit ==
  /\ spc = "auth"
  /\ scmd = ZeroCommand /\ sname = EmptyName
  /\ soff = 0 /\ sopen = FALSE /\ sleft = 0
  /\ remote \in [Paths -> ServerFiles]
  /\ sdirs \in {{RootDir}, Dirs}
  /\ scwd = RootDir

-----------------------------------------------------------------------------
\* The handler's locals die when it returns to the loop, or the child ends.
ForgetLocals ==
  /\ scmd' = ZeroCommand /\ sname' = EmptyName
  /\ soff' = 0 /\ sopen' = FALSE /\ sleft' = 0

ToSelect == spc' = "select" /\ ForgetLocals /\ UNCHANGED sEnds

\* serv_client returns and main of the child returns: its descriptor closes.
ToExit == spc' = "exit" /\ ForgetLocals /\ sEnds' = sEnds \ {"child"}

\* What the login table holds, as a row count.
nrow_is_1(m) == m.command = "KNOWN_USER"

\* A write to a closed connection: SSL_write fails and the handler returns
\* SOCK_ERROR, or SIGPIPE, which nothing ignores, kills the child.
SockError == ~cEnd /\ ToExit /\ UNCHANGED s2c

\* Mutant of authentication: the loop ends whatever the answer was.
authentication_once ==
  /\ spc = "auth" /\ ServReadable /\ ServConsume
  /\ \/ LET found == nrow_is_1(ServFrame)
        IN  /\ ServWrite(Request(IF found THEN "1" ELSE "0", EmptyName))
            /\ spc' = "select"
            /\ UNCHANGED <<slocals, sEnds>>
     \/ SockError
  /\ UNCHANGED <<sfiles, cEnd>>

\* authentication: read one struct info, look it up, answer, until it is
\* found. The results of SSL_read and SSL_write are not looked at.
authentication ==
  /\ spc = "auth" /\ ServReadable /\ ServConsume
  /\ \/ LET found == nrow_is_1(ServFrame)
        IN  /\ ServWrite(Request(IF found THEN "1" ELSE "0", EmptyName))
            /\ spc' = IF found THEN "select" ELSE "auth"
            /\ UNCHANGED <<slocals, sEnds>>
     \/ SockError
  /\ UNCHANGED <<sfiles, cEnd>>

\* The database does not open: exit(1).
authentication_db_error ==
  /\ "db" \in Faults
  /\ spc = "auth" /\ ServReadable /\ ServConsume
  /\ ToExit
  /\ UNCHANGED <<sfiles, s2c, cEnd>>

-----------------------------------------------------------------------------
\* The loop of serv_client: select says the socket is readable, SSL_read
\* fills the cleared buffer, handle_request dispatches on its command.
Dispatch(commands) ==
  /\ spc = "select" /\ ServReadable /\ ServConsume
  /\ ServFrame.command \in commands
  /\ UNCHANGED <<s2c, cEnd>>

Keep(n) == scmd' = ServFrame.command /\ sname' = n /\ UNCHANGED sEnds

\* Mutant of serv_client_quit: quit is one more request to ignore.
serv_client_quit_ignored ==
  /\ Dispatch({"QUIT"})
  /\ ToSelect
  /\ UNCHANGED sfiles

serv_client_quit ==
  /\ Dispatch({"QUIT"})
  /\ ToExit
  /\ UNCHANGED sfiles

\* COMMAND_CD: chdir, whose result is printed on the server only.
handle_request_cd ==
  /\ Dispatch({"CD"})
  /\ \E n \in NamesIn(ServFrame) : scwd' = IF n \in sdirs THEN n ELSE scwd
  /\ ToSelect
  /\ UNCHANGED <<remote, sdirs>>

\* popen runs the command line of the client in a shell. What is no file name
\* leaves the modelled files alone.
RunCommand(c, n) ==
  /\ remote' = IF c = "RM" /\ n \in Names
                 THEN [remote EXCEPT ![<<scwd, n>>] = NoEntry] ELSE remote
  /\ sdirs' = IF c = "MKDIR" THEN sdirs \cup ({n} \cap Dirs) ELSE sdirs
  /\ UNCHANGED scwd

\* COMMAND_LS, PWD, RM, MKDIR up to the first fread of handle_ls_pwd.
handle_request_popen ==
  /\ Dispatch({"LS", "PWD", "RM", "MKDIR"})
  /\ \E n \in NamesIn(ServFrame) : Keep(n) /\ RunCommand(ServFrame.command, n)
  /\ spc' = "pipe"
  /\ sleft' \in IF ServFrame.command \in {"LS", "PWD"} THEN ListingLengths
                                                        ELSE {0}
  /\ UNCHANGED <<soff, sopen>>

handle_request_popen_fails ==
  /\ "popen" \in Faults
  /\ Dispatch({"LS", "PWD", "RM", "MKDIR"})
  /\ ToSelect
  /\ UNCHANGED sfiles

\* COMMAND_GET up to the first read: file_exist, then open. What is no file
\* name is not found.
GetTarget(n) == IF n \in Names THEN remote[<<scwd, n>>] ELSE NoEntry

handle_request_get ==
  /\ Dispatch({"GET"})
  /\ \E n \in NamesIn(ServFrame) :
       /\ Keep(n)
       /\ spc' = IF file_exist(GetTarget(n)) THEN "get" ELSE "nofile"
  /\ UNCHANGED <<soff, sopen, sleft, sfiles>>

\* The file exists but open fails: handle_get returns without answering.
handle_request_get_unopened ==
  /\ "sopen" \in Faults
  /\ Dispatch({"GET"})
  /\ \E n \in NamesIn(ServFrame) : file_exist(GetTarget(n))
  /\ ToSelect
  /\ UNCHANGED sfiles

\* COMMAND_PUT: handle_put opens the file only when the first block is there.
\* The full blocks a refused upload leaves behind come here too, and the next
\* one goes to a file that is named by the bytes of this one.
handle_request_put ==
  /\ Dispatch({"PUT"})
  /\ \E n \in NamesIn(ServFrame) : Keep(n)
  /\ spc' = "put"
  /\ UNCHANGED <<soff, sopen, sleft, sfiles>>

\* default: the frame is dropped.
handle_request_default ==
  /\ Dispatch({"LPWD", "END_FILE", "NO_FILE", "ERROR_FILE", Garbage})
  /\ ToSelect
  /\ UNCHANGED sfiles

\* select times out: serv_client returns, without SSL_shutdown.
serv_client_timeout ==
  /\ "timeout" \in Faults
  /\ spc = "select" /\ ~ServReadable
  /\ ToExit
  /\ UNCHANGED <<sfiles, c2s, s2c, cEnd>>

-----------------------------------------------------------------------------
\* Mutant of CanCreate: no O_EXCL.
CanOpen(e) == e.kind # "special"

\* open(O_WRONLY | O_CREAT | O_EXCL) refuses a name that is already there.
CanCreate(e) == e.kind = "none"

\* handle_put's open fails on the first block: the name is taken, or none.
\* That block is gone, the ones behind it are left to serv_client.
handle_put_refused ==
  /\ spc = "put" /\ ServReadable /\ ServConsume
  /\ ~sopen
  /\ \/ sname \notin Names
     \/ sname \in Names /\ ~CanCreate(remote[path])
     \/ "sopen" \in Faults
  /\ ToSelect
  /\ UNCHANGED <<sfiles, s2c, cEnd>>

\* Mutant of Stored: every block is written at the start of the file.
StoredAtStart(old, d) == {d}

\* handle_put takes one block: the first one creates the file. The results
\* of SSL_read and write are overwritten.
Stored(old, d) ==
  IF "swrite" \in Faults THEN {old, old \o d} ELSE {old \o d}

\* Mutant of EndsFile: a short last block does not end the file.
EndsWhenEmpty(m) == m.command = "END_FILE" /\ m.data = << >>

EndsFile(m) == m.command = "END_FILE"

handle_put ==
  /\ spc = "put" /\ ServReadable /\ ServConsume
  /\ sname \in Names
  /\ sopen \/ CanCreate(remote[path])
  /\ \E d \in Stored(remote[path].data, ServFrame.data) :
       remote' = [remote EXCEPT ![path] = RegularFile(d)]
  /\ IF EndsFile(ServFrame)
       THEN ToSelect
       ELSE spc' = "put" /\ sopen' = TRUE
            /\ UNCHANGED <<scmd, sname, soff, sleft, sEnds>>
  /\ UNCHANGED <<sdirs, scwd, s2c, cEnd>>

-----------------------------------------------------------------------------
handle_get_no_file ==
  /\ spc = "nofile"
  /\ \/ ServWrite(Request("NO_FILE", sname)) /\ ToSelect
     \/ SockError
  /\ UNCHANGED <<sfiles, c2s, cEnd>>

\* Mutant of LastBlock: a full block may be the last.
LastBlockOrFull(n) == n <= MaxReadBytes

\* The loop of handle_get stops when body_len, by then in network order, is
\* below MAX_READ_BYTES.
LastBlock(n) == htonl(n) < MaxReadBytes

\* Mutant of BlockCommand: a full block ends the file.
BlockCommandOrFull(n, full) == IF n <= MaxReadBytes THEN "END_FILE" ELSE full

\* The command of a block of n bytes: a short block already ends the file.
BlockCommand(n, full) == IF n < MaxReadBytes THEN "END_FILE" ELSE full

handle_get ==
  /\ spc = "get"
  /\ LET d == BlockAt(remote[path].data, soff)
     IN  \/ /\ ServWrite(Block(BlockCommand(Len(d), scmd), d))
            /\ IF LastBlock(Len(d))
                 THEN ToSelect
                 ELSE /\ soff' = soff + Len(d)
                      /\ UNCHANGED <<spc, scmd, sname, sopen, sleft, sEnds>>
         \/ SockError
  /\ UNCHANGED <<sfiles, c2s, cEnd>>

\* read() of the file fails: one COMMAND_ERROR_FILE frame, and the loop ends.
handle_get_read_error ==
  /\ "sread" \in Faults
  /\ spc = "get"
  /\ \/ ServWrite(Block("ERROR_FILE", << >>)) /\ ToSelect
     \/ SockError
  /\ UNCHANGED <<sfiles, c2s, cEnd>>

\* One fread and one frame of handle_ls_pwd; a short fread is the last. The
\* function ends without a return statement: its caller sees the status of
\* pclose, which is SOCK_ERROR when signal 1 killed the command.
handle_ls_pwd ==
  /\ spc = "pipe"
  /\ LET n == IF sleft < MaxReadBytes THEN sleft ELSE MaxReadBytes
     IN  \/ /\ ServWrite(Frame(scmd, EmptyName, [i \in 1 .. n |-> ListByte]))
            /\ \/ /\ n < MaxReadBytes
                  /\ \/ ToSelect
                     \/ "sighup" \in Faults /\ ToExit
               \/ /\ n = MaxReadBytes
                  /\ sleft' = sleft - n
                  /\ UNCHANGED <<spc, scmd, sname, soff, sopen, sEnds>>
         \/ SockError
  /\ UNCHANGED <<sfiles, c2s, cEnd>>

-----------------------------------------------------------------------------
\* The child dies wherever it is.
serv_client_crash ==
  /\ "crash" \in Faults
  /\ spc # "exit"
  /\ ToExit
  /\ UNCHANGED <<sfiles, c2s, s2c, cEnd>>

ServStep ==
  \/ authentication
  \/ serv_client_quit
  \/ handle_request_cd
  \/ handle_request_popen
  \/ handle_request_get
  \/ handle_request_put
  \/ handle_request_default
  \/ handle_put
  \/ handle_put_refused
  \/ handle_get_no_file
  \/ handle_get
  \/ handle_ls_pwd
  \/ serv_client_timeout

ServFault ==
  \/ authentication_db_error
  \/ handle_request_popen_fails
  \/ handle_request_get_unopened
  \/ handle_get_read_error
  \/ serv_client_crash

=============================================================================
