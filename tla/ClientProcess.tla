--------------------------- MODULE ClientProcess ---------------------------
(***************************************************************************)
(* The ftp client (client_process.c): login, the select loop over the      *)
(* socket and standard input, and the two transfers. It is a sequential    *)
(* process; an action runs from one blocking call to the next.             *)
(***************************************************************************)
EXTENDS TlsLink

CONSTANTS
  ClientFiles,     \* what a name of the user's directory may initially hold
  LpwdName,        \* what trim_all_space leaves of "lpwd" + 3: "d"
  UserCommands     \* the commands the user of this instance types

ASSUME ClientAssumption ==
  /\ ClientFiles \subseteq Entry
  /\ LpwdName \in Names
  /\ UserCommands \subseteq {"CD", "LS", "PWD", "MKDIR", "RM", "QUIT", "LPWD",
                             "PUT", "GET"}

VARIABLES
  cpc,      \* where the client is
  ccmd,     \* the command being sent or carried out
  cname,    \* its argument
  coff,     \* put_file_to_server: how far the file is read
  copen,    \* fd # -1 in either transfer
  heap,     \* the command field left in the message buffer freed last
  local     \* the user's directory

clocals == <<ccmd, cname, coff, copen>>
clientVars == <<cpc, clocals, heap, local>>

ClientTypeOK ==
  /\ cpc \in {"login", "verdict", "main", "send", "put", "get", "exit"}
  /\ ccmd \in command_type_t
  /\ cname \in Names \cup Dirs \cup {EmptyName}
  /\ coff \in Nat
  /\ copen \in BOOLEAN
  /\ heap \in command_type_t \cup {Garbage}
  /\ local \in [Names -> Entry]

ClientInit ==
  /\ cpc = "login"
  /\ ccmd = ZeroCommand /\ cname = EmptyName
  /\ coff = 0 /\ copen = FALSE
  /\ heap = ZeroCommand
  /\ local \in [Names -> ClientFiles]

-----------------------------------------------------------------------------
ForgetRequest ==
  ccmd' = ZeroCommand /\ cname' = EmptyName /\ coff' = 0 /\ copen' = FALSE

ToMain == cpc' = "main" /\ ForgetRequest /\ UNCHANGED cEnd

\* The process ends and its descriptor closes.
ToEnd == cpc' = "exit" /\ ForgetRequest /\ cEnd' = FALSE

\* login: write struct info, then read the verdict into buff. No result of
\* either call is checked.
login ==
  /\ cpc = "login"
  /\ \E c \in Credential : ClientWrite(Request(c, EmptyName))
  /\ cpc' = "verdict"
  /\ UNCHANGED <<clocals, heap, local, s2c, cEnd, sEnds>>

\* Mutant of login_verdict: any answer will do.
login_verdict_any ==
  /\ cpc = "verdict" /\ ClientReadable /\ ClientConsume
  /\ cpc' = "main"
  /\ UNCHANGED <<clocals, heap, local, c2s, cEnd, sEnds>>

\* flag = atoi(buff): without a verdict to read, buff is uninitialised.
login_verdict ==
  /\ cpc = "verdict" /\ ClientReadable /\ ClientConsume
  /\ \E flag \in IF s2c # << >> THEN {Head(s2c).command = "1"} ELSE BOOLEAN :
       cpc' = IF flag THEN "main" ELSE "login"
  /\ UNCHANGED <<clocals, heap, local, c2s, cEnd, sEnds>>

-----------------------------------------------------------------------------
\* free(msg), when a later malloc may hand the buffer out again.
Freed(command) == heap' = IF "reuse" \in Faults THEN command ELSE ZeroCommand

\* The socket is readable in the loop: one frame is read, shown or dropped,
\* and its buffer freed as it is.
handle_server_ack ==
  /\ cpc = "main" /\ s2c # << >> /\ ClientConsume
  /\ Freed(Head(s2c).command)
  /\ UNCHANGED <<cpc, clocals, local, c2s, cEnd, sEnds>>

\* SSL_read returns 0 or less: exit(-1).
handle_server_ack_lost ==
  /\ cpc = "main" /\ s2c = << >> /\ ClientReadable
  /\ ToEnd
  /\ UNCHANGED <<heap, local, c2s, s2c, sEnds>>

\* Mutant of Accepts: get does not look whether the name is there.
AcceptsAnyGet(type, arg) == type \in {"PUT", "LPWD"} => file_exist(local[arg])

\* A line was typed. put and lpwd want a regular file of that name, get
\* wants that there is none; otherwise the line has no effect.
Accepts(type, arg) ==
  /\ type \in {"PUT", "LPWD"} => file_exist(local[arg])
  /\ type = "GET" => ~file_exist(local[arg])

Arguments(type) ==
  CASE type \in {"PUT", "GET", "RM"} -> Names
    [] type = "LPWD"                 -> {LpwdName}
    [] type \in {"CD", "MKDIR"}      -> Dirs
    [] OTHER                         -> {EmptyName}

handle_user_input(type, arg) ==
  /\ cpc = "main"
  /\ Accepts(type, arg)
  /\ cpc' = "send" /\ ccmd' = type /\ cname' = arg
  /\ UNCHANGED <<coff, copen, heap, local, linkVars>>

\* What open() of a file of the user's may return.
Opened == {TRUE} \cup IF "copen" \in Faults THEN {FALSE} ELSE {}

\* send_command_to_server, up to the next blocking call of its caller: the
\* loop, exit, the first block of put or the first SSL_read of get.
send_command_to_server ==
  /\ cpc = "send"
  /\ ClientWrite(Request(ccmd, cname))
  /\ \/ ccmd \in {"CD", "LS", "PWD", "MKDIR", "RM"} /\ ToMain
     \/ ccmd = "QUIT" /\ ToEnd
     \/ /\ ccmd \in {"PUT", "LPWD"}
        /\ cpc' = "put" /\ copen' \in Opened
        /\ UNCHANGED <<ccmd, cname, coff, cEnd>>
     \/ /\ ccmd = "GET"
        /\ cpc' = "get"
        /\ UNCHANGED <<clocals, cEnd>>
  /\ UNCHANGED <<heap, local, s2c, sEnds>>

\* A write to a closed connection fails or raises SIGPIPE: the loop of
\* client_process is left and the client ends.
client_sock_error ==
  /\ cpc \in {"send", "put"}
  /\ sEnds = {}
  /\ ToEnd
  /\ UNCHANGED <<heap, local, c2s, s2c, sEnds>>

-----------------------------------------------------------------------------
\* The command field of a full block: msg->command as malloc left it. The
\* buffers of the later blocks are fresh, none having been freed between.
FreshCommand ==
  {ZeroCommand} \cup IF "reuse" \in Faults THEN {heap, Garbage} ELSE {}

\* Mutants of PutCommand: an empty block does not end the file; a full one may.
PutCommandShort(n) ==
  IF 0 < n /\ n < MaxReadBytes THEN {"END_FILE"} ELSE FreshCommand
PutCommandOrFull(n) ==
  IF n <= MaxReadBytes THEN {"END_FILE"} ELSE FreshCommand

PutCommand(n) == IF n < MaxReadBytes THEN {"END_FILE"} ELSE FreshCommand

\* One block of put_file_to_server; it stops after a frame whose command
\* field is END_FILE, whatever put it there.
put_file_to_server ==
  /\ cpc = "put" /\ copen
  /\ LET d == BlockAt(local[cname].data, coff)
     IN  \E c \in PutCommand(Len(d)) :
           /\ ClientWrite(Block(c, d))
           /\ \/ c = "END_FILE" /\ ToMain /\ Freed(Garbage)
              \/ /\ c # "END_FILE"
                 /\ coff' = coff + Len(d) /\ heap' = ZeroCommand
                 /\ UNCHANGED <<cpc, ccmd, cname, copen, cEnd>>
  /\ UNCHANGED <<local, s2c, sEnds>>

\* read(-1, ..) fails: an ERROR_FILE frame, which does not end the loop.
put_file_to_server_unopened ==
  /\ cpc = "put" /\ ~copen
  /\ ClientWrite(Block("ERROR_FILE", << >>))
  /\ UNCHANGED <<cpc, clocals, heap, local, s2c, cEnd, sEnds>>

-----------------------------------------------------------------------------
\* A frame is there for get_file_from_server. At end-of-file it is the
\* cleared buffer: SSL_read is not checked.
GetRead ==
  /\ cpc = "get" /\ ClientReadable /\ ClientConsume
  /\ UNCHANGED <<c2s, sEnds>>

\* Exit of get_file_from_server.
GetReturn == ToMain /\ Freed(ClientFrame.command)

\* Mutant of GetFailed: what was written stays.
GetFailedKept ==
  /\ GetReturn
  /\ UNCHANGED local

\* Exit without success: unlink(user_input).
GetFailed ==
  /\ GetReturn
  /\ local' = [local EXCEPT ![cname] = NoEntry]

get_no_file ==
  /\ GetRead
  /\ ClientFrame.command = "NO_FILE"
  /\ GetFailed

\* The first frame is there, but open(O_CREAT | O_EXCL) fails.
get_unopened ==
  /\ GetRead
  /\ ClientFrame.command # "NO_FILE"
  /\ ~copen /\ (local[cname].kind # "none" \/ "copen" \in Faults)
  /\ GetFailed

\* The frame's bytes go to the file, which the first frame creates.
GetWritable ==
  /\ GetRead
  /\ ClientFrame.command # "NO_FILE"
  /\ copen \/ local[cname].kind = "none"

get_write_error ==
  /\ "cwrite" \in Faults
  /\ GetWritable
  /\ GetFailed

get_file_from_server ==
  /\ GetWritable
  /\ local' = [local EXCEPT ![cname] =
                  RegularFile(local[cname].data \o ClientFrame.data)]
  /\ \/ ClientFrame.command = "END_FILE" /\ GetReturn
     \/ /\ ClientFrame.command # "END_FILE"
        /\ copen' = TRUE
        /\ UNCHANGED <<cpc, ccmd, cname, coff, heap, cEnd>>

-----------------------------------------------------------------------------
\* The client is killed.
client_crash ==
  /\ "kill" \in Faults
  /\ cpc # "exit"
  /\ ToEnd
  /\ UNCHANGED <<heap, local, c2s, s2c, sEnds>>

\* What the client does of its own accord: login waits for the user to type.
ClientStep ==
  \/ login_verdict
  \/ handle_server_ack
  \/ handle_server_ack_lost
  \/ send_command_to_server
  \/ client_sock_error
  \/ put_file_to_server
  \/ put_file_to_server_unopened
  \/ get_no_file
  \/ get_unopened
  \/ get_file_from_server

ClientFault ==
  \/ get_write_error
  \/ client_crash

=============================================================================
