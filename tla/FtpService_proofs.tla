-------------------------- MODULE FtpService_proofs --------------------------
(***************************************************************************)
(* Proofs about downloads, and that a session implements FileService.      *)
(*                                                                         *)
(* A download is followed through its phases. The blocks on their way to   *)
(* the client are a run (RunLemmas) whose places are offsets in the file.  *)
(***************************************************************************)
EXTENDS FtpTransfer_proofs, FtpRefinement

\* The entry that the client asked for.
Goal == remote[<<scwd, cname>>]

\* How a frame of an answer leads on in the file of entry e: no frame is the
\* last before its end, or when there is no file.
Towards(e) ==
  {x \in Nat \X msg_head_ctrl_t \X Nat :
     /\ x[3] = x[1] + Len(x[2].data) /\ x[3] <= Len(e.data)
     /\ x[2].data = Slice(e.data, x[1], x[3])
     /\ x[2].command = "END_FILE" => file_exist(e) /\ x[3] = Len(e.data)}

\* What the client has written, and what is on its way up to offset b.
Fetched(a) ==
  IF copen THEN a <= Len(Goal.data) /\ local[cname] = RegularFile(Slice(Goal.data, 0, a))
           ELSE a = 0
Arriving(b) == \E a \in Nat : Run(s2c, a, b, Nat, Towards(Goal)) /\ Fetched(a)

\* The phases of a download: the request is on its way, there is no such
\* file, the child is sending it, the child has answered or is gone.
GetRequested == /\ spc = "select" /\ c2s = <<Request("GET", cname)>>
                /\ s2c = << >> /\ ~copen
GetDenied    == spc = "nofile" /\ c2s = << >> /\ s2c = << >> /\ ~copen
GetSending   == /\ spc = "get" /\ c2s = << >> /\ sname = cname /\ scmd = "GET"
                /\ file_exist(Goal) /\ soff <= Len(Goal.data) /\ Arriving(soff)
GetAnswered  == /\ spc = "exit" \/ (spc = "select" /\ c2s = << >>)
                /\ \E b \in Nat : Arriving(b)

DownInv ==
  /\ spc # "get" => soff = 0
  /\ cpc \notin {"put", "get"} => ~copen
  /\ cpc = "send" /\ ccmd = "GET" =>
       c2s = << >> /\ s2c = << >> /\ spc \in {"select", "exit"}
  /\ cpc = "get" => GetRequested \/ GetDenied \/ GetSending \/ GetAnswered

-----------------------------------------------------------------------------
\* The entry asked for holds bytes.
LEMMA GoalType ==
  ASSUME TypeOK, cname \in Names
  PROVE  Goal \in Entry /\ Goal.data \in Seq(Byte) /\ Len(Goal.data) \in Nat
<1>1. <<scwd, cname>> \in Paths /\ remote \in [Paths -> Entry]
  BY DEF TypeOK, ServTypeOK, Paths
<1>2. Goal \in Entry
  BY <1>1 DEF Goal
<1>3. QED
  BY <1>2, EntryData

\* Nothing is on its way and nothing is written.
LEMMA NothingArrives ==
  ASSUME s2c' = << >>, ~copen'
  PROVE  Arriving(0)'
<1>1. Run(<< >>, 0, 0, Nat, Towards(Goal)')
  BY RunEmpty
<1>2. QED
  BY <1>1 DEF Arriving, Fetched

\* The child writes one more frame.
LEMMA MoreArrives ==
  ASSUME Inv, UNCHANGED <<cname, copen, local, remote, scwd>>,
         NEW p \in Nat, NEW q \in Nat, NEW m \in msg_head_ctrl_t,
         Arriving(p), <<p, m, q>> \in Towards(Goal), s2c' = Append(s2c, m)
  PROVE  Arriving(q)'
<1>1. PICK a \in Nat : Run(s2c, a, p, Nat, Towards(Goal)) /\ Fetched(a)
  BY DEF Arriving
<1>2. s2c \in Seq(msg_head_ctrl_t)
  BY DEF Inv, TypeOK, LinkTypeOK
<1>3. Run(s2c', a, q, Nat, Towards(Goal))
  BY <1>1, <1>2, RunAppend
<1>4. Goal' = Goal /\ Towards(Goal)' = Towards(Goal)
  BY DEF Goal, Towards
<1>5. Fetched(a)'
  BY <1>1, <1>4 DEF Fetched
<1>6. QED
  BY <1>3, <1>4, <1>5 DEF Arriving

\* The child ends, or has answered, and leaves the connection as it is.
LEMMA StillArrives ==
  ASSUME UNCHANGED <<s2c, cname, copen, local, remote, scwd>>, NEW b, Arriving(b)
  PROVE  Arriving(b)'
BY DEF Arriving, Fetched, Goal, Towards

-----------------------------------------------------------------------------
(***************************************************************************)
(* The steps of the child.                                                 *)
(***************************************************************************)

\* Whichever phase a download is in when the child ends, it is answered.
LEMMA DownEnds ==
  ASSUME Inv, DownInv, UNCHANGED <<clientVars, remote, scwd, s2c>>,
         cpc = "get", spc' = "exit", soff' = 0
  PROVE  GetAnswered'
<1>1. UNCHANGED <<cname, copen, local>>
  BY DEF clientVars, clocals
<1>2. CASE GetRequested \/ GetDenied
  BY <1>1, <1>2, NothingArrives DEF GetRequested, GetDenied, GetAnswered
<1>3. CASE GetSending
  <2>1. soff \in Nat
    BY DEF Inv, TypeOK, ServTypeOK
  <2>2. QED
    BY <1>1, <1>3, <2>1, StillArrives DEF GetSending, GetAnswered
<1>4. CASE GetAnswered
  BY <1>1, <1>4, StillArrives DEF GetAnswered
<1>5. QED
  BY <1>2, <1>3, <1>4 DEF DownInv

\* The request is read.
LEMMA DownRequested ==
  ASSUME Inv, DownInv, UNCHANGED clientVars, ServStep \/ ServFault,
         cpc = "get", GetRequested
  PROVE  GetDenied' \/ GetSending' \/ GetAnswered'
<1>1. /\ spc = "select" /\ c2s = <<Request("GET", cname)>> /\ s2c = << >> /\ ~copen
      /\ UNCHANGED <<cname, copen, local>> /\ soff = 0 /\ cname \in Names
  BY DEF GetRequested, clientVars, clocals, DownInv, Inv, LoginInv
<1>2. /\ ServFrame.command = "GET" /\ NamesIn(ServFrame) = {cname}
      /\ ServReadable /\ (ServConsume => c2s' = << >>)
  BY <1>1, ProtocolAssumption
     DEF ServFrame, ServReadable, ServConsume, Request, Frame, NamesIn, IsBlock
<1>3. GetTarget(cname) = Goal
  BY <1>1 DEF GetTarget, Goal
<1>4. s2c' = << >> => Arriving(0)'
  BY <1>1, NothingArrives
<1>5. CASE handle_request_get
  <2>1. /\ c2s' = << >> /\ s2c' = << >> /\ sname' = cname /\ scmd' = "GET"
        /\ UNCHANGED <<soff, remote, scwd>>
        /\ spc' = IF file_exist(Goal) THEN "get" ELSE "nofile"
    BY <1>1, <1>2, <1>3, <1>5 DEF handle_request_get, Dispatch, Keep, sfiles
  <2>2. Goal' = Goal /\ 0 <= Len(Goal.data)
    BY <1>1, <2>1, GoalType DEF Goal, Inv
  <2>3. QED
    BY <1>1, <1>4, <2>1, <2>2 DEF GetSending, GetDenied
<1>6. CASE handle_request_get_unopened
  <2>1. c2s' = << >> /\ s2c' = << >> /\ spc' = "select"
    BY <1>1, <1>2, <1>6 DEF handle_request_get_unopened, Dispatch, ToSelect
  <2>2. QED
    BY <1>4, <2>1 DEF GetAnswered
<1>7. CASE serv_client_crash
  BY <1>1, <1>4, <1>7 DEF serv_client_crash, ToExit, GetAnswered
<1>8. QED
  BY <1>1, <1>2, <1>5, <1>6, <1>7
     DEF ServStep, ServFault, authentication, authentication_db_error,
         serv_client_quit, handle_request_cd, handle_request_popen,
         handle_request_popen_fails, handle_request_put,
         handle_request_default, handle_put, handle_put_refused,
         handle_get_no_file, handle_get, handle_get_read_error,
         handle_ls_pwd, serv_client_timeout, Dispatch, Garbage

\* The answer that there is no file.
LEMMA DownDenied ==
  ASSUME Inv, UNCHANGED clientVars, ServStep \/ ServFault,
         cpc = "get", GetDenied
  PROVE  GetAnswered'
<1>1. /\ spc = "nofile" /\ c2s = << >> /\ s2c = << >> /\ ~copen /\ cEnd
      /\ UNCHANGED <<cname, copen, local>> /\ cname \in Names
  BY DEF GetDenied, clientVars, clocals, Inv, LoginInv
<1>2. CASE handle_get_no_file
  <2> DEFINE m == Request("NO_FILE", sname)
  <2>1. /\ s2c' = Append(s2c, m) /\ spc' = "select" /\ c2s' = << >>
        /\ UNCHANGED <<remote, scwd>>
    BY <1>1, <1>2
       DEF handle_get_no_file, SockError, ServWrite, ToSelect, sfiles
  <2>2. m \in msg_head_ctrl_t /\ m.command = "NO_FILE" /\ m.data = << >>
    <3>1. sname \in Text /\ << >> \in Seq(Byte) /\ "NO_FILE" \in command_type_t
      BY DEF Inv, TypeOK, ServTypeOK, command_type_t
    <3>2. m.data = << >>
      BY DEF Request, Frame
    <3>3. QED
      BY <3>1, <3>2, FrameType
  <2> HIDE DEF m
  <2>3. Goal.data \in Seq(Byte) /\ Len(Goal.data) \in Nat
    BY <1>1, GoalType DEF Inv
  <2>4. <<0, m, 0>> \in Towards(Goal)
    <3>1. Len(<< >>) = 0 /\ Slice(Goal.data, 0, 0) = << >>
      BY <2>3, SliceNone
    <3>2. QED
      BY <2>2, <2>3, <3>1 DEF Towards
  <2>5. Arriving(0)
    <3>1. Run(<< >>, 0, 0, Nat, Towards(Goal))
      BY RunEmpty
    <3>2. QED
      BY <1>1, <3>1 DEF Arriving, Fetched
  <2>6. Arriving(0)'
    BY <1>1, <2>1, <2>2, <2>4, <2>5, MoreArrives
  <2>7. QED
    BY <2>1, <2>6 DEF GetAnswered
<1>3. CASE serv_client_crash
  BY <1>1, <1>3, NothingArrives DEF serv_client_crash, ToExit, GetAnswered
<1>4. QED
  BY <1>1, <1>2, <1>3
     DEF ServStep, ServFault, authentication, authentication_db_error,
         serv_client_quit, handle_request_cd, handle_request_popen,
         handle_request_popen_fails, handle_request_put, handle_request_get,
         handle_request_get_unopened,
         handle_request_default, handle_put, handle_put_refused,
         handle_get, handle_get_read_error,
         handle_ls_pwd, serv_client_timeout, Dispatch

\* One frame of the file.
LEMMA DownSending ==
  ASSUME Inv, UNCHANGED clientVars, ServStep \/ ServFault,
         cpc = "get", GetSending
  PROVE  GetSending' \/ GetAnswered'
<1>1. /\ spc = "get" /\ c2s = << >> /\ sname = cname /\ scmd = "GET" /\ cEnd
      /\ soff \in Nat /\ soff <= Len(Goal.data) /\ Arriving(soff)
      /\ UNCHANGED <<cname, copen, local>> /\ cname \in Names
      /\ file_exist(Goal) /\ Goal = remote[path]
  BY DEF GetSending, clientVars, clocals, Inv, LoginInv, TypeOK, ServTypeOK,
         Goal, path
<1>2. Goal.data \in Seq(Byte) /\ Len(Goal.data) \in Nat
  BY <1>1, GoalType DEF Inv
<1>3. CASE handle_get
  <2> DEFINE d == BlockAt(Goal.data, soff)
             m == Block(BlockCommand(Len(d), "GET"), d)
  <2>1. /\ s2c' = Append(s2c, m) /\ UNCHANGED <<remote, scwd, c2s>>
        /\ \/ spc' = "select"
           \/ spc' = "get" /\ soff' = soff + Len(d) /\ UNCHANGED <<sname, scmd>>
    BY <1>1, <1>3 DEF handle_get, SockError, ServWrite, ToSelect, sfiles
  <2>2. /\ d \in Seq(Byte) /\ Len(d) \in Nat /\ Len(d) <= MaxReadBytes
        /\ soff + Len(d) <= Len(Goal.data)
        /\ d = Slice(Goal.data, soff, soff + Len(d))
        /\ Len(d) < MaxReadBytes => soff + Len(d) = Len(Goal.data)
    BY <1>1, <1>2, BlockIsSlice
  <2>3. /\ m \in msg_head_ctrl_t /\ m.data = d
        /\ m.command = "END_FILE" => Len(d) < MaxReadBytes
    <3>1. BlockCommand(Len(d), "GET") \in {"END_FILE", "GET"}
          /\ (BlockCommand(Len(d), "GET") = "END_FILE" => Len(d) < MaxReadBytes)
      BY DEF BlockCommand
    <3>2. "END_FILE" \in command_type_t /\ "GET" \in command_type_t /\ BlockName \in Text
      BY DEF command_type_t, Text
    <3>3. m.data = d
      BY DEF Block, Frame
    <3>4. QED
      BY <2>2, <3>1, <3>2, <3>3, FrameType
  <2> HIDE DEF d, m
  <2>4. PICK q \in Nat : q = soff + Len(d) /\ <<soff, m, q>> \in Towards(Goal)
    <3>1. soff + Len(d) \in Nat /\ <<soff, m, soff + Len(d)>> \in Towards(Goal)
      BY <1>1, <2>2, <2>3 DEF Towards
    <3>2. QED
      BY <3>1
  <2>5. Arriving(q)'
    BY <1>1, <2>1, <2>3, <2>4, MoreArrives
  <2>6. Goal' = Goal
    BY <1>1, <2>1 DEF Goal
  <2>7. CASE spc' = "select"
    BY <1>1, <2>1, <2>5, <2>7 DEF GetAnswered
  <2>8. CASE spc' = "get"
    BY <1>1, <2>1, <2>2, <2>4, <2>5, <2>6, <2>8 DEF GetSending
  <2>9. QED
    BY <2>1, <2>7, <2>8
<1>4. CASE handle_get_read_error
  <2> DEFINE m == Block("ERROR_FILE", << >>)
  <2>1. /\ s2c' = Append(s2c, m) /\ UNCHANGED <<remote, scwd, c2s>> /\ spc' = "select"
    BY <1>1, <1>4 DEF handle_get_read_error, SockError, ServWrite, ToSelect, sfiles
  <2>2. m \in msg_head_ctrl_t /\ m.command = "ERROR_FILE" /\ m.data = << >>
    <3>1. BlockName \in Text /\ << >> \in Seq(Byte) /\ "ERROR_FILE" \in command_type_t
      BY DEF Text, command_type_t
    <3>2. m.data = << >>
      BY DEF Block, Frame
    <3>3. QED
      BY <3>1, <3>2, FrameType
  <2> HIDE DEF m
  <2>3. <<soff, m, soff>> \in Towards(Goal)
    <3>1. Len(<< >>) = 0 /\ Slice(Goal.data, soff, soff) = << >>
      BY <1>1, <1>2, SliceNone
    <3>2. QED
      BY <1>1, <2>2, <3>1 DEF Towards
  <2>4. PICK b \in Nat : b = soff
    BY <1>1
  <2>5. Arriving(b)'
    BY <1>1, <2>1, <2>2, <2>3, <2>4, MoreArrives
  <2>6. QED
    BY <1>1, <2>1, <2>5 DEF GetAnswered
<1>5. CASE serv_client_crash
  <2>1. spc' = "exit" /\ UNCHANGED <<s2c, remote, scwd>>
    BY <1>5 DEF serv_client_crash, ToExit, sfiles
  <2>2. PICK b \in Nat : b = soff
    BY <1>1
  <2>3. Arriving(b)'
    BY <1>1, <2>1, <2>2, StillArrives
  <2>4. QED
    BY <2>1, <2>3 DEF GetAnswered
<1>6. QED
  BY <1>1, <1>3, <1>4, <1>5
     DEF ServStep, ServFault, authentication, authentication_db_error,
         serv_client_quit, handle_request_cd, handle_request_popen,
         handle_request_popen_fails, handle_request_put, handle_request_get,
         handle_request_get_unopened,
         handle_request_default, handle_put, handle_put_refused,
         handle_get_no_file, handle_ls_pwd, serv_client_timeout, Dispatch

\* An idle child that has nothing to read can only end.
LEMMA IdleChild ==
  ASSUME ServStep \/ ServFault, spc \in {"select", "exit"},
         c2s = << >>, cEnd \/ spc = "exit"
  PROVE  spc = "select" /\ spc' = "exit" /\ soff' = 0
         /\ UNCHANGED <<c2s, s2c, remote, scwd>>
BY DEF ServStep, ServFault, authentication, authentication_db_error,
       serv_client_quit, handle_request_cd, handle_request_popen,
       handle_request_popen_fails, handle_request_put, handle_request_get,
       handle_request_get_unopened, handle_request_default, handle_put,
       handle_put_refused, handle_get_no_file, handle_get,
       handle_get_read_error, handle_ls_pwd, serv_client_timeout,
       serv_client_crash, Dispatch, ServReadable, ToExit, ForgetLocals, sfiles

LEMMA DownServ ==
  ASSUME Inv, DownInv, UNCHANGED clientVars, ServStep \/ ServFault
  PROVE  DownInv'
<1>1. spc' # "get" => soff' = 0
  <2>1. CASE ToSelect \/ ToExit
    BY <2>1 DEF ToSelect, ToExit, ForgetLocals
  <2>2. CASE UNCHANGED soff /\ spc # "get"
    BY <2>2 DEF DownInv
  <2>3. CASE spc' = "get"
    BY <2>3
  <2>4. QED
    BY <2>1, <2>2, <2>3
       DEF ServStep, ServFault, authentication, authentication_db_error,
           serv_client_quit, handle_request_cd, handle_request_popen,
           handle_request_popen_fails, handle_request_get,
           handle_request_get_unopened, handle_request_put,
           handle_request_default, handle_put, handle_put_refused,
           handle_get_no_file, handle_get, handle_get_read_error,
           handle_ls_pwd, serv_client_timeout, serv_client_crash, SockError,
           Dispatch, Keep, slocals
<1>2. UNCHANGED <<cpc, ccmd, cname, copen, local>>
  BY DEF clientVars, clocals
<1>3. cpc \in {"send", "get"} => cEnd
  BY DEF Inv, LoginInv
<1>4. CASE cpc = "send" /\ ccmd = "GET"
  <2>1. c2s = << >> /\ s2c = << >> /\ spc \in {"select", "exit"}
    BY <1>4 DEF DownInv
  <2>2. spc' = "exit" /\ UNCHANGED <<c2s, s2c>>
    BY <1>3, <1>4, <2>1, IdleChild
  <2>3. QED
    BY <1>1, <1>2, <1>4, <2>1, <2>2 DEF DownInv
<1>5. CASE cpc = "get"
  <2>1. GetRequested' \/ GetDenied' \/ GetSending' \/ GetAnswered'
    <3>1. CASE GetAnswered /\ spc = "select"
      <4>1. spc' = "exit" /\ soff' = 0 /\ UNCHANGED <<c2s, s2c, remote, scwd>>
        BY <1>3, <1>5, <3>1, IdleChild DEF GetAnswered
      <4>2. QED
        BY <1>5, <4>1, DownEnds
    <3>2. CASE spc = "exit"
      BY <3>2
         DEF ServStep, ServFault, authentication, authentication_db_error,
             serv_client_quit, handle_request_cd, handle_request_popen,
             handle_request_popen_fails, handle_request_put, handle_request_get,
             handle_request_get_unopened, handle_request_default, handle_put,
             handle_put_refused, handle_get_no_file, handle_get,
             handle_get_read_error, handle_ls_pwd, serv_client_timeout,
             serv_client_crash, Dispatch
    <3>3. CASE GetRequested \/ GetDenied \/ GetSending
      BY <1>5, <3>3, DownRequested, DownDenied, DownSending
    <3>4. QED
      BY <1>5, <3>1, <3>2, <3>3 DEF DownInv, GetAnswered
  <2>2. QED
    BY <1>1, <1>2, <1>5, <2>1 DEF DownInv
<1>6. CASE cpc # "get" /\ ~(cpc = "send" /\ ccmd = "GET")
  BY <1>1, <1>2, <1>6 DEF DownInv
<1>7. QED
  BY <1>4, <1>5, <1>6

-----------------------------------------------------------------------------
(***************************************************************************)
(* The steps of the client.                                                *)
(***************************************************************************)

\* A frame that the client can write away continues what it has written; at
\* the end of a closed connection it is the cleared buffer, and adds nothing.
LEMMA Fetches ==
  ASSUME Inv, GetWritable, NEW b \in Nat, Arriving(b)
  PROVE  \E c \in Nat :
           /\ Run(s2c', c, b, Nat, Towards(Goal)) /\ c <= Len(Goal.data)
           /\ local[cname].data \o ClientFrame.data = Slice(Goal.data, 0, c)
           /\ ClientFrame.command = "END_FILE" => file_exist(Goal) /\ c = Len(Goal.data)
<1>1. /\ cpc = "get" /\ ClientReadable /\ ClientConsume /\ cname \in Names
      /\ copen \/ local[cname].kind = "none"
      /\ TypeOK /\ s2c \in Seq(msg_head_ctrl_t) /\ copen \in BOOLEAN
      /\ local[cname] \in Entry
  BY DEF GetWritable, GetRead, Inv, LoginInv, TypeOK, LinkTypeOK, ClientTypeOK
<1>2. PICK a \in Nat : Run(s2c, a, b, Nat, Towards(Goal)) /\ Fetched(a)
  BY DEF Arriving
<1>3. Goal.data \in Seq(Byte) /\ Len(Goal.data) \in Nat
  BY <1>1, GoalType
<1>4. a <= Len(Goal.data) /\ local[cname].data = Slice(Goal.data, 0, a)
  <2>1. CASE copen
    BY <1>2, <2>1 DEF Fetched, RegularFile
  <2>2. CASE ~copen
    <3>1. local[cname].data = << >>
      BY <1>1, <2>2, NoneIsNoEntry DEF NoEntry
    <3>2. a = 0 /\ Slice(Goal.data, 0, 0) = << >>
      BY <1>2, <1>3, <2>2, SliceNone DEF Fetched
    <3>3. QED
      BY <1>3, <3>1, <3>2
  <2>3. QED
    BY <1>1, <2>1, <2>2
<1>5. CASE s2c = << >>
  <2>1. s2c' = s2c /\ ClientFrame = ZeroFrame
    BY <1>1, <1>5 DEF ClientConsume, ClientFrame
  <2>2. ClientFrame.data = << >> /\ ClientFrame.command # "END_FILE"
    BY <2>1, ZeroFrameType DEF ZeroCommand
  <2>3. local[cname].data \o << >> = local[cname].data
    <3>1. local[cname].data \in Seq(Byte)
      BY <1>1, EntryData
    <3>2. QED
      BY <3>1
  <2>4. QED
    BY <1>2, <1>4, <2>1, <2>2, <2>3
<1>6. CASE s2c # << >>
  <2>1. s2c' = Tail(s2c) /\ ClientFrame = Head(s2c)
    BY <1>1, <1>6 DEF ClientConsume, ClientFrame
  <2>2. PICK c \in Nat : <<a, ClientFrame, c>> \in Towards(Goal)
                         /\ Run(s2c', c, b, Nat, Towards(Goal))
    BY <1>1, <1>2, <1>6, <2>1, RunTail
  <2>3. /\ c <= Len(Goal.data) /\ ClientFrame.data = Slice(Goal.data, a, c)
        /\ c = a + Len(ClientFrame.data) /\ ClientFrame \in msg_head_ctrl_t
        /\ ClientFrame.command = "END_FILE" => file_exist(Goal) /\ c = Len(Goal.data)
    BY <2>2 DEF Towards
  <2>4. a <= c
    <3>1. Len(ClientFrame.data) \in Nat
      BY <2>3 DEF msg_head_ctrl_t
    <3>2. QED
      BY <2>3, <3>1
  <2>5. Slice(Goal.data, 0, a) \o Slice(Goal.data, a, c) = Slice(Goal.data, 0, c)
    BY <1>3, <2>3, <2>4, SliceJoin
  <2>6. QED
    BY <1>4, <2>2, <2>3, <2>5
<1>7. QED
  BY <1>5, <1>6

\* A frame comes only of an answer.
LEMMA ReadIsAnswer ==
  ASSUME Inv, DownInv, cpc = "get", ClientReadable
  PROVE  \/ GetSending /\ soff \in Nat
         \/ GetAnswered
BY DEF Inv, LoginInv, DownInv, ClientReadable, GetRequested, GetDenied,
       TypeOK, ServTypeOK

LEMMA DownFetches ==
  ASSUME Inv, DownInv, UNCHANGED servVars, get_file_from_server
  PROVE  DownInv'
<1>1. /\ GetWritable /\ cpc = "get" /\ ClientReadable /\ UNCHANGED <<c2s, sEnds>>
      /\ local' = [local EXCEPT ![cname] =
                     RegularFile(local[cname].data \o ClientFrame.data)]
      /\ cname \in Names /\ local \in [Names -> Entry]
  BY DEF get_file_from_server, GetWritable, GetRead, Inv, LoginInv, TypeOK, ClientTypeOK
<1>2. UNCHANGED <<spc, scmd, sname, soff, remote, scwd>>
  BY DEF servVars, slocals, sfiles
<1>3. CASE cpc' = "main"
  <2>1. ~copen'
    BY <1>1, <1>3 DEF get_file_from_server, GetReturn, ToMain, ForgetRequest
  <2>2. QED
    BY <1>2, <1>3, <2>1 DEF DownInv
<1>4. CASE cpc' # "main"
  <2>1. copen' = TRUE /\ UNCHANGED <<cpc, cname>>
    BY <1>4 DEF get_file_from_server, GetReturn, ToMain
  <2>2. Goal' = Goal /\ Towards(Goal)' = Towards(Goal)
    BY <1>2, <2>1 DEF Goal, Towards
  <2>3. ASSUME NEW b \in Nat, Arriving(b) PROVE Arriving(b)'
    <3>1. PICK c \in Nat :
            /\ Run(s2c', c, b, Nat, Towards(Goal)) /\ c <= Len(Goal.data)
            /\ local[cname].data \o ClientFrame.data = Slice(Goal.data, 0, c)
      BY <1>1, <2>3, Fetches
    <3>2. local'[cname] = RegularFile(Slice(Goal.data, 0, c))
      BY <1>1, <3>1
    <3>3. Fetched(c)'
      BY <2>1, <2>2, <3>1, <3>2 DEF Fetched
    <3>4. QED
      BY <2>2, <3>1, <3>3 DEF Arriving
  <2>4. CASE GetSending /\ soff \in Nat
    <3>1. PICK b \in Nat : b = soff
      BY <2>4
    <3>2. Arriving(b)'
      BY <2>3, <2>4, <3>1 DEF GetSending
    <3>3. GetSending'
      BY <1>1, <1>2, <2>1, <2>2, <2>4, <3>1, <3>2 DEF GetSending
    <3>4. QED
      BY <1>1, <1>2, <2>1, <3>3 DEF DownInv
  <2>5. CASE GetAnswered
    <3>1. GetAnswered'
      BY <1>1, <1>2, <2>3, <2>5 DEF GetAnswered
    <3>2. QED
      BY <1>1, <1>2, <2>1, <3>1 DEF DownInv
  <2>6. QED
    BY <1>1, <2>4, <2>5, ReadIsAnswer
<1>5. QED
  BY <1>3, <1>4

LEMMA DownSend ==
  ASSUME Inv, DownInv, UNCHANGED servVars, send_command_to_server
  PROVE  DownInv'
<1>1. /\ cpc = "send" /\ ClientWrite(Request(ccmd, cname)) /\ UNCHANGED <<s2c, local>>
      /\ ~copen /\ UNCHANGED <<spc, soff, remote, scwd>>
      /\ spc # "exit" => sEnds # {}
  BY DEF send_command_to_server, DownInv, servVars, slocals, sfiles, Inv, LoginInv
<1>2. CASE ccmd = "GET"
  <2>1. c2s = << >> /\ s2c = << >> /\ spc \in {"select", "exit"}
        /\ cpc' = "get" /\ UNCHANGED <<cname, copen>>
    BY <1>1, <1>2 DEF DownInv, send_command_to_server, clocals
  <2>2. CASE spc = "select"
    <3>1. c2s' = <<Request("GET", cname')>>
      BY <1>1, <1>2, <2>1, <2>2 DEF ClientWrite
    <3>2. QED
      BY <1>1, <2>1, <2>2, <3>1 DEF GetRequested, DownInv
  <2>3. CASE spc = "exit"
    <3>1. Arriving(0)'
      BY <1>1, <2>1, NothingArrives
    <3>2. QED
      BY <1>1, <2>1, <2>3, <3>1 DEF GetAnswered, DownInv
  <2>4. QED
    BY <2>1, <2>2, <2>3
<1>3. CASE ccmd # "GET"
  <2>1. cpc' \in {"main", "put", "exit"} /\ (cpc' # "put" => ~copen')
    BY <1>3 DEF send_command_to_server, ToMain, ToEnd, ForgetRequest
  <2>2. QED
    BY <1>1, <2>1 DEF DownInv
<1>4. QED
  BY <1>2, <1>3

\* The steps that neither belong to a download nor start one.
LEMMA DownElsewhere ==
  ASSUME DownInv, UNCHANGED servVars,
         cpc' \notin {"get", "send"}, cpc' # "put" => ~copen'
  PROVE  DownInv'
BY DEF DownInv, servVars, slocals

LEMMA DownClient ==
  ASSUME Inv, DownInv, UNCHANGED servVars, login \/ ClientStep \/ ClientFault
  PROVE  DownInv'
<1>1. CASE send_command_to_server
  BY <1>1, DownSend
<1>2. CASE get_file_from_server
  BY <1>2, DownFetches
<1>3. CASE ToMain \/ ToEnd
  BY <1>3, DownElsewhere DEF ToMain, ToEnd, ForgetRequest
<1>4. CASE login \/ login_verdict \/ handle_server_ack
  BY <1>4, DownElsewhere
     DEF login, login_verdict, handle_server_ack, clocals, DownInv
<1>5. CASE put_file_to_server \/ put_file_to_server_unopened
  BY <1>3, <1>5, DownElsewhere
     DEF put_file_to_server, put_file_to_server_unopened, clocals, DownInv
<1>6. QED
  BY <1>1, <1>2, <1>3, <1>4, <1>5
     DEF ClientStep, ClientFault, handle_server_ack_lost, client_sock_error,
         get_no_file, get_unopened, get_write_error, GetFailed, GetReturn,
         client_crash

\* A reset shortens the answer and takes nothing else from a download.
LEMMA DownReset ==
  ASSUME Inv, DownInv, reset_by_server
  PROVE  DownInv'
<1>1. /\ spc = "exit" /\ UNCHANGED <<spc, soff, remote, scwd, c2s>>
      /\ UNCHANGED <<cpc, ccmd, cname, copen, local>>
  BY DEF reset_by_server, Inv, LoginInv, servVars, slocals, sfiles, clientVars, clocals
<1>2. /\ s2c \in Seq(msg_head_ctrl_t) /\ Len(s2c) \in Nat
      /\ \E n \in 0 .. Len(s2c) : n # Len(s2c) /\ s2c' = SubSeq(s2c, 1, n)
  BY DEF reset_by_server, Cut, Inv, TypeOK, LinkTypeOK
<1>3. s2c # << >>
  BY <1>2
<1>4. CASE cpc = "get"
  <2>1. PICK b \in Nat : Arriving(b)
    BY <1>1, <1>4 DEF DownInv, GetRequested, GetDenied, GetSending, GetAnswered
  <2>2. PICK a \in Nat : Run(s2c, a, b, Nat, Towards(Goal)) /\ Fetched(a)
    BY <2>1 DEF Arriving
  <2>3. PICK c \in Nat : Run(s2c', a, c, Nat, Towards(Goal))
    BY <1>2, <2>2, RunFront
  <2>4. Goal' = Goal /\ Towards(Goal)' = Towards(Goal) /\ Fetched(a)'
    BY <1>1, <2>2 DEF Goal, Towards, Fetched
  <2>5. Arriving(c)'
    BY <2>3, <2>4 DEF Arriving
  <2>6. QED
    BY <1>1, <1>4, <2>5 DEF DownInv, GetAnswered
<1>5. CASE cpc # "get"
  BY <1>1, <1>3, <1>5 DEF DownInv
<1>6. QED
  BY <1>4, <1>5

LEMMA DownNext ==
  ASSUME Settled, Inv, DownInv, [Next]_vars
  PROVE  DownInv'
<1>1. CASE ServAct \/ (ServFault /\ UNCHANGED clientVars)
  BY <1>1, DownServ DEF ServAct
<1>2. CASE ClientAct \/ (ClientFault /\ UNCHANGED servVars)
           \/ (login /\ UNCHANGED servVars)
  BY <1>2, DownClient DEF ClientAct
<1>3. CASE UserAct /\ ~login
  <2>1. PICK type \in UserCommands :
          \E arg \in Arguments(type) :
            Quiet /\ handle_user_input(type, arg) /\ UNCHANGED servVars
    BY <1>3 DEF UserAct
  <2>2. /\ cpc = "main" /\ cpc' = "send" /\ UNCHANGED <<copen, c2s, s2c>>
        /\ c2s = << >> /\ s2c = << >> /\ spc \in {"select", "exit"}
        /\ UNCHANGED <<spc, soff>>
    BY <2>1 DEF handle_user_input, Quiet, linkVars, servVars, slocals
  <2>3. QED
    BY <2>2 DEF DownInv
<1>4. CASE parent_exit \/ UNCHANGED vars
  <2>1. UNCHANGED <<c2s, s2c, spc, scmd, sname, soff, remote, scwd,
                    cpc, ccmd, cname, copen, local>>
    BY <1>4
       DEF parent_exit, vars, linkVars, servVars, slocals, sfiles, clientVars, clocals
  <2>2. \A b : Arriving(b) => Arriving(b)'
    BY <2>1, StillArrives
  <2>3. Goal' = Goal
    BY <2>1 DEF Goal
  <2>4. GetSending => GetSending'
    BY <2>1, <2>2, <2>3 DEF GetSending
  <2>5. GetAnswered => GetAnswered'
    BY <2>1, <2>2 DEF GetAnswered
  <2>6. QED
    BY <2>1, <2>4, <2>5 DEF DownInv, GetRequested, GetDenied
<1>5. CASE reset_by_client
  <2>1. cpc = "exit" /\ UNCHANGED <<spc, soff, cpc, copen>>
    BY <1>5 DEF reset_by_client, Inv, LoginInv, servVars, slocals, clientVars, clocals
  <2>2. QED
    BY <2>1 DEF DownInv
<1>6. CASE reset_by_server
  BY <1>6, DownReset
<1>7. QED
  BY <1>1, <1>2, <1>3, <1>4, <1>5, <1>6 DEF Next, Fault, UserAct, Reset

LEMMA DownInit == Init => DownInv
BY DEF Init, LinkInit, ServInit, ClientInit, DownInv

\* A session whose user waits for every answer is, while a download lasts, in
\* one of its phases, whatever fails.
THEOREM DownloadPhases ==
  ASSUME Settled
  PROVE  Spec => []DownInv
<1>1. Inv /\ DownInv /\ [Next]_vars => DownInv'
  BY DownNext
<1>2. QED
  BY <1>1, DownInit, Invariance, PTL DEF Spec

\* What the last frame of a download leaves in the user's directory.
LEMMA Downloaded ==
  ASSUME Inv, DownInv, get_file_from_server, cpc' # "get"
  PROVE  /\ cpc' = "main" /\ cname \in Names
         /\ file_exist(Goal) /\ local' = [local EXCEPT ![cname] = Goal]
<1>1. /\ cpc' = "main" /\ ClientFrame.command = "END_FILE" /\ GetWritable
      /\ cpc = "get" /\ ClientReadable /\ cname \in Names /\ TypeOK
      /\ local' = [local EXCEPT ![cname] =
                     RegularFile(local[cname].data \o ClientFrame.data)]
  BY DEF get_file_from_server, GetReturn, ToMain, GetWritable, GetRead, Inv,
         LoginInv
<1>2. PICK b \in Nat : Arriving(b)
  BY <1>1, ReadIsAnswer DEF GetSending, GetAnswered
<1>3. /\ local[cname].data \o ClientFrame.data = Slice(Goal.data, 0, Len(Goal.data))
      /\ file_exist(Goal)
  BY <1>1, <1>2, Fetches
<1>4. Goal \in Entry /\ Goal.data \in Seq(Byte)
  BY <1>1, GoalType
<1>5. RegularFile(Goal.data) = Goal
  <2>1. Goal \in [kind : {"file"}, data : Seq(Byte)]
    BY <1>3, <1>4 DEF Entry, file_exist
  <2>2. QED
    BY <2>1 DEF RegularFile
<1>6. QED
  BY <1>1, <1>3, <1>4, <1>5, SliceAll

\* get_file_from_server leaves the server's file or no file behind, whatever
\* fails on either side, for files of any length and blocks of any size: the
\* blocks join without a gap, and no frame before the end of the file passes
\* for its last. Without Settled an answer to an earlier command may be taken
\* for the file.
THEOREM DownloadExactEver ==
  ASSUME Settled
  PROVE  Spec => DownloadExact
<1>1. ASSUME Inv, DownInv, [Next]_vars,
             cpc = "get", cpc' = "main", local'[cname] # NoEntry
      PROVE  local'[cname] = Goal
  <2>1. CASE get_file_from_server
    <3>1. local' = [local EXCEPT ![cname] = Goal] /\ cname \in Names
      BY <1>1, <2>1, Downloaded
    <3>2. QED
      BY <1>1, <3>1 DEF Inv, TypeOK, ClientTypeOK
  <2>2. CASE GetFailed
    <3>1. local'[cname] = NoEntry
      BY <1>1, <2>2 DEF GetFailed, Inv, LoginInv, TypeOK, ClientTypeOK
    <3>2. QED
      BY <1>1, <3>1
  <2>3. QED
    BY <1>1, <2>1, <2>2
       DEF Next, ServAct, ClientAct, UserAct, Fault, parent_exit, Reset,
           reset_by_client, reset_by_server, vars,
           clientVars, ClientStep, ClientFault, login, login_verdict,
           handle_server_ack, handle_server_ack_lost, handle_user_input,
           send_command_to_server, client_sock_error, put_file_to_server,
           put_file_to_server_unopened, get_no_file, get_unopened,
           get_write_error, client_crash, ToEnd
<1>2. Inv /\ DownInv /\ [Next]_vars
      => [ cpc = "get" /\ cpc' = "main" /\ local'[cname] # NoEntry
           => local'[cname] = remote[<<scwd, cname>>] ]_vars
  BY <1>1 DEF Goal
<1>3. QED
  BY <1>2, DownloadPhases, Invariance, PTL DEF Spec, DownloadExact

-----------------------------------------------------------------------------
(***************************************************************************)
(* The session implements FileService.                                     *)
(***************************************************************************)

\* What FileService sees of a step.
SeenStep == [Seen!ServiceNext]_(Seen!svars)

\* Without an upload in progress it sees the server's files as they are.
LEMMA SeesRemote ==
  ASSUME ~sopen \/ sname \notin Names
  PROVE  remoteSeen = remote
BY DEF remoteSeen

\* A file that is being written does not exist for it, and did not before.
LEMMA SeesNoUpload ==
  ASSUME Inv, handle_put, sname \in Names
  PROVE  path \in Paths /\ remoteSeen = [remote EXCEPT ![path] = NoEntry]
<1>1. path \in Paths /\ remote \in [Paths -> Entry] /\ sopen \in BOOLEAN
      /\ spc = "put"
  BY DEF path, Paths, Inv, TypeOK, ServTypeOK, handle_put
<1>2. CASE sopen
  BY <1>1, <1>2 DEF remoteSeen
<1>3. CASE ~sopen
  <2>1. remote[path] = NoEntry
    BY <1>1, <1>3, NoneIsNoEntry, ProtocolAssumption DEF handle_put, CanCreate
  <2>2. QED
    BY <1>1, <1>3, <2>1 DEF remoteSeen
<1>4. QED
  BY <1>1, <1>2, <1>3

LEMMA SeesNoDownload ==
  ASSUME Inv, LocalInv, cpc = "get"
  PROVE  localSeen = [local EXCEPT ![cname] = NoEntry]
<1>1. cname \in Names /\ local \in [Names -> Entry]
  BY DEF Inv, LoginInv, TypeOK, ClientTypeOK
<1>2. ~copen => local[cname] = NoEntry
  <2>1. ~copen => local[cname].kind = "none"
    BY <1>1 DEF LocalInv, file_exist, Entry
  <2>2. QED
    BY <1>1, <2>1, NoneIsNoEntry
<1>3. QED
  BY <1>1, <1>2 DEF localSeen

\* put: what is uploaded appears with its last block.
LEMMA SeenPut ==
  ASSUME Faults \cap {"swrite", "reuse"} = {}, Spelled \cap Names = {},
         Inv, UpInv, handle_put, UNCHANGED clientVars
  PROVE  SeenStep
<1>1. localSeen' = localSeen /\ UNCHANGED <<sdirs, scwd>>
  BY DEF localSeen, clientVars, clocals, handle_put
<1>2. sopen' => spc' = "put" /\ sname' = sname
  BY DEF handle_put, ToSelect, ForgetLocals
<1>3. sname \in Names
  BY DEF handle_put
<1>4. path \in Paths /\ remoteSeen = [remote EXCEPT ![path] = NoEntry]
      /\ remote \in [Paths -> Entry]
  BY <1>3, SeesNoUpload DEF Inv, TypeOK, ServTypeOK
<1>5. PICK x : remote' = [remote EXCEPT ![path] = x]
  BY <1>3 DEF handle_put
<1>6. CASE spc' = "put"
  <2>1. sopen' = TRUE /\ sname' = sname /\ path' = path
    BY <1>1, <1>6 DEF handle_put, ToSelect, path
  <2>2. remoteSeen' = [remote' EXCEPT ![path] = NoEntry]
    BY <1>3, <1>6, <2>1 DEF remoteSeen
  <2>3. remoteSeen' = remoteSeen
    BY <1>4, <1>5, <2>2
  <2>4. QED
    BY <1>1, <2>3 DEF SeenStep, Seen!svars
<1>7. CASE spc' # "put"
  <2>1. Kept(sname) /\ remote'[path] = local[sname]
    BY <1>3, <1>7, UploadedWhole
  <2>2. remoteSeen' = remote'
    BY <1>7 DEF remoteSeen
  <2>3. localSeen[sname] = local[sname]
    BY <2>1 DEF localSeen, Kept, Inv, TypeOK, ClientTypeOK
  <2>4. remote' = [remoteSeen EXCEPT ![path] = localSeen[sname]]
    BY <1>4, <1>5, <2>1, <2>3
  <2>5. remoteSeen[path] = NoEntry
    BY <1>4
  <2>6. Seen!Upload(sname)
    BY <1>1, <2>1, <2>2, <2>3, <2>4, <2>5 DEF Seen!Upload, Seen!file_exist, Kept, file_exist, path, Seen!NoEntry, NoEntry
  <2>7. QED
    BY <1>3, <2>6 DEF SeenStep, Seen!ServiceNext
<1>8. QED
  BY <1>6, <1>7

\* cd, mkdir and rm take effect at the request; no other step of the child is
\* seen.
LEMMA SeenServ ==
  ASSUME Faults \cap {"swrite", "reuse", "crash"} = {}, Spelled \cap Names = {},
         Inv, UpInv, ServStep \/ ServFault, UNCHANGED clientVars
  PROVE  SeenStep
<1>1. localSeen' = localSeen
  BY DEF localSeen, clientVars, clocals
<1>2. CASE handle_put
  BY <1>2, SeenPut
<1>3. CASE ~handle_put
  <2>1. ~sopen
    <3>1. spc = "put" => ~sopen
      BY <1>3
         DEF ServStep, ServFault, authentication, authentication_db_error,
             serv_client_quit, handle_request_cd, handle_request_popen,
             handle_request_popen_fails, handle_request_get,
             handle_request_get_unopened, handle_request_put,
             handle_request_default, handle_put_refused, handle_get_no_file,
             handle_get, handle_get_read_error, handle_ls_pwd,
             serv_client_timeout, serv_client_crash, Dispatch
    <3>2. QED
      BY <3>1 DEF UpInv, Asked
  <2>2. ~sopen'
    BY <1>3, <2>1
       DEF ServStep, ServFault, authentication, authentication_db_error,
           serv_client_quit, handle_request_cd, handle_request_popen,
           handle_request_popen_fails, handle_request_get,
           handle_request_get_unopened, handle_request_put,
           handle_request_default, handle_put_refused, handle_get_no_file,
           handle_get, handle_get_read_error, handle_ls_pwd,
           serv_client_timeout, serv_client_crash, Dispatch, SockError,
           ToSelect, ToExit, ForgetLocals, slocals
  <2>3. remoteSeen = remote /\ remoteSeen' = remote'
    BY <2>1, <2>2 DEF remoteSeen
  <2>4. CASE UNCHANGED sfiles
    BY <1>1, <2>3, <2>4 DEF SeenStep, Seen!svars, sfiles
  <2>5. CASE handle_request_cd
    <3>1. PICK d : /\ UNCHANGED <<remote, sdirs>>
                   /\ scwd' = IF d \in sdirs THEN d ELSE scwd
      BY <2>5 DEF handle_request_cd
    <3>2. sdirs \subseteq Dirs
      BY DEF Inv, TypeOK, ServTypeOK
    <3>3. CASE d \in sdirs
      <4>1. Seen!ChangeDirectory(d)
        BY <1>1, <2>3, <3>1, <3>3 DEF Seen!ChangeDirectory
      <4>2. QED
        BY <3>2, <3>3, <4>1 DEF SeenStep, Seen!ServiceNext
    <3>4. CASE d \notin sdirs
      BY <1>1, <2>3, <3>1, <3>4 DEF SeenStep, Seen!svars
    <3>5. QED
      BY <3>3, <3>4
  <2>6. CASE handle_request_popen
    <3>1. PICK n : RunCommand(ServFrame.command, n)
      BY <2>6 DEF handle_request_popen
    <3>2. CASE ServFrame.command = "RM" /\ n \in Names
      <4>1. Seen!Remove(n)
        BY <1>1, <2>3, <3>1, <3>2 DEF RunCommand, Seen!Remove, Seen!NoEntry, NoEntry
      <4>2. QED
        BY <3>2, <4>1 DEF SeenStep, Seen!ServiceNext
    <3>3. CASE ServFrame.command = "MKDIR" /\ n \in Dirs
      <4>1. Seen!MakeDirectory(n)
        BY <1>1, <2>3, <3>1, <3>3 DEF RunCommand, Seen!MakeDirectory
      <4>2. QED
        BY <3>3, <4>1 DEF SeenStep, Seen!ServiceNext
    <3>4. CASE /\ ~(ServFrame.command = "RM" /\ n \in Names)
               /\ ~(ServFrame.command = "MKDIR" /\ n \in Dirs)
      <4>1. UNCHANGED <<remote, sdirs, scwd>>
        BY <3>1, <3>4 DEF RunCommand
      <4>2. QED
        BY <1>1, <2>3, <4>1 DEF SeenStep, Seen!svars
    <3>5. QED
      BY <3>2, <3>3, <3>4
  <2>7. QED
    BY <1>3, <2>4, <2>5, <2>6
       DEF ServStep, ServFault, authentication, authentication_db_error,
           serv_client_quit, handle_request_popen_fails, handle_request_get,
           handle_request_get_unopened, handle_request_put,
           handle_request_default, handle_put_refused, handle_get_no_file,
           handle_get, handle_get_read_error, handle_ls_pwd,
           serv_client_timeout, serv_client_crash
<1>4. QED
  BY <1>2, <1>3

\* get: what is downloaded appears with its last block, or what was written
\* of it is taken back unseen.
LEMMA SeenGet ==
  ASSUME Inv, LocalInv, DownInv, UNCHANGED servVars,
         get_file_from_server \/ GetFailed, cpc = "get"
  PROVE  SeenStep
<1>1. remoteSeen' = remoteSeen /\ UNCHANGED <<sdirs, scwd>>
  BY DEF remoteSeen, servVars, slocals, sfiles, path
<1>2. /\ cname \in Names /\ local \in [Names -> Entry]
      /\ localSeen = [local EXCEPT ![cname] = NoEntry]
  BY SeesNoDownload DEF Inv, LoginInv, TypeOK, ClientTypeOK
<1>3. CASE GetFailed
  <2>1. cpc' = "main" /\ local' = [local EXCEPT ![cname] = NoEntry]
    BY <1>3 DEF GetFailed, GetReturn, ToMain
  <2>2. localSeen' = localSeen
    BY <1>2, <2>1 DEF localSeen
  <2>3. QED
    BY <1>1, <2>2 DEF SeenStep, Seen!svars
<1>4. CASE get_file_from_server /\ cpc' = "get"
  <2>1. copen' = TRUE /\ cname' = cname
    BY <1>4 DEF get_file_from_server, GetReturn, ToMain
  <2>2. PICK x : local' = [local EXCEPT ![cname] = x]
    BY <1>4 DEF get_file_from_server
  <2>3. localSeen' = [local' EXCEPT ![cname] = NoEntry]
    BY <1>4, <2>1 DEF localSeen
  <2>4. localSeen' = localSeen
    BY <1>2, <2>2, <2>3
  <2>5. QED
    BY <1>1, <2>4 DEF SeenStep, Seen!svars
<1>5. CASE get_file_from_server /\ cpc' # "get"
  <2>1. file_exist(Goal) /\ local' = [local EXCEPT ![cname] = Goal]
    BY <1>5, Downloaded
  <2>2. localSeen' = local' /\ localSeen[cname] = NoEntry
    BY <1>2, <1>5 DEF localSeen
  <2>3. local' = [localSeen EXCEPT ![cname] = Goal]
    BY <1>2, <2>1
  <2>4. remoteSeen[<<scwd, cname>>] = Goal
    <3>1. spc # "put"
      BY <1>5, ReadIsAnswer
         DEF get_file_from_server, GetWritable, GetRead, GetSending, GetAnswered
    <3>2. QED
      BY <3>1 DEF remoteSeen, Goal
  <2>5. Seen!Download(cname)
    BY <1>1, <2>1, <2>2, <2>3, <2>4
       DEF Seen!Download, Seen!NoEntry, NoEntry, Seen!file_exist, file_exist
  <2>6. QED
    BY <1>2, <2>5 DEF SeenStep, Seen!ServiceNext
<1>6. QED
  BY <1>3, <1>4, <1>5

LEMMA SeenClient ==
  ASSUME "kill" \notin Faults, Inv, LocalInv, DownInv, UNCHANGED servVars,
         \/ login \/ ClientStep \/ ClientFault
         \/ \E type \in UserCommands : \E arg \in Arguments(type) :
              handle_user_input(type, arg)
  PROVE  SeenStep
<1>1. remoteSeen' = remoteSeen /\ UNCHANGED <<sdirs, scwd>>
  BY DEF remoteSeen, servVars, slocals, sfiles, path
<1>2. CASE get_no_file \/ get_unopened \/ get_write_error \/ get_file_from_server
  BY <1>2, SeenGet
     DEF get_no_file, get_unopened, get_write_error, get_file_from_server,
         GetWritable, GetRead
<1>3. CASE /\ UNCHANGED local /\ cpc # "get"
           /\ cpc' = "get" => ~copen'
  <2>1. localSeen' = localSeen
    BY <1>3 DEF localSeen
  <2>2. QED
    BY <1>1, <2>1 DEF SeenStep, Seen!svars
<1>4. CASE send_command_to_server
  BY <1>3, <1>4 DEF send_command_to_server, ToMain, ToEnd, clocals, DownInv
<1>5. QED
  BY <1>2, <1>3, <1>4
     DEF ClientStep, ClientFault, login, login_verdict, handle_server_ack,
         handle_server_ack_lost, client_sock_error, put_file_to_server,
         put_file_to_server_unopened, client_crash, ToMain, ToEnd, handle_user_input

LEMMA SeenNext ==
  ASSUME Faults \cap {"swrite", "reuse", "crash", "kill"} = {},
         Spelled \cap Names = {}, Inv, UpInv, LocalInv, DownInv, [Next]_vars
  PROVE  SeenStep
<1>1. CASE ServAct \/ (ServFault /\ UNCHANGED clientVars)
  BY <1>1, SeenServ DEF ServAct
<1>2. CASE ClientAct \/ UserAct \/ (ClientFault /\ UNCHANGED servVars)
  BY <1>2, SeenClient DEF ClientAct, UserAct
<1>3. CASE UNCHANGED <<servVars, clientVars>>
  BY <1>3
     DEF servVars, slocals, sfiles, clientVars, clocals, remoteSeen, localSeen,
         path, SeenStep, Seen!svars
<1>4. QED
  BY <1>1, <1>2, <1>3 DEF Next, Fault, parent_exit, Reset, reset_by_client, reset_by_server, vars

\* To its user a session is a pair of directories and commands that each take
\* effect whole or not at all, whatever blocks the transfers are cut into,
\* provided the user waits for the answers, keeps regular files only, none of
\* which has a block that spells a file name (a block of a refused upload is
\* taken for a request, and may then begin a file of that name), and nothing
\* fails that neither end looks at (a write of the server's, the
\* command field of a full block) or that leaves half a file behind (either
\* end killed within a transfer).
THEOREM SessionImplementsFileService ==
  ASSUME Settled, SpecialEntry \notin ClientFiles, Spelled \cap Names = {},
         Faults \cap {"swrite", "reuse", "crash", "kill"} = {}
  PROVE  Spec => ImplementsFileService
<1>1. Init => Seen!ServiceInit
  BY DEF Init, ServInit, ClientInit, Seen!ServiceInit, remoteSeen, localSeen, Paths
<1>2. Inv /\ UpInv /\ LocalInv /\ DownInv /\ [Next]_vars => [Seen!ServiceNext]_(Seen!svars)
  BY SeenNext DEF SeenStep
<1>3. QED
  BY <1>1, <1>2, Invariance, UploadInvariant, LocalInvariance, DownloadPhases, PTL
     DEF Spec, ImplementsFileService, Seen!Service

=============================================================================
