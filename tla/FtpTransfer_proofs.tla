------------------------- MODULE FtpTransfer_proofs -------------------------
(***************************************************************************)
(* Proofs about the transfers of a session: what reaches the server is the *)
(* user's file and the other way round, and the two ends agree on where a  *)
(* transfer ends, whatever the user types ahead.                           *)
(*                                                                         *)
(* The frames on their way to the child lead from the place where it is to *)
(* the place where the client is (Run of RunLemmas): a place is between    *)
(* requests, or between two blocks of a file, and then it says how many    *)
(* bytes of which file lie before it.                                      *)
(***************************************************************************)
EXTENDS FtpSession_proofs

\* The user's files that nothing changes any more: all but the one a
\* download is writing.
Kept(n) == n \in Names /\ file_exist(local[n]) /\ ~(cpc = "get" /\ n = cname)
UserFiles == [n \in {m \in Names : Kept(m)} |-> local[n].data]

Place == [at : {"request", "block"}, own : Text, pos : Nat]

\* How a frame leads from place s to place t when the files are F.
Leads(F, s, m, t) ==
  \/ /\ s.at = "block" /\ IsBlock(m) /\ s.own \in DOMAIN F
     /\ t.own = s.own
     /\ t.pos = s.pos + Len(m.data) /\ t.pos <= Len(F[s.own])
     /\ m.data = Slice(F[s.own], s.pos, t.pos)
     /\ IF m.command = "END_FILE"
          THEN /\ t.at = "request"
               /\ "reuse" \in Faults \/ t.pos = Len(F[s.own])
          ELSE t.at = "block"
  \/ /\ s.at = "request" /\ ~IsBlock(m)
     /\ IF m.command \in {"PUT", "LPWD"}
          THEN t.at = "block" /\ t.own = m.name /\ t.pos = 0 /\ m.name \in DOMAIN F
          ELSE t.at = "request"

Way(F) == {x \in Place \X msg_head_ctrl_t \X Place : Leads(F, x[1], x[2], x[3])}

\* handle_put is at a place within a file, and has stored what lies before.
Uploaded(a) ==
  /\ a.own = sname /\ sname \in DOMAIN UserFiles
  /\ IF sopen
       THEN /\ a.pos <= Len(UserFiles[sname])
            /\ "swrite" \notin Faults =>
                 remote[path] = RegularFile(Slice(UserFiles[sname], 0, a.pos))
       ELSE a.pos = 0

\* What it writes is what the user sent under that name, if the bytes of a
\* block left behind by a refused upload are never the name of a file.
ChildAt(a) ==
  spc = "put" =>
    a.at = "block" /\ (sname \in Names /\ Spelled \cap Names = {} => Uploaded(a))

\* put_file_to_server is at the place its offset says.
ClientAt(b) ==
  cEnd /\ sEnds # {} =>
    IF cpc = "put"
      THEN /\ b.at = "block" /\ b.own = cname /\ b.pos = coff
           /\ cname \in DOMAIN UserFiles /\ coff <= Len(UserFiles[cname])
      ELSE b.at = "request"

\* What was asked at the prompt still holds when the request is sent.
Asked ==
  /\ cpc # "put" => coff = 0
  /\ sopen => spc = "put"
  /\ cpc = "send" /\ ccmd \in {"PUT", "LPWD"} => file_exist(local[cname])
  /\ cpc = "send" /\ ccmd = "GET" => ~file_exist(local[cname])

UpInv ==
  /\ Asked
  /\ \E a, b \in Place :
       Run(c2s, a, b, Place, Way(UserFiles)) /\ ChildAt(a) /\ ClientAt(b)

-----------------------------------------------------------------------------
\* Files that are kept are sequences of bytes, and stay as they are.
Includes(F, G) == DOMAIN F \subseteq DOMAIN G /\ \A n \in DOMAIN F : G[n] = F[n]

LEMMA UserFilesType ==
  ASSUME TypeOK
  PROVE  /\ DOMAIN UserFiles = {n \in Names : Kept(n)}
         /\ \A n \in DOMAIN UserFiles :
              UserFiles[n] = local[n].data /\ UserFiles[n] \in Seq(Byte)
<1>1. \A n \in Names : local[n] \in Entry
  BY DEF TypeOK, ClientTypeOK
<1>2. \A n \in Names : local[n].data \in Seq(Byte)
  BY <1>1, EntryData
<1>3. QED
  BY <1>2 DEF UserFiles

LEMMA WayGrows ==
  ASSUME NEW F, NEW G, Includes(F, G)
  PROVE  Way(F) \subseteq Way(G)
<1>1. ASSUME NEW s, NEW m, NEW t, Leads(F, s, m, t)
      PROVE  Leads(G, s, m, t)
  BY <1>1 DEF Leads, Includes
<1>2. QED
  BY <1>1 DEF Way

LEMMA SameFiles ==
  ASSUME UNCHANGED <<local, cname>>, cpc' = cpc \/ ("get" \notin {cpc, cpc'})
  PROVE  UserFiles' = UserFiles
<1>1. \A n : Kept(n)' <=> Kept(n)
  BY DEF Kept
<1>2. QED
  BY <1>1 DEF UserFiles

LEMMA KeptStays ==
  ASSUME TypeOK, TypeOK',
         \A n \in Names : Kept(n) => local'[n] = local[n] /\ Kept(n)'
  PROVE  Includes(UserFiles, UserFiles')
<1>1. /\ DOMAIN UserFiles = {n \in Names : Kept(n)}
      /\ \A n \in DOMAIN UserFiles : UserFiles[n] = local[n].data
  BY UserFilesType
<1>2. /\ (DOMAIN UserFiles)' = {n \in Names : Kept(n)'}
      /\ \A n \in (DOMAIN UserFiles)' : UserFiles'[n] = local'[n].data
  BY DEF UserFiles
<1>3. QED
  BY <1>1, <1>2 DEF Includes

LEMMA FilesKept ==
  ASSUME Inv, Inv', Asked, [Next]_vars
  PROVE  Includes(UserFiles, UserFiles')
<1>1. TypeOK /\ TypeOK' /\ local \in [Names -> Entry]
  BY DEF Inv, TypeOK, ClientTypeOK
<1>2. CASE cpc = "get"
  <2>1. ASSUME NEW n \in Names, n # cname PROVE local'[n] = local[n]
    BY <1>1, <1>2, <2>1
       DEF Next, ServAct, ClientAct, ClientStep, UserAct, Fault, ClientFault,
           parent_exit, Reset, reset_by_client, reset_by_server, vars,
           clientVars, clocals, login, login_verdict,
           handle_server_ack, handle_server_ack_lost, handle_user_input,
           send_command_to_server, client_sock_error, put_file_to_server,
           put_file_to_server_unopened, get_no_file, get_unopened,
           get_write_error, get_file_from_server, GetFailed, client_crash
  <2>2. cpc' # "get" \/ cname' = cname
    BY <1>2
       DEF Next, ServAct, ClientAct, ClientStep, UserAct, Fault, ClientFault,
           parent_exit, Reset, reset_by_client, reset_by_server, vars,
           clientVars, clocals, login, login_verdict,
           handle_server_ack, handle_server_ack_lost, handle_user_input,
           send_command_to_server, client_sock_error, put_file_to_server,
           put_file_to_server_unopened, get_no_file, get_unopened,
           get_write_error, get_file_from_server, GetFailed, GetReturn, ToMain,
           client_crash, ToEnd
  <2>3. QED
    BY <1>1, <1>2, <2>1, <2>2, KeptStays DEF Kept, file_exist
<1>3. CASE cpc # "get"
  <2>1. UNCHANGED local
    BY <1>3
       DEF Next, ServAct, ClientAct, ClientStep, UserAct, Fault, ClientFault,
           parent_exit, Reset, reset_by_client, reset_by_server, vars,
           clientVars, clocals, login, login_verdict,
           handle_server_ack, handle_server_ack_lost, handle_user_input,
           send_command_to_server, client_sock_error, put_file_to_server,
           put_file_to_server_unopened, GetRead, GetWritable, get_no_file,
           get_unopened, get_write_error, get_file_from_server, client_crash
  <2>2. cpc' = "get" => ~file_exist(local[cname']) 
    BY <1>3
       DEF Next, ServAct, ClientAct, ClientStep, UserAct, Fault, ClientFault,
           parent_exit, Reset, reset_by_client, reset_by_server, vars,
           clientVars, clocals, login, login_verdict,
           handle_server_ack, handle_server_ack_lost, handle_user_input,
           send_command_to_server, client_sock_error, put_file_to_server,
           put_file_to_server_unopened, GetRead, GetWritable, get_no_file,
           get_unopened, get_write_error, get_file_from_server, client_crash,
           ToMain, ToEnd, Asked
  <2>3. QED
    BY <1>1, <1>3, <2>1, <2>2, KeptStays DEF Kept, file_exist
<1>4. QED
  BY <1>2, <1>3

-----------------------------------------------------------------------------
(***************************************************************************)
(* Asked.                                                                  *)
(***************************************************************************)

\* The steps of either process leave the locals of the other alone, and each
\* of the child's clears sopen or keeps it while it stays where it is.
LEMMA AskedServ ==
  ASSUME Asked, UNCHANGED clientVars, ServStep \/ ServFault
  PROVE  Asked'
<1>1. sopen' => spc' = "put"
  <2>1. CASE ToSelect \/ ToExit
    BY <2>1 DEF ToSelect, ToExit, ForgetLocals
  <2>2. CASE UNCHANGED sopen /\ spc # "put"
    BY <2>2 DEF Asked
  <2>3. CASE spc' = "put"
    BY <2>3
  <2>4. QED
    BY <2>1, <2>2, <2>3
       DEF ServStep, ServFault, authentication, authentication_db_error,
           serv_client_quit, handle_request_cd, handle_request_popen,
           handle_request_popen_fails, handle_request_get,
           handle_request_get_unopened, handle_request_put,
           handle_request_default, handle_put, handle_put_refused,
           handle_get_no_file, handle_get, handle_get_read_error,
           handle_ls_pwd, serv_client_timeout, serv_client_crash, SockError,
           Dispatch, Keep, slocals
<1>2. QED
  BY <1>1 DEF Asked, clientVars, clocals, file_exist

LEMMA AskedClient ==
  ASSUME Asked, UNCHANGED servVars,
         \/ login \/ ClientStep \/ ClientFault
         \/ \E type \in UserCommands : \E arg \in Arguments(type) :
              handle_user_input(type, arg)
  PROVE  Asked'
<1>1. sopen' => spc' = "put"
  BY DEF Asked, servVars, slocals
<1>2. CASE ToMain \/ ToEnd
  BY <1>1, <1>2 DEF Asked, ToMain, ToEnd, ForgetRequest
<1>3. CASE /\ UNCHANGED <<cpc, ccmd, cname, local>>
           /\ UNCHANGED coff \/ cpc = "put"
  BY <1>1, <1>3 DEF Asked, file_exist
<1>4. CASE UNCHANGED coff /\ cpc # "put" /\ cpc' # "send"
  BY <1>1, <1>4 DEF Asked
<1>5. CASE cpc' = "put"
  BY <1>1, <1>5 DEF Asked
<1>6. CASE \E type \in UserCommands : \E arg \in Arguments(type) :
             handle_user_input(type, arg)
  BY <1>1, <1>6 DEF Asked, handle_user_input, Accepts, file_exist
<1>7. CASE get_file_from_server
  BY <1>2, <1>4, <1>7 DEF get_file_from_server, GetReturn, GetWritable, GetRead
<1>8. QED
  BY <1>2, <1>3, <1>4, <1>5, <1>6, <1>7
     DEF ClientStep, ClientFault, login, login_verdict, handle_server_ack,
         handle_server_ack_lost, send_command_to_server, client_sock_error,
         put_file_to_server, put_file_to_server_unopened, GetRead,
         GetWritable, GetFailed, GetReturn, get_no_file, get_unopened,
         get_write_error, client_crash, clocals

LEMMA AskedKept ==
  ASSUME Asked, [Next]_vars
  PROVE  Asked'
<1>1. CASE UNCHANGED <<servVars, clientVars>>
  BY <1>1 DEF Asked, servVars, slocals, clientVars, clocals, file_exist
<1>2. QED
  BY <1>1, AskedServ, AskedClient
     DEF Next, ServAct, ClientAct, UserAct, Fault, parent_exit,
         Reset, reset_by_client, reset_by_server, vars

-----------------------------------------------------------------------------
(***************************************************************************)
(* The steps of the child. Its reads take it along the way.                *)
(***************************************************************************)

\* A frame the child reads leads it on; at the end of a closed connection it
\* gets the cleared buffer, and where the queue leads to does not matter.
LEMMA ChildReads ==
  ASSUME TypeOK, ServReadable, ServConsume, NEW W, NEW a, NEW b,
         Run(c2s, a, b, Place, W)
  PROVE  \/ /\ c2s # << >>
            /\ \E c \in Place : <<a, ServFrame, c>> \in W /\ Run(c2s', c, b, Place, W)
         \/ /\ ~cEnd /\ ServFrame = ZeroFrame /\ c2s' = << >>
            /\ \A c \in Place : Run(c2s', c, c, Place, W)
<1>1. c2s \in Seq(msg_head_ctrl_t) /\ LinkTypeOK
  BY DEF TypeOK, LinkTypeOK
<1>2. CASE c2s # << >>
  <2>1. ServFrame = Head(c2s) /\ c2s' = Tail(c2s)
    BY <1>2 DEF ServFrame, ServConsume
  <2>2. \E c \in Place : <<a, Head(c2s), c>> \in W /\ Run(Tail(c2s), c, b, Place, W)
    BY <1>1, <1>2, RunTail
  <2>3. QED
    BY <1>2, <2>1, <2>2
<1>3. CASE c2s = << >>
  <2>1. ~cEnd /\ ServFrame = ZeroFrame /\ c2s' = << >>
    BY <1>1, <1>3, ServReads
  <2>2. QED
    BY <2>1, RunEmpty
<1>4. QED
  BY <1>2, <1>3

\* A step of the child that does not leave it in handle_put.
LEMMA ChildElsewhere ==
  ASSUME Inv, UpInv, UNCHANGED <<clientVars, cEnd>>, sEnds' \subseteq sEnds,
         spc' # "put",
         UNCHANGED c2s \/ (ServReadable /\ ServConsume)
  PROVE  \E a, b \in Place :
           Run(c2s', a, b, Place, Way(UserFiles')) /\ ChildAt(a)' /\ ClientAt(b)'
<1>1. TypeOK
  BY DEF Inv
<1>2. UserFiles' = UserFiles
  BY SameFiles DEF clientVars, clocals
<1>3. PICK a \in Place, b \in Place :
        Run(c2s, a, b, Place, Way(UserFiles)) /\ ChildAt(a) /\ ClientAt(b)
  BY DEF UpInv
<1>4. ClientAt(b)'
  BY <1>2, <1>3 DEF ClientAt, clientVars, clocals
<1>5. \A c \in Place : ChildAt(c)'
  BY DEF ChildAt
<1>6. CASE UNCHANGED c2s
  BY <1>2, <1>3, <1>4, <1>5, <1>6
<1>7. CASE ServReadable /\ ServConsume
  <2>1. CASE \E c \in Place : Run(c2s', c, b, Place, Way(UserFiles))
    BY <1>2, <1>4, <1>5, <2>1
  <2>2. CASE ~cEnd /\ \A c \in Place : Run(c2s', c, c, Place, Way(UserFiles))
    <3>1. \A c \in Place : ClientAt(c)'
      BY <2>2 DEF ClientAt
    <3>2. QED
      BY <1>2, <1>3, <1>5, <2>2, <3>1
  <2>3. QED
    BY <1>1, <1>3, <1>7, <2>1, <2>2, ChildReads
<1>8. QED
  BY <1>6, <1>7

\* put: the file begins behind the request. At the end of a closed connection
\* the cleared buffer is taken for a put of the empty name.
LEMMA PutRequested ==
  ASSUME Inv, UpInv, UNCHANGED clientVars, handle_request_put
  PROVE  \E a, b \in Place :
           Run(c2s', a, b, Place, Way(UserFiles')) /\ ChildAt(a)' /\ ClientAt(b)'
<1>1. /\ spc = "select" /\ ServReadable /\ ServConsume /\ ServFrame.command = "PUT"
      /\ UNCHANGED <<s2c, cEnd, sEnds, sopen>>
      /\ sname' \in NamesIn(ServFrame) /\ spc' = "put"
  BY DEF handle_request_put, Dispatch, Keep
<1>2. TypeOK /\ Asked /\ ~sopen'
  BY <1>1 DEF Inv, UpInv, Asked
<1>3. UserFiles' = UserFiles
  BY SameFiles DEF clientVars, clocals
<1>4. PICK a \in Place, b \in Place :
        Run(c2s, a, b, Place, Way(UserFiles)) /\ ChildAt(a) /\ ClientAt(b)
  BY DEF UpInv
<1>5. ClientAt(b)'
  BY <1>1, <1>3, <1>4 DEF ClientAt, clientVars, clocals
<1>6. CASE c2s # << >> /\ \E c \in Place : /\ <<a, ServFrame, c>> \in Way(UserFiles)
                                           /\ Run(c2s', c, b, Place, Way(UserFiles))
  <2>1. PICK c \in Place : /\ <<a, ServFrame, c>> \in Way(UserFiles)
                           /\ Run(c2s', c, b, Place, Way(UserFiles))
    BY <1>6
  <2>2. Leads(UserFiles, a, ServFrame, c)
    BY <2>1 DEF Way
  <2>3. ChildAt(c)'
    <3>1. CASE IsBlock(ServFrame)
      <4>1. c.at = "block"
        BY <1>1, <2>2, <3>1 DEF Leads
      <4>2. sname' \in Spelled
        BY <1>1, <3>1 DEF NamesIn
      <4>3. QED
        BY <4>1, <4>2 DEF ChildAt
    <3>2. CASE ~IsBlock(ServFrame)
      <4>1. c.at = "block" /\ c.own = sname' /\ c.pos = 0 /\ sname' \in DOMAIN UserFiles
        BY <1>1, <2>2, <3>2 DEF Leads, NamesIn
      <4>2. QED
        BY <1>2, <1>3, <4>1 DEF ChildAt, Uploaded
    <3>3. QED
      BY <3>1, <3>2
  <2>4. QED
    BY <1>3, <1>5, <2>1, <2>3
<1>7. CASE ~cEnd /\ ServFrame = ZeroFrame
           /\ \A c \in Place : Run(c2s', c, c, Place, Way(UserFiles))
  <2> DEFINE c == [at |-> "block", own |-> EmptyName, pos |-> 0]
  <2>1. c \in Place /\ c.at = "block"
    BY DEF Place, Text
  <2> HIDE DEF c
  <2>2. sname' \notin Names
    BY <1>1, <1>7, ProtocolAssumption DEF NamesIn, IsBlock, ZeroFrame, Request, Frame
  <2>3. ChildAt(c)' /\ ClientAt(c)'
    BY <1>1, <1>7, <2>1, <2>2 DEF ChildAt, ClientAt
  <2>4. QED
    BY <1>3, <1>7, <2>1, <2>3
<1>8. QED
  BY <1>1, <1>2, <1>4, <1>6, <1>7, ChildReads

\* A block that continues what was stored is stored behind it.
LEMMA BlockStored ==
  ASSUME TypeOK, handle_put, "swrite" \notin Faults, sname \in Names,
         NEW a \in Place, Uploaded(a),
         NEW q \in Nat, a.pos <= q, q <= Len(UserFiles[sname]),
         ServFrame.data = Slice(UserFiles[sname], a.pos, q)
  PROVE  remote'[path] = RegularFile(Slice(UserFiles[sname], 0, q))
<1> DEFINE d == UserFiles[sname]
<1>1. d \in Seq(Byte) /\ a.pos \in Nat
  BY UserFilesType DEF Uploaded, Place
<1>2. path \in Paths /\ remote \in [Paths -> Entry]
  BY DEF path, Paths, TypeOK, ServTypeOK
<1>3. remote[path].data = Slice(d, 0, a.pos)
  <2>1. CASE sopen
    BY <2>1 DEF Uploaded, RegularFile
  <2>2. CASE ~sopen
    <3>1. CanCreate(remote[path])
      BY <2>2, ProtocolAssumption DEF handle_put
    <3>2. remote[path].data = << >>
      BY <1>2, <3>1, NoneIsNoEntry DEF CanCreate, NoEntry
    <3>3. a.pos = 0 /\ Slice(d, 0, 0) = << >>
      BY <1>1, <2>2, SliceNone DEF Uploaded
    <3>4. QED
      BY <3>2, <3>3
  <2>3. QED
    BY <2>1, <2>2
<1>4. remote' = [remote EXCEPT ![path] =
                   RegularFile(remote[path].data \o ServFrame.data)]
  BY DEF handle_put, Stored
<1>5. Slice(d, 0, a.pos) \o Slice(d, a.pos, q) = Slice(d, 0, q)
  BY <1>1, SliceJoin
<1>6. QED
  BY <1>2, <1>3, <1>4, <1>5

\* One block of an upload, as the child's place sees it. Behind the last one
\* of an upload the child has the whole file, unless a full block was taken
\* for the last.
LEMMA PutLeads ==
  ASSUME Inv, handle_put, UNCHANGED clientVars,
         NEW a \in Place, NEW c \in Place, ChildAt(a),
         \/ Leads(UserFiles, a, ServFrame, c)
         \/ ServFrame = ZeroFrame /\ c = a
  PROVE  /\ ChildAt(c)'
         /\ spc' # "put" /\ Spelled \cap Names = {} /\ "swrite" \notin Faults
            /\ "reuse" \notin Faults
              => sname \in DOMAIN UserFiles
                 /\ remote'[path] = RegularFile(UserFiles[sname])
<1>1. TypeOK /\ spc = "put" /\ a.at = "block" /\ sname \in Names
  BY DEF Inv, handle_put, ChildAt
<1>2. UserFiles' = UserFiles
  BY SameFiles DEF clientVars, clocals
<1>3. UNCHANGED scwd
  BY DEF handle_put
<1>4. \/ /\ ServFrame.command = "END_FILE" /\ spc' = "select"
      \/ /\ ServFrame.command # "END_FILE" /\ spc' = "put" /\ sopen' = TRUE
         /\ UNCHANGED sname
  BY DEF handle_put, EndsFile, ToSelect
<1>5. c.at = "block" \/ ServFrame.command = "END_FILE"
  BY <1>1 DEF Leads
<1>6. CASE Spelled \cap Names # {}
  BY <1>4, <1>5, <1>6 DEF ChildAt
<1>7. CASE Spelled \cap Names = {}
  <2>1. Uploaded(a) /\ sname \in DOMAIN UserFiles
    BY <1>1, <1>7 DEF ChildAt, Uploaded
  <2>2. UserFiles[sname] \in Seq(Byte) /\ a.pos \in Nat /\ a.pos <= Len(UserFiles[sname])
    BY <1>1, <2>1, UserFilesType DEF Uploaded, Place
  <2>3. /\ c.own = sname /\ c.pos \in Nat
        /\ a.pos <= c.pos /\ c.pos <= Len(UserFiles[sname])
        /\ ServFrame.data = Slice(UserFiles[sname], a.pos, c.pos)
    <3>1. CASE ServFrame = ZeroFrame /\ c = a
      BY <2>1, <2>2, <3>1, ZeroFrameType, SliceNone DEF Uploaded
    <3>2. CASE Leads(UserFiles, a, ServFrame, c)
      <4>1. c.pos = a.pos + Len(ServFrame.data) /\ c.pos <= Len(UserFiles[sname])
            /\ c.own = sname
            /\ ServFrame.data = Slice(UserFiles[sname], a.pos, c.pos)
        BY <1>1, <2>1, <3>2 DEF Leads, Uploaded
      <4>2. ServFrame \in msg_head_ctrl_t
        BY <1>1, ServReads DEF handle_put, TypeOK
      <4>3. Len(ServFrame.data) \in Nat /\ c.pos \in Nat
        BY <4>2 DEF msg_head_ctrl_t, Place
      <4>4. QED
        BY <2>2, <4>1, <4>3
    <3>3. QED
      BY <3>1, <3>2
  <2>4. "swrite" \notin Faults =>
          remote'[path] = RegularFile(Slice(UserFiles[sname], 0, c.pos))
    BY <1>1, <1>7, <2>1, <2>3, BlockStored
  <2>5. ChildAt(c)'
    <3>1. CASE spc' # "put"
      BY <3>1 DEF ChildAt
    <3>2. CASE spc' = "put"
      <4>1. sopen' = TRUE /\ sname' = sname /\ path' = path /\ c.at = "block"
        BY <1>3, <1>4, <1>5, <3>2 DEF path
      <4>2. Uploaded(c)'
        BY <1>2, <2>1, <2>3, <2>4, <4>1 DEF Uploaded
      <4>3. QED
        BY <4>1, <4>2 DEF ChildAt
    <3>3. QED
      BY <3>1, <3>2
  <2>6. ASSUME spc' # "put", "swrite" \notin Faults, "reuse" \notin Faults
        PROVE  remote'[path] = RegularFile(UserFiles[sname])
    <3>1. ServFrame.command = "END_FILE"
      BY <1>4, <2>6
    <3>2. c.pos = Len(UserFiles[sname])
      BY <1>1, <2>1, <2>6, <3>1 DEF Leads, Uploaded, ZeroFrame, Request, Frame, ZeroCommand
    <3>3. QED
      BY <2>2, <2>4, <2>6, <3>2, SliceAll
  <2>7. QED
    BY <2>1, <2>5, <2>6
<1>8. QED
  BY <1>6, <1>7

LEMMA PutTakes ==
  ASSUME Inv, UpInv, UNCHANGED clientVars, handle_put
  PROVE  \E a, b \in Place :
           Run(c2s', a, b, Place, Way(UserFiles')) /\ ChildAt(a)' /\ ClientAt(b)'
<1>1. /\ ServReadable /\ ServConsume /\ TypeOK /\ cEnd' = cEnd
  BY DEF handle_put, Inv
<1>2. sEnds' = sEnds
  BY DEF handle_put, ToSelect
<1>3. UserFiles' = UserFiles
  BY SameFiles DEF clientVars, clocals
<1>4. PICK a \in Place, b \in Place :
        Run(c2s, a, b, Place, Way(UserFiles)) /\ ChildAt(a) /\ ClientAt(b)
  BY DEF UpInv
<1>5. ClientAt(b)'
  BY <1>1, <1>2, <1>3, <1>4 DEF ClientAt, clientVars, clocals
<1>6. CASE \E c \in Place : /\ <<a, ServFrame, c>> \in Way(UserFiles)
                            /\ Run(c2s', c, b, Place, Way(UserFiles))
  <2>1. PICK c \in Place : /\ <<a, ServFrame, c>> \in Way(UserFiles)
                           /\ Run(c2s', c, b, Place, Way(UserFiles))
    BY <1>6
  <2>2. Leads(UserFiles, a, ServFrame, c)
    BY <2>1 DEF Way
  <2>3. ChildAt(c)'
    BY <1>4, <2>2, PutLeads
  <2>4. QED
    BY <1>3, <1>5, <2>1, <2>3
<1>7. CASE ~cEnd /\ ServFrame = ZeroFrame
           /\ \A c \in Place : Run(c2s', c, c, Place, Way(UserFiles))
  <2>1. ChildAt(a)'
    BY <1>4, <1>7, PutLeads
  <2>2. ClientAt(a)'
    BY <1>1, <1>7 DEF ClientAt
  <2>3. QED
    BY <1>3, <1>4, <1>7, <2>1, <2>2
<1>8. QED
  BY <1>1, <1>4, <1>6, <1>7, ChildReads

\* Every step of the child.
LEMMA UpServ ==
  ASSUME Inv, UpInv, UNCHANGED clientVars, ServStep \/ ServFault
  PROVE  \E a, b \in Place :
           Run(c2s', a, b, Place, Way(UserFiles')) /\ ChildAt(a)' /\ ClientAt(b)'
<1>1. CASE handle_put
  BY <1>1, PutTakes
<1>2. CASE handle_request_put
  BY <1>2, PutRequested
<1>3. CASE /\ cEnd' = cEnd /\ sEnds' \subseteq sEnds /\ spc' # "put"
           /\ UNCHANGED c2s \/ (ServReadable /\ ServConsume)
  BY <1>3, ChildElsewhere
<1>4. QED
  BY <1>1, <1>2, <1>3
     DEF ServStep, ServFault, authentication, authentication_db_error,
         serv_client_quit, handle_request_cd, handle_request_popen,
         handle_request_popen_fails, handle_request_get,
         handle_request_get_unopened, handle_request_default,
         handle_put_refused, handle_get_no_file, handle_get,
         handle_get_read_error, handle_ls_pwd, serv_client_timeout,
         serv_client_crash, SockError, ToSelect, ToExit, Dispatch, Keep, slocals

-----------------------------------------------------------------------------
(***************************************************************************)
(* The steps of the client. Its writes lengthen the way.                   *)
(***************************************************************************)

LEMMA ChildWaits ==
  ASSUME UNCHANGED servVars, Includes(UserFiles, UserFiles'),
         NEW a, ChildAt(a)
  PROVE  ChildAt(a)'
<1>1. UNCHANGED <<spc, sname, sopen, remote, scwd>>
  BY DEF servVars, slocals, sfiles
<1>2. Uploaded(a) => Uploaded(a)'
  BY <1>1 DEF Uploaded, Includes, path
<1>3. QED
  BY <1>1, <1>2 DEF ChildAt

\* A step of the client, or the end of the parent, that writes nothing.
LEMMA ClientElsewhere ==
  ASSUME UpInv, UNCHANGED <<servVars, c2s>>, Includes(UserFiles, UserFiles'),
         \/ ~cEnd' \/ sEnds' = {}
         \/ cEnd /\ sEnds # {} /\ cpc # "put" /\ cpc' # "put"
         \/ cEnd /\ sEnds # {} /\ UNCHANGED <<cpc, cname, coff>>
  PROVE  \E a, b \in Place :
           Run(c2s', a, b, Place, Way(UserFiles')) /\ ChildAt(a)' /\ ClientAt(b)'
<1>1. PICK a \in Place, b \in Place :
        Run(c2s, a, b, Place, Way(UserFiles)) /\ ChildAt(a) /\ ClientAt(b)
  BY DEF UpInv
<1>2. Run(c2s', a, b, Place, Way(UserFiles'))
  BY <1>1, WayGrows, RunMore
<1>3. ChildAt(a)'
  BY <1>1, ChildWaits
<1>4. ClientAt(b)'
  BY <1>1 DEF ClientAt, Includes
<1>5. QED
  BY <1>2, <1>3, <1>4

\* A frame the client writes, unless nobody holds the other end.
LEMMA ClientGoes ==
  ASSUME Inv, UNCHANGED <<servVars, sEnds>>, Includes(UserFiles, UserFiles'),
         NEW a \in Place, NEW b \in Place, NEW c \in Place,
         Run(c2s, a, b, Place, Way(UserFiles)), ChildAt(a),
         NEW m \in msg_head_ctrl_t, ClientWrite(m),
         sEnds # {} => Leads(UserFiles', b, m, c) /\ ClientAt(c)'
  PROVE  \E x, y \in Place :
           Run(c2s', x, y, Place, Way(UserFiles')) /\ ChildAt(x)' /\ ClientAt(y)'
<1>1. c2s \in Seq(msg_head_ctrl_t)
  BY DEF Inv, TypeOK, LinkTypeOK
<1>2. Run(c2s, a, b, Place, Way(UserFiles'))
  BY WayGrows, RunMore
<1>3. ChildAt(a)'
  BY ChildWaits
<1>4. CASE sEnds = {}
  <2>1. c2s' = c2s
    BY <1>4 DEF ClientWrite
  <2>2. ClientAt(b)'
    BY <1>4 DEF ClientAt
  <2>3. QED
    BY <1>2, <1>3, <2>1, <2>2
<1>5. CASE sEnds # {}
  <2>1. c2s' = Append(c2s, m)
    BY <1>5 DEF ClientWrite
  <2>2. <<b, m, c>> \in Way(UserFiles')
    BY <1>5 DEF Way
  <2>3. Run(Append(c2s, m), a, c, Place, Way(UserFiles'))
    BY <1>1, <1>2, <2>2, RunAppend
  <2>4. QED
    BY <1>3, <1>5, <2>1, <2>3
<1>6. QED
  BY <1>4, <1>5

\* A credential is no request for a file.
LEMMA UpLogin ==
  ASSUME Inv, Inv', UpInv, UNCHANGED servVars, login,
         Includes(UserFiles, UserFiles')
  PROVE  \E a, b \in Place :
           Run(c2s', a, b, Place, Way(UserFiles')) /\ ChildAt(a)' /\ ClientAt(b)'
<1>1. PICK c \in Credential : ClientWrite(Request(c, EmptyName))
  BY DEF login
<1> DEFINE m == Request(c, EmptyName)
<1>2. m \in msg_head_ctrl_t /\ m.command = c /\ m.name = EmptyName
  <2>1. EmptyName \in Text /\ << >> \in Seq(Byte)
    BY DEF Text
  <2>2. m.name = EmptyName
    BY DEF Request, Frame
  <2>3. QED
    BY <2>1, <2>2, FrameType
<1> HIDE DEF m
<1>3. PICK a \in Place, b \in Place :
        Run(c2s, a, b, Place, Way(UserFiles)) /\ ChildAt(a) /\ ClientAt(b)
  BY DEF UpInv
<1>4. cpc = "login" /\ cpc' = "verdict" /\ cEnd /\ UNCHANGED <<cEnd, sEnds>>
  BY DEF login, Inv, LoginInv
<1>5. ASSUME sEnds # {} PROVE Leads(UserFiles', b, m, b) /\ ClientAt(b)'
  <2>1. b.at = "request"
    BY <1>3, <1>4, <1>5 DEF ClientAt
  <2>2. ~IsBlock(m) /\ m.command \notin {"PUT", "LPWD"}
    BY <1>2, ProtocolAssumption DEF IsBlock, Credential
  <2>3. QED
    BY <1>4, <2>1, <2>2 DEF Leads, ClientAt
<1>6. ClientWrite(m)
  BY <1>1 DEF m
<1>7. QED
  BY <1>2, <1>3, <1>4, <1>5, <1>6, ClientGoes

\* The request for a transfer leads to the start of the file.
LEMMA UpSend ==
  ASSUME Inv, Inv', UpInv, UNCHANGED servVars, send_command_to_server,
         Includes(UserFiles, UserFiles')
  PROVE  \E a, b \in Place :
           Run(c2s', a, b, Place, Way(UserFiles')) /\ ChildAt(a)' /\ ClientAt(b)'
<1> DEFINE m == Request(ccmd, cname)
<1>1. /\ cpc = "send" /\ ClientWrite(m) /\ UNCHANGED <<local, sEnds>> /\ cEnd
      /\ coff = 0 /\ Asked
  BY DEF send_command_to_server, Inv, LoginInv, UpInv, Asked
<1>2. /\ cname \in Names \cup Dirs \cup {EmptyName} /\ ccmd \in command_type_t
      /\ ccmd \in {"PUT", "LPWD", "GET"} => cname \in Names
  BY <1>1 DEF Inv, TypeOK, ClientTypeOK, LoginInv
<1>3. m \in msg_head_ctrl_t /\ m.command = ccmd /\ m.name = cname /\ ~IsBlock(m)
  <2>1. cname \in Text /\ << >> \in Seq(Byte)
    BY <1>2 DEF Text
  <2>2. m.name = cname
    BY DEF Request, Frame
  <2>3. ~IsBlock(m)
    BY <1>2, <2>2, ProtocolAssumption DEF IsBlock
  <2>4. QED
    BY <1>2, <2>1, <2>2, <2>3, FrameType
<1> HIDE DEF m
<1>4. PICK a \in Place, b \in Place :
        Run(c2s, a, b, Place, Way(UserFiles)) /\ ChildAt(a) /\ ClientAt(b)
  BY DEF UpInv
<1>5. sEnds # {} => b.at = "request"
  BY <1>1, <1>4 DEF ClientAt
<1>6. CASE ccmd \in {"PUT", "LPWD"}
  <2>1. cpc' = "put" /\ UNCHANGED <<cname, coff, cEnd>>
    BY <1>6 DEF send_command_to_server
  <2>2. Kept(cname)'
    BY <1>1, <1>2, <1>6, <2>1 DEF Asked, Kept, file_exist
  <2>3. cname' \in DOMAIN UserFiles' /\ UserFiles'[cname'] \in Seq(Byte)
    <3>1. local'[cname].data \in Seq(Byte)
      BY <1>1, <1>2, <1>6, EntryData DEF Inv, TypeOK, ClientTypeOK
    <3>2. QED
      BY <1>2, <1>6, <2>1, <2>2, <3>1 DEF UserFiles
  <2>4. PICK c \in Place : c.at = "block" /\ c.own = cname /\ c.pos = 0
    <3>1. [at |-> "block", own |-> cname, pos |-> 0] \in Place
      BY <1>2 DEF Place, Text
    <3>2. QED
      BY <3>1
  <2>5. sEnds # {} => Leads(UserFiles', b, m, c)
    BY <1>3, <1>5, <1>6, <2>1, <2>3, <2>4 DEF Leads
  <2>6. 0 <= Len(UserFiles'[cname'])
    BY <2>3
  <2>7. ClientAt(c)'
    BY <1>1, <2>1, <2>3, <2>4, <2>6 DEF ClientAt
  <2>8. QED
    BY <1>1, <1>3, <1>4, <2>4, <2>5, <2>7, ClientGoes
<1>7. CASE ccmd \notin {"PUT", "LPWD"}
  <2>1. cpc' # "put"
    BY <1>7 DEF send_command_to_server, ToMain, ToEnd
  <2>2. sEnds # {} => Leads(UserFiles', b, m, b) /\ ClientAt(b)'
    BY <1>1, <1>3, <1>5, <1>7, <2>1 DEF Leads, ClientAt
  <2>3. QED
    BY <1>1, <1>3, <1>4, <2>2, ClientGoes
<1>8. QED
  BY <1>6, <1>7

\* A block leads on by its length.
LEMMA UpPut ==
  ASSUME Inv, Inv', UpInv, UNCHANGED servVars,
         put_file_to_server \/ put_file_to_server_unopened
  PROVE  \E a, b \in Place :
           Run(c2s', a, b, Place, Way(UserFiles')) /\ ChildAt(a)' /\ ClientAt(b)'
<1>1. /\ cpc = "put" /\ cEnd /\ UNCHANGED <<local, sEnds>>
      /\ heap \in command_type_t \cup {Garbage} /\ coff \in Nat
  BY DEF put_file_to_server, put_file_to_server_unopened, Inv, LoginInv,
         TypeOK, ClientTypeOK
<1>2. PICK a \in Place, b \in Place :
        Run(c2s, a, b, Place, Way(UserFiles)) /\ ChildAt(a) /\ ClientAt(b)
  BY DEF UpInv
<1>3. UserFiles' = UserFiles /\ Includes(UserFiles, UserFiles')
  <2>1. \A n \in Names : Kept(n)' <=> Kept(n)
    BY <1>1 DEF put_file_to_server, put_file_to_server_unopened, ToMain, clocals, Kept
  <2>2. QED
    BY <1>1, <2>1 DEF UserFiles, Includes
<1>4. \A n \in DOMAIN UserFiles :
        UserFiles[n] = local[n].data /\ UserFiles[n] \in Seq(Byte)
  BY UserFilesType DEF Inv
<1>5. sEnds # {} => /\ b.at = "block" /\ b.own = cname /\ b.pos = coff
                    /\ cname \in DOMAIN UserFiles /\ coff <= Len(UserFiles[cname])
  BY <1>1, <1>2 DEF ClientAt
<1>6. CASE put_file_to_server
  <2> DEFINE d == BlockAt(local[cname].data, coff)
  <2>1. PICK k \in PutCommand(Len(d)) :
          /\ ClientWrite(Block(k, d))
          /\ \/ k = "END_FILE" /\ ToMain
             \/ /\ k # "END_FILE" /\ coff' = coff + Len(d)
                /\ UNCHANGED <<cpc, ccmd, cname, copen, cEnd>>
    BY <1>6 DEF put_file_to_server
  <2>2. d \in Seq(Byte)
    <3>1. local[cname].data \in Seq(Byte)
      BY <1>1, EntryData DEF Inv, TypeOK, ClientTypeOK, LoginInv
    <3>2. QED
      BY <1>1, <3>1, BlockType
  <2>3. sEnds # {} => /\ coff + Len(d) <= Len(UserFiles[cname])
                      /\ d = Slice(UserFiles[cname], coff, coff + Len(d))
                      /\ Len(d) < MaxReadBytes => coff + Len(d) = Len(UserFiles[cname])
    BY <1>1, <1>4, <1>5, BlockIsSlice
  <2>4. Len(d) \in Nat
    BY <2>2
  <2>5. k \in command_type_t \cup {Garbage}
    BY <1>1, <2>1 DEF PutCommand, FreshCommand, ZeroCommand, command_type_t
  <2>6. k = "END_FILE" => Len(d) < MaxReadBytes \/ "reuse" \in Faults
    BY <2>1 DEF PutCommand, FreshCommand, ZeroCommand
  <2> HIDE DEF d
  <2> DEFINE m == Block(k, d)
  <2>7. m \in msg_head_ctrl_t /\ m.command = k /\ m.data = d /\ IsBlock(m)
    <3>1. m.data = d /\ m.name = BlockName /\ BlockName \in Text
      BY DEF Block, Frame, Text
    <3>2. QED
      BY <2>2, <2>5, <3>1, FrameType DEF IsBlock
  <2>8. ClientWrite(m)
    BY <2>1
  <2>9. PICK c \in Place : /\ c.own = cname /\ c.pos = coff + Len(d)
                          /\ c.at = IF k = "END_FILE" THEN "request" ELSE "block"
    <3>1. [at  |-> IF k = "END_FILE" THEN "request" ELSE "block",
           own |-> cname, pos |-> coff + Len(d)] \in Place
      BY <1>1, <2>4 DEF Place, Text, Inv, TypeOK, ClientTypeOK
    <3>2. QED
      BY <3>1
  <2> HIDE DEF m
  <2>10. sEnds # {} => Leads(UserFiles', b, m, c)
    BY <1>3, <1>5, <2>3, <2>6, <2>7, <2>9 DEF Leads
  <2>11. sEnds # {} => ClientAt(c)'
    BY <1>1, <1>3, <1>5, <2>1, <2>3, <2>9 DEF ClientAt, ToMain
  <2>12. QED
    BY <1>1, <1>2, <1>3, <2>7, <2>8, <2>9, <2>10, <2>11, ClientGoes
<1>7. CASE put_file_to_server_unopened
  <2> DEFINE m == Block("ERROR_FILE", << >>)
  <2>1. ClientWrite(m) /\ UNCHANGED <<cpc, coff, cname, cEnd>>
    BY <1>7 DEF put_file_to_server_unopened, clocals
  <2>2. m \in msg_head_ctrl_t /\ m.command = "ERROR_FILE" /\ m.data = << >> /\ IsBlock(m)
    <3>1. m.data = << >> /\ m.name = BlockName /\ BlockName \in Text
          /\ << >> \in Seq(Byte) /\ "ERROR_FILE" \in command_type_t
      BY DEF Block, Frame, Text, command_type_t
    <3>2. QED
      BY <3>1, FrameType DEF IsBlock
  <2> HIDE DEF m
  <2>3. sEnds # {} => << >> = Slice(UserFiles[cname], coff, coff)
    BY <1>1, <1>4, <1>5, SliceNone
  <2>4. Len(<< >>) = 0 /\ coff + 0 = coff
    BY <1>1
  <2>5. sEnds # {} => Leads(UserFiles', b, m, b)
    BY <1>3, <1>5, <2>2, <2>3, <2>4 DEF Leads
  <2>6. sEnds # {} => ClientAt(b)'
    BY <1>1, <1>2, <1>3, <2>1 DEF ClientAt
  <2>7. QED
    BY <1>1, <1>2, <1>3, <2>1, <2>2, <2>5, <2>6, ClientGoes
<1>8. QED
  BY <1>6, <1>7

\* Every step of the client, of the user or of the parent.
LEMMA UpClient ==
  ASSUME Inv, Inv', UpInv, UNCHANGED servVars, Includes(UserFiles, UserFiles'),
         \/ login \/ ClientStep \/ ClientFault
         \/ \E type \in UserCommands : \E arg \in Arguments(type) :
              handle_user_input(type, arg)
  PROVE  \E a, b \in Place :
           Run(c2s', a, b, Place, Way(UserFiles')) /\ ChildAt(a)' /\ ClientAt(b)'
<1>1. CASE login
  BY <1>1, UpLogin
<1>2. CASE send_command_to_server
  BY <1>2, UpSend
<1>3. CASE put_file_to_server \/ put_file_to_server_unopened
  BY <1>3, UpPut
<1>4. CASE UNCHANGED c2s /\ ~cEnd'
  BY <1>4, ClientElsewhere
<1>5. CASE /\ UNCHANGED <<c2s, sEnds>> /\ cEnd
           /\ (cpc # "put" /\ cpc' # "put") \/ UNCHANGED <<cpc, cname, coff>>
  BY <1>5, ClientElsewhere
<1>6. CASE \/ login_verdict \/ handle_server_ack
           \/ get_no_file \/ get_unopened \/ get_write_error \/ get_file_from_server
           \/ \E type \in UserCommands : \E arg \in Arguments(type) :
                handle_user_input(type, arg)
  <2>1. cEnd
    BY <1>6
       DEF Inv, LoginInv, login_verdict, handle_server_ack, handle_user_input,
           get_no_file, get_unopened, get_write_error, get_file_from_server,
           GetWritable, GetRead
  <2>2. UNCHANGED <<c2s, sEnds>>
    BY <1>6
       DEF login_verdict, handle_server_ack, handle_user_input, linkVars,
           get_no_file, get_unopened, get_write_error, get_file_from_server,
           GetWritable, GetRead
  <2>3. (cpc # "put" /\ cpc' # "put") \/ UNCHANGED <<cpc, cname, coff>>
    BY <1>6
       DEF login_verdict, handle_server_ack, handle_user_input, clocals,
           get_no_file, get_unopened, get_write_error, get_file_from_server,
           GetFailed, GetReturn, ToMain, GetWritable, GetRead
  <2>4. QED
    BY <1>5, <2>1, <2>2, <2>3
<1>7. CASE handle_server_ack_lost \/ client_sock_error \/ client_crash
  BY <1>4, <1>7 DEF handle_server_ack_lost, client_sock_error, client_crash, ToEnd
<1>8. QED
  BY <1>1, <1>2, <1>3, <1>6, <1>7 DEF ClientStep, ClientFault

LEMMA UpNext ==
  ASSUME Inv, Inv', UpInv, [Next]_vars
  PROVE  UpInv'
<1>1. Asked /\ Asked'
  BY AskedKept DEF UpInv
<1>2. Includes(UserFiles, UserFiles')
  BY <1>1, FilesKept
<1>3. SUFFICES \E a, b \in Place :
                 Run(c2s', a, b, Place, Way(UserFiles')) /\ ChildAt(a)' /\ ClientAt(b)'
  BY <1>1 DEF UpInv
<1>4. CASE ServAct \/ (ServFault /\ UNCHANGED clientVars)
  BY <1>4, UpServ DEF ServAct
<1>5. CASE ClientAct \/ UserAct \/ (ClientFault /\ UNCHANGED servVars)
  BY <1>2, <1>5, UpClient DEF ClientAct, UserAct
<1>6. CASE parent_exit \/ reset_by_server \/ UNCHANGED vars
  <2>1. UNCHANGED <<servVars, c2s, cpc, cname, coff, cEnd>> /\ sEnds' \subseteq sEnds
    BY <1>6 DEF parent_exit, reset_by_server, vars, linkVars, clientVars, clocals
  <2>2. cEnd \in BOOLEAN
    BY DEF Inv, TypeOK, LinkTypeOK
  <2>3. QED
    BY <1>2, <2>1, <2>2, ClientElsewhere
<1>7. CASE reset_by_client
  <2>1. /\ ~cEnd' /\ UNCHANGED servVars
        /\ \E n \in 0 .. Len(c2s) : c2s' = SubSeq(c2s, 1, n)
    <3>1. Len(c2s) \in Nat
      BY DEF Inv, TypeOK, LinkTypeOK
    <3>2. QED
      BY <1>7, <3>1 DEF reset_by_client, Cut
  <2>2. PICK a \in Place, b \in Place :
          Run(c2s, a, b, Place, Way(UserFiles)) /\ ChildAt(a)
    BY DEF UpInv
  <2>3. c2s \in Seq(msg_head_ctrl_t) /\ Run(c2s, a, b, Place, Way(UserFiles'))
    BY <1>2, <2>2, WayGrows, RunMore DEF Inv, TypeOK, LinkTypeOK
  <2>4. PICK c \in Place : Run(c2s', a, c, Place, Way(UserFiles'))
    BY <2>1, <2>3, RunFront
  <2>5. ChildAt(a)' /\ ClientAt(c)'
    BY <1>2, <2>1, <2>2, ChildWaits DEF ClientAt
  <2>6. QED
    BY <2>2, <2>4, <2>5
<1>8. QED
  BY <1>4, <1>5, <1>6, <1>7 DEF Next, Fault, Reset

LEMMA UpInit == Init => UpInv
<1> SUFFICES ASSUME Init PROVE UpInv
  OBVIOUS
<1>1. c2s = << >> /\ cpc = "login" /\ spc = "auth" /\ coff = 0 /\ sopen = FALSE
  BY DEF Init, LinkInit, ServInit, ClientInit
<1>2. PICK c \in Place : c.at = "request"
  <2>1. [at |-> "request", own |-> EmptyName, pos |-> 0] \in Place
    BY DEF Place, Text
  <2>2. QED
    BY <2>1
<1>3. Run(c2s, c, c, Place, Way(UserFiles))
  BY <1>1, RunEmpty
<1>4. ChildAt(c) /\ ClientAt(c) /\ Asked
  BY <1>1, <1>2 DEF ChildAt, ClientAt, Asked
<1>5. QED
  BY <1>3, <1>4 DEF UpInv

\* Whatever the user types ahead and whatever fails, the frames on their way
\* to the child lead from where it is to where the client is.
THEOREM UploadInvariant == Spec => []UpInv
<1>1. Inv /\ Inv' /\ UpInv /\ [Next]_vars => UpInv'
  BY UpNext
<1>2. QED
  BY <1>1, UpInit, Invariance, PTL DEF Spec

-----------------------------------------------------------------------------
(***************************************************************************)
(* Uploads.                                                                *)
(***************************************************************************)

\* While handle_put writes a file, the file holds the first bytes of the
\* user's file of that name, whatever crashes, however long the queue and
\* whatever the user types meanwhile: only a write that handle_put does not
\* look at can lose some. It takes that no block of the user's files spells a
\* file name: those of a refused upload are taken for requests, and then one
\* opens a file of that name for the next.
THEOREM UploadPrefixEver ==
  ASSUME "swrite" \notin Faults, Spelled \cap Names = {}
  PROVE  Spec => []UploadPrefix
<1>1. Inv /\ UpInv => UploadPrefix
  <2>1. SUFFICES ASSUME Inv, UpInv, spc = "put", sopen, sname \in Names
                 PROVE  IsPrefix(remote[path].data, local[sname].data)
    BY DEF UploadPrefix
  <2>2. PICK a \in Place : ChildAt(a)
    BY <2>1 DEF UpInv
  <2> DEFINE d == UserFiles[sname]
  <2>3. /\ d = local[sname].data /\ d \in Seq(Byte)
        /\ remote[path] = RegularFile(Slice(d, 0, a.pos))
        /\ a.pos \in Nat /\ a.pos <= Len(d)
    <3>1. Uploaded(a)
      BY <2>1, <2>2 DEF ChildAt
    <3>2. sname \in DOMAIN UserFiles
      BY <3>1 DEF Uploaded
    <3>3. d = local[sname].data /\ d \in Seq(Byte)
      BY <2>1, <3>2, UserFilesType DEF Inv
    <3>4. QED
      BY <2>1, <3>1, <3>3 DEF Uploaded, Place
  <2>4. remote[path].data = Slice(d, 0, a.pos)
    BY <2>3 DEF RegularFile
  <2>5. Len(Slice(d, 0, a.pos)) = a.pos
    BY <2>3, SliceType
  <2>6. Slice(d, 0, a.pos) = SubSeq(d, 1, a.pos)
    BY DEF Slice
  <2>7. QED
    BY <2>3, <2>4, <2>5, <2>6 DEF IsPrefix
<1>2. QED
  BY <1>1, UploadInvariant, Invariance, PTL

\* The last block of an upload completes the user's file.
LEMMA UploadedWhole ==
  ASSUME Faults \cap {"swrite", "reuse"} = {}, Spelled \cap Names = {},
         Inv, UpInv, handle_put, UNCHANGED clientVars,
         spc' # "put"
  PROVE  Kept(sname) /\ remote'[path] = local[sname]
<1>1. TypeOK /\ ServReadable /\ ServConsume
  BY DEF Inv, handle_put
<1>2. PICK a \in Place, b \in Place :
        Run(c2s, a, b, Place, Way(UserFiles)) /\ ChildAt(a)
  BY DEF UpInv
<1>3. \E c \in Place : \/ Leads(UserFiles, a, ServFrame, c)
                       \/ ServFrame = ZeroFrame /\ c = a
  BY <1>1, <1>2, ChildReads DEF Way
<1>4. sname \in DOMAIN UserFiles /\ remote'[path] = RegularFile(UserFiles[sname])
  BY <1>2, <1>3, PutLeads
<1>5. UserFiles[sname] = local[sname].data /\ Kept(sname)
  BY <1>1, <1>4, UserFilesType
<1>6. local[sname] = RegularFile(local[sname].data)
  <2>1. local[sname] \in Entry /\ local[sname].kind = "file"
    BY <1>1, <1>5 DEF Kept, file_exist, TypeOK, ClientTypeOK
  <2>2. local[sname] \in [kind : {"file"}, data : Seq(Byte)]
    BY <2>1 DEF Entry
  <2>3. QED
    BY <2>2 DEF RegularFile
<1>7. QED
  BY <1>4, <1>5, <1>6

\* When handle_put is done, the server has the whole file of the user. Besides
\* a write that fails, only a buffer that malloc hands out as it was can end
\* the file early: put_file_to_server leaves the command of a full block as it
\* finds it; and only a block of a refused upload that spells a file name can
\* begin a file nobody sent.
THEOREM UploadExactEver ==
  ASSUME Faults \cap {"swrite", "reuse"} = {}, Spelled \cap Names = {}
  PROVE  Spec => UploadExact
<1>1. ASSUME Inv, UpInv, [Next]_vars,
             spc = "put", spc' = "select", sname \in Names,
             sopen \/ remote'[path] # remote[path]
      PROVE  remote'[path] = local[sname]
  <2>1. CASE handle_put /\ UNCHANGED clientVars
    BY <1>1, <2>1, UploadedWhole
  <2>2. CASE handle_put_refused
    BY <1>1, <2>2 DEF handle_put_refused, sfiles
  <2>3. QED
    BY <1>1, <2>1, <2>2
       DEF Next, ServAct, ClientAct, UserAct, Fault, parent_exit, Reset,
           reset_by_client, reset_by_server, vars,
           servVars, ServStep, ServFault, authentication, authentication_db_error,
           serv_client_quit, handle_request_cd, handle_request_popen,
           handle_request_popen_fails, handle_request_get,
           handle_request_get_unopened, handle_request_put,
           handle_request_default, handle_get_no_file, handle_get,
           handle_get_read_error, handle_ls_pwd, serv_client_timeout,
           serv_client_crash, ToExit, Dispatch
<1>2. Inv /\ UpInv /\ [Next]_vars
      => [ spc = "put" /\ spc' = "select" /\ sname \in Names
             /\ (sopen \/ remote'[path] # remote[path])
           => remote'[path] = local[sname] ]_vars
  BY <1>1
<1>3. QED
  BY <1>2, UploadInvariant, Invariance, PTL DEF Spec, UploadExact

-----------------------------------------------------------------------------
(***************************************************************************)
(* The two ends of a transfer agree on where it ends.                      *)
(***************************************************************************)

Quitting == {m \in msg_head_ctrl_t : m.command = "QUIT"}
Asking   == {m \in msg_head_ctrl_t : m.command = "GET" /\ ~IsBlock(m)}
Answer   == {m \in msg_head_ctrl_t : m.command \in {"END_FILE", "NO_FILE"}}

\* While the client is there so is the child, to which no quit is on its way;
\* and a download is owed an answer that ends it: it is on its way, or the
\* child is at it, or the request is on its way.
StepInv ==
  cEnd =>
  /\ spc # "exit"
  /\ ~Holds(c2s, Quitting)
  /\ cpc = "get" => \/ Holds(s2c, Answer)
                    \/ Holds(c2s, Asking)
                    \/ spc \in {"get", "nofile"}

\* While the client is there the child reads a frame, never the end.
LEMMA StepFrame ==
  ASSUME Inv, cEnd, ServReadable, ServConsume
  PROVE  /\ c2s # << >> /\ ServFrame = Head(c2s) /\ c2s' = Tail(c2s)
         /\ c2s \in Seq(msg_head_ctrl_t)
BY DEF ServReadable, ServFrame, ServConsume, Inv, TypeOK, LinkTypeOK

\* A child that reads a frame and goes on.
LEMMA StepReads ==
  ASSUME Inv, StepInv, UNCHANGED <<cpc, cEnd>>,
         spc \notin {"exit", "get", "nofile"}, spc' # "exit",
         ServReadable, ServConsume,
         cEnd /\ ServFrame \in Asking => spc' \in {"get", "nofile"},
         Holds(s2c, Answer) => Holds(s2c', Answer)
  PROVE  StepInv'
<1>1. SUFFICES ASSUME cEnd PROVE StepInv'
  BY DEF StepInv
<1>2. /\ c2s # << >> /\ ServFrame = Head(c2s) /\ c2s' = Tail(c2s)
      /\ c2s \in Seq(msg_head_ctrl_t)
  BY <1>1, StepFrame
<1>3. /\ Holds(c2s', Quitting) => Holds(c2s, Quitting)
      /\ Holds(c2s, Asking) => ServFrame \in Asking \/ Holds(c2s', Asking)
  BY <1>2, HoldsTail
<1>4. QED
  BY <1>1, <1>3 DEF StepInv

\* A child that writes a frame and goes on.
LEMMA StepWrites ==
  ASSUME StepInv, UNCHANGED <<cpc, cEnd, c2s>>,
         spc' # "exit",
         Holds(s2c, Answer) => Holds(s2c', Answer),
         spc \in {"get", "nofile"} /\ spc' \notin {"get", "nofile"} /\ cEnd
           => Holds(s2c', Answer)
  PROVE  StepInv'
BY DEF StepInv

\* What the child writes is behind what was there.
LEMMA AnswerKept ==
  ASSUME Inv, NEW m \in msg_head_ctrl_t, ServWrite(m)
  PROVE  /\ Holds(s2c, Answer) => Holds(s2c', Answer)
         /\ m \in Answer /\ cEnd => Holds(s2c', Answer)
<1>1. s2c \in Seq(msg_head_ctrl_t)
  BY DEF Inv, TypeOK, LinkTypeOK
<1>2. Holds(Append(s2c, m), Answer) <=> Holds(s2c, Answer) \/ m \in Answer
  BY <1>1, HoldsAppend
<1>3. s2c' = Append(s2c, m) \/ (~cEnd /\ s2c' = s2c)
  BY DEF ServWrite
<1>4. QED
  BY <1>2, <1>3

\* A request read in authentication or as a block of a file is none.
LEMMA NotARequest ==
  ASSUME Inv, UpInv, spc \in {"auth", "put"}, c2s # << >>
  PROVE  Head(c2s) \notin Asking
<1>1. c2s \in Seq(msg_head_ctrl_t) /\ 1 \in DOMAIN c2s /\ Head(c2s) = c2s[1]
  BY TakeFirst DEF Inv, TypeOK, LinkTypeOK
<1>2. CASE spc = "auth"
  <2>1. Head(c2s).command \in Credential
    BY <1>1, <1>2 DEF Inv, LoginInv, LoginPhase
  <2>2. QED
    BY <2>1 DEF Credential, Asking
<1>3. CASE spc = "put"
  <2>1. PICK a \in Place, b \in Place :
          Run(c2s, a, b, Place, Way(UserFiles)) /\ a.at = "block"
    BY <1>3 DEF UpInv, ChildAt
  <2>2. PICK c : <<a, Head(c2s), c>> \in Way(UserFiles)
    BY <1>1, <2>1, RunTail
  <2>3. IsBlock(Head(c2s))
    BY <2>1, <2>2 DEF Way, Leads
  <2>4. QED
    BY <2>3 DEF Asking
<1>4. QED
  BY <1>2, <1>3

LEMMA StepDispatch ==
  ASSUME Inv, StepInv, UNCHANGED clientVars, ServStep \/ ServFault,
         spc = "select", "timeout" \notin Faults, "crash" \notin Faults,
         "sopen" \notin Faults
  PROVE  StepInv'
<1>1. CASE serv_client_quit
  <2>1. ServFrame.command = "QUIT" /\ ServReadable /\ ServConsume /\ UNCHANGED cEnd
    BY <1>1 DEF serv_client_quit, Dispatch
  <2>2. ~cEnd
    <3>1. SUFFICES ASSUME cEnd PROVE FALSE
      OBVIOUS
    <3>2. /\ c2s # << >> /\ ServFrame = Head(c2s) /\ c2s \in Seq(msg_head_ctrl_t)
      BY <2>1, <3>1, StepFrame
    <3>3. Holds(c2s, Quitting)
      BY <2>1, <3>2, TakeFirst DEF Holds, Quitting
    <3>4. QED
      BY <3>1, <3>3 DEF StepInv
  <2>3. QED
    BY <2>1, <2>2 DEF StepInv
<1>2. CASE handle_request_get
  <2>1. ServFrame.command = "GET" /\ ServReadable /\ ServConsume
        /\ spc' \in {"get", "nofile"} /\ UNCHANGED <<cEnd, s2c>>
    BY <1>2 DEF handle_request_get, Dispatch
  <2>2. QED
    BY <2>1, StepReads DEF clientVars
<1>3. ASSUME NEW commands, Dispatch(commands), {"QUIT", "GET"} \cap commands = {},
             spc' # "exit"
      PROVE  StepInv'
  <2>1. ServFrame.command # "GET" /\ ServReadable /\ ServConsume
        /\ UNCHANGED <<cEnd, s2c>>
    BY <1>3 DEF Dispatch
  <2>2. ServFrame \notin Asking
    BY <2>1 DEF Asking
  <2>3. QED
    BY <1>3, <2>1, <2>2, StepReads DEF clientVars
<1>4. CASE handle_request_cd \/ handle_request_put
  BY <1>3, <1>4 DEF handle_request_cd, handle_request_put, ToSelect
<1>5. CASE handle_request_popen \/ handle_request_popen_fails
  BY <1>3, <1>5 DEF handle_request_popen, handle_request_popen_fails, ToSelect
<1>6. CASE handle_request_default
  BY <1>3, <1>6 DEF handle_request_default, ToSelect, Garbage
<1>7. QED
  BY <1>1, <1>2, <1>4, <1>5, <1>6
     DEF ServStep, ServFault, authentication, authentication_db_error,
         handle_request_get_unopened, handle_put, handle_put_refused,
         handle_get_no_file, handle_get, handle_get_read_error, handle_ls_pwd,
         serv_client_timeout, serv_client_crash

LEMMA StepServ ==
  ASSUME Inv, UpInv, StepInv, UNCHANGED clientVars, ServStep \/ ServFault,
         Faults \cap {"db", "sighup", "sopen", "sread", "timeout", "crash"} = {}
  PROVE  StepInv'
<1>1. CASE spc = "select"
  BY <1>1, StepDispatch
<1>2. CASE SockError /\ UNCHANGED cEnd
  BY <1>2 DEF SockError, StepInv
<1>3. CASE authentication
  <2>1. SUFFICES ASSUME ~(SockError /\ UNCHANGED cEnd) PROVE StepInv'
    BY <1>2
  <2>2. /\ spc = "auth" /\ ServReadable /\ ServConsume /\ UNCHANGED cEnd
        /\ spc' \in {"select", "auth"}
        /\ \E v \in Verdict : ServWrite(Request(v, EmptyName))
    BY <1>3, <2>1 DEF authentication, Verdict
  <2>3. cEnd => ServFrame \notin Asking
    BY <2>2, StepFrame, NotARequest
  <2>4. Holds(s2c, Answer) => Holds(s2c', Answer)
    <3>1. PICK v \in Verdict : ServWrite(Request(v, EmptyName))
      BY <2>2
    <3>2. Request(v, EmptyName) \in msg_head_ctrl_t
      <4>1. EmptyName \in Text /\ << >> \in Seq(Byte)
        BY DEF Text
      <4>2. QED
        BY <4>1, FrameType
    <3>3. QED
      BY <3>1, <3>2, AnswerKept
  <2>5. QED
    BY <2>2, <2>3, <2>4, StepReads DEF clientVars
<1>4. CASE handle_put \/ handle_put_refused
  <2>1. /\ spc = "put" /\ ServReadable /\ ServConsume /\ UNCHANGED <<cEnd, s2c>>
        /\ spc' \in {"put", "select"}
    BY <1>4 DEF handle_put, handle_put_refused, ToSelect
  <2>2. cEnd => ServFrame \notin Asking
    BY <2>1, StepFrame, NotARequest
  <2>3. QED
    BY <2>1, <2>2, StepReads DEF clientVars
<1>5. CASE handle_get_no_file
  <2>1. SUFFICES ASSUME ~(SockError /\ UNCHANGED cEnd) PROVE StepInv'
    BY <1>2
  <2>2. /\ spc = "nofile" /\ spc' = "select" /\ UNCHANGED <<cEnd, c2s>>
        /\ ServWrite(Request("NO_FILE", sname))
    BY <1>5, <2>1 DEF handle_get_no_file, ToSelect
  <2>3. Request("NO_FILE", sname) \in Answer
    <3>1. sname \in Text /\ << >> \in Seq(Byte) /\ "NO_FILE" \in command_type_t
      BY DEF Inv, TypeOK, ServTypeOK, command_type_t
    <3>2. QED
      BY <3>1, FrameType DEF Answer
  <2>4. QED
    BY <2>2, <2>3, AnswerKept, StepWrites DEF Answer, clientVars
<1>6. CASE handle_get
  <2>1. SUFFICES ASSUME ~(SockError /\ UNCHANGED cEnd) PROVE StepInv'
    BY <1>2
  <2> DEFINE d == BlockAt(remote[path].data, soff)
             k == BlockCommand(Len(d), scmd)
  <2>2. /\ spc = "get" /\ ServWrite(Block(k, d)) /\ UNCHANGED <<cEnd, c2s>>
        /\ IF LastBlock(Len(d)) THEN spc' = "select" ELSE spc' = "get"
    BY <1>6, <2>1 DEF handle_get, ToSelect
  <2>3. d \in Seq(Byte) /\ Len(d) \in 0 .. MaxReadBytes
    <3>1. sname \in Names /\ path \in Paths
      BY <2>2 DEF Inv, LoginInv, TypeOK, ServTypeOK, path, Paths
    <3>2. remote[path].data \in Seq(Byte) /\ soff \in Nat
      BY <3>1, EntryData DEF Inv, TypeOK, ServTypeOK
    <3>3. d \in Seq(Byte) /\ Len(d) \in Nat
      BY <3>2, BlockType
    <3>4. Len(d) <= MaxReadBytes
      BY <3>2, BlockLength
    <3>5. QED
      BY <3>3, <3>4, ProtocolAssumption
  <2>4. LastBlock(Len(d)) => k = "END_FILE"
    BY <2>3, NetworkOrder, ProtocolAssumption DEF LastBlock, BlockCommand
  <2>5. Block(k, d) \in msg_head_ctrl_t /\ Block(k, d).command = k
    <3>1. k \in command_type_t \cup {Garbage} /\ BlockName \in Text
      BY DEF BlockCommand, Inv, TypeOK, ServTypeOK, command_type_t, Text
    <3>2. QED
      BY <2>3, <3>1, FrameType
  <2>6. LastBlock(Len(d)) => Block(k, d) \in Answer
    BY <2>4, <2>5 DEF Answer
  <2> HIDE DEF d, k
  <2>7. QED
    BY <2>2, <2>5, <2>6, AnswerKept, StepWrites DEF clientVars
<1>7. CASE handle_ls_pwd
  <2>1. SUFFICES ASSUME ~(SockError /\ UNCHANGED cEnd) PROVE StepInv'
    BY <1>2
  <2>2. PICK n \in {sleft, MaxReadBytes} :
          /\ spc = "pipe" /\ ServWrite(Frame(scmd, EmptyName, [i \in 1 .. n |-> ListByte]))
          /\ UNCHANGED <<cEnd, c2s>> /\ spc' \in {"select", "pipe"}
    BY <1>7, <2>1 DEF handle_ls_pwd, ToSelect
  <2>3. Frame(scmd, EmptyName, [i \in 1 .. n |-> ListByte]) \in msg_head_ctrl_t
    <3>1. /\ scmd \in command_type_t \cup {Garbage} /\ EmptyName \in Text
          /\ n \in Nat /\ ListByte \in Byte
      BY ProtocolAssumption, ServerAssumption DEF Inv, TypeOK, ServTypeOK, Text
    <3>2. [i \in 1 .. n |-> ListByte] \in Seq(Byte)
      BY <3>1
    <3>3. QED
      BY <3>1, <3>2, FrameType
  <2>4. QED
    BY <2>2, <2>3, AnswerKept, StepWrites DEF clientVars
<1>8. QED
  BY <1>1, <1>3, <1>4, <1>5, <1>6, <1>7
     DEF ServStep, ServFault, serv_client_quit, handle_request_cd,
         handle_request_popen, handle_request_popen_fails, handle_request_get,
         handle_request_get_unopened, handle_request_put,
         handle_request_default, serv_client_timeout, Dispatch,
         authentication_db_error, handle_get_read_error, serv_client_crash

\* Every step of the client, of the user or of the parent.
LEMMA StepClient ==
  ASSUME Inv, StepInv, UNCHANGED servVars, "reuse" \notin Faults, "kill" \notin Faults,
         \/ login \/ ClientStep \/ ClientFault
         \/ \E type \in UserCommands : \E arg \in Arguments(type) :
              handle_user_input(type, arg)
  PROVE  StepInv'
<1>1. /\ c2s \in Seq(msg_head_ctrl_t) /\ s2c \in Seq(msg_head_ctrl_t)
      /\ cEnd \in BOOLEAN /\ UNCHANGED spc
  BY DEF Inv, TypeOK, LinkTypeOK, servVars
<1>2. cEnd /\ spc # "exit" /\ sEnds # {}
  <2>1. cpc # "exit"
    BY DEF ClientStep, ClientFault, login, login_verdict, handle_user_input,
           handle_server_ack, handle_server_ack_lost, send_command_to_server,
           client_sock_error, put_file_to_server, put_file_to_server_unopened,
           get_no_file, get_unopened, get_write_error, get_file_from_server,
           GetWritable, GetRead, client_crash
  <2>2. QED
    BY <2>1 DEF Inv, LoginInv, StepInv
<1>3. ASSUME UNCHANGED <<c2s, cEnd>>,
             cpc' = "get" => cpc = "get" /\ (Holds(s2c, Answer) => Holds(s2c', Answer))
      PROVE  StepInv'
  BY <1>1, <1>2, <1>3 DEF StepInv
<1>4. ASSUME NEW m \in msg_head_ctrl_t, ClientWrite(m), m \notin Quitting, cEnd',
             cpc' = "get" => m \in Asking
      PROVE  StepInv'
  <2>1. c2s' = Append(c2s, m)
    BY <1>2, <1>4 DEF ClientWrite
  <2>2. /\ Holds(c2s', Quitting) => Holds(c2s, Quitting)
        /\ m \in Asking => Holds(c2s', Asking)
    BY <1>1, <1>4, <2>1, HoldsAppend
  <2>3. QED
    BY <1>1, <1>2, <1>4, <2>2 DEF StepInv
<1>5. CASE login
  <2>1. PICK c \in Credential : ClientWrite(Request(c, EmptyName))
    BY <1>5 DEF login
  <2>2. /\ Request(c, EmptyName) \in msg_head_ctrl_t
        /\ Request(c, EmptyName).command = c
    <3>1. EmptyName \in Text /\ << >> \in Seq(Byte)
      BY DEF Text
    <3>2. QED
      BY <3>1, FrameType
  <2>3. Request(c, EmptyName) \notin Quitting
    BY <2>2 DEF Quitting, Credential
  <2>4. QED
    BY <1>2, <1>4, <1>5, <2>1, <2>2, <2>3 DEF login
<1>6. CASE send_command_to_server
  <2> DEFINE m == Request(ccmd, cname)
  <2>1. ClientWrite(m) /\ cpc = "send"
    BY <1>6 DEF send_command_to_server
  <2>2. m \in msg_head_ctrl_t /\ m.command = ccmd /\ ~IsBlock(m)
    <3>1. cname \in Text /\ << >> \in Seq(Byte) /\ cname # BlockName
      BY ProtocolAssumption DEF Inv, TypeOK, ClientTypeOK, Text
    <3>2. m.name = cname
      BY DEF Request, Frame
    <3>3. ccmd \in command_type_t
      BY DEF Inv, TypeOK, ClientTypeOK
    <3>4. QED
      BY <3>1, <3>2, <3>3, FrameType DEF IsBlock
  <2> HIDE DEF m
  <2>3. CASE ccmd = "QUIT"
    <3>1. ~cEnd'
      BY <1>6, <2>3 DEF send_command_to_server, ToMain, ToEnd
    <3>2. QED
      BY <3>1 DEF StepInv
  <2>4. CASE ccmd # "QUIT"
    <3>1. cEnd' /\ (cpc' = "get" => ccmd = "GET")
      BY <1>2, <1>6, <2>4 DEF send_command_to_server, ToMain, ToEnd
    <3>2. m \notin Quitting /\ (ccmd = "GET" => m \in Asking)
      BY <2>2, <2>4 DEF Quitting, Asking
    <3>3. QED
      BY <1>4, <2>1, <2>2, <3>1, <3>2
  <2>5. QED
    BY <2>3, <2>4
<1>7. CASE put_file_to_server
  <2> DEFINE d == BlockAt(local[cname].data, coff)
  <2>1. PICK k \in PutCommand(Len(d)) : ClientWrite(Block(k, d)) /\ UNCHANGED cEnd
                                        /\ cpc' # "get"
    BY <1>7 DEF put_file_to_server, ToMain
  <2>2. d \in Seq(Byte)
    <3>1. local[cname].data \in Seq(Byte) /\ coff \in Nat
      BY <1>7, EntryData DEF put_file_to_server, Inv, TypeOK, ClientTypeOK, LoginInv
    <3>2. QED
      BY <3>1, BlockType
  <2>3. k \in {"END_FILE", "PUT"} /\ k \in command_type_t
    BY <2>1 DEF PutCommand, FreshCommand, ZeroCommand, command_type_t
  <2>4. Block(k, d) \in msg_head_ctrl_t /\ Block(k, d).command = k
    <3>1. BlockName \in Text
      BY DEF Text
    <3>2. QED
      BY <2>2, <2>3, <3>1, FrameType
  <2>5. Block(k, d) \notin Quitting
    BY <2>3, <2>4 DEF Quitting
  <2>6. QED
    BY <1>2, <1>4, <2>1, <2>4, <2>5
<1>8. CASE put_file_to_server_unopened
  <2>1. /\ Block("ERROR_FILE", << >>) \in msg_head_ctrl_t
        /\ Block("ERROR_FILE", << >>).command = "ERROR_FILE"
    <3>1. BlockName \in Text /\ << >> \in Seq(Byte) /\ "ERROR_FILE" \in command_type_t
      BY DEF Text, command_type_t
    <3>2. QED
      BY <3>1, FrameType
  <2>2. Block("ERROR_FILE", << >>) \notin Quitting
    BY <2>1 DEF Quitting
  <2>3. QED
    BY <1>2, <1>4, <1>8, <2>1, <2>2 DEF put_file_to_server_unopened
<1>9. CASE get_no_file \/ get_unopened \/ get_write_error \/ get_file_from_server
  <2>1. cpc = "get" /\ ClientReadable /\ ClientConsume /\ UNCHANGED c2s
    BY <1>9 DEF get_no_file, get_unopened, get_write_error, get_file_from_server,
                GetWritable, GetRead
  <2>2. ClientFrame = Head(s2c) /\ s2c' = Tail(s2c) /\ s2c # << >>
    BY <1>2, <2>1 DEF ClientReadable, ClientFrame, ClientConsume
  <2>3. UNCHANGED cEnd
    BY <1>9 DEF get_no_file, get_unopened, get_write_error, get_file_from_server,
                GetFailed, GetReturn, ToMain
  <2>4. cpc' = "get" => Head(s2c).command \notin {"NO_FILE", "END_FILE"}
    BY <1>9, <2>2 DEF get_no_file, get_unopened, get_write_error,
                get_file_from_server, GetFailed, GetReturn, ToMain, GetWritable
  <2>5. cpc' = "get" => (Holds(s2c, Answer) => Holds(s2c', Answer))
    <3>1. cpc' = "get" => Head(s2c) \notin Answer
      BY <2>4 DEF Answer
    <3>2. QED
      BY <1>1, <2>2, <3>1, HoldsTail
  <2>6. QED
    BY <1>3, <2>1, <2>3, <2>5
<1>10. CASE handle_server_ack_lost \/ client_sock_error \/ client_crash
  BY <1>2, <1>10
     DEF handle_server_ack_lost, client_sock_error, client_crash, ClientReadable
<1>11. CASE \/ login_verdict \/ handle_server_ack
            \/ \E type \in UserCommands : \E arg \in Arguments(type) :
                 handle_user_input(type, arg)
  <2>1. UNCHANGED <<c2s, cEnd>> /\ cpc' # "get"
    BY <1>11 DEF login_verdict, handle_server_ack, handle_user_input, linkVars
  <2>2. QED
    BY <1>3, <2>1
<1>12. QED
  BY <1>5, <1>6, <1>7, <1>8, <1>9, <1>10, <1>11 DEF ClientStep, ClientFault

\* The two ends of a transfer agree on where it ends, however far the user
\* types ahead: a block of a refused upload is never taken for anything that
\* is answered, the empty block that follows a short one, or a whole number
\* of full ones, is taken as the end by both, and nobody waits for a block
\* that nobody will send. Only a failure that one end does not tell the other
\* can break it, and those are excluded: the command of a listing may not
\* start, disks may fail to take what is written, the user's file may not
\* open, and the parent may go.
THEOREM StaysInStep ==
  ASSUME Faults \subseteq {"popen", "swrite", "parent", "copen", "cwrite"}
  PROVE  Spec => []InStep
<1>1. Init => StepInv
  BY HoldsNothing DEF Init, LinkInit, ServInit, ClientInit, StepInv
<1>2. Inv /\ UpInv /\ StepInv /\ [Next]_vars => StepInv'
  <2>1. SUFFICES ASSUME Inv, UpInv, StepInv, [Next]_vars PROVE StepInv'
    OBVIOUS
  <2>2. CASE ServAct \/ (ServFault /\ UNCHANGED clientVars)
    BY <2>1, <2>2, StepServ DEF ServAct
  <2>3. CASE ClientAct \/ UserAct \/ (ClientFault /\ UNCHANGED servVars)
    BY <2>1, <2>3, StepClient DEF ClientAct, UserAct
  <2>4. CASE parent_exit \/ UNCHANGED vars
    BY <2>1, <2>4 DEF parent_exit, vars, linkVars, servVars, clientVars, StepInv
  <2>5. CASE Reset
    <3>1. ~cEnd
      BY <2>1, <2>5
         DEF Reset, reset_by_client, reset_by_server, StepInv, Inv, LoginInv
    <3>2. QED
      BY <2>5, <3>1 DEF Reset, reset_by_client, reset_by_server, StepInv
  <2>6. QED
    BY <2>1, <2>2, <2>3, <2>4, <2>5 DEF Next, Fault
<1>3. Inv /\ UpInv /\ StepInv => InStep
  <2>1. SUFFICES ASSUME Inv, UpInv, StepInv, cEnd
                 PROVE  /\ spc = "put" /\ c2s = << >> => cpc = "put"
                        /\ cpc = "get" /\ s2c = << >> =>
                             c2s # << >> \/ spc \in {"get", "nofile", "pipe"}
    BY DEF InStep
  <2>2. ASSUME spc = "put", c2s = << >> PROVE cpc = "put"
    <3>1. PICK a \in Place, b \in Place :
            Run(c2s, a, b, Place, Way(UserFiles)) /\ ChildAt(a) /\ ClientAt(b)
      BY <2>1 DEF UpInv
    <3>2. b.at = "block"
      BY <2>2, <3>1, RunEmpty DEF ChildAt
    <3>3. cEnd /\ sEnds # {}
      BY <2>1, <2>2 DEF StepInv, Inv, LoginInv
    <3>4. QED
      BY <3>1, <3>2, <3>3 DEF ClientAt
  <2>3. ASSUME cpc = "get", s2c = << >>
        PROVE  c2s # << >> \/ spc \in {"get", "nofile", "pipe"}
    BY <2>1, <2>3, HoldsNothing DEF StepInv
  <2>4. QED
    BY <2>2, <2>3
<1>4. QED
  BY <1>1, <1>2, <1>3, Invariance, UploadInvariant, PTL DEF Spec

=============================================================================
