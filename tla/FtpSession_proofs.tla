-------------------------- MODULE FtpSession_proofs --------------------------
(***************************************************************************)
(* Proofs about FtpSession, for every value of its constants.              *)
(*                                                                         *)
(* TypeOK is not inductive alone: the buffer a client frees holds the      *)
(* command of a frame only because no verdict is left when the login is    *)
(* over, which LoginInv says. The two are proved together, one process at  *)
(* a time. Then: a session leaves alone the files nobody asked it to       *)
(* change.                                                                 *)
(***************************************************************************)
EXTENDS FtpSession, RunLemmas

Inv == TypeOK /\ LoginInv

-----------------------------------------------------------------------------
\* The frames the two programs build are frames.
LEMMA FrameType ==
  ASSUME NEW c \in command_type_t \cup {Garbage} \cup Credential \cup Verdict,
         NEW n \in Text, NEW d \in Seq(Byte)
  PROVE  /\ Frame(c, n, d) \in msg_head_ctrl_t
         /\ Request(c, n) \in msg_head_ctrl_t
         /\ Block(c, d) \in msg_head_ctrl_t
         /\ Frame(c, n, d).command = c
         /\ Request(c, n).command = c
         /\ Block(c, d).command = c
BY DEF Frame, Request, Block, msg_head_ctrl_t, Text

\* The cleared buffer of a failed read is one too, and no credential.
LEMMA ZeroFrameType ==
  /\ ZeroFrame \in msg_head_ctrl_t
  /\ ZeroFrame.command = ZeroCommand
  /\ ZeroFrame.data = << >>
BY DEF ZeroFrame, Request, Frame, msg_head_ctrl_t, Text, ZeroCommand,
       command_type_t

-----------------------------------------------------------------------------
\* What one queue of the connection may hold after a step: frames it held
\* before, and perhaps new ones with a command of the protocol.
Wire == command_type_t \cup {Garbage}

Drawn(new, old) == \A i \in DOMAIN new : \E j \in DOMAIN old : new[i] = old[j]

DrawnOrSent(new, old) ==
  \A i \in DOMAIN new : \/ \E j \in DOMAIN old : new[i] = old[j]
                        \/ new[i].command \in Wire

LEMMA TakeFirst ==
  ASSUME NEW q \in Seq(msg_head_ctrl_t), q # << >>
  PROVE  /\ Head(q) \in msg_head_ctrl_t
         /\ 1 \in DOMAIN q /\ Head(q) = q[1]
         /\ Tail(q) \in Seq(msg_head_ctrl_t)
         /\ Len(Tail(q)) = Len(q) - 1
         /\ Drawn(Tail(q), q)
<1>1. Tail(q) \in Seq(msg_head_ctrl_t) /\ Len(Tail(q)) = Len(q) - 1
  OBVIOUS
<1>2. ASSUME NEW i \in DOMAIN Tail(q)
      PROVE  i + 1 \in DOMAIN q /\ Tail(q)[i] = q[i + 1]
  BY <1>1
<1>3. Drawn(Tail(q), q)
  BY <1>2 DEF Drawn
<1>4. QED
  BY <1>1, <1>3

LEMMA AddLast ==
  ASSUME NEW q \in Seq(msg_head_ctrl_t), NEW m \in msg_head_ctrl_t
  PROVE  /\ Append(q, m) \in Seq(msg_head_ctrl_t)
         /\ Len(Append(q, m)) = Len(q) + 1
         /\ \A i \in DOMAIN Append(q, m) :
              (\E j \in DOMAIN q : Append(q, m)[i] = q[j]) \/ Append(q, m)[i] = m
         /\ q = << >> => Append(q, m)[1] = m
<1>1. Append(q, m) \in Seq(msg_head_ctrl_t) /\ Len(Append(q, m)) = Len(q) + 1
  OBVIOUS
<1>2. ASSUME NEW i \in DOMAIN Append(q, m)
      PROVE  (i \in DOMAIN q /\ Append(q, m)[i] = q[i]) \/ Append(q, m)[i] = m
  BY <1>1
<1>3. q = << >> => Append(q, m)[1] = m
  OBVIOUS
<1>4. QED
  BY <1>1, <1>2, <1>3

\* A read by the child.
LEMMA ServReads ==
  ASSUME LinkTypeOK, ServReadable, ServConsume
  PROVE  /\ c2s' \in Seq(msg_head_ctrl_t) /\ Len(c2s') <= Capacity
         /\ ServFrame \in msg_head_ctrl_t
         /\ Drawn(c2s', c2s)
         /\ c2s = << >> => ~cEnd /\ c2s' = << >> /\ ServFrame = ZeroFrame
         /\ c2s # << >> => /\ Len(c2s') = Len(c2s) - 1
                           /\ \E j \in DOMAIN c2s : ServFrame = c2s[j]
<1>1. CASE c2s = << >>
  BY <1>1, ZeroFrameType
     DEF LinkTypeOK, ServReadable, ServConsume, ServFrame, Drawn
<1>2. CASE c2s # << >>
  <2>1. ServFrame = Head(c2s) /\ c2s' = Tail(c2s)
    BY <1>2 DEF ServConsume, ServFrame
  <2>2. QED
    BY <1>2, <2>1, TakeFirst, LinkAssumption DEF LinkTypeOK
<1>3. QED
  BY <1>1, <1>2

\* A write by the child.
LEMMA ServWrites ==
  ASSUME LinkTypeOK, NEW m \in msg_head_ctrl_t, ServWrite(m)
  PROVE  /\ s2c' \in Seq(msg_head_ctrl_t) /\ Len(s2c') <= Capacity
         /\ \A i \in DOMAIN s2c' :
              (\E j \in DOMAIN s2c : s2c'[i] = s2c[j]) \/ s2c'[i] = m
         /\ \/ ~cEnd /\ s2c' = s2c
            \/ /\ cEnd /\ Len(s2c') = Len(s2c) + 1
               /\ s2c = << >> => s2c'[1] = m
<1>1. CASE cEnd /\ Len(s2c) < Capacity /\ s2c' = Append(s2c, m)
  BY <1>1, AddLast, LinkAssumption DEF LinkTypeOK
<1>2. CASE ~cEnd /\ UNCHANGED s2c
  BY <1>2 DEF LinkTypeOK
<1>3. QED
  BY <1>1, <1>2 DEF ServWrite

\* A read by the client.
LEMMA ClientReads ==
  ASSUME LinkTypeOK, ClientReadable, ClientConsume
  PROVE  /\ s2c' \in Seq(msg_head_ctrl_t) /\ Len(s2c') <= Capacity
         /\ ClientFrame \in msg_head_ctrl_t
         /\ Drawn(s2c', s2c)
         /\ s2c = << >> => sEnds = {} /\ s2c' = << >> /\ ClientFrame = ZeroFrame
         /\ s2c # << >> => /\ Len(s2c') = Len(s2c) - 1
                           /\ 1 \in DOMAIN s2c /\ ClientFrame = s2c[1]
<1>1. CASE s2c = << >>
  BY <1>1, ZeroFrameType
     DEF LinkTypeOK, ClientReadable, ClientConsume, ClientFrame, Drawn
<1>2. CASE s2c # << >>
  <2>1. ClientFrame = Head(s2c) /\ s2c' = Tail(s2c)
    BY <1>2 DEF ClientConsume, ClientFrame
  <2>2. QED
    BY <1>2, <2>1, TakeFirst, LinkAssumption DEF LinkTypeOK
<1>3. QED
  BY <1>1, <1>2

\* A write by the client.
LEMMA ClientWrites ==
  ASSUME LinkTypeOK, NEW m \in msg_head_ctrl_t, ClientWrite(m)
  PROVE  /\ c2s' \in Seq(msg_head_ctrl_t) /\ Len(c2s') <= Capacity
         /\ \A i \in DOMAIN c2s' :
              (\E j \in DOMAIN c2s : c2s'[i] = c2s[j]) \/ c2s'[i] = m
         /\ \/ sEnds = {} /\ c2s' = c2s
            \/ /\ sEnds # {} /\ Len(c2s') = Len(c2s) + 1
               /\ c2s = << >> => c2s'[1] = m
<1>1. CASE sEnds # {} /\ Len(c2s) < Capacity /\ c2s' = Append(c2s, m)
  BY <1>1, AddLast, LinkAssumption DEF LinkTypeOK
<1>2. CASE sEnds = {} /\ UNCHANGED c2s
  BY <1>2 DEF LinkTypeOK
<1>3. QED
  BY <1>1, <1>2 DEF ClientWrite

-----------------------------------------------------------------------------
(***************************************************************************)
(* LoginInv under the steps of one process. Only authentication, login and *)
(* login_verdict change the phase; every other step is one of these two.   *)
(***************************************************************************)

\* A step of the child that is past authentication, as LoginInv sees it.
LEMMA ServPhase ==
  ASSUME Inv, UNCHANGED <<clientVars, cEnd>>,
         spc \notin {"auth", "exit"}, spc' # "auth",
         "child" \in sEnds' <=> spc' # "exit",
         Drawn(c2s', c2s), DrawnOrSent(s2c', s2c),
         cpc # "verdict" \/ (spc' = "exit" /\ UNCHANGED <<c2s, s2c>>),
         spc' = "get" => sname' \in Names
  PROVE  LoginInv'
<1> USE DEF Inv, clientVars, clocals
<1>1. ASSUME NEW i \in DOMAIN c2s'
      PROVE  c2s'[i].command \notin Credential
  BY DEF LoginInv, LoginPhase, Drawn
<1>2. ASSUME NEW i \in DOMAIN s2c'
      PROVE  s2c'[i].command \notin Credential
  BY DEF LoginInv, DrawnOrSent, Wire, command_type_t, Garbage, Credential
<1>3. ASSUME NEW i \in DOMAIN s2c', cpc \notin {"verdict", "exit"}
      PROVE  s2c'[i].command \notin Verdict
  BY <1>3 DEF LoginInv, LoginPhase, DrawnOrSent, Wire, command_type_t,
              Garbage, Verdict
<1>4. cpc = "verdict" =>
        /\ spc' = "exit"
        /\ Len(s2c') <= 1
        /\ \A i \in DOMAIN s2c' : s2c'[i].command \in Verdict
  BY DEF LoginInv, LoginPhase
<1>5. LoginPhase'
  BY <1>1, <1>3, <1>4 DEF LoginPhase
<1>6. QED
  BY <1>1, <1>2, <1>4, <1>5 DEF LoginInv

\* A step of the client that is past login, as LoginInv sees it.
LEMMA ClientPhase ==
  ASSUME Inv, UNCHANGED <<servVars, sEnds>>,
         cpc \in {"main", "send", "put", "get"},
         cpc' \in {"main", "send", "put", "get", "exit"},
         cEnd' <=> cpc' # "exit",
         DrawnOrSent(c2s', c2s), Drawn(s2c', s2c),
         cpc' \in {"put", "get"} => cname' \in Names,
         cpc' = "send" /\ ccmd' \in {"PUT", "LPWD", "GET"} => cname' \in Names
  PROVE  LoginInv'
<1> USE DEF Inv, servVars, slocals, sfiles
<1>1. spc # "auth" /\ spc' = spc
  BY DEF LoginInv, LoginPhase
<1>2. ASSUME NEW i \in DOMAIN c2s', spc # "exit"
      PROVE  c2s'[i].command \notin Credential
  BY <1>1, <1>2 DEF LoginInv, LoginPhase, DrawnOrSent, Wire, command_type_t,
                    Garbage, Credential
<1>3. ASSUME NEW i \in DOMAIN s2c'
      PROVE  s2c'[i].command \notin Credential \cup Verdict
  BY DEF LoginInv, LoginPhase, Drawn
<1>4. LoginPhase'
  BY <1>1, <1>2, <1>3 DEF LoginPhase
<1>5. QED
  BY <1>1, <1>2, <1>3, <1>4 DEF LoginInv

-----------------------------------------------------------------------------
(***************************************************************************)
(* Inv under the steps of the child.                                       *)
(***************************************************************************)

\* What the locals of the child are when a handler is left.
LEMMA ForgetType ==
  ASSUME ForgetLocals
  PROVE  /\ scmd' \in command_type_t \cup {Garbage} /\ sname' \in Text
         /\ soff' \in Nat /\ sleft' \in Nat /\ sopen' \in BOOLEAN
BY DEF ForgetLocals, ZeroCommand, command_type_t, Text

LEMMA AuthenticationInv ==
  ASSUME Inv, authentication \/ authentication_db_error, UNCHANGED clientVars
  PROVE  Inv'
<1> USE DEF Inv
<1>1. /\ spc = "auth" /\ ServReadable /\ ServConsume /\ LinkTypeOK
      /\ cEnd' = cEnd
  BY DEF authentication, authentication_db_error, TypeOK
<1>2. cpc \in {"verdict", "exit"}
  BY <1>1, ServReads DEF LoginInv, LoginPhase, TypeOK, ClientTypeOK
<1>3. c2s' = << >>
  <2>1. c2s \in Seq(msg_head_ctrl_t) /\ s2c \in Seq(msg_head_ctrl_t)
        /\ Len(c2s) <= 1
    BY <1>1 DEF LinkTypeOK, LoginInv
  <2>2. c2s' \in Seq(msg_head_ctrl_t)
        /\ (c2s = << >> \/ Len(c2s') = Len(c2s) - 1)
    BY <1>1, ServReads
  <2>3. c2s = << >> \/ Len(c2s') = 0
    BY <2>1, <2>2
  <2>4. QED
    BY <1>1, <2>2, <2>3, ServReads
<1>4. cpc = "verdict" => c2s # << >> /\ s2c = << >>
  <2>1. SUFFICES ASSUME cpc = "verdict" PROVE c2s # << >> /\ s2c = << >>
    OBVIOUS
  <2>2. c2s # << >>
    BY <1>1, <2>1, ServReads DEF LoginInv
  <2>3. Len(s2c) = 0
    BY <1>1, <2>1, <2>2 DEF LinkTypeOK, LoginInv
  <2>4. QED
    BY <1>1, <2>2, <2>3 DEF LinkTypeOK
<1>5. CASE ToExit /\ UNCHANGED <<sfiles, s2c>>
  <2>1. TypeOK'
    BY <1>1, <1>5, ServReads, ForgetType
       DEF TypeOK, LinkTypeOK, ServTypeOK, ClientTypeOK, ToExit, sfiles,
           Paths, clientVars, clocals
  <2>2. LoginInv'
    BY <1>1, <1>2, <1>4, <1>5
       DEF LoginInv, LoginPhase, ToExit, clientVars, clocals
  <2>3. QED
    BY <2>1, <2>2
<1>6. ASSUME NEW found \in BOOLEAN, found = nrow_is_1(ServFrame),
             ServWrite(Request(IF found THEN "1" ELSE "0", EmptyName)),
             spc' = (IF found THEN "select" ELSE "auth"),
             UNCHANGED <<slocals, sEnds, sfiles>>
      PROVE  Inv'
  <2> DEFINE m == Request(IF found THEN "1" ELSE "0", EmptyName)
  <2>1. m \in msg_head_ctrl_t /\ m.command = (IF found THEN "1" ELSE "0")
    <3>1. EmptyName \in Text /\ << >> \in Seq(Byte)
      BY DEF Text
    <3>2. (IF found THEN "1" ELSE "0") \in Verdict
      BY DEF Verdict
    <3>3. QED
      BY <3>1, <3>2, FrameType
  <2>2. ServWrite(m)
    BY <1>6
  <2> HIDE DEF m
  <2>3. TypeOK'
    BY <1>1, <1>6, <2>1, <2>2, ServReads, ServWrites
       DEF TypeOK, LinkTypeOK, ServTypeOK, ClientTypeOK, slocals,
           sfiles, Paths, clientVars, clocals
  <2>4. ASSUME NEW i \in DOMAIN s2c'
        PROVE  /\ s2c'[i].command \in Verdict
               /\ ~found => s2c'[i].command = "0"
    <3>1. (\E j \in DOMAIN s2c : s2c'[i] = s2c[j]) \/ s2c'[i] = m
      BY <1>1, <2>1, <2>2, ServWrites
    <3>2. QED
      BY <1>1, <2>1, <3>1 DEF LoginInv, Verdict
  <2>5. cpc = "verdict" =>
          Len(s2c') = 1 /\ Len(s2c') <= 1 /\ s2c'[1] = m
    BY <1>1, <1>4, <2>1, <2>2, ServWrites DEF LoginInv
  <2>6. Len(s2c') <= 1
    <3>1. CASE cpc = "verdict"
      BY <2>5, <3>1
    <3>2. CASE cpc = "exit"
      BY <1>1, <2>1, <2>2, <3>2, ServWrites DEF LoginInv, LinkTypeOK
    <3>3. QED
      BY <1>2, <3>1, <3>2
  <2>7. \A i \in DOMAIN s2c' : s2c'[i].command \notin Credential
    BY <2>4 DEF Verdict, Credential
  <2>8. LoginPhase'
    BY <1>1, <1>2, <1>3, <1>6, <2>4 DEF LoginPhase, clientVars, clocals
  <2>9. QED
    BY <1>1, <1>2, <1>3, <1>6, <2>1, <2>3, <2>4, <2>5, <2>6, <2>7, <2>8
       DEF LoginInv, LinkTypeOK, clientVars, clocals, slocals
<1>7. CASE authentication
  BY <1>5, <1>6, <1>7 DEF authentication, SockError, nrow_is_1
<1>8. CASE authentication_db_error
  BY <1>5, <1>8 DEF authentication_db_error
<1>9. QED
  BY <1>7, <1>8

\* A request is taken from the connection: what is left of Inv to show is
\* the child's own state.
LEMMA DispatchInv ==
  ASSUME Inv, UNCHANGED clientVars, NEW commands, Dispatch(commands),
         ServTypeOK', spc' # "auth",
         \/ spc' = "exit" /\ sEnds' = sEnds \ {"child"}
         \/ spc' # "exit" /\ UNCHANGED sEnds,
         spc' = "get" => sname' \in Names
  PROVE  Inv'
<1> USE DEF Inv
<1>1. /\ spc = "select" /\ ServReadable /\ ServConsume /\ LinkTypeOK
      /\ UNCHANGED <<s2c, cEnd>>
  BY DEF Dispatch, TypeOK
<1>2. cpc # "verdict"
  BY <1>1, ServReads DEF LoginInv
<1>3. Drawn(c2s', c2s) /\ DrawnOrSent(s2c', s2c)
  BY <1>1, ServReads DEF DrawnOrSent
<1>4. LinkTypeOK'
  BY <1>1, ServReads DEF LinkTypeOK
<1>5. ClientTypeOK'
  BY DEF TypeOK, ClientTypeOK, clientVars, clocals
<1>6. "child" \in sEnds' <=> spc' # "exit"
  BY <1>1 DEF LoginInv
<1>7. LoginInv'
  BY <1>1, <1>2, <1>3, <1>6, ServPhase
<1>8. QED
  BY <1>4, <1>5, <1>7 DEF TypeOK

\* The frame that is dispatched is one.
LEMMA DispatchFrame ==
  ASSUME Inv, NEW commands, Dispatch(commands)
  PROVE  /\ ServFrame.command \in commands
         /\ NamesIn(ServFrame) \subseteq Text /\ ServFrame.data \in Seq(Byte)
<1>1. LinkTypeOK /\ ServReadable /\ ServConsume /\ ServFrame.command \in commands
  BY DEF Dispatch, Inv, TypeOK
<1>2. ServFrame \in msg_head_ctrl_t
  BY <1>1, ServReads
<1>3. ServFrame.name \in Text /\ Spelled \subseteq Text
  BY <1>2, ProtocolAssumption DEF msg_head_ctrl_t, Text
<1>4. QED
  BY <1>1, <1>2, <1>3 DEF msg_head_ctrl_t, NamesIn

\* Requests that are carried out, or dropped, without a further call.
LEMMA SimpleRequestInv ==
  ASSUME Inv, UNCHANGED clientVars,
         \/ serv_client_quit
         \/ handle_request_cd
         \/ handle_request_default
         \/ handle_request_popen_fails
         \/ handle_request_get_unopened
  PROVE  Inv'
<1>1. ServTypeOK
  BY DEF Inv, TypeOK
<1>2. CASE serv_client_quit
  <2>1. ServTypeOK'
    BY <1>1, <1>2, ForgetType
       DEF serv_client_quit, ToExit, ServTypeOK, sfiles, Paths
  <2>2. QED
    BY <1>2, <2>1, DispatchInv DEF serv_client_quit, ToExit
<1>3. CASE handle_request_cd
  <2>1. ServTypeOK'
    BY <1>1, <1>3, ForgetType
       DEF handle_request_cd, ToSelect, ServTypeOK, Paths
  <2>2. QED
    BY <1>3, <2>1, DispatchInv DEF handle_request_cd, ToSelect
<1>4. ASSUME NEW commands, Dispatch(commands), ToSelect, UNCHANGED sfiles
      PROVE  Inv'
  <2>1. ServTypeOK'
    BY <1>1, <1>4, ForgetType DEF ToSelect, ServTypeOK, sfiles, Paths
  <2>2. QED
    BY <1>4, <2>1, DispatchInv DEF ToSelect
<1>5. QED
  BY <1>2, <1>3, <1>4
     DEF handle_request_default, handle_request_popen_fails,
         handle_request_get_unopened

\* Requests whose handler blocks again.
LEMMA LongRequestInv ==
  ASSUME Inv, UNCHANGED clientVars,
         handle_request_popen \/ handle_request_get \/ handle_request_put
  PROVE  Inv'
<1>1. ServTypeOK
  BY DEF Inv, TypeOK
<1>2. CASE handle_request_popen
  <2> DEFINE commands == {"LS", "PWD", "RM", "MKDIR"}
  <2>1. Dispatch(commands)
    BY <1>2 DEF handle_request_popen
  <2>2. ServFrame.command \in commands /\ NamesIn(ServFrame) \subseteq Text
    BY <2>1, DispatchFrame
  <2>n. PICK n \in NamesIn(ServFrame) :
          Keep(n) /\ RunCommand(ServFrame.command, n)
    BY <1>2 DEF handle_request_popen
  <2>3. scmd' \in command_type_t /\ sname' \in Text
    BY <2>2, <2>n DEF Keep, command_type_t
  <2>4. remote' \in [Paths -> Entry]
    <3>1. NoEntry \in Entry
      BY DEF NoEntry, Entry
    <3>2. QED
      BY <1>1, <2>n, <3>1 DEF RunCommand, ServTypeOK
  <2>5. sdirs' \subseteq Dirs /\ scwd' \in Dirs
    BY <1>1, <2>n DEF RunCommand, ServTypeOK
  <2>6. spc' = "pipe" /\ sleft' \in Nat /\ UNCHANGED <<soff, sopen, sEnds>>
    BY <1>2, <2>n, ServerAssumption DEF handle_request_popen, Keep
  <2>7. ServTypeOK'
    BY <1>1, <2>3, <2>4, <2>5, <2>6 DEF ServTypeOK, Paths
  <2>8. QED
    BY <2>1, <2>6, <2>7, DispatchInv
<1>3. CASE handle_request_get
  <2>1. NamesIn(ServFrame) \subseteq Text /\ ServFrame.command = "GET"
    BY <1>3, DispatchFrame DEF handle_request_get
  <2>n. PICK n \in NamesIn(ServFrame) :
          /\ Keep(n)
          /\ spc' = IF file_exist(GetTarget(n)) THEN "get" ELSE "nofile"
    BY <1>3 DEF handle_request_get
  <2>2. ServTypeOK'
    BY <1>1, <1>3, <2>1, <2>n
       DEF handle_request_get, Keep, ServTypeOK, sfiles, Paths, command_type_t
  <2>3. spc' = "get" => sname' \in Names
    BY <2>n DEF Keep, GetTarget, file_exist, NoEntry
  <2>4. QED
    BY <1>3, <2>2, <2>3, <2>n, DispatchInv DEF handle_request_get, Keep
<1>4. CASE handle_request_put
  <2>1. NamesIn(ServFrame) \subseteq Text /\ ServFrame.command = "PUT"
    BY <1>4, DispatchFrame DEF handle_request_put
  <2>2. ServTypeOK'
    BY <1>1, <1>4, <2>1
       DEF handle_request_put, Keep, ServTypeOK, sfiles, Paths, command_type_t
  <2>3. QED
    BY <1>4, <2>2, DispatchInv DEF handle_request_put, Keep
<1>5. QED
  BY <1>2, <1>3, <1>4

\* One block of an upload.
LEMMA HandlePutInv ==
  ASSUME Inv, UNCHANGED clientVars, handle_put \/ handle_put_refused
  PROVE  Inv'
<1> USE DEF Inv
<1>1. /\ spc = "put" /\ ServReadable /\ ServConsume
      /\ LinkTypeOK /\ ServTypeOK /\ ClientTypeOK
      /\ UNCHANGED <<s2c, cEnd>>
  BY DEF handle_put, handle_put_refused, TypeOK
<1>2. cpc # "verdict"
  BY <1>1 DEF LoginInv
<1>3. Drawn(c2s', c2s) /\ DrawnOrSent(s2c', s2c)
  BY <1>1, ServReads DEF DrawnOrSent
<1>4. LinkTypeOK'
  <2>1. UNCHANGED sEnds
    BY DEF handle_put, handle_put_refused, ToSelect
  <2>2. QED
    BY <1>1, <2>1, ServReads DEF LinkTypeOK
<1>5. ClientTypeOK'
  BY <1>1 DEF ClientTypeOK, clientVars, clocals
<1>6. spc' \in {"put", "select"} /\ UNCHANGED sEnds
  BY DEF handle_put, handle_put_refused, ToSelect
<1>7. ServTypeOK'
  <2>1. CASE handle_put_refused
    BY <1>1, <2>1, ForgetType
       DEF handle_put_refused, ToSelect, ServTypeOK, sfiles, Paths
  <2>2. CASE handle_put
    <3>1. ServFrame.data \in Seq(Byte)
      BY <1>1, ServReads DEF msg_head_ctrl_t
    <3>2. remote' \in [Paths -> Entry]
      <4>1. path \in Paths /\ remote[path] \in Entry
        BY <1>1, <2>2 DEF handle_put, path, Paths, ServTypeOK
      <4>2. remote[path].data \in Seq(Byte)
        BY <4>1, EntryData
      <4>3. Stored(remote[path].data, ServFrame.data) \subseteq Seq(Byte)
        BY <3>1, <4>2, MoreData DEF Stored
      <4>4. PICK d \in Seq(Byte) :
              remote' = [remote EXCEPT ![path] = RegularFile(d)]
        BY <2>2, <4>3 DEF handle_put
      <4>5. RegularFile(d) \in Entry
        BY MoreData
      <4>6. QED
        BY <1>1, <4>4, <4>5 DEF ServTypeOK
    <3>3. QED
      BY <1>1, <2>2, <3>2, ForgetType
         DEF handle_put, ToSelect, ServTypeOK, Paths
  <2>3. QED
    BY <2>1, <2>2
<1>8. LoginInv'
  BY <1>1, <1>2, <1>3, <1>6, ServPhase DEF LoginInv
<1>9. QED
  BY <1>4, <1>5, <1>7, <1>8 DEF TypeOK

\* A handler writes one frame, or the connection is gone and it ends.
LEMMA WriterInv ==
  ASSUME Inv, UNCHANGED <<clientVars, c2s, cEnd>>,
         spc \in {"get", "nofile", "pipe"},
         \/ UNCHANGED s2c
         \/ \E m \in msg_head_ctrl_t : m.command \in Wire /\ ServWrite(m),
         ServTypeOK', spc' # "auth",
         \/ spc' = "exit" /\ sEnds' = sEnds \ {"child"}
         \/ spc' # "exit" /\ UNCHANGED sEnds,
         spc' = "get" => sname' \in Names
  PROVE  Inv'
<1> USE DEF Inv
<1>1. LinkTypeOK /\ cpc # "verdict"
  BY DEF TypeOK, LoginInv
<1>2. s2c' \in Seq(msg_head_ctrl_t) /\ Len(s2c') <= Capacity
      /\ DrawnOrSent(s2c', s2c)
  <2>1. CASE UNCHANGED s2c
    BY <1>1, <2>1 DEF LinkTypeOK, DrawnOrSent
  <2>2. CASE \E m \in msg_head_ctrl_t : m.command \in Wire /\ ServWrite(m)
    BY <1>1, <2>2, ServWrites DEF DrawnOrSent
  <2>3. QED
    BY <2>1, <2>2
<1>3. Drawn(c2s', c2s)
  BY DEF Drawn
<1>4. LinkTypeOK' /\ ClientTypeOK'
  BY <1>1, <1>2 DEF TypeOK, LinkTypeOK, ClientTypeOK, clientVars, clocals
<1>5. "child" \in sEnds' <=> spc' # "exit"
  BY DEF LoginInv
<1>6. LoginInv'
  BY <1>1, <1>2, <1>3, <1>5, ServPhase
<1>7. QED
  BY <1>4, <1>6 DEF TypeOK

\* A handler that gives up leaves the child's files and types as they were.
LEMMA LeaveType ==
  ASSUME ServTypeOK, UNCHANGED sfiles, ToSelect \/ ToExit
  PROVE  ServTypeOK'
BY ForgetType DEF ToSelect, ToExit, ServTypeOK, sfiles, Paths

LEMMA HandleGetInv ==
  ASSUME Inv, UNCHANGED clientVars,
         handle_get \/ handle_get_no_file \/ handle_get_read_error
  PROVE  Inv'
<1>1. ServTypeOK /\ (spc = "get" => sname \in Names)
  BY DEF Inv, TypeOK, LoginInv
<1>2. UNCHANGED <<sfiles, c2s, cEnd>> /\ spc \in {"get", "nofile"}
  BY DEF handle_get, handle_get_no_file, handle_get_read_error
<1>3. CASE SockError
  BY <1>1, <1>2, <1>3, LeaveType, WriterInv DEF SockError, ToExit
<1>4. ASSUME NEW m \in msg_head_ctrl_t, m.command \in Wire, ServWrite(m), ToSelect
      PROVE  Inv'
  BY <1>1, <1>2, <1>4, LeaveType, WriterInv DEF ToSelect
<1>5. CASE handle_get_no_file
  <2> DEFINE m == Request("NO_FILE", sname)
  <2>1. m \in msg_head_ctrl_t /\ m.command \in Wire
    <3>1. "NO_FILE" \in Wire /\ sname \in Text /\ << >> \in Seq(Byte)
      BY <1>1 DEF ServTypeOK, Wire, command_type_t
    <3>2. QED
      BY <3>1, FrameType DEF Wire
  <2>2. QED
    BY <1>3, <1>4, <1>5, <2>1 DEF handle_get_no_file
<1>6. CASE handle_get_read_error
  <2> DEFINE m == Block("ERROR_FILE", << >>)
  <2>1. m \in msg_head_ctrl_t /\ m.command \in Wire
    <3>1. "ERROR_FILE" \in Wire /\ BlockName \in Text /\ << >> \in Seq(Byte)
      BY DEF Wire, command_type_t, Text
    <3>2. QED
      BY <3>1, FrameType DEF Wire
  <2>2. QED
    BY <1>3, <1>4, <1>6, <2>1 DEF handle_get_read_error
<1>7. CASE handle_get
  <2> DEFINE d == BlockAt(remote[path].data, soff)
             m == Block(BlockCommand(Len(d), scmd), d)
  <2>1. d \in Seq(Byte) /\ Len(d) \in Nat
    <3>1. path \in Paths /\ remote[path] \in Entry
      BY <1>1, <1>7 DEF handle_get, path, Paths, ServTypeOK
    <3>2. remote[path].data \in Seq(Byte) /\ soff \in Nat
      BY <1>1, <3>1, EntryData DEF ServTypeOK
    <3>3. QED
      BY <3>2, BlockType
  <2> HIDE DEF d
  <2>2. BlockCommand(Len(d), scmd) \in Wire
    BY <1>1 DEF BlockCommand, ServTypeOK, Wire, command_type_t
  <2>3. m \in msg_head_ctrl_t /\ m.command \in Wire
    <3>1. BlockName \in Text
      BY DEF Text
    <3>2. QED
      BY <2>1, <2>2, <3>1, FrameType DEF Wire
  <2> HIDE DEF m
  <2>4. CASE /\ ServWrite(m)
             /\ soff' = soff + Len(d)
             /\ UNCHANGED <<spc, scmd, sname, sopen, sleft, sEnds>>
    <3>1. ServTypeOK'
      BY <1>1, <1>2, <2>1, <2>4 DEF ServTypeOK, sfiles, Paths
    <3>2. spc = "get" /\ spc' = "get" /\ sname' \in Names /\ UNCHANGED sEnds
      BY <1>1, <1>7, <2>4 DEF handle_get
    <3>3. QED
      BY <1>2, <2>3, <2>4, <3>1, <3>2, WriterInv
  <2>5. CASE ServWrite(m) /\ ToSelect
    BY <1>4, <2>3, <2>5
  <2>6. QED
    BY <1>3, <1>7, <2>4, <2>5 DEF handle_get, d, m
<1>8. QED
  BY <1>5, <1>6, <1>7

LEMMA HandleLsPwdInv ==
  ASSUME Inv, UNCHANGED clientVars, handle_ls_pwd
  PROVE  Inv'
<1>1. ServTypeOK
  BY DEF Inv, TypeOK
<1>2. UNCHANGED <<sfiles, c2s, cEnd>> /\ spc = "pipe"
  BY DEF handle_ls_pwd
<1> DEFINE n == IF sleft < MaxReadBytes THEN sleft ELSE MaxReadBytes
           m == Frame(scmd, EmptyName, [i \in 1 .. n |-> ListByte])
<1>3. n \in Nat /\ sleft - n \in Nat
  BY <1>1, ProtocolAssumption DEF ServTypeOK
<1> HIDE DEF n
<1>4. m \in msg_head_ctrl_t /\ m.command \in Wire
  <2>1. [i \in 1 .. n |-> ListByte] \in Seq(Byte)
    BY <1>3, ServerAssumption
  <2>2. EmptyName \in Text /\ scmd \in Wire
    BY <1>1 DEF Text, ServTypeOK, Wire
  <2>3. QED
    BY <2>1, <2>2, FrameType DEF Wire
<1> HIDE DEF m
<1>5. CASE SockError
  BY <1>1, <1>2, <1>5, LeaveType, WriterInv DEF SockError, ToExit
<1>6. CASE ServWrite(m) /\ (ToSelect \/ ToExit)
  BY <1>1, <1>2, <1>4, <1>6, LeaveType, WriterInv DEF ToSelect, ToExit
<1>7. CASE /\ ServWrite(m) /\ sleft' = sleft - n
           /\ UNCHANGED <<spc, scmd, sname, soff, sopen, sEnds>>
  <2>1. ServTypeOK'
    BY <1>1, <1>2, <1>3, <1>7 DEF ServTypeOK, sfiles, Paths
  <2>2. QED
    BY <1>2, <1>4, <1>7, <2>1, WriterInv
<1>8. QED
  BY <1>5, <1>6, <1>7 DEF handle_ls_pwd, n, m

\* The child ends on its own, wherever it is.
LEMMA ServEndsInv ==
  ASSUME Inv, UNCHANGED clientVars, serv_client_timeout \/ serv_client_crash
  PROVE  Inv'
<1>1. ToExit /\ spc # "exit" /\ UNCHANGED <<sfiles, c2s, s2c, cEnd>>
  BY DEF serv_client_timeout, serv_client_crash
<1>2. TypeOK'
  <2>1. ServTypeOK'
    BY <1>1, LeaveType DEF Inv, TypeOK
  <2>2. QED
    BY <1>1, <2>1
       DEF Inv, TypeOK, LinkTypeOK, ClientTypeOK, ToExit, clientVars, clocals
<1>3. LoginInv'
  BY <1>1
     DEF Inv, TypeOK, LinkTypeOK, LoginInv, LoginPhase, ToExit, clientVars,
         clocals, Credential, Verdict
<1>4. QED
  BY <1>2, <1>3 DEF Inv

LEMMA ServInv ==
  ASSUME Inv, UNCHANGED clientVars, ServStep \/ ServFault
  PROVE  Inv'
BY AuthenticationInv, SimpleRequestInv, LongRequestInv, HandlePutInv,
   HandleGetInv, HandleLsPwdInv, ServEndsInv
   DEF ServStep, ServFault

-----------------------------------------------------------------------------
(***************************************************************************)
(* Inv under the steps of the client.                                      *)
(***************************************************************************)

\* login writes into empty directions, and only before authentication ends.
LEMMA LoginStepInv ==
  ASSUME Inv, UNCHANGED servVars, login
  PROVE  Inv'
<1> USE DEF Inv
<1>1. /\ cpc = "login" /\ cpc' = "verdict" /\ LinkTypeOK
      /\ UNCHANGED <<clocals, heap, local, s2c, cEnd, sEnds>>
  BY DEF login, TypeOK
<1>2. PICK c \in Credential : ClientWrite(Request(c, EmptyName))
  BY DEF login
<1> DEFINE m == Request(c, EmptyName)
<1>3. m \in msg_head_ctrl_t /\ m.command = c
  <2>1. EmptyName \in Text /\ << >> \in Seq(Byte)
    BY DEF Text
  <2>2. QED
    BY <2>1, FrameType
<1>4. ClientWrite(m)
  BY <1>2
<1> HIDE DEF m
<1>5. TypeOK'
  BY <1>1, <1>3, <1>4, ClientWrites
     DEF TypeOK, LinkTypeOK, ServTypeOK, ClientTypeOK, servVars, slocals,
         sfiles, Paths, clocals
<1>6. s2c = << >> /\ spc \in {"auth", "exit"} /\ spc' = spc
  BY <1>1 DEF LoginInv, TypeOK, ServTypeOK, servVars
<1>7. ASSUME spc = "auth"
      PROVE  Len(c2s') = 1 /\ c2s'[1] = m /\ c2s' \in Seq(msg_head_ctrl_t)
  <2>1. c2s = << >> /\ sEnds # {}
    BY <1>1, <1>7 DEF LoginInv
  <2>2. QED
    BY <1>1, <1>3, <1>4, <2>1, ClientWrites
<1>8. spc = "auth" =>
        /\ Len(c2s') + Len(s2c') = 1 /\ Len(c2s') + Len(s2c') <= 1
        /\ \A i \in DOMAIN c2s' : c2s'[i].command \in Credential
  <2>1. SUFFICES ASSUME spc = "auth"
                 PROVE  /\ Len(c2s') + Len(s2c') = 1
                        /\ Len(c2s') + Len(s2c') <= 1
                        /\ \A i \in DOMAIN c2s' : c2s'[i].command \in Credential
    OBVIOUS
  <2>2. Len(s2c') = 0
    BY <1>1, <1>6
  <2>3. Len(c2s') + Len(s2c') = 1 /\ Len(c2s') + Len(s2c') <= 1
    <3>1. Len(c2s') = 1 /\ Len(c2s') \in Nat
      BY <1>7, <2>1
    <3>2. QED
      BY <2>2, <3>1
  <2>4. \A i \in DOMAIN c2s' : c2s'[i].command \in Credential
    BY <1>3, <1>7, <2>1
  <2>5. QED
    BY <2>3, <2>4
<1>9. LoginPhase'
  BY <1>1, <1>6, <1>8 DEF LoginPhase
<1>10. s2c' = << >> /\ Len(s2c') <= 1
  BY <1>1, <1>6
<1>11. LoginInv'
  BY <1>1, <1>6, <1>8, <1>9, <1>10 DEF LoginInv
<1>12. QED
  BY <1>5, <1>11

\* The verdict is taken out, and with it the last frame without a header.
LEMMA LoginVerdictInv ==
  ASSUME Inv, UNCHANGED servVars, login_verdict
  PROVE  Inv'
<1> USE DEF Inv
<1>1. /\ cpc = "verdict" /\ LinkTypeOK /\ ClientReadable /\ ClientConsume
      /\ UNCHANGED <<clocals, heap, local, c2s, cEnd, sEnds>>
      /\ cpc' \in {"main", "login"}
  BY DEF login_verdict, TypeOK
<1>2. s2c' = << >>
  <2>1. s2c' \in Seq(msg_head_ctrl_t)
        /\ (s2c = << >> => s2c' = << >>)
        /\ (s2c # << >> => Len(s2c') = Len(s2c) - 1)
    BY <1>1, ClientReads
  <2>2. Len(s2c) <= 1 /\ s2c \in Seq(msg_head_ctrl_t)
    BY <1>1 DEF LoginInv, LinkTypeOK
  <2>3. s2c # << >> => Len(s2c') = 0
    BY <2>1, <2>2
  <2>4. QED
    BY <2>1, <2>3
<1>3. TypeOK'
  BY <1>1, ClientReads
     DEF TypeOK, LinkTypeOK, ServTypeOK, ClientTypeOK, servVars, slocals,
         sfiles, Paths, clocals
<1>4. CASE s2c = << >>
  <2>1. spc = "exit" /\ spc' = "exit"
    <3>1. sEnds = {}
      BY <1>1, <1>4, ClientReads
    <3>2. QED
      BY <3>1 DEF LoginInv, servVars
  <2>2. LoginInv'
    BY <1>1, <1>2, <2>1 DEF LoginInv, LoginPhase
  <2>3. QED
    BY <1>3, <2>2
<1>5. CASE s2c # << >>
  <2>1. 1 \in DOMAIN s2c /\ Head(s2c) = s2c[1]
    BY <1>1, <1>5, TakeFirst DEF LinkTypeOK
  <2>2. cpc' = (IF s2c[1].command = "1" THEN "main" ELSE "login")
    BY <1>5, <2>1 DEF login_verdict
  <2>3. spc = "auth" => cpc' = "login" /\ c2s' = << >>
    <3>1. SUFFICES ASSUME spc = "auth"
                   PROVE  cpc' = "login" /\ c2s' = << >>
      OBVIOUS
    <3>2. s2c[1].command = "0"
      BY <2>1, <3>1 DEF LoginInv
    <3>3. Len(c2s) + Len(s2c) = 1 /\ Len(s2c) # 0 /\ Len(c2s) \in Nat
          /\ Len(s2c) \in Nat
      BY <1>1, <1>5, <3>1 DEF LoginInv, LinkTypeOK
    <3>4. Len(c2s) = 0
      BY <3>3
    <3>5. QED
      BY <1>1, <2>2, <3>2, <3>4 DEF LinkTypeOK
  <2>4. spc \notin {"auth", "exit"} => cpc' = "main"
    BY <1>1, <2>2 DEF LoginInv
  <2>5. spc' = spc
    BY DEF servVars
  <2>6. LoginPhase'
    BY <1>1, <1>2, <2>3, <2>5 DEF LoginInv, LoginPhase
  <2>7. Len(c2s') + Len(s2c') <= 1 \/ spc # "auth"
    BY <1>2, <2>3
  <2>8. LoginInv'
    BY <1>1, <1>2, <2>3, <2>4, <2>5, <2>6, <2>7 DEF LoginInv
  <2>9. QED
    BY <1>3, <2>8
<1>6. QED
  BY <1>4, <1>5

\* A step of the client past its login: what is left of Inv to show is the
\* client's own state.
LEMMA ClientPastLogin ==
  ASSUME Inv, UNCHANGED <<servVars, sEnds>>,
         cpc \in {"main", "send", "put", "get"},
         \/ cpc' \in {"main", "send", "put", "get"} /\ UNCHANGED cEnd
         \/ cpc' = "exit" /\ cEnd' = FALSE,
         \/ UNCHANGED c2s
         \/ \E m \in msg_head_ctrl_t : m.command \in Wire /\ ClientWrite(m),
         UNCHANGED s2c \/ (ClientReadable /\ ClientConsume),
         ClientTypeOK',
         cpc' \in {"put", "get"} => cname' \in Names,
         cpc' = "send" /\ ccmd' \in {"PUT", "LPWD", "GET"} => cname' \in Names
  PROVE  Inv'
<1> USE DEF Inv
<1>1. LinkTypeOK
  BY DEF TypeOK
<1>2. c2s' \in Seq(msg_head_ctrl_t) /\ Len(c2s') <= Capacity
      /\ DrawnOrSent(c2s', c2s)
  <2>1. CASE UNCHANGED c2s
    BY <1>1, <2>1 DEF LinkTypeOK, DrawnOrSent
  <2>2. CASE \E m \in msg_head_ctrl_t : m.command \in Wire /\ ClientWrite(m)
    BY <1>1, <2>2, ClientWrites DEF DrawnOrSent
  <2>3. QED
    BY <2>1, <2>2
<1>3. s2c' \in Seq(msg_head_ctrl_t) /\ Len(s2c') <= Capacity /\ Drawn(s2c', s2c)
  <2>1. CASE UNCHANGED s2c
    BY <1>1, <2>1 DEF LinkTypeOK, Drawn
  <2>2. CASE ClientReadable /\ ClientConsume
    BY <1>1, <2>2, ClientReads
  <2>3. QED
    BY <2>1, <2>2
<1>4. cEnd' \in BOOLEAN /\ (cEnd' <=> cpc' # "exit")
  BY <1>1 DEF LoginInv, LinkTypeOK
<1>5. LinkTypeOK' /\ ServTypeOK'
  BY <1>1, <1>2, <1>3, <1>4
     DEF TypeOK, LinkTypeOK, ServTypeOK, servVars, slocals, sfiles, Paths
<1>6. LoginInv'
  BY <1>2, <1>3, <1>4, ClientPhase
<1>7. QED
  BY <1>5, <1>6 DEF TypeOK

\* What the locals of the client are back at the prompt.
LEMMA ForgetRequestType ==
  ASSUME ForgetRequest
  PROVE  /\ ccmd' \in command_type_t
         /\ cname' \in Names \cup Dirs \cup {EmptyName}
         /\ coff' \in Nat /\ copen' \in BOOLEAN
BY DEF ForgetRequest, ZeroCommand, command_type_t

\* The client's return to its prompt, or its end, disturbs no other type.
LEMMA ReturnType ==
  ASSUME ClientTypeOK, ToMain \/ ToEnd,
         heap' \in Wire, local' \in [Names -> Entry]
  PROVE  ClientTypeOK'
BY ForgetRequestType DEF ToMain, ToEnd, ClientTypeOK, Wire

\* A frame the client reads past its login has a command of the protocol.
LEMMA FrameReadType ==
  ASSUME Inv, cpc \in {"main", "get"}, ClientReadable, ClientConsume
  PROVE  /\ ClientFrame.command \in Wire
         /\ ClientFrame.data \in Seq(Byte)
         /\ s2c # << >> => ClientFrame = Head(s2c)
<1>1. LinkTypeOK
  BY DEF Inv, TypeOK
<1>2. ClientFrame \in msg_head_ctrl_t
  BY <1>1, ClientReads
<1>3. s2c # << >> => ClientFrame.command \notin Credential \cup Verdict
  BY <1>1, ClientReads DEF Inv, LoginInv, LoginPhase
<1>4. s2c = << >> => ClientFrame.command \in Wire
  BY <1>1, ClientReads, ZeroFrameType DEF Wire, ZeroCommand, command_type_t
<1>5. QED
  BY <1>2, <1>3, <1>4 DEF msg_head_ctrl_t, Wire, ClientFrame

LEMMA FreedType ==
  ASSUME NEW c \in Wire, Freed(c)
  PROVE  heap' \in Wire
BY DEF Freed, Wire, ZeroCommand, command_type_t

\* The select loop: an answer, its end, or a typed line.
LEMMA MainLoopInv ==
  ASSUME Inv, UNCHANGED servVars,
         \/ handle_server_ack
         \/ handle_server_ack_lost
         \/ \E type \in UserCommands : \E arg \in Arguments(type) :
              handle_user_input(type, arg)
  PROVE  Inv'
<1>1. ClientTypeOK
  BY DEF Inv, TypeOK
<1>2. CASE handle_server_ack
  <2>1. /\ cpc = "main" /\ s2c # << >> /\ ClientReadable /\ ClientConsume
        /\ Freed(Head(s2c).command)
        /\ UNCHANGED <<cpc, clocals, local, c2s, cEnd, sEnds>>
    BY <1>2 DEF handle_server_ack, ClientReadable
  <2>2. Head(s2c).command \in Wire
    BY <2>1, FrameReadType
  <2>3. ClientTypeOK'
    BY <1>1, <2>1, <2>2, FreedType DEF ClientTypeOK, clocals, Wire
  <2>4. QED
    BY <2>1, <2>3, ClientPastLogin
<1>3. CASE handle_server_ack_lost
  <2>1. cpc = "main" /\ ToEnd /\ UNCHANGED <<heap, local, c2s, s2c, sEnds>>
    BY <1>3 DEF handle_server_ack_lost
  <2>2. ClientTypeOK'
    BY <1>1, <2>1, ReturnType DEF ClientTypeOK, Wire
  <2>3. QED
    BY <2>1, <2>2, ClientPastLogin DEF ToEnd
<1>4. ASSUME NEW type \in UserCommands, NEW arg \in Arguments(type),
             handle_user_input(type, arg)
      PROVE  Inv'
  <2>1. /\ cpc = "main" /\ cpc' = "send" /\ ccmd' = type /\ cname' = arg
        /\ UNCHANGED <<coff, copen, heap, local, c2s, s2c, cEnd, sEnds>>
    BY <1>4 DEF handle_user_input, linkVars
  <2>2. type \in command_type_t
    BY ClientAssumption DEF command_type_t
  <2>3. /\ arg \in Names \cup Dirs \cup {EmptyName}
        /\ type \in {"PUT", "LPWD", "GET"} => arg \in Names
    BY ClientAssumption DEF Arguments
  <2>4. ClientTypeOK'
    BY <1>1, <2>1, <2>2, <2>3 DEF ClientTypeOK
  <2>5. QED
    BY <2>1, <2>3, <2>4, ClientPastLogin
<1>5. QED
  BY <1>2, <1>3, <1>4

LEMMA SendCommandInv ==
  ASSUME Inv, UNCHANGED servVars, send_command_to_server \/ client_sock_error
  PROVE  Inv'
<1>1. ClientTypeOK
  BY DEF Inv, TypeOK
<1>2. CASE client_sock_error
  <2>1. /\ cpc \in {"send", "put"} /\ ToEnd
        /\ UNCHANGED <<heap, local, c2s, s2c, sEnds>>
    BY <1>2 DEF client_sock_error
  <2>2. ClientTypeOK'
    BY <1>1, <2>1, ReturnType DEF ClientTypeOK, Wire
  <2>3. QED
    BY <2>1, <2>2, ClientPastLogin DEF ToEnd
<1>3. CASE send_command_to_server
  <2> DEFINE m == Request(ccmd, cname)
  <2>1. m \in msg_head_ctrl_t /\ m.command \in Wire
    <3>1. ccmd \in Wire /\ cname \in Text /\ << >> \in Seq(Byte)
      BY <1>1 DEF ClientTypeOK, Wire, Text
    <3>2. QED
      BY <3>1, FrameType DEF Wire
  <2>2. /\ ClientWrite(m) /\ cpc = "send"
        /\ UNCHANGED <<heap, local, s2c, sEnds>>
    BY <1>3 DEF send_command_to_server
  <2> HIDE DEF m
  <2>3. CASE ToMain \/ ToEnd
    <3>1. ClientTypeOK'
      BY <1>1, <2>2, <2>3, ReturnType DEF ClientTypeOK, Wire
    <3>2. QED
      BY <2>1, <2>2, <2>3, <3>1, ClientPastLogin DEF ToMain, ToEnd
  <2>4. CASE /\ ccmd \in {"PUT", "LPWD", "GET"} /\ cpc' \in {"put", "get"}
             /\ copen' \in BOOLEAN /\ UNCHANGED <<ccmd, cname, coff, cEnd>>
    <3>1. cname' \in Names
      BY <2>2, <2>4 DEF Inv, LoginInv
    <3>2. ClientTypeOK'
      BY <1>1, <2>2, <2>4 DEF ClientTypeOK
    <3>3. QED
      BY <2>1, <2>2, <2>4, <3>1, <3>2, ClientPastLogin
  <2>5. Opened \subseteq BOOLEAN /\ copen \in BOOLEAN
    BY <1>1 DEF Opened, ClientTypeOK
  <2>6. QED
    BY <1>3, <2>3, <2>4, <2>5 DEF send_command_to_server, clocals
<1>4. QED
  BY <1>2, <1>3

LEMMA PutFileInv ==
  ASSUME Inv, UNCHANGED servVars,
         put_file_to_server \/ put_file_to_server_unopened
  PROVE  Inv'
<1>1. ClientTypeOK /\ cpc = "put" /\ cname \in Names
      /\ UNCHANGED <<local, s2c, sEnds>>
  BY DEF Inv, TypeOK, LoginInv, put_file_to_server, put_file_to_server_unopened
<1>2. BlockName \in Text
  BY DEF Text
<1>3. CASE put_file_to_server_unopened
  <2> DEFINE m == Block("ERROR_FILE", << >>)
  <2>1. m \in msg_head_ctrl_t /\ m.command \in Wire
    <3>1. "ERROR_FILE" \in Wire /\ << >> \in Seq(Byte)
      BY DEF Wire, command_type_t
    <3>2. QED
      BY <1>2, <3>1, FrameType DEF Wire
  <2>2. ClientWrite(m) /\ UNCHANGED <<cpc, clocals, heap, local, cEnd>>
    BY <1>3 DEF put_file_to_server_unopened
  <2> HIDE DEF m
  <2>3. ClientTypeOK'
    BY <1>1, <2>2 DEF ClientTypeOK, clocals
  <2>4. cpc' = "put" /\ cname' \in Names
    BY <1>1, <2>2 DEF clocals
  <2>5. QED
    BY <1>1, <2>1, <2>2, <2>3, <2>4, ClientPastLogin
<1>4. CASE put_file_to_server
  <2> DEFINE d == BlockAt(local[cname].data, coff)
  <2>1. d \in Seq(Byte) /\ Len(d) \in Nat
    <3>1. local[cname] \in Entry /\ coff \in Nat
      BY <1>1 DEF ClientTypeOK
    <3>2. QED
      BY <3>1, EntryData, BlockType
  <2>2. PICK c \in PutCommand(Len(d)) :
          /\ ClientWrite(Block(c, d))
          /\ \/ c = "END_FILE" /\ ToMain /\ Freed(Garbage)
             \/ /\ c # "END_FILE"
                /\ coff' = coff + Len(d) /\ heap' = ZeroCommand
                /\ UNCHANGED <<cpc, ccmd, cname, copen, cEnd>>
    BY <1>4 DEF put_file_to_server
  <2> HIDE DEF d
  <2>3. c \in Wire
    BY <1>1, <2>2
       DEF PutCommand, FreshCommand, ClientTypeOK, Wire, ZeroCommand,
           command_type_t
  <2> DEFINE m == Block(c, d)
  <2>4. m \in msg_head_ctrl_t /\ m.command \in Wire
    BY <1>2, <2>1, <2>3, FrameType DEF Wire
  <2>5. ClientWrite(m)
    BY <2>2
  <2> HIDE DEF m
  <2>6. CASE ToMain /\ Freed(Garbage)
    <3>1. heap' \in Wire
      BY <2>6, FreedType DEF Wire
    <3>2. ClientTypeOK'
      BY <1>1, <2>6, <3>1, ReturnType DEF ClientTypeOK
    <3>3. QED
      BY <1>1, <2>4, <2>5, <2>6, <3>2, ClientPastLogin DEF ToMain
  <2>7. CASE /\ coff' = coff + Len(d) /\ heap' = ZeroCommand
             /\ UNCHANGED <<cpc, ccmd, cname, copen, cEnd>>
    <3>1. ClientTypeOK'
      BY <1>1, <2>1, <2>7 DEF ClientTypeOK, ZeroCommand, command_type_t
    <3>2. QED
      BY <1>1, <2>4, <2>5, <2>7, <3>1, ClientPastLogin
  <2>8. QED
    BY <2>2, <2>6, <2>7
<1>5. QED
  BY <1>3, <1>4

LEMMA GetFileInv ==
  ASSUME Inv, UNCHANGED servVars,
         \/ get_no_file \/ get_unopened \/ get_write_error
         \/ get_file_from_server
  PROVE  Inv'
<1>1. /\ ClientTypeOK /\ cpc = "get" /\ cname \in Names
      /\ ClientReadable /\ ClientConsume /\ UNCHANGED <<c2s, sEnds>>
  BY DEF Inv, TypeOK, LoginInv, GetRead, GetWritable, get_no_file,
         get_unopened, get_write_error, get_file_from_server
<1>2. ClientFrame.command \in Wire /\ ClientFrame.data \in Seq(Byte)
  BY <1>1, FrameReadType
<1>3. ASSUME GetReturn, local' \in [Names -> Entry]
      PROVE  Inv'
  <2>1. ToMain /\ heap' \in Wire
    BY <1>2, <1>3, FreedType DEF GetReturn
  <2>2. ClientTypeOK'
    BY <1>1, <1>3, <2>1, ReturnType
  <2>3. QED
    BY <1>1, <2>1, <2>2, ClientPastLogin DEF ToMain
<1>4. CASE GetFailed
  <2>1. NoEntry \in Entry
    BY DEF NoEntry, Entry
  <2>2. local' \in [Names -> Entry]
    BY <1>1, <1>4, <2>1 DEF GetFailed, ClientTypeOK
  <2>3. QED
    BY <1>3, <1>4, <2>2 DEF GetFailed
<1>5. CASE get_file_from_server
  <2>1. local' \in [Names -> Entry]
    <3>1. local[cname].data \o ClientFrame.data \in Seq(Byte)
      BY <1>1, <1>2, EntryData, MoreData DEF ClientTypeOK
    <3>2. RegularFile(local[cname].data \o ClientFrame.data) \in Entry
      BY <3>1, MoreData
    <3>3. QED
      BY <1>1, <1>5, <3>2 DEF get_file_from_server, ClientTypeOK
  <2>2. CASE /\ copen' = TRUE
             /\ UNCHANGED <<cpc, ccmd, cname, coff, heap, cEnd>>
    <3>1. ClientTypeOK'
      BY <1>1, <2>1, <2>2 DEF ClientTypeOK
    <3>2. QED
      BY <1>1, <2>2, <3>1, ClientPastLogin
  <2>3. QED
    BY <1>3, <1>5, <2>1, <2>2 DEF get_file_from_server
<1>6. QED
  BY <1>4, <1>5 DEF get_no_file, get_unopened, get_write_error

\* The client dies, wherever it is.
LEMMA ClientCrashInv ==
  ASSUME Inv, UNCHANGED servVars, client_crash
  PROVE  Inv'
<1>1. /\ cpc # "exit" /\ ToEnd /\ UNCHANGED <<heap, local, c2s, s2c, sEnds>>
  BY DEF client_crash
<1>2. ClientTypeOK'
  BY <1>1, ReturnType DEF Inv, TypeOK, ClientTypeOK, Wire
<1>3. TypeOK'
  BY <1>1, <1>2
     DEF Inv, TypeOK, LinkTypeOK, ServTypeOK, ToEnd, servVars, slocals,
         sfiles, Paths
<1>4. LoginInv'
  BY <1>1
     DEF Inv, TypeOK, LoginInv, LoginPhase, ToEnd, servVars, slocals
<1>5. QED
  BY <1>3, <1>4 DEF Inv

LEMMA ParentExitInv ==
  ASSUME Inv, parent_exit
  PROVE  Inv'
<1> USE DEF parent_exit, servVars, slocals, sfiles, clientVars, clocals
<1>1. TypeOK'
  BY DEF Inv, TypeOK, LinkTypeOK, ServTypeOK, ClientTypeOK, Paths
<1>2. LoginInv'
  BY DEF Inv, LoginInv, LoginPhase
<1>3. QED
  BY <1>1, <1>2 DEF Inv

\* A reset takes frames away from the end of a queue.
LEMMA CutType ==
  ASSUME NEW q \in Seq(msg_head_ctrl_t), NEW r \in Cut(q)
  PROVE  /\ r \in Seq(msg_head_ctrl_t)
         /\ Len(r) \in Nat /\ Len(r) < Len(q)
         /\ Drawn(r, q)
<1>1. PICK n \in 0 .. Len(q) - 1 : r = SubSeq(q, 1, n)
  BY DEF Cut
<1>2. n \in Int /\ 1 \in Int /\ \A i \in 1 .. n : q[i] \in msg_head_ctrl_t
  BY <1>1
<1>3. /\ r \in Seq(msg_head_ctrl_t) /\ Len(r) = n
      /\ \A i \in 1 .. n : r[i] = q[i]
  BY <1>1, <1>2, SubSeqProperties
<1>4. QED
  BY <1>1, <1>3 DEF Drawn

\* Neither login nor serving is under way at the end that is closed.
LEMMA ResetInv ==
  ASSUME Inv, Reset
  PROVE  Inv'
<1> USE DEF servVars, slocals, sfiles, clientVars, clocals
<1>1. c2s \in Seq(msg_head_ctrl_t) /\ s2c \in Seq(msg_head_ctrl_t)
  BY DEF Inv, TypeOK, LinkTypeOK
<1>2. CASE reset_by_client
  <2>1. /\ c2s' \in Seq(msg_head_ctrl_t) /\ Len(c2s') \in Nat
        /\ Len(c2s') < Len(c2s) /\ Drawn(c2s', c2s)
    BY <1>1, <1>2, CutType DEF reset_by_client
  <2>2. TypeOK'
    BY <1>1, <1>2, <2>1, LinkAssumption
       DEF reset_by_client, Inv, TypeOK, LinkTypeOK, ServTypeOK, ClientTypeOK,
           Paths
  <2>3. cpc = "exit" /\ cpc' = "exit"
    BY <1>2 DEF reset_by_client, Inv, LoginInv
  <2>4. LoginInv'
    BY <1>1, <1>2, <2>1, <2>3
       DEF reset_by_client, Inv, LoginInv, LoginPhase, Drawn
  <2>5. QED
    BY <2>2, <2>4 DEF Inv
<1>3. CASE reset_by_server
  <2>1. /\ s2c' \in Seq(msg_head_ctrl_t) /\ Len(s2c') \in Nat
        /\ Len(s2c') < Len(s2c) /\ Drawn(s2c', s2c)
    BY <1>1, <1>3, CutType DEF reset_by_server
  <2>2. TypeOK'
    BY <1>1, <1>3, <2>1, LinkAssumption
       DEF reset_by_server, Inv, TypeOK, LinkTypeOK, ServTypeOK, ClientTypeOK,
           Paths
  <2>3. spc = "exit" /\ spc' = "exit"
    BY <1>3 DEF reset_by_server, Inv, LoginInv
  <2>4. LoginInv'
    BY <1>1, <1>3, <2>1, <2>3
       DEF reset_by_server, Inv, LoginInv, LoginPhase, Drawn
  <2>5. QED
    BY <2>2, <2>4 DEF Inv
<1>4. QED
  BY <1>2, <1>3 DEF Reset

-----------------------------------------------------------------------------
(***************************************************************************)
(* The theorems.                                                           *)
(***************************************************************************)

LEMMA InitInv == Init => Inv
<1> SUFFICES ASSUME Init PROVE Inv
  OBVIOUS
<1>1. TypeOK
  <2>1. LinkTypeOK
    BY LinkAssumption DEF Init, LinkInit, LinkTypeOK
  <2>2. remote \in [Paths -> Entry] /\ local \in [Names -> Entry]
    BY ServerAssumption, ClientAssumption DEF Init, ServInit, ClientInit
  <2>3. ServTypeOK
    BY <2>2, ServerAssumption
       DEF Init, ServInit, ServTypeOK, ZeroCommand, command_type_t, Text
  <2>4. ClientTypeOK
    BY <2>2 DEF Init, ClientInit, ClientTypeOK, ZeroCommand, command_type_t
  <2>5. QED
    BY <2>1, <2>3, <2>4 DEF TypeOK
<1>2. LoginInv
  BY DEF Init, LinkInit, ServInit, ClientInit, LoginInv, LoginPhase
<1>3. QED
  BY <1>1, <1>2 DEF Inv

LEMMA NextInv == Inv /\ [Next]_vars => Inv'
<1> SUFFICES ASSUME Inv, [Next]_vars PROVE Inv'
  OBVIOUS
<1>1. CASE ServAct
  BY <1>1, ServInv DEF ServAct
<1>2. CASE ClientAct
  BY <1>2, LoginVerdictInv, MainLoopInv, SendCommandInv, PutFileInv, GetFileInv
     DEF ClientAct, ClientStep
<1>3. CASE UserAct
  BY <1>3, LoginStepInv, MainLoopInv DEF UserAct
<1>4. CASE Fault
  BY <1>4, ServInv, GetFileInv, ClientCrashInv, ParentExitInv
     DEF Fault, ClientFault
<1>5. CASE UNCHANGED vars
  BY <1>5
     DEF vars, linkVars, servVars, slocals, sfiles, clientVars, clocals, Inv,
         TypeOK, LinkTypeOK, ServTypeOK, ClientTypeOK, Paths, LoginInv,
         LoginPhase
<1>6. CASE Reset
  BY <1>6, ResetInv
<1>7. QED
  BY <1>1, <1>2, <1>3, <1>4, <1>5, <1>6 DEF Next

THEOREM Invariance == Spec => []Inv
BY InitInv, NextInv, PTL DEF Spec

\* Every variable keeps its type: no direction of the connection holds more
\* than its capacity, and only frames of the protocol travel.
THEOREM TypeCorrect == Spec => []TypeOK
BY Invariance, PTL DEF Inv

\* Credentials and verdicts, which have no header, are never confused with
\* framed traffic, whatever fails on either side (authentication and
\* serv_client; login, handle_server_ack and get_file_from_server).
THEOREM LoginPhases == Spec => []LoginPhase
<1>1. Inv => LoginPhase
  BY DEF Inv, LoginInv
<1>2. QED
  BY <1>1, Invariance, PTL

\* The connection carries at most one credential or one verdict until the
\* child has found the user, and a client that waits for its verdict has one
\* coming, whatever fails (authentication; login): the reason for LoginPhase.
THEOREM LoginInvariant == Spec => []LoginInv
<1>1. Inv => LoginInv
  BY DEF Inv
<1>2. QED
  BY <1>1, Invariance, PTL

-----------------------------------------------------------------------------
(***************************************************************************)
(* The server's files: O_EXCL at the first block of an upload.             *)
(***************************************************************************)

LEMMA NoneIsNoEntry ==
  ASSUME NEW e \in Entry, e.kind = "none"
  PROVE  e = NoEntry
<1>1. e \in [kind : {"none", "special"}, data : {<< >>}]
  BY DEF Entry
<1>2. QED
  BY <1>1 DEF NoEntry

\* What one step may do to the entry at a path of the server.
ServerEntryKept(p) ==
  remote[p] # NoEntry /\ remote'[p] # remote[p]
  => \/ spc = "put" /\ sopen /\ p = path
     \/ spc = "select" /\ remote'[p] = NoEntry

LEMMA PutKeeps ==
  ASSUME TypeOK, handle_put, NEW p \in Paths
  PROVE  ServerEntryKept(p)
<1>1. spc = "put" /\ remote \in [Paths -> Entry]
  BY DEF handle_put, TypeOK, ServTypeOK
<1>2. PICK d : remote' = [remote EXCEPT ![path] = RegularFile(d)]
  BY DEF handle_put
<1>3. p # path => remote'[p] = remote[p]
  BY <1>1, <1>2
<1>4. path \in Paths
  BY DEF handle_put, path, Paths, TypeOK, ServTypeOK
<1>5. sopen \/ remote[path] = NoEntry
  BY <1>1, <1>4, NoneIsNoEntry DEF handle_put, CanCreate
<1>6. QED
  BY <1>1, <1>3, <1>5 DEF ServerEntryKept

LEMMA CommandKeeps ==
  ASSUME TypeOK, handle_request_popen, NEW p \in Paths
  PROVE  ServerEntryKept(p)
<1>1. spc = "select" /\ remote \in [Paths -> Entry]
  BY DEF handle_request_popen, Dispatch, TypeOK, ServTypeOK
<1>2. PICK n : RunCommand(ServFrame.command, n)
  BY DEF handle_request_popen
<1>3. remote'[p] \in {remote[p], NoEntry}
  BY <1>1, <1>2 DEF RunCommand
<1>4. QED
  BY <1>1, <1>3 DEF ServerEntryKept

LEMMA ServStepKeeps ==
  ASSUME TypeOK, ServStep \/ ServFault, NEW p \in Paths
  PROVE  ServerEntryKept(p)
<1>1. CASE handle_put
  BY <1>1, PutKeeps
<1>2. CASE handle_request_popen
  BY <1>2, CommandKeeps
<1>3. CASE UNCHANGED remote
  BY <1>3 DEF ServerEntryKept
<1>4. QED
  BY <1>1, <1>2, <1>3
     DEF ServStep, ServFault, authentication, serv_client_quit,
         handle_request_cd, handle_request_get, handle_request_put,
         handle_request_default, handle_put_refused, handle_get_no_file,
         handle_get, handle_ls_pwd, serv_client_timeout,
         authentication_db_error, handle_request_popen_fails,
         handle_request_get_unopened, handle_get_read_error,
         serv_client_crash, sfiles

\* put never replaces an entry of the server: handle_put opens with O_EXCL,
\* and nothing else but an rm takes an entry away.
THEOREM RemoteNeverOverwritten == Spec => NeverOverwritten
<1>1. ASSUME TypeOK, [Next]_vars
      PROVE  [\A p \in Paths : ServerEntryKept(p)]_vars
  <2>1. CASE ServStep \/ ServFault
    BY <1>1, <2>1, ServStepKeeps
  <2>2. CASE UNCHANGED remote
    BY <2>2 DEF ServerEntryKept
  <2>3. QED
    BY <1>1, <2>1, <2>2
       DEF Next, ServAct, ClientAct, UserAct, Fault, parent_exit, Reset,
           reset_by_client, reset_by_server, servVars, sfiles, vars
<1>2. [\A p \in Paths : ServerEntryKept(p)]_vars
      <=> [\A p \in Paths :
             remote[p] # NoEntry /\ remote'[p] # remote[p]
             => \/ spc = "put" /\ sopen /\ p = path
                \/ spc = "select" /\ remote'[p] = NoEntry]_vars
  BY DEF ServerEntryKept
<1>3. QED
  BY <1>1, <1>2, TypeCorrect, PTL DEF Spec, NeverOverwritten

-----------------------------------------------------------------------------
(***************************************************************************)
(* The user's files: get wants a name that is not there. The guard,        *)
(* file_exist, overlooks what is not a regular file, so the theorem wants  *)
(* a directory without such entries.                                       *)
(***************************************************************************)

\* A get that has written nothing yet is about a name that is not there.
LocalInv ==
  /\ \A n \in Names : local[n].kind # "special"
  /\ \/ cpc = "get" /\ ~copen
     \/ cpc = "send" /\ ccmd = "GET"
     => ~file_exist(local[cname])

\* What one step may do to a name of the user's directory.
LocalEntryKept(n) ==
  local[n] # NoEntry /\ local'[n] # local[n]
  => cpc = "get" /\ copen /\ n = cname

LEMMA GetKeeps ==
  ASSUME Inv, LocalInv,
         \/ get_no_file \/ get_unopened \/ get_write_error
         \/ get_file_from_server
  PROVE  LocalInv' /\ \A n \in Names : LocalEntryKept(n)
<1>1. /\ cpc = "get" /\ cname \in Names /\ local \in [Names -> Entry]
  BY DEF Inv, TypeOK, ClientTypeOK, LoginInv, GetRead, GetWritable,
         get_no_file, get_unopened, get_write_error, get_file_from_server
<1>2. PICK e : /\ local' = [local EXCEPT ![cname] = e]
               /\ e.kind # "special"
               /\ \/ cpc' = "main"
                  \/ cpc' = "get" /\ copen'
  <2>1. CASE GetFailed
    <3>1. local' = [local EXCEPT ![cname] = NoEntry] /\ cpc' = "main"
      BY <2>1 DEF GetFailed, GetReturn, ToMain
    <3>2. NoEntry.kind # "special"
      BY DEF NoEntry
    <3>3. QED
      BY <3>1, <3>2
  <2>2. CASE get_file_from_server
    <3> DEFINE e == RegularFile(local[cname].data \o ClientFrame.data)
    <3>1. local' = [local EXCEPT ![cname] = e]
      BY <2>2 DEF get_file_from_server
    <3>2. e.kind # "special"
      BY DEF RegularFile
    <3>3. cpc' = "main" \/ (cpc' = "get" /\ copen')
      BY <1>1, <2>2 DEF get_file_from_server, GetReturn, ToMain
    <3>4. QED
      BY <3>1, <3>2, <3>3
  <2>3. QED
    BY <2>1, <2>2 DEF get_no_file, get_unopened, get_write_error
<1>3. LocalInv'
  <2>1. \A n \in Names : local'[n].kind # "special"
    BY <1>1, <1>2 DEF LocalInv
  <2>2. QED
    BY <1>2, <2>1 DEF LocalInv
<1>4. ~copen => local[cname] = NoEntry
  <2>1. ~copen => local[cname].kind = "none"
    BY <1>1 DEF LocalInv, file_exist, Entry
  <2>2. QED
    BY <1>1, <2>1, NoneIsNoEntry
<1>5. copen \in BOOLEAN
  BY DEF Inv, TypeOK, ClientTypeOK
<1>6. \A n \in Names : LocalEntryKept(n)
  BY <1>1, <1>2, <1>4, <1>5 DEF LocalEntryKept
<1>7. QED
  BY <1>3, <1>6

LEMMA OtherKeeps ==
  ASSUME Inv, LocalInv, UNCHANGED local,
         \/ UNCHANGED <<cpc, ccmd, cname, copen>>
         \/ cpc' \in {"login", "verdict", "main", "put", "exit"}
         \/ cpc = "send" /\ ccmd = "GET" /\ cpc' = "get" /\ UNCHANGED cname
         \/ cpc' = "send" /\ (ccmd' = "GET" => ~file_exist(local[cname']))
  PROVE  LocalInv' /\ \A n \in Names : LocalEntryKept(n)
<1>1. \A n \in Names : LocalEntryKept(n)
  BY DEF LocalEntryKept
<1>2. LocalInv'
  BY DEF LocalInv, file_exist
<1>3. QED
  BY <1>1, <1>2

LEMMA NextKeeps ==
  ASSUME Inv, LocalInv, [Next]_vars
  PROVE  LocalInv' /\ \A n \in Names : LocalEntryKept(n)
<1>1. CASE \/ get_no_file \/ get_unopened \/ get_write_error
           \/ get_file_from_server
  BY <1>1, GetKeeps
<1>2. CASE UNCHANGED clientVars
  BY <1>2, OtherKeeps DEF clientVars, clocals
<1>3. CASE \/ login \/ login_verdict \/ handle_server_ack_lost
           \/ client_sock_error \/ client_crash
  BY <1>3, OtherKeeps
     DEF login, login_verdict, handle_server_ack_lost, client_sock_error,
         client_crash, ToEnd
<1>4. CASE handle_server_ack \/ put_file_to_server_unopened
  BY <1>4, OtherKeeps
     DEF handle_server_ack, put_file_to_server_unopened, clocals
<1>5. CASE put_file_to_server
  <2>1. cpc = "put" /\ UNCHANGED local
        /\ (cpc' = "main" \/ UNCHANGED cpc)
    BY <1>5 DEF put_file_to_server, ToMain
  <2>2. cpc' \in {"main", "put"}
    BY <2>1
  <2>3. QED
    BY <2>1, <2>2, OtherKeeps
<1>6. CASE send_command_to_server
  <2>1. cpc = "send" /\ UNCHANGED local
    BY <1>6 DEF send_command_to_server
  <2>2. \/ cpc' \in {"main", "exit", "put"}
        \/ ccmd = "GET" /\ cpc' = "get" /\ UNCHANGED cname
    BY <1>6 DEF send_command_to_server, ToMain, ToEnd, clocals
  <2>3. QED
    BY <2>1, <2>2, OtherKeeps
<1>7. CASE \E type \in UserCommands : \E arg \in Arguments(type) :
             handle_user_input(type, arg)
  BY <1>7, OtherKeeps DEF handle_user_input, Accepts
<1>8. QED
  BY <1>1, <1>2, <1>3, <1>4, <1>5, <1>6, <1>7
     DEF Next, ServAct, ClientAct, ClientStep, UserAct, Fault, ClientFault,
         parent_exit, Reset, reset_by_client, reset_by_server, vars

\* A download asks for, and creates, a name that is not there.
LEMMA LocalInvariance ==
  ASSUME SpecialEntry \notin ClientFiles
  PROVE  Spec => []LocalInv
<1>1. Init => LocalInv
  <2>1. SUFFICES ASSUME Init PROVE LocalInv
    OBVIOUS
  <2>2. ASSUME NEW n \in Names PROVE local[n].kind # "special"
    <3>1. local[n] \in ClientFiles /\ local[n] \in Entry
      BY <2>1, ClientAssumption DEF Init, ClientInit
    <3>2. local[n].kind = "special" => local[n] = SpecialEntry
      BY <3>1 DEF Entry, SpecialEntry
    <3>3. QED
      BY <3>1, <3>2
  <2>3. QED
    BY <2>1, <2>2 DEF Init, ClientInit, LocalInv
<1>2. Inv /\ LocalInv /\ [Next]_vars => LocalInv'
  BY NextKeeps
<1>3. QED
  BY <1>1, <1>2, Invariance, PTL DEF Spec

\* Nothing in the user's directory changes but the file that the download in
\* progress has created, provided the directory holds regular files only:
\* what handle_user_input and get_file_from_server check, at two moments, is
\* enough.
THEOREM LocalNeverOverwritten ==
  ASSUME SpecialEntry \notin ClientFiles
  PROVE  Spec => LocalKept
<1>1. Inv /\ LocalInv /\ [Next]_vars
      => [\A n \in Names :
            local[n] # NoEntry /\ local'[n] # local[n]
            => cpc = "get" /\ copen /\ n = cname]_vars
  BY NextKeeps DEF LocalEntryKept
<1>2. QED
  BY <1>1, LocalInvariance, Invariance, PTL DEF Spec, LocalKept

=============================================================================
