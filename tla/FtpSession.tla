----------------------------- MODULE FtpSession -----------------------------
(***************************************************************************)
(* One user's session: a client, the child that serves it, the connection  *)
(* between them, and the parent that still holds the accepted socket.      *)
(*                                                                         *)
(* The user either types at any time the client reads standard input, or,  *)
(* with Settled, only when everything sent has been dealt with.            *)
(***************************************************************************)
EXTENDS ServClient, ClientProcess, SequencesExt

CONSTANT Settled    \* the user waits until the session is quiet

ASSUME SettledAssumption == Settled \in BOOLEAN

vars == <<linkVars, servVars, clientVars>>

TypeOK == LinkTypeOK /\ ServTypeOK /\ ClientTypeOK

Init == LinkInit /\ ServInit /\ ClientInit

\* Nothing is in flight and the child waits for a request, or is gone.
Quiet == c2s = << >> /\ s2c = << >> /\ spc \in {"select", "exit"}

\* The user logs in, or types a line at the prompt.
UserAct ==
  /\ \/ login
     \/ /\ Settled => Quiet
        /\ \E type \in UserCommands : \E arg \in Arguments(type) :
             handle_user_input(type, arg)
  /\ UNCHANGED servVars

\* The listening process ends and its copy of the socket with it.
parent_exit ==
  /\ "parent" \in Faults
  /\ "parent" \in sEnds
  /\ sEnds' = sEnds \ {"parent"}
  /\ UNCHANGED <<c2s, s2c, cEnd, servVars, clientVars>>

\* The kernel of an end that is closed resets the connection: an answer was
\* unread, or is still to come. Frames the other end sent after those it has
\* already got are lost.
reset_by_client ==
  /\ ~cEnd
  /\ s2c # << >> \/ spc \in {"get", "nofile", "pipe"}
  /\ c2s' \in Cut(c2s)
  /\ UNCHANGED <<s2c, cEnd, sEnds, servVars, clientVars>>

reset_by_server ==
  /\ sEnds = {}
  /\ c2s # << >> \/ cpc \in {"send", "put"}
  /\ s2c' \in Cut(s2c)
  /\ UNCHANGED <<c2s, cEnd, sEnds, servVars, clientVars>>

ServAct   == ServStep /\ UNCHANGED clientVars
ClientAct == ClientStep /\ UNCHANGED servVars
Fault     == \/ ServFault /\ UNCHANGED clientVars
             \/ ClientFault /\ UNCHANGED servVars
             \/ parent_exit
Reset     == reset_by_client \/ reset_by_server

Next == ServAct \/ ClientAct \/ UserAct \/ Fault \/ Reset

Spec == Init /\ [][Next]_vars

\* The two processes are scheduled: an unblocked one runs. Nobody owes a
\* fault, a reset or another command line.
FairSpec == Spec /\ WF_vars(ServAct) /\ WF_vars(ClientAct)

-----------------------------------------------------------------------------
(***************************************************************************)
(* The phases of a session. Credentials and verdicts carry no header, so   *)
(* nothing but the order of the calls keeps them apart from requests.      *)
(***************************************************************************)

\* The authentication loop never reads a request as a name and password, the
\* request loop never reads a name and password as a request, the client
\* never takes an answer for a verdict nor a verdict for an answer or for
\* file data, and it reaches its prompt only when authentication is over.
LoginPhase ==
  /\ spc = "auth" => \A i \in DOMAIN c2s : c2s[i].command \in Credential
  /\ spc \notin {"auth", "exit"} =>
       \A i \in DOMAIN c2s : c2s[i].command \notin Credential
  /\ cpc = "verdict" => \A i \in DOMAIN s2c : s2c[i].command \in Verdict
  /\ cpc \notin {"verdict", "exit"} =>
       \A i \in DOMAIN s2c : s2c[i].command \notin Verdict
  /\ cpc \in {"main", "send", "put", "get"} => spc # "auth"

\* Why LoginPhase holds: the connection carries one credential or one verdict
\* until the child has found the user, then nothing but the good news.
LoginInv ==
  /\ cEnd <=> cpc # "exit"
  /\ "child" \in sEnds <=> spc # "exit"
  /\ LoginPhase
  /\ \A i \in DOMAIN s2c : s2c[i].command \notin Credential
  /\ spc = "auth" =>
       /\ Len(c2s) + Len(s2c) <= 1
       /\ cpc = "login" => c2s = << >>
       /\ cpc = "verdict" => Len(c2s) + Len(s2c) = 1
       /\ \A i \in DOMAIN s2c : s2c[i].command = "0"
  /\ spc \notin {"auth", "exit"} =>
       /\ cpc # "login"
       /\ cpc = "verdict" => /\ spc = "select" /\ c2s = << >>
                             /\ Len(s2c) = 1 /\ s2c[1].command = "1"
  /\ cpc = "login" => s2c = << >>
  /\ cpc = "verdict" => Len(s2c) <= 1
  /\ spc = "get" => sname \in Names
  /\ cpc \in {"put", "get"} => cname \in Names
  /\ cpc = "send" /\ ccmd \in {"PUT", "LPWD", "GET"} => cname \in Names

-----------------------------------------------------------------------------
(***************************************************************************)
(* The two ends of a transfer agree on where it ends.                      *)
(***************************************************************************)

\* handle_put waits for a block, or the client waits for one of handle_get,
\* only while the other end still has something to send: a refused upload,
\* whose blocks serv_client takes for requests, and the additional END_FILE
\* frame of a download leave the ends in step all the same. A client that has
\* left leaves handle_put with nothing to wait for.
InStep ==
  cEnd =>
  /\ spc = "put" /\ c2s = << >> => cpc = "put"
  /\ cpc = "get" /\ s2c = << >> => c2s # << >> \/ spc \in {"get", "nofile", "pipe"}

\* While handle_put writes a file it holds a prefix of the user's file of
\* that name, so what a crash of either end leaves behind is a prefix too.
\* This is about files whose blocks spell no name, as is UploadExact.
UploadPrefix ==
  spc = "put" /\ sopen /\ sname \in Names =>
    IsPrefix(remote[path].data, local[sname].data)

\* handle_put returns to serv_client with the whole file of the user.
UploadExact ==
  [][ spc = "put" /\ spc' = "select" /\ sname \in Names
        /\ (sopen \/ remote'[path] # remote[path])
      => remote'[path] = local[sname] ]_vars

\* get_file_from_server returns either no file or the server's file.
DownloadExact ==
  [][ cpc = "get" /\ cpc' = "main" /\ local'[cname] # NoEntry
      => local'[cname] = remote[<<scwd, cname>>] ]_vars

\* A transfer that the user started comes to an end.
PutEnds == cpc = "put" ~> cpc # "put"
GetEnds == cpc = "get" ~> cpc # "get"

-----------------------------------------------------------------------------
(***************************************************************************)
(* Files nobody asked to change.                                           *)
(***************************************************************************)

\* An entry of the server changes only by the upload that created it or by
\* an rm: put never replaces a file.
NeverOverwritten ==
  [][ \A p \in Paths :
        remote[p] # NoEntry /\ remote'[p] # remote[p]
        => \/ spc = "put" /\ sopen /\ p = path
           \/ spc = "select" /\ remote'[p] = NoEntry ]_vars

\* An entry of the user's directory changes only by the download that
\* created it: get refuses a name that is there.
LocalKept ==
  [][ \A n \in Names :
        local[n] # NoEntry /\ local'[n] # local[n]
        => cpc = "get" /\ copen /\ n = cname ]_vars

-----------------------------------------------------------------------------
\* The frames serv_client and handle_put do not answer, put's blocks included.
Unanswered == {"PUT", "LPWD", "CD", "END_FILE", "ERROR_FILE", "QUIT"}

\* A quit ends the child, also right behind an upload that was refused or is
\* still being written, if no answer is unread or to come: with one, the
\* client's close resets the connection, and the quit may be lost with it.
QuitEndsSession ==
  /\ \E i \in DOMAIN c2s : c2s[i].command = "QUIT"
  /\ \A i \in DOMAIN c2s : c2s[i].command \in Unanswered
  /\ s2c = << >> /\ spc \in {"select", "put"}
  ~> spc = "exit"

\* The child of a client that is gone ends, by time out at the latest.
OrphanEnds == ~cEnd ~> spc = "exit"

=============================================================================
