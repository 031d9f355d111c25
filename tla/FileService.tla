----------------------------- MODULE FileService -----------------------------
(***************************************************************************)
(* What the help text of the client promises (client_process.c:311): two   *)
(* directories, and commands that each take effect whole or not at all.    *)
(* Neither a connection nor blocks appear here. One thing is not in the    *)
(* help text: LeftOver, which no file can cause whose blocks spell no name *)
(* (Spelled \cap Names = {}).                                              *)
(***************************************************************************)
EXTENDS FtpProtocol

CONSTANTS
  RootDir,        \* the directory the server was started in
  ServerFiles,    \* what a path of the server may initially hold
  ClientFiles     \* what a name of the user's directory may initially hold

VARIABLES
  remote,    \* the files of the server, by directory and name
  sdirs,     \* the directories of the server
  scwd,      \* the directory the session is in
  local      \* the user's files

svars == <<remote, sdirs, scwd, local>>

ServiceInit ==
  /\ remote \in [Dirs \X Names -> ServerFiles]
  /\ sdirs \in {{RootDir}, Dirs}
  /\ scwd = RootDir
  /\ local \in [Names -> ClientFiles]

\* put n: the server gets the user's file n, if it had no n.
Upload(n) ==
  /\ file_exist(local[n])
  /\ remote[<<scwd, n>>] = NoEntry
  /\ remote' = [remote EXCEPT ![<<scwd, n>>] = local[n]]
  /\ UNCHANGED <<sdirs, scwd, local>>

\* A put of n that the server refuses, or lpwd, whose file it does not expect:
\* what follows a block that spells the name m becomes a file m.
LeftOver(n, m) ==
  /\ file_exist(local[n])
  /\ m \in Spelled
  /\ remote[<<scwd, m>>] = NoEntry
  /\ \E k \in 1 .. Len(local[n].data) :
       remote' = [remote EXCEPT ![<<scwd, m>>] =
                    RegularFile(SubSeq(local[n].data, k + 1, Len(local[n].data)))]
  /\ UNCHANGED <<sdirs, scwd, local>>

\* get n: the user gets the server's file n, if they had no n.
Download(n) ==
  /\ local[n] = NoEntry
  /\ file_exist(remote[<<scwd, n>>])
  /\ local' = [local EXCEPT ![n] = remote[<<scwd, n>>]]
  /\ UNCHANGED <<remote, sdirs, scwd>>

Remove(n) ==
  /\ remote' = [remote EXCEPT ![<<scwd, n>>] = NoEntry]
  /\ UNCHANGED <<sdirs, scwd, local>>

MakeDirectory(d) ==
  /\ sdirs' = sdirs \cup {d}
  /\ UNCHANGED <<remote, scwd, local>>

ChangeDirectory(d) ==
  /\ d \in sdirs
  /\ scwd' = d
  /\ UNCHANGED <<remote, sdirs, local>>

ServiceNext ==
  \/ \E n \in Names : Upload(n) \/ Download(n) \/ Remove(n)
  \/ \E n, m \in Names : LeftOver(n, m)
  \/ \E d \in Dirs  : MakeDirectory(d) \/ ChangeDirectory(d)

Service == ServiceInit /\ [][ServiceNext]_svars

=============================================================================
