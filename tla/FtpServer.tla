----------------------------- MODULE FtpServer -----------------------------
(***************************************************************************)
(* The listening process (ftpserver.c) and its clients up to the point     *)
(* where serv_client takes over: connect and accept, fork, SSL_accept, and *)
(* which processes hold which accepted socket.                             *)
(*                                                                         *)
(* fork copies the whole descriptor table and nobody closes clientfd, so a *)
(* child holds its own socket and those of all clients accepted before it. *)
(* The child that is forked for client c is named c.                       *)
(***************************************************************************)
EXTENDS Integers, Sequences, FiniteSets

CONSTANTS
  Clients,      \* the users that connect, each once
  Parent,       \* the process main starts in
  FdSlots,      \* accepted sockets that fit in a descriptor table
  ProcLimits,   \* how many children a user may have, by machine
  Backlog       \* SOMAXCONN

ASSUME ServerProcessAssumption ==
  /\ IsFiniteSet(Clients)
  /\ Parent \notin Clients
  /\ FdSlots \in Nat \ {0} /\ Backlog \in Nat \ {0}
  /\ ProcLimits \subseteq Nat

VARIABLES
  upc,        \* where each user's client is
  backlog,    \* connections that wait for accept
  ppc,        \* where each server process is
  clientfd,   \* the variable of main, in each process
  fds,        \* the accepted sockets in each process's descriptor table
  nproc       \* RLIMIT_NPROC of this machine, as a number of children

pvars == <<upc, backlog, ppc, clientfd, fds, nproc>>

Procs == Clients \cup {Parent}

ServerTypeOK ==
  /\ upc \in [Clients -> {"idle", "connecting", "connected", "gone"}]
  /\ backlog \in Seq(Clients) /\ Len(backlog) <= Backlog
  /\ ppc \in [Procs -> {"none", "accept", "fork", "SSL_accept", "serv_client",
                        "exit"}]
  /\ clientfd \in [Procs -> Procs]
  /\ fds \in [Procs -> SUBSET Clients]
  /\ \A p \in Procs : Cardinality(fds[p]) <= FdSlots
  /\ nproc \in ProcLimits

\* The state of main at its loop; Parent stands for an unset clientfd.
ServerInit ==
  /\ upc = [c \in Clients |-> "idle"]
  /\ backlog = << >>
  /\ ppc = [p \in Procs |-> IF p = Parent THEN "accept" ELSE "none"]
  /\ clientfd = [p \in Procs |-> Parent]
  /\ fds = [p \in Procs |-> {}]
  /\ nproc \in ProcLimits

Alive(p)   == ppc[p] \notin {"none", "exit"}
Queued(c)  == \E i \in DOMAIN backlog : backlog[i] = c
Holders(c) == {p \in Procs : c \in fds[p]}
Forked     == {c \in Clients : ppc[c] # "none"}

\* Who has been handed out by accept.
Accepted == {c \in Clients : upc[c] # "idle" /\ ~Queued(c)}

Exits(p) ==
  /\ ppc' = [ppc EXCEPT ![p] = "exit"]
  /\ fds' = [fds EXCEPT ![p] = {}]
  /\ UNCHANGED clientfd

-----------------------------------------------------------------------------
\* connect of the client's main succeeds while any process holds the
\* listening socket, which children inherit as well.
connect(c) ==
  /\ upc[c] = "idle"
  /\ \E p \in Procs : Alive(p)
  /\ Len(backlog) < Backlog
  /\ upc' = [upc EXCEPT ![c] = "connecting"]
  /\ backlog' = Append(backlog, c)
  /\ UNCHANGED <<ppc, clientfd, fds, nproc>>

\* The client ends, before or after SSL_connect. Its place in the backlog
\* stays: accept hands out a connection that is closed by then.
client_gone(c) ==
  /\ upc[c] \in {"connecting", "connected"}
  /\ upc' = [upc EXCEPT ![c] = "gone"]
  /\ UNCHANGED <<backlog, ppc, clientfd, fds, nproc>>

\* accept returns the first connection of the backlog.
main_accept(p) ==
  /\ ppc[p] = "accept"
  /\ backlog # << >>
  /\ Cardinality(fds[p]) < FdSlots
  /\ backlog' = Tail(backlog)
  /\ clientfd' = [clientfd EXCEPT ![p] = Head(backlog)]
  /\ fds' = [fds EXCEPT ![p] = @ \cup {Head(backlog)}]
  /\ ppc' = [ppc EXCEPT ![p] = "fork"]
  /\ UNCHANGED <<upc, nproc>>

\* Mutant of main_accept_fails: main goes on with its loop after perror.
main_accept_tries_again(p) ==
  /\ ppc[p] = "accept"
  /\ Cardinality(fds[p]) = FdSlots
  /\ UNCHANGED pvars

\* accept fails for want of a descriptor, which Linux reserves before it
\* waits for a connection: main returns.
main_accept_fails(p) ==
  /\ ppc[p] = "accept"
  /\ Cardinality(fds[p]) = FdSlots
  /\ Exits(p)
  /\ UNCHANGED <<upc, backlog, nproc>>

\* accept fails for any other reason: a connection aborted before it was
\* taken, no memory, a full table of the system, an error of the network.
\* main does not tell them apart and returns.
main_accept_error(p) ==
  /\ ppc[p] = "accept"
  /\ Exits(p)
  /\ UNCHANGED <<upc, backlog, nproc>>

\* Mutant of main_fork: the parent waits for the child before it accepts.
main_fork_waits(p) ==
  LET c == clientfd[p]
  IN  /\ ppc[p] = "fork"
      /\ Cardinality(Forked) < nproc
      /\ \A d \in Forked : ppc[d] = "exit"
      /\ ppc' = [ppc EXCEPT ![p] = "accept", ![c] = "SSL_accept"]
      /\ clientfd' = [clientfd EXCEPT ![c] = c]
      /\ fds' = [fds EXCEPT ![c] = fds[p]]
      /\ UNCHANGED <<upc, backlog, nproc>>

\* Mutant of main_fork: the parent closes its copy of the socket.
main_fork_closes(p) ==
  LET c == clientfd[p]
  IN  /\ ppc[p] = "fork"
      /\ Cardinality(Forked) < nproc
      /\ ppc' = [ppc EXCEPT ![p] = "accept", ![c] = "SSL_accept"]
      /\ clientfd' = [clientfd EXCEPT ![c] = c]
      /\ fds' = [fds EXCEPT ![c] = fds[p], ![p] = @ \ {c}]
      /\ UNCHANGED <<upc, backlog, nproc>>

\* fork: the child goes on with the connection, the parent with the loop.
\* Nobody waits for a child, so one that has ended keeps its place.
main_fork(p) ==
  LET c == clientfd[p]
  IN  /\ ppc[p] = "fork"
      /\ Cardinality(Forked) < nproc
      /\ ppc' = [ppc EXCEPT ![p] = "accept", ![c] = "SSL_accept"]
      /\ clientfd' = [clientfd EXCEPT ![c] = c]
      /\ fds' = [fds EXCEPT ![c] = fds[p]]
      /\ UNCHANGED <<upc, backlog, nproc>>

\* fork fails: perror, and the loop goes on. The client stays connected to
\* a server that does not read from it.
main_fork_fails(p) ==
  /\ ppc[p] = "fork"
  /\ Cardinality(Forked) >= nproc
  /\ ppc' = [ppc EXCEPT ![p] = "accept"]
  /\ UNCHANGED <<upc, backlog, clientfd, fds, nproc>>

\* SSL_accept returns: with a client that is there, or with one that is gone
\* and a result that is not the -1 main looks for.
SSL_accept(p) ==
  /\ ppc[p] = "SSL_accept"
  /\ ppc' = [ppc EXCEPT ![p] = "serv_client"]
  /\ upc' = [upc EXCEPT ![clientfd[p]] = IF @ = "connecting" THEN "connected"
                                                             ELSE @]
  /\ UNCHANGED <<backlog, clientfd, fds, nproc>>

\* Mutant of SSL_accept_fails: no exit, the child goes on to the loop.
SSL_accept_goes_on(p) ==
  /\ ppc[p] = "SSL_accept"
  /\ ppc' = [ppc EXCEPT ![p] = "accept"]
  /\ UNCHANGED <<upc, backlog, clientfd, fds, nproc>>

\* SSL_accept returns -1: exit(1).
SSL_accept_fails(p) ==
  /\ ppc[p] = "SSL_accept"
  /\ Exits(p)
  /\ UNCHANGED <<upc, backlog, nproc>>

\* Mutant of serv_client_returns: the child falls through to the loop.
serv_client_falls_through(p) ==
  /\ ppc[p] = "serv_client"
  /\ ppc' = [ppc EXCEPT ![p] = "accept"]
  /\ UNCHANGED <<upc, backlog, clientfd, fds, nproc>>

\* serv_client returns, for whatever reason, and main of the child with it.
serv_client_returns(p) ==
  /\ ppc[p] = "serv_client"
  /\ Exits(p)
  /\ UNCHANGED <<upc, backlog, nproc>>

-----------------------------------------------------------------------------
MainStep(p) ==
  \/ main_accept(p)
  \/ main_accept_fails(p)
  \/ main_fork(p)
  \/ main_fork_fails(p)

ChildStep(p) ==
  \/ SSL_accept(p)
  \/ SSL_accept_fails(p)

ServerNext ==
  \/ \E c \in Clients : connect(c) \/ client_gone(c)
  \/ \E p \in Procs : MainStep(p) \/ ChildStep(p) \/ serv_client_returns(p)
  \/ \E p \in Procs : main_accept_error(p)

ServerSpec == ServerInit /\ [][ServerNext]_pvars

\* Server processes run when they can; no session ever has to end, and
\* nothing but a full table makes accept fail for certain.
FairServerSpec ==
  ServerSpec /\ \A p \in Procs : WF_pvars(MainStep(p)) /\ WF_pvars(ChildStep(p))

-----------------------------------------------------------------------------
\* A client is served by the one child that was forked for it, and only the
\* parent takes connections: no child comes back to the accept loop, where it
\* would fork from its own table and a session would get two servers.
OneServer ==
  /\ \A p \in Procs : ppc[p] \in {"accept", "fork"} => p = Parent
  /\ \A p, q \in Procs :
       /\ ppc[p] \in {"SSL_accept", "serv_client"}
       /\ ppc[q] \in {"SSL_accept", "serv_client"}
       /\ clientfd[p] = clientfd[q]
       => p = q

\* Why OneServer holds: fork meets a client that has no child yet, since the
\* backlog names every client once and the descriptor table of the parent
\* all those it has taken from there.
ServerInv ==
  /\ ServerTypeOK
  /\ OneServer
  /\ \A c \in Clients : ppc[c] \in {"SSL_accept", "serv_client"} => clientfd[c] = c
  /\ ppc[Parent] \in {"accept", "fork", "exit"}
  /\ \A i, j \in DOMAIN backlog : backlog[i] = backlog[j] => i = j
  /\ \A c \in Clients : Queued(c) => upc[c] # "idle" /\ ppc[c] = "none"
  /\ \A c \in Clients : upc[c] = "idle" => ppc[c] = "none"
  /\ ppc[Parent] = "fork" =>
       /\ clientfd[Parent] \in Clients
       /\ ppc[clientfd[Parent]] = "none"
       /\ upc[clientfd[Parent]] # "idle"
       /\ ~Queued(clientfd[Parent])

\* A server takes at most FdSlots connections in its whole life, however many
\* of them have ended: clientfd is never closed, so clients that left long ago
\* still count.
LifetimeLimit == Cardinality(Accepted) <= FdSlots

\* And with the last of them it ends for good, although nothing is wrong: the
\* next accept finds no descriptor, and main returns.
EndsAtLimit == Cardinality(Accepted) = FdSlots ~> ppc[Parent] = "exit"

\* Who else holds the socket of a session, as the session sees it: its own
\* child, or anybody else.
Ends(c) == (IF c \in fds[c] THEN {"child"} ELSE {})
             \cup (IF Holders(c) \ {c} # {} THEN {"parent"} ELSE {})

\* What FtpSession assumes of the two descriptors of its socket: from the fork
\* on they are only ever closed. Nothing gives a session an end back, though
\* every later fork copies its socket once more.
EndsOnlyClose ==
  [][\A c \in Clients : c \in Forked => Ends(c)' \subseteq Ends(c)]_pvars

\* A client in the backlog comes to be served, unless the parent has ended,
\* as it does with any error of accept, or has run out of processes: no
\* session holds up the others.
Served ==
  \A c \in Clients :
    Queued(c) ~> \/ ppc[c] \in {"serv_client", "exit"}
                 \/ ppc[Parent] = "exit"
                 \/ Cardinality(Forked) >= nproc

=============================================================================
