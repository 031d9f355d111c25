-------------------------- MODULE FtpServer_proofs --------------------------
(***************************************************************************)
(* One server process per client, for any number of clients, descriptors,  *)
(* children and places in the backlog: ServerInv is inductive.             *)
(***************************************************************************)
EXTENDS FtpServer, FiniteSetTheorems, TLAPS

\* Every accepted socket of a table is a client's, so a table is finite and
\* accept adds at most one to it.
LEMMA TableSize ==
  ASSUME NEW S \in SUBSET Clients, NEW c \in Clients, Cardinality(S) < FdSlots
  PROVE  Cardinality(S \cup {c}) <= FdSlots
<1>1. IsFiniteSet(S)
  BY FS_Subset, ServerProcessAssumption
<1>2. Cardinality(S) \in Nat
  BY <1>1, FS_CardinalityType
<1>3. \/ Cardinality(S \cup {c}) = Cardinality(S)
      \/ Cardinality(S \cup {c}) = Cardinality(S) + 1
  BY <1>1, FS_AddElement
<1> QED
  BY <1>2, <1>3, ServerProcessAssumption

LEMMA InitServerInv == ServerInit => ServerInv
<1> SUFFICES ASSUME ServerInit PROVE ServerInv
  OBVIOUS
<1> USE ServerProcessAssumption DEF ServerInit, Procs
<1>1. ServerTypeOK
  <2>1. \A p \in Procs : Cardinality(fds[p]) <= FdSlots
    BY FS_EmptySet
  <2>2. Len(backlog) <= Backlog /\ backlog \in Seq(Clients)
    OBVIOUS
  <2> QED
    BY <2>1, <2>2 DEF ServerTypeOK
<1>2. OneServer
  BY DEF OneServer
<1> QED
  BY <1>1, <1>2 DEF ServerInv, Queued

\* One step per action; <1>4 is every way in which a process ends.
LEMMA NextServerInv == ServerInv /\ [ServerNext]_pvars => ServerInv'
<1> SUFFICES ASSUME ServerInv, [ServerNext]_pvars PROVE ServerInv'
  OBVIOUS
<1> USE ServerProcessAssumption DEF Procs
<1>t. ServerTypeOK
  BY DEF ServerInv
<1>1. ASSUME NEW c \in Clients, connect(c) PROVE ServerInv'
  <2> USE <1>1 DEF connect
  <2>1. /\ backlog' \in Seq(Clients)
        /\ Len(backlog') = Len(backlog) + 1
        /\ backlog'[Len(backlog) + 1] = c
        /\ \A i \in 1 .. Len(backlog) : backlog'[i] = backlog[i]
    BY <1>t DEF ServerTypeOK
  <2>2. Len(backlog) \in Nat /\ DOMAIN backlog = 1 .. Len(backlog)
        /\ DOMAIN backlog' = 1 .. Len(backlog) + 1
    BY <1>t, <2>1 DEF ServerTypeOK
  <2>3. ServerTypeOK'
    BY <1>t, <2>1, <2>2 DEF ServerTypeOK
  <2>4. ~Queued(c) /\ ppc[c] = "none"
    BY DEF ServerInv
  <2>5. \A d \in Clients : Queued(d)' <=> Queued(d) \/ d = c
    BY <2>1, <2>2 DEF Queued
  <2>6. \A i, j \in DOMAIN backlog' : backlog'[i] = backlog'[j] => i = j
    BY <2>1, <2>2, <2>4 DEF ServerInv, Queued
  <2>7. OneServer'
    BY DEF ServerInv, OneServer
  <2>8. \A d \in Clients : upc'[d] = IF d = c THEN "connecting" ELSE upc[d]
    BY <1>t DEF ServerTypeOK
  <2> QED
    BY <2>3, <2>4, <2>5, <2>6, <2>7, <2>8 DEF ServerInv
<1>2. ASSUME NEW c \in Clients, client_gone(c) PROVE ServerInv'
  <2> USE <1>2 DEF client_gone
  <2>1. ServerTypeOK'
    BY <1>t DEF ServerTypeOK
  <2>2. OneServer' /\ \A d \in Clients : Queued(d)' <=> Queued(d)
    BY DEF ServerInv, OneServer, Queued
  <2>3. \A d \in Clients : upc'[d] = IF d = c THEN "gone" ELSE upc[d]
    BY <1>t DEF ServerTypeOK
  <2> QED
    BY <2>1, <2>2, <2>3 DEF ServerInv
<1>3. ASSUME NEW p \in Procs, main_accept(p) PROVE ServerInv'
  <2> USE <1>3 DEF main_accept
  <2>c. PICK c \in Clients : c = Head(backlog)
    BY <1>t DEF ServerTypeOK
  <2>1. p = Parent
    BY DEF ServerInv, OneServer
  <2>2. /\ c \in Clients /\ c = backlog[1] /\ Len(backlog) >= 1
        /\ Len(backlog) \in Nat /\ DOMAIN backlog = 1 .. Len(backlog)
        /\ backlog' \in Seq(Clients) /\ Len(backlog') = Len(backlog) - 1
        /\ DOMAIN backlog' = 1 .. Len(backlog) - 1
        /\ \A i \in 1 .. Len(backlog) - 1 : backlog'[i] = backlog[i + 1]
    BY <1>t, <2>c DEF ServerTypeOK
  <2>3. Queued(c)
    BY <2>2 DEF Queued
  <2>4. ~Queued(c)'
    <3>1. \A i \in 1 .. Len(backlog) : backlog[i] = c => i = 1
      BY <2>2 DEF ServerInv
    <3> QED
      BY <2>2, <3>1 DEF Queued
  <2>5. \A d \in Clients : Queued(d)' => Queued(d)
    BY <2>2 DEF Queued
  <2>6. \A i, j \in DOMAIN backlog' : backlog'[i] = backlog'[j] => i = j
    BY <2>2 DEF ServerInv
  <2>7. Cardinality(fds[p] \cup {c}) <= FdSlots
    BY <1>t, <2>2, TableSize DEF ServerTypeOK
  <2>8. ServerTypeOK'
    BY <1>t, <2>c, <2>2, <2>7 DEF ServerTypeOK
  <2>9. /\ \A q \in Procs : ppc'[q] = IF q = Parent THEN "fork" ELSE ppc[q]
        /\ \A q \in Procs : clientfd'[q] = IF q = Parent THEN c ELSE clientfd[q]
    BY <1>t, <2>c, <2>1 DEF ServerTypeOK
  <2>10. OneServer'
    BY <2>9 DEF ServerInv, OneServer
  <2>11. ppc[c] = "none" /\ upc[c] # "idle"
    BY <2>2, <2>3 DEF ServerInv
  <2> QED
    BY <2>2, <2>4, <2>5, <2>6, <2>8, <2>9, <2>10, <2>11 DEF ServerInv
<1>4. ASSUME NEW p \in Procs, Exits(p), ppc[p] # "none",
             UNCHANGED <<upc, backlog, nproc>>
      PROVE  ServerInv'
  <2> USE <1>4 DEF Exits
  <2>1. \A q \in Procs : ppc'[q] = IF q = p THEN "exit" ELSE ppc[q]
    BY <1>t DEF ServerTypeOK
  <2>2. \A q \in Procs : fds'[q] = IF q = p THEN {} ELSE fds[q]
    BY <1>t DEF ServerTypeOK
  <2>3. \A q \in Procs : Cardinality(fds'[q]) <= FdSlots
    BY <1>t, <2>2, FS_EmptySet DEF ServerTypeOK
  <2>4. ServerTypeOK'
    BY <1>t, <2>3 DEF ServerTypeOK
  <2>5. OneServer' /\ \A d \in Clients : Queued(d)' <=> Queued(d)
    BY <2>1 DEF ServerInv, OneServer, Queued
  <2> QED
    BY <2>1, <2>4, <2>5 DEF ServerInv
<1>5. ASSUME NEW p \in Procs, main_fork(p) PROVE ServerInv'
  <2> USE <1>5 DEF main_fork
  <2>c. PICK c \in Procs : c = clientfd[p]
    BY <1>t DEF ServerTypeOK
  <2>1. p = Parent
    BY DEF ServerInv, OneServer
  <2>2. /\ c \in Clients /\ ppc[c] = "none" /\ upc[c] # "idle" /\ ~Queued(c)
        /\ c # Parent
    BY <2>c, <2>1 DEF ServerInv
  <2>3. \A q \in Procs : ppc'[q] = IF q = c THEN "SSL_accept"
                                   ELSE IF q = Parent THEN "accept" ELSE ppc[q]
    BY <1>t, <2>c, <2>1, <2>2 DEF ServerTypeOK
  <2>4. \A q \in Procs : clientfd'[q] = IF q = c THEN c ELSE clientfd[q]
    BY <1>t, <2>c, <2>2 DEF ServerTypeOK
  <2>5. \A q \in Procs : fds'[q] = IF q = c THEN fds[p] ELSE fds[q]
    BY <1>t, <2>c, <2>2 DEF ServerTypeOK
  <2>6. \A q \in Procs : Cardinality(fds'[q]) <= FdSlots
    BY <1>t, <2>5 DEF ServerTypeOK
  <2>7. ServerTypeOK'
    BY <1>t, <2>c, <2>2, <2>6 DEF ServerTypeOK
  <2>8. \A d \in Clients :
          ppc'[d] \in {"SSL_accept", "serv_client"} => clientfd'[d] = d
    BY <2>3, <2>4 DEF ServerInv
  <2>9. OneServer'
    <3>1. \A q \in Procs : ppc'[q] \in {"accept", "fork"} => q = Parent
      BY <2>1, <2>3 DEF ServerInv, OneServer
    <3>2. \A q \in Procs :
            ppc'[q] \in {"SSL_accept", "serv_client"} => clientfd'[q] = q
      <4> SUFFICES ASSUME NEW q \in Procs,
                          ppc'[q] \in {"SSL_accept", "serv_client"}
                   PROVE  clientfd'[q] = q
        OBVIOUS
      <4>1. ppc'[Parent] = "accept"
        BY <2>2, <2>3
      <4>2. q \in Clients
        BY <4>1
      <4> QED
        BY <4>2, <2>8
    <3> QED
      BY <3>1, <3>2 DEF OneServer
  <2>10. \A d \in Clients : Queued(d)' <=> Queued(d)
    BY DEF Queued
  <2>11. ppc'[Parent] = "accept"
    BY <2>2, <2>3
  <2>12. \A d \in Clients : Queued(d)' => upc'[d] # "idle" /\ ppc'[d] = "none"
    BY <2>2, <2>3, <2>10, ServerProcessAssumption DEF ServerInv
  <2>13. \A d \in Clients : upc'[d] = "idle" => ppc'[d] = "none"
    BY <2>2, <2>3, ServerProcessAssumption DEF ServerInv
  <2>14. \A i, j \in DOMAIN backlog' : backlog'[i] = backlog'[j] => i = j
    BY DEF ServerInv
  <2> QED
    BY <2>7, <2>8, <2>9, <2>11, <2>12, <2>13, <2>14 DEF ServerInv
<1>6. ASSUME NEW p \in Procs, main_fork_fails(p) PROVE ServerInv'
  <2> USE <1>6 DEF main_fork_fails
  <2>1. p = Parent
    BY DEF ServerInv, OneServer
  <2>2. \A q \in Procs : ppc'[q] = IF q = Parent THEN "accept" ELSE ppc[q]
    BY <1>t, <2>1 DEF ServerTypeOK
  <2>3. ServerTypeOK'
    BY <1>t DEF ServerTypeOK
  <2>4. OneServer' /\ \A d \in Clients : Queued(d)' <=> Queued(d)
    BY <2>2 DEF ServerInv, OneServer, Queued
  <2> QED
    BY <2>2, <2>3, <2>4 DEF ServerInv
<1>7. ASSUME NEW p \in Procs, SSL_accept(p) PROVE ServerInv'
  <2> USE <1>7 DEF SSL_accept
  <2>1. p \in Clients
    BY DEF ServerInv
  <2>2. clientfd[p] = p
    BY <2>1 DEF ServerInv
  <2>3. \A q \in Procs : ppc'[q] = IF q = p THEN "serv_client" ELSE ppc[q]
    BY <1>t DEF ServerTypeOK
  <2>4. /\ \A d \in Clients : upc'[d] = "idle" <=> upc[d] = "idle"
        /\ upc' \in [Clients -> {"idle", "connecting", "connected", "gone"}]
    BY <1>t, <2>1, <2>2 DEF ServerTypeOK
  <2>5. ServerTypeOK'
    BY <1>t, <2>4 DEF ServerTypeOK
  <2>6. OneServer' /\ \A d \in Clients : Queued(d)' <=> Queued(d)
    BY <2>3 DEF ServerInv, OneServer, Queued
  <2>7. \A d \in Clients : upc[d] = "idle" => d # p
    BY DEF ServerInv
  <2>8. \A d \in Clients : Queued(d) => d # p
    BY DEF ServerInv
  <2> QED
    BY <2>1, <2>3, <2>4, <2>5, <2>6, <2>7, <2>8 DEF ServerInv
<1>8. CASE UNCHANGED pvars
  BY <1>8, <1>t DEF pvars, ServerInv, OneServer, ServerTypeOK, Queued
<1>9. ASSUME NEW p \in Procs, main_accept_fails(p) \/ main_accept_error(p)
      PROVE  ServerInv'
  BY <1>9, <1>4 DEF main_accept_fails, main_accept_error
<1>10. ASSUME NEW p \in Procs, SSL_accept_fails(p) PROVE ServerInv'
  BY <1>10, <1>4 DEF SSL_accept_fails
<1>11. ASSUME NEW p \in Procs, serv_client_returns(p) PROVE ServerInv'
  BY <1>11, <1>4 DEF serv_client_returns
<1> QED
  BY <1>1, <1>2, <1>3, <1>5, <1>6, <1>7, <1>8, <1>9, <1>10, <1>11
  DEF ServerNext, MainStep, ChildStep

\* Every client is served by at most one process, its own child, and only
\* the parent takes connections, whatever ends, fails or leaves.
THEOREM OneServerEach == ServerSpec => []OneServer
<1>1. ServerInv => OneServer
  BY DEF ServerInv
<1> QED
  BY InitServerInv, NextServerInv, <1>1, PTL DEF ServerSpec

\* The backlog names a client once, and one that waits there, or that the
\* parent is about to fork for, has no child yet, for any number of clients
\* and any limits (main, accept and fork): the reason for OneServer.
THEOREM ServerInvariant == ServerSpec => []ServerInv
BY InitServerInv, NextServerInv, PTL DEF ServerSpec

-----------------------------------------------------------------------------
\* While the parent is there its table holds the socket of everybody it ever
\* accepted, and so the size of the table bounds their number; once it has
\* ended nobody is accepted any more.
LimitInv ==
  /\ LifetimeLimit
  /\ ppc[Parent] # "exit" => fds[Parent] = Accepted

\* What a step does to the set of accepted clients and to the descriptors of
\* the parent: both stay, or both gain one client while the table has room.
LEMMA AcceptedStep ==
  ASSUME ServerInv, ServerNext
  PROVE  \/ /\ Accepted' = Accepted
            /\ ppc'[Parent] # "exit" => fds'[Parent] = fds[Parent]
         \/ /\ ppc[Parent] = "accept" /\ ppc'[Parent] = "fork"
            /\ Cardinality(fds[Parent]) < FdSlots
            /\ \E c \in Clients : /\ Accepted' = Accepted \cup {c}
                                 /\ fds'[Parent] = fds[Parent] \cup {c}
<1> USE ServerProcessAssumption DEF Procs
<1> DEFINE Same == /\ Accepted' = Accepted
                   /\ ppc'[Parent] # "exit" => fds'[Parent] = fds[Parent]
<1>t. ServerTypeOK
  BY DEF ServerInv
<1>b. DOMAIN backlog = 1 .. Len(backlog) /\ Len(backlog) \in Nat
  BY <1>t DEF ServerTypeOK
<1>1. ASSUME NEW c \in Clients, connect(c) PROVE Same
  <2>1. \A d \in Clients : Queued(d)' <=> Queued(d) \/ d = c
    <3>1. /\ DOMAIN backlog' = 1 .. Len(backlog) + 1
          /\ backlog'[Len(backlog) + 1] = c
          /\ \A i \in 1 .. Len(backlog) : backlog'[i] = backlog[i]
      BY <1>1, <1>t DEF connect, ServerTypeOK
    <3> QED
      BY <1>b, <3>1 DEF Queued
  <2>2. \A d \in Clients : upc'[d] = IF d = c THEN "connecting" ELSE upc[d]
    BY <1>1, <1>t DEF connect, ServerTypeOK
  <2>3. Accepted' = Accepted
    BY <1>1, <2>1, <2>2 DEF connect, Accepted
  <2> QED
    BY <1>1, <2>3 DEF connect
<1>2. ASSUME NEW c \in Clients, client_gone(c) PROVE Same
  <2>1. \A d \in Clients : upc'[d] = "idle" <=> upc[d] = "idle"
    BY <1>2, <1>t DEF client_gone, ServerTypeOK
  <2>2. \A d \in Clients : Queued(d)' <=> Queued(d)
    BY <1>2 DEF client_gone, Queued
  <2> QED
    BY <1>2, <2>1, <2>2 DEF client_gone, Accepted
<1>3. ASSUME NEW p \in Procs, main_accept(p)
      PROVE  /\ ppc[Parent] = "accept" /\ ppc'[Parent] = "fork"
             /\ Cardinality(fds[Parent]) < FdSlots
             /\ \E c \in Clients : /\ Accepted' = Accepted \cup {c}
                                  /\ fds'[Parent] = fds[Parent] \cup {c}
  <2>c. PICK c \in Clients : c = Head(backlog)
    BY <1>3, <1>t DEF main_accept, ServerTypeOK
  <2>1. p = Parent
    BY <1>3 DEF main_accept, ServerInv, OneServer
  <2>2. /\ Len(backlog) >= 1 /\ c = backlog[1]
        /\ DOMAIN backlog' = 1 .. Len(backlog) - 1
        /\ \A i \in 1 .. Len(backlog) - 1 : backlog'[i] = backlog[i + 1]
    BY <1>3, <2>c, <1>t DEF main_accept, ServerTypeOK
  <2>3. \A d \in Clients : Queued(d) <=> Queued(d)' \/ d = c
    <3>1. \A i \in DOMAIN backlog : i = 1 \/ i - 1 \in DOMAIN backlog'
      BY <1>b, <2>2
    <3> QED
      BY <1>b, <2>2, <3>1 DEF Queued
  <2>4. ~ \E i \in DOMAIN backlog' : backlog'[i] = c
    <3>1. \A i \in 1 .. Len(backlog) : backlog[i] = c => i = 1
      BY <1>b, <2>2 DEF ServerInv
    <3> QED
      BY <1>b, <2>2, <3>1
  <2>5. ~Queued(c)' /\ upc[c] # "idle" /\ upc' = upc
    BY <1>3, <1>b, <2>2, <2>4 DEF Queued, main_accept, ServerInv
  <2>6. Accepted' = Accepted \cup {c}
    BY <2>3, <2>5 DEF Accepted
  <2> QED
    BY <1>3, <1>t, <2>c, <2>1, <2>6 DEF main_accept, ServerTypeOK
<1>4. ASSUME UNCHANGED <<upc, backlog>> PROVE Accepted' = Accepted
  BY <1>4 DEF Accepted, Queued
<1>5. ASSUME NEW p \in Procs, main_accept_fails(p) \/ main_accept_error(p)
      PROVE  Same
  <2>1. p = Parent
    BY <1>5 DEF main_accept_fails, main_accept_error, ServerInv, OneServer
  <2> QED
    BY <1>4, <1>5, <1>t, <2>1
    DEF main_accept_fails, main_accept_error, Exits, ServerTypeOK
<1>6. ASSUME NEW p \in Procs, main_fork(p) PROVE Same
  <2>1. p = Parent
    BY <1>6 DEF main_fork, ServerInv, OneServer
  <2>2. clientfd[Parent] # Parent
    BY <1>6, <2>1 DEF main_fork, ServerInv
  <2> QED
    BY <1>4, <1>6, <1>t, <2>1, <2>2 DEF main_fork, ServerTypeOK
<1>7. ASSUME NEW p \in Procs, main_fork_fails(p) PROVE Same
  BY <1>4, <1>7, <1>t DEF main_fork_fails, ServerTypeOK
<1>8. ASSUME NEW p \in Procs, SSL_accept(p) PROVE Same
  <2>1. p # Parent
    BY <1>8 DEF SSL_accept, ServerInv
  <2>2. \A d \in Clients : upc'[d] = "idle" <=> upc[d] = "idle"
    BY <1>8, <1>t DEF SSL_accept, ServerTypeOK
  <2>3. \A d \in Clients : Queued(d)' <=> Queued(d)
    BY <1>8 DEF SSL_accept, Queued
  <2>4. Accepted' = Accepted
    BY <2>2, <2>3 DEF Accepted
  <2> QED
    BY <1>8, <1>t, <2>1, <2>4 DEF SSL_accept, ServerTypeOK
<1>9. ASSUME NEW p \in Procs, SSL_accept_fails(p) \/ serv_client_returns(p)
      PROVE  Same
  <2>1. p # Parent
    BY <1>9 DEF SSL_accept_fails, serv_client_returns, ServerInv
  <2> QED
    BY <1>4, <1>9, <1>t, <2>1
    DEF SSL_accept_fails, serv_client_returns, Exits, ServerTypeOK
<1> QED
  BY <1>1, <1>2, <1>3, <1>5, <1>6, <1>7, <1>8, <1>9
  DEF ServerNext, MainStep, ChildStep

LEMMA ExitIsFinal ==
  ASSUME ServerInv, ServerNext, ppc[Parent] = "exit"
  PROVE  ppc'[Parent] = "exit"
<1> USE ServerProcessAssumption DEF Procs
<1>1. \A p \in Procs : ppc[p] \in {"accept", "fork", "SSL_accept", "serv_client"}
                        => p # Parent /\ ppc[p] \notin {"accept", "fork"}
  BY DEF ServerInv, OneServer
<1> QED
  BY <1>1 DEF ServerNext, MainStep, ChildStep, connect, client_gone, main_accept,
     main_accept_fails, main_accept_error, main_fork, main_fork_fails, SSL_accept,
     SSL_accept_fails, serv_client_returns, Exits, ServerInv, ServerTypeOK

\* No server takes more than FdSlots connections in its whole life, for any
\* number of clients and however many sessions have ended (main never closes
\* clientfd): the size of one descriptor table bounds all that is ever served.
THEOREM ServedPerLife == ServerSpec => []LifetimeLimit
<1>1. ServerInit => LimitInv
  <2> SUFFICES ASSUME ServerInit PROVE LimitInv
    OBVIOUS
  <2>1. Accepted = {}
    BY DEF ServerInit, Accepted
  <2>2. fds[Parent] = {}
    BY ServerProcessAssumption DEF ServerInit, Procs
  <2> QED
    BY <2>1, <2>2, FS_EmptySet, ServerProcessAssumption DEF LimitInv, LifetimeLimit
<1>2. ServerInv /\ LimitInv /\ [ServerNext]_pvars => LimitInv'
  <2>1. CASE UNCHANGED pvars
    BY <2>1 DEF pvars, LimitInv, LifetimeLimit, Accepted, Queued
  <2>2. ASSUME ServerInv, LimitInv, ServerNext PROVE LimitInv'
    <3>1. CASE /\ Accepted' = Accepted
               /\ ppc'[Parent] # "exit" => fds'[Parent] = fds[Parent]
      <4>1. ppc[Parent] = "exit" => ppc'[Parent] = "exit"
        BY <2>2, ExitIsFinal
      <4> QED
        BY <2>2, <3>1, <4>1 DEF LimitInv, LifetimeLimit
    <3>2. CASE /\ ppc[Parent] = "accept" /\ ppc'[Parent] = "fork"
               /\ Cardinality(fds[Parent]) < FdSlots
               /\ \E c \in Clients : /\ Accepted' = Accepted \cup {c}
                                    /\ fds'[Parent] = fds[Parent] \cup {c}
      <4>1. PICK c \in Clients : /\ Accepted' = Accepted \cup {c}
                                /\ fds'[Parent] = fds[Parent] \cup {c}
        BY <3>2
      <4>2. fds[Parent] = Accepted /\ Accepted \in SUBSET Clients
        BY <2>2, <3>2 DEF LimitInv, Accepted
      <4>3. Cardinality(Accepted \cup {c}) <= FdSlots
        BY <3>2, <4>2, TableSize
      <4> QED
        BY <4>1, <4>2, <4>3 DEF LimitInv, LifetimeLimit
    <3> QED
      BY <2>2, <3>1, <3>2, AcceptedStep
  <2> QED
    BY <2>1, <2>2
<1>3. LimitInv => LifetimeLimit
  BY DEF LimitInv
<1> QED
  BY InitServerInv, NextServerInv, <1>1, <1>2, <1>3, PTL DEF ServerSpec

-----------------------------------------------------------------------------
\* Where the socket of a client that has a child may be after a step: where it
\* was, or in the table of a new child while the parent holds it too.
LEMMA HoldersStep ==
  ASSUME ServerInv, ServerNext, NEW c \in Clients, c \in Forked
  PROVE  /\ c \in fds'[c] => c \in fds[c]
         /\ \A q \in Procs : c \in fds'[q] => c \in fds[q] \/ c \in fds[Parent]
<1> USE ServerProcessAssumption DEF Procs
<1>t. ServerTypeOK
  BY DEF ServerInv
<1>c. ppc[c] # "none" /\ c # Parent /\ ~Queued(c)
  BY DEF Forked, ServerInv
<1> SUFFICES ASSUME NEW q \in Procs, c \in fds'[q], c \notin fds[q]
             PROVE  q # c /\ c \in fds[Parent]
  OBVIOUS
<1>1. ASSUME UNCHANGED fds PROVE FALSE
  BY <1>1
<1>2. ASSUME NEW p \in Procs, Exits(p) PROVE FALSE
  BY <1>2, <1>t DEF Exits, ServerTypeOK
<1>3. ASSUME NEW p \in Procs, main_accept(p) PROVE FALSE
  <2>1. c = Head(backlog)
    BY <1>3, <1>t DEF main_accept, ServerTypeOK
  <2>2. backlog[1] = c /\ 1 \in DOMAIN backlog
    BY <1>3, <1>t, <2>1 DEF main_accept, ServerTypeOK
  <2> QED
    BY <1>c, <2>2 DEF Queued
<1>4. ASSUME NEW p \in Procs, main_fork(p) PROVE q # c /\ c \in fds[Parent]
  <2>1. p = Parent
    BY <1>4 DEF main_fork, ServerInv, OneServer
  <2>2. clientfd[Parent] # c
    BY <1>4, <1>c, <2>1 DEF main_fork, ServerInv
  <2>3. q = clientfd[Parent] /\ c \in fds[Parent]
    BY <1>4, <1>t, <2>1 DEF main_fork, ServerTypeOK
  <2> QED
    BY <2>2, <2>3
<1> QED
  BY <1>1, <1>2, <1>3, <1>4 DEF ServerNext, MainStep, ChildStep, connect,
     client_gone, main_accept_fails, main_accept_error, main_fork_fails,
     SSL_accept, SSL_accept_fails, serv_client_returns

\* A session's socket is only ever closed, by its child or by the others: what
\* FtpSession takes for granted of its variable sEnds.
THEOREM SocketEnds == ServerSpec => EndsOnlyClose
<1> DEFINE A == \A c \in Clients : c \in Forked => Ends(c)' \subseteq Ends(c)
<1>1. ServerInv /\ [ServerNext]_pvars => [A]_pvars
  <2>1. CASE UNCHANGED pvars
    BY <2>1
  <2>2. ASSUME ServerInv, ServerNext PROVE A
    <3> SUFFICES ASSUME NEW c \in Clients, c \in Forked
                 PROVE  Ends(c)' \subseteq Ends(c)
      OBVIOUS
    <3>1. c # Parent /\ Parent \in Procs
      BY ServerProcessAssumption DEF Procs
    <3>2. c \in fds'[c] => c \in fds[c]
      BY <2>2, HoldersStep
    <3>3. \A q \in Procs : c \in fds'[q] => c \in fds[q] \/ c \in fds[Parent]
      BY <2>2, HoldersStep
    <3>4. Holders(c)' \ {c} # {} => Holders(c) \ {c} # {}
      BY <3>1, <3>3 DEF Holders
    <3> QED
      BY <3>2, <3>4 DEF Ends
  <2> QED
    BY <2>1, <2>2
<1> QED
  BY InitServerInv, NextServerInv, <1>1, PTL DEF ServerSpec, EndsOnlyClose

=============================================================================
