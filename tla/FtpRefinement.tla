---------------------------- MODULE FtpRefinement ----------------------------
(***************************************************************************)
(* The session implements FileService: a file that a transfer is still     *)
(* writing does not exist yet.                                             *)
(***************************************************************************)
EXTENDS FtpSession

remoteSeen ==
  IF spc = "put" /\ sopen /\ sname \in Names
    THEN [remote EXCEPT ![path] = NoEntry] ELSE remote

localSeen ==
  IF cpc = "get" /\ copen THEN [local EXCEPT ![cname] = NoEntry] ELSE local

Seen == INSTANCE FileService WITH remote <- remoteSeen, local <- localSeen

\* Every command of the session takes effect whole, at one step, or not at
\* all, whichever blocks its transfer is cut into, and nothing else changes a
\* file, except that what is left of a refused upload may become a file under
\* the name a block of it spells: always its whole rest, never over a file.
ImplementsFileService == Seen!Service

=============================================================================
