# A TLA+ model of filetransfer-cli

A file transfer client and server in C, over TLS, with a protocol of their own.
This directory holds TLA+ modules of the two programs, TLC configurations that
check them on small instances, and TLAPS proofs of what holds for every instance.

## The system

| part | source | state | operations |
|---|---|---|---|
| wire protocol | `common.h`, `common.c` | - | command codes, the frame header `{body_len, command}`, recognition of a typed line, `file_exist` |
| connection | OpenSSL and TCP, as the code calls them | bytes in flight each way, who holds a descriptor | `SSL_read`, `SSL_write`, `select`, `close` |
| server session | `serv_client.c` | the request at hand, the open file, the working directory | `authentication`, the request loop, `handle_put`, `handle_get`, `handle_ls_pwd`, `chdir` |
| client | `client_process.c` | the command at hand, the open file, the message buffer | `login`, the `select` loop, `send_command_to_server`, `put_file_to_server`, `get_file_from_server` |
| listening server | `ftpserver.c` | accepted descriptors, children | `accept`, `fork` |
| client start-up | `ftpclient.c` | - | `connect`, `SSL_connect` |
| file systems | the calls of both programs | directories, files, open descriptors; shared by all sessions | `lstat`, `open`, `read`, `write`, `unlink`, `rm` |
| earlier version | `oftp/` | the same without TLS, logins, `put`, `rm`, `mkdir` | `MSG_PEEK` and `recv` on a byte stream, `fork`, `close` |

`src/` and `inc/` repeat the top-level files byte for byte; `debug/` is a variant of
`common.c`. The Makefile builds the top-level files.

The parent accepts and forks; a child and its client then run on their own. They
share nothing but the connection; what sessions share with one another is the
directory the server was started in, and possibly that of the user. The client alone asks; the child answers `get`,
`ls`, `pwd`, `rm` and `mkdir` with frames, and `put`, `cd` and `quit` not at all. No
frame names the request it answers. Before the first request a fixed-size
`struct info` goes one way and a two-byte verdict the other, both without header.

What is hard in it, and what would make each part correct:

* **server session**: the end of a transfer is one frame whose command is `END_FILE`;
  both ends have to agree on which one that is, also when an upload is refused
  after its first block, when the file length is a multiple of the block size, and
  when either end dies. No file of the server may be replaced (`O_EXCL`).
* **client**: it either reads answers or carries out one command. A download must
  leave the server's file or none, an upload must leave the user's file; a failed
  download removes the file, and must remove only its own.
* **connection**: both ends write without reading; nothing times out in the middle
  of a handler; end-of-file is a read that returns nothing and is not looked at.
* **login**: nothing but the order of calls keeps credentials, verdicts and frames
  apart.
* **file systems**: the test for a name (`lstat`), the `open` and the writes of a
  transfer are separate calls, between which other sessions create, write and remove
  files of that name.
* **earlier version**: TCP may deliver a message in pieces; each end has to begin every
  `recv` at a message, and each has to notice that the other has gone.
* **listening server**: one child for each client, none held up by another; the
  descriptors of ended sessions, and `accept` or `fork` failing.

`PROJECT.json` lists these hazards at their lines.

## The modules

```
FtpProtocol --- TlsLink --+-- ServClient -----+
                          |                   +-- FtpSession -- FtpRefinement -- MCFtpSession
                          +-- ClientProcess --+       |              |
                                                      |         FileService (INSTANCE)
                                                      |
                          FtpSession_proofs - FtpTransfer_proofs - FtpService_proofs

FtpProtocol --- SharedDir --+-- MCSharedDir
                            +-- SharedDir_proofs --- SharedFiles_proofs

FtpProtocol --- Oftp --+-- MCOftp
                       +-- Oftp_proofs

FtpServer --- FtpServer_proofs

FtpProtocol --- RunLemmas, which all proofs but those of FtpServer extend
```

* **FtpProtocol** - frames, commands, directory entries, one `read` of a file as
  `BlockAt`, `file_exist`, and `htonl` as the arithmetic it is. Contents are
  sequences of bytes; a name is a model value. After a refused upload the server reads
  file blocks as requests, and their bytes as names, up to the first zero byte: `Spelled`
  says what they may spell. `BlockName` stands for what no `open` accepts: 4096 bytes
  without a zero are too long, and text with a `/` in it mostly leads nowhere. A file
  with an early zero byte may spell any name, then `Spelled` has it.
* **TlsLink** - two bounded FIFOs of frames, the client's descriptor, and the set of
  server processes that hold the accepted socket. One `SSL_write` of a frame is one
  TLS record and one `SSL_read` returns one, so a frame is the unit. A write blocks
  while its direction is full; when the other end is closed it may seem to succeed.
  An end that is closed with unread frames, or that is still sent some, resets the
  connection: `Cut` is what may be left of the frames it had sent, and the actions
  `reset_by_client` and `reset_by_server` of FtpSession lose the rest.
  A read at end-of-file gives the buffer `memset` left (`ZeroFrame`), whose command is
  0, that is `COMMAND_PUT`.
* **ServClient** - the child. An action runs from one blocking call to the next and
  has the name of the function it models; `spc` says where the child is: `auth`,
  `select`, `put`, `get`, `nofile` (about to send NO_FILE), `pipe` (in
  `handle_ls_pwd`), `exit`. `serv_client_quit`, `handle_request_cd` and the like are
  the branches of the loop and of `handle_request`. `rm` and `mkdir` take effect when
  the pipe is opened.
* **ClientProcess** - the client. `cpc` is `login`, `verdict`, `main` (the select
  loop), `send` (a line was accepted, its request not yet written), `put`, `get`,
  `exit`. `heap` is the command field left in the last freed message buffer.
* **FtpSession** - both, with the user and the parent; the properties. `Settled` says
  whether the user waits until the session is quiet before typing again.
* **FileService** - what the help text promises: two directories and commands that
  take effect whole or not at all, and besides it `LeftOver`, for files whose blocks spell
  a name. **FtpRefinement** maps the session to it: the file
  a transfer is still writing does not exist yet.
* **FtpServer** - the listening process and the clients up to `serv_client`: `upc` is
  where a user's client is, `backlog` the connections that wait, `ppc` the place of the
  parent and of each child in `main`, `clientfd` that variable of `main` in each
  process, `fds` the accepted sockets in each descriptor table, `nproc` how many
  children the machine allows (nobody waits for a child, so an ended one counts).
  `accept` fails for certain when the table is full (`main_accept_fails`), and may fail
  at any time for any other reason (`main_accept_error`: an aborted connection, a full
  system table, no memory, a network error): `main` does not tell these apart and
  returns, so one unlucky client can end the server for all. A
  child is named after its client. `Ends` is how one session sees the holders of its
  socket; it is the variable `sEnds` of TlsLink, and `EndsOnlyClose` what TlsLink takes
  for granted of it: `"parent"` stands for the parent and every later child.
* **SharedDir** - several sessions: each user has a client and a child, all children
  work in one directory, clients where `Home` says. Here a step is one call on the file
  system, where ServClient and ClientProcess run from one read or write of the connection
  to the next: `file_exist`, `open`, each `read` or `write`, `unlink` are steps of their
  own, also the refused `open` of a get and the `unlink` that follows it (`get_fails`,
  `get_unlinks`). `ino` holds the contents of the inodes, `dir` the names, `fd` is an open
  descriptor; a removed file lives on for those that have it open. A frame that was read
  stays at the head of its queue until the block is written, so `Capacity` counts the
  frame in hand. It has `put`, `get` and `rm`; users wait until their own session is
  quiet and nothing fails: the other sessions do the harm.
* **Oftp** - the version in `oftp/`: one client, one child, the parent, and TCP. A
  message is cells (`body_len`, the command, each byte of a block or the argument of a
  request); `up` and `down` are in flight, `sbuf` and `cbuf` have arrived. `deliver`
  moves one cell, so a message may be cut between any two; when the sending end is
  closed `reset` may lose what is in flight. `spc` and `cpc` are as above, with
  `fork` for a connection whose child is not forked yet and `stdin` for a client whose
  `select` found an answer and a line, and which has handled the answer. `main_close`
  is the `close` in the parent that the later version lacks. The server's `recv` may
  return a piece (`serv_client_short`), the client's has `MSG_WAITALL`.
* **MCFtpSession**, **MCSharedDir**, **MCOftp** - the values TLC uses; `server` needs none.
* **FtpSession_proofs**, **FtpTransfer_proofs**, **FtpService_proofs**,
  **FtpServer_proofs**, **SharedDir_proofs**, **SharedFiles_proofs**, **Oftp_proofs** -
  theorems; **RunLemmas** - lemmas about files, blocks and queues of blocks.

Adversity is a constant of the session, `Faults`: a subset of `AllFaults` (failing `open`, `read`,
`write`, `popen`, the database, a server time out, the death of either end or of the
parent, and `reuse`: `malloc` hands out a freed message buffer as it was). Each has
its action or its disjunct; a run names the ones it allows. The proofs hold for all of
them, but for the few a theorem names.
`OftpFaults` is the same for the earlier version, and `oftp` allows all of them.

Undefined behaviour is a choice: the verdict a client reads without an answer
(`login`, `buff` uninitialised) is either value; the command field of a full block of
an upload (`client_process.c:182` reads it from fresh memory) is zero, or under
`reuse` also what the last freed buffer held or nothing that is a command; the
result of `handle_ls_pwd`, which has no `return`, is the status of `pclose`. In `oftp/`
also `handle_server_ack` has none, so an answer may end the client's loop or not.

An operator marked "Mutant of" is a plausible slip in the operator that follows it;
it is used by nothing and serves to confirm that the property meant to notice the
slip does.

## The runs

Blocks are 2 bytes, bytes of an integer are binary digits (`ByteBase` = 2), so
`MAX_READ_BYTES` has a zero low byte as 4096 has, and the effect of comparing a
length in network order is the same. File lengths lie below, at and above one block
and at exactly two: the loops of the transfers have no other cases. A direction holds
1 frame, or 2 in `eager` and `stale_download`, where it matters that frames queue up.
`Spelled` holds one of the names in `service` and `transfers`, where it changes what the
user finds on the server, and is `{BlockName}` in the others.

Passing:

| run | instance | checks |
|---|---|---|
| `service` | user waits; 2 names, 2 directories; failing popen, open, read, client write, time out; a block spells the name `d` or none | `ImplementsFileService` |
| `transfers` | user waits; 2 names, every length 0-4 on either side; a block spells the name `d` or none; no failure | `DownloadExact`, `PutEnds`, `GetEnds`, `NeverOverwritten` |
| `eager` | user types ahead; 2 frames each way; a listing of two blocks | `UploadExact`, `LocalKept`, `InStep`, `QuitEndsSession` |
| `adversity` | user types ahead; everything but a full server disk goes wrong | `TypeOK`, `LoginPhase`, `LoginInv`, `UploadPrefix` |
| `shared` | 2 users, 3 commands each, own directories with files of 3, 2 and 5 bytes, one name in common; 1 frame each way | `SharedTypeOK`, `OneWriter`, `NeverMixed`, `SharedUploadWhole`, `SharedGetEnds`, `SharedPutEnds` |
| `oftp` | a user who types `ls` and `quit` ahead and waits with the rest; 2 directories on either side, a name that is free or special; a file and a listing of a block and a half; 5 cells each way; every failure | `OftpTypeOK`, `Aligned`, `OftpGetExact`, `OftpGetEnds`, `BothEnd` |
| `server` | 4 clients, 3 descriptors, room for 1 child or for 4, a backlog of 2; `accept` may fail at any time | `OneServer`, `ServerInv`, `LifetimeLimit`, `EndsAtLimit`, `EndsOnlyClose`, `Served` |

* `ImplementsFileService`: whatever the interleaving of the two ends and the blocks
  of a transfer, every command is one atomic step of `FileService` or none, except for
  what the help text says nothing of, `LeftOver`. A refused `put` gives up one block only
  (`serv_client.c:190`); the next full one is read as a `put` of the name its bytes spell,
  and the blocks behind it are stored in a new file of that name (`serv_client.c:189`,
  `O_CREAT`). `lpwd` of a file does the same one block earlier. The user finds a file
  nobody asked for. The property still says that this file is the whole rest of one the
  user sent, that it replaces nothing, and that nothing else happens.
* `DownloadExact`, `UploadExact`: a transfer that returns as a success leaves an
  exact copy (of an upload that a block started, this cannot be asked: `Spelled` names no
  file in `eager`, nor where `UploadPrefix` is checked). `PutEnds`, `GetEnds`: it does return.
* `InStep`: `handle_put` or the client waits for data only while the other end still
  has some to send, through refused uploads (whose blocks the request loop takes for
  requests, and may turn into uploads of other names), `lpwd` (which sends a file under a
  request the server drops) and the additional `END_FILE` of a download.
* `UploadPrefix`: what is on the server during an upload, and so after a crash, is a
  prefix of the user's file.
* `LoginPhase`, with `LoginInv`: headerless and framed traffic are never confused.
* `NeverOverwritten`, `LocalKept`: a file changes only by the transfer that created
  it, or by `rm`; a block of a refused upload that spells a name can create a file but not
  replace one.
* `QuitEndsSession`: a quit that was sent ends the child, also right behind an upload
  that is still written or was refused, as long as what the child has before it is
  nothing it answers and all its answers have been read. Otherwise the client leaves with
  data unread, the connection is reset and the quit may be lost with it; the child then
  turns on empty reads as in `orphan_child`.
* `OneServer`, with `ServerInv`: one server process for each client, and no child in
  the accept loop. `Served`: a client in the backlog comes to be served unless the
  parent has ended or `fork` has failed; no session holds up another.
* `LifetimeLimit`: a server takes at most as many connections in its whole life as its
  descriptor table holds, since the parent closes none, also not those of sessions long
  over; `EndsAtLimit`: with the last of them it ends for good. `EndsOnlyClose`:
  the others that hold a session's socket only become fewer, in spite of later forks.

* `OneWriter`: no file has two transfers writing it, whoever removes and creates names
  meanwhile. `NeverMixed`: at any moment every file is the beginning of one file of the
  start, also a download of a file that another session is still uploading, and a name
  two users upload at once; `SharedUploadWhole`: an upload taken to its end put the
  whole file into the inode it created, even when its name is gone by then. Both are about
  files whose blocks spell no name: a file made by `LeftOver` begins in the middle of another.
* `SharedGetEnds`, `SharedPutEnds`: transfers end whatever the other sessions do, except
  for a get whose file is removed between the test and the `open`: then the child says
  nothing (`serv_client.c:253`).
* `Aligned`: wherever the stream is cut, each end that is alive reads its next header at
  the start of a message: the child gives up a connection rather than go on after a
  piece. `OftpGetExact`: a get leaves the server's file or nothing, also when it is cut
  off, if the user waits for earlier answers: the loop of a get writes whatever message
  comes (`oftp/client_process.c:144-163`), so one typed while a listing is on its way stores
  the listing in front of the file. `OftpGetEnds`, `BothEnd`: a get ends, and when either process has gone the other
  follows, though a request may never be answered: since the parent closes its copy of
  the socket, the time out of the child reaches the client. Both fail in the TLS version
  (`GetEnds`, `OrphanEnds`), which has lost the test of `recv` and this `close`.

Deadlock is not checked where a run lets a process end for good (quit, time out, a
kill, the server at its limit), nor in `eager`, where two full directions really stop the session: that is
the finding of `both_full`; in `shared` the users stop typing after their commands.

Violations, each a finding in `PROJECT.json`:

| run | what TLC shows |
|---|---|
| `stale_upload` | after a download, an upload's first full block carries the stale `END_FILE` and both ends stop there (`UploadExact`) |
| `stale_download` | a `get` typed ahead is answered by the additional `END_FILE` of the one before (`DownloadExact`) |
| `same_name` | two clients in one directory get the same name: the one that comes second removes the file of the first (`OthersKept`); a link or FIFO of that name goes the same way |
| `orphan_child` | the child of a killed client spins on empty reads and never times out (`OrphanEnds`) |
| `both_full` | `put` typed during a listing: both ends block in `SSL_write` (`PutEnds`) |

### Fairness

`FairSpec` assumes weak fairness of the child's steps and of the client's steps: the
operating system runs a process that is not blocked. Nothing is assumed of the user
(neither a login nor a command is owed), nor of failures and resets; the server's time out, where
a run allows it, is a step of the child because `select` returns when it expires.
`FairServerSpec` likewise lets every server process take the steps it can, the parent
in its loop and a child in `SSL_accept`; no user has to connect and no session to end,
and no error of `accept` is owed but the one of a full table.
`FairSharedSpec`: the same for every client and child. `FairOftpSpec`: the network
delivers what was sent, and the parent, the child and the client run; the time out of
`select` in the child is a step that is taken only while nothing has arrived, and a line
that does nothing (`handle_user_input_nothing`) stands for whatever the user had typed
when `select` returned. Neither a command nor a failure nor `reset` is owed.

### Bounds

`MaxCommands` bounds what a user types in `shared`: three commands suffice for put, rm
and put of one name while the other user does the same, which is what its properties are
about. `Capacity`, and `Buffer` in `Oftp`, are the room of the connection; the largest
message fits. In `oftp` nothing is bounded but that and what the user types ahead: only `ls` and
`quit`; `cd`, `pwd` and `get` wait until the session is quiet. So a listing on its way meets
a `quit` and further listings, but no `get` there: that pair is the one `OftpGetExact` does
not hold for.

## The proofs

For every value of the constants that satisfies the assumptions of the modules (block
size at least 1 and below the square of the byte base, capacity at least 1, names that
differ, initial entries that are entries), and for every set of failures:

* `TypeCorrect`: `Spec => []TypeOK`, and `LoginPhases`: `Spec => []LoginPhase`. Neither is
  inductive. The buffer a client frees holds a frame's command, so its type rests on
  there being no verdict left once the login is over; that in turn rests on the
  connection carrying at most one credential or one verdict until the child leaves
  `auth`. `LoginInv` states this, and `Inv == TypeOK /\ LoginInv` is inductive: one lemma
  for the reads and writes of each end, one (`ServPhase`, `ClientPhase`) for a step of
  either process past its login, then one lemma per action.
* `RemoteNeverOverwritten`: `Spec => NeverOverwritten`, from `TypeOK` and the guard of
  `handle_put`, whatever the blocks of a refused upload spell.
* `LocalNeverOverwritten`: `Spec => LocalKept` when no initial entry of the user is
  special. `LocalInv`: a `get` that has written nothing is about a name that is not
  there, from the prompt where `file_exist` is asked to the first frame. The assumption
  is needed: `file_exist` does not see a link or FIFO, and the failed `get` removes it.
* `OneServerEach`: `ServerSpec => []OneServer`, for any number of clients and any limits.
  `ServerInv` is inductive: the backlog names a client once, and a client that waits
  there, or that the parent is about to fork for, has no child yet.
* `ServedPerLife`: `ServerSpec => []LifetimeLimit`; until it ends, the parent's table is
  the set of all clients ever accepted (`LimitInv`). `accept` may fail at any time in it.
* `SocketEnds`: `ServerSpec => EndsOnlyClose`; a new child copies only what the parent
  holds already.

* `LoginInvariant`: `Spec => []LoginInv`, and `ServerInvariant`: `ServerSpec => []ServerInv`,
  the two strengthenings themselves, which the runs check too.
* `SharedTypes`: `SharedSpec => []SharedTypeOK`, and `OneWriterEver`: `SharedSpec =>
  []OneWriter`, for any number of users, any names, directories and commands. A file is
  opened for writing only as an inode that did not exist, and every descriptor is that of
  an older one; `SharedInv` adds to the two what a process has open and by which name
  (`ClientNames`, `ServNames`, `GetNames`): one lemma for each call on the files, one
  (`ClientAlone`, `ChildAlone`) for a step of one process, one per action.

What a queue carries is stated without sums, which would need induction over data:
`Run(q, a, b, S, R)` (**RunLemmas**) says that there are places of S, one before and one
after every frame of q, from a to b, and that each frame leads from the one to the other
as R allows. An empty queue leads nowhere, a frame that is written adds a place at the end,
one that is read takes the first away. A place is a position in a file, and where a frame
leads is told by its bytes: `Slice(d, p, q)`. `NetworkOrder` is the arithmetic of the loop
of `handle_get`, which compares `htonl` of a length with the block size: that is true of the
length 0 alone, for every block size below the square of the byte base (4096 and 65536).

* `UploadInvariant`: `Spec => []UpInv`, under all failures. The frames on their way to the
  child lead from where it has stored the file to where the client has read it; an end that
  is in no transfer is at a place between two requests. From it, when no write of the server
  fails and no block spells a name (`Spelled \cap Names = {}`), `UploadPrefixEver`: `Spec => []UploadPrefix`; when also no buffer is handed out uncleared,
  `UploadExactEver`: `Spec => UploadExact`. Without the second the property is false, as
  `stale_upload` shows; a failed write is what `Stored` loses silently; and an upload that
  a block of another one started holds the rest of that other file.
* `StaysInStep`: `Spec => []InStep`, however far the user types ahead, for every file length
  and block size and whatever the blocks spell. `StepInv` says that a client in a `get` has its answer, a request for it or
  a child that is at it before it, and that a client goes only after its quit. The failures
  allowed are those that neither end has to learn of: a child that cannot open or read its
  file, or a death, does leave the other end waiting.
* `DownloadPhases`: `Spec => []DownInv` for a user who waits: a `get` is requested, denied,
  being sent or answered, and in the last two what is in flight leads from what the client
  has to where the child is. `DownloadExactEver`: `Spec => DownloadExact`, under all
  failures. That the user waits is needed: see `stale_download`.
* `SessionImplementsFileService`: `Spec => ImplementsFileService`, for a user who waits, whose
  entries are regular files or none and whose blocks spell no name, without `swrite`, `reuse`,
  `crash` and `kill`. The step in
  which the last block is stored is the `put` or `get` of the abstract specification, every
  other step of a transfer changes nothing there, since the file being written does not
  exist for it. Each hypothesis excludes a state in which the implementation is not
  atomic: half a file after a death, a link that a failed `get` removes, and the two above. With
  the one on `Spelled`, `LeftOver` cannot happen in `FileService` either, so this is the service
  the help text promises; that the session with such blocks does what `LeftOver` says is
  only model-checked (`service`).
* `OriginsKept`: `SharedSpec => []MixInv`. There is a function from inodes to files of the
  start; each inode holds the beginning of its file, and each queue leads from what its
  reader has stored to what its writer has read, in the same file. A new inode gets the
  origin of the one it is copied from, and keeps it when its name is removed. `OneWriter`
  is what makes this inductive: nobody else adds to the inode in between. `NeverMixedEver`:
  `SharedSpec => []NeverMixed`, for any number of users and commands. This and the next
  theorem assume that no block of a refused upload spells a name: a file created from one
  begins in the middle of another.
* `UploadWholeEver`: `SharedSpec => SharedUploadWhole` when no two users have the same
  directory; they may put, get and remove the same names on the server. `WholeInv` adds to
  the above that an inode has at most one name and that the user's own file is the one its
  child stores. When two clients share a directory, one may remove the file the other is
  sending (`same_name`).

In `Oftp` a stream has no frames, only cells, and it may end in the middle of a message.
`Framed(q, whole, a, b, S, R)` (**Oftp_proofs**) is the counterpart of `Run`: there is a set of
cells of q at which messages begin, the first of q among them, with a place before each;
where a message begins, R names one that fits q as far as q goes and leads to the next
beginning; and if the stream is whole, its end is a beginning too, at the place b. Moving a
cell changes nothing, losing the end leaves a stream that is not whole (`FrameCut`), a
message that is sent goes behind a whole one (`FrameAdd`), and one of which `total_len`
cells have arrived can be taken off (`FrameTake`).

* `OftpInvariance`: `OftpSpec => []OftpInv`, under all failures. A direction is framed while its
  reader lives, and whole while its writer does; besides the types, the invariant says who
  holds the socket (`EndsOK`) and what a pending command is about (`AskedOK`). It gives
  `OftpTypes`: `OftpSpec => []OftpTypeOK`, and `AlignedEver`: `OftpSpec => []Aligned`. `Aligned`
  alone is not inductive: it says nothing of the messages behind the first.
* `OftpGetExactEver`: `OftpSpec => OftpGetExact`, under all failures. The places are now positions
  in the server's file. `GetInv`: a request is on its way alone, refused, being answered or
  answered, and then what is on its way leads from what the client has stored to what the
  child has read; when the child is gone the answer may stop anywhere, but its `END_FILE`
  still stands only behind the last byte. The theorem is about a user who waits for earlier
  answers before a `get` (`"GET" \notin Ahead`), like `DownloadExactEver`; without
  that it is false, as the listing shows.

Only model-checked: what is liveness (`PutEnds`, `GetEnds`, `QuitEndsSession`, `EndsAtLimit`, `Served`,
`SharedGetEnds`, `SharedPutEnds`, `OftpGetEnds`, `BothEnd`), which the prover cannot do under
fairness. Every invariant and action property of a passing run has its theorem.

## Not modelled

* The text of listings and messages; TLS set-up (`init_ssl`), negotiation and session
  tickets, and the set-up of sockets and arguments: straight-line code before a session.
* Allocation failure, and `fread` failing on a pipe. Standard input at its end.
* The scan of a typed line (`get_command_type`, `trim_left_space`, `trim_all_space`) and its
  division by `fgets`: one process looks at one string, and the protocol sees only the
  command and argument it yields. The same for the login dialogue with its ten-byte
  buffers; a credential is good or bad.
* Partial frames over TLS: a record is delivered whole. In `Oftp` the stream is cut
  between the parts of a message, but not inside the four bytes of `body_len`.
* A full server disk loses a block of an upload silently (`serv_client.c:198`); `Stored`
  has it under `swrite`, and `UploadPrefix` is claimed without it.
* Failures and changes of directory while several sessions share files: each is modelled
  in the session alone.
* What a block spells is a constant of a run, `Spelled`, and not computed from its bytes; a
  block that spells a path into another directory is not distinguished from one that
  spells no name.
* `src/`, `inc/` and `debug/`: copies, and a variant of `common.c` that nothing builds.
