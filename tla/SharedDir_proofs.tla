-------------------------- MODULE SharedDir_proofs --------------------------
(***************************************************************************)
(* No file has two transfers writing it, for any number of users, any      *)
(* directories and names, and any number of commands: OneWriter is         *)
(* inductive together with the types, since a file is opened for writing   *)
(* only as a new inode, and every open descriptor holds an older one.      *)
(***************************************************************************)
EXTENDS SharedDir, RunLemmas

\* The names a process opens are names of files; a client opens nothing
\* before its request is sent, and a child that reads a file has it open.
ClientNames ==
  \A u \in Users : /\ cl[u].pc # "main" => cl[u].name \in Names
                   /\ cl[u].pc = "send" => cl[u].fd = NoInode
ServNames ==
  \A u \in Users : /\ sv[u].pc = "open" => sv[u].name \in Names
                   /\ sv[u].pc = "get" => sv[u].fd # NoInode
GetNames ==
  \A u \in Users : \A i \in DOMAIN up[u] :
    up[u][i].command = "GET" => up[u][i].name \in Names

SharedInv ==
  /\ SharedTypeOK
  /\ ClientNames /\ ServNames /\ GetNames
  /\ OneWriter
  /\ Len(Initial) <= Len(ino)

-----------------------------------------------------------------------------
\* What the processes send.
LEMMA RequestType ==
  ASSUME NEW c \in command_type_t, NEW n \in Text
  PROVE  /\ Request(c, n) \in msg_head_ctrl_t
         /\ Request(c, n).command = c
         /\ Request(c, n).name = n
BY DEF Request, Frame, msg_head_ctrl_t, Text

LEMMA BlockFrameType ==
  ASSUME NEW c \in command_type_t, NEW d \in Seq(Byte)
  PROVE  /\ Block(c, d) \in msg_head_ctrl_t
         /\ Block(c, d).command = c
         /\ Block(c, d).data = d
BY DEF Block, Frame, msg_head_ctrl_t, Text

LEMMA FileFrameType ==
  ASSUME NEW d \in Seq(Byte), NEW c \in command_type_t
  PROVE  /\ FileFrame(d, c) \in msg_head_ctrl_t
         /\ FileFrame(d, c).command \in {"END_FILE", c}
         /\ FileFrame(d, c).data = d
<1>1. "END_FILE" \in command_type_t
  BY DEF command_type_t
<1>2. QED
  BY <1>1, BlockFrameType DEF FileFrame

LEMMA FrameFields ==
  ASSUME NEW m \in msg_head_ctrl_t
  PROVE  m.name \in Text /\ m.data \in Seq(Byte)
BY DEF msg_head_ctrl_t

\* A queue loses its first frame, or gains a last one when there is room.
LEMMA TakeFirst ==
  ASSUME NEW q \in Seq(msg_head_ctrl_t), q # << >>
  PROVE  /\ Head(q) \in msg_head_ctrl_t
         /\ 1 \in DOMAIN q /\ Head(q) = q[1]
         /\ Tail(q) \in Seq(msg_head_ctrl_t)
         /\ Len(Tail(q)) = Len(q) - 1
         /\ \A i \in DOMAIN Tail(q) : i + 1 \in DOMAIN q /\ Tail(q)[i] = q[i + 1]
<1>1. Tail(q) \in Seq(msg_head_ctrl_t) /\ Len(Tail(q)) = Len(q) - 1
  OBVIOUS
<1>2. \A i \in DOMAIN Tail(q) : i + 1 \in DOMAIN q /\ Tail(q)[i] = q[i + 1]
  BY <1>1
<1>3. QED
  BY <1>1, <1>2

LEMMA AddLast ==
  ASSUME NEW q \in Seq(msg_head_ctrl_t), NEW m \in msg_head_ctrl_t,
         Len(q) < Capacity
  PROVE  /\ Append(q, m) \in Seq(msg_head_ctrl_t)
         /\ Len(Append(q, m)) <= Capacity
         /\ \A i \in DOMAIN Append(q, m) :
              (i \in DOMAIN q /\ Append(q, m)[i] = q[i]) \/ Append(q, m)[i] = m
BY SharedAssumption

-----------------------------------------------------------------------------
\* What the calls do to the files: the inodes stay and perhaps one is new.
FilesType ==
  /\ ino \in Seq(Seq(Byte))
  /\ dir \in [Places \X Names -> 0 .. Len(ino)]

LEMMA Rename ==
  ASSUME NEW S, NEW n \in Nat, NEW k \in Nat, n <= k, NEW i \in 0 .. k,
         NEW d \in [S -> 0 .. n], NEW p
  PROVE  /\ [d EXCEPT ![p] = i] \in [S -> 0 .. k]
         /\ p \in S => [d EXCEPT ![p] = i][p] = i
<1>1. ASSUME NEW q \in S PROVE [d EXCEPT ![p] = i][q] \in 0 .. k
  <2>1. d[q] \in 0 .. k
    OBVIOUS
  <2>2. QED
    BY <2>1
<1>2. QED
  BY <1>1

LEMMA RenameNew ==
  ASSUME NEW S, NEW n \in Nat, NEW d \in [S -> 0 .. n], NEW p
  PROVE  /\ [d EXCEPT ![p] = n + 1] \in [S -> 0 .. n + 1]
         /\ p \in S => [d EXCEPT ![p] = n + 1][p] = n + 1
<1>1. n + 1 \in Nat /\ n <= n + 1 /\ n + 1 \in 0 .. n + 1
  OBVIOUS
<1>2. QED
  BY <1>1, Rename

LEMMA RenameGone ==
  ASSUME NEW S, NEW n \in Nat, NEW d \in [S -> 0 .. n], NEW p
  PROVE  [d EXCEPT ![p] = 0] \in [S -> 0 .. n]
<1>1. n <= n /\ 0 \in 0 .. n
  OBVIOUS
<1>2. QED
  BY <1>1, Rename

LEMMA CreateFiles ==
  ASSUME FilesType, NEW p, Create(p)
  PROVE  /\ FilesType'
         /\ Len(ino') = Len(ino) + 1
         /\ p \in Places \X Names => dir'[p] = NewInode
<1>1. << >> \in Seq(Byte)
  OBVIOUS
<1>2. ino' \in Seq(Seq(Byte)) /\ Len(ino') = Len(ino) + 1 /\ Len(ino) \in Nat
  BY <1>1 DEF FilesType, Create
<1>3. dir' = [dir EXCEPT ![p] = Len(ino) + 1]
  BY DEF Create, NewInode
<1>4. dir \in [Places \X Names -> 0 .. Len(ino)]
  BY DEF FilesType
<1>5. /\ dir' \in [Places \X Names -> 0 .. Len(ino')]
      /\ p \in Places \X Names => dir'[p] = NewInode
  BY <1>2, <1>3, <1>4, RenameNew DEF NewInode
<1>6. QED
  BY <1>2, <1>5 DEF FilesType

LEMMA RemoveFiles ==
  ASSUME FilesType, NEW p, Remove(p)
  PROVE  FilesType' /\ Len(ino') = Len(ino)
<1>1. Len(ino) \in Nat
  BY DEF FilesType
<1>2. dir \in [Places \X Names -> 0 .. Len(ino)]
  BY DEF FilesType
<1>3. dir' = [dir EXCEPT ![p] = 0] /\ ino' = ino
  BY DEF Remove, NoInode
<1>4. dir' \in [Places \X Names -> 0 .. Len(ino)]
  BY <1>1, <1>2, <1>3, RenameGone
<1>5. QED
  BY <1>1, <1>3, <1>4 DEF FilesType

LEMMA WriteFiles ==
  ASSUME FilesType, NEW i \in 1 .. Len(ino), NEW d \in Seq(Byte), Write(i, d)
  PROVE  FilesType' /\ Len(ino') = Len(ino)
<1>1. ino[i] \in Seq(Byte) /\ Len(ino) \in Nat
  BY DEF FilesType
<1>2. ino[i] \o d \in Seq(Byte)
  BY <1>1
<1>3. ino' \in Seq(Seq(Byte)) /\ Len(ino') = Len(ino)
  BY <1>2 DEF FilesType, Write
<1>4. QED
  BY <1>3 DEF FilesType, Write

-----------------------------------------------------------------------------
\* OneWriter survives a step in which every process goes on writing what it
\* wrote or stops, except that one may start on a new inode.
KeepsOrStops(u) ==
  /\ ServWrites(u)' \in {ServWrites(u), NoInode}
  /\ ClientWrites(u)' \in {ClientWrites(u), NoInode}

LEMMA WritesType ==
  ASSUME SharedTypeOK, NEW u \in Users
  PROVE  /\ ServWrites(u) \in 0 .. Len(ino)
         /\ ClientWrites(u) \in 0 .. Len(ino)
         /\ Len(ino) \in Nat
<1>1. Len(ino) \in Nat
  BY DEF SharedTypeOK
<1>2. sv[u].fd \in 0 .. Len(ino) /\ cl[u].fd \in 0 .. Len(ino)
  BY DEF SharedTypeOK, Process
<1>3. QED
  BY <1>1, <1>2 DEF ServWrites, ClientWrites, NoInode

LEMMA NobodyStarts ==
  ASSUME OneWriter, \A u \in Users : KeepsOrStops(u)
  PROVE  OneWriter'
BY DEF OneWriter, KeepsOrStops

LEMMA ChildStarts ==
  ASSUME SharedInv, NEW u \in Users,
         ServWrites(u)' = Len(ino) + 1,
         \A v \in Users \ {u} : KeepsOrStops(v),
         ClientWrites(u)' \in {ClientWrites(u), NoInode}
  PROVE  OneWriter'
<1>1. \A v \in Users : /\ ServWrites(v) \in 0 .. Len(ino)
                       /\ ClientWrites(v) \in 0 .. Len(ino)
  BY WritesType DEF SharedInv
<1>2. Len(ino) \in Nat /\ Len(Initial) \in Nat /\ Len(Initial) <= Len(ino)
  BY InitialAssumption DEF SharedInv, SharedTypeOK
<1>3. OneWriter
  BY DEF SharedInv
<1>4. QED
  BY <1>1, <1>2, <1>3 DEF OneWriter, KeepsOrStops, NoInode

LEMMA ClientStarts ==
  ASSUME SharedInv, NEW u \in Users,
         ClientWrites(u)' = Len(ino) + 1,
         \A v \in Users \ {u} : KeepsOrStops(v),
         ServWrites(u)' \in {ServWrites(u), NoInode}
  PROVE  OneWriter'
<1>1. \A v \in Users : /\ ServWrites(v) \in 0 .. Len(ino)
                       /\ ClientWrites(v) \in 0 .. Len(ino)
  BY WritesType DEF SharedInv
<1>2. Len(ino) \in Nat /\ Len(Initial) \in Nat /\ Len(Initial) <= Len(ino)
  BY InitialAssumption DEF SharedInv, SharedTypeOK
<1>3. OneWriter
  BY DEF SharedInv
<1>4. QED
  BY <1>1, <1>2, <1>3 DEF OneWriter, KeepsOrStops, NoInode

-----------------------------------------------------------------------------
\* SharedTypeOK in parts.
UpType ==
  /\ up \in [Users -> Seq(msg_head_ctrl_t)]
  /\ \A u \in Users : Len(up[u]) <= Capacity
DownType ==
  /\ down \in [Users -> Seq(msg_head_ctrl_t)]
  /\ \A u \in Users : Len(down[u]) <= Capacity
LeftType == left \in [Users -> Nat]

Proc(pcs, n) ==
  [pc : pcs, cmd : command_type_t, name : Text, off : Nat, fd : 0 .. n]
ClientType == cl \in [Users -> Proc(ClientPc, Len(ino))]
ServType   == sv \in [Users -> Proc(ServPc, Len(ino))]

LEMMA TypeParts ==
  SharedTypeOK <=> /\ FilesType /\ UpType /\ DownType /\ LeftType
                   /\ ClientType /\ ServType
BY DEF SharedTypeOK, FilesType, UpType, DownType, LeftType, ClientType,
       ServType, Process, Proc

\* A descriptor stays valid while inodes are added.
LEMMA MoreInodes ==
  ASSUME NEW n \in Nat, NEW k \in Nat, n <= k, NEW pcs
  PROVE  Proc(pcs, n) \subseteq Proc(pcs, k)
BY DEF Proc

LEMMA AtType ==
  ASSUME NEW pcs, NEW pc \in pcs, NEW c \in command_type_t, NEW n \in Text,
         NEW k \in Nat
  PROVE  /\ At(pc, c, n) \in Proc(pcs, k)
         /\ At(pc, c, n).pc = pc /\ At(pc, c, n).name = n
         /\ At(pc, c, n).fd = NoInode
BY DEF At, Proc, NoInode

LEMMA MainType ==
  ASSUME NEW k \in Nat
  PROVE  /\ Main \in Proc(ClientPc, k) /\ Main.pc = "main"
         /\ Select \in Proc(ServPc, k) /\ Select.pc = "select"
<1>1. ZeroCommand \in command_type_t /\ EmptyName \in Text
  BY DEF ZeroCommand, command_type_t, Text
<1>2. "main" \in ClientPc /\ "select" \in ServPc
  BY DEF ClientPc, ServPc
<1>3. QED
  BY <1>1, <1>2, AtType DEF Main, Select

\* One process moves; the others are where they were.
LEMMA ClientMoves ==
  ASSUME ClientType, Len(ino) \in Nat, Len(ino') \in Nat, Len(ino) <= Len(ino'),
         NEW u \in Users, NEW x \in Proc(ClientPc, Len(ino')),
         cl' = [cl EXCEPT ![u] = x]
  PROVE  ClientType' /\ cl'[u] = x /\ \A v \in Users \ {u} : cl'[v] = cl[v]
<1>1. cl'[u] = x /\ \A v \in Users \ {u} : cl'[v] = cl[v]
  BY DEF ClientType
<1>2. Proc(ClientPc, Len(ino)) \subseteq Proc(ClientPc, Len(ino'))
  BY MoreInodes
<1>3. cl \in [Users -> Proc(ClientPc, Len(ino'))]
  BY <1>2 DEF ClientType
<1>4. QED
  BY <1>1, <1>3 DEF ClientType

LEMMA ServMoves ==
  ASSUME ServType, Len(ino) \in Nat, Len(ino') \in Nat, Len(ino) <= Len(ino'),
         NEW u \in Users, NEW x \in Proc(ServPc, Len(ino')),
         sv' = [sv EXCEPT ![u] = x]
  PROVE  ServType' /\ sv'[u] = x /\ \A v \in Users \ {u} : sv'[v] = sv[v]
<1>1. sv'[u] = x /\ \A v \in Users \ {u} : sv'[v] = sv[v]
  BY DEF ServType
<1>2. Proc(ServPc, Len(ino)) \subseteq Proc(ServPc, Len(ino'))
  BY MoreInodes
<1>3. sv \in [Users -> Proc(ServPc, Len(ino'))]
  BY <1>2 DEF ServType
<1>4. QED
  BY <1>1, <1>3 DEF ServType

LEMMA OthersWait ==
  ASSUME ClientType, ServType, Len(ino) \in Nat, Len(ino') \in Nat,
         Len(ino) <= Len(ino')
  PROVE  (cl' = cl => ClientType') /\ (sv' = sv => ServType')
<1>1. /\ Proc(ClientPc, Len(ino)) \subseteq Proc(ClientPc, Len(ino'))
      /\ Proc(ServPc, Len(ino)) \subseteq Proc(ServPc, Len(ino'))
  BY MoreInodes
<1>2. QED
  BY <1>1 DEF ClientType, ServType

\* Requests and blocks go up, answers come down.
LEMMA Sends ==
  ASSUME UpType, GetNames, NEW u \in Users, NEW m \in msg_head_ctrl_t,
         m.command = "GET" => m.name \in Names,
         ToServer(u, m)
  PROVE  UpType' /\ GetNames'
<1>1. /\ up[u] \in Seq(msg_head_ctrl_t) /\ Len(up[u]) < Capacity
      /\ up'[u] = Append(up[u], m)
      /\ \A v \in Users \ {u} : up'[v] = up[v]
      /\ DOMAIN up' = Users
  BY DEF UpType, ToServer
<1>2. /\ up'[u] \in Seq(msg_head_ctrl_t) /\ Len(up'[u]) <= Capacity
      /\ \A i \in DOMAIN up'[u] :
           (i \in DOMAIN up[u] /\ up'[u][i] = up[u][i]) \/ up'[u][i] = m
  BY <1>1, AddLast
<1>3. UpType'
  BY <1>1, <1>2 DEF UpType, ToServer
<1>4. ASSUME NEW v \in Users, NEW i \in DOMAIN up'[v], up'[v][i].command = "GET"
      PROVE  up'[v][i].name \in Names
  <2>1. CASE v = u
    <3>1. CASE up'[u][i] = m
      BY <1>4, <2>1, <3>1
    <3>2. CASE i \in DOMAIN up[u] /\ up'[u][i] = up[u][i]
      BY <1>4, <2>1, <3>2 DEF GetNames
    <3>3. QED
      BY <1>2, <2>1, <3>1, <3>2
  <2>2. CASE v # u
    BY <1>1, <1>4, <2>2 DEF GetNames
  <2>3. QED
    BY <2>1, <2>2
<1>5. GetNames'
  BY <1>4 DEF GetNames
<1>6. QED
  BY <1>3, <1>5

LEMMA Takes ==
  ASSUME UpType, GetNames, NEW u \in Users, up[u] # << >>,
         up' = [up EXCEPT ![u] = Tail(@)]
  PROVE  /\ UpType' /\ GetNames'
         /\ Head(up[u]) \in msg_head_ctrl_t
         /\ Head(up[u]).command = "GET" => Head(up[u]).name \in Names
<1>1. /\ up[u] \in Seq(msg_head_ctrl_t) /\ Len(up[u]) <= Capacity
      /\ up'[u] = Tail(up[u])
      /\ \A v \in Users \ {u} : up'[v] = up[v]
  BY DEF UpType
<1>2. /\ Head(up[u]) \in msg_head_ctrl_t
      /\ 1 \in DOMAIN up[u] /\ Head(up[u]) = up[u][1]
      /\ up'[u] \in Seq(msg_head_ctrl_t) /\ Len(up'[u]) = Len(up[u]) - 1
      /\ \A i \in DOMAIN up'[u] : i + 1 \in DOMAIN up[u] /\ up'[u][i] = up[u][i + 1]
  <2>1. /\ Head(up[u]) \in msg_head_ctrl_t
        /\ 1 \in DOMAIN up[u] /\ Head(up[u]) = up[u][1]
        /\ Tail(up[u]) \in Seq(msg_head_ctrl_t)
        /\ Len(Tail(up[u])) = Len(up[u]) - 1
        /\ \A i \in DOMAIN Tail(up[u]) :
             i + 1 \in DOMAIN up[u] /\ Tail(up[u])[i] = up[u][i + 1]
    BY <1>1, TakeFirst
  <2>2. QED
    BY <1>1, <2>1
<1>3. Len(up'[u]) <= Capacity
  <2>1. Len(up[u]) \in Nat /\ Capacity \in Nat
    BY <1>1, SharedAssumption
  <2>2. QED
    BY <1>1, <1>2, <2>1
<1>4. UpType'
  BY <1>1, <1>2, <1>3 DEF UpType
<1>5. GetNames'
  BY <1>1, <1>2 DEF GetNames
<1>6. QED
  BY <1>2, <1>4, <1>5 DEF GetNames

LEMMA Answers ==
  ASSUME DownType, NEW u \in Users
  PROVE  /\ \A m \in msg_head_ctrl_t : ToClient(u, m) => DownType'
         /\ down[u] # << >> /\ Consumed(u) =>
              DownType' /\ Head(down[u]) \in msg_head_ctrl_t
<1>1. down[u] \in Seq(msg_head_ctrl_t) /\ Len(down[u]) <= Capacity
  BY DEF DownType
<1>2. ASSUME NEW m \in msg_head_ctrl_t, ToClient(u, m) PROVE DownType'
  <2>1. /\ Append(down[u], m) \in Seq(msg_head_ctrl_t)
        /\ Len(Append(down[u], m)) <= Capacity
    BY <1>1, <1>2, AddLast DEF ToClient
  <2>2. QED
    BY <1>2, <2>1 DEF ToClient, DownType
<1>3. ASSUME down[u] # << >>, Consumed(u)
      PROVE  DownType' /\ Head(down[u]) \in msg_head_ctrl_t
  <2>1. /\ Head(down[u]) \in msg_head_ctrl_t
        /\ Tail(down[u]) \in Seq(msg_head_ctrl_t)
        /\ Len(Tail(down[u])) = Len(down[u]) - 1
    BY <1>1, <1>3, TakeFirst
  <2>2. Len(Tail(down[u])) <= Capacity
    BY <1>1, <2>1, SharedAssumption
  <2>3. QED
    BY <1>3, <2>1, <2>2 DEF Consumed, DownType
<1>4. QED
  BY <1>2, <1>3

-----------------------------------------------------------------------------
\* What the invariant says of the state a step starts from, and what is to be
\* shown of the state it leads to.
LEMMA Known ==
  ASSUME SharedInv
  PROVE  /\ FilesType /\ UpType /\ DownType /\ LeftType /\ ClientType /\ ServType
         /\ ClientNames /\ ServNames /\ GetNames /\ OneWriter
         /\ Len(ino) \in Nat /\ Len(Initial) \in Nat /\ Len(Initial) <= Len(ino)
BY TypeParts, InitialAssumption DEF SharedInv, FilesType

LEMMA Shown ==
  ASSUME FilesType', UpType', DownType', LeftType', ClientType', ServType',
         ClientNames', ServNames', GetNames', OneWriter',
         Len(Initial) <= Len(ino')
  PROVE  SharedInv'
<1>1. SharedTypeOK'
  BY DEF SharedTypeOK, FilesType, UpType, DownType, LeftType,
         ClientType, ServType, Process, Proc
<1>2. QED
  BY <1>1 DEF SharedInv

\* The client of u moves to x and no child moves.
LEMMA ClientAlone ==
  ASSUME SharedInv, FilesType', Len(ino) <= Len(ino'),
         NEW u \in Users, NEW x \in Proc(ClientPc, Len(ino')),
         cl' = [cl EXCEPT ![u] = x], sv' = sv,
         x.pc # "main" => x.name \in Names,
         x.pc = "send" => x.fd = NoInode
  PROVE  /\ ClientType' /\ ServType' /\ ClientNames' /\ ServNames'
         /\ cl'[u] = x
         /\ \A v \in Users \ {u} : KeepsOrStops(v)
         /\ ServWrites(u)' = ServWrites(u)
         /\ Len(Initial) <= Len(ino')
         /\ (x.pc = "get" => x.fd \in {ClientWrites(u), NoInode}) => OneWriter'
<1>1. Len(ino) \in Nat /\ Len(ino') \in Nat
  BY Known DEF FilesType
<1>2. ClientType' /\ cl'[u] = x /\ \A v \in Users \ {u} : cl'[v] = cl[v]
  BY <1>1, Known, ClientMoves
<1>3. ServType'
  BY <1>1, Known, OthersWait
<1>4. ClientNames' /\ ServNames'
  BY <1>2, Known DEF ClientNames, ServNames
<1>5. /\ \A v \in Users \ {u} : KeepsOrStops(v)
      /\ ServWrites(u)' = ServWrites(u)
  BY <1>2 DEF KeepsOrStops, ServWrites, ClientWrites
<1>6. ASSUME x.pc = "get" => x.fd \in {ClientWrites(u), NoInode}
      PROVE  OneWriter'
  <2>1. KeepsOrStops(u)
    BY <1>2, <1>5, <1>6 DEF KeepsOrStops, ClientWrites
  <2>2. QED
    BY <1>5, <2>1, Known, NobodyStarts
<1>7. Len(Initial) <= Len(ino')
  BY <1>1, Known
<1>8. QED
  BY <1>2, <1>3, <1>4, <1>5, <1>6, <1>7

\* The child of u moves to x and no client moves.
LEMMA ChildAlone ==
  ASSUME SharedInv, FilesType', Len(ino) <= Len(ino'),
         NEW u \in Users, NEW x \in Proc(ServPc, Len(ino')),
         sv' = [sv EXCEPT ![u] = x], cl' = cl,
         x.pc = "open" => x.name \in Names,
         x.pc = "get" => x.fd # NoInode
  PROVE  /\ ClientType' /\ ServType' /\ ClientNames' /\ ServNames'
         /\ sv'[u] = x
         /\ \A v \in Users \ {u} : KeepsOrStops(v)
         /\ ClientWrites(u)' = ClientWrites(u)
         /\ Len(Initial) <= Len(ino')
         /\ (x.pc = "put" => x.fd \in {ServWrites(u), NoInode}) => OneWriter'
<1>1. Len(ino) \in Nat /\ Len(ino') \in Nat
  BY Known DEF FilesType
<1>2. ServType' /\ sv'[u] = x /\ \A v \in Users \ {u} : sv'[v] = sv[v]
  BY <1>1, Known, ServMoves
<1>3. ClientType'
  BY <1>1, Known, OthersWait
<1>4. ClientNames' /\ ServNames'
  BY <1>2, Known DEF ClientNames, ServNames
<1>5. /\ \A v \in Users \ {u} : KeepsOrStops(v)
      /\ ClientWrites(u)' = ClientWrites(u)
  BY <1>2 DEF KeepsOrStops, ServWrites, ClientWrites
<1>6. ASSUME x.pc = "put" => x.fd \in {ServWrites(u), NoInode}
      PROVE  OneWriter'
  <2>1. KeepsOrStops(u)
    BY <1>2, <1>5, <1>6 DEF KeepsOrStops, ServWrites
  <2>2. QED
    BY <1>5, <2>1, Known, NobodyStarts
<1>7. Len(Initial) <= Len(ino')
  BY <1>1, Known
<1>8. QED
  BY <1>2, <1>3, <1>4, <1>5, <1>6, <1>7

-----------------------------------------------------------------------------
LEMMA Untouched ==
  ASSUME FilesType, UNCHANGED files
  PROVE  FilesType' /\ Len(ino') = Len(ino) /\ ino' = ino /\ dir' = dir
BY DEF files, FilesType

\* The fields of a process.
LEMMA ProcFields ==
  ASSUME NEW pcs, NEW k \in Nat, NEW x \in Proc(pcs, k)
  PROVE  /\ x.pc \in pcs /\ x.cmd \in command_type_t /\ x.name \in Text
         /\ x.off \in Nat /\ x.fd \in 0 .. k
         /\ \A pc \in pcs : [x EXCEPT !.pc = pc] \in Proc(pcs, k)
         /\ \A pc \in pcs, fd \in 0 .. k :
              [x EXCEPT !.pc = pc, !.fd = fd] \in Proc(pcs, k)
         /\ \A off \in Nat : [x EXCEPT !.off = off] \in Proc(pcs, k)
         /\ \A fd \in 0 .. k : [x EXCEPT !.fd = fd] \in Proc(pcs, k)
BY DEF Proc

LEMMA Here ==
  ASSUME SharedInv, NEW u \in Users
  PROVE  /\ cl[u] \in Proc(ClientPc, Len(ino))
         /\ sv[u] \in Proc(ServPc, Len(ino))
BY Known DEF ClientType, ServType

LEMMA ClientInput ==
  ASSUME SharedInv, NEW u \in Users, NEW c \in {"PUT", "GET", "RM"},
         NEW n \in Names, handle_user_input(u, c, n)
  PROVE  SharedInv'
<1>1. /\ FilesType' /\ Len(ino') = Len(ino) /\ Len(ino) \in Nat
      /\ Len(ino) <= Len(ino')
  BY Known, Untouched DEF handle_user_input
<1>2. c \in command_type_t /\ n \in Text /\ "send" \in ClientPc
  BY DEF command_type_t, Text, ClientPc
<1>3. PICK x : x = At("send", c, n)
  OBVIOUS
<1>4. x \in Proc(ClientPc, Len(ino')) /\ x.pc = "send" /\ x.name = n
      /\ x.fd = NoInode
  BY <1>1, <1>2, <1>3, AtType
<1>5. cl' = [cl EXCEPT ![u] = x] /\ sv' = sv
  BY <1>3 DEF handle_user_input
<1>6. /\ ClientType' /\ ServType' /\ ClientNames' /\ ServNames' /\ OneWriter'
      /\ Len(Initial) <= Len(ino')
  BY <1>1, <1>4, <1>5, ClientAlone
<1>7. left[u] \in Nat /\ left[u] > 0
  BY Known DEF LeftType, handle_user_input
<1>8. LeftType'
  BY <1>7, Known DEF LeftType, handle_user_input
<1>9. UpType' /\ DownType' /\ GetNames'
  BY Known DEF handle_user_input, UpType, DownType, GetNames
<1>10. QED
  BY <1>1, <1>6, <1>8, <1>9, Shown

LEMMA ClientRequest ==
  ASSUME SharedInv, NEW u \in Users, send_command_to_server(u)
  PROVE  SharedInv'
<1>1. /\ FilesType' /\ Len(ino') = Len(ino) /\ Len(ino) \in Nat
      /\ Len(ino) <= Len(ino')
  BY Known, Untouched DEF send_command_to_server
<1>2. /\ cl[u] \in Proc(ClientPc, Len(ino)) /\ cl[u].cmd \in command_type_t
      /\ cl[u].name \in Names /\ cl[u].pc = "send" /\ cl[u].fd = NoInode
  BY <1>1, Here, ProcFields, Known DEF send_command_to_server, ClientNames
<1>3. dir[Mine(u)] \in 0 .. Len(ino)
  <2>1. Mine(u) \in Places \X Names
    BY <1>2 DEF Mine, Places
  <2>2. QED
    BY <2>1, Known DEF FilesType
<1>4. NoInode \in 0 .. Len(ino) /\ {"main", "put", "get"} \subseteq ClientPc
  BY <1>1 DEF NoInode, ClientPc
<1>5. PICK x : x = CASE cl[u].cmd = "PUT" ->
                          [cl[u] EXCEPT !.pc = "put", !.fd = dir[Mine(u)]]
                     [] cl[u].cmd = "GET" -> [cl[u] EXCEPT !.pc = "get"]
                     [] OTHER             -> Main
  OBVIOUS
<1>6. cl' = [cl EXCEPT ![u] = x] /\ sv' = sv
  BY <1>5 DEF send_command_to_server
<1>7. /\ x \in Proc(ClientPc, Len(ino'))
      /\ x.pc # "main" => x.name \in Names
      /\ x.pc # "send" /\ (x.pc = "get" => x.fd = NoInode)
  <2>1. CASE cl[u].cmd = "PUT"
    <3>1. x = [cl[u] EXCEPT !.pc = "put", !.fd = dir[Mine(u)]]
      BY <1>5, <2>1
    <3>2. x \in Proc(ClientPc, Len(ino))
      BY <1>1, <1>2, <1>3, <1>4, <3>1, ProcFields
    <3>3. x.pc = "put" /\ x.name = cl[u].name
      BY <1>2, <3>1 DEF Proc
    <3>4. QED
      BY <1>1, <1>2, <3>2, <3>3
  <2>2. CASE cl[u].cmd = "GET"
    <3>1. x = [cl[u] EXCEPT !.pc = "get"]
      BY <1>5, <2>2
    <3>2. x \in Proc(ClientPc, Len(ino))
      BY <1>1, <1>2, <1>4, <3>1, ProcFields
    <3>3. x.name = cl[u].name /\ x.fd = cl[u].fd /\ x.pc = "get"
      BY <1>2, <3>1 DEF Proc
    <3>4. QED
      BY <1>1, <1>2, <3>2, <3>3
  <2>3. CASE cl[u].cmd # "PUT" /\ cl[u].cmd # "GET"
    <3>1. x = Main
      BY <1>5, <2>3
    <3>2. QED
      BY <1>1, <3>1, MainType
  <2>4. QED
    BY <2>1, <2>2, <2>3
<1>8. /\ ClientType' /\ ServType' /\ ClientNames' /\ ServNames' /\ OneWriter'
      /\ Len(Initial) <= Len(ino')
  BY <1>1, <1>6, <1>7, ClientAlone
<1>9. UpType' /\ GetNames'
  <2>1. /\ Request(cl[u].cmd, cl[u].name) \in msg_head_ctrl_t
        /\ Request(cl[u].cmd, cl[u].name).name = cl[u].name
    BY <1>2, RequestType DEF Text
  <2>2. ToServer(u, Request(cl[u].cmd, cl[u].name))
    BY DEF send_command_to_server
  <2>3. QED
    BY <1>2, <2>1, <2>2, Known, Sends
<1>10. LeftType' /\ DownType'
  BY Known DEF send_command_to_server, LeftType, DownType
<1>11. QED
  BY <1>1, <1>8, <1>9, <1>10, Shown

LEMMA ClientPut ==
  ASSUME SharedInv, NEW u \in Users, put_file_to_server(u)
  PROVE  SharedInv'
<1>1. /\ FilesType' /\ Len(ino') = Len(ino) /\ Len(ino) \in Nat
      /\ Len(ino) <= Len(ino')
  BY Known, Untouched DEF put_file_to_server
<1>2. /\ cl[u] \in Proc(ClientPc, Len(ino)) /\ cl[u].off \in Nat
      /\ cl[u].fd \in 0 .. Len(ino)
      /\ cl[u].name \in Names /\ cl[u].pc = "put"
  BY <1>1, Here, ProcFields, Known DEF put_file_to_server, ClientNames
<1>3. PICK m : m = IF cl[u].fd = NoInode THEN Block("ERROR_FILE", << >>)
                   ELSE FileFrame(BlockOf(cl[u].fd, cl[u].off), ZeroCommand)
  OBVIOUS
<1>4. /\ m \in msg_head_ctrl_t /\ m.command # "GET"
      /\ m.data \in Seq(Byte)
  <2>1. CASE cl[u].fd = NoInode
    <3>1. "ERROR_FILE" \in command_type_t /\ << >> \in Seq(Byte)
      BY DEF command_type_t
    <3>2. QED
      BY <1>3, <2>1, <3>1, BlockFrameType
  <2>2. CASE cl[u].fd # NoInode
    <3>1. ino[cl[u].fd] \in Seq(Byte)
      BY <1>1, <1>2, <2>2, Known DEF FilesType, NoInode
    <3>2. BlockOf(cl[u].fd, cl[u].off) \in Seq(Byte)
      BY <1>2, <3>1, BlockType DEF BlockOf
    <3>3. ZeroCommand \in command_type_t /\ ZeroCommand # "GET"
      BY DEF ZeroCommand, command_type_t
    <3>4. QED
      BY <1>3, <2>2, <3>2, <3>3, FileFrameType
  <2>3. QED
    BY <2>1, <2>2
<1>5. PICK x : x = IF Ends(m) THEN Main
                   ELSE [cl[u] EXCEPT !.off = cl[u].off + Len(m.data)]
  OBVIOUS
<1>6. cl' = [cl EXCEPT ![u] = x] /\ sv' = sv /\ ToServer(u, m)
  BY <1>3, <1>5 DEF put_file_to_server
<1>7. /\ x \in Proc(ClientPc, Len(ino'))
      /\ x.pc # "main" => x.name \in Names
      /\ x.pc # "send" /\ x.pc # "get"
  <2>1. CASE Ends(m)
    BY <1>1, <1>5, <2>1, MainType
  <2>2. CASE ~Ends(m)
    <3>1. x = [cl[u] EXCEPT !.off = cl[u].off + Len(m.data)]
      BY <1>5, <2>2
    <3>2. cl[u].off + Len(m.data) \in Nat
      BY <1>2, <1>4
    <3>3. x \in Proc(ClientPc, Len(ino))
      BY <1>1, <1>2, <3>1, <3>2, ProcFields
    <3>4. x.pc = "put" /\ x.name = cl[u].name
      BY <1>2, <3>1 DEF Proc
    <3>5. QED
      BY <1>1, <1>2, <3>3, <3>4
  <2>3. QED
    BY <2>1, <2>2
<1>8. /\ ClientType' /\ ServType' /\ ClientNames' /\ ServNames' /\ OneWriter'
      /\ Len(Initial) <= Len(ino')
  BY <1>1, <1>6, <1>7, ClientAlone
<1>9. UpType' /\ GetNames'
  BY <1>4, <1>6, Known, Sends
<1>10. LeftType' /\ DownType'
  BY Known DEF put_file_to_server, LeftType, DownType
<1>11. QED
  BY <1>1, <1>8, <1>9, <1>10, Shown

LEMMA ClientAck ==
  ASSUME SharedInv, NEW u \in Users, handle_server_ack(u)
  PROVE  SharedInv'
<1>1. /\ FilesType' /\ Len(ino') = Len(ino) /\ Len(ino) \in Nat
      /\ Len(ino) <= Len(ino')
  BY Known, Untouched DEF handle_server_ack
<1>2. cl' = cl /\ sv' = sv /\ ino' = ino
  BY Untouched, Known DEF handle_server_ack
<1>3. DownType'
  BY Known, Answers DEF handle_server_ack, Consumed
<1>4. ClientType' /\ ServType' /\ ClientNames' /\ ServNames'
  BY <1>1, <1>2, Known, OthersWait DEF ClientNames, ServNames
<1>5. OneWriter'
  BY <1>2, Known DEF OneWriter, ServWrites, ClientWrites
<1>6. UpType' /\ LeftType' /\ GetNames'
  BY Known DEF handle_server_ack, UpType, LeftType, GetNames
<1>7. QED
  BY <1>1, <1>3, <1>4, <1>5, <1>6, Known, Shown

LEMMA ClientGetFails ==
  ASSUME SharedInv, NEW u \in Users, get_fails(u)
  PROVE  SharedInv'
<1>1. /\ FilesType' /\ Len(ino') = Len(ino) /\ Len(ino) \in Nat
      /\ Len(ino) <= Len(ino')
  BY Known, Untouched DEF get_fails
<1>2. /\ cl[u] \in Proc(ClientPc, Len(ino)) /\ cl[u].name \in Names
  BY Here, Known DEF get_fails, Answered, ClientNames
<1>3. PICK x : x = [cl[u] EXCEPT !.pc = "unlink"]
  OBVIOUS
<1>4. /\ ClientType' /\ ServType' /\ ClientNames' /\ ServNames' /\ OneWriter'
      /\ Len(Initial) <= Len(ino')
  <2>1. cl' = [cl EXCEPT ![u] = x] /\ sv' = sv
    BY <1>3 DEF get_fails
  <2>2. x \in Proc(ClientPc, Len(ino')) /\ x.pc = "unlink" /\ x.name \in Names
    BY <1>1, <1>2, <1>3 DEF Proc, ClientPc
  <2>3. QED
    BY <1>1, <2>1, <2>2, ClientAlone
<1>5. DownType'
  BY Known, Answers DEF get_fails, Answered
<1>6. UpType' /\ LeftType' /\ GetNames'
  BY Known DEF get_fails, UpType, LeftType, GetNames
<1>7. QED
  BY <1>1, <1>4, <1>5, <1>6, Shown

LEMMA ClientGetUnlinks ==
  ASSUME SharedInv, NEW u \in Users, get_unlinks(u)
  PROVE  SharedInv'
<1>1. /\ FilesType' /\ Len(ino') = Len(ino) /\ Len(ino) \in Nat
      /\ Len(ino) <= Len(ino')
  BY Known, RemoveFiles DEF get_unlinks
<1>2. Main \in Proc(ClientPc, Len(ino')) /\ Main.pc = "main"
  BY <1>1, MainType
<1>3. cl' = [cl EXCEPT ![u] = Main] /\ sv' = sv
  BY DEF get_unlinks
<1>4. /\ ClientType' /\ ServType' /\ ClientNames' /\ ServNames' /\ OneWriter'
      /\ Len(Initial) <= Len(ino')
  BY <1>1, <1>2, <1>3, ClientAlone
<1>5. UpType' /\ DownType' /\ LeftType' /\ GetNames'
  BY Known DEF get_unlinks, UpType, DownType, LeftType, GetNames
<1>6. QED
  BY <1>1, <1>4, <1>5, Shown

LEMMA ClientGetCreates ==
  ASSUME SharedInv, NEW u \in Users, get_creates(u)
  PROVE  SharedInv'
<1>1. /\ FilesType' /\ Len(ino') = Len(ino) + 1 /\ Len(ino) \in Nat
      /\ Len(ino) <= Len(ino')
  BY Known, CreateFiles DEF get_creates
<1>2. /\ cl[u] \in Proc(ClientPc, Len(ino)) /\ cl[u].pc = "get"
      /\ cl[u].name \in Names
  BY Here, Known DEF get_creates, Answered, ClientNames
<1>3. PICK x : x = [cl[u] EXCEPT !.fd = NewInode]
  OBVIOUS
<1>4. cl' = [cl EXCEPT ![u] = x] /\ sv' = sv
  BY <1>3 DEF get_creates
<1>5. NewInode \in 0 .. Len(ino') /\ NewInode = Len(ino) + 1
  BY <1>1 DEF NewInode
<1>6. cl[u] \in Proc(ClientPc, Len(ino'))
  BY <1>1, <1>2, MoreInodes
<1>7. Len(ino') \in Nat
  BY <1>1
<1>8. /\ x \in Proc(ClientPc, Len(ino')) /\ x.pc = "get"
      /\ x.name \in Names /\ x.fd = NewInode
  BY <1>2, <1>3, <1>5, <1>6, <1>7 DEF Proc
<1>9. /\ ClientType' /\ ServType' /\ ClientNames' /\ ServNames'
      /\ cl'[u] = x
      /\ \A v \in Users \ {u} : KeepsOrStops(v)
      /\ ServWrites(u)' = ServWrites(u)
      /\ Len(Initial) <= Len(ino')
  BY <1>1, <1>4, <1>8, ClientAlone
<1>10. ClientWrites(u)' = Len(ino) + 1
  BY <1>5, <1>8, <1>9 DEF ClientWrites
<1>11. OneWriter'
  BY <1>9, <1>10, ClientStarts
<1>12. UpType' /\ DownType' /\ LeftType' /\ GetNames'
  BY Known DEF get_creates, UpType, DownType, LeftType, GetNames
<1>13. QED
  BY <1>1, <1>9, <1>11, <1>12, Shown

LEMMA ClientGets ==
  ASSUME SharedInv, NEW u \in Users, get_file_from_server(u)
  PROVE  SharedInv'
<1>1. /\ DownType' /\ Head(down[u]) \in msg_head_ctrl_t
      /\ cl[u].pc = "get" /\ cl[u].fd # NoInode
  BY Known, Answers DEF get_file_from_server, Answered
<1>2. /\ cl[u] \in Proc(ClientPc, Len(ino)) /\ cl[u].name \in Names
      /\ cl[u].fd \in 1 .. Len(ino)
  BY <1>1, Here, Known DEF ClientNames, Proc, NoInode
<1>3. Head(down[u]).data \in Seq(Byte)
  BY <1>1, FrameFields
<1>4. /\ FilesType' /\ Len(ino') = Len(ino) /\ Len(ino) \in Nat
      /\ Len(ino) <= Len(ino')
  BY <1>2, <1>3, Known, WriteFiles DEF get_file_from_server
<1>5. PICK x : x = IF Ends(Head(down[u])) THEN Main ELSE cl[u]
  OBVIOUS
<1>6. cl' = [cl EXCEPT ![u] = x] /\ sv' = sv
  BY <1>5 DEF get_file_from_server
<1>7. /\ x \in Proc(ClientPc, Len(ino'))
      /\ x.pc # "main" => x.name \in Names
      /\ x.pc # "send"
      /\ x.pc = "get" => x.fd \in {ClientWrites(u), NoInode}
  <2>1. CASE Ends(Head(down[u]))
    BY <1>4, <1>5, <2>1, MainType
  <2>2. CASE ~Ends(Head(down[u]))
    BY <1>1, <1>2, <1>4, <1>5, <2>2 DEF ClientWrites
  <2>3. QED
    BY <2>1, <2>2
<1>8. /\ ClientType' /\ ServType' /\ ClientNames' /\ ServNames' /\ OneWriter'
      /\ Len(Initial) <= Len(ino')
  BY <1>4, <1>6, <1>7, ClientAlone
<1>9. UpType' /\ LeftType' /\ GetNames'
  BY Known DEF get_file_from_server, UpType, LeftType, GetNames
<1>10. QED
  BY <1>1, <1>4, <1>8, <1>9, Shown

-----------------------------------------------------------------------------
\* A child takes a request from its client.
LEMMA Request1 ==
  ASSUME SharedInv, NEW u \in Users, NEW S, Requested(u, S)
  PROVE  /\ UpType' /\ GetNames' /\ DownType' /\ LeftType' /\ cl' = cl
         /\ Head(up[u]) \in msg_head_ctrl_t
         /\ Head(up[u]).name \in Text
         /\ Head(up[u]).command \in S
         /\ Head(up[u]).command = "GET" => Head(up[u]).name \in Names
<1>1. /\ UpType' /\ GetNames' /\ Head(up[u]) \in msg_head_ctrl_t
      /\ Head(up[u]).command = "GET" => Head(up[u]).name \in Names
  BY Known, Takes DEF Requested
<1>2. DownType' /\ LeftType' /\ cl' = cl
  BY Known DEF Requested, DownType, LeftType
<1>3. QED
  BY <1>1, <1>2, FrameFields DEF Requested

LEMMA ChildRequestPut ==
  ASSUME SharedInv, NEW u \in Users, handle_request_put(u)
  PROVE  SharedInv'
<1>1. /\ FilesType' /\ Len(ino') = Len(ino) /\ Len(ino) \in Nat
      /\ Len(ino) <= Len(ino')
  BY Known, Untouched DEF handle_request_put
<1>2. /\ UpType' /\ GetNames' /\ DownType' /\ LeftType' /\ cl' = cl
      /\ Head(up[u]).name \in Text /\ sv[u].pc = "select"
  BY Request1 DEF handle_request_put, Requested
<1>3. PICK n \in NamesIn(Head(up[u])) : sv' = [sv EXCEPT ![u] = At("put", "PUT", n)]
  BY DEF handle_request_put
<1>4. n \in Text
  BY <1>2, ProtocolAssumption DEF NamesIn, Text
<1>5. /\ At("put", "PUT", n) \in Proc(ServPc, Len(ino'))
      /\ At("put", "PUT", n).pc = "put" /\ At("put", "PUT", n).fd = NoInode
  <2>1. "PUT" \in command_type_t /\ "put" \in ServPc
    BY DEF command_type_t, ServPc
  <2>2. QED
    BY <1>1, <1>4, <2>1, AtType
<1>6. /\ ClientType' /\ ServType' /\ ClientNames' /\ ServNames' /\ OneWriter'
      /\ Len(Initial) <= Len(ino')
  BY <1>1, <1>2, <1>3, <1>5, ChildAlone
<1>7. QED
  BY <1>1, <1>2, <1>6, Shown

LEMMA ChildRequestDefault ==
  ASSUME SharedInv, NEW u \in Users, handle_request_default(u)
  PROVE  SharedInv'
<1>1. /\ FilesType' /\ Len(ino') = Len(ino) /\ Len(ino) \in Nat
      /\ Len(ino) <= Len(ino')
  BY Known, Untouched DEF handle_request_default
<1>2. /\ UpType' /\ GetNames' /\ DownType' /\ LeftType' /\ cl' = cl
  BY Request1 DEF handle_request_default
<1>3. sv' = sv /\ ino' = ino
  BY Untouched, Known DEF handle_request_default
<1>4. ClientType' /\ ServType' /\ ClientNames' /\ ServNames'
  BY <1>1, <1>2, <1>3, Known, OthersWait DEF ClientNames, ServNames
<1>5. OneWriter'
  BY <1>2, <1>3, Known DEF OneWriter, ServWrites, ClientWrites
<1>6. QED
  BY <1>1, <1>2, <1>4, <1>5, Known, Shown

LEMMA ChildRequestGet ==
  ASSUME SharedInv, NEW u \in Users, handle_request_get(u)
  PROVE  SharedInv'
<1>1. /\ FilesType' /\ Len(ino') = Len(ino) /\ Len(ino) \in Nat
      /\ Len(ino) <= Len(ino')
  BY Known, Untouched DEF handle_request_get
<1>2. /\ UpType' /\ GetNames' /\ DownType' /\ LeftType' /\ cl' = cl
      /\ Head(up[u]).name \in Text /\ Head(up[u]).name \in Names
  BY Request1 DEF handle_request_get
<1>3. PICK pc \in {"nofile", "open"} :
        sv' = [sv EXCEPT ![u] = At(pc, "GET", Head(up[u]).name)]
  BY DEF handle_request_get
<1>4. PICK x : x = At(pc, "GET", Head(up[u]).name)
  OBVIOUS
<1>5. sv' = [sv EXCEPT ![u] = x]
  BY <1>3, <1>4
<1>6. /\ x \in Proc(ServPc, Len(ino'))
      /\ x.name \in Names /\ x.pc \notin {"put", "get"}
  <2>1. "GET" \in command_type_t /\ pc \in ServPc
    BY DEF command_type_t, ServPc
  <2>2. Len(ino') \in Nat
    BY <1>1
  <2>3. x \in Proc(ServPc, Len(ino')) /\ x.pc = pc /\ x.name = Head(up[u]).name
    BY <1>2, <1>4, <2>1, <2>2, AtType
  <2>4. QED
    BY <1>2, <2>3
<1>7. /\ ClientType' /\ ServType' /\ ClientNames' /\ ServNames' /\ OneWriter'
      /\ Len(Initial) <= Len(ino')
  BY <1>1, <1>2, <1>5, <1>6, ChildAlone
<1>8. QED
  BY <1>1, <1>2, <1>7, Shown

LEMMA ChildRequestRm ==
  ASSUME SharedInv, NEW u \in Users, handle_request_rm(u)
  PROVE  SharedInv'
<1>1. /\ FilesType' /\ Len(ino') = Len(ino) /\ Len(ino) \in Nat
      /\ Len(ino) <= Len(ino')
  BY Known, RemoveFiles DEF handle_request_rm
<1>2. UpType' /\ GetNames' /\ DownType' /\ LeftType' /\ cl' = cl
  BY Request1 DEF handle_request_rm
<1>3. PICK x : x = At("pipe", "RM", EmptyName)
  OBVIOUS
<1>4. sv' = [sv EXCEPT ![u] = x]
  BY <1>3 DEF handle_request_rm
<1>5. x \in Proc(ServPc, Len(ino')) /\ x.pc = "pipe"
  <2>1. "RM" \in command_type_t /\ "pipe" \in ServPc /\ EmptyName \in Text
    BY DEF command_type_t, ServPc, Text
  <2>2. Len(ino') \in Nat
    BY <1>1
  <2>3. QED
    BY <1>3, <2>1, <2>2, AtType
<1>6. /\ ClientType' /\ ServType' /\ ClientNames' /\ ServNames' /\ OneWriter'
      /\ Len(Initial) <= Len(ino')
  BY <1>1, <1>2, <1>4, <1>5, ChildAlone
<1>7. QED
  BY <1>1, <1>2, <1>6, Shown

\* The steps that bring a child back to select, or leave it where it is.
LEMMA ChildRests ==
  ASSUME SharedInv, FilesType', Len(ino) <= Len(ino'), cl' = cl,
         NEW u \in Users, sv[u].pc # "open",
         sv' = [sv EXCEPT ![u] = Select] \/ sv' = [sv EXCEPT ![u] = sv[u]]
  PROVE  /\ ClientType' /\ ServType' /\ ClientNames' /\ ServNames' /\ OneWriter'
         /\ Len(Initial) <= Len(ino')
<1>1. Len(ino) \in Nat /\ Len(ino') \in Nat
  BY Known DEF FilesType
<1>2. PICK x \in {Select, sv[u]} : sv' = [sv EXCEPT ![u] = x]
  OBVIOUS
<1>3. CASE x = Select
  <2>1. x \in Proc(ServPc, Len(ino')) /\ x.pc = "select"
    BY <1>1, <1>3, MainType
  <2>2. QED
    BY <1>2, <2>1, ChildAlone
<1>4. CASE x = sv[u]
  <2>1. x \in Proc(ServPc, Len(ino'))
    BY <1>1, <1>4, Here, MoreInodes
  <2>2. /\ x.pc # "open" /\ (x.pc = "put" => x.fd = ServWrites(u))
        /\ x.pc = "get" => x.fd # NoInode
    BY <1>4, Known DEF ServWrites, ServNames
  <2>3. QED
    BY <1>2, <2>1, <2>2, ChildAlone
<1>5. QED
  BY <1>3, <1>4

LEMMA ChildAnswer ==
  ASSUME SharedInv, NEW u \in Users, handle_answer(u)
  PROVE  SharedInv'
<1>1. /\ FilesType' /\ Len(ino') = Len(ino) /\ Len(ino) \in Nat
      /\ Len(ino) <= Len(ino')
  BY Known, Untouched DEF handle_answer
<1>2. sv[u].name \in Text /\ {"RM", "NO_FILE"} \subseteq command_type_t
  BY <1>1, Here, ProcFields DEF command_type_t
<1>3. PICK c \in {"RM", "NO_FILE"} : ToClient(u, Request(c, sv[u].name))
  BY DEF handle_answer
<1>4. Request(c, sv[u].name) \in msg_head_ctrl_t
  BY <1>2, RequestType
<1>5. DownType'
  BY <1>3, <1>4, Known, Answers
<1>6. /\ ClientType' /\ ServType' /\ ClientNames' /\ ServNames' /\ OneWriter'
      /\ Len(Initial) <= Len(ino')
  BY <1>1, ChildRests DEF handle_answer
<1>7. UpType' /\ LeftType' /\ GetNames'
  BY Known DEF handle_answer, UpType, LeftType, GetNames
<1>8. QED
  BY <1>1, <1>5, <1>6, <1>7, Shown

LEMMA ChildPutCreates ==
  ASSUME SharedInv, NEW u \in Users, handle_put_creates(u)
  PROVE  SharedInv'
<1>1. Named(u) \in Places \X Names
  BY DEF handle_put_creates, Named, Places
<1>2. /\ FilesType' /\ Len(ino') = Len(ino) + 1 /\ Len(ino) \in Nat
      /\ Len(ino) <= Len(ino')
      /\ dir'[Named(u)] = NewInode
  BY <1>1, Known, CreateFiles DEF handle_put_creates
<1>3. sv[u] \in Proc(ServPc, Len(ino)) /\ sv[u].pc = "put"
  BY Here DEF handle_put_creates, Uploading
<1>4. PICK x : x = [sv[u] EXCEPT !.fd = NewInode]
  OBVIOUS
<1>5. sv' = [sv EXCEPT ![u] = x] /\ cl' = cl
  BY <1>2, <1>4 DEF handle_put_creates
<1>6. NewInode \in 0 .. Len(ino') /\ NewInode = Len(ino) + 1
  BY <1>2 DEF NewInode
<1>7. sv[u] \in Proc(ServPc, Len(ino'))
  BY <1>2, <1>3, MoreInodes
<1>8. x \in Proc(ServPc, Len(ino')) /\ x.pc = "put" /\ x.fd = NewInode
  BY <1>3, <1>4, <1>6, <1>7 DEF Proc
<1>9. /\ ClientType' /\ ServType' /\ ClientNames' /\ ServNames'
      /\ sv'[u] = x
      /\ \A v \in Users \ {u} : KeepsOrStops(v)
      /\ ClientWrites(u)' = ClientWrites(u)
      /\ Len(Initial) <= Len(ino')
  BY <1>2, <1>5, <1>8, ChildAlone
<1>10. ServWrites(u)' = Len(ino) + 1
  BY <1>6, <1>8, <1>9 DEF ServWrites
<1>11. OneWriter'
  BY <1>9, <1>10, ChildStarts
<1>12. UpType' /\ DownType' /\ LeftType' /\ GetNames'
  BY Known DEF handle_put_creates, UpType, DownType, LeftType, GetNames
<1>13. QED
  BY <1>2, <1>9, <1>11, <1>12, Shown

LEMMA ChildPutRefused ==
  ASSUME SharedInv, NEW u \in Users, handle_put_refused(u)
  PROVE  SharedInv'
<1>1. /\ FilesType' /\ Len(ino') = Len(ino) /\ Len(ino) \in Nat
      /\ Len(ino) <= Len(ino')
  BY Known, Untouched DEF handle_put_refused
<1>2. UpType' /\ GetNames'
  BY Known, Takes DEF handle_put_refused, Taken, Uploading
<1>3. DownType' /\ LeftType' /\ cl' = cl /\ sv[u].pc # "open"
  BY Known DEF handle_put_refused, DownType, LeftType, Uploading
<1>4. sv' = [sv EXCEPT ![u] = Select]
  BY DEF handle_put_refused
<1>5. /\ ClientType' /\ ServType' /\ ClientNames' /\ ServNames' /\ OneWriter'
      /\ Len(Initial) <= Len(ino')
  BY <1>1, <1>3, <1>4, ChildRests
<1>6. QED
  BY <1>1, <1>2, <1>3, <1>5, Shown

LEMMA ChildPut ==
  ASSUME SharedInv, NEW u \in Users, handle_put(u)
  PROVE  SharedInv'
<1>1. UpType' /\ GetNames' /\ Head(up[u]) \in msg_head_ctrl_t
  BY Known, Takes DEF handle_put, Taken, Uploading
<1>2. Head(up[u]).data \in Seq(Byte)
  BY <1>1, FrameFields
<1>3. sv[u].fd \in 1 .. Len(ino)
  BY Here DEF Proc, handle_put, NoInode
<1>4. /\ FilesType' /\ Len(ino') = Len(ino) /\ Len(ino) \in Nat
      /\ Len(ino) <= Len(ino')
  BY <1>2, <1>3, Known, WriteFiles DEF handle_put
<1>5. DownType' /\ LeftType' /\ cl' = cl /\ sv[u].pc # "open"
  BY Known DEF handle_put, DownType, LeftType, Uploading
<1>6. sv' = [sv EXCEPT ![u] = Select] \/ sv' = [sv EXCEPT ![u] = sv[u]]
  BY DEF handle_put
<1>7. /\ ClientType' /\ ServType' /\ ClientNames' /\ ServNames' /\ OneWriter'
      /\ Len(Initial) <= Len(ino')
  BY <1>4, <1>5, <1>6, ChildRests
<1>8. QED
  BY <1>1, <1>4, <1>5, <1>7, Shown

LEMMA ChildGetOpens ==
  ASSUME SharedInv, NEW u \in Users, handle_get_opens(u)
  PROVE  SharedInv'
<1>1. /\ FilesType' /\ Len(ino') = Len(ino) /\ Len(ino) \in Nat
      /\ Len(ino) <= Len(ino')
  BY Known, Untouched DEF handle_get_opens
<1>2. sv[u] \in Proc(ServPc, Len(ino)) /\ sv[u].name \in Names
  BY Here, Known DEF handle_get_opens, ServNames
<1>3. dir[Named(u)] \in 0 .. Len(ino)
  <2>1. Named(u) \in Places \X Names
    BY <1>2 DEF Named, Places
  <2>2. QED
    BY <2>1, Known DEF FilesType
<1>4. PICK x : x = IF Missing(Named(u)) THEN Select
                   ELSE [sv[u] EXCEPT !.pc = "get", !.fd = dir[Named(u)]]
  OBVIOUS
<1>5. sv' = [sv EXCEPT ![u] = x] /\ cl' = cl
  BY <1>4 DEF handle_get_opens
<1>6. /\ x \in Proc(ServPc, Len(ino')) /\ x.pc \in {"select", "get"}
      /\ x.pc = "get" => x.fd # NoInode
  <2>1. CASE Missing(Named(u))
    <3>1. x = Select
      BY <1>4, <2>1
    <3>2. QED
      BY <1>1, <3>1, MainType
  <2>2. CASE ~Missing(Named(u))
    <3>1. x = [sv[u] EXCEPT !.pc = "get", !.fd = dir[Named(u)]]
      BY <1>4, <2>2
    <3>2. "get" \in ServPc
      BY DEF ServPc
    <3>3. x \in Proc(ServPc, Len(ino))
      BY <1>1, <1>2, <1>3, <3>1, <3>2, ProcFields
    <3>4. x.pc = "get" /\ x.fd # NoInode
      BY <1>2, <2>2, <3>1 DEF Proc, Missing
    <3>5. QED
      BY <1>1, <3>3, <3>4
  <2>3. QED
    BY <2>1, <2>2
<1>7. /\ ClientType' /\ ServType' /\ ClientNames' /\ ServNames' /\ OneWriter'
      /\ Len(Initial) <= Len(ino')
  BY <1>1, <1>5, <1>6, ChildAlone
<1>8. UpType' /\ DownType' /\ LeftType' /\ GetNames'
  BY Known DEF handle_get_opens, UpType, DownType, LeftType, GetNames
<1>9. QED
  BY <1>1, <1>7, <1>8, Shown

LEMMA ChildGet ==
  ASSUME SharedInv, NEW u \in Users, handle_get(u)
  PROVE  SharedInv'
<1>1. /\ FilesType' /\ Len(ino') = Len(ino) /\ Len(ino) \in Nat
      /\ Len(ino) <= Len(ino')
  BY Known, Untouched DEF handle_get
<1>2. /\ sv[u] \in Proc(ServPc, Len(ino)) /\ sv[u].pc = "get"
      /\ sv[u].fd \in 1 .. Len(ino) /\ sv[u].off \in Nat
      /\ sv[u].cmd \in command_type_t
  <2>1. sv[u] \in Proc(ServPc, Len(ino)) /\ sv[u].pc = "get"
    BY Here DEF handle_get
  <2>2. /\ sv[u].fd \in 0 .. Len(ino) /\ sv[u].off \in Nat
        /\ sv[u].cmd \in command_type_t
    BY <1>1, <2>1, ProcFields
  <2>3. sv[u].fd # 0
    BY <2>1, Known DEF ServNames, NoInode
  <2>4. QED
    BY <1>1, <2>1, <2>2, <2>3
<1>3. PICK d : d = BlockOf(sv[u].fd, sv[u].off)
  OBVIOUS
<1>4. d \in Seq(Byte) /\ Len(d) \in Nat
  <2>1. ino[sv[u].fd] \in Seq(Byte)
    BY <1>2, Known DEF FilesType
  <2>2. QED
    BY <1>2, <1>3, <2>1, BlockType DEF BlockOf
<1>5. PICK x : x = IF LastBlock(Len(d)) THEN Select
                   ELSE [sv[u] EXCEPT !.off = sv[u].off + Len(d)]
  OBVIOUS
<1>6. /\ sv' = [sv EXCEPT ![u] = x] /\ cl' = cl
      /\ ToClient(u, FileFrame(d, sv[u].cmd))
  BY <1>3, <1>5 DEF handle_get
<1>7. DownType'
  BY <1>2, <1>4, <1>6, FileFrameType, Known, Answers
<1>8. /\ x \in Proc(ServPc, Len(ino')) /\ x.pc \notin {"open", "put"}
      /\ x.pc = "get" => x.fd # NoInode
  <2>1. CASE LastBlock(Len(d))
    <3>1. x = Select
      BY <1>5, <2>1
    <3>2. QED
      BY <1>1, <3>1, MainType
  <2>2. CASE ~LastBlock(Len(d))
    <3>1. x = [sv[u] EXCEPT !.off = sv[u].off + Len(d)]
      BY <1>5, <2>2
    <3>2. sv[u].off + Len(d) \in Nat
      BY <1>2, <1>4
    <3>3. x \in Proc(ServPc, Len(ino))
      BY <1>1, <1>2, <3>1, <3>2, ProcFields
    <3>4. x.pc = "get" /\ x.fd = sv[u].fd
      BY <1>2, <3>1 DEF Proc
    <3>5. QED
      BY <1>1, <1>2, <3>3, <3>4 DEF NoInode
  <2>3. QED
    BY <2>1, <2>2
<1>9. /\ ClientType' /\ ServType' /\ ClientNames' /\ ServNames' /\ OneWriter'
      /\ Len(Initial) <= Len(ino')
  BY <1>1, <1>6, <1>8, ChildAlone
<1>10. UpType' /\ LeftType' /\ GetNames'
  BY Known DEF handle_get, UpType, LeftType, GetNames
<1>11. QED
  BY <1>1, <1>7, <1>9, <1>10, Shown

-----------------------------------------------------------------------------
LEMMA InitialInv ==
  ASSUME SharedInit
  PROVE  SharedInv
<1>1. /\ Len(Initial) \in Nat /\ DOMAIN Initial = 1 .. Len(Initial)
      /\ \A i \in DOMAIN Initial : Initial[i][3] \in Seq(Byte)
  BY InitialAssumption
<1>2. ino \in Seq(Seq(Byte)) /\ Len(ino) = Len(Initial)
  <2>1. /\ ino \in [1 .. Len(Initial) -> Seq(Byte)]
    BY <1>1 DEF SharedInit
  <2>2. QED
    BY <1>1, <2>1
<1>3. dir \in [Places \X Names -> 0 .. Len(ino)]
  <2>1. ASSUME NEW p \in Places \X Names PROVE dir[p] \in 0 .. Len(ino)
    <3>1. CASE \E i \in DOMAIN Initial : <<Initial[i][1], Initial[i][2]>> = p
      <4>1. dir[p] = CHOOSE i \in DOMAIN Initial :
                       <<Initial[i][1], Initial[i][2]>> = p
        BY <3>1 DEF SharedInit
      <4>2. dir[p] \in DOMAIN Initial
        BY <3>1, <4>1
      <4>3. QED
        BY <1>1, <1>2, <4>2
    <3>2. CASE ~\E i \in DOMAIN Initial : <<Initial[i][1], Initial[i][2]>> = p
      BY <1>1, <1>2, <3>2 DEF SharedInit, NoInode
    <3>3. QED
      BY <3>1, <3>2
  <2>2. dir = [p \in Places \X Names |-> dir[p]]
    BY DEF SharedInit
  <2>3. QED
    BY <2>1, <2>2
<1>4. FilesType
  BY <1>2, <1>3 DEF FilesType
<1>5. UpType /\ DownType /\ LeftType /\ GetNames
  <2>1. << >> \in Seq(msg_head_ctrl_t) /\ Len(<< >>) = 0 /\ 0 <= Capacity
    BY SharedAssumption
  <2>2. MaxCommands \in Nat
    BY SharedAssumption
  <2>3. QED
    BY <2>1, <2>2 DEF SharedInit, UpType, DownType, LeftType, GetNames
<1>6. Len(ino) \in Nat
  BY <1>1, <1>2
<1>7. /\ Main \in Proc(ClientPc, Len(ino)) /\ Main.pc = "main"
      /\ Select \in Proc(ServPc, Len(ino)) /\ Select.pc = "select"
  BY <1>6, MainType
<1>8. /\ \A u \in Users : cl[u] = Main /\ sv[u] = Select
      /\ ClientType /\ ServType
  BY <1>7 DEF SharedInit, ClientType, ServType
<1>9. ClientNames /\ ServNames /\ OneWriter
  BY <1>7, <1>8
     DEF ClientNames, ServNames, OneWriter, ServWrites, ClientWrites
<1>10. SharedTypeOK
  BY <1>4, <1>5, <1>8, TypeParts
<1>11. QED
  BY <1>1, <1>2, <1>5, <1>9, <1>10 DEF SharedInv

LEMMA SharedStep ==
  ASSUME SharedInv, [SharedNext]_svars
  PROVE  SharedInv'
<1>1. ASSUME NEW u \in Users, ClientStep(u) PROVE SharedInv'
  BY <1>1, ClientRequest, ClientPut, ClientAck, ClientGetFails,
     ClientGetUnlinks, ClientGetCreates, ClientGets DEF ClientStep
<1>2. ASSUME NEW u \in Users, ServStep(u) PROVE SharedInv'
  BY <1>2, ChildRequestPut, ChildRequestDefault, ChildRequestGet, ChildRequestRm, ChildAnswer,
     ChildPutCreates, ChildPutRefused, ChildPut, ChildGetOpens, ChildGet
     DEF ServStep
<1>3. CASE UNCHANGED svars
  <2>1. FilesType' /\ UpType' /\ DownType' /\ LeftType' /\ ClientType' /\ ServType'
    BY <1>3, Known
       DEF svars, files, FilesType, UpType, DownType, LeftType, ClientType, ServType
  <2>2. ClientNames' /\ ServNames' /\ GetNames' /\ OneWriter' /\ ino' = ino
    BY <1>3, Known
       DEF svars, files, ClientNames, ServNames, GetNames, OneWriter,
           ServWrites, ClientWrites
  <2>3. QED
    BY <2>1, <2>2, Known, Shown
<1>4. CASE SharedNext
  BY <1>1, <1>2, <1>4, ClientInput DEF SharedNext
<1>5. QED
  BY <1>3, <1>4

\* SharedInv holds in every state, whatever the users, the names, the
\* directories they share and the contents of the files.
LEMMA SharedInvariance == SharedSpec => []SharedInv
<1>1. SharedInit => SharedInv
  BY InitialInv
<1>2. SharedInv /\ [SharedNext]_svars => SharedInv'
  BY SharedStep
<1>3. QED
  BY <1>1, <1>2, PTL DEF SharedSpec

\* Every variable keeps its type: an open descriptor is always that of an
\* inode (the open calls of handle_put, handle_get, put_file_to_server and
\* get_file_from_server), and no queue overflows.
THEOREM SharedTypes == SharedSpec => []SharedTypeOK
<1>1. SharedInv => SharedTypeOK
  BY DEF SharedInv
<1>2. QED
  BY <1>1, SharedInvariance, PTL

\* No file has two transfers writing it and no file of the start is written,
\* for any number of sessions: what O_EXCL in handle_put and in
\* get_file_from_server is for.
THEOREM OneWriterEver == SharedSpec => []OneWriter
<1>1. SharedInv => OneWriter
  BY DEF SharedInv
<1>2. QED
  BY <1>1, SharedInvariance, PTL

=============================================================================
