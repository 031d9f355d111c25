----------------------------- MODULE RunLemmas -----------------------------
(***************************************************************************)
(* What a queue of frames carries, for the proofs about transfers.         *)
(*                                                                         *)
(* The sender and the receiver of a queue are at two places of the same    *)
(* file, and the frames between them lead from one place to the other.     *)
(* Run says so without adding up lengths: there are places, one before and *)
(* one after every frame, and each frame leads from the one to the other.  *)
(***************************************************************************)
EXTENDS FtpProtocol, SequenceTheorems, TLAPS

\* The frames of q, one after the other, lead from a to b; R holds the
\* triples of a place of S, a frame, and the place behind it.
Run(q, a, b, S, R) ==
  \E at \in [1 .. Len(q) + 1 -> S] :
    /\ at[1] = a /\ at[Len(q) + 1] = b
    /\ \A i \in 1 .. Len(q) : <<at[i], q[i], at[i + 1]>> \in R

\* An empty queue leads nowhere else.
LEMMA RunEmpty ==
  ASSUME NEW S, NEW R, NEW a \in S
  PROVE  /\ Run(<< >>, a, a, S, R)
         /\ \A b : Run(<< >>, a, b, S, R) => b = a
<1>1. Len(<< >>) = 0
  OBVIOUS
<1>2. Run(<< >>, a, a, S, R)
  <2> DEFINE at == [i \in 1 .. Len(<< >>) + 1 |-> a]
  <2>1. at \in [1 .. Len(<< >>) + 1 -> S]
    OBVIOUS
  <2>2. at[1] = a /\ at[Len(<< >>) + 1] = a
    BY <1>1
  <2>3. \A i \in 1 .. Len(<< >>) : <<at[i], << >>[i], at[i + 1]>> \in R
    BY <1>1
  <2>4. QED
    BY <2>1, <2>2, <2>3 DEF Run
<1>3. \A b : Run(<< >>, a, b, S, R) => b = a
  BY <1>1 DEF Run
<1>4. QED
  BY <1>2, <1>3

\* Both ends of a run are places.
LEMMA RunEnds ==
  ASSUME NEW M, NEW q \in Seq(M), NEW S, NEW R, NEW a, NEW b, Run(q, a, b, S, R)
  PROVE  a \in S /\ b \in S
<1>1. Len(q) \in Nat /\ 1 \in 1 .. Len(q) + 1 /\ Len(q) + 1 \in 1 .. Len(q) + 1
  OBVIOUS
<1>2. QED
  BY <1>1 DEF Run

\* One more frame leads on from where the last one led to.
LEMMA RunAppend ==
  ASSUME NEW M, NEW q \in Seq(M), NEW m \in M, NEW S, NEW R,
         NEW a, NEW b, NEW c \in S,
         Run(q, a, b, S, R), <<b, m, c>> \in R
  PROVE  Run(Append(q, m), a, c, S, R)
<1>1. PICK at \in [1 .. Len(q) + 1 -> S] :
        /\ at[1] = a /\ at[Len(q) + 1] = b
        /\ \A i \in 1 .. Len(q) : <<at[i], q[i], at[i + 1]>> \in R
  BY DEF Run
<1> DEFINE n == Len(q)
           more == [i \in 1 .. n + 2 |-> IF i = n + 2 THEN c ELSE at[i]]
<1>2. n \in Nat /\ Len(Append(q, m)) = n + 1
  OBVIOUS
<1>3. more \in [1 .. Len(Append(q, m)) + 1 -> S]
  <2>1. \A i \in 1 .. n + 2 : i # n + 2 => i \in 1 .. n + 1
    BY <1>2
  <2>2. QED
    BY <1>1, <1>2, <2>1
<1>4. more[1] = a /\ more[Len(Append(q, m)) + 1] = c
  BY <1>1, <1>2
<1>5. ASSUME NEW i \in 1 .. Len(Append(q, m))
      PROVE  <<more[i], Append(q, m)[i], more[i + 1]>> \in R
  <2>1. CASE i = n + 1
    <3>1. more[i] = b /\ more[i + 1] = c /\ Append(q, m)[i] = m
      BY <1>1, <1>2, <2>1
    <3>2. QED
      BY <3>1
  <2>2. CASE i # n + 1
    <3>1. i \in 1 .. n /\ i + 1 \in 1 .. n + 1
      BY <1>2, <2>2
    <3>2. more[i] = at[i] /\ more[i + 1] = at[i + 1]
      BY <1>2, <3>1
    <3>3. Append(q, m)[i] = q[i]
      BY <1>2, <3>1
    <3>4. QED
      BY <1>1, <3>1, <3>2, <3>3
  <2>3. QED
    BY <2>1, <2>2
<1> HIDE DEF more
<1>6. QED
  BY <1>3, <1>4, <1>5 DEF Run

\* Without its first frame the queue starts where that one led to.
LEMMA RunTail ==
  ASSUME NEW M, NEW q \in Seq(M), q # << >>, NEW S, NEW R, NEW a, NEW b,
         Run(q, a, b, S, R)
  PROVE  \E c \in S : <<a, Head(q), c>> \in R /\ Run(Tail(q), c, b, S, R)
<1>1. PICK at \in [1 .. Len(q) + 1 -> S] :
        /\ at[1] = a /\ at[Len(q) + 1] = b
        /\ \A i \in 1 .. Len(q) : <<at[i], q[i], at[i + 1]>> \in R
  BY DEF Run
<1> DEFINE n == Len(q)
           rest == [i \in 1 .. n |-> at[i + 1]]
<1>2. /\ n \in Nat \ {0} /\ Len(Tail(q)) = n - 1 /\ Head(q) = q[1]
      /\ \A i \in 1 .. n - 1 : Tail(q)[i] = q[i + 1]
  OBVIOUS
<1>3. at[2] \in S /\ <<a, Head(q), at[2]>> \in R
  <2>1. 1 \in 1 .. Len(q) /\ 2 \in 1 .. Len(q) + 1
    BY <1>2
  <2>2. QED
    BY <1>1, <1>2, <2>1
<1>4. rest \in [1 .. Len(Tail(q)) + 1 -> S]
  <2>1. \A i \in 1 .. n : i + 1 \in 1 .. Len(q) + 1
    BY <1>2
  <2>2. QED
    BY <1>1, <1>2, <2>1
<1>5. rest[1] = at[2] /\ rest[Len(Tail(q)) + 1] = b
  BY <1>1, <1>2
<1>6. ASSUME NEW i \in 1 .. Len(Tail(q))
      PROVE  <<rest[i], Tail(q)[i], rest[i + 1]>> \in R
  <2>1. i \in 1 .. n /\ i + 1 \in 1 .. n /\ i + 1 \in 1 .. Len(q)
        /\ i \in 1 .. n - 1
    BY <1>2
  <2>2. rest[i] = at[i + 1] /\ rest[i + 1] = at[(i + 1) + 1]
    BY <2>1
  <2>3. Tail(q)[i] = q[i + 1]
    BY <1>2, <2>1
  <2>4. QED
    BY <1>1, <2>1, <2>2, <2>3
<1> HIDE DEF rest
<1>7. Run(Tail(q), at[2], b, S, R)
  BY <1>4, <1>5, <1>6 DEF Run
<1>8. QED
  BY <1>3, <1>7

\* The first frames of the queue lead to some place on the way.
LEMMA RunFront ==
  ASSUME NEW M, NEW q \in Seq(M), NEW S, NEW R, NEW a, NEW b,
         Run(q, a, b, S, R), NEW n \in 0 .. Len(q)
  PROVE  \E c \in S : Run(SubSeq(q, 1, n), a, c, S, R)
<1>1. PICK at \in [1 .. Len(q) + 1 -> S] :
        /\ at[1] = a /\ at[Len(q) + 1] = b
        /\ \A i \in 1 .. Len(q) : <<at[i], q[i], at[i + 1]>> \in R
  BY DEF Run
<1> DEFINE front == SubSeq(q, 1, n)
           to == [i \in 1 .. n + 1 |-> at[i]]
<1>2. /\ Len(front) = n /\ n \in Nat
      /\ \A i \in 1 .. n : front[i] = q[i]
  <2>1. n \in Int /\ 1 \in Int /\ \A i \in 1 .. n : q[i] \in M
    OBVIOUS
  <2>2. QED
    BY <2>1, SubSeqProperties
<1> HIDE DEF front
<1>3. to \in [1 .. Len(front) + 1 -> S]
  BY <1>1, <1>2
<1>4. to[1] = a /\ to[Len(front) + 1] = at[n + 1] /\ at[n + 1] \in S
  BY <1>1, <1>2
<1>5. ASSUME NEW i \in 1 .. Len(front)
      PROVE  <<to[i], front[i], to[i + 1]>> \in R
  <2>1. i \in 1 .. Len(q) /\ to[i] = at[i] /\ to[i + 1] = at[i + 1]
    BY <1>2
  <2>2. QED
    BY <1>1, <1>2, <2>1
<1> HIDE DEF to
<1>6. Run(front, a, at[n + 1], S, R)
  BY <1>3, <1>4, <1>5 DEF Run
<1>7. QED
  BY <1>4, <1>6 DEF front

\* What leads from place to place still does when more does.
LEMMA RunMore ==
  ASSUME NEW q, NEW S, NEW R, NEW T, R \subseteq T, NEW a, NEW b,
         Run(q, a, b, S, R)
  PROVE  Run(q, a, b, S, T)
BY DEF Run

-----------------------------------------------------------------------------
(***************************************************************************)
(* The contents of files. Blocks are slices of them.                       *)
(***************************************************************************)

\* Every directory entry holds a sequence of bytes, and adding bytes to it
\* makes a regular file.
LEMMA EntryData ==
  ASSUME NEW e \in Entry
  PROVE  e.data \in Seq(Byte)
<1>1. CASE e \in [kind : {"none", "special"}, data : {<< >>}]
  <2>1. e.data = << >>
    BY <1>1
  <2>2. QED
    BY <2>1
<1>2. CASE e \in [kind : {"file"}, data : Seq(Byte)]
  BY <1>2
<1>3. QED
  BY <1>1, <1>2 DEF Entry

LEMMA MoreData ==
  ASSUME NEW d \in Seq(Byte)
  PROVE  /\ RegularFile(d) \in Entry
         /\ \A more \in Seq(Byte) : d \o more \in Seq(Byte)
BY DEF RegularFile, Entry

\* A block of a file is a sequence of bytes.
LEMMA BlockType ==
  ASSUME NEW d \in Seq(Byte), NEW off \in Nat
  PROVE  /\ BlockAt(d, off) \in Seq(Byte)
         /\ Len(BlockAt(d, off)) \in Nat
<1> DEFINE last == IF off + MaxReadBytes < Len(d) THEN off + MaxReadBytes
                                                  ELSE Len(d)
<1>1. last \in Nat /\ last <= Len(d)
  BY ProtocolAssumption
<1>2. SubSeq(d, off + 1, last) \in Seq(Byte)
  BY <1>1
<1>3. QED
  BY <1>2 DEF BlockAt

\* d from p to q, counted in bytes before.
Slice(d, p, q) == SubSeq(d, p + 1, q)

LEMMA SliceType ==
  ASSUME NEW d \in Seq(Byte), NEW p \in Nat, NEW q \in Nat, p <= q, q <= Len(d)
  PROVE  Slice(d, p, q) \in Seq(Byte) /\ Len(Slice(d, p, q)) = q - p
<1>1. \A i \in p + 1 .. q : d[i] \in Byte
  OBVIOUS
<1>2. p + 1 \in Int /\ q \in Int
  OBVIOUS
<1>3. /\ SubSeq(d, p + 1, q) \in Seq(Byte)
      /\ Len(SubSeq(d, p + 1, q)) = IF p + 1 <= q THEN q - (p + 1) + 1 ELSE 0
  BY <1>1, <1>2, SubSeqProperties
<1>4. QED
  BY <1>3 DEF Slice

\* Two slices that meet make one.
LEMMA SliceJoin ==
  ASSUME NEW d \in Seq(Byte), NEW p \in Nat, NEW q \in Nat, p <= q, q <= Len(d)
  PROVE  Slice(d, 0, p) \o Slice(d, p, q) = Slice(d, 0, q)
<1>1. 1 \in 1 .. Len(d) + 1 /\ p \in 1 - 1 .. Len(d) /\ q \in p .. Len(d)
  OBVIOUS
<1>2. SubSeq(d, 1, p) \o SubSeq(d, p + 1, q) = SubSeq(d, 1, q)
  BY <1>1, ConcatAdjacentSubSeq
<1>3. 0 + 1 = 1
  OBVIOUS
<1>4. QED
  BY <1>2, <1>3 DEF Slice

LEMMA SliceAll ==
  ASSUME NEW d \in Seq(Byte)
  PROVE  Slice(d, 0, Len(d)) = d
<1>1. 0 + 1 = 1
  OBVIOUS
<1>2. QED
  BY <1>1, SubSeqFull DEF Slice

LEMMA SliceNone ==
  ASSUME NEW d \in Seq(Byte), NEW p \in Nat
  PROVE  Slice(d, p, p) = << >>
<1>1. p + 1 \in Int /\ p \in Int /\ p < p + 1
  OBVIOUS
<1>2. QED
  BY <1>1, SubSeqEmpty DEF Slice

\* A read() is a slice that begins where it was asked to, and only the end of
\* the file makes it a short one.
LEMMA BlockIsSlice ==
  ASSUME NEW d \in Seq(Byte), NEW off \in Nat, off <= Len(d)
  PROVE  LET b == BlockAt(d, off)
         IN  /\ b \in Seq(Byte) /\ Len(b) \in Nat /\ Len(b) <= MaxReadBytes
             /\ off + Len(b) <= Len(d)
             /\ b = Slice(d, off, off + Len(b))
             /\ Len(b) < MaxReadBytes => off + Len(b) = Len(d)
<1> DEFINE last == IF off + MaxReadBytes < Len(d) THEN off + MaxReadBytes
                                                  ELSE Len(d)
           b == BlockAt(d, off)
<1>1. last \in Nat /\ off <= last /\ last <= Len(d)
  BY ProtocolAssumption
<1>2. b = Slice(d, off, last)
  BY DEF BlockAt, Slice
<1>3. b \in Seq(Byte) /\ Len(b) = last - off
  <2> HIDE DEF last, b
  <2>1. Slice(d, off, last) \in Seq(Byte) /\ Len(Slice(d, off, last)) = last - off
    BY ONLY <1>1, SliceType, off \in Nat, d \in Seq(Byte)
  <2> QED
    BY <1>2, <2>1
<1>4. off + Len(b) = last
  BY <1>1, <1>3
<1>5. QED
  BY <1>1, <1>2, <1>3, <1>4, ProtocolAssumption

\* Wherever it begins, a read() returns no more than it was asked for.
LEMMA BlockLength ==
  ASSUME NEW d \in Seq(Byte), NEW off \in Nat
  PROVE  Len(BlockAt(d, off)) <= MaxReadBytes
<1> DEFINE last == IF off + MaxReadBytes < Len(d) THEN off + MaxReadBytes
                                                  ELSE Len(d)
<1>1. last \in Nat /\ last <= Len(d) /\ last <= off + MaxReadBytes
  BY ProtocolAssumption
<1>2. Len(SubSeq(d, off + 1, last)) <= MaxReadBytes
  BY <1>1, ProtocolAssumption
<1>3. QED
  BY <1>2 DEF BlockAt

-----------------------------------------------------------------------------
\* handle_get compares a length in network order with the block size, and
\* that it leaves its loop means that the length is zero: of a number below
\* the square of the byte base one of the two lowest bytes is not zero, and
\* either, moved up, exceeds the block size.
LEMMA NetworkOrder ==
  ASSUME NEW n \in 0 .. MaxReadBytes
  PROVE  htonl(n) < MaxReadBytes <=> n = 0
<1> DEFINE B  == ByteBase
           B2 == ByteBase * ByteBase
           B3 == ByteBase * B2
           d0 == n % ByteBase
           d1 == (n \div ByteBase) % ByteBase
           d2 == (n \div B2) % ByteBase
           d3 == (n \div B3) % ByteBase
<1>1. B \in Nat /\ B >= 2 /\ n \in Nat /\ MaxReadBytes \in Nat \ {0}
  BY ProtocolAssumption
<1>2. B2 \in Nat /\ B2 >= 4 /\ MaxReadBytes < B2
  BY <1>1, ProtocolAssumption
<1>3. B3 \in Nat /\ B3 >= B2
  BY <1>1, <1>2
<1>4. d0 \in Nat /\ d1 \in Nat /\ d2 \in Nat /\ d3 \in Nat
  BY <1>1, <1>2, <1>3
<1>5. htonl(n) = d0 * B3 + d1 * B2 + d2 * ByteBase + d3
  BY DEF htonl
<1>6. CASE n = 0
  <2>1. d0 = 0 /\ d1 = 0 /\ d2 = 0 /\ d3 = 0
    BY <1>1, <1>2, <1>3, <1>6
  <2>2. QED
    BY <1>1, <1>2, <1>3, <1>5, <1>6, <2>1
<1>7. CASE n # 0
  <2>1. n = ByteBase * (n \div ByteBase) + d0
    BY <1>1
  <2>2. (n \div ByteBase) \in Nat /\ n \div ByteBase < ByteBase
    BY <1>1, <1>2, <2>1
  <2>3. d1 = n \div ByteBase
    BY <1>1, <2>2
  <2>4. d0 >= 1 \/ d1 >= 1
    BY <1>1, <1>4, <1>7, <2>1, <2>3
  <2> HIDE DEF B, B2, B3, d0, d1, d2, d3
  <2>5. d0 * B3 >= B2 \/ d1 * B2 >= B2
    BY <1>2, <1>3, <1>4, <2>4
  <2>6. /\ d0 * B3 \in Nat /\ d1 * B2 \in Nat /\ d2 * ByteBase \in Nat
    BY <1>1, <1>2, <1>3, <1>4 DEF B
  <2>7. htonl(n) >= B2
    BY <1>2, <1>4, <1>5, <2>5, <2>6
  <2>8. QED
    BY <1>1, <1>2, <1>5, <1>7, <2>6, <2>7, <1>4
<1>8. QED
  BY <1>6, <1>7

-----------------------------------------------------------------------------
\* Some frame of the queue is one of M.
Holds(q, M) == \E i \in 1 .. Len(q) : q[i] \in M

\* What is behind the first frame stays in the queue.
LEMMA HoldsTail ==
  ASSUME NEW S, NEW q \in Seq(S), q # << >>
  PROVE  /\ \A M : Holds(q, M) => Head(q) \in M \/ Holds(Tail(q), M)
         /\ \A M : Holds(Tail(q), M) => Holds(q, M)
         /\ \A M : q[Len(q)] \in M /\ Head(q) \notin M
                     => Tail(q) # << >> /\ Tail(q)[Len(Tail(q))] \in M
<1>1. /\ Len(q) \in Nat \ {0} /\ Len(Tail(q)) = Len(q) - 1 /\ Head(q) = q[1]
      /\ \A i \in 1 .. Len(q) - 1 : Tail(q)[i] = q[i + 1]
  OBVIOUS
<1>2. ASSUME NEW M, NEW i \in 1 .. Len(q), q[i] \in M
      PROVE  Head(q) \in M \/ Holds(Tail(q), M)
  <2>1. i = 1 \/ (i - 1 \in 1 .. Len(Tail(q)) /\ Tail(q)[i - 1] = q[i])
    BY <1>1
  <2>2. QED
    BY <1>1, <1>2, <2>1 DEF Holds
<1>3. ASSUME NEW M, NEW i \in 1 .. Len(Tail(q)), Tail(q)[i] \in M
      PROVE  Holds(q, M)
  <2>1. i + 1 \in 1 .. Len(q) /\ q[i + 1] \in M
    BY <1>1, <1>3
  <2>2. QED
    BY <2>1 DEF Holds
<1>4. ASSUME NEW M, q[Len(q)] \in M, Head(q) \notin M
      PROVE  Tail(q) # << >> /\ Tail(q)[Len(Tail(q))] \in M
  <2>1. Len(q) # 1 /\ Len(Tail(q)) \in 1 .. Len(q) - 1
    BY <1>1, <1>4
  <2>2. Tail(q)[Len(Tail(q))] \in M
    BY <1>1, <1>4, <2>1
  <2>3. Tail(q) # << >>
    <3>1. Len(Tail(q)) # 0 /\ Len(<< >>) = 0
      BY <2>1
    <3>2. QED
      BY <3>1
  <2>4. QED
    BY <2>2, <2>3
<1>5. QED
  BY <1>2, <1>3, <1>4 DEF Holds

LEMMA HoldsAppend ==
  ASSUME NEW S, NEW q \in Seq(S), NEW m \in S
  PROVE  /\ \A M : Holds(Append(q, m), M) <=> Holds(q, M) \/ m \in M
         /\ Append(q, m) # << >> /\ Append(q, m)[Len(Append(q, m))] = m
<1>1. /\ Len(q) \in Nat /\ Len(Append(q, m)) = Len(q) + 1
      /\ \A i \in 1 .. Len(q) : Append(q, m)[i] = q[i]
      /\ Append(q, m)[Len(q) + 1] = m
  OBVIOUS
<1>2. \A i \in 1 .. Len(q) + 1 : i \in 1 .. Len(q) \/ i = Len(q) + 1
  BY <1>1
<1>3. Len(q) + 1 \in 1 .. Len(q) + 1 /\ \A i \in 1 .. Len(q) : i \in 1 .. Len(q) + 1
  BY <1>1
<1>4. QED
  BY <1>1, <1>2, <1>3 DEF Holds

LEMMA HoldsNothing == \A M : ~Holds(<< >>, M)
BY DEF Holds

=============================================================================
