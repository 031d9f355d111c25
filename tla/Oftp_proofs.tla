---------------------------- MODULE Oftp_proofs ----------------------------
(***************************************************************************)
(* Proofs about Oftp: where messages begin in a stream that may be cut     *)
(* anywhere, and what a get leaves, for every size of the buffers and the  *)
(* blocks, any files and every failure.                                    *)
(*                                                                         *)
(* That a recv begins at the start of a message is not inductive: what is  *)
(* in flight must be messages up to its end, which may be missing once the *)
(* sender is gone or the network has lost it. Framed says where in a       *)
(* stream messages begin, and which place lies before each of them. For    *)
(* Aligned there is only one place; for a get the places are positions in  *)
(* the server's file.                                                      *)
(***************************************************************************)
EXTENDS Oftp, RunLemmas

-----------------------------------------------------------------------------
(***************************************************************************)
(* Streams of messages.                                                    *)
(***************************************************************************)

\* From cell k of q on there are the cells of m, as far as q goes.
Lies(q, m, k) ==
  \A i \in 1 .. Len(m) : k + i - 1 <= Len(q) => q[k + i - 1] = m[i]

\* The messages of q begin at B; at says which place lies before each.
FramedAt(q, whole, a, b, R, B, at) ==
  /\ 1 \in B /\ at[1] = a
  /\ \A k \in B : k <= Len(q) =>
       \E m : /\ k + Len(m) \in B /\ <<at[k], m, at[k + Len(m)]>> \in R
              /\ Lies(q, m, k)
  /\ whole => /\ Len(q) + 1 \in B /\ at[Len(q) + 1] = b
              /\ \A k \in B : k <= Len(q) + 1

Framed(q, whole, a, b, S, R) ==
  \E B \in SUBSET (Nat \ {0}) : \E at \in [B -> S] : FramedAt(q, whole, a, b, R, B, at)

\* The messages of R have the header that says how long they are.
Headed(R) == \A x \in R : /\ x[2] \in Seq(Cell) /\ Len(x[2]) >= 2
                          /\ x[2][1] = <<"body_len", Len(x[2]) - 2>>

\* A message of R is at least its header.
LEMMA HeadedLen ==
  ASSUME NEW R, Headed(R), NEW s, NEW m, NEW t, <<s, m, t>> \in R
  PROVE  /\ m \in Seq(Cell) /\ Len(m) \in Nat /\ Len(m) >= 2
         /\ m[1] = <<"body_len", Len(m) - 2>>
<1>1. m \in Seq(Cell) /\ Len(m) >= 2 /\ m[1] = <<"body_len", Len(m) - 2>>
  BY DEF Headed
<1>2. QED
  BY <1>1

\* Nothing is on the way.
LEMMA FrameEmpty ==
  ASSUME NEW S, NEW R, NEW a \in S, NEW w
  PROVE  Framed(<< >>, w, a, a, S, R)
<1> DEFINE B == {1}
           at == [p \in B |-> a]
<1>1. B \in SUBSET (Nat \ {0}) /\ at \in [B -> S]
  OBVIOUS
<1>2. 1 \in B /\ at[1] = a /\ Len(<< >>) = 0
  OBVIOUS
<1>3. \A p \in B : ~(p <= Len(<< >>))
  BY <1>2
<1>4. Len(<< >>) + 1 \in B /\ at[Len(<< >>) + 1] = a /\ \A p \in B : p <= Len(<< >>) + 1
  BY <1>2
<1> HIDE DEF B, at
<1>5. QED
  BY <1>1, <1>2, <1>3, <1>4 DEF Framed, FramedAt

\* Once one end is gone nobody owes the rest.
LEMMA FrameCut ==
  ASSUME NEW S, NEW R, NEW a, NEW b, NEW c, NEW w,
         NEW p \in Seq(Cell), NEW q \in Seq(Cell),
         Framed(p \o q, w, a, b, S, R)
  PROVE  Framed(p \o q, FALSE, a, c, S, R) /\ Framed(p, FALSE, a, c, S, R)
<1>0. PICK B \in SUBSET (Nat \ {0}) :
        \E at \in [B -> S] : FramedAt(p \o q, w, a, b, R, B, at)
  BY DEF Framed
<1>1. PICK at \in [B -> S] :
        /\ 1 \in B /\ at[1] = a
        /\ \A k \in B : k <= Len(p \o q) =>
             \E m : /\ k + Len(m) \in B /\ <<at[k], m, at[k + Len(m)]>> \in R
                    /\ Lies(p \o q, m, k)
        /\ w => /\ Len(p \o q) + 1 \in B /\ at[Len(p \o q) + 1] = b
                  /\ \A k \in B : k <= Len(p \o q) + 1
  BY <1>0 DEF FramedAt
<1>2. Framed(p \o q, FALSE, a, c, S, R)
  BY <1>1 DEF Framed, FramedAt
<1>3. /\ Len(p) \in Nat /\ Len(p) <= Len(p \o q)
      /\ \A j \in 1 .. Len(p) : (p \o q)[j] = p[j]
  OBVIOUS
<1>4. ASSUME NEW k \in B, k <= Len(p)
      PROVE  \E m : /\ k + Len(m) \in B /\ <<at[k], m, at[k + Len(m)]>> \in R
                    /\ Lies(p, m, k)
  <2>1. PICK m : /\ k + Len(m) \in B /\ <<at[k], m, at[k + Len(m)]>> \in R
                 /\ Lies(p \o q, m, k)
    <3>1. k <= Len(p \o q)
      BY <1>3, <1>4
    <3>2. QED
      BY <1>1, <3>1
  <2>2. ASSUME NEW i \in 1 .. Len(m), k + i - 1 <= Len(p)
        PROVE  p[k + i - 1] = m[i]
    <3>1. k + i - 1 \in 1 .. Len(p)
      BY <1>3, <2>2
    <3>2. k + i - 1 <= Len(p \o q)
      BY <1>3, <3>1
    <3>3. QED
      BY <1>3, <2>1, <3>1, <3>2 DEF Lies
  <2>3. QED
    BY <2>1, <2>2 DEF Lies
<1>5. Framed(p, FALSE, a, c, S, R)
  BY <1>1, <1>4 DEF Framed, FramedAt
<1>6. QED
  BY <1>2, <1>5

\* One more message behind a stream of whole ones.
LEMMA FrameAdd ==
  ASSUME NEW S, NEW R, Headed(R), NEW a, NEW b, NEW c \in S, NEW w,
         NEW q \in Seq(Cell), NEW n, <<b, n, c>> \in R,
         Framed(q, TRUE, a, b, S, R)
  PROVE  Framed(q \o n, w, a, c, S, R)
<1>0. PICK B \in SUBSET (Nat \ {0}) :
        \E at \in [B -> S] : FramedAt(q, TRUE, a, b, R, B, at)
  BY DEF Framed
<1>1. PICK at \in [B -> S] :
        /\ 1 \in B /\ at[1] = a
        /\ \A k \in B : k <= Len(q) =>
             \E m : /\ k + Len(m) \in B /\ <<at[k], m, at[k + Len(m)]>> \in R
                    /\ Lies(q, m, k)
        /\ Len(q) + 1 \in B /\ at[Len(q) + 1] = b
        /\ \A k \in B : k <= Len(q) + 1
  BY <1>0 DEF FramedAt
<1>2. n \in Seq(Cell) /\ Len(n) \in Nat /\ Len(n) >= 2
  BY HeadedLen
<1> DEFINE z == Len(q) + Len(n) + 1
           C == B \cup {z}
           on == [k \in C |-> IF k = z THEN c ELSE at[k]]
<1>3. /\ Len(q) \in Nat /\ Len(q \o n) = Len(q) + Len(n)
      /\ \A j \in 1 .. Len(q) : (q \o n)[j] = q[j]
      /\ \A j \in 1 .. Len(n) : (q \o n)[Len(q) + j] = n[j]
  BY <1>2
<1>4. z \in Nat \ {0} /\ \A k \in B : k # z /\ k \in Nat \ {0} /\ on[k] = at[k]
  BY <1>1, <1>2, <1>3
<1>5. on[z] = c /\ Len(q \o n) + 1 = z
  BY <1>2, <1>3
<1>6. C \in SUBSET (Nat \ {0}) /\ on \in [C -> S]
  BY <1>4
<1>7. \A k \in C : k <= Len(q \o n) + 1
  BY <1>1, <1>2, <1>3, <1>4
<1> HIDE DEF on
<1>8. ASSUME NEW k \in C, k <= Len(q \o n)
      PROVE  \E m : /\ k + Len(m) \in C /\ <<on[k], m, on[k + Len(m)]>> \in R
                    /\ Lies(q \o n, m, k)
  <2>1. k \in B /\ (k <= Len(q) \/ k = Len(q) + 1)
    BY <1>1, <1>3, <1>4, <1>8
  <2>2. CASE k <= Len(q)
    <3>1. PICK m : /\ k + Len(m) \in B /\ <<at[k], m, at[k + Len(m)]>> \in R
                   /\ Lies(q, m, k)
      BY <1>1, <2>1, <2>2
    <3>2. Len(m) \in Nat
      BY <3>1, HeadedLen
    <3>3. <<on[k], m, on[k + Len(m)]>> \in R
      BY <1>4, <2>1, <3>1
    <3>4. ASSUME NEW i \in 1 .. Len(m) PROVE (q \o n)[k + i - 1] = m[i]
      <4>1. k + Len(m) <= Len(q) + 1
        BY <1>1, <3>1
      <4>2. k + i - 1 \in 1 .. Len(q)
        BY <1>3, <1>4, <2>1, <3>2, <4>1
      <4>3. q[k + i - 1] = m[i]
        BY <3>1, <4>2 DEF Lies
      <4>4. QED
        BY <1>3, <4>2, <4>3
    <3>5. QED
      BY <3>1, <3>3, <3>4 DEF Lies
  <2>3. CASE k = Len(q) + 1
    <3>1. k + Len(n) = z
      BY <1>2, <1>3, <2>3
    <3>2. <<on[k], n, on[k + Len(n)]>> \in R
      BY <1>1, <1>4, <1>5, <2>1, <2>3, <3>1
    <3>3. ASSUME NEW i \in 1 .. Len(n) PROVE (q \o n)[k + i - 1] = n[i]
      <4>1. k + i - 1 = Len(q) + i
        BY <1>2, <1>3, <2>3
      <4>2. QED
        BY <1>3, <4>1
    <3>4. QED
      BY <3>1, <3>2, <3>3 DEF Lies
  <2>4. QED
    BY <2>1, <2>2, <2>3
<1>9. 1 \in C /\ on[1] = a
  BY <1>1, <1>4
<1> HIDE DEF C
<1>10. Len(q \o n) + 1 \in C /\ on[Len(q \o n) + 1] = c
  BY <1>5 DEF C
<1>11. QED
  BY <1>6, <1>7, <1>8, <1>9, <1>10 DEF Framed, FramedAt

\* The message at the head of a stream, when all of it has arrived.
LEMMA FrameTake ==
  ASSUME NEW S, NEW R, Headed(R), NEW a, NEW b, NEW w,
         NEW p \in Seq(Cell), NEW q \in Seq(Cell),
         p # << >>, Len(p) >= total_len(p), Framed(p \o q, w, a, b, S, R)
  PROVE  \E m \in Seq(Cell), c \in S :
           /\ <<a, m, c>> \in R /\ Len(m) = total_len(p) /\ Len(m) \in Nat
           /\ \A i \in 1 .. Len(m) : p[i] = m[i]
           /\ Rest(p) \in Seq(Cell) /\ Len(Rest(p)) = Len(p) - Len(m)
           /\ Framed(Rest(p) \o q, w, c, b, S, R)
<1>0. PICK B \in SUBSET (Nat \ {0}) :
        \E at \in [B -> S] : FramedAt(p \o q, w, a, b, R, B, at)
  BY DEF Framed
<1>1. PICK at \in [B -> S] :
        /\ 1 \in B /\ at[1] = a
        /\ \A k \in B : k <= Len(p \o q) =>
             \E m : /\ k + Len(m) \in B /\ <<at[k], m, at[k + Len(m)]>> \in R
                    /\ Lies(p \o q, m, k)
        /\ w => /\ Len(p \o q) + 1 \in B /\ at[Len(p \o q) + 1] = b
                  /\ \A k \in B : k <= Len(p \o q) + 1
  BY <1>0 DEF FramedAt
<1>2. /\ Len(p) \in Nat \ {0} /\ Len(q) \in Nat /\ Len(p \o q) = Len(p) + Len(q)
      /\ \A j \in 1 .. Len(p) : (p \o q)[j] = p[j]
      /\ \A j \in 1 .. Len(q) : (p \o q)[Len(p) + j] = q[j]
  OBVIOUS
<1>3. PICK m : /\ 1 + Len(m) \in B /\ <<at[1], m, at[1 + Len(m)]>> \in R
               /\ Lies(p \o q, m, 1)
  <2>1. 1 <= Len(p \o q)
    BY <1>2
  <2>2. QED
    BY <1>1, <2>1
<1>4. /\ m \in Seq(Cell) /\ Len(m) \in Nat /\ Len(m) >= 2
      /\ m[1] = <<"body_len", Len(m) - 2>>
  BY <1>3, HeadedLen
<1>5. p[1] = m[1]
  <2>1. 1 \in 1 .. Len(m) /\ 1 + 1 - 1 = 1 /\ 1 \in 1 .. Len(p) /\ 1 <= Len(p \o q)
    BY <1>2, <1>4
  <2>2. (p \o q)[1 + 1 - 1] = m[1]
    BY <1>3, <2>1 DEF Lies
  <2>3. QED
    BY <1>2, <2>1, <2>2
<1> DEFINE n == Len(m)
<1>6. total_len(p) = n /\ n <= Len(p)
  BY <1>4, <1>5 DEF total_len
<1>7. \A i \in 1 .. n : p[i] = m[i]
  <2>1. SUFFICES ASSUME NEW i \in 1 .. n PROVE p[i] = m[i]
    OBVIOUS
  <2>2. i \in 1 .. Len(p) /\ 1 + i - 1 = i /\ i <= Len(p \o q)
    BY <1>2, <1>4, <1>6
  <2>3. (p \o q)[1 + i - 1] = m[i]
    BY <1>3, <2>2 DEF Lies
  <2>4. QED
    BY <1>2, <2>2, <2>3
<1> DEFINE r == Rest(p)
<1>8. r \in Seq(Cell) /\ Len(r) = Len(p) - n /\ \A j \in 1 .. Len(r) : r[j] = p[n + j]
  <2>1. r = SubSeq(p, n + 1, Len(p))
    BY <1>6 DEF Rest
  <2>2. QED
    <3>1. n + 1 \in Int /\ Len(p) \in Int /\ \A i \in n + 1 .. Len(p) : p[i] \in Cell
      BY <1>2, <1>4, <1>6
    <3>2. /\ SubSeq(p, n + 1, Len(p)) \in Seq(Cell)
          /\ Len(SubSeq(p, n + 1, Len(p))) =
               IF n + 1 <= Len(p) THEN Len(p) - (n + 1) + 1 ELSE 0
          /\ \A i \in 1 .. Len(p) - (n + 1) + 1 :
               SubSeq(p, n + 1, Len(p))[i] = p[n + 1 + i - 1]
      BY <3>1, SubSeqProperties
    <3>3. Len(r) = Len(p) - n
      BY <1>2, <1>4, <1>6, <2>1, <3>2
    <3>4. ASSUME NEW j \in 1 .. Len(r) PROVE r[j] = p[n + j]
      <4>1. n + 1 + j - 1 = n + j /\ j \in 1 .. Len(p) - (n + 1) + 1
        BY <1>2, <1>4, <1>6, <3>3
      <4>2. QED
        BY <2>1, <3>2, <4>1
    <3>5. QED
      BY <2>1, <3>2, <3>3, <3>4
<1>9. /\ Len(r \o q) = Len(p \o q) - n
      /\ \A j \in 1 .. Len(r \o q) : (r \o q)[j] = (p \o q)[n + j]
  <2>1. Len(r \o q) = Len(p \o q) - n
    <3>1. Len(r \o q) = Len(r) + Len(q)
      BY <1>8, ConcatProperties
    <3>2. QED
      BY <1>2, <1>4, <1>6, <1>8, <3>1
  <2>2. ASSUME NEW j \in 1 .. Len(r \o q) PROVE (r \o q)[j] = (p \o q)[n + j]
    <3>1. CASE j <= Len(r)
      <4>1. j \in 1 .. Len(r) /\ n + j \in 1 .. Len(p)
        BY <1>2, <1>4, <1>6, <1>8, <3>1
      <4>2. (r \o q)[j] = r[j]
        BY <1>8, <4>1
      <4>3. QED
        BY <1>2, <1>8, <4>1, <4>2
    <3>2. CASE ~(j <= Len(r))
      <4> DEFINE h == j - Len(r)
      <4>1. h \in 1 .. Len(q) /\ j = Len(r) + h /\ n + j = Len(p) + h
        BY <1>2, <1>4, <1>6, <1>8, <2>1, <3>2
      <4>2. (r \o q)[j] = q[h]
        BY <1>8, <4>1
      <4>3. QED
        BY <1>2, <4>1, <4>2
    <3>3. QED
      BY <3>1, <3>2
  <2>3. QED
    BY <2>1, <2>2
<1> DEFINE C == {k \in Nat \ {0} : k + n \in B}
           on == [k \in C |-> at[k + n]]
<1>10. C \in SUBSET (Nat \ {0}) /\ on \in [C -> S]
  OBVIOUS
<1>11. 1 \in C /\ on[1] = at[1 + n]
  BY <1>3, <1>4
<1>12. at[1 + n] \in S /\ <<a, m, at[1 + n]>> \in R
  BY <1>1, <1>3
<1> HIDE DEF n, r
<1>13. n \in Nat /\ Len(r) \in Nat /\ Len(r \o q) \in Nat
  BY <1>2, <1>4, <1>6, <1>8, <1>9 DEF n
<1>14. ASSUME NEW k \in C, k <= Len(r \o q)
       PROVE  \E x : /\ k + Len(x) \in C /\ <<on[k], x, on[k + Len(x)]>> \in R
                     /\ Lies(r \o q, x, k)
  <2>1. k + n \in B /\ k + n <= Len(p \o q)
    BY <1>9, <1>13, <1>14
  <2>2. PICK x : /\ k + n + Len(x) \in B /\ <<at[k + n], x, at[k + n + Len(x)]>> \in R
                 /\ Lies(p \o q, x, k + n)
    BY <1>1, <2>1
  <2>3. Len(x) \in Nat
    BY <2>2, HeadedLen
  <2>4. k + Len(x) \in Nat \ {0} /\ k + Len(x) + n = k + n + Len(x)
    BY <1>13, <2>3
  <2>5. k + Len(x) \in C /\ on[k] = at[k + n] /\ on[k + Len(x)] = at[k + n + Len(x)]
    BY <2>2, <2>4
  <2>6. ASSUME NEW i \in 1 .. Len(x), k + i - 1 <= Len(r \o q)
        PROVE  (r \o q)[k + i - 1] = x[i]
    <3>1. /\ k + i - 1 \in 1 .. Len(r \o q)
          /\ k + n + i - 1 = n + (k + i - 1) /\ k + n + i - 1 <= Len(p \o q)
      BY <1>9, <1>13, <2>3, <2>6
    <3>2. QED
      BY <1>9, <2>2, <3>1 DEF Lies
  <2>7. QED
    BY <2>2, <2>5, <2>6 DEF Lies
<1>15. w => /\ Len(r \o q) + 1 \in C /\ on[Len(r \o q) + 1] = b
            /\ \A k \in C : k <= Len(r \o q) + 1
  <2>1. SUFFICES ASSUME w PROVE /\ Len(r \o q) + 1 \in C /\ on[Len(r \o q) + 1] = b
                                /\ \A k \in C : k <= Len(r \o q) + 1
    OBVIOUS
  <2>2. Len(r \o q) + 1 \in Nat \ {0} /\ Len(r \o q) + 1 + n = Len(p \o q) + 1
    BY <1>2, <1>9, <1>13
  <2>3. QED
    BY <1>1, <1>2, <1>9, <1>13, <2>1, <2>2
<1> HIDE DEF C, on
<1>16. Framed(r \o q, w, at[1 + n], b, S, R)
  BY <1>10, <1>11, <1>14, <1>15 DEF Framed, FramedAt
<1>17. QED
  BY <1>4, <1>6, <1>7, <1>8, <1>12, <1>16 DEF n, r

\* What begins a stream is the length of a message.
LEMMA FrameHead ==
  ASSUME NEW S, NEW R, Headed(R), NEW a, NEW b, NEW w, NEW q \in Seq(Cell), q # << >>,
         Framed(q, w, a, b, S, R)
  PROVE  q[1][1] = "body_len" /\ q[1][2] \in Nat
<1>0. PICK B \in SUBSET (Nat \ {0}) :
        \E at \in [B -> S] : FramedAt(q, w, a, b, R, B, at)
  BY DEF Framed
<1>1. 1 <= Len(q)
  OBVIOUS
<1>2. PICK at \in [B -> S] :
        /\ 1 \in B /\ at[1] = a
        /\ \A k \in B : k <= Len(q) =>
             \E m : /\ k + Len(m) \in B /\ <<at[k], m, at[k + Len(m)]>> \in R
                    /\ Lies(q, m, k)
        /\ w => /\ Len(q) + 1 \in B /\ at[Len(q) + 1] = b
                  /\ \A k \in B : k <= Len(q) + 1
  BY <1>0 DEF FramedAt
<1>3. PICK m : /\ <<at[1], m, at[1 + Len(m)]>> \in R
               /\ Lies(q, m, 1)
  BY <1>1, <1>2
<1>4. Len(m) \in Nat /\ Len(m) >= 2 /\ m[1] = <<"body_len", Len(m) - 2>>
  BY <1>3, HeadedLen
<1>5. 1 \in 1 .. Len(m) /\ 1 + 1 - 1 = 1
  BY <1>4
<1>6. q[1] = m[1]
  BY <1>1, <1>3, <1>5 DEF Lies
<1>7. QED
  BY <1>4, <1>6

-----------------------------------------------------------------------------
(***************************************************************************)
(* The messages of the two programs.                                       *)
(***************************************************************************)
Asking == {Message(c, a) : c \in {"LS", "PWD", "QUIT", "CD"}, a \in Text}
            \cup {Message("GET", n) : n \in Names}
Answer == {Message("NO_FILE", a) : a \in Text}
            \cup {Chunk(c, d) : c \in Commands, d \in Seq(Byte)}
UpWay   == {<<0, m, 0>> : m \in Asking}
DownWay == {<<0, m, 0>> : m \in Answer}

\* The cells of a message with an argument, and of a block.
LEMMA MessageShape ==
  ASSUME NEW c \in Commands, NEW a \in Text
  PROVE  LET m == Message(c, a)
         IN  /\ m \in Seq(Cell) /\ Len(m) = 3
             /\ m[1] = <<"body_len", 1>> /\ m[2] = <<"command", c>>
             /\ m[3] = <<"arg", a>>
<1> DEFINE h == << <<"body_len", 1>>, <<"command", c>> >>
           b == << <<"arg", a>> >>
<1>1. <<"body_len", 1>> \in Cell /\ <<"command", c>> \in Cell /\ <<"arg", a>> \in Cell
  BY DEF Cell
<1>2. /\ h \in Seq(Cell) /\ Len(h) = 2 /\ b \in Seq(Cell) /\ Len(b) = 1
      /\ h[1] = <<"body_len", 1>> /\ h[2] = <<"command", c>> /\ b[1] = <<"arg", a>>
  BY <1>1
<1>3. Message(c, a) = h \o b
  BY DEF Message, Header
<1> HIDE DEF h, b
<1>4. /\ h \o b \in Seq(Cell) /\ Len(h \o b) = Len(h) + Len(b)
      /\ \A i \in 1 .. Len(h) + Len(b) :
           (h \o b)[i] = IF i <= Len(h) THEN h[i] ELSE b[i - Len(h)]
  BY <1>2, ConcatProperties
<1>5. (h \o b)[1] = h[1] /\ (h \o b)[2] = h[2] /\ (h \o b)[3] = b[1]
  BY <1>2, <1>4
<1>6. QED
  BY <1>2, <1>3, <1>4, <1>5

LEMMA ChunkShape ==
  ASSUME NEW c \in Commands, NEW d \in Seq(Byte)
  PROVE  LET m == Chunk(c, d)
         IN  /\ m \in Seq(Cell) /\ Len(m) = Len(d) + 2
             /\ m[1] = <<"body_len", Len(d)>> /\ m[2] = <<"command", c>>
             /\ \A i \in 1 .. Len(d) : m[i + 2] = <<"byte", d[i]>>
<1> DEFINE h == << <<"body_len", Len(d)>>, <<"command", c>> >>
           b == [i \in DOMAIN d |-> <<"byte", d[i]>>]
<1>1. Len(d) \in Nat /\ DOMAIN d = 1 .. Len(d) /\ \A i \in 1 .. Len(d) : d[i] \in Byte
  OBVIOUS
<1>2. <<"body_len", Len(d)>> \in Cell /\ <<"command", c>> \in Cell
  BY <1>1 DEF Cell
<1>3. /\ h \in Seq(Cell) /\ Len(h) = 2
      /\ h[1] = <<"body_len", Len(d)>> /\ h[2] = <<"command", c>>
  BY <1>2
<1>4. /\ b \in Seq(Cell) /\ Len(b) = Len(d)
      /\ \A i \in 1 .. Len(d) : b[i] = <<"byte", d[i]>>
  <2>1. \A i \in 1 .. Len(d) : <<"byte", d[i]>> \in Cell
    BY <1>1 DEF Cell
  <2>2. b \in [1 .. Len(d) -> Cell]
    BY <1>1, <2>1
  <2>3. b \in Seq(Cell) /\ Len(b) = Len(d)
    BY <1>1, <2>2
  <2>4. QED
    BY <1>1, <2>3
<1>5. Chunk(c, d) = h \o b
  BY DEF Chunk, Header
<1> HIDE DEF h, b
<1>6. /\ h \o b \in Seq(Cell) /\ Len(h \o b) = Len(h) + Len(b)
      /\ \A i \in 1 .. Len(h) + Len(b) :
           (h \o b)[i] = IF i <= Len(h) THEN h[i] ELSE b[i - Len(h)]
  BY <1>3, <1>4, ConcatProperties
<1>7. (h \o b)[1] = h[1] /\ (h \o b)[2] = h[2]
  BY <1>1, <1>3, <1>4, <1>6
<1>8. ASSUME NEW i \in 1 .. Len(d) PROVE (h \o b)[i + 2] = b[i]
  <2>1. i + 2 \in 1 .. Len(h) + Len(b) /\ ~(i + 2 <= Len(h)) /\ i + 2 - Len(h) = i
    BY <1>1, <1>3, <1>4
  <2>2. QED
    BY <1>6, <2>1
<1>9. QED
  BY <1>1, <1>3, <1>4, <1>5, <1>6, <1>7, <1>8

\* What a buffer says that begins with a message.
LEMMA MessageRead ==
  ASSUME NEW c \in Commands, NEW a \in Text, NEW p,
         \A i \in 1 .. Len(Message(c, a)) : p[i] = Message(c, a)[i]
  PROVE  command(p) = c /\ arg(p) = a /\ total_len(p) = 3 /\ Len(Message(c, a)) = 3
<1> DEFINE m == Message(c, a)
<1>1. /\ Len(m) = 3 /\ m[1] = <<"body_len", 1>>
      /\ m[2] = <<"command", c>> /\ m[3] = <<"arg", a>>
  BY MessageShape
<1>2. p[1] = m[1] /\ p[2] = m[2] /\ p[3] = m[3]
  BY <1>1
<1>3. QED
  BY <1>1, <1>2 DEF command, arg, total_len

LEMMA ChunkRead ==
  ASSUME NEW c \in Commands, NEW d \in Seq(Byte), NEW p,
         \A i \in 1 .. Len(Chunk(c, d)) : p[i] = Chunk(c, d)[i]
  PROVE  command(p) = c /\ bytes(p) = d
<1> DEFINE m == Chunk(c, d)
<1>1. /\ Len(m) = Len(d) + 2 /\ Len(d) \in Nat
      /\ m[1] = <<"body_len", Len(d)>> /\ m[2] = <<"command", c>>
      /\ \A i \in 1 .. Len(d) : m[i + 2] = <<"byte", d[i]>>
  <2>1. Len(d) \in Nat
    OBVIOUS
  <2>2. QED
    BY <2>1, ChunkShape
<1> HIDE DEF m
<1>2. \A i \in 1 .. Len(m) : p[i] = m[i]
  BY DEF m
<1>3. p[1] = m[1] /\ p[2] = m[2]
  <2>1. 1 \in 1 .. Len(m) /\ 2 \in 1 .. Len(m)
    BY <1>1
  <2>2. QED
    BY <1>2, <2>1
<1>4. \A i \in 1 .. Len(d) : p[i + 2] = <<"byte", d[i]>>
  <2>1. \A i \in 1 .. Len(d) : i + 2 \in 1 .. Len(m)
    BY <1>1
  <2>2. QED
    BY <1>1, <1>2, <2>1
<1>5. command(p) = c /\ p[1][2] = Len(d)
  BY <1>1, <1>3 DEF command
<1>6. bytes(p) = [i \in 1 .. Len(d) |-> d[i]]
  BY <1>4, <1>5 DEF bytes
<1>7. d = [i \in 1 .. Len(d) |-> d[i]]
  OBVIOUS
<1>8. QED
  BY <1>5, <1>6, <1>7

LEMMA AskingShape ==
  ASSUME NEW m \in Asking
  PROVE  m \in Seq(Cell) /\ Len(m) = 3 /\ m[1] = <<"body_len", 1>>
<1>1. \A c \in {"LS", "PWD", "QUIT", "CD", "GET"} : c \in Commands
  BY DEF Commands
<1>2. Names \subseteq Text
  BY DEF Text
<1>3. PICK c \in Commands, a \in Text : m = Message(c, a)
  BY <1>1, <1>2 DEF Asking
<1>4. QED
  BY <1>3, MessageShape

\* Every request, and every answer, says in its first cell how long it is.
LEMMA UpHeaded == Headed(UpWay)
<1>1. SUFFICES ASSUME NEW m \in Asking
               PROVE  m \in Seq(Cell) /\ Len(m) >= 2 /\ m[1] = <<"body_len", Len(m) - 2>>
  BY DEF Headed, UpWay
<1>2. 3 >= 2 /\ 3 - 2 = 1
  OBVIOUS
<1>3. QED
  BY <1>2, AskingShape

LEMMA AnswerShape ==
  ASSUME NEW m \in Answer
  PROVE  m \in Seq(Cell) /\ Len(m) >= 2 /\ m[1] = <<"body_len", Len(m) - 2>>
<1>1. CASE \E a \in Text : m = Message("NO_FILE", a)
  <2>1. PICK a \in Text : m = Message("NO_FILE", a)
    BY <1>1
  <2>2. "NO_FILE" \in Commands
    BY DEF Commands
  <2>3. 3 >= 2 /\ 3 - 2 = 1
    OBVIOUS
  <2>4. QED
    BY <2>1, <2>2, <2>3, MessageShape
<1>2. CASE \E c \in Commands, d \in Seq(Byte) : m = Chunk(c, d)
  <2>1. PICK c \in Commands, d \in Seq(Byte) : m = Chunk(c, d)
    BY <1>2
  <2>2. Len(d) \in Nat
    OBVIOUS
  <2>3. QED
    BY <2>1, <2>2, ChunkShape
<1>3. QED
  BY <1>1, <1>2 DEF Answer

LEMMA DownHeaded == Headed(DownWay)
<1>1. SUFFICES ASSUME NEW m \in Answer
               PROVE  m \in Seq(Cell) /\ Len(m) >= 2 /\ m[1] = <<"body_len", Len(m) - 2>>
  BY DEF Headed, DownWay
<1>2. QED
  BY AnswerShape

\* The network moves one cell, and the stream is the same.
LEMMA StreamMoves ==
  ASSUME NEW p \in Seq(Cell), NEW q \in Seq(Cell), q # << >>
  PROVE  /\ Append(p, Head(q)) \o Tail(q) = p \o q
         /\ Append(p, Head(q)) \in Seq(Cell) /\ Tail(q) \in Seq(Cell)
         /\ Len(Append(p, Head(q))) = Len(p) + 1 /\ Len(Tail(q)) = Len(q) - 1
<1>1. Head(q) \in Cell /\ Tail(q) \in Seq(Cell)
  OBVIOUS
<1>2. Append(p, Head(q)) = p \o <<Head(q)>> /\ q = <<Head(q)>> \o Tail(q)
  <2>1. q = <<Head(q)>> \o Tail(q)
    BY HeadTailAppend
  <2>2. QED
    BY <1>1, <2>1, AppendIsConcat
<1>3. (p \o <<Head(q)>>) \o Tail(q) = p \o (<<Head(q)>> \o Tail(q))
  <2>1. <<Head(q)>> \in Seq(Cell)
    BY <1>1
  <2>2. QED
    BY <1>1, <2>1, ConcatAssociative
<1>4. QED
  BY <1>1, <1>2, <1>3

-----------------------------------------------------------------------------
(***************************************************************************)
(* The two streams. Each is a stream of messages as long as somebody reads *)
(* it, and a stream of whole ones as long as somebody writes it.           *)
(***************************************************************************)
UpOK ==
  /\ up \in Seq(Cell) /\ sbuf \in Seq(Cell) /\ Len(up) + Len(sbuf) <= Buffer
  /\ spc # "exit" => Framed(sbuf \o up, cEnd, 0, 0, {0}, UpWay)

DownOK ==
  /\ down \in Seq(Cell) /\ cbuf \in Seq(Cell) /\ Len(down) + Len(cbuf) <= Buffer
  /\ cEnd => Framed(cbuf \o down, spc # "exit", 0, 0, {0}, DownWay)

\* Who has the connection open.
EndsOK ==
  /\ cEnd \in BOOLEAN /\ sEnds \subseteq {"child", "parent"}
  /\ cEnd <=> cpc \notin {"exit", "killed"}
  /\ spc = "fork" => "parent" \in sEnds
  /\ spc \notin {"fork", "exit"} => "child" \in sEnds

\* What is in flight and what has arrived, one behind the other.
LEMMA StreamLens ==
  ASSUME NEW p \in Seq(Cell), NEW q \in Seq(Cell)
  PROVE  /\ Len(p) \in Nat /\ Len(q) \in Nat /\ p \o q \in Seq(Cell)
         /\ Len(p \o q) = Len(p) + Len(q)
         /\ p \o << >> = p /\ << >> \o q = q
BY ConcatProperties, ConcatEmptySeq

\* An end that has closed, or a child that has ended, changes nothing else.
LEMMA UpStays ==
  ASSUME UpOK, UNCHANGED <<up, sbuf>>, cEnd' = cEnd \/ cEnd' = FALSE,
         spc' # "exit" => spc # "exit"
  PROVE  UpOK'
<1>1. /\ up' \in Seq(Cell) /\ sbuf' \in Seq(Cell) /\ Len(up') + Len(sbuf') <= Buffer
      /\ sbuf' \o up' = sbuf \o up
  BY DEF UpOK
<1>2. ASSUME spc' # "exit"
      PROVE  Framed(sbuf' \o up', cEnd', 0, 0, {0}, UpWay)
  <2>1. Framed(sbuf \o up, cEnd, 0, 0, {0}, UpWay)
    BY <1>2 DEF UpOK
  <2>2. Framed(sbuf \o up, FALSE, 0, 0, {0}, UpWay)
    BY <2>1, FrameCut DEF UpOK
  <2>3. QED
    BY <1>1, <2>1, <2>2
<1>3. QED
  BY <1>1, <1>2 DEF UpOK

LEMMA DownStays ==
  ASSUME DownOK, UNCHANGED <<down, cbuf>>, cEnd' => cEnd,
         spc' = spc \/ spc' = "exit"
         \/ (spc # "exit" /\ spc' # "exit")
  PROVE  DownOK'
<1>1. /\ down' \in Seq(Cell) /\ cbuf' \in Seq(Cell) /\ Len(down') + Len(cbuf') <= Buffer
      /\ cbuf' \o down' = cbuf \o down
  BY DEF DownOK
<1>2. ASSUME cEnd'
      PROVE  Framed(cbuf' \o down', spc' # "exit", 0, 0, {0}, DownWay)
  <2>1. Framed(cbuf \o down, spc # "exit", 0, 0, {0}, DownWay)
    BY <1>2 DEF DownOK
  <2>2. Framed(cbuf \o down, FALSE, 0, 0, {0}, DownWay)
    BY <2>1, FrameCut DEF DownOK
  <2>3. (spc' # "exit") = (spc # "exit") \/ (spc' # "exit") = FALSE
    OBVIOUS
  <2>4. QED
    BY <1>1, <2>1, <2>2, <2>3
<1>3. QED
  BY <1>1, <1>2 DEF DownOK

\* deliver.
LEMMA StreamsDelivered ==
  ASSUME UpOK, DownOK, deliver
  PROVE  /\ UpOK' /\ DownOK'
         /\ sbuf' \o up' = sbuf \o up /\ cbuf' \o down' = cbuf \o down
<1>1. UNCHANGED <<cEnd, spc>>
  BY DEF deliver, child
<1>2. CASE up # << >> /\ up' = Tail(up) /\ sbuf' = Append(sbuf, Head(up))
           /\ UNCHANGED <<down, cbuf>>
  <2>1. up \in Seq(Cell) /\ sbuf \in Seq(Cell) /\ Len(up) + Len(sbuf) <= Buffer
    BY DEF UpOK
  <2>2. /\ sbuf' \o up' = sbuf \o up /\ sbuf' \in Seq(Cell) /\ up' \in Seq(Cell)
        /\ Len(sbuf') = Len(sbuf) + 1 /\ Len(up') = Len(up) - 1
    BY <1>2, <2>1, StreamMoves
  <2>3. Len(up') + Len(sbuf') <= Buffer
    BY <2>1, <2>2, StreamLens
  <2>4. UpOK'
    BY <1>1, <2>2, <2>3 DEF UpOK
  <2>5. DownOK'
    BY <1>1, <1>2, DownStays
  <2>6. QED
    BY <1>2, <2>2, <2>4, <2>5
<1>3. CASE down # << >> /\ down' = Tail(down) /\ cbuf' = Append(cbuf, Head(down))
           /\ UNCHANGED <<up, sbuf>>
  <2>1. down \in Seq(Cell) /\ cbuf \in Seq(Cell) /\ Len(down) + Len(cbuf) <= Buffer
    BY DEF DownOK
  <2>2. /\ cbuf' \o down' = cbuf \o down /\ cbuf' \in Seq(Cell) /\ down' \in Seq(Cell)
        /\ Len(cbuf') = Len(cbuf) + 1 /\ Len(down') = Len(down) - 1
    BY <1>3, <2>1, StreamMoves
  <2>3. Len(down') + Len(cbuf') <= Buffer
    BY <2>1, <2>2, StreamLens
  <2>4. DownOK'
    BY <1>1, <2>2, <2>3 DEF DownOK
  <2>5. UpOK'
    BY <1>1, <1>3, UpStays
  <2>6. QED
    BY <1>3, <2>2, <2>4, <2>5
<1>4. QED
  BY <1>2, <1>3 DEF deliver

\* reset: what is lost is the end of the stream, which may be cut by now.
LEMMA StreamsReset ==
  ASSUME UpOK, DownOK, EndsOK, reset
  PROVE  UpOK' /\ DownOK'
<1>1. UNCHANGED <<sbuf, cbuf, cEnd, spc>>
  BY DEF reset, child
<1>2. /\ up \in Seq(Cell) /\ sbuf \in Seq(Cell) /\ Len(up) + Len(sbuf) <= Buffer
      /\ down \in Seq(Cell) /\ cbuf \in Seq(Cell) /\ Len(down) + Len(cbuf) <= Buffer
  BY DEF UpOK, DownOK
<1>3. Len(<< >>) = 0 /\ << >> \in Seq(Cell) /\ Buffer \in Nat
  BY OftpAssumption
<1>4. CASE ~cEnd /\ up' = << >> /\ UNCHANGED down
  <2>1. /\ up' \in Seq(Cell) /\ sbuf' \in Seq(Cell) /\ Len(up') + Len(sbuf') <= Buffer
        /\ sbuf' \o up' = sbuf
    BY <1>1, <1>2, <1>3, <1>4, StreamLens
  <2>2. spc # "exit" => Framed(sbuf, FALSE, 0, 0, {0}, UpWay)
    BY <1>2, FrameCut DEF UpOK
  <2>3. cEnd' = FALSE
    BY <1>1, <1>4 DEF EndsOK
  <2>4. UpOK'
    BY <1>1, <2>1, <2>2, <2>3 DEF UpOK
  <2>5. QED
    BY <1>1, <1>4, <2>4, DownStays
<1>5. CASE sEnds = {} /\ down' = << >> /\ UNCHANGED up
  <2>1. /\ down' \in Seq(Cell) /\ cbuf' \in Seq(Cell)
        /\ Len(down') + Len(cbuf') <= Buffer
        /\ cbuf' \o down' = cbuf
    BY <1>1, <1>2, <1>3, <1>5, StreamLens
  <2>2. cEnd => Framed(cbuf, FALSE, 0, 0, {0}, DownWay)
    BY <1>2, FrameCut DEF DownOK
  <2>3. spc = "exit" /\ (spc' # "exit") = FALSE
    BY <1>1, <1>5 DEF EndsOK
  <2>4. DownOK'
    BY <1>1, <2>1, <2>2, <2>3 DEF DownOK
  <2>5. QED
    BY <1>1, <1>5, <2>4, UpStays
<1>6. QED
  BY <1>4, <1>5 DEF reset

\* serv_client_short: the piece that recv returned is the last that is read.
LEMMA UpDropped ==
  ASSUME UpOK, up' = up, sbuf' = << >>, spc' = "exit"
  PROVE  UpOK'
<1>1. up \in Seq(Cell) /\ sbuf \in Seq(Cell) /\ Len(up) + Len(sbuf) <= Buffer
  BY DEF UpOK
<1>2. Len(<< >>) = 0 /\ << >> \in Seq(Cell) /\ Buffer \in Nat
  BY OftpAssumption
<1>3. Len(up') + Len(sbuf') <= Buffer
  BY <1>1, <1>2, StreamLens
<1>4. QED
  BY <1>1, <1>2, <1>3 DEF UpOK

\* A request is read: one that the client sends.
LEMMA UpReceived ==
  ASSUME UpOK, NEW c, Receive(c)
  PROVE  /\ up' \in Seq(Cell) /\ sbuf' \in Seq(Cell) /\ Len(up') + Len(sbuf') <= Buffer
         /\ Framed(sbuf' \o up', cEnd', 0, 0, {0}, UpWay)
         /\ c \in {"LS", "PWD", "QUIT", "CD", "GET"} /\ arg(sbuf) \in Text
         /\ c = "GET" => arg(sbuf) \in Names
<1>1. /\ spc = "select" /\ sbuf # << >> /\ Len(sbuf) >= total_len(sbuf)
      /\ command(sbuf) = c /\ sbuf' = Rest(sbuf) /\ up' = up /\ cEnd' = cEnd
  BY DEF Receive
<1>2. /\ up \in Seq(Cell) /\ sbuf \in Seq(Cell) /\ Len(up) + Len(sbuf) <= Buffer
      /\ Framed(sbuf \o up, cEnd, 0, 0, {0}, UpWay)
  BY <1>1 DEF UpOK
<1>3. PICK m \in Seq(Cell), t \in {0} :
        /\ <<0, m, t>> \in UpWay /\ Len(m) = total_len(sbuf) /\ Len(m) \in Nat
        /\ \A i \in 1 .. Len(m) : sbuf[i] = m[i]
        /\ Rest(sbuf) \in Seq(Cell) /\ Len(Rest(sbuf)) = Len(sbuf) - Len(m)
        /\ Framed(Rest(sbuf) \o up, cEnd, t, 0, {0}, UpWay)
  <2>1. Headed(UpWay)
    BY UpHeaded
  <2>2. PICK p, q, w, S, R, z :
          /\ S = {0} /\ R = UpWay /\ z = 0
          /\ p = sbuf /\ q = up /\ w = (cEnd)
    OBVIOUS
  <2>3. /\ p \in Seq(Cell) /\ q \in Seq(Cell) /\ p # << >> /\ Len(p) >= total_len(p)
        /\ Framed(p \o q, w, z, z, S, R)
    BY <2>2, <1>1, <1>2
  <2>4. Headed(R)
    BY <2>1, <2>2
  <2>5. \E m \in Seq(Cell), t \in S :
          /\ <<z, m, t>> \in R /\ Len(m) = total_len(p) /\ Len(m) \in Nat
          /\ \A i \in 1 .. Len(m) : p[i] = m[i]
          /\ Rest(p) \in Seq(Cell) /\ Len(Rest(p)) = Len(p) - Len(m)
          /\ Framed(Rest(p) \o q, w, t, z, S, R)
    BY <2>3, <2>4, FrameTake
  <2>6. QED
    BY <2>2, <2>5
<1>4. /\ up' \in Seq(Cell) /\ sbuf' \in Seq(Cell)
      /\ Framed(sbuf' \o up', cEnd', 0, 0, {0}, UpWay)
  BY <1>1, <1>2, <1>3
<1>5. Len(up') + Len(sbuf') <= Buffer
  <2>1. Len(sbuf) \in Nat /\ Len(up) \in Nat /\ Buffer \in Nat
    BY <1>2, StreamLens, OftpAssumption
  <2>2. QED
    BY <1>1, <1>2, <1>3, <2>1
<1>6. m \in Asking
  BY <1>3 DEF UpWay
<1>7. CASE \E x \in {"LS", "PWD", "QUIT", "CD"}, a \in Text : m = Message(x, a)
  <2>1. PICK x \in {"LS", "PWD", "QUIT", "CD"}, a \in Text : m = Message(x, a)
    BY <1>7
  <2>2. x \in Commands
    BY DEF Commands
  <2>3. command(sbuf) = x /\ arg(sbuf) = a
    BY <1>3, <2>1, <2>2, MessageRead
  <2>4. QED
    BY <1>1, <1>4, <1>5, <2>3
<1>8. CASE \E n \in Names : m = Message("GET", n)
  <2>1. PICK n \in Names : m = Message("GET", n)
    BY <1>8
  <2>2. "GET" \in Commands /\ n \in Text
    BY DEF Commands, Text
  <2>3. command(sbuf) = "GET" /\ arg(sbuf) = n
    BY <1>3, <2>1, <2>2, MessageRead
  <2>4. QED
    BY <1>1, <1>4, <1>5, <2>2, <2>3
<1>9. QED
  BY <1>6, <1>7, <1>8 DEF Asking

\* A request is sent, whole.
LEMMA UpSent ==
  ASSUME UpOK, EndsOK, NEW m \in Asking, ClientSend(m), sbuf' = sbuf, cEnd,
         cEnd' \in BOOLEAN, spc' = spc
  PROVE  UpOK'
<1>1. /\ up \in Seq(Cell) /\ sbuf \in Seq(Cell) /\ Len(up) + Len(sbuf) <= Buffer
  BY DEF UpOK
<1>2. CASE sEnds = {} /\ UNCHANGED up
  <2>1. spc = "exit"
    BY <1>2 DEF EndsOK
  <2>2. QED
    BY <1>1, <1>2, <2>1 DEF UpOK
<1>3. CASE Len(up) + Len(sbuf) + Len(m) <= Buffer /\ up' = up \o m
  <2>1. m \in Seq(Cell)
    BY AskingShape
  <2>2. up' \in Seq(Cell) /\ Len(up') + Len(sbuf') <= Buffer
    BY <1>1, <1>3, <2>1, StreamLens
  <2>3. sbuf' \o up' = (sbuf \o up) \o m
    <3>1. (sbuf \o up) \o m = sbuf \o (up \o m)
      BY <1>1, <2>1, ConcatAssociative
    <3>2. QED
      BY <1>3, <3>1
  <2>4. ASSUME spc # "exit"
        PROVE  Framed((sbuf \o up) \o m, cEnd', 0, 0, {0}, UpWay)
    <3>1. Framed(sbuf \o up, TRUE, 0, 0, {0}, UpWay)
      BY <2>4 DEF UpOK
    <3>2. sbuf \o up \in Seq(Cell)
      BY <1>1, StreamLens
    <3>3. <<0, m, 0>> \in UpWay
      BY DEF UpWay
    <3>4. QED
      BY <3>1, <3>2, <3>3, FrameAdd, UpHeaded
  <2>5. QED
    BY <1>1, <2>2, <2>3, <2>4 DEF UpOK
<1>4. QED
  BY <1>2, <1>3 DEF ClientSend

\* An answer is read.
LEMMA DownReceived ==
  ASSUME DownOK, Whole(cbuf), cbuf' = Rest(cbuf), down' = down,
         spc' = spc, cEnd, cEnd' \in BOOLEAN
  PROVE  DownOK' /\ (command(cbuf) # "NO_FILE" => bytes(cbuf) \in Seq(Byte))
<1>1. /\ down \in Seq(Cell) /\ cbuf \in Seq(Cell) /\ Len(down) + Len(cbuf) <= Buffer
      /\ Framed(cbuf \o down, spc # "exit", 0, 0, {0}, DownWay)
      /\ cbuf # << >> /\ Len(cbuf) >= total_len(cbuf)
  BY DEF DownOK, Whole
<1>2. PICK m \in Seq(Cell), t \in {0} :
        /\ <<0, m, t>> \in DownWay /\ Len(m) = total_len(cbuf) /\ Len(m) \in Nat
        /\ \A i \in 1 .. Len(m) : cbuf[i] = m[i]
        /\ Rest(cbuf) \in Seq(Cell) /\ Len(Rest(cbuf)) = Len(cbuf) - Len(m)
        /\ Framed(Rest(cbuf) \o down, spc # "exit", t, 0, {0}, DownWay)
  <2>1. Headed(DownWay)
    BY DownHeaded
  <2>2. PICK p, q, w, S, R, z :
          /\ S = {0} /\ R = DownWay /\ z = 0
          /\ p = cbuf /\ q = down /\ w = (spc # "exit")
    OBVIOUS
  <2>3. /\ p \in Seq(Cell) /\ q \in Seq(Cell) /\ p # << >> /\ Len(p) >= total_len(p)
        /\ Framed(p \o q, w, z, z, S, R)
    BY <2>2, <1>1
  <2>4. Headed(R)
    BY <2>1, <2>2
  <2>5. \E m \in Seq(Cell), t \in S :
          /\ <<z, m, t>> \in R /\ Len(m) = total_len(p) /\ Len(m) \in Nat
          /\ \A i \in 1 .. Len(m) : p[i] = m[i]
          /\ Rest(p) \in Seq(Cell) /\ Len(Rest(p)) = Len(p) - Len(m)
          /\ Framed(Rest(p) \o q, w, t, z, S, R)
    BY <2>3, <2>4, FrameTake
  <2>6. QED
    BY <2>2, <2>5
<1>3. Len(down') + Len(cbuf') <= Buffer
  <2>1. Len(cbuf) \in Nat /\ Len(down) \in Nat /\ Buffer \in Nat
    BY <1>1, StreamLens, OftpAssumption
  <2>2. QED
    BY <1>1, <1>2, <2>1
<1>4. Framed(cbuf' \o down', spc' # "exit", 0, 0, {0}, DownWay)
  BY <1>2
<1>5. DownOK'
  BY <1>1, <1>2, <1>3, <1>4 DEF DownOK
<1>6. m \in Answer
  BY <1>2 DEF DownWay
<1>7. CASE \E a \in Text : m = Message("NO_FILE", a)
  <2>1. PICK a \in Text : m = Message("NO_FILE", a)
    BY <1>7
  <2>2. "NO_FILE" \in Commands
    BY DEF Commands
  <2>3. command(cbuf) = "NO_FILE"
    BY <1>2, <2>1, <2>2, MessageRead
  <2>4. QED
    BY <1>5, <2>3
<1>8. CASE \E c \in Commands, d \in Seq(Byte) : m = Chunk(c, d)
  <2>1. PICK c \in Commands, d \in Seq(Byte) : m = Chunk(c, d)
    BY <1>8
  <2>2. bytes(cbuf) = d
    BY <1>2, <2>1, ChunkRead
  <2>3. QED
    BY <1>5, <2>1, <2>2
<1>9. QED
  BY <1>6, <1>7, <1>8 DEF Answer

\* The rest of a stream that ended is thrown away.
LEMMA DownDropped ==
  ASSUME DownOK, ClientEof, cbuf' = << >>, down' = down
  PROVE  DownOK'
<1>1. down' = << >> /\ cbuf' = << >> /\ Len(<< >>) = 0 /\ << >> \in Seq(Cell)
  BY DEF ClientEof
<1>2. cbuf' \o down' = << >>
  BY <1>1, StreamLens
<1>3. Framed(<< >>, spc' # "exit", 0, 0, {0}, DownWay)
  BY FrameEmpty
<1>4. Len(down') + Len(cbuf') <= Buffer
  BY <1>1, OftpAssumption
<1>5. QED
  BY <1>1, <1>2, <1>3, <1>4 DEF DownOK

\* An answer is sent, whole.
LEMMA DownSent ==
  ASSUME DownOK, NEW m \in Answer, ServSend(m), cbuf' = cbuf, cEnd' = cEnd,
         spc # "exit"
  PROVE  DownOK'
<1>1. /\ down \in Seq(Cell) /\ cbuf \in Seq(Cell) /\ Len(down) + Len(cbuf) <= Buffer
  BY DEF DownOK
<1>2. CASE ~cEnd /\ UNCHANGED down
  BY <1>1, <1>2 DEF DownOK
<1>3. CASE cEnd /\ Len(down) + Len(cbuf) + Len(m) <= Buffer /\ down' = down \o m
  <2>1. m \in Seq(Cell)
    BY AnswerShape
  <2>2. down' \in Seq(Cell) /\ Len(down') + Len(cbuf') <= Buffer
    BY <1>1, <1>3, <2>1, StreamLens
  <2>3. cbuf' \o down' = (cbuf \o down) \o m
    <3>1. (cbuf \o down) \o m = cbuf \o (down \o m)
      BY <1>1, <2>1, ConcatAssociative
    <3>2. QED
      BY <1>3, <3>1
  <2>4. Framed((cbuf \o down) \o m, spc' # "exit", 0, 0, {0}, DownWay)
    <3>1. (spc # "exit") = TRUE
      OBVIOUS
    <3>2. Framed(cbuf \o down, TRUE, 0, 0, {0}, DownWay)
      BY <1>3, <3>1 DEF DownOK
    <3>3. cbuf \o down \in Seq(Cell)
      BY <1>1, StreamLens
    <3>4. <<0, m, 0>> \in DownWay
      BY DEF DownWay
    <3>5. QED
      BY <3>2, <3>3, <3>4, FrameAdd, DownHeaded
  <2>5. QED
    BY <1>1, <2>2, <2>3, <2>4 DEF DownOK
<1>4. QED
  BY <1>2, <1>3 DEF ServSend

-----------------------------------------------------------------------------
(***************************************************************************)
(* The inductive invariant of the types and of where messages begin.       *)
(***************************************************************************)

\* The rest of OftpTypeOK.
HeldOK ==
  /\ spc \in {"fork", "select", "get", "nofile", "pipe", "exit"}
  /\ scmd \in Commands /\ sname \in Text
  /\ soff \in Nat /\ sout \in Seq(Byte) /\ scwd \in Dirs
  /\ cpc \in {"main", "stdin", "send", "get", "exit", "killed"}
  /\ ccmd \in Commands /\ cname \in Text
  /\ copen \in BOOLEAN /\ lcwd \in UserDirs
  /\ local \in [UserDirs \X Names -> Entry]
  /\ remote \in [Dirs \X Names -> Entry]

\* What the command at hand is about.
AskedOK ==
  /\ spc = "get" => sname \in Names
  /\ cpc = "send" => ccmd \in {"LS", "PWD", "QUIT", "CD", "GET"}
  /\ cpc = "send" /\ ccmd = "GET" => cname \in Names
  /\ cpc = "get" => cname \in Names

OftpInv == UpOK /\ DownOK /\ EndsOK /\ HeldOK /\ AskedOK

\* The invariant is strong enough for the two properties.
LEMMA InvGivesTypes ==
  ASSUME OftpInv
  PROVE  OftpTypeOK
<1>1. up \in Seq(Cell) /\ sbuf \in Seq(Cell) /\ down \in Seq(Cell) /\ cbuf \in Seq(Cell)
  BY DEF OftpInv, UpOK, DownOK
<1>2. up \o sbuf \in Seq(Cell) /\ down \o cbuf \in Seq(Cell)
  BY <1>1, StreamLens
<1>3. QED
  BY <1>2 DEF OftpInv, UpOK, DownOK, EndsOK, HeldOK, OftpTypeOK

LEMMA InvGivesAligned ==
  ASSUME OftpInv
  PROVE  Aligned
<1>1. ASSUME spc # "exit", sbuf \o up # << >> PROVE (sbuf \o up)[1][1] = "body_len"
  <2>1. sbuf \o up \in Seq(Cell) /\ Framed(sbuf \o up, cEnd, 0, 0, {0}, UpWay)
    BY <1>1, StreamLens DEF OftpInv, UpOK
  <2>2. QED
    BY <1>1, <2>1, FrameHead, UpHeaded
<1>2. ASSUME cEnd, cbuf \o down # << >> PROVE (cbuf \o down)[1][1] = "body_len"
  <2>1. /\ cbuf \o down \in Seq(Cell)
        /\ Framed(cbuf \o down, spc # "exit", 0, 0, {0}, DownWay)
    BY <1>2, StreamLens DEF OftpInv, DownOK
  <2>2. QED
    BY <1>2, <2>1, FrameHead, DownHeaded
<1>3. QED
  BY <1>1, <1>2 DEF Aligned

\* Before the fork nothing has been sent.
LEMMA OftpStart ==
  ASSUME OftpInit
  PROVE  OftpInv
<1>1. << >> \o << >> = << >> /\ << >> \in Seq(Cell) /\ Len(<< >>) = 0 /\ Buffer \in Nat
  BY StreamLens, OftpAssumption
<1>2. /\ Framed(<< >>, cEnd, 0, 0, {0}, UpWay)
      /\ Framed(<< >>, spc # "exit", 0, 0, {0}, DownWay)
  BY FrameEmpty
<1>3. UpOK /\ DownOK
  <2>1. /\ up = << >> /\ sbuf = << >> /\ down = << >> /\ cbuf = << >>
        /\ sbuf \o up = << >> /\ cbuf \o down = << >>
    BY <1>1 DEF OftpInit
  <2>2. Framed(sbuf \o up, cEnd, 0, 0, {0}, UpWay)
    BY <1>2, <2>1
  <2>3. Framed(cbuf \o down, spc # "exit", 0, 0, {0}, DownWay)
    BY <1>2, <2>1
  <2>4. Len(up) + Len(sbuf) <= Buffer /\ Len(down) + Len(cbuf) <= Buffer
    BY <1>1, <2>1
  <2>5. QED
    BY <1>1, <2>1, <2>2, <2>3, <2>4 DEF UpOK, DownOK
<1>4. EndsOK
  BY DEF OftpInit, EndsOK
<1>5. "PWD" \in Commands /\ EmptyName \in Text /\ << >> \in Seq(Byte)
  BY DEF Commands, Text
<1>6. HeldOK /\ AskedOK
  BY <1>5, OftpAssumption DEF OftpInit, HeldOK, AskedOK
<1>7. QED
  BY <1>3, <1>4, <1>6 DEF OftpInv

-----------------------------------------------------------------------------
(***************************************************************************)
(* The steps of the network, the parent and the child.                     *)
(***************************************************************************)
\* deliver and reset change nothing but the streams.
LEMMA NetworkStep ==
  ASSUME OftpInv, deliver \/ reset
  PROVE  OftpInv'
<1>1. UNCHANGED <<cEnd, sEnds, child, client, remote>>
  BY DEF deliver, reset
<1>2. UpOK' /\ DownOK'
  BY StreamsDelivered, StreamsReset DEF OftpInv
<1>3. EndsOK' /\ HeldOK' /\ AskedOK'
  BY <1>1 DEF OftpInv, EndsOK, HeldOK, AskedOK, child, client
<1>4. QED
  BY <1>2, <1>3 DEF OftpInv

\* main_fork and main_close leave the streams alone.
LEMMA ParentStep ==
  ASSUME OftpInv, main_fork \/ main_close
  PROVE  OftpInv'
<1>1. /\ UNCHANGED <<up, sbuf, down, cbuf, cEnd, client, remote>>
      /\ UNCHANGED <<scmd, sname, soff, sout, scwd>>
  BY DEF main_fork, main_close, child
<1>2. /\ spc' = spc \/ (spc = "fork" /\ spc' \in {"select", "exit"})
      /\ sEnds' \in {sEnds, sEnds \cup {"child"}, sEnds \ {"parent"}}
      /\ spc' = "fork" => sEnds' = sEnds
      /\ spc' \notin {"fork", "exit"} => "child" \in sEnds'
  BY DEF main_fork, main_close, child, OftpInv, EndsOK
<1>3. UpOK'
  BY <1>1, <1>2, UpStays DEF OftpInv
<1>4. DownOK'
  BY <1>1, <1>2, DownStays DEF OftpInv
<1>5. EndsOK' /\ HeldOK' /\ AskedOK'
  BY <1>1, <1>2 DEF OftpInv, EndsOK, HeldOK, AskedOK, client
<1>6. QED
  BY <1>3, <1>4, <1>5 DEF OftpInv

\* What the child is at after a step, and what it keeps.
ChildNext ==
  /\ UNCHANGED <<cEnd, client, remote>>
  /\ \/ spc' = "exit" /\ sEnds' = sEnds \ {"child"}
     \/ /\ spc # "exit" /\ spc # "fork"
        /\ spc' \in {"select", "get", "nofile", "pipe"} /\ sEnds' = sEnds
  /\ scmd' \in Commands /\ sname' \in Text /\ soff' \in Nat /\ sout' \in Seq(Byte)
  /\ scwd' \in Dirs
  /\ spc' = "get" => sname' \in Names

\* What the child does to its variables fits their types.
LEMMA ChildKeeps ==
  ASSUME OftpInv, ChildNext
  PROVE  EndsOK' /\ HeldOK' /\ AskedOK'
BY DEF OftpInv, ChildNext, EndsOK, HeldOK, AskedOK, client

\* A request is done with, or the child ends.
LEMMA ToSelectNext ==
  ASSUME OftpInv, UNCHANGED <<cEnd, client, remote>>, scwd' \in Dirs,
         ToExit \/ (ToSelect /\ spc \notin {"fork", "exit"})
  PROVE  ChildNext
<1>1. "PWD" \in Commands /\ EmptyName \in Text /\ << >> \in Seq(Byte) /\ 0 \in Nat
  BY DEF Commands, Text
<1>2. QED
  BY <1>1 DEF ToExit, ToSelect, Locals, ChildNext

\* The child ends and leaves the connection as it is.
ChildQuits ==
  \/ serv_client_timeout \/ serv_client_closed \/ serv_client_short
  \/ handler_sock_error \/ child_crash

LEMMA ChildQuitsStep ==
  ASSUME OftpInv, ChildQuits, UNCHANGED <<client, remote>>
  PROVE  OftpInv'
<1>1. /\ ToExit /\ UNCHANGED <<up, down, cbuf, cEnd, scwd>> /\ spc' = "exit"
      /\ sbuf' = sbuf \/ sbuf' = << >>
  BY DEF ChildQuits, serv_client_timeout, serv_client_closed, serv_client_short,
         handler_sock_error, SockError, child_crash, ToExit
<1>2. scwd' \in Dirs
  BY <1>1 DEF OftpInv, HeldOK
<1>3. ChildNext
  BY <1>1, <1>2, ToSelectNext
<1>4. UpOK'
  BY <1>1, UpStays, UpDropped DEF OftpInv
<1>5. DownOK'
  BY <1>1, DownStays DEF OftpInv
<1>6. QED
  BY <1>3, <1>4, <1>5, ChildKeeps DEF OftpInv

\* A request is read.
LEMMA ReceiveStep ==
  ASSUME OftpInv, NEW c, Receive(c), ChildNext
  PROVE  OftpInv'
<1>1. /\ UNCHANGED <<up, down, cbuf, cEnd>> /\ spc = "select"
  BY DEF Receive
<1>2. UpOK'
  BY UpReceived DEF OftpInv, UpOK
<1>3. DownOK'
  BY <1>1, DownStays DEF OftpInv, ChildNext
<1>4. QED
  BY <1>2, <1>3, ChildKeeps DEF OftpInv

ChildReceives ==
  \/ serv_client_quit \/ handle_request_cd \/ handle_request_get
  \/ \E c \in {"LS", "PWD"} : handle_request_popen(c)

\* The branches of handle_request.
LEMMA ChildReceivesStep ==
  ASSUME OftpInv, ChildReceives, UNCHANGED <<client, remote>>
  PROVE  OftpInv'
<1>1. scwd \in Dirs /\ "GET" \in Commands /\ "LS" \in Commands /\ "PWD" \in Commands
      /\ EmptyName \in Text /\ << >> \in Seq(Byte) /\ Listings \subseteq Seq(Byte)
  BY OftpAssumption DEF OftpInv, HeldOK, Commands, Text
<1>2. CASE serv_client_quit
  <2>1. Receive("QUIT") /\ ToExit /\ scwd' = scwd
    BY <1>2 DEF serv_client_quit
  <2>2. ChildNext
    BY <1>1, <2>1, ToSelectNext DEF Receive
  <2>3. QED
    BY <2>1, <2>2, ReceiveStep
<1>3. CASE handle_request_cd
  <2>1. /\ Receive("CD") /\ ToSelect
        /\ scwd' = IF arg(sbuf) \in Dirs THEN arg(sbuf) ELSE scwd
    BY <1>3 DEF handle_request_cd
  <2>2. ChildNext
    BY <1>1, <2>1, ToSelectNext DEF Receive
  <2>3. QED
    BY <2>1, <2>2, ReceiveStep
<1>4. CASE handle_request_get
  <2>1. Receive("GET") /\ arg(sbuf) \in Names /\ arg(sbuf) \in Text
    BY <1>4, UpReceived DEF handle_request_get, OftpInv
  <2>2. /\ \/ spc' \in {"get", "nofile"} /\ Locals("GET", arg(sbuf), << >>)
              /\ UNCHANGED sEnds
           \/ ToSelect
        /\ scwd' = scwd
    BY <1>4 DEF handle_request_get
  <2>3. UNCHANGED cEnd /\ spc = "select"
    BY <2>1 DEF Receive
  <2>4. ChildNext
    <3>1. CASE ToSelect
      BY <1>1, <2>2, <2>3, <3>1, ToSelectNext
    <3>2. CASE /\ spc' \in {"get", "nofile"} /\ Locals("GET", arg(sbuf), << >>)
               /\ UNCHANGED sEnds
      BY <1>1, <2>1, <2>2, <2>3, <3>2 DEF ChildNext, Locals
    <3>3. QED
      BY <2>2, <3>1, <3>2
  <2>5. QED
    BY <2>1, <2>4, ReceiveStep
<1>5. ASSUME NEW c \in {"LS", "PWD"}, handle_request_popen(c)
      PROVE  OftpInv'
  <2>1. /\ Receive(c) /\ scwd' = scwd
        /\ \/ \E out \in Listings :
                spc' = "pipe" /\ Locals(c, EmptyName, out) /\ UNCHANGED sEnds
           \/ ToSelect
    BY <1>5 DEF handle_request_popen
  <2>2. UNCHANGED cEnd /\ spc = "select"
    BY <2>1 DEF Receive
  <2>3. ChildNext
    BY <1>1, <2>1, <2>2, ToSelectNext DEF ChildNext, Locals
  <2>4. QED
    BY <2>1, <2>3, ReceiveStep
<1>6. QED
  BY <1>2, <1>3, <1>4, <1>5 DEF ChildReceives

\* An answer is sent.
LEMMA SendStep ==
  ASSUME OftpInv, NEW m \in Answer, ServSend(m), UNCHANGED <<up, sbuf, cbuf>>,
         spc # "exit", ChildNext
  PROVE  OftpInv'
<1>1. cEnd' = cEnd
  BY DEF ChildNext
<1>2. UpOK'
  BY <1>1, UpStays DEF OftpInv
<1>3. DownOK'
  BY <1>1, DownSent DEF OftpInv
<1>4. QED
  BY <1>2, <1>3, ChildKeeps DEF OftpInv

\* The block a handler reads.
LEMMA FileBlock ==
  ASSUME OftpInv, spc = "get"
  PROVE  LET d == BlockAt(remote[<<scwd, sname>>].data, soff)
         IN  d \in Seq(Byte) /\ Len(d) \in Nat
<1> DEFINE f == remote[<<scwd, sname>>].data
<1>1. f \in Seq(Byte) /\ soff \in Nat
  <2>1. <<scwd, sname>> \in Dirs \X Names
    BY DEF OftpInv, HeldOK, AskedOK
  <2>2. remote[<<scwd, sname>>] \in Entry
    BY <2>1 DEF OftpInv, HeldOK
  <2>3. QED
    BY <2>2, EntryData DEF OftpInv, HeldOK
<1> HIDE DEF f
<1>2. BlockAt(f, soff) \in Seq(Byte)
  BY <1>1, BlockType
<1>3. QED
  BY <1>2 DEF f

ChildSends ==
  \/ handle_get_no_file \/ handle_get \/ handle_get_read_error \/ handle_ls_pwd

\* Each handler of the child that sends, and its last message.
LEMMA ChildSendsStep ==
  ASSUME OftpInv, ChildSends, UNCHANGED <<client, remote>>
  PROVE  OftpInv'
<1>1. /\ UNCHANGED <<up, sbuf, cbuf, cEnd, scwd>> /\ scwd' \in Dirs
      /\ spc \in {"nofile", "get", "pipe"}
      /\ scmd \in Commands /\ sname \in Text /\ soff \in Nat /\ sout \in Seq(Byte)
  BY DEF ChildSends, handle_get_no_file, handle_get, handle_get_read_error,
         handle_ls_pwd, OftpInv, HeldOK
<1>2. ToSelect \/ ToExit => ChildNext
  BY <1>1, ToSelectNext
<1>3. CASE handle_get_no_file
  <2>1. CASE ServSend(Message("NO_FILE", sname)) /\ ToSelect
    <3>1. Message("NO_FILE", sname) \in Answer
      BY <1>1 DEF Answer
    <3>2. QED
      BY <1>1, <1>2, <2>1, <3>1, SendStep
  <2>2. CASE SockError
    <3>1. ToExit /\ UNCHANGED down /\ spc' = "exit"
      BY <2>2 DEF SockError, ToExit
    <3>2. UpOK' /\ DownOK'
      BY <1>1, <3>1, UpStays, DownStays DEF OftpInv
    <3>3. QED
      BY <1>2, <3>1, <3>2, ChildKeeps DEF OftpInv
  <2>3. QED
    BY <1>3, <2>1, <2>2 DEF handle_get_no_file
<1>4. CASE handle_get
  <2>1. PICK d : /\ d = BlockAt(remote[<<scwd, sname>>].data, soff) /\ spc = "get"
                 /\ ServSend(Chunk(IF d = << >> THEN "END_FILE" ELSE "GET", d))
                 /\ \/ ToSelect
                    \/ /\ soff' = soff + Len(d)
                       /\ UNCHANGED <<spc, scmd, sname, sout, sEnds>>
    BY <1>4 DEF handle_get
  <2>2. d \in Seq(Byte) /\ Len(d) \in Nat
    BY <2>1, FileBlock
  <2>3. PICK c \in {"END_FILE", "GET"} : c = IF d = << >> THEN "END_FILE" ELSE "GET"
    OBVIOUS
  <2>4. Chunk(c, d) \in Answer /\ ServSend(Chunk(c, d))
    BY <2>1, <2>2, <2>3 DEF Answer, Commands
  <2>5. ChildNext
    BY <1>1, <1>2, <2>1, <2>2 DEF ChildNext, OftpInv, AskedOK
  <2>6. QED
    BY <1>1, <2>4, <2>5, SendStep
<1>5. CASE handle_get_read_error
  <2>1. Chunk("ERROR_FILE", << >>) \in Answer
    <3>1. "ERROR_FILE" \in Commands /\ << >> \in Seq(Byte)
      BY DEF Commands
    <3>2. \A c \in Commands, d \in Seq(Byte) : Chunk(c, d) \in Answer
      BY DEF Answer
    <3>3. QED
      BY <3>1, <3>2
  <2>2. ServSend(Chunk("ERROR_FILE", << >>)) /\ ToSelect
    BY <1>5 DEF handle_get_read_error
  <2>3. QED
    BY <1>1, <1>2, <2>1, <2>2, SendStep
<1>6. CASE handle_ls_pwd
  <2>1. PICK d : /\ d = BlockAt(sout, soff) /\ spc = "pipe"
                 /\ ServSend(Chunk(scmd, d))
                 /\ \/ ToSelect \/ ToExit
                    \/ /\ soff' = soff + Len(d)
                       /\ UNCHANGED <<spc, scmd, sname, sout, sEnds>>
    BY <1>6 DEF handle_ls_pwd
  <2>2. d \in Seq(Byte) /\ Len(d) \in Nat
    BY <1>1, <2>1, BlockType
  <2>3. Chunk(scmd, d) \in Answer
    BY <1>1, <2>2 DEF Answer
  <2>4. ChildNext
    BY <1>1, <1>2, <2>1, <2>2 DEF ChildNext
  <2>5. QED
    BY <1>1, <2>1, <2>3, <2>4, SendStep
<1>7. QED
  BY <1>3, <1>4, <1>5, <1>6 DEF ChildSends

-----------------------------------------------------------------------------
(***************************************************************************)
(* The steps of the client.                                                *)
(***************************************************************************)

\* What the client is at after a step, and what it keeps.
ClientNext ==
  /\ UNCHANGED <<sEnds, child, remote>>
  /\ \/ cpc' \in {"exit", "killed"} /\ cEnd' = FALSE
     \/ cEnd' = TRUE /\ cEnd = TRUE /\ cpc' \in {"main", "stdin", "send", "get"}
  /\ ccmd' \in Commands /\ cname' \in Text /\ copen' \in BOOLEAN /\ lcwd' \in UserDirs
  /\ local' \in [UserDirs \X Names -> Entry]
  /\ cpc' = "send" => ccmd' \in {"LS", "PWD", "QUIT", "CD", "GET"}
  /\ cpc' = "send" /\ ccmd' = "GET" => cname' \in Names
  /\ cpc' = "get" => cname' \in Names

\* What the client does to its variables fits their types.
LEMMA ClientKeeps ==
  ASSUME OftpInv, ClientNext
  PROVE  EndsOK' /\ HeldOK' /\ AskedOK' /\ spc' = spc /\ cEnd' \in BOOLEAN
         /\ (cEnd' = cEnd \/ cEnd' = FALSE)
<1>1. UNCHANGED <<sEnds, spc, scmd, sname, soff, sout, scwd, remote>>
  BY DEF ClientNext, child
<1>2. HeldOK' /\ AskedOK'
  BY <1>1 DEF OftpInv, ClientNext, HeldOK, AskedOK
<1>3. cEnd' \in BOOLEAN /\ (cEnd' <=> cpc' \notin {"exit", "killed"})
  BY DEF ClientNext
<1>4. EndsOK'
  BY <1>1, <1>3 DEF OftpInv, EndsOK
<1>5. QED
  BY <1>1, <1>2, <1>3, <1>4 DEF ClientNext

\* A command is done, or the client ends.
LEMMA ToMainNext ==
  ASSUME OftpInv, UNCHANGED <<sEnds, child, remote, lcwd>>,
         local' \in [UserDirs \X Names -> Entry],
         (cEnd /\ ToMain) \/ ToEnd \/ (cpc' = "killed" /\ Request0 /\ cEnd' = FALSE)
  PROVE  ClientNext
<1>1. "PWD" \in Commands /\ EmptyName \in Text
  BY DEF Commands, Text
<1>2. QED
  BY <1>1 DEF ToMain, ToEnd, Request0, ClientNext, OftpInv, HeldOK

\* The streams stay, or an answer is read, or the end of the stream is met.
LEMMA ClientReads ==
  ASSUME OftpInv, ClientNext, UNCHANGED <<up, sbuf, down>>, cEnd,
         \/ cbuf' = cbuf
         \/ Whole(cbuf) /\ cbuf' = Rest(cbuf)
         \/ ClientEof /\ cbuf' = << >>
  PROVE  OftpInv'
<1>1. /\ EndsOK' /\ HeldOK' /\ AskedOK' /\ spc' = spc /\ cEnd' \in BOOLEAN
      /\ cEnd' = cEnd \/ cEnd' = FALSE
  BY ClientKeeps
<1>2. UpOK'
  BY <1>1, UpStays DEF OftpInv
<1>3. DownOK'
  BY <1>1, DownStays, DownReceived, DownDropped DEF OftpInv
<1>4. QED
  BY <1>1, <1>2, <1>3 DEF OftpInv

\* A client that runs has its socket open.
LEMMA ClientOpen ==
  ASSUME OftpInv, cpc \in {"main", "stdin", "send", "get"}
  PROVE  /\ cEnd /\ ccmd \in Commands /\ cname \in Text /\ copen \in BOOLEAN
         /\ lcwd \in UserDirs /\ local \in [UserDirs \X Names -> Entry]
BY DEF OftpInv, EndsOK, HeldOK

\* In the loop of the main function.
ClientListens ==
  \/ handle_server_ack \/ handle_server_ack_lost \/ handle_user_input_nothing

\* Answers, the end of the server, and lines without effect.
LEMMA ClientListensStep ==
  ASSUME OftpInv, ClientListens, UNCHANGED <<child, remote>>
  PROVE  OftpInv'
<1>1. cpc \in {"main", "stdin"}
  BY DEF ClientListens, handle_server_ack, handle_server_ack_lost,
         handle_user_input_nothing
<1>2. /\ cEnd /\ ccmd \in Commands /\ cname \in Text /\ copen \in BOOLEAN
      /\ lcwd \in UserDirs /\ local \in [UserDirs \X Names -> Entry]
  BY <1>1, ClientOpen
<1>3. /\ UNCHANGED <<up, sbuf, down, sEnds, lcwd, local>>
      /\ \/ cbuf' = cbuf
         \/ Whole(cbuf) /\ cbuf' = Rest(cbuf)
         \/ ClientEof /\ cbuf' = << >>
      /\ \/ ToMain \/ ToEnd
         \/ cpc' \in {"main", "stdin"} /\ UNCHANGED <<ccmd, cname, copen, cEnd>>
  BY DEF ClientListens, handle_server_ack, handle_server_ack_lost,
         handle_user_input_nothing, link
<1>4. ClientNext
  <2>1. CASE ToMain \/ ToEnd
    BY <1>2, <1>3, <2>1, ToMainNext
  <2>2. CASE cpc' \in {"main", "stdin"} /\ UNCHANGED <<ccmd, cname, copen, cEnd>>
    BY <1>2, <1>3, <2>2 DEF ClientNext
  <2>3. QED
    BY <1>3, <2>1, <2>2
<1>5. QED
  BY <1>2, <1>3, <1>4, ClientReads

\* A line is typed that changes something.
LEMMA UserTypesStep ==
  ASSUME OftpInv, handle_user_input \/ handle_user_input_lcd,
         UNCHANGED <<child, remote>>
  PROVE  OftpInv'
<1>1. cpc \in {"main", "stdin"} /\ UNCHANGED <<up, sbuf, down, cbuf, cEnd, sEnds>>
  BY DEF handle_user_input, handle_user_input_lcd, LineTyped, link
<1>2. /\ cEnd /\ ccmd \in Commands /\ cname \in Text /\ copen \in BOOLEAN
      /\ lcwd \in UserDirs /\ local \in [UserDirs \X Names -> Entry]
  BY <1>1, ClientOpen
<1>3. CASE handle_user_input
  <2>1. /\ cpc' = "send" /\ UNCHANGED <<copen, lcwd, local>>
        /\ \/ ccmd' \in {"LS", "PWD", "QUIT"} /\ cname' = EmptyName
           \/ ccmd' = "CD" /\ cname' \in Dirs
           \/ ccmd' = "GET" /\ cname' \in Names
    BY <1>3 DEF handle_user_input
  <2>2. /\ EmptyName \in Text /\ Dirs \subseteq Text /\ Names \subseteq Text
        /\ {"LS", "PWD", "QUIT", "CD", "GET"} \subseteq Commands
    BY DEF Text, Commands
  <2>3. /\ ccmd' \in {"LS", "PWD", "QUIT", "CD", "GET"} /\ cname' \in Text
        /\ ccmd' = "GET" => cname' \in Names
    BY <2>1, <2>2
  <2>4. ClientNext
    BY <1>1, <1>2, <2>1, <2>2, <2>3 DEF ClientNext
  <2>5. QED
    BY <1>1, <1>2, <2>4, ClientReads
<1>4. CASE handle_user_input_lcd
  <2>1. ClientNext
    BY <1>1, <1>2, <1>4 DEF handle_user_input_lcd, ClientNext
  <2>2. QED
    BY <1>1, <1>2, <2>1, ClientReads
<1>5. QED
  BY <1>3, <1>4

\* send_command_to_server: one of the requests, whole.
LEMMA ClientSendsStep ==
  ASSUME OftpInv, send_command_to_server, UNCHANGED <<child, remote>>
  PROVE  OftpInv'
<1>1. /\ cpc = "send" /\ ClientSend(Message(ccmd, cname))
      /\ UNCHANGED <<sbuf, down, cbuf, sEnds, lcwd, local>>
      /\ \/ ToEnd
         \/ ccmd = "GET" /\ cpc' = "get" /\ UNCHANGED <<ccmd, cname, copen, cEnd>>
         \/ ToMain
  BY DEF send_command_to_server
<1>2. /\ cEnd /\ ccmd \in Commands /\ cname \in Text /\ copen \in BOOLEAN
      /\ lcwd \in UserDirs /\ local \in [UserDirs \X Names -> Entry]
  BY <1>1, ClientOpen
<1>3. Message(ccmd, cname) \in Asking
  <2>1. /\ ccmd \in {"LS", "PWD", "QUIT", "CD", "GET"}
        /\ ccmd = "GET" => cname \in Names
    BY <1>1 DEF OftpInv, AskedOK
  <2>2. QED
    BY <1>2, <2>1 DEF Asking
<1>4. ClientNext
  <2>1. CASE ToMain \/ ToEnd
    BY <1>1, <1>2, <2>1, ToMainNext
  <2>2. CASE ccmd = "GET" /\ cpc' = "get" /\ UNCHANGED <<ccmd, cname, copen, cEnd>>
    <3>1. cname \in Names
      BY <1>1, <2>2 DEF OftpInv, AskedOK
    <3>2. QED
      BY <1>1, <1>2, <2>2, <3>1 DEF ClientNext
  <2>3. QED
    BY <1>1, <2>1, <2>2
<1>5. /\ EndsOK' /\ HeldOK' /\ AskedOK' /\ spc' = spc /\ cEnd' \in BOOLEAN
      /\ cEnd' = cEnd \/ cEnd' = FALSE
  BY <1>4, ClientKeeps
<1>6. UpOK'
  <2>1. PICK m \in Asking : m = Message(ccmd, cname)
    BY <1>3
  <2>2. ClientSend(m)
    BY <1>1, <2>1
  <2>3. QED
    BY <1>1, <1>2, <1>5, <2>2, UpSent DEF OftpInv
<1>7. DownOK'
  BY <1>1, <1>5, DownStays DEF OftpInv
<1>8. QED
  BY <1>5, <1>6, <1>7 DEF OftpInv

\* What the exit of get_file_from_server does to the files.
LEMMA UnlinkTypes ==
  ASSUME OftpInv, Unlink
  PROVE  local' \in [UserDirs \X Names -> Entry]
<1>1. NoEntry \in Entry
  BY DEF NoEntry, Entry
<1>2. QED
  BY <1>1 DEF OftpInv, HeldOK, Unlink

\* A get that ends, and the other ways the client may go.
ClientLeaves ==
  \/ client_sock_error \/ get_lost \/ get_no_file \/ get_unopened \/ get_write_error

\* The ends of get_file_from_server but the good one.
LEMMA ClientLeavesStep ==
  ASSUME OftpInv, ClientLeaves, UNCHANGED <<child, remote>>
  PROVE  OftpInv'
<1>1. cpc \in {"send", "get"}
  BY DEF ClientLeaves, client_sock_error, get_lost, get_no_file, get_unopened,
         get_write_error, GetRead
<1>2. /\ cEnd /\ lcwd \in UserDirs /\ local \in [UserDirs \X Names -> Entry]
  BY <1>1, ClientOpen
<1>3. /\ UNCHANGED <<up, sbuf, down, sEnds, lcwd>>
      /\ \/ cbuf' = cbuf
         \/ Whole(cbuf) /\ cbuf' = Rest(cbuf)
         \/ ClientEof /\ cbuf' = << >>
      /\ ToMain \/ ToEnd
      /\ Unlink \/ local' = local
  BY DEF ClientLeaves, client_sock_error, get_lost, get_no_file, get_unopened,
         get_write_error, GetRead
<1>4. local' \in [UserDirs \X Names -> Entry]
  BY <1>2, <1>3, UnlinkTypes
<1>5. ClientNext
  BY <1>2, <1>3, <1>4, ToMainNext
<1>6. QED
  BY <1>2, <1>3, <1>5, ClientReads

\* get_file_from_server stores the bytes of a block.
LEMMA ClientGetsStep ==
  ASSUME OftpInv, get_file_from_server, UNCHANGED <<child, remote>>
  PROVE  OftpInv'
<1>1. /\ cpc = "get" /\ Whole(cbuf) /\ cbuf' = Rest(cbuf) /\ command(cbuf) # "NO_FILE"
      /\ UNCHANGED <<up, sbuf, down, sEnds, lcwd>>
      /\ local' = [local EXCEPT ![file] = RegularFile(@.data \o bytes(cbuf))]
      /\ \/ ToMain
         \/ copen' = TRUE /\ UNCHANGED <<cpc, ccmd, cname, cEnd>>
  BY DEF get_file_from_server, GetRead
<1>2. /\ cEnd /\ ccmd \in Commands /\ cname \in Text /\ copen \in BOOLEAN
      /\ lcwd \in UserDirs /\ local \in [UserDirs \X Names -> Entry]
  BY <1>1, ClientOpen
<1>3. spc' = spc /\ cEnd' \in BOOLEAN
  BY <1>1, <1>2 DEF child, ToMain
<1>4. bytes(cbuf) \in Seq(Byte)
  BY <1>1, <1>2, <1>3, DownReceived DEF OftpInv
<1>5. file \in UserDirs \X Names
  BY <1>1, <1>2 DEF OftpInv, AskedOK, file
<1>6. local[file].data \o bytes(cbuf) \in Seq(Byte)
  <2>1. local[file].data \in Seq(Byte)
    BY <1>2, <1>5, EntryData
  <2>2. QED
    BY <1>4, <2>1
<1>7. RegularFile(local[file].data \o bytes(cbuf)) \in Entry
  BY <1>6 DEF RegularFile, Entry
<1>8. local' \in [UserDirs \X Names -> Entry]
  BY <1>1, <1>2, <1>5, <1>7
<1>9. ClientNext
  <2>1. CASE ToMain
    BY <1>1, <1>2, <1>8, <2>1, ToMainNext
  <2>2. CASE copen' = TRUE /\ UNCHANGED <<cpc, ccmd, cname, cEnd>>
    BY <1>1, <1>2, <1>8, <2>2 DEF ClientNext, OftpInv, AskedOK
  <2>3. QED
    BY <1>1, <2>1, <2>2
<1>10. QED
  BY <1>1, <1>2, <1>9, ClientReads

\* The kernel closes the socket of a client that dies.
LEMMA ClientKilledStep ==
  ASSUME OftpInv, client_kill, UNCHANGED <<child, remote>>
  PROVE  OftpInv'
<1>1. /\ UNCHANGED <<up, sbuf, down, cbuf, sEnds, lcwd, local>>
      /\ cpc \notin {"exit", "killed"}
      /\ cpc' = "killed" /\ Request0 /\ cEnd' = FALSE
  BY DEF client_kill
<1>2. cEnd /\ local \in [UserDirs \X Names -> Entry]
  BY <1>1 DEF OftpInv, EndsOK, HeldOK
<1>3. ClientNext
  BY <1>1, <1>2, ToMainNext
<1>4. QED
  BY <1>1, <1>2, <1>3, ClientReads

-----------------------------------------------------------------------------
\* Every step keeps the inductive invariant.
LEMMA OftpStepKeeps ==
  ASSUME OftpInv, [OftpNext]_ovars
  PROVE  OftpInv'
<1>1. CASE deliver \/ reset
  BY <1>1, NetworkStep
<1>2. CASE main_fork \/ main_close
  BY <1>2, ParentStep
<1>3. CASE ServStep
  <2>1. UNCHANGED <<client, remote>> /\ (ChildQuits \/ ChildReceives \/ ChildSends)
    BY <1>3 DEF ServStep, ChildQuits, ChildReceives, ChildSends
  <2>2. QED
    BY <2>1, ChildQuitsStep, ChildReceivesStep, ChildSendsStep
<1>4. CASE ClientStep
  <2>1. /\ UNCHANGED <<child, remote>>
        /\ \/ ClientListens \/ send_command_to_server \/ ClientLeaves
           \/ get_file_from_server
    BY <1>4 DEF ClientStep, ClientListens, ClientLeaves
  <2>2. QED
    BY <2>1, ClientListensStep, ClientSendsStep, ClientLeavesStep, ClientGetsStep
<1>5. CASE UserStep
  BY <1>5, UserTypesStep DEF UserStep
<1>6. CASE OftpFault
  <2>1. \/ UNCHANGED <<client, remote>> /\ (ChildQuits \/ ChildSends)
        \/ UNCHANGED <<child, remote>> /\ (ClientLeaves \/ client_kill)
    BY <1>6 DEF OftpFault, ChildQuits, ChildSends, ClientLeaves
  <2>2. QED
    BY <2>1, ChildQuitsStep, ChildSendsStep, ClientLeavesStep, ClientKilledStep
<1>7. CASE UNCHANGED ovars
  <2>1. UNCHANGED <<up, sbuf, down, cbuf, cEnd, sEnds, child, client, remote>>
    BY <1>7 DEF ovars, link
  <2>2. spc' = spc
    BY <2>1 DEF child
  <2>3. UpOK' /\ DownOK'
    BY <2>1, <2>2, UpStays, DownStays DEF OftpInv
  <2>4. QED
    BY <2>1, <2>3 DEF OftpInv, EndsOK, HeldOK, AskedOK, child, client
<1>8. QED
  BY <1>1, <1>2, <1>3, <1>4, <1>5, <1>6, <1>7 DEF OftpNext

\* The inductive invariant holds in every reachable state of a session.
THEOREM OftpInvariance == OftpSpec => []OftpInv
<1>1. OftpInit => OftpInv
  BY OftpStart
<1>2. OftpInv /\ [OftpNext]_ovars => OftpInv'
  BY OftpStepKeeps
<1>3. QED
  BY <1>1, <1>2, PTL DEF OftpSpec

\* Every variable of the two programs keeps its type, and no direction of the
\* connection ever holds more than the kernel's buffer does.
THEOREM OftpTypes == OftpSpec => []OftpTypeOK
<1>1. OftpInv => OftpTypeOK
  BY InvGivesTypes
<1>2. QED
  BY <1>1, OftpInvariance, PTL

\* However TCP cuts the stream, whoever still reads it begins at the start of
\* a message: MSG_PEEK never takes a piece of a body for a length.
THEOREM AlignedEver == OftpSpec => []Aligned
<1>1. OftpInv => Aligned
  BY InvGivesAligned
<1>2. QED
  BY <1>1, OftpInvariance, PTL

-----------------------------------------------------------------------------
(***************************************************************************)
(* What a get leaves, when the user waits for the answers of other         *)
(* commands before he types it. From the request to the last message of    *)
(* the answer nothing else is on the connection, and the messages on their *)
(* way lead from what the client has stored to where the child reads.      *)
(***************************************************************************)
Goal == remote[<<scwd, cname>>]

\* The answers to a get of the file e; the places are positions in it.
GetMessage(e, s, m, t) ==
  \/ t = s /\ \E n \in Text : m = Message("NO_FILE", n)
  \/ /\ s <= t /\ t <= Len(e.data)
     /\ \E c \in {"GET", "END_FILE", "ERROR_FILE"} :
          /\ m = Chunk(c, Slice(e.data, s, t))
          /\ c = "END_FILE" => file_exist(e) /\ s = Len(e.data) /\ t = s

GetWay(e) == {x \in Nat \X Seq(Cell) \X Nat : GetMessage(e, x[1], x[2], x[3])}

\* The client has stored the file up to s.
Fetched(s) ==
  IF copen THEN s <= Len(Goal.data) /\ local[file] = RegularFile(Slice(Goal.data, 0, s))
           ELSE s = 0

Arriving(whole, t) ==
  \E s \in Nat : Fetched(s) /\ Framed(cbuf \o down, whole, s, t, Nat, GetWay(Goal))

NoRequest == up = << >> /\ sbuf = << >>
NoAnswer  == down = << >> /\ cbuf = << >>

\* How far the server is with the one request there is.
GetPhase ==
  \/ /\ spc = "select" /\ sbuf \o up = Message("GET", cname)
     /\ NoAnswer /\ ~copen
  \/ spc = "nofile" /\ NoRequest /\ NoAnswer /\ ~copen
  \/ /\ spc = "get" /\ sname = cname /\ NoRequest
     /\ file_exist(Goal) /\ soff <= Len(Goal.data) /\ Arriving(TRUE, soff)
  \/ spc = "select" /\ NoRequest /\ \E t \in Nat : Arriving(TRUE, t)
  \/ spc = "exit" /\ \E t \in Nat : Arriving(FALSE, t)

GetInv ==
  /\ copen => cpc = "get"
  /\ cpc = "send" /\ ccmd = "GET" =>
       NoRequest /\ NoAnswer /\ spc \in {"select", "exit"}
  /\ cpc = "get" => GetPhase

\* The answers to a get are messages.
LEMMA GetHeaded ==
  ASSUME NEW e, e.data \in Seq(Byte)
  PROVE  Headed(GetWay(e))
<1>1. SUFFICES ASSUME NEW x \in GetWay(e) PROVE x[2] \in Answer
  BY AnswerShape DEF Headed
<1>2. /\ x[1] \in Nat /\ x[2] \in Seq(Cell) /\ x[3] \in Nat
      /\ GetMessage(e, x[1], x[2], x[3])
  BY <1>1 DEF GetWay
<1>3. CASE \E n \in Text : x[2] = Message("NO_FILE", n)
  BY <1>3 DEF Answer
<1>4. CASE /\ x[1] <= x[3] /\ x[3] <= Len(e.data)
           /\ \E c \in {"GET", "END_FILE", "ERROR_FILE"} :
                x[2] = Chunk(c, Slice(e.data, x[1], x[3]))
  <2>1. PICK c \in {"GET", "END_FILE", "ERROR_FILE"} :
          x[2] = Chunk(c, Slice(e.data, x[1], x[3]))
    BY <1>4
  <2>2. Slice(e.data, x[1], x[3]) \in Seq(Byte) /\ c \in Commands
    BY <1>2, <1>4, SliceType DEF Commands
  <2>3. \A d \in Seq(Byte) : Chunk(c, d) \in Answer
    BY <2>2 DEF Answer
  <2>4. QED
    BY <2>1, <2>2, <2>3
<1>5. QED
  BY <1>2, <1>3, <1>4 DEF GetMessage

\* The file that is wanted, and the one it becomes.
LEMMA GoalEntry ==
  ASSUME OftpInv, cname \in Names
  PROVE  /\ Goal \in Entry /\ Goal.data \in Seq(Byte) /\ Len(Goal.data) \in Nat
         /\ file_exist(Goal) => Goal = RegularFile(Goal.data)
         /\ file \in UserDirs \X Names /\ local[file] \in Entry
<1>1. <<scwd, cname>> \in Dirs \X Names /\ remote \in [Dirs \X Names -> Entry]
  BY DEF OftpInv, HeldOK
<1>2. Goal \in Entry
  BY <1>1 DEF Goal
<1>3. Goal.data \in Seq(Byte)
  BY <1>2, EntryData
<1>4. file_exist(Goal) => Goal = RegularFile(Goal.data)
  BY <1>2 DEF file_exist, RegularFile, Entry
<1>5. file \in UserDirs \X Names /\ local[file] \in Entry
  BY DEF OftpInv, HeldOK, file
<1>6. QED
  BY <1>2, <1>3, <1>4, <1>5

\* While a get waits the server's steps change nothing of what is wanted.
LEMMA GoalStays ==
  ASSUME UNCHANGED <<client, remote, scwd>>
  PROVE  /\ Goal' = Goal /\ UNCHANGED <<cpc, ccmd, cname, copen>>
         /\ \A s : Fetched(s) => Fetched(s)'
<1>1. UNCHANGED <<cpc, ccmd, cname, copen, lcwd, local>>
  BY DEF client
<1>2. Goal' = Goal /\ file' = file
  BY <1>1 DEF Goal, file
<1>3. QED
  BY <1>1, <1>2 DEF Fetched

\* What is on the way may move, and stays on the way.
LEMMA ArrivingStays ==
  ASSUME UNCHANGED <<client, remote, scwd>>, cbuf' \o down' = cbuf \o down,
         NEW w, NEW t, Arriving(w, t)
  PROVE  Arriving(w, t)'
<1>1. PICK s \in Nat : Fetched(s) /\ Framed(cbuf \o down, w, s, t, Nat, GetWay(Goal))
  BY DEF Arriving
<1>2. Fetched(s)' /\ Goal' = Goal
  BY <1>1, GoalStays
<1>3. Framed((cbuf \o down)', w, s, t, Nat, GetWay(Goal)')
  <2>1. GetWay(Goal)' = GetWay(Goal)
    BY <1>2 DEF GetWay, GetMessage
  <2>2. QED
    BY <1>1, <2>1
<1>4. QED
  BY <1>2, <1>3 DEF Arriving

\* Before the first message of the answer.
LEMMA ArrivingNone ==
  ASSUME NoAnswer, ~copen, NEW w
  PROVE  Arriving(w, 0)
<1>1. Fetched(0) /\ cbuf \o down = << >>
  BY DEF Fetched, NoAnswer
<1>2. Framed(<< >>, w, 0, 0, Nat, GetWay(Goal))
  BY FrameEmpty
<1>3. QED
  BY <1>1, <1>2 DEF Arriving

\* When the child has ended, what it still owed does not matter.
LEMMA ArrivingCut ==
  ASSUME OftpInv, NEW w, NEW t, Arriving(w, t), NEW u
  PROVE  /\ Arriving(FALSE, u)
         /\ \E s \in Nat : Fetched(s) /\ Framed(cbuf, FALSE, s, u, Nat, GetWay(Goal))
<1>1. PICK s \in Nat : Fetched(s) /\ Framed(cbuf \o down, w, s, t, Nat, GetWay(Goal))
  BY DEF Arriving
<1>2. cbuf \in Seq(Cell) /\ down \in Seq(Cell)
  BY DEF OftpInv, DownOK
<1>3. /\ Framed(cbuf \o down, FALSE, s, u, Nat, GetWay(Goal))
      /\ Framed(cbuf, FALSE, s, u, Nat, GetWay(Goal))
  BY <1>1, <1>2, FrameCut
<1>4. QED
  BY <1>1, <1>3 DEF Arriving

\* One more message of the answer.
LEMMA ArrivingMore ==
  ASSUME OftpInv, cname \in Names, UNCHANGED <<client, remote, scwd, cbuf>>,
         NEW t \in Nat, NEW u \in Nat, NEW m \in Answer, Arriving(TRUE, t),
         GetMessage(Goal, t, m, u), down' = down \o m
  PROVE  Arriving(TRUE, u)'
<1>1. PICK s \in Nat : Fetched(s) /\ Framed(cbuf \o down, TRUE, s, t, Nat, GetWay(Goal))
  BY DEF Arriving
<1>2. cbuf \in Seq(Cell) /\ down \in Seq(Cell) /\ m \in Seq(Cell)
  BY AnswerShape DEF OftpInv, DownOK
<1>3. Headed(GetWay(Goal))
  BY GoalEntry, GetHeaded
<1>4. <<t, m, u>> \in GetWay(Goal)
  BY <1>2 DEF GetWay
<1>5. Framed((cbuf \o down) \o m, TRUE, s, u, Nat, GetWay(Goal))
  <2>1. cbuf \o down \in Seq(Cell)
    BY <1>2, StreamLens
  <2>2. QED
    BY <1>1, <1>3, <1>4, <2>1, FrameAdd
<1>6. cbuf' \o down' = (cbuf \o down) \o m
  BY <1>2, ConcatAssociative
<1>7. Fetched(s)' /\ Goal' = Goal
  BY <1>1, GoalStays
<1>8. GetWay(Goal)' = GetWay(Goal)
  BY <1>7 DEF GetWay, GetMessage
<1>9. QED
  BY <1>5, <1>6, <1>7, <1>8 DEF Arriving

\* The message at the head of what has arrived is one of the answer.
LEMMA ArrivingTaken ==
  ASSUME OftpInv, cname \in Names, Whole(cbuf), NEW w, NEW t, Arriving(w, t)
  PROVE  \E s \in Nat, c \in Nat :
           /\ Fetched(s)
           /\ Framed(Rest(cbuf) \o down, w, c, t, Nat, GetWay(Goal))
           /\ command(cbuf) # "NO_FILE" =>
                /\ s <= c /\ c <= Len(Goal.data)
                /\ bytes(cbuf) = Slice(Goal.data, s, c)
                /\ command(cbuf) = "END_FILE" => file_exist(Goal) /\ c = Len(Goal.data)
<1>1. PICK s \in Nat : Fetched(s) /\ Framed(cbuf \o down, w, s, t, Nat, GetWay(Goal))
  BY DEF Arriving
<1>2. /\ cbuf \in Seq(Cell) /\ down \in Seq(Cell)
      /\ cbuf # << >> /\ Len(cbuf) >= total_len(cbuf)
  BY DEF OftpInv, DownOK, Whole
<1>3. Goal.data \in Seq(Byte)
  BY GoalEntry
<1>4. Headed(GetWay(Goal))
  BY <1>3, GetHeaded
<1>5. PICK m \in Seq(Cell), c \in Nat :
        /\ <<s, m, c>> \in GetWay(Goal) /\ \A i \in 1 .. Len(m) : cbuf[i] = m[i]
        /\ Framed(Rest(cbuf) \o down, w, c, t, Nat, GetWay(Goal))
  <2>1. PICK p, q, R : p = cbuf /\ q = down /\ R = GetWay(Goal)
    OBVIOUS
  <2>2. /\ p \in Seq(Cell) /\ q \in Seq(Cell) /\ p # << >> /\ Len(p) >= total_len(p)
        /\ Framed(p \o q, w, s, t, Nat, R) /\ Headed(R)
    BY <2>1, <1>1, <1>2, <1>4
  <2>3. \E m \in Seq(Cell), c \in Nat :
          /\ <<s, m, c>> \in R /\ \A i \in 1 .. Len(m) : p[i] = m[i]
          /\ Framed(Rest(p) \o q, w, c, t, Nat, R)
    BY <2>2, FrameTake
  <2>4. QED
    BY <2>1, <2>3
<1>6. GetMessage(Goal, s, m, c)
  BY <1>5 DEF GetWay
<1>7. CASE \E n \in Text : m = Message("NO_FILE", n)
  <2>1. PICK n \in Text : m = Message("NO_FILE", n)
    BY <1>7
  <2>2. "NO_FILE" \in Commands
    BY DEF Commands
  <2>3. command(cbuf) = "NO_FILE"
    BY <1>5, <2>1, <2>2, MessageRead
  <2>4. QED
    BY <1>1, <1>5, <2>3
<1>8. CASE /\ s <= c /\ c <= Len(Goal.data)
           /\ \E h \in {"GET", "END_FILE", "ERROR_FILE"} :
                /\ m = Chunk(h, Slice(Goal.data, s, c))
                /\ h = "END_FILE" => file_exist(Goal) /\ s = Len(Goal.data) /\ c = s
  <2>1. PICK h \in {"GET", "END_FILE", "ERROR_FILE"} :
          /\ m = Chunk(h, Slice(Goal.data, s, c))
          /\ h = "END_FILE" => file_exist(Goal) /\ s = Len(Goal.data) /\ c = s
    BY <1>8
  <2>2. PICK d \in Seq(Byte) : d = Slice(Goal.data, s, c)
    BY <1>3, <1>8, SliceType
  <2>3. h \in Commands /\ \A i \in 1 .. Len(Chunk(h, d)) : cbuf[i] = Chunk(h, d)[i]
    BY <1>5, <2>1, <2>2 DEF Commands
  <2>4. command(cbuf) = h /\ bytes(cbuf) = d
    BY <2>3, ChunkRead
  <2>5. QED
    BY <1>1, <1>5, <1>8, <2>1, <2>2, <2>4
<1>9. QED
  BY <1>6, <1>7, <1>8 DEF GetMessage

\* What has been stored and what comes next make a longer part of the file.
LEMMA FetchedMore ==
  ASSUME OftpInv, cname \in Names, NEW s \in Nat, NEW c \in Nat, Fetched(s),
         s <= c, c <= Len(Goal.data), copen \/ local[file].kind = "none",
         bytes(cbuf) = Slice(Goal.data, s, c)
  PROVE  local[file].data \o bytes(cbuf) = Slice(Goal.data, 0, c)
<1>1. Goal.data \in Seq(Byte) /\ local[file] \in Entry
  BY GoalEntry
<1>2. local[file].data = Slice(Goal.data, 0, s)
  <2>1. CASE copen
    BY <2>1 DEF Fetched, RegularFile
  <2>2. CASE ~copen
    <3>1. s = 0 /\ local[file].kind = "none"
      BY <2>2 DEF Fetched
    <3>2. local[file].data = << >>
      BY <1>1, <3>1 DEF Entry
    <3>3. QED
      BY <1>1, <3>1, <3>2, SliceNone
  <2>3. QED
    BY <2>1, <2>2
<1>3. QED
  BY <1>1, <1>2, SliceJoin

-----------------------------------------------------------------------------
(***************************************************************************)
(* The steps of the network and the server during a get.                   *)
(***************************************************************************)
\* A client in get_file_from_server has its socket and a name.
LEMMA GetAsked ==
  ASSUME OftpInv, GetInv, cpc = "get"
  PROVE  GetPhase /\ cEnd = TRUE /\ cname \in Names
BY DEF OftpInv, EndsOK, AskedOK, GetInv

\* The network moves the request or the answer, or loses its end.
LEMMA GetNetworkStep ==
  ASSUME OftpInv, GetInv, deliver \/ reset
  PROVE  GetInv'
<1>1. UNCHANGED <<cEnd, sEnds, child, client, remote>>
  BY DEF deliver, reset
<1>2. /\ UNCHANGED <<spc, sname, soff, scwd, cpc, ccmd, cname, copen>>
      /\ NoRequest => UNCHANGED <<up, sbuf>>
      /\ NoAnswer => UNCHANGED <<down, cbuf>>
  BY <1>1 DEF deliver, reset, child, client, NoRequest, NoAnswer
<1>3. /\ NoRequest => NoRequest'
      /\ NoAnswer => NoAnswer'
  BY <1>2 DEF NoRequest, NoAnswer
<1>4. ASSUME cpc = "get"
      PROVE  GetPhase'
  <2>1. GetPhase /\ cEnd = TRUE /\ cname \in Names
    BY <1>4, GetAsked
  <2>2. sbuf' \o up' = sbuf \o up
    BY <2>1, <1>2, StreamsDelivered DEF OftpInv, reset
  <2>3. /\ Goal' = Goal
        /\ \A s : Fetched(s) => Fetched(s)'
    BY <1>1, <1>2, GoalStays
  <2>4. CASE spc = "select" /\ sbuf \o up = Message("GET", cname) /\ NoAnswer /\ ~copen
    BY <1>2, <1>3, <2>2, <2>4 DEF GetPhase
  <2>5. CASE spc = "nofile" /\ NoRequest /\ NoAnswer /\ ~copen
    BY <1>2, <1>3, <2>5 DEF GetPhase
  <2>6. CASE spc \in {"get", "select"}
    <3>1. cbuf' \o down' = cbuf \o down
      <4>1. sEnds # {}
        BY <2>6 DEF OftpInv, EndsOK
      <4>2. deliver
        BY <4>1, <2>1 DEF reset
      <4>3. QED
        BY <4>2, StreamsDelivered DEF OftpInv
    <3>2. ASSUME NEW t, Arriving(TRUE, t) PROVE Arriving(TRUE, t)'
      BY <1>1, <1>2, <3>1, <3>2, ArrivingStays
    <3>3. CASE /\ spc = "get" /\ sname = cname /\ NoRequest
               /\ file_exist(Goal) /\ soff <= Len(Goal.data) /\ Arriving(TRUE, soff)
      <4>1. PICK t : t = soff
        OBVIOUS
      <4>2. Arriving(TRUE, t)' /\ t = soff'
        BY <1>2, <3>2, <3>3, <4>1
      <4>3. Arriving(TRUE, soff)'
        BY <4>2 DEF Arriving
      <4>4. QED
        BY <1>2, <1>3, <2>3, <3>3, <4>3 DEF GetPhase
    <3>4. CASE spc = "select" /\ NoRequest /\ \E t \in Nat : Arriving(TRUE, t)
      BY <1>2, <1>3, <3>2, <3>4 DEF GetPhase
    <3>5. QED
      BY <2>1, <2>4, <2>6, <3>3, <3>4 DEF GetPhase
  <2>7. CASE spc = "exit" /\ \E t \in Nat : Arriving(FALSE, t)
    <3>1. PICK t \in Nat : Arriving(FALSE, t)
      BY <2>7
    <3>2. Arriving(FALSE, t)'
      <4>1. CASE cbuf' \o down' = cbuf \o down
        BY <1>1, <1>2, <3>1, <4>1, ArrivingStays
      <4>2. CASE cbuf' = cbuf /\ down' = << >>
        <5>1. PICK s \in Nat :
                Fetched(s) /\ Framed(cbuf, FALSE, s, t, Nat, GetWay(Goal))
          BY <3>1, ArrivingCut
        <5>2. cbuf' \o down' = cbuf
          BY <4>2, StreamLens DEF OftpInv, DownOK
        <5>3. GetWay(Goal)' = GetWay(Goal)
          BY <2>3 DEF GetWay, GetMessage
        <5>4. QED
          BY <2>3, <5>1, <5>2, <5>3 DEF Arriving
      <4>3. QED
        BY <2>1, <4>1, <4>2, StreamsDelivered DEF OftpInv, reset
    <3>3. QED
      BY <1>2, <2>7, <3>2 DEF GetPhase
  <2>8. QED
    BY <2>1, <2>4, <2>5, <2>6, <2>7 DEF GetPhase
<1>5. QED
  BY <1>2, <1>3, <1>4 DEF GetInv

\* What the server's processes do.
ServerStep ==
  \/ main_fork \/ main_close \/ ServStep
  \/ (handle_get_read_error \/ child_crash) /\ UNCHANGED <<client, remote>>

\* Nothing asked: the child waits, or ends.
LEMMA ServerAtRest ==
  ASSUME ServerStep, cEnd, spc \in {"select", "exit"}, sbuf = << >>
  PROVE  /\ UNCHANGED <<up, sbuf, down, cbuf, cEnd, scwd, client, remote>>
         /\ spc' \in {spc, "exit"}
<1>1. \/ main_close
      \/ /\ serv_client_timeout \/ serv_client_closed \/ child_crash
         /\ UNCHANGED <<client, remote>>
  BY DEF ServerStep, ServStep, main_fork, serv_client_short, serv_client_quit,
     handle_request_cd, handle_request_popen, handle_request_get, Receive,
     handle_get_no_file, handle_get, handle_ls_pwd, handler_sock_error,
     handle_get_read_error
<1>2. QED
  BY <1>1
  DEF main_close, child, serv_client_timeout, serv_client_closed, child_crash, ToExit

\* The one request there is has not been read, or not been answered.
LEMMA ServerAtWork ==
  ASSUME ServerStep, cEnd, spc \in {"select", "nofile", "get"},
         spc = "select" /\ sbuf # << >> /\ Len(sbuf) >= total_len(sbuf)
           => command(sbuf) = "GET"
  PROVE  /\ UNCHANGED <<cEnd, scwd, client, remote>>
         /\ \/ UNCHANGED <<up, sbuf, down, cbuf, child>>
            \/ spc' = "exit" /\ UNCHANGED <<down, cbuf>>
            \/ spc = "select" /\ sbuf # << >> /\ handle_request_get
            \/ spc = "nofile" /\ handle_get_no_file
            \/ spc = "get" /\ (handle_get \/ handle_get_read_error)
<1>1. CASE main_close
  BY <1>1 DEF main_close, child
<1>2. ASSUME ~main_close
      PROVE  /\ UNCHANGED <<client, remote>>
             /\ \/ ChildQuits
                \/ spc = "select" /\ sbuf # << >> /\ handle_request_get
                \/ spc = "nofile" /\ handle_get_no_file
                \/ spc = "get" /\ (handle_get \/ handle_get_read_error)
  <2>1. /\ UNCHANGED <<client, remote>>
        /\ \/ ChildQuits \/ ChildReceives
           \/ handle_get_no_file \/ handle_get \/ handle_ls_pwd \/ handle_get_read_error
    BY <1>2 DEF ServerStep, ServStep, ChildQuits, ChildReceives, main_fork
  <2>2. CASE ChildReceives
    <3>1. \A c : Receive(c) =>
            /\ spc = "select" /\ sbuf # << >> /\ Len(sbuf) >= total_len(sbuf)
            /\ command(sbuf) = c
      BY DEF Receive
    <3>3. handle_request_get /\ sbuf # << >> /\ spc = "select"
      BY <2>2, <3>1 DEF ChildReceives, serv_client_quit, handle_request_cd,
         handle_request_popen, handle_request_get
    <3>4. QED
      BY <2>1, <3>3
  <2>3. CASE handle_get_no_file \/ handle_get \/ handle_ls_pwd \/ handle_get_read_error
    BY <2>1, <2>3
    DEF handle_get_no_file, handle_get, handle_ls_pwd, handle_get_read_error
  <2>4. QED
    BY <2>1, <2>2, <2>3
<1>3. CASE ChildQuits
  BY <1>1, <1>2, <1>3 DEF ChildQuits, serv_client_timeout, serv_client_closed,
     serv_client_short, handler_sock_error, SockError, child_crash, ToExit
<1>4. QED
  BY <1>1, <1>2, <1>3 DEF handle_request_get, handle_get_no_file, handle_get,
     handle_get_read_error, Receive

\* The request is read, all of it.
LEMMA RequestRead ==
  ASSUME OftpInv, cname \in Names, sbuf \o up = Message("GET", cname), sbuf # << >>
  PROVE  Len(sbuf) >= total_len(sbuf) =>
           /\ command(sbuf) = "GET" /\ arg(sbuf) = cname
           /\ up = << >> /\ Rest(sbuf) = << >>
<1>1. "GET" \in Commands /\ cname \in Text
  BY DEF Commands, Text
<1> DEFINE m == Message("GET", cname)
<1>2. /\ m \in Seq(Cell) /\ Len(m) = 3 /\ m[1] = <<"body_len", 1>>
      /\ m[2] = <<"command", "GET">> /\ m[3] = <<"arg", cname>>
  BY <1>1, MessageShape
<1>3. sbuf \in Seq(Cell) /\ up \in Seq(Cell)
  BY DEF OftpInv, UpOK
<1>4. /\ Len(sbuf) \in Nat \ {0} /\ Len(up) \in Nat /\ Len(sbuf) + Len(up) = Len(m)
      /\ \A i \in 1 .. Len(sbuf) : sbuf[i] = m[i]
  <2>1. /\ Len(sbuf) \in Nat \ {0} /\ Len(up) \in Nat
        /\ Len(sbuf \o up) = Len(sbuf) + Len(up)
        /\ \A i \in 1 .. Len(sbuf) : (sbuf \o up)[i] = sbuf[i]
    BY <1>3
  <2>2. QED
    BY <2>1
<1> HIDE DEF m
<1>5. total_len(sbuf) = 3
  BY <1>2, <1>4 DEF total_len
<1>6. ASSUME Len(sbuf) >= 3
      PROVE  Len(sbuf) = 3 /\ Len(up) = 0 /\ sbuf[2] = m[2] /\ sbuf[3] = m[3]
  <2>1. Len(sbuf) = 3 /\ Len(up) = 0
    BY <1>2, <1>4, <1>6
  <2>2. QED
    BY <1>4, <2>1
<1>7. ASSUME Len(sbuf) >= 3 PROVE up = << >> /\ Rest(sbuf) = << >>
  <2>1. Len(sbuf) = 3 /\ up = << >>
    BY <1>3, <1>6, <1>7
  <2>2. SubSeq(sbuf, 4, 3) = << >>
    BY <1>3
  <2>3. QED
    BY <1>5, <2>1, <2>2 DEF Rest
<1>8. QED
  BY <1>2, <1>4, <1>5, <1>6, <1>7 DEF command, arg

\* The child reads the request, answers it piece by piece, or ends.
LEMMA GetServerStep ==
  ASSUME OftpInv, GetInv, ServerStep
  PROVE  GetInv'
<1>1. UNCHANGED <<client, remote>> /\ UNCHANGED <<cpc, ccmd, cname, copen>>
  BY DEF ServerStep, main_fork, main_close, ServStep, client
<1>2. ASSUME cpc = "send", ccmd = "GET"
      PROVE  NoRequest' /\ NoAnswer' /\ spc' \in {"select", "exit"}
  <2>1. NoRequest /\ NoAnswer /\ spc \in {"select", "exit"} /\ cEnd
    BY <1>2 DEF GetInv, OftpInv, EndsOK
  <2>2. sbuf = << >>
    BY <2>1 DEF NoRequest
  <2>3. QED
    BY <2>1, <2>2, ServerAtRest DEF NoRequest, NoAnswer
<1>3. ASSUME cpc = "get"
      PROVE  GetPhase'
  <2>1. GetPhase /\ cEnd = TRUE /\ cname \in Names
    BY <1>3, GetAsked
  <2>2. Goal.data \in Seq(Byte) /\ Len(Goal.data) \in Nat
    BY <2>1, GoalEntry
  \* The child ends.
  <2>3. ASSUME NEW w, NEW t \in Nat, Arriving(w, t), UNCHANGED <<down, cbuf, scwd>>,
               spc' = "exit"
        PROVE  GetPhase'
    <3>1. Arriving(FALSE, t)
      BY <2>3, ArrivingCut
    <3>2. Arriving(FALSE, t)'
      BY <1>1, <2>3, <3>1, ArrivingStays
    <3>3. QED
      BY <2>3, <3>2 DEF GetPhase
  <2>4. CASE spc = "select" /\ sbuf \o up = Message("GET", cname) /\ NoAnswer /\ ~copen
    <3>1. sbuf # << >> /\ Len(sbuf) >= total_len(sbuf) =>
            /\ command(sbuf) = "GET" /\ arg(sbuf) = cname
           /\ up = << >> /\ Rest(sbuf) = << >>
      BY <2>1, <2>4, RequestRead
    <3>2. /\ UNCHANGED <<cEnd, scwd>>
          /\ \/ UNCHANGED <<up, sbuf, down, cbuf, child>>
             \/ spc' = "exit" /\ UNCHANGED <<down, cbuf>>
             \/ sbuf # << >> /\ handle_request_get
      BY <2>1, <2>4, <3>1, ServerAtWork
    <3>3. CASE UNCHANGED <<up, sbuf, down, cbuf, child>>
      BY <1>1, <2>4, <3>3 DEF GetPhase, NoAnswer, child
    <3>4. CASE spc' = "exit" /\ UNCHANGED <<down, cbuf>>
      <4>1. Arriving(FALSE, 0)
        BY <2>4, ArrivingNone
      <4>2. QED
        BY <2>3, <3>2, <3>4, <4>1
    <3>5. CASE sbuf # << >> /\ handle_request_get
      <4>1. /\ Len(sbuf) >= total_len(sbuf) /\ sbuf' = Rest(sbuf)
            /\ UNCHANGED <<up, down, cbuf>>
        BY <3>5 DEF handle_request_get, Receive
      <4>2. NoRequest' /\ NoAnswer' /\ arg(sbuf) = cname /\ ~copen'
        BY <1>1, <2>4, <3>1, <3>5, <4>1 DEF NoRequest, NoAnswer
      <4>3. Goal' = Goal
        BY <1>1, <3>2, GoalStays
      <4>4. \/ /\ spc' = IF file_exist(Goal) THEN "get" ELSE "nofile"
               /\ Locals("GET", cname, << >>)
            \/ ToSelect
        BY <3>5, <4>2 DEF handle_request_get, Goal
      <4>5. Arriving(TRUE, 0)'
        <5>1. (~copen)' /\ NoAnswer'
          BY <4>2
        <5>2. Arriving(TRUE, 0)
          BY <2>4, ArrivingNone
        <5>3. QED
          BY <1>1, <3>2, <4>1, <5>2, ArrivingStays
      <4>6. CASE ToSelect
        BY <4>2, <4>5, <4>6 DEF ToSelect, GetPhase
      <4>7. CASE spc' = (IF file_exist(Goal) THEN "get" ELSE "nofile")
                 /\ Locals("GET", cname, << >>)
        <5>1. sname' = cname /\ soff' = 0 /\ cname' = cname
          BY <1>1, <4>7 DEF Locals
        <5>2. Arriving(TRUE, soff)'
          BY <4>5, <5>1 DEF Arriving
        <5>3. /\ file_exist(Goal) => file_exist(Goal)'
              /\ (soff <= Len(Goal.data))' /\ (sname = cname)'
          BY <2>2, <4>3, <5>1 DEF file_exist
        <5>4. CASE file_exist(Goal)
          BY <4>2, <4>7, <5>2, <5>3, <5>4 DEF GetPhase
        <5>5. CASE ~file_exist(Goal)
          BY <4>2, <4>7, <5>5 DEF GetPhase
        <5>6. QED
          BY <5>4, <5>5
      <4>8. QED
        BY <4>4, <4>6, <4>7
    <3>6. QED
      BY <3>2, <3>3, <3>4, <3>5
  <2>5. CASE spc = "nofile" /\ NoRequest /\ NoAnswer /\ ~copen
    <3>1. /\ UNCHANGED <<cEnd, scwd>>
          /\ \/ UNCHANGED <<up, sbuf, down, cbuf, child>>
             \/ spc' = "exit" /\ UNCHANGED <<down, cbuf>>
             \/ handle_get_no_file
      BY <2>1, <2>5, ServerAtWork
    <3>2. CASE UNCHANGED <<up, sbuf, down, cbuf, child>>
      BY <1>1, <2>5, <3>2 DEF GetPhase, NoRequest, NoAnswer, child
    <3>3. Arriving(TRUE, 0) /\ Arriving(FALSE, 0)
      BY <2>5, ArrivingNone
    <3>4. CASE spc' = "exit" /\ UNCHANGED <<down, cbuf>>
      BY <2>3, <3>1, <3>3, <3>4
    <3>5. CASE handle_get_no_file
      <4>1. /\ UNCHANGED <<up, sbuf, cbuf>> /\ sname \in Text
            /\ ServSend(Message("NO_FILE", sname)) /\ ToSelect
        BY <2>1, <3>5 DEF handle_get_no_file, SockError, OftpInv, HeldOK
      <4>2. PICK m \in Answer : m = Message("NO_FILE", sname)
        BY <4>1 DEF Answer
      <4>3. down' = down \o m
        BY <2>1, <4>1, <4>2 DEF ServSend
      <4>4. GetMessage(Goal, 0, m, 0)
        BY <4>1, <4>2 DEF GetMessage
      <4>5. Arriving(TRUE, 0)'
        BY <1>1, <2>1, <3>1, <3>3, <4>1, <4>3, <4>4, ArrivingMore
      <4>6. QED
        BY <2>5, <4>1, <4>5 DEF GetPhase, NoRequest, ToSelect
    <3>6. QED
      BY <3>1, <3>2, <3>4, <3>5
  <2>6. CASE /\ spc = "get" /\ sname = cname /\ NoRequest
             /\ file_exist(Goal) /\ soff <= Len(Goal.data) /\ Arriving(TRUE, soff)
    <3>1. /\ UNCHANGED <<cEnd, scwd>>
          /\ \/ UNCHANGED <<up, sbuf, down, cbuf, child>>
             \/ spc' = "exit" /\ UNCHANGED <<down, cbuf>>
             \/ handle_get \/ handle_get_read_error
      BY <2>1, <2>6, ServerAtWork
    <3>2. PICK t \in Nat : t = soff
      BY DEF OftpInv, HeldOK
    <3>3. Arriving(TRUE, t) /\ t <= Len(Goal.data)
      BY <2>6, <3>2
    <3>4. Goal' = Goal
      BY <1>1, <3>1, GoalStays
    <3>5. CASE UNCHANGED <<up, sbuf, down, cbuf, child>>
      <4>1. Arriving(TRUE, t)'
        BY <1>1, <3>1, <3>3, <3>5, ArrivingStays
      <4>2. soff' = t /\ UNCHANGED <<spc, sname, up, sbuf>>
        BY <3>2, <3>5 DEF child
      <4>3. Arriving(TRUE, soff)'
        BY <4>1, <4>2 DEF Arriving
      <4>4. QED
        BY <1>1, <2>6, <3>2, <3>4, <4>2, <4>3 DEF GetPhase, NoRequest
    <3>6. CASE spc' = "exit" /\ UNCHANGED <<down, cbuf>>
      BY <2>3, <3>1, <3>3, <3>6
    <3>7. CASE handle_get
      <4>1. PICK d : d = BlockAt(Goal.data, t)
        OBVIOUS
      <4>2. /\ d \in Seq(Byte) /\ Len(d) \in Nat /\ t + Len(d) <= Len(Goal.data)
            /\ d = Slice(Goal.data, t, t + Len(d))
            /\ Len(d) < MaxReadBytes => t + Len(d) = Len(Goal.data)
        BY <2>2, <3>3, <4>1, BlockIsSlice
      <4>3. PICK c \in {"END_FILE", "GET"} : c = IF d = << >> THEN "END_FILE" ELSE "GET"
        OBVIOUS
      <4>4. /\ UNCHANGED <<up, sbuf, cbuf>> /\ ServSend(Chunk(c, d))
            /\ \/ ToSelect
               \/ soff' = t + Len(d) /\ UNCHANGED <<spc, sname>>
        BY <2>6, <3>2, <3>7, <4>1, <4>3 DEF handle_get, Goal
      <4>5. PICK m \in Answer : m = Chunk(c, d)
        BY <4>2, <4>3 DEF Answer, Commands
      <4>6. down' = down \o m
        BY <2>1, <4>4, <4>5 DEF ServSend
      <4>7. PICK u \in Nat : u = t + Len(d)
        BY <4>2
      <4>8. GetMessage(Goal, t, m, u)
        <5>1. c = "END_FILE" => t = Len(Goal.data) /\ u = t
          <6>1. c = "END_FILE" => Len(d) = 0
            BY <4>3
          <6>2. 0 < MaxReadBytes
            BY ProtocolAssumption
          <6>3. QED
            BY <2>2, <4>2, <4>7, <6>1, <6>2
        <5>2. t <= u /\ u <= Len(Goal.data) /\ m = Chunk(c, Slice(Goal.data, t, u))
          BY <4>2, <4>5, <4>7
        <5>3. QED
          BY <2>6, <4>3, <5>1, <5>2 DEF GetMessage
      <4>9. Arriving(TRUE, u)'
        BY <1>1, <2>1, <3>1, <3>3, <4>4, <4>6, <4>8, ArrivingMore
      <4>10. NoRequest' /\ (file_exist(Goal))'
        BY <2>6, <3>4, <4>4 DEF NoRequest, file_exist
      <4>11. CASE ToSelect
        BY <4>9, <4>10, <4>11 DEF GetPhase, ToSelect
      <4>12. CASE soff' = t + Len(d) /\ UNCHANGED <<spc, sname>>
        <5>1. Arriving(TRUE, soff)'
          BY <4>7, <4>9, <4>12 DEF Arriving
        <5>2. (soff <= Len(Goal.data))'
          BY <3>4, <4>2, <4>12
        <5>3. QED
          BY <1>1, <2>6, <4>10, <4>12, <5>1, <5>2 DEF GetPhase
      <4>13. QED
        BY <4>4, <4>11, <4>12
    <3>8. CASE handle_get_read_error
      <4>1. /\ UNCHANGED <<up, sbuf, cbuf>> /\ ServSend(Chunk("ERROR_FILE", << >>))
            /\ ToSelect
        BY <3>8 DEF handle_get_read_error
      <4>2. Chunk("ERROR_FILE", << >>) \in Answer
        <5>1. "ERROR_FILE" \in Commands /\ << >> \in Seq(Byte)
          BY DEF Commands
        <5>2. \A c \in Commands, d \in Seq(Byte) : Chunk(c, d) \in Answer
          BY DEF Answer
        <5>3. QED
          BY <5>1, <5>2
      <4>3. PICK m \in Answer : m = Chunk("ERROR_FILE", << >>)
        BY <4>2
      <4>4. down' = down \o m
        BY <2>1, <4>1, <4>3 DEF ServSend
      <4>5. GetMessage(Goal, t, m, t)
        <5>1. Slice(Goal.data, t, t) = << >>
          BY <2>2, SliceNone
        <5>2. QED
          BY <3>3, <4>3, <5>1 DEF GetMessage
      <4>6. Arriving(TRUE, t)'
        BY <1>1, <2>1, <3>1, <3>3, <4>1, <4>4, <4>5, ArrivingMore
      <4>7. QED
        BY <2>6, <4>1, <4>6 DEF GetPhase, NoRequest, ToSelect
    <3>9. QED
      BY <3>1, <3>5, <3>6, <3>7, <3>8
  <2>7. CASE /\ spc \in {"select", "exit"}
             /\ spc = "select" => NoRequest
             /\ \E t \in Nat : Arriving(spc = "select", t)
    <3>1. PICK t \in Nat : Arriving(spc = "select", t)
      BY <2>7
    <3>2. /\ UNCHANGED <<down, cbuf, scwd>>
          /\ \/ spc' = "select" /\ spc = "select" /\ UNCHANGED <<up, sbuf>>
             \/ spc' = "exit"
      <4>1. CASE spc = "select"
        <5>1. sbuf = << >>
          BY <2>7, <4>1 DEF NoRequest
        <5>2. QED
          BY <2>1, <4>1, <5>1, ServerAtRest
      <4>2. CASE spc = "exit"
        BY <4>2 DEF ServerStep, main_fork, main_close, ServStep, child,
           serv_client_timeout, serv_client_closed, serv_client_short, serv_client_quit,
           handle_request_cd, handle_request_popen, handle_request_get, Receive,
           handle_get_no_file, handle_get, handle_ls_pwd, handler_sock_error,
           handle_get_read_error, child_crash
      <4>3. QED
        BY <2>7, <4>1, <4>2
    <3>3. CASE spc' = "exit"
      <4>1. PICK w : w = (spc = "select")
        OBVIOUS
      <4>2. Arriving(w, t)
        BY <3>1, <4>1
      <4>3. QED
        BY <2>3, <3>2, <3>3, <4>2
    <3>4. CASE spc' = "select" /\ spc = "select" /\ UNCHANGED <<up, sbuf>>
      <4>1. Arriving(TRUE, t)
        <5>1. (spc = "select") = TRUE
          BY <3>4
        <5>2. QED
          BY <3>1, <5>1
      <4>2. Arriving(TRUE, t)'
        BY <1>1, <3>2, <4>1, ArrivingStays
      <4>3. QED
        BY <2>7, <3>4, <4>2 DEF GetPhase, NoRequest
    <3>5. QED
      BY <3>2, <3>3, <3>4
  <2>8. QED
    <3>1. CASE spc = "select" /\ NoRequest /\ \E t \in Nat : Arriving(TRUE, t)
      <4>1. (spc = "select") = TRUE
        BY <3>1
      <4>2. QED
        BY <2>7, <3>1, <4>1
    <3>2. CASE spc = "exit" /\ \E t \in Nat : Arriving(FALSE, t)
      <4>1. (spc = "select") = FALSE
        BY <3>2
      <4>2. QED
        BY <2>7, <3>2, <4>1
    <3>3. QED
      BY <2>1, <2>4, <2>5, <2>6, <3>1, <3>2 DEF GetPhase
<1>4. QED
  BY <1>1, <1>2, <1>3 DEF GetInv

-----------------------------------------------------------------------------
(***************************************************************************)
(* The steps of the client during a get.                                   *)
(***************************************************************************)
\* The client asks when nothing else is on the way, and stores what comes.
LEMMA GetClientStep ==
  ASSUME OftpInv, GetInv, "GET" \notin Ahead, UNCHANGED <<child, remote>>,
         ClientStep \/ UserStep \/ get_write_error \/ client_kill
  PROVE  GetInv'
<1>1. UNCHANGED <<spc, scwd, remote>>
  BY DEF child
<1>2. CASE cpc' \notin {"send", "get"} /\ copen' = FALSE
  BY <1>2 DEF GetInv
<1>3. CASE handle_user_input
  <2>1. /\ cpc \in {"main", "stdin"} /\ cpc' = "send"
        /\ UNCHANGED <<up, sbuf, down, cbuf, copen>>
        /\ ccmd' \in Ahead \/ Quiet
    BY <1>3 DEF handle_user_input, LineTyped, link
  <2>2. copen' = FALSE
    BY <2>1 DEF GetInv, OftpInv, HeldOK
  <2>3. ASSUME ccmd' = "GET"
        PROVE  NoRequest' /\ NoAnswer' /\ spc' \in {"select", "exit"}
    <3>1. up \o sbuf \o down \o cbuf = << >> /\ spc \in {"select", "exit"}
      BY <2>1, <2>3 DEF Quiet
    <3>2. /\ up \in Seq(Cell) /\ sbuf \in Seq(Cell)
          /\ down \in Seq(Cell) /\ cbuf \in Seq(Cell)
      BY DEF OftpInv, UpOK, DownOK
    <3>3. up = << >> /\ sbuf = << >> /\ down = << >> /\ cbuf = << >>
      BY <3>1, <3>2
    <3>4. QED
      BY <1>1, <2>1, <3>1, <3>3 DEF NoRequest, NoAnswer
  <2>4. QED
    BY <2>1, <2>2, <2>3 DEF GetInv
<1>4. CASE send_command_to_server
  <2>1. /\ cpc = "send" /\ ClientSend(Message(ccmd, cname))
        /\ UNCHANGED <<sbuf, down, cbuf, sEnds>>
        /\ \/ cpc' \in {"main", "exit"} /\ copen' = FALSE
           \/ /\ ccmd = "GET" /\ cpc' = "get" /\ UNCHANGED <<ccmd, cname, copen>>
    BY <1>4 DEF send_command_to_server, ToEnd, ToMain, Request0
  <2>2. CASE ccmd = "GET" /\ cpc' = "get" /\ UNCHANGED <<ccmd, cname, copen>>
    <3>1. NoRequest /\ NoAnswer /\ spc \in {"select", "exit"} /\ copen = FALSE
      BY <2>1, <2>2 DEF GetInv, OftpInv, HeldOK
    <3>2. NoAnswer' /\ (~copen)'
      BY <2>1, <2>2, <3>1 DEF NoAnswer
    <3>3. CASE spc = "exit"
      <4>1. Arriving(FALSE, 0)'
        <5>1. Fetched(0)' /\ cbuf' \o down' = << >>
          BY <3>2 DEF Fetched, NoAnswer
        <5>2. Framed(<< >>, FALSE, 0, 0, Nat, GetWay(Goal)')
          BY FrameEmpty
        <5>3. QED
          BY <5>1, <5>2 DEF Arriving
      <4>2. QED
        BY <1>1, <2>1, <2>2, <3>3, <4>1 DEF GetInv, GetPhase
    <3>4. CASE spc = "select"
      <4>1. sEnds # {}
        BY <3>4 DEF OftpInv, EndsOK
      <4>2. Message("GET", cname) \in Seq(Cell)
        BY MessageShape DEF Commands, OftpInv, HeldOK
      <4>3. up' = << >> \o Message("GET", cname) /\ sbuf' = << >>
        BY <2>1, <2>2, <3>1, <4>1 DEF ClientSend, NoRequest
      <4>4. sbuf' \o up' = Message("GET", cname')
        BY <2>2, <4>2, <4>3, StreamLens
      <4>5. QED
        BY <1>1, <2>1, <2>2, <3>2, <3>4, <4>4 DEF GetInv, GetPhase
    <3>5. QED
      BY <3>1, <3>3, <3>4
  <2>3. QED
    BY <1>2, <2>1, <2>2
<1>5. CASE get_file_from_server /\ cpc' = "get"
  <2>1. /\ cpc = "get" /\ Whole(cbuf) /\ cbuf' = Rest(cbuf) /\ command(cbuf) # "NO_FILE"
        /\ UNCHANGED <<up, sbuf, down, lcwd, cname>> /\ copen' = TRUE
        /\ copen \/ local[file].kind = "none"
        /\ local' = [local EXCEPT ![file] = RegularFile(@.data \o bytes(cbuf))]
    BY <1>5 DEF get_file_from_server, GetRead, ToMain
  <2>2. GetPhase /\ cname \in Names
    BY <2>1, GetAsked
  <2>3. Goal' = Goal /\ file' = file
    BY <1>1, <2>1 DEF Goal, file
  <2>4. ~NoAnswer
    BY <2>1 DEF Whole, NoAnswer
  <2>5. /\ file \in UserDirs \X Names /\ local \in [UserDirs \X Names -> Entry]
        /\ Goal.data \in Seq(Byte)
    BY <2>2, GoalEntry DEF OftpInv, HeldOK
  <2>6. ASSUME NEW w, NEW t, Arriving(w, t)
        PROVE  Arriving(w, t)'
    <3>1. PICK s \in Nat, c \in Nat :
            /\ Fetched(s)
            /\ Framed(Rest(cbuf) \o down, w, c, t, Nat, GetWay(Goal))
            /\ s <= c /\ c <= Len(Goal.data) /\ bytes(cbuf) = Slice(Goal.data, s, c)
      BY <2>1, <2>2, <2>6, ArrivingTaken
    <3>2. local[file].data \o bytes(cbuf) = Slice(Goal.data, 0, c)
      BY <2>1, <2>2, <3>1, FetchedMore
    <3>3. local'[file] = RegularFile(Slice(Goal.data, 0, c))
      BY <2>1, <2>5, <3>2
    <3>4. Fetched(c)'
      BY <2>1, <2>3, <3>1, <3>3 DEF Fetched
    <3>5. GetWay(Goal)' = GetWay(Goal)
      BY <2>3 DEF GetWay, GetMessage
    <3>6. cbuf' \o down' = Rest(cbuf) \o down
      BY <2>1
    <3>7. QED
      BY <3>1, <3>4, <3>5, <3>6 DEF Arriving
  <2>7. UNCHANGED <<sname, soff>>
    BY DEF child
  <2>8. CASE /\ spc = "get" /\ sname = cname /\ NoRequest
             /\ file_exist(Goal) /\ soff <= Len(Goal.data) /\ Arriving(TRUE, soff)
    <3>1. PICK t : t = soff
      OBVIOUS
    <3>2. Arriving(TRUE, t)' /\ t = soff'
      BY <2>6, <2>7, <2>8, <3>1
    <3>3. Arriving(TRUE, soff)'
      BY <3>2 DEF Arriving
    <3>4. QED
      BY <1>1, <1>5, <2>1, <2>3, <2>7, <2>8, <3>3
      DEF GetInv, GetPhase, NoRequest, file_exist
  <2>9. CASE spc = "select" /\ NoRequest /\ \E t \in Nat : Arriving(TRUE, t)
    BY <1>1, <1>5, <2>1, <2>6, <2>9 DEF GetInv, GetPhase, NoRequest
  <2>10. CASE spc = "exit" /\ \E t \in Nat : Arriving(FALSE, t)
    BY <1>1, <1>5, <2>1, <2>6, <2>10 DEF GetInv, GetPhase
  <2>11. QED
    BY <2>2, <2>4, <2>8, <2>9, <2>10 DEF GetPhase
<1>6. CASE cpc' \notin {"send", "get"} /\ copen' = copen /\ cpc # "get"
  BY <1>6 DEF GetInv, OftpInv, HeldOK
<1>7. QED
  <2>1. CASE handle_server_ack
    BY <1>2, <1>6, <2>1 DEF handle_server_ack, ToMain, ToEnd, Request0
  <2>2. CASE handle_server_ack_lost \/ client_sock_error \/ get_lost
    BY <1>2, <2>2
    DEF handle_server_ack_lost, client_sock_error, get_lost, ToEnd, Request0
  <2>3. CASE get_no_file \/ get_unopened \/ get_write_error \/ client_kill
    BY <1>2, <2>3 DEF get_no_file, get_unopened, get_write_error, client_kill,
       ToMain, Request0
  <2>4. CASE get_file_from_server
    BY <1>2, <1>5, <2>4 DEF get_file_from_server, GetRead, ToMain, Request0
  <2>5. CASE handle_user_input_nothing \/ handle_user_input_lcd
    BY <1>6, <2>5 DEF handle_user_input_nothing, handle_user_input_lcd, LineTyped
  <2>6. QED
    BY <1>3, <1>4, <2>1, <2>2, <2>3, <2>4, <2>5 DEF ClientStep, UserStep

\* Every step keeps what is known of a get.
LEMMA GetStepKeeps ==
  ASSUME OftpInv, GetInv, "GET" \notin Ahead, [OftpNext]_ovars
  PROVE  GetInv'
<1>1. CASE deliver \/ reset
  BY <1>1, GetNetworkStep
<1>2. CASE ServerStep
  BY <1>2, GetServerStep
<1>3. CASE UNCHANGED <<child, remote>>
           /\ (ClientStep \/ UserStep \/ get_write_error \/ client_kill)
  BY <1>3, GetClientStep
<1>4. CASE UNCHANGED ovars
  <2>1. /\ UNCHANGED <<up, sbuf, down, cbuf, client, remote, scwd, spc, sname, soff>>
        /\ UNCHANGED <<cpc, ccmd, cname, copen, local, lcwd>>
    BY <1>4 DEF ovars, link, child, client
  <2>2. /\ Goal' = Goal /\ file' = file
        /\ NoRequest' = NoRequest /\ NoAnswer' = NoAnswer
    BY <2>1 DEF Goal, file, NoRequest, NoAnswer
  <2>3. ASSUME NEW w, NEW t, Arriving(w, t) PROVE Arriving(w, t)'
    BY <2>1, <2>3, ArrivingStays
  <2>4. Arriving(TRUE, soff) => Arriving(TRUE, soff)'
    <3>1. PICK t : t = soff
      OBVIOUS
    <3>2. Arriving(TRUE, soff) => Arriving(TRUE, t)' /\ t = soff'
      BY <2>1, <2>3, <3>1
    <3>3. QED
      BY <3>2 DEF Arriving
  <2>5. GetPhase => GetPhase'
    BY <2>1, <2>2, <2>3, <2>4 DEF GetPhase, file_exist
  <2>6. QED
    BY <2>1, <2>2, <2>5 DEF GetInv
<1>5. QED
  BY <1>1, <1>2, <1>3, <1>4
  DEF OftpNext, OftpFault, ServerStep, ClientStep, UserStep

\* How a get ends.
LEMMA GetEndsExact ==
  ASSUME OftpInv, GetInv, OftpNext, cpc = "get", cpc' \in {"main", "exit"},
         local'[file] # NoEntry
  PROVE  local'[file] = remote[<<scwd, cname>>]
<1>1. GetPhase /\ cname \in Names
  BY GetAsked
<1>2. /\ file \in UserDirs \X Names /\ local \in [UserDirs \X Names -> Entry]
      /\ Goal.data \in Seq(Byte)
      /\ file_exist(Goal) => Goal = RegularFile(Goal.data)
  BY <1>1, GoalEntry DEF OftpInv, HeldOK
<1>3. Unlink => local'[file] = NoEntry
  BY <1>2 DEF Unlink
<1>4. get_file_from_server /\ cpc' = "main"
  <2>1. ~(cpc' = cpc)
    OBVIOUS
  <2>2. ~UNCHANGED client
    BY <2>1 DEF client
  <2>3. ClientStep \/ UserStep \/ get_write_error \/ client_kill
    BY <2>2 DEF OftpNext, OftpFault, ServStep, deliver, reset, main_fork, main_close
  <2>4. get_file_from_server
    BY <1>3, <2>1, <2>3
    DEF ClientStep, UserStep, handle_server_ack, handle_server_ack_lost,
       handle_user_input_nothing, send_command_to_server, client_sock_error, get_lost,
       get_no_file, get_unopened, get_write_error, handle_user_input,
       handle_user_input_lcd, LineTyped, client_kill
  <2>5. QED
    BY <2>1, <2>4 DEF get_file_from_server, ToMain
<1>5. /\ Whole(cbuf) /\ command(cbuf) = "END_FILE"
      /\ copen \/ local[file].kind = "none"
      /\ local' = [local EXCEPT ![file] = RegularFile(@.data \o bytes(cbuf))]
  BY <1>4 DEF get_file_from_server, GetRead
<1>6. PICK w, t : Arriving(w, t)
  BY <1>1, <1>5 DEF GetPhase, NoAnswer, Whole
<1>7. PICK s \in Nat, c \in Nat :
        /\ Fetched(s) /\ s <= c /\ c <= Len(Goal.data)
        /\ bytes(cbuf) = Slice(Goal.data, s, c)
        /\ file_exist(Goal) /\ c = Len(Goal.data)
  BY <1>1, <1>5, <1>6, ArrivingTaken
<1>8. local[file].data \o bytes(cbuf) = Slice(Goal.data, 0, c)
  BY <1>1, <1>5, <1>7, FetchedMore
<1>9. Slice(Goal.data, 0, c) = Goal.data
  BY <1>2, <1>7, SliceAll
<1>10. local'[file] = RegularFile(Goal.data)
  BY <1>2, <1>5, <1>8, <1>9
<1>11. QED
  BY <1>2, <1>7, <1>10 DEF Goal

\* However a get ends, short of the client being killed, the user has the
\* server's file or no file: wherever the stream was cut, whichever process
\* died and whichever call failed, get_file_from_server never leaves a part.
\* This is so for a user who does not type a get ahead of earlier answers: one
\* that meets the rest of a listing, or of a get that failed, stores it.
THEOREM OftpGetExactEver ==
  ASSUME "GET" \notin Ahead
  PROVE  OftpSpec => OftpGetExact
<1>1. OftpInit => GetInv
  BY DEF OftpInit, GetInv
<1>2. OftpInv /\ GetInv /\ [OftpNext]_ovars => GetInv'
  BY GetStepKeeps
<1>3. OftpInv /\ GetInv /\ [OftpNext]_ovars =>
        [cpc = "get" /\ cpc' \in {"main", "exit"} /\ local'[file] # NoEntry
          => local'[file] = remote[<<scwd, cname>>]]_ovars
  BY GetEndsExact
<1>4. OftpSpec => []GetInv
  BY <1>1, <1>2, OftpInvariance, PTL DEF OftpSpec
<1>5. QED
  BY <1>3, <1>4, OftpInvariance, PTL DEF OftpSpec, OftpGetExact

=============================================================================
