-------------------------- MODULE MessageManagerProofs --------------------------
(***************************************************************************)
(* A MessageManager reads whole messages, each once and in order, however  *)
(* long they are and in whatever pieces they arrive; every class reads     *)
(* what it wrote, so what is published is what was sent, and every request *)
(* has its answer.                                                         *)
(***************************************************************************)
EXTENDS MessageManager, SequenceTheorems, FiniteSetTheorems, WellFoundedInduction, TLAPS

Piece == Nat \X {"length", "body"}

TypeInv ==
  /\ connected_ \in BOOLEAN /\ link \in BOOLEAN /\ remainBytes \in Nat
  /\ pc \in {"check", "length", "body", "handle"}
  /\ wire \in Seq(Piece) /\ buffer_ \in Seq(Piece) /\ sent \in Seq(Frames)

\* The pieces of message k: two for its length and those of its body.
Whole(k) == 2 + sent[k].parts
Kind(o)  == IF o <= 2 THEN "length" ELSE "body"

\* Messages are on the wire in the order in which they were sent, each once: a first piece
\* is one of a newer message than all before it.
Rising(off) == \A n, m \in 1 .. Len(wire) : n < m =>
  wire[n][1] <= wire[m][1] /\ (off[m] = 1 => wire[n][1] < wire[m][1])

\* The pieces on the wire belong to messages: off gives every piece its place in its
\* message; pieces of a message follow each other, and its last is followed by a first.
Fits(off) ==
  /\ off \in [1 .. Len(wire) -> Nat \ {0}]
  /\ \A n \in 1 .. Len(wire) :
       /\ wire[n][1] \in 1 .. Len(sent) /\ wire[n] = <<wire[n][1], Kind(off[n])>>
       /\ off[n] <= Whole(wire[n][1])
  /\ \A n, m \in 1 .. Len(wire) : n < m /\ off[n] + (m - n) <= Whole(wire[n][1]) =>
       wire[m][1] = wire[n][1] /\ off[m] = off[n] + (m - n)
  /\ \A n \in 1 .. Len(wire) : n > 1 /\ off[n - 1] = Whole(wire[n - 1][1]) => off[n] = 1
  /\ Rising(off)

\* The next piece is the one at place o, of message k if that has begun, and messages
\* come whole while the connection lasts.
Awaits(off, o, k) ==
  /\ wire # <<>> => off[1] = o /\ (o > 1 => wire[1][1] = k)
  /\ link /\ o > 1 => wire # <<>>
  /\ link /\ wire # <<>> => off[Len(wire)] = Whole(wire[Len(wire)][1])

Holds(k, kind) == \A n \in 1 .. Len(buffer_) : buffer_[n] = <<k, kind>>

\* What spinOnce has read is the beginning of the length or of the body of message k.
Reads(off, k) ==
  /\ Fits(off)
  /\ pc \in {"check", "handle"} => Awaits(off, 1, k)
  /\ pc = "length" => /\ remainBytes \in 1 .. 2 /\ Len(buffer_) = 2 - remainBytes
                      /\ Holds(k, "length") /\ Awaits(off, 3 - remainBytes, k)
  /\ pc = "body" => /\ k \in 1 .. Len(sent) /\ remainBytes > 0
                    /\ Len(buffer_) + remainBytes = sent[k].parts
                    /\ Awaits(off, 3 + Len(buffer_), k)
  /\ pc \in {"body", "handle"} => Holds(k, "body")

Inv == /\ TypeInv
       /\ pc \in {"body", "handle"} => connected_
       /\ connected_ => \E off, k : Reads(off, k)

-----------------------------------------------------------------------------
\* The invariant holds before the manager spins.
LEMMA InvInit == Init => Inv
<1> SUFFICES ASSUME Init PROVE Inv
  OBVIOUS
<1>1. TypeInv
  BY DEF Init, TypeInv
<1>2. Reads([n \in 1 .. 0 |-> 1], 0)
  BY DEF Init, Reads, Fits, Rising, Awaits
<1> QED BY <1>1, <1>2 DEF Init, Inv

\* A message has at least the two pieces of its length.
LEMMA WholeLength == TypeInv => \A k \in 1 .. Len(sent) : /\ sent[k].parts \in Nat
                                                        /\ Whole(k) \in Nat
                                                        /\ Whole(k) = 2 + sent[k].parts
BY ManagerAssumption DEF TypeInv, Whole

\* The pieces r are those of w without the first n.
Rest(w, n, r) == /\ r \in Seq(Piece)
                 /\ Len(r) = Len(w) - n
                 /\ \A m \in 1 .. Len(r) : r[m] = w[m + n]

\* What is left of the wire when its first n pieces were taken.
LEMMA RestIsSubSeq ==
  ASSUME NEW w \in Seq(Piece), NEW n \in 0 .. Len(w)
  PROVE  Rest(w, n, SubSeq(w, n + 1, Len(w)))
<1>1. Len(w) \in Nat /\ \A i \in 1 .. Len(w) : w[i] \in Piece
  OBVIOUS
<1>2. PICK S : S = Piece
  OBVIOUS
<1>3. \A i \in n + 1 .. Len(w) : w[i] \in S
  BY <1>1, <1>2
<1>4. PICK r : r = SubSeq(w, n + 1, Len(w))
  OBVIOUS
<1>5. /\ r \in Seq(S)
      /\ Len(r) = IF n + 1 <= Len(w) THEN Len(w) - (n + 1) + 1 ELSE 0
      /\ \A i \in 1 .. Len(w) - (n + 1) + 1 : r[i] = w[n + 1 + i - 1]
  <2>1. n + 1 \in Int /\ Len(w) \in Int
    BY <1>1
  <2>2. /\ SubSeq(w, n + 1, Len(w)) \in Seq(S)
        /\ Len(SubSeq(w, n + 1, Len(w))) = IF n + 1 <= Len(w) THEN Len(w) - (n + 1) + 1 ELSE 0
        /\ \A i \in 1 .. Len(w) - (n + 1) + 1 : SubSeq(w, n + 1, Len(w))[i] = w[n + 1 + i - 1]
    BY <1>3, <2>1, SubSeqProperties
  <2> QED BY <1>4, <2>2, Zenon
<1>6. r \in Seq(Piece) /\ Len(r) = Len(w) - n
  BY <1>1, <1>2, <1>5
<1>7. \A m \in 1 .. Len(r) : r[m] = w[m + n]
  BY <1>1, <1>5, <1>6
<1>8. Rest(w, n, r)
  BY <1>6, <1>7 DEF Rest
<1> QED BY <1>4, <1>8, Zenon

\* What is left after the first n pieces keeps its places.
LEMMA FitsAfter ==
  ASSUME TypeInv, NEW off, Fits(off), NEW n \in 0 .. Len(wire), Rest(wire, n, wire'), sent' = sent,
         NEW off2 \in [1 .. Len(wire') -> Nat \ {0}], \A m \in 1 .. Len(wire') : off2[m] = off[m + n]
  PROVE  Fits(off2)'
<1>1. Len(wire) \in Nat /\ wire \in [1 .. Len(wire) -> Piece]
  BY DEF TypeInv
<1>5. wire' \in Seq(Piece) /\ Len(wire') = Len(wire) - n
  BY DEF Rest
<1>6. \A m \in 1 .. Len(wire') : wire'[m] = wire[m + n] /\ off2[m] = off[m + n]
  BY DEF Rest
<1>7. Fits(off2)'
  <2>1. off2 \in [1 .. Len(wire') -> Nat \ {0}]
    OBVIOUS
  <2>2. \A m \in 1 .. Len(wire') :
          /\ wire'[m][1] \in 1 .. Len(sent') /\ wire'[m] = <<wire'[m][1], Kind(off2[m])>>
          /\ off2[m] <= (2 + sent'[wire'[m][1]].parts)
    BY <1>1, <1>5, <1>6, SMTT(30) DEF Fits, Whole
  <2>3. \A i, m \in 1 .. Len(wire') : i < m /\ off2[i] + (m - i) <= (2 + sent'[wire'[i][1]].parts) =>
          wire'[m][1] = wire'[i][1] /\ off2[m] = off2[i] + (m - i)
    <3> SUFFICES ASSUME NEW i \in 1 .. Len(wire'), NEW m \in 1 .. Len(wire'),
                        i < m, off2[i] + (m - i) <= (2 + sent'[wire'[i][1]].parts)
                 PROVE  wire'[m][1] = wire'[i][1] /\ off2[m] = off2[i] + (m - i)
      OBVIOUS
    <3>1. i + n \in 1 .. Len(wire) /\ m + n \in 1 .. Len(wire) /\ i + n < m + n
      BY <1>1, <1>5
    <3>2. off[i + n] + ((m + n) - (i + n)) <= Whole(wire[i + n][1])
      <4>1. off[i + n] = off2[i] /\ wire[i + n] = wire'[i]
        BY <1>6
      <4>2. off[i + n] + ((m + n) - (i + n)) = off2[i] + (m - i)
        BY <1>1, <1>5, <4>1
      <4> QED BY <4>1, <4>2 DEF Whole
    <3>3. wire[m + n][1] = wire[i + n][1] /\ off[m + n] = off[i + n] + ((m + n) - (i + n))
      BY <3>1, <3>2 DEF Fits
    <3>4. (m + n) - (i + n) = m - i
      BY <1>1, <1>5
    <3>5. off[m + n] = off[i + n] + (m - i)
      BY <3>3, <3>4, Zenon
    <3> QED BY <1>6, <3>3, <3>5, Zenon
  <2>4. \A m \in 1 .. Len(wire') :
          m > 1 /\ off2[m - 1] = (2 + sent'[wire'[m - 1][1]].parts) => off2[m] = 1
    <3> SUFFICES ASSUME NEW m \in 1 .. Len(wire'), m > 1, off2[m - 1] = (2 + sent'[wire'[m - 1][1]].parts)
                 PROVE  off2[m] = 1
      OBVIOUS
    <3>1. m - 1 \in 1 .. Len(wire') /\ m + n \in 1 .. Len(wire) /\ m + n > 1
          /\ (m - 1) + n = (m + n) - 1
      BY <1>1, <1>5
    <3>2. off[(m + n) - 1] = Whole(wire[(m + n) - 1][1])
      BY <1>6, <3>1 DEF Whole
    <3>3. off[m + n] = 1
      BY <3>1, <3>2 DEF Fits
    <3> QED BY <1>6, <3>3
  <2>5. Rising(off2)'
    <3> SUFFICES ASSUME NEW i \in 1 .. Len(wire'), NEW m \in 1 .. Len(wire'), i < m
                 PROVE  wire'[i][1] <= wire'[m][1] /\ (off2[m] = 1 => wire'[i][1] < wire'[m][1])
      BY DEF Rising
    <3>1. i + n \in 1 .. Len(wire) /\ m + n \in 1 .. Len(wire) /\ i + n < m + n
      BY <1>1, <1>5
    <3>2. /\ wire[i + n][1] <= wire[m + n][1]
          /\ off[m + n] = 1 => wire[i + n][1] < wire[m + n][1]
      BY <3>1 DEF Fits, Rising
    <3> QED BY <1>6, <3>2
  <2> QED BY <2>1, <2>2, <2>3, <2>4, <2>5 DEF Fits, Whole
<1> QED BY <1>7

\* The first n pieces are of one message, if it is that long.
LEMMA FirstPieces ==
  ASSUME TypeInv, NEW off, Fits(off), NEW n \in 1 .. Len(wire),
         off[1] + (n - 1) <= Whole(wire[1][1])
  PROVE  \A m \in 1 .. n : wire[m] = <<wire[1][1], Kind(off[1] + (m - 1))>> /\ off[m] = off[1] + (m - 1)
<1>1. Len(wire) \in Nat /\ 1 \in 1 .. Len(wire)
  BY DEF TypeInv
<1>2. /\ off[1] \in Nat \ {0} /\ wire[1][1] \in 1 .. Len(sent)
      /\ Whole(wire[1][1]) \in Nat
  BY <1>1, WholeLength DEF Fits
<1> SUFFICES ASSUME NEW m \in 1 .. n
             PROVE  wire[m] = <<wire[1][1], Kind(off[1] + (m - 1))>> /\ off[m] = off[1] + (m - 1)
  OBVIOUS
<1>3. m \in 1 .. Len(wire)
  BY <1>1
<1>4. off[1] + (m - 1) <= Whole(wire[1][1])
  BY <1>1, <1>2
<1>5. wire[m][1] = wire[1][1] /\ off[m] = off[1] + (m - 1)
  <2>1. CASE m = 1
    BY <1>2, <2>1
  <2>2. CASE m > 1
    BY <1>1, <1>3, <1>4, <2>2 DEF Fits
  <2> QED BY <2>1, <2>2
<1>6. wire[m] = <<wire[m][1], Kind(off[m])>>
  BY <1>3 DEF Fits
<1> QED BY <1>5, <1>6, Zenon

\* The messages on the wire come whole.
Ends(off) == link /\ wire # <<>> => off[Len(wire)] = Whole(wire[Len(wire)][1])

\* What is awaited after the first n pieces: the next piece of the message they are of,
\* or the first piece of another.
LEMMA AwaitsAfter ==
  ASSUME TypeInv, NEW off, Fits(off), Ends(off), NEW n \in 1 .. Len(wire),
         off[1] + (n - 1) <= Whole(wire[1][1]),
         Rest(wire, n, wire'), sent' = sent, link' = link,
         NEW off2 \in [1 .. Len(wire') -> Nat \ {0}], \A m \in 1 .. Len(wire') : off2[m] = off[m + n],
         NEW j, j = wire[1][1], NEW k
  PROVE  /\ off[1] + (n - 1) < Whole(wire[1][1]) => Awaits(off2, off[1] + n, j)'
         /\ off[1] + (n - 1) = Whole(wire[1][1]) => Awaits(off2, 1, k)'
<1>1. Len(wire) \in Nat /\ 1 \in 1 .. Len(wire) /\ n \in 1 .. n
  BY DEF TypeInv
<1>2. /\ off[1] \in Nat \ {0} /\ wire[1][1] \in 1 .. Len(sent)
      /\ Whole(wire[1][1]) \in Nat
  BY <1>1, WholeLength DEF Fits
<1>3. wire[n][1] = wire[1][1] /\ off[n] = off[1] + (n - 1)
  BY <1>1, FirstPieces
<1>4. /\ wire' \in Seq(Piece) /\ Len(wire') = Len(wire) - n
      /\ \A m \in 1 .. Len(wire') : wire'[m] = wire[m + n]
  BY DEF Rest
<1>5. wire' # <<>> => /\ Len(wire') > 0 /\ wire'[1] = wire[n + 1] /\ off2[1] = off[n + 1]
                      /\ n + 1 \in 1 .. Len(wire)
                      /\ wire'[Len(wire')] = wire[Len(wire)] /\ off2[Len(wire')] = off[Len(wire)]
  BY <1>1, <1>4
<1>6. wire # <<>>
  BY <1>1
<1>7. link' /\ wire' # <<>> => off2[Len(wire')] = (2 + sent'[wire'[Len(wire')][1]].parts)
  BY <1>5, <1>6 DEF Ends, Whole
<1>8. CASE off[1] + (n - 1) < Whole(wire[1][1])
  <2>1. wire' # <<>> => off2[1] = off[1] + n /\ wire'[1][1] = wire[1][1]
    <3> SUFFICES ASSUME wire' # <<>>
                 PROVE  off2[1] = off[1] + n /\ wire'[1][1] = wire[1][1]
      OBVIOUS
    <3>1. off[1] + ((n + 1) - 1) <= Whole(wire[1][1])
      BY <1>1, <1>2, <1>8
    <3>2. wire[n + 1][1] = wire[1][1] /\ off[n + 1] = off[1] + ((n + 1) - 1)
      BY <1>1, <1>5, <3>1 DEF Fits
    <3> QED BY <1>1, <1>2, <1>5, <3>2
  <2>2. link' => wire' # <<>>
    <3> SUFFICES ASSUME link', wire' = <<>>
                 PROVE  FALSE
      OBVIOUS
    <3>1. n = Len(wire)
      BY <1>1, <1>4
    <3> QED BY <1>2, <1>3, <1>6, <1>8, <3>1 DEF Ends
  <2>3. Awaits(off2, off[1] + n, j)'
    BY <1>7, <2>1, <2>2 DEF Awaits, Whole
  <2> QED BY <1>2, <1>8, <2>3
<1>9. CASE off[1] + (n - 1) = Whole(wire[1][1])
  <2>1. wire' # <<>> => off2[1] = 1
    <3> SUFFICES ASSUME wire' # <<>>
                 PROVE  off2[1] = 1
      OBVIOUS
    <3>1. n + 1 > 1 /\ (n + 1) - 1 = n
      BY <1>1
    <3>2. off[(n + 1) - 1] = Whole(wire[(n + 1) - 1][1])
      BY <1>3, <1>9, <3>1
    <3>3. off[n + 1] = 1
      BY <1>5, <3>1, <3>2 DEF Fits
    <3> QED BY <1>5, <3>3
  <2>2. Awaits(off2, 1, k)'
    BY <1>7, <2>1 DEF Awaits, Whole
  <2> QED BY <1>2, <1>9, <2>2
<1> QED BY <1>2, <1>8, <1>9

-----------------------------------------------------------------------------
(* What spinOnce does with them.                                           *)

\* The lesser of two numbers is one of them.
LEMMA MinOfTwo == ASSUME NEW a \in Nat, NEW b \in Nat
                  PROVE  Min({a, b}) \in Nat /\ Min({a, b}) <= a /\ Min({a, b}) <= b
<1>1. \E x \in {a, b} : \A y \in {a, b} : x <= y
  BY DEF Min
<1> QED BY <1>1 DEF Min

\* The buffer r and the first n pieces of the wire are all the same piece.
AllOf(r, b, n, e) == /\ r \in Seq(Piece) /\ Len(r) = Len(b) + n
                     /\ \A i \in 1 .. Len(r) : r[i] = e

\* Pieces that are all the same stay so when more of them arrive.
LEMMA JoinedIsAllOf ==
  ASSUME NEW b \in Seq(Piece), NEW w \in Seq(Piece), NEW n \in 1 .. Len(w), NEW e,
         \A i \in 1 .. Len(b) : b[i] = e, \A i \in 1 .. n : w[i] = e
  PROVE  AllOf(b \o SubSeq(w, 1, n), b, n, e)
<1>1. Len(w) \in Nat /\ Len(b) \in Nat /\ \A i \in 1 .. Len(w) : w[i] \in Piece
  OBVIOUS
<1>2. PICK S : S = Piece
  OBVIOUS
<1>3. PICK q : q = SubSeq(w, 1, n)
  OBVIOUS
<1>4. /\ q \in Seq(S)
      /\ Len(q) = IF 1 <= n THEN n - 1 + 1 ELSE 0
      /\ \A i \in 1 .. n - 1 + 1 : q[i] = w[1 + i - 1]
  <2>1. 1 \in Int /\ n \in Int /\ \A i \in 1 .. n : w[i] \in S
    BY <1>1, <1>2
  <2>2. /\ SubSeq(w, 1, n) \in Seq(S)
        /\ Len(SubSeq(w, 1, n)) = IF 1 <= n THEN n - 1 + 1 ELSE 0
        /\ \A i \in 1 .. n - 1 + 1 : SubSeq(w, 1, n)[i] = w[1 + i - 1]
    BY <2>1, SubSeqProperties
  <2> QED BY <1>3, <2>2, Zenon
<1>5. Len(q) = n /\ \A i \in 1 .. n : q[i] = e
  BY <1>1, <1>4
<1>6. PICK r : r = b \o q
  OBVIOUS
<1>7. /\ r \in Seq(S)
      /\ Len(r) = Len(b) + Len(q)
      /\ \A i \in 1 .. Len(b) + Len(q) : r[i] = IF i <= Len(b) THEN b[i] ELSE q[i - Len(b)]
  <2>1. /\ b \o q \in Seq(S)
        /\ Len(b \o q) = Len(b) + Len(q)
        /\ \A i \in 1 .. Len(b) + Len(q) : (b \o q)[i] = IF i <= Len(b) THEN b[i] ELSE q[i - Len(b)]
    BY <1>2, <1>4, ConcatProperties
  <2> QED BY <1>6, <2>1, Zenon
<1>8. \A i \in 1 .. Len(r) : r[i] = e
  <2> SUFFICES ASSUME NEW i \in 1 .. Len(r) PROVE r[i] = e
    OBVIOUS
  <2>1. CASE i <= Len(b)
    BY <1>1, <1>5, <1>7, <2>1
  <2>2. CASE i > Len(b)
    <3>1. i - Len(b) \in 1 .. n
      BY <1>1, <1>5, <1>7, <2>2
    <3> QED BY <1>1, <1>5, <1>7, <2>2, <3>1
  <2> QED BY <1>1, <2>1, <2>2
<1>9. AllOf(r, b, n, e)
  BY <1>2, <1>5, <1>7, <1>8 DEF AllOf
<1> QED BY <1>3, <1>6, <1>9, Zenon

\* What is read is of the message that comes.
LEMMA ReadIsOfOne ==
  ASSUME TypeInv, NEW off, NEW k, Reads(off, k), pc \in {"length", "body"}, wire # <<>>,
         NEW n \in 1 .. Len(wire), n <= remainBytes
  PROVE  /\ wire[1][1] \in 1 .. Len(sent) /\ Ends(off)
         /\ pc = "body" => wire[1][1] = k
         /\ pc = "length" => off[1] = 3 - remainBytes /\ Len(buffer_) = 2 - remainBytes
         /\ pc = "body" => off[1] = 3 + Len(buffer_)
         /\ off[1] + (n - 1) <= (IF pc = "length" THEN 2 ELSE Whole(wire[1][1]))
         /\ off[1] + (n - 1) <= Whole(wire[1][1])
         /\ AllOf(buffer_ \o SubSeq(wire, 1, n), buffer_, n, <<wire[1][1], pc>>)
<1>1. /\ Len(wire) \in Nat /\ Len(buffer_) \in Nat /\ 1 \in 1 .. Len(wire)
      /\ wire \in Seq(Piece) /\ buffer_ \in Seq(Piece) /\ remainBytes \in Nat
  BY DEF TypeInv
<1>2. Fits(off)
  BY DEF Reads
<1>3. off[1] \in Nat /\ wire[1][1] \in 1 .. Len(sent)
  BY <1>1, <1>2 DEF Fits
<1>4. /\ Whole(wire[1][1]) = 2 + sent[wire[1][1]].parts /\ sent[wire[1][1]].parts \in Nat
      /\ Whole(wire[1][1]) \in Nat
  BY <1>3, WholeLength
<1>5. Ends(off)
  <2>1. CASE pc = "length"
    BY <2>1 DEF Reads, Awaits, Ends
  <2>2. CASE pc = "body"
    BY <2>2 DEF Reads, Awaits, Ends
  <2> QED BY <2>1, <2>2
<1>6. CASE pc = "length"
  <2>1. /\ remainBytes \in 1 .. 2 /\ Len(buffer_) = 2 - remainBytes /\ off[1] = 3 - remainBytes
        /\ Holds(k, "length") /\ remainBytes = 1 => wire[1][1] = k
    BY <1>1, <1>6 DEF Reads, Awaits
  <2>2. off[1] + (n - 1) <= 2 /\ off[1] + (n - 1) <= Whole(wire[1][1])
    BY <1>1, <1>3, <1>4, <2>1
  <2>3. \A i \in 1 .. Len(buffer_) : buffer_[i] = <<wire[1][1], "length">>
    BY <1>1, <1>6, <2>1 DEF Reads, Holds, Awaits
  <2>4. \A m \in 1 .. n : wire[m] = <<wire[1][1], "length">>
    <3> SUFFICES ASSUME NEW m \in 1 .. n PROVE wire[m] = <<wire[1][1], "length">>
      OBVIOUS
    <3>1. wire[m] = <<wire[1][1], Kind(off[1] + (m - 1))>>
      BY <1>2, <2>2, FirstPieces
    <3>2. off[1] + (m - 1) <= 2
      BY <1>1, <1>3, <2>2
    <3> QED BY <3>1, <3>2 DEF Kind
  <2>5. AllOf(buffer_ \o SubSeq(wire, 1, n), buffer_, n, <<wire[1][1], pc>>)
    BY <1>1, <1>6, <2>3, <2>4, JoinedIsAllOf
  <2> QED BY <1>3, <1>5, <1>6, <2>1, <2>2, <2>5
<1>7. CASE pc = "body"
  <2>1. /\ Len(buffer_) + remainBytes = sent[k].parts /\ off[1] = 3 + Len(buffer_)
        /\ wire[1][1] = k /\ Holds(k, "body")
    BY <1>1, <1>7 DEF Reads, Awaits
  <2>2. off[1] + (n - 1) <= Whole(wire[1][1])
    BY <1>1, <1>3, <1>4, <2>1
  <2>3. \A i \in 1 .. Len(buffer_) : buffer_[i] = <<wire[1][1], "body">>
    BY <2>1 DEF Holds
  <2>4. \A m \in 1 .. n : wire[m] = <<wire[1][1], "body">>
    <3> SUFFICES ASSUME NEW m \in 1 .. n PROVE wire[m] = <<wire[1][1], "body">>
      OBVIOUS
    <3>1. wire[m] = <<wire[1][1], Kind(off[1] + (m - 1))>>
      BY <1>2, <2>2, FirstPieces
    <3>2. ~(off[1] + (m - 1) <= 2)
      BY <1>1, <2>1
    <3> QED BY <3>1, <3>2 DEF Kind
  <2>5. AllOf(buffer_ \o SubSeq(wire, 1, n), buffer_, n, <<wire[1][1], pc>>)
    BY <1>1, <1>7, <2>3, <2>4, JoinedIsAllOf
  <2> QED BY <1>3, <1>5, <1>7, <2>1, <2>2, <2>5
<1> QED BY <1>6, <1>7

\* Every piece is taken from the front of the wire, and put behind what is there.
LEMMA ReceiveKeeps ==
  ASSUME Inv, Receive
  PROVE  Inv'
<1>1. /\ TypeInv /\ connected_ /\ pc \in {"length", "body"}
      /\ link' = link /\ sent' = sent
  BY DEF Inv, Receive, net
<1>2. /\ Len(wire) \in Nat /\ Len(buffer_) \in Nat /\ remainBytes \in Nat
      /\ wire \in Seq(Piece) /\ buffer_ \in Seq(Piece)
  BY <1>1 DEF TypeInv
<1>3. PICK off, k : Reads(off, k)
  BY <1>1 DEF Inv
<1>4. PICK n \in rawReceiveBytes \ {0} :
       /\ wire' = SubSeq(wire, n + 1, Len(wire))
       /\ LET pieces == buffer_ \o SubSeq(wire, 1, n) IN
          IF nowRemain(n) > 0
          THEN remainBytes' = nowRemain(n) /\ buffer_' = pieces /\ UNCHANGED <<pc, connected_, received>>
          ELSE IF pc = "body"
          THEN /\ pc' = "handle" /\ buffer_' = pieces /\ received' = Append(received, pieces[1][1])
               /\ UNCHANGED <<remainBytes, connected_>>
          ELSE /\ UNCHANGED received
               /\ IF LengthOf(pieces) = 0 THEN Fail
                  ELSE /\ pc' = "body" /\ remainBytes' = LengthOf(pieces) /\ buffer_' = <<>>
                       /\ UNCHANGED connected_
  BY Zenon DEF Receive
<1>5. wire # <<>> /\ n \in 1 .. Len(wire) /\ n <= remainBytes
  <2>1. wire # <<>>
    BY <1>4 DEF rawReceiveBytes
  <2>2. n \in 1 .. Min({remainBytes, Len(wire)})
    BY <1>4, <2>1 DEF rawReceiveBytes
  <2> QED BY <1>2, <2>1, <2>2, MinOfTwo
<1>6. /\ wire[1][1] \in 1 .. Len(sent) /\ Ends(off)
      /\ pc = "body" => wire[1][1] = k
      /\ pc = "length" => off[1] = 3 - remainBytes /\ Len(buffer_) = 2 - remainBytes
      /\ pc = "body" => off[1] = 3 + Len(buffer_)
      /\ off[1] + (n - 1) <= (IF pc = "length" THEN 2 ELSE Whole(wire[1][1]))
      /\ off[1] + (n - 1) <= Whole(wire[1][1])
      /\ AllOf(buffer_ \o SubSeq(wire, 1, n), buffer_, n, <<wire[1][1], pc>>)
  BY <1>1, <1>3, <1>5, ReadIsOfOne
<1>7. PICK pieces : pieces = buffer_ \o SubSeq(wire, 1, n)
  OBVIOUS
<1>8. PICK j : j = wire[1][1]
  OBVIOUS
<1>9. AllOf(pieces, buffer_, n, <<j, pc>>)
  BY <1>6, <1>7, <1>8, Zenon
<1>10. Len(pieces) = Len(buffer_) + n /\ pieces \in Seq(Piece)
  BY <1>9 DEF AllOf
<1>11. /\ n \in 0 .. Len(wire) /\ n \in Nat /\ n > 0
  BY <1>2, <1>5
<1>12. Rest(wire, n, wire')
  BY <1>2, <1>4, <1>11, RestIsSubSeq, Zenon
<1>13. wire' \in Seq(Piece) /\ Len(wire') = Len(wire) - n /\ Len(wire') \in Nat
  BY <1>2, <1>5, <1>12 DEF Rest
<1>14. PICK off2 : off2 = [m \in 1 .. Len(wire') |-> off[m + n]]
  OBVIOUS
<1>15. Fits(off)
  BY <1>3 DEF Reads
<1>16. /\ off2 \in [1 .. Len(wire') -> Nat \ {0}]
       /\ \A m \in 1 .. Len(wire') : off2[m] = off[m + n]
  <2>1. off \in [1 .. Len(wire) -> Nat \ {0}]
    BY <1>15 DEF Fits
  <2>2. \A m \in 1 .. Len(wire') : m + n \in 1 .. Len(wire)
    BY <1>2, <1>5, <1>13
  <2>3. \A m \in 1 .. Len(wire') : off[m + n] \in Nat \ {0}
    BY <2>1, <2>2
  <2> QED BY <1>14, <2>3
<1>17. Fits(off2)'
  BY <1>1, <1>11, <1>12, <1>15, <1>16, FitsAfter
<1>18. \A i : /\ off[1] + (n - 1) < Whole(j) => Awaits(off2, off[1] + n, j)'
              /\ off[1] + (n - 1) = Whole(j) => Awaits(off2, 1, i)'
  BY <1>1, <1>5, <1>6, <1>8, <1>12, <1>15, <1>16, AwaitsAfter
<1>19. /\ j \in 1 .. Len(sent) /\ sent[j].parts \in Nat /\ Whole(j) = 2 + sent[j].parts
       /\ sent \in Seq(Frames) /\ link \in BOOLEAN
  BY <1>1, <1>6, <1>8, WholeLength DEF TypeInv
<1>20. pc = "length" => /\ remainBytes \in 1 .. 2 /\ off[1] = 3 - remainBytes
                        /\ Len(buffer_) = 2 - remainBytes
  BY <1>3, <1>6 DEF Reads
<1>21. pc = "body" => Len(buffer_) + remainBytes = sent[j].parts /\ off[1] = 3 + Len(buffer_)
  BY <1>3, <1>6, <1>8 DEF Reads
\* More of the same is to come.
<1>22. CASE nowRemain(n) > 0
  <2>1. /\ remainBytes' = remainBytes - n /\ buffer_' = pieces /\ pc' = pc /\ connected_' = connected_
        /\ remainBytes - n > 0
    BY <1>4, <1>7, <1>22, Zenon DEF nowRemain
  <2>2. Len(buffer_') = Len(buffer_) + n /\ remainBytes' \in Nat /\ remainBytes' > 0
    BY <1>2, <1>10, <1>11, <2>1
  <2>3. TypeInv'
    BY <1>1, <1>10, <1>13, <1>19, <2>1, <2>2 DEF TypeInv
  <2>4. CASE pc = "length"
    <3>1. off[1] + (n - 1) < Whole(j) /\ off[1] + n = 3 - remainBytes'
      BY <1>2, <1>11, <1>19, <1>20, <2>1, <2>4
    <3>2. remainBytes' \in 1 .. 2 /\ Len(buffer_') = 2 - remainBytes'
      BY <1>2, <1>11, <1>20, <2>1, <2>2, <2>4
    <3>3. Awaits(off2, off[1] + n, j)'
      BY <1>18, <3>1
    <3>4. Holds(j, "length")'
      BY <1>9, <2>1, <2>4 DEF Holds, AllOf
    <3>5. Reads(off2, j)'
      BY <1>17, <2>1, <2>4, <3>1, <3>2, <3>3, <3>4 DEF Reads
    <3> QED BY <1>1, <2>1, <2>3, <3>5 DEF Inv
  <2>5. CASE pc = "body"
    <3>1. off[1] + (n - 1) < Whole(j) /\ off[1] + n = 3 + Len(buffer_')
      <4>1. Len(buffer_) + remainBytes = sent[j].parts /\ off[1] = 3 + Len(buffer_)
        BY <1>21, <2>5
      <4>2. off[1] + (n - 1) < 2 + (Len(buffer_) + remainBytes) /\ off[1] + n = 3 + Len(buffer_')
        BY <1>2, <1>11, <2>1, <2>2, <4>1, SMTT(30)
      <4> QED BY <1>19, <4>1, <4>2, Zenon
    <3>2. Len(buffer_') + remainBytes' = sent'[j].parts /\ j \in 1 .. Len(sent')
      BY <1>1, <1>2, <1>11, <1>19, <1>21, <2>1, <2>2, <2>5
    <3>3. Awaits(off2, off[1] + n, j)'
      BY <1>18, <3>1
    <3>4. Holds(j, "body")'
      BY <1>9, <2>1, <2>5 DEF Holds, AllOf
    <3>5. Reads(off2, j)'
      BY <1>17, <2>1, <2>2, <2>5, <3>1, <3>2, <3>3, <3>4 DEF Reads
    <3> QED BY <1>1, <2>1, <2>3, <3>5 DEF Inv
  <2> QED BY <1>1, <2>4, <2>5
\* The body is complete.
<1>23. CASE pc = "body" /\ ~(nowRemain(n) > 0)
  <2>1. /\ pc' = "handle" /\ buffer_' = pieces /\ remainBytes' = remainBytes /\ connected_' = connected_
        /\ ~(remainBytes - n > 0)
    BY <1>4, <1>7, <1>23 DEF nowRemain
  <2>2. n = remainBytes
    BY <1>2, <1>5, <1>11, <2>1
  <2>3. off[1] + (n - 1) = Whole(j)
    BY <1>2, <1>19, <1>21, <1>23, <2>2
  <2>4. Awaits(off2, 1, j)'
    BY <1>18, <2>3
  <2>5. Holds(j, "body")'
    BY <1>9, <1>23, <2>1 DEF Holds, AllOf
  <2>6. Reads(off2, j)'
    BY <1>17, <2>1, <2>4, <2>5 DEF Reads
  <2>7. TypeInv'
    BY <1>1, <1>2, <1>10, <1>13, <1>19, <2>1 DEF TypeInv
  <2> QED BY <1>1, <2>1, <2>6, <2>7 DEF Inv
\* The length is complete, and says how long the body is.
<1>24. CASE pc = "length" /\ ~(nowRemain(n) > 0)
  <2>1. ~(remainBytes - n > 0)
    BY <1>24 DEF nowRemain
  <2>2. n = remainBytes
    BY <1>2, <1>5, <1>11, <2>1
  <2>3. Len(pieces) = 2 /\ off[1] + (n - 1) = 2 /\ off[1] + n = 3
    <3>1. /\ remainBytes \in 1 .. 2 /\ off[1] = 3 - remainBytes /\ Len(buffer_) = 2 - remainBytes
          /\ Len(pieces) = Len(buffer_) + n
      BY <1>10, <1>20, <1>24
    <3> QED BY <2>2, <3>1
  <2>4. \A i \in 1 .. 2 : pieces[i] = <<j, "length">>
    BY <1>9, <1>24, <2>3 DEF AllOf
  <2>5. DOMAIN pieces = 1 .. 2
    <3>1. pieces \in Seq(Piece) /\ Len(pieces) = 2
      BY <1>10, <2>3
    <3> QED BY <3>1
  <2>6. LengthOf(pieces) = sent[j].parts
    BY <2>4, <2>5 DEF LengthOf
  <2>7. CASE LengthOf(pieces) = 0
    <3>1. Fail
      BY <1>4, <1>7, <1>24, <2>7
    <3>2. TypeInv'
      BY <1>1, <1>2, <1>13, <1>19, <3>1 DEF TypeInv, Fail
    <3> QED BY <3>1, <3>2 DEF Inv, Fail
  <2>8. CASE LengthOf(pieces) # 0
    <3>1. /\ pc' = "body" /\ remainBytes' = LengthOf(pieces) /\ buffer_' = <<>>
          /\ connected_' = connected_
      BY <1>4, <1>7, <1>24, <2>8
    <3>2. off[1] + (n - 1) < Whole(j)
      BY <1>19, <2>3, <2>6, <2>8
    <3>3. Awaits(off2, 3, j)'
      BY <1>18, <2>3, <3>2
    <3>4. Len(buffer_') = 0 /\ buffer_' \in Seq(Piece)
      BY <3>1
    <3>5. Holds(j, "body")'
      BY <3>4 DEF Holds
    <3>6. /\ j \in 1 .. Len(sent') /\ remainBytes' > 0 /\ remainBytes' = sent'[j].parts
          /\ remainBytes' \in Nat
      BY <1>1, <1>19, <2>6, <2>8, <3>1
    <3>7. Reads(off2, j)'
      BY <1>17, <3>1, <3>3, <3>4, <3>5, <3>6 DEF Reads
    <3>8. TypeInv'
      BY <1>1, <1>13, <1>19, <3>1, <3>4, <3>6 DEF TypeInv
    <3> QED BY <1>1, <3>1, <3>7, <3>8 DEF Inv
  <2> QED BY <2>7, <2>8
<1> QED BY <1>1, <1>22, <1>23, <1>24

\* A new connection has nothing of the old one on it.
LEMMA CheckKeeps ==
  ASSUME Inv, Check
  PROVE  Inv'
<1>1. /\ pc = "check" /\ pc' = "length" /\ remainBytes' = 2 /\ buffer_' = <<>> /\ sent' = sent
      /\ TypeInv /\ Len(buffer_') = 0 /\ buffer_' \in Seq(Piece)
  BY DEF Check, Inv
<1>2. \A k : Holds(k, "length")'
  BY <1>1 DEF Holds
<1>3. CASE connected_ \/ ~makesAgain
  <2>1. connected_' = connected_ /\ link' = link /\ wire' = wire
    BY <1>3 DEF Check
  <2>2. TypeInv'
    BY <1>1, <2>1 DEF TypeInv
  <2>3. ASSUME connected_' PROVE \E off, k : Reads(off, k)'
    <3>1. PICK off, k : Reads(off, k)
      BY <2>1, <2>3 DEF Inv
    <3>2. Fits(off)' /\ Awaits(off, 1, k)'
      BY <1>1, <2>1, <3>1 DEF Reads, Fits, Rising, Awaits, Whole
    <3>3. Reads(off, k)'
      BY <1>1, <1>2, <3>2 DEF Reads
    <3> QED BY <3>3
  <2> QED BY <1>1, <2>2, <2>3 DEF Inv
<1>4. CASE ~(connected_ \/ ~makesAgain)
  <2>1. link' \in BOOLEAN /\ connected_' = link' /\ wire' = <<>>
    BY <1>4 DEF Check
  <2>2. TypeInv'
    BY <1>1, <2>1 DEF TypeInv
  <2>3. PICK off : off = [n \in 1 .. 0 |-> 1]
    OBVIOUS
  <2>4. Fits(off)' /\ Awaits(off, 1, 0)'
    BY <2>1, <2>3 DEF Fits, Rising, Awaits
  <2>5. Reads(off, 0)'
    BY <1>1, <1>2, <2>4 DEF Reads
  <2> QED BY <1>1, <2>2, <2>5 DEF Inv
<1> QED BY <1>3, <1>4

\* A failure gives the connection up and takes no piece.
LEMMA ReceiveFailsKeeps == Inv /\ ReceiveFails => Inv'
BY DEF Inv, TypeInv, ReceiveFails, Fail, net

\* What a handler does, it does to no piece.
LEMMA HandleKeeps ==
  ASSUME Inv, Handle
  PROVE  Inv'
<1>1. /\ pc = "handle" /\ pc' = "check" /\ link' = link /\ sent' = sent /\ wire' = wire
      /\ remainBytes' = remainBytes /\ buffer_' = buffer_ /\ TypeInv /\ connected_
  BY DEF Handle, Inv, net
<1>2. connected_' \in BOOLEAN
  <2>1. rawSendBytes \subseteq BOOLEAN /\ connected_ \in BOOLEAN
    BY <1>1 DEF rawSendBytes, TypeInv
  <2>2. PICK replied : connected_' \in IF replied = <<>> THEN {connected_}
                                      ELSE {connected_ /\ ok : ok \in rawSendBytes}
    BY Zenon DEF Handle
  <2> QED BY <2>1, <2>2
<1>3. TypeInv'
  BY <1>1, <1>2 DEF TypeInv
<1>4. PICK off, k : Reads(off, k)
  BY <1>1 DEF Inv
<1>5. Fits(off)' /\ Awaits(off, 1, k)'
  BY <1>1, <1>4 DEF Reads, Fits, Rising, Awaits, Whole
<1>6. Reads(off, k)'
  BY <1>1, <1>5 DEF Reads
<1> QED BY <1>1, <1>3, <1>6 DEF Inv

-----------------------------------------------------------------------------
(* What happens to the wire.                                               *)

\* The reader does not see what happens behind the piece it waits for.
LEMMA ReadsOn ==
  ASSUME TypeInv, NEW off, NEW off2, NEW k, Reads(off, k), Fits(off2)',
         \A o \in Nat \ {0} : Awaits(off, o, k) => Awaits(off2, o, k)',
         pc' = pc, remainBytes' = remainBytes, buffer_' = buffer_,
         \A j \in 1 .. Len(sent) : j \in 1 .. Len(sent') /\ sent'[j] = sent[j]
  PROVE  Reads(off2, k)'
<1>1. Len(buffer_) \in Nat /\ remainBytes \in Nat /\ pc \in {"check", "length", "body", "handle"}
  BY DEF TypeInv
<1>2. CASE pc \in {"check", "handle"}
  <2>1. Awaits(off2, 1, k)'
    BY <1>2 DEF Reads
  <2>2. pc = "handle" => Holds(k, "body")'
    BY DEF Reads, Holds
  <2> QED BY <1>2, <2>1, <2>2 DEF Reads
<1>3. CASE pc = "length"
  <2>1. 3 - remainBytes \in Nat \ {0} /\ Awaits(off, 3 - remainBytes, k)
    BY <1>3 DEF Reads
  <2>2. Awaits(off2, 3 - remainBytes, k)'
    BY <2>1
  <2>3. Holds(k, "length")'
    BY <1>3 DEF Reads, Holds
  <2> QED BY <1>3, <2>2, <2>3 DEF Reads
<1>4. CASE pc = "body"
  <2>1. 3 + Len(buffer_) \in Nat \ {0} /\ Awaits(off, 3 + Len(buffer_), k)
    BY <1>1, <1>4 DEF Reads
  <2>2. Awaits(off2, 3 + Len(buffer_), k)'
    BY <2>1
  <2>3. Holds(k, "body")'
    BY <1>4 DEF Reads, Holds
  <2> QED BY <1>4, <2>2, <2>3 DEF Reads
<1> QED BY <1>1, <1>2, <1>3, <1>4

\* The pieces r are the first n of w.
First(w, n, r) == /\ r \in Seq(Piece)
                  /\ Len(r) = n
                  /\ \A m \in 1 .. n : r[m] = w[m]

\* The first n pieces of the wire are pieces of the wire.
LEMMA FirstIsSubSeq ==
  ASSUME NEW w \in Seq(Piece), NEW n \in 0 .. Len(w)
  PROVE  First(w, n, SubSeq(w, 1, n))
<1>1. Len(w) \in Nat /\ \A i \in 1 .. Len(w) : w[i] \in Piece
  OBVIOUS
<1>2. PICK S : S = Piece
  OBVIOUS
<1>3. 1 \in Int /\ n \in Int /\ \A i \in 1 .. n : w[i] \in S
  BY <1>1, <1>2
<1>4. PICK r : r = SubSeq(w, 1, n)
  OBVIOUS
<1>5. /\ r \in Seq(S)
      /\ Len(r) = IF 1 <= n THEN n - 1 + 1 ELSE 0
      /\ \A i \in 1 .. n - 1 + 1 : r[i] = w[1 + i - 1]
  <2>1. /\ SubSeq(w, 1, n) \in Seq(S)
        /\ Len(SubSeq(w, 1, n)) = IF 1 <= n THEN n - 1 + 1 ELSE 0
        /\ \A i \in 1 .. n - 1 + 1 : SubSeq(w, 1, n)[i] = w[1 + i - 1]
    BY <1>3, SubSeqProperties
  <2> QED BY <1>4, <2>1, Zenon
<1>6. First(w, n, r)
  BY <1>1, <1>2, <1>5 DEF First
<1> QED BY <1>4, <1>6, Zenon

\* What a lost connection leaves on the wire are the first pieces of it; there may be
\* no end of a message among them.
LEMMA LoseConnectionKeeps ==
  ASSUME Inv, LoseConnection
  PROVE  Inv'
<1>1. /\ link' = FALSE /\ sent' = sent /\ pc' = pc /\ remainBytes' = remainBytes
      /\ buffer_' = buffer_ /\ connected_' = connected_ /\ TypeInv
  BY DEF LoseConnection, Inv
<1>2. Len(wire) \in Nat /\ wire \in Seq(Piece)
  BY <1>1 DEF TypeInv
<1>3. PICK n \in 0 .. Len(wire) : wire' = SubSeq(wire, 1, n)
  BY DEF LoseConnection
<1>4. First(wire, n, wire')
  BY <1>2, <1>3, FirstIsSubSeq, Zenon
<1>5. /\ wire' \in Seq(Piece) /\ Len(wire') = n /\ n \in Nat
      /\ \A m \in 1 .. n : wire'[m] = wire[m] /\ m \in 1 .. Len(wire)
  BY <1>2, <1>4 DEF First
<1>6. TypeInv'
  BY <1>1, <1>5 DEF TypeInv
<1>7. ASSUME connected_ PROVE \E off, k : Reads(off, k)'
  <2>1. PICK off, k : Reads(off, k)
    BY <1>7 DEF Inv
  <2>2. Fits(off)
    BY <2>1 DEF Reads
  <2>3. PICK off2 : off2 = [m \in 1 .. n |-> off[m]]
    OBVIOUS
  <2>4. off2 \in [1 .. n -> Nat \ {0}] /\ \A m \in 1 .. n : off2[m] = off[m]
    BY <1>5, <2>2, <2>3 DEF Fits
  <2>5. Fits(off2)'
    <3>1. \A i \in 1 .. n : /\ i \in 1 .. Len(wire) /\ wire'[i] = wire[i] /\ off2[i] = off[i]
                            /\ i > 1 => i - 1 \in 1 .. n
      BY <1>5, <2>4
    <3>2. off2 \in [1 .. Len(wire') -> Nat \ {0}]
      BY <1>5, <2>4
    <3>3. \A i \in 1 .. n : /\ wire'[i][1] \in 1 .. Len(sent') /\ wire'[i] = <<wire'[i][1], Kind(off2[i])>>
                            /\ off2[i] <= 2 + sent'[wire'[i][1]].parts
      BY <1>1, <2>2, <3>1 DEF Fits, Whole
    <3>4. \A i, m \in 1 .. n : i < m /\ off2[i] + (m - i) <= 2 + sent'[wire'[i][1]].parts =>
            wire'[m][1] = wire'[i][1] /\ off2[m] = off2[i] + (m - i)
      <4> SUFFICES ASSUME NEW i \in 1 .. n, NEW m \in 1 .. n,
                          i < m, off2[i] + (m - i) <= 2 + sent'[wire'[i][1]].parts
                   PROVE  wire'[m][1] = wire'[i][1] /\ off2[m] = off2[i] + (m - i)
        OBVIOUS
      <4>1. /\ i \in 1 .. Len(wire) /\ wire'[i] = wire[i] /\ off2[i] = off[i]
            /\ m \in 1 .. Len(wire) /\ wire'[m] = wire[m] /\ off2[m] = off[m]
        BY <3>1
      <4>2. off[i] + (m - i) <= Whole(wire[i][1])
        BY <1>1, <4>1 DEF Whole
      <4> QED BY <2>2, <4>1, <4>2 DEF Fits
    <3>5. \A i \in 1 .. n : i > 1 /\ off2[i - 1] = 2 + sent'[wire'[i - 1][1]].parts => off2[i] = 1
      BY <1>1, <2>2, <3>1 DEF Fits, Whole
    <3>6. Rising(off2)'
      BY <1>5, <2>2, <3>1 DEF Fits, Rising
    <3> QED BY <1>5, <3>2, <3>3, <3>4, <3>5, <3>6 DEF Fits, Whole
  <2>6. \A o \in Nat \ {0} : Awaits(off, o, k) => Awaits(off2, o, k)'
    <3>1. wire' # <<>> => wire # <<>> /\ wire'[1] = wire[1] /\ off2[1] = off[1]
      BY <1>2, <1>5, <2>4
    <3> QED BY <1>1, <3>1 DEF Awaits
  <2>7. Reads(off2, k)'
    BY <1>1, <2>1, <2>5, <2>6, ReadsOn
  <2> QED BY <2>7
<1> QED BY <1>1, <1>6, <1>7 DEF Inv

\* The pieces of message k.
LEMMA PiecesAre ==
  ASSUME NEW f, f.parts \in Nat, NEW k \in Nat
  PROVE  /\ Pieces(f, k) \in Seq(Piece) /\ Len(Pieces(f, k)) = 2 + f.parts
         /\ \A i \in 1 .. 2 + f.parts : Pieces(f, k)[i] = <<k, Kind(i)>>
<1>1. PICK n : n = f.parts
  OBVIOUS
<1>2. PICK a : a = <<<<k, "length">>, <<k, "length">>>>
  OBVIOUS
<1>3. PICK b : b = [i \in 1 .. n |-> <<k, "body">>]
  OBVIOUS
<1>4. /\ a \in Seq(Piece) /\ Len(a) = 2 /\ \A i \in 1 .. 2 : a[i] = <<k, "length">>
  BY <1>2 DEF Piece
<1>5. /\ b \in Seq(Piece) /\ Len(b) = n /\ \A i \in 1 .. n : b[i] = <<k, "body">>
  <2>1. n \in Nat /\ \A i \in 1 .. n : b[i] = <<k, "body">>
    BY <1>1, <1>3
  <2>2. b \in [1 .. n -> Piece]
    BY <1>3 DEF Piece
  <2> QED BY <2>1, <2>2
<1>6. PICK S : S = Piece
  OBVIOUS
<1>7. /\ a \o b \in Seq(S)
      /\ Len(a \o b) = Len(a) + Len(b)
      /\ \A i \in 1 .. Len(a) + Len(b) : (a \o b)[i] = IF i <= Len(a) THEN a[i] ELSE b[i - Len(a)]
  BY <1>4, <1>5, <1>6, ConcatProperties
<1>8. Pieces(f, k) = a \o b
  BY <1>1, <1>2, <1>3 DEF Pieces
<1>9. \A i \in 1 .. 2 + n : (a \o b)[i] = <<k, Kind(i)>>
  <2> SUFFICES ASSUME NEW i \in 1 .. 2 + n PROVE (a \o b)[i] = <<k, Kind(i)>>
    OBVIOUS
  <2>1. (a \o b)[i] = IF i <= 2 THEN a[i] ELSE b[i - 2]
    BY <1>1, <1>4, <1>5, <1>7
  <2>2. i <= 2 => i \in 1 .. 2
    BY <1>1
  <2>3. ~(i <= 2) => i - 2 \in 1 .. n
    BY <1>1
  <2> QED BY <1>4, <1>5, <2>1, <2>2, <2>3 DEF Kind
<1> QED BY <1>1, <1>4, <1>5, <1>6, <1>7, <1>8, <1>9

\* A message that is sent follows whole messages.
LEMMA SendKeeps ==
  ASSUME Inv, NEW f \in Frames, Send(f)
  PROVE  Inv'
<1>1. /\ link /\ link' = link /\ pc' = pc /\ remainBytes' = remainBytes
      /\ buffer_' = buffer_ /\ connected_' = connected_ /\ TypeInv
      /\ sent' = Append(sent, f) /\ wire' = wire \o Pieces(f, Len(sent) + 1)
      /\ f.parts \in Nat
  BY ManagerAssumption DEF Send, Inv
<1>2. /\ Len(wire) \in Nat /\ wire \in Seq(Piece) /\ Len(sent) \in Nat /\ sent \in Seq(Frames)
  BY <1>1 DEF TypeInv
<1>3. PICK k0 : k0 = Len(sent) + 1
  OBVIOUS
<1>4. PICK p : p = Pieces(f, k0)
  OBVIOUS
<1>5. /\ p \in Seq(Piece) /\ Len(p) = 2 + f.parts
      /\ \A i \in 1 .. 2 + f.parts : p[i] = <<k0, Kind(i)>>
  <2>1. k0 \in Nat
    BY <1>2, <1>3
  <2>2. /\ Pieces(f, k0) \in Seq(Piece) /\ Len(Pieces(f, k0)) = 2 + f.parts
        /\ \A i \in 1 .. 2 + f.parts : Pieces(f, k0)[i] = <<k0, Kind(i)>>
    BY <1>1, <2>1, PiecesAre
  <2> QED BY <1>4, <2>2, Zenon
<1>6. /\ sent' \in Seq(Frames) /\ Len(sent') = k0 /\ sent'[k0] = f
      /\ \A j \in 1 .. Len(sent) : j \in 1 .. Len(sent') /\ sent'[j] = sent[j]
  BY <1>1, <1>2, <1>3
<1>7. /\ wire' \in Seq(Piece) /\ Len(wire') = Len(wire) + (2 + f.parts)
      /\ \A m \in 1 .. Len(wire) : wire'[m] = wire[m]
      /\ \A m \in Len(wire) + 1 .. Len(wire') : wire'[m] = <<k0, Kind(m - Len(wire))>>
  <2>1. PICK S : S = Piece
    OBVIOUS
  <2>2. PICK w : w = wire \o p
    OBVIOUS
  <2>3. /\ w \in Seq(S)
        /\ Len(w) = Len(wire) + Len(p)
        /\ \A i \in 1 .. Len(wire) + Len(p) : w[i] = IF i <= Len(wire) THEN wire[i] ELSE p[i - Len(wire)]
    <3>1. /\ wire \o p \in Seq(S)
          /\ Len(wire \o p) = Len(wire) + Len(p)
          /\ \A i \in 1 .. Len(wire) + Len(p) :
               (wire \o p)[i] = IF i <= Len(wire) THEN wire[i] ELSE p[i - Len(wire)]
      BY <1>2, <1>5, <2>1, ConcatProperties
    <3> QED BY <2>2, <3>1, Zenon
  <2>4. Len(w) = Len(wire) + (2 + f.parts) /\ Len(w) \in Nat
    BY <1>1, <1>2, <1>5, <2>3
  <2>5. \A m \in 1 .. Len(wire) : w[m] = wire[m]
    <3> SUFFICES ASSUME NEW m \in 1 .. Len(wire) PROVE w[m] = wire[m]
      OBVIOUS
    <3>1. m <= Len(wire) /\ m \in 1 .. Len(wire) + Len(p)
      BY <1>1, <1>2, <1>5
    <3> QED BY <2>3, <3>1
  <2>6. \A m \in Len(wire) + 1 .. Len(w) : w[m] = <<k0, Kind(m - Len(wire))>>
    <3> SUFFICES ASSUME NEW m \in Len(wire) + 1 .. Len(w) PROVE w[m] = <<k0, Kind(m - Len(wire))>>
      OBVIOUS
    <3>1. ~(m <= Len(wire)) /\ m \in 1 .. Len(wire) + Len(p) /\ m - Len(wire) \in 1 .. 2 + f.parts
      BY <1>1, <1>2, <1>5, <2>4, SMTT(30)
    <3> QED BY <1>5, <2>3, <3>1
  <2>7. wire' = w
    BY <1>1, <1>3, <1>4, <2>2, Zenon
  <2> QED BY <2>1, <2>3, <2>4, <2>5, <2>6, <2>7, Zenon
<1>8. TypeInv'
  BY <1>1, <1>6, <1>7 DEF TypeInv
<1>9. ASSUME connected_ PROVE \E off, k : Reads(off, k)'
  <2>1. PICK off, k : Reads(off, k)
    BY <1>9 DEF Inv
  <2>2. Fits(off) /\ Ends(off)
    <3>1. Ends(off)
      <4>1. CASE pc \in {"check", "handle"}
        BY <2>1, <4>1 DEF Reads, Awaits, Ends
      <4>2. CASE pc = "length"
        BY <2>1, <4>2 DEF Reads, Awaits, Ends
      <4>3. CASE pc = "body"
        BY <2>1, <4>3 DEF Reads, Awaits, Ends
      <4> QED BY <1>1, <4>1, <4>2, <4>3 DEF TypeInv
    <3> QED BY <2>1, <3>1 DEF Reads
  <2>3. PICK off2 : off2 = [m \in 1 .. Len(wire') |-> IF m <= Len(wire) THEN off[m] ELSE m - Len(wire)]
    OBVIOUS
  <2>4. /\ off2 \in [1 .. Len(wire') -> Nat \ {0}]
        /\ \A m \in 1 .. Len(wire) : off2[m] = off[m]
        /\ \A m \in Len(wire) + 1 .. Len(wire') : off2[m] = m - Len(wire)
    <3>1. off \in [1 .. Len(wire) -> Nat \ {0}]
      BY <2>2 DEF Fits
    <3>2. Len(wire') \in Nat /\ Len(wire) <= Len(wire')
      BY <1>1, <1>2, <1>7
    <3> QED BY <1>2, <2>3, <3>1, <3>2
  <2>5. /\ \A m \in 1 .. Len(wire) : /\ m \in 1 .. Len(wire') /\ wire'[m] = wire[m] /\ off2[m] = off[m]
                                     /\ wire[m][1] \in 1 .. Len(sent)
                                     /\ sent'[wire[m][1]] = sent[wire[m][1]]
        /\ \A m \in Len(wire) + 1 .. Len(wire') :
             wire'[m] = <<k0, Kind(m - Len(wire))>> /\ off2[m] = m - Len(wire)
        /\ \A m \in 1 .. Len(wire') : m \in 1 .. Len(wire) \/ m \in Len(wire) + 1 .. Len(wire')
    <3>1. \A m \in 1 .. Len(wire) : m \in 1 .. Len(wire')
      BY <1>1, <1>2, <1>7
    <3>2. \A m \in 1 .. Len(wire) : wire[m][1] \in 1 .. Len(sent)
      BY <2>2 DEF Fits
    <3>3. \A m \in 1 .. Len(wire') : m \in 1 .. Len(wire) \/ m \in Len(wire) + 1 .. Len(wire')
      BY <1>1, <1>2, <1>7
    <3> QED BY <1>6, <1>7, <2>4, <3>1, <3>2, <3>3
  <2>6. Fits(off2)'
    <3>1. \A m \in 1 .. Len(wire') :
            /\ wire'[m][1] \in 1 .. Len(sent') /\ wire'[m] = <<wire'[m][1], Kind(off2[m])>>
            /\ off2[m] <= 2 + sent'[wire'[m][1]].parts
      <4> SUFFICES ASSUME NEW m \in 1 .. Len(wire')
                   PROVE  /\ wire'[m][1] \in 1 .. Len(sent')
                          /\ wire'[m] = <<wire'[m][1], Kind(off2[m])>>
                          /\ off2[m] <= 2 + sent'[wire'[m][1]].parts
        OBVIOUS
      <4>1. CASE m \in 1 .. Len(wire)
        BY <1>6, <2>2, <2>5, <4>1 DEF Fits, Whole
      <4>2. CASE m \in Len(wire) + 1 .. Len(wire')
        <5>1. wire'[m][1] = k0 /\ off2[m] = m - Len(wire) /\ wire'[m] = <<k0, Kind(off2[m])>>
          BY <2>5, <4>2
        <5>2. m - Len(wire) <= 2 + f.parts /\ k0 \in 1 .. Len(sent')
          BY <1>1, <1>2, <1>3, <1>6, <1>7, <4>2
        <5> QED BY <1>6, <5>1, <5>2
      <4> QED BY <2>5, <4>1, <4>2
    <3>2. \A i, m \in 1 .. Len(wire') :
            i < m /\ off2[i] + (m - i) <= 2 + sent'[wire'[i][1]].parts =>
            wire'[m][1] = wire'[i][1] /\ off2[m] = off2[i] + (m - i)
      <4> SUFFICES ASSUME NEW i \in 1 .. Len(wire'), NEW m \in 1 .. Len(wire'),
                          i < m, off2[i] + (m - i) <= 2 + sent'[wire'[i][1]].parts
                   PROVE  wire'[m][1] = wire'[i][1] /\ off2[m] = off2[i] + (m - i)
        OBVIOUS
      <4>1. CASE i \in 1 .. Len(wire)
        <5>1. /\ wire'[i] = wire[i] /\ off2[i] = off[i] /\ off[i] + (m - i) <= Whole(wire[i][1])
              /\ off[i] \in Nat /\ Whole(wire[i][1]) \in Nat
          <6>1. wire'[i] = wire[i] /\ off2[i] = off[i] /\ sent'[wire[i][1]] = sent[wire[i][1]]
            BY <2>5, <4>1
          <6>2. off[i] \in Nat /\ wire[i][1] \in 1 .. Len(sent)
            BY <2>2, <4>1 DEF Fits
          <6>3. Whole(wire[i][1]) \in Nat
            BY <1>1, <6>2, WholeLength
          <6>4. 2 + sent'[wire'[i][1]].parts = Whole(wire[i][1])
            BY <6>1, Zenon DEF Whole
          <6>5. off[i] + (m - i) <= Whole(wire[i][1])
            BY <6>1, <6>4
          <6> QED BY <6>1, <6>2, <6>3, <6>5
        <5>2. CASE m \in 1 .. Len(wire)
          <6>1. wire'[m] = wire[m] /\ off2[m] = off[m]
            BY <2>5, <5>2
          <6>2. wire[m][1] = wire[i][1] /\ off[m] = off[i] + (m - i)
            BY <2>2, <4>1, <5>1, <5>2 DEF Fits
          <6> QED BY <5>1, <6>1, <6>2
        <5>3. CASE m \in Len(wire) + 1 .. Len(wire')
          <6>1. Len(wire) \in 1 .. Len(wire) /\ wire # <<>>
            BY <1>2, <4>1
          <6>2. off[Len(wire)] = Whole(wire[Len(wire)][1])
            BY <1>1, <2>2, <6>1 DEF Ends
          <6>3. off[i] + (Len(wire) - i) < Whole(wire[i][1])
            BY <1>2, <4>1, <5>1, <5>3
          <6>4. wire[Len(wire)][1] = wire[i][1] /\ off[Len(wire)] = off[i] + (Len(wire) - i)
            <7>1. CASE i = Len(wire)
              BY <1>2, <5>1, <7>1
            <7>2. CASE i < Len(wire)
              BY <1>2, <2>2, <4>1, <6>1, <6>3, <5>1, <7>2, SMTT(30) DEF Fits
            <7> QED BY <1>2, <4>1, <7>1, <7>2
          <6> QED BY <1>2, <4>1, <5>1, <6>2, <6>3, <6>4
        <5> QED BY <2>5, <5>2, <5>3
      <4>2. CASE i \in Len(wire) + 1 .. Len(wire')
        <5>1. m \in Len(wire) + 1 .. Len(wire')
          BY <1>2, <4>2
        <5>2. /\ wire'[m][1] = k0 /\ wire'[i][1] = k0
              /\ off2[m] = m - Len(wire) /\ off2[i] = i - Len(wire)
          BY <2>5, <4>2, <5>1
        <5> QED BY <1>2, <4>2, <5>1, <5>2
      <4> QED BY <2>5, <4>1, <4>2
    <3>3. \A m \in 1 .. Len(wire') :
            m > 1 /\ off2[m - 1] = 2 + sent'[wire'[m - 1][1]].parts => off2[m] = 1
      <4> SUFFICES ASSUME NEW m \in 1 .. Len(wire'), m > 1,
                          off2[m - 1] = 2 + sent'[wire'[m - 1][1]].parts
                   PROVE  off2[m] = 1
        OBVIOUS
      <4>1. CASE m \in 1 .. Len(wire)
        <5>1. m - 1 \in 1 .. Len(wire)
          BY <1>2, <4>1
        <5>2. /\ off2[m] = off[m] /\ off2[m - 1] = off[m - 1] /\ wire'[m - 1] = wire[m - 1]
              /\ sent'[wire[m - 1][1]] = sent[wire[m - 1][1]]
          BY <2>5, <4>1, <5>1
        <5>3. off[m - 1] = Whole(wire[m - 1][1])
          BY <5>2 DEF Whole
        <5> QED BY <2>2, <4>1, <5>2, <5>3 DEF Fits
      <4>2. CASE m \in Len(wire) + 1 .. Len(wire')
        <5>1. CASE m = Len(wire) + 1
          BY <1>2, <2>5, <4>2, <5>1
        <5>2. CASE m # Len(wire) + 1
          <6>1. m - 1 \in Len(wire) + 1 .. Len(wire')
            BY <1>2, <1>7, <4>2, <5>2
          <6>2. wire'[m - 1][1] = k0 /\ off2[m - 1] = (m - 1) - Len(wire)
            BY <2>5, <6>1
          <6>3. (m - 1) - Len(wire) = 2 + f.parts
            BY <1>6, <6>2
          <6> QED BY <1>1, <1>2, <1>7, <4>2, <6>3
        <5> QED BY <5>1, <5>2
      <4> QED BY <2>5, <4>1, <4>2
    <3>4. Rising(off2)'
      <4> SUFFICES ASSUME NEW i \in 1 .. Len(wire'), NEW m \in 1 .. Len(wire'), i < m
                   PROVE  wire'[i][1] <= wire'[m][1] /\ (off2[m] = 1 => wire'[i][1] < wire'[m][1])
        BY DEF Rising
      <4>1. CASE m \in 1 .. Len(wire)
        <5>1. i \in 1 .. Len(wire)
          BY <1>2, <4>1
        <5>2. wire[i][1] <= wire[m][1] /\ (off[m] = 1 => wire[i][1] < wire[m][1])
          BY <2>2, <4>1, <5>1 DEF Fits, Rising
        <5> QED BY <2>5, <4>1, <5>1, <5>2
      <4>2. CASE m \in Len(wire) + 1 .. Len(wire') /\ i \in 1 .. Len(wire)
        <5>1. wire'[m][1] = k0 /\ wire'[i][1] \in 1 .. Len(sent)
          BY <2>5, <4>2
        <5> QED BY <1>2, <1>3, <5>1
      <4>3. CASE m \in Len(wire) + 1 .. Len(wire') /\ i \in Len(wire) + 1 .. Len(wire')
        <5>1. wire'[m][1] = k0 /\ wire'[i][1] = k0 /\ off2[m] = m - Len(wire) /\ off2[m] # 1
          BY <1>2, <2>5, <4>3
        <5> QED BY <1>2, <1>3, <5>1
      <4> QED BY <2>5, <4>1, <4>2, <4>3
    <3> QED BY <2>4, <3>1, <3>2, <3>3, <3>4 DEF Fits, Whole
  <2>7. ASSUME NEW o \in Nat \ {0}, Awaits(off, o, k)
        PROVE  Awaits(off2, o, k)'
    <3>1. Len(wire') > Len(wire) /\ Len(wire') > 0 /\ wire' # <<>> /\ Len(wire') \in Nat
      BY <1>1, <1>2, <1>7
    <3>2. off2[1] = o /\ (o > 1 => wire'[1][1] = k)
      <4>1. CASE wire = <<>>
        <5>1. o = 1
          BY <1>1, <2>7, <4>1 DEF Awaits
        <5>2. 1 \in Len(wire) + 1 .. Len(wire') /\ 1 - Len(wire) = 1
          BY <1>2, <3>1, <4>1
        <5> QED BY <2>5, <5>1, <5>2
      <4>2. CASE wire # <<>>
        <5>1. 1 \in 1 .. Len(wire)
          BY <1>2, <4>2
        <5> QED BY <2>5, <2>7, <4>2, <5>1 DEF Awaits
      <4> QED BY <4>1, <4>2
    <3>3. off2[Len(wire')] = 2 + sent'[wire'[Len(wire')][1]].parts
      <4>1. Len(wire') \in Len(wire) + 1 .. Len(wire') /\ Len(wire') - Len(wire) = 2 + f.parts
        BY <1>1, <1>2, <1>7, <3>1
      <4> QED BY <1>6, <2>5, <4>1
    <3> QED BY <3>1, <3>2, <3>3 DEF Awaits, Whole
  <2>8. Reads(off2, k)'
    BY <1>1, <1>6, <2>1, <2>6, <2>7, ReadsOn
  <2> QED BY <2>8
<1> QED BY <1>1, <1>8, <1>9 DEF Inv

-----------------------------------------------------------------------------
\* An invariant: while the connection lasts, the reader is at a place of a message and
\* the pieces on the wire go on from there.
LEMMA ManagerInvariant == Spec => []Inv
<1>1. Inv /\ [Next]_vars => Inv'
  <2> SUFFICES ASSUME Inv, [Next]_vars PROVE Inv'
    OBVIOUS
  <2>1. CASE SpinOnce
    BY <2>1, CheckKeeps, ReceiveKeeps, ReceiveFailsKeeps, HandleKeeps DEF SpinOnce
  <2>2. CASE LoseConnection
    BY <2>2, LoseConnectionKeeps
  <2>3. CASE \E f \in Frames : Send(f)
    BY <2>3, SendKeeps
  <2>4. CASE UNCHANGED vars
    <3>1. UNCHANGED <<connected_, link, wire, pc, remainBytes, buffer_, sent>>
      BY <2>4 DEF vars, net
    <3>2. TypeInv /\ TypeInv'
      BY <3>1 DEF Inv, TypeInv
    <3>3. ASSUME connected_ PROVE \E off, k : Reads(off, k)'
      <4>1. PICK off, k : Reads(off, k)
        BY <3>3 DEF Inv
      <4>2. Fits(off)'
        BY <3>1, <4>1 DEF Reads, Fits, Rising, Whole
      <4>3. \A o \in Nat \ {0} : Awaits(off, o, k) => Awaits(off, o, k)'
        BY <3>1 DEF Awaits, Whole
      <4>4. Reads(off, k)'
        BY <3>1, <3>2, <4>1, <4>2, <4>3, ReadsOn
      <4> QED BY <4>4
    <3> QED BY <3>1, <3>2, <3>3 DEF Inv
  <2> QED BY <2>1, <2>2, <2>3, <2>4 DEF Next
<1> QED BY <1>1, InvInit, PTL DEF Spec

\* Whatever pieces the connection delivers a message in, and wherever it ends, the reader
\* takes what are the bytes of a length for a length and what are those of one body for a
\* body: spinOnce is aligned, for any messages of any length.
THEOREM ReadsWholeMessages == Spec => []Aligned
<1>1. Inv => Aligned
  <2> SUFFICES ASSUME Inv PROVE Aligned
    OBVIOUS
  <2>1. /\ wire \in Seq(Piece) /\ buffer_ \in Seq(Piece) /\ Len(wire) \in Nat /\ Len(buffer_) \in Nat
        /\ TypeInv /\ DOMAIN buffer_ = 1 .. Len(buffer_)
    BY DEF Inv, TypeInv
  <2>2. ASSUME pc \in {"body", "handle"}
        PROVE  \A i, j \in DOMAIN buffer_ : buffer_[i] = buffer_[j] /\ buffer_[i][2] = "body"
    <3>1. PICK off, k : Reads(off, k)
      BY <2>2 DEF Inv
    <3>2. Holds(k, "body")
      BY <2>2, <3>1 DEF Reads
    <3>3. \A i \in DOMAIN buffer_ : buffer_[i] = <<k, "body">>
      BY <2>1, <3>2, Zenon DEF Holds
    <3> QED BY <3>3
  <2>3. PICK coming : coming = buffer_ \o wire
    OBVIOUS
  <2>4. /\ Len(coming) = Len(buffer_) + Len(wire) /\ coming \in Seq(Piece)
        /\ \A i \in 1 .. Len(buffer_) + Len(wire) :
             coming[i] = IF i <= Len(buffer_) THEN buffer_[i] ELSE wire[i - Len(buffer_)]
    <3>1. PICK S : S = Piece
      OBVIOUS
    <3>2. /\ buffer_ \o wire \in Seq(S) /\ Len(buffer_ \o wire) = Len(buffer_) + Len(wire)
          /\ \A i \in 1 .. Len(buffer_) + Len(wire) :
               (buffer_ \o wire)[i] = IF i <= Len(buffer_) THEN buffer_[i] ELSE wire[i - Len(buffer_)]
      BY <2>1, <3>1, ConcatProperties
    <3> QED BY <2>3, <3>1, <3>2, Zenon
  <2>5. ASSUME pc = "length", connected_, coming # <<>>
        PROVE  coming[1][2] = "length" /\ (Len(coming) > 1 => coming[2] = coming[1])
    <3>1. PICK off, k : Reads(off, k)
      BY <2>5 DEF Inv
    <3>2. /\ Fits(off) /\ remainBytes \in 1 .. 2 /\ Len(buffer_) = 2 - remainBytes
          /\ Holds(k, "length") /\ Awaits(off, 3 - remainBytes, k)
      BY <2>5, <3>1 DEF Reads
    <3>3. Len(coming) > 0
      BY <2>4, <2>5
    <3>4. CASE remainBytes = 2
      <4>1. Len(buffer_) = 0 /\ wire # <<>> /\ 1 \in 1 .. Len(wire) /\ off[1] = 1
        BY <2>1, <2>4, <3>2, <3>3, <3>4 DEF Awaits
      <4>2. coming[1] = wire[1] /\ (Len(coming) > 1 => coming[2] = wire[2] /\ 2 \in 1 .. Len(wire))
        BY <2>1, <2>4, <4>1
      <4>3. wire[1] = <<wire[1][1], "length">>
        BY <3>2, <4>1 DEF Fits, Kind
      <4>4. ASSUME 2 \in 1 .. Len(wire) PROVE wire[2] = wire[1]
        <5>1. wire[1][1] \in 1 .. Len(sent)
          BY <3>2, <4>1 DEF Fits
        <5>2. off[1] + (2 - 1) <= Whole(wire[1][1]) /\ off[1] + (2 - 1) = 2
          BY <2>1, <4>1, <5>1, WholeLength, SMTT(30)
        <5>3. wire[2] = <<wire[1][1], Kind(off[1] + (2 - 1))>>
          BY <2>1, <3>2, <4>4, <5>2, FirstPieces
        <5> QED BY <4>3, <5>2, <5>3 DEF Kind
      <4> QED BY <4>2, <4>3, <4>4
    <3>5. CASE remainBytes = 1
      <4>1. Len(buffer_) = 1 /\ buffer_[1] = <<k, "length">>
        BY <3>2, <3>5 DEF Holds
      <4>2. coming[1] = <<k, "length">> /\ (Len(coming) > 1 => coming[2] = wire[1] /\ wire # <<>>
                                                                /\ 1 \in 1 .. Len(wire))
        BY <2>1, <2>4, <4>1
      <4>3. ASSUME wire # <<>>, 1 \in 1 .. Len(wire) PROVE wire[1] = <<k, "length">>
        <5>1. off[1] = 2 /\ wire[1][1] = k
          BY <3>2, <3>5, <4>3 DEF Awaits
        <5>2. wire[1] = <<wire[1][1], Kind(off[1])>>
          BY <3>2, <4>3 DEF Fits
        <5> QED BY <5>1, <5>2 DEF Kind
      <4> QED BY <4>2, <4>3
    <3> QED BY <3>2, <3>4, <3>5
  <2> QED BY <2>2, <2>3, <2>5 DEF Aligned
<1> QED BY <1>1, ManagerInvariant, PTL
-----------------------------------------------------------------------------
(* Each message is read once.                                              *)

\* What arrived is numbered in the order of sending, and older than all that is on the
\* wire; what is on the wire of a lost connection is never read.
Arrived ==
  /\ received \in Seq(Nat) /\ EachOnce
  /\ \A i \in 1 .. Len(received) : received[i] <= Len(sent)
  /\ connected_ => \A i \in 1 .. Len(received), n \in 1 .. Len(wire) : received[i] < wire[n][1]

\* Nothing arrives, and what is on the wire was there before or is new.
LEMMA ArrivedStays ==
  ASSUME Inv, Arrived, received' = received, sent' = sent \/ \E f \in Frames : sent' = Append(sent, f),
         connected_' => \A n \in 1 .. Len(wire') : \/ wire'[n][1] = Len(sent) + 1
                                                   \/ connected_ /\ \E m \in 1 .. Len(wire) : wire'[n] = wire[m]
  PROVE  Arrived'
<1>1. /\ received \in Seq(Nat) /\ Len(sent) \in Nat /\ Len(sent) <= Len(sent')
      /\ Len(sent') \in Nat /\ \A i \in 1 .. Len(received) : received[i] \in Nat
  <2>1. received \in Seq(Nat) /\ sent \in Seq(Frames)
    BY DEF Arrived, Inv, TypeInv
  <2>2. Len(sent) \in Nat /\ (Len(sent') = Len(sent) \/ Len(sent') = Len(sent) + 1)
    BY <2>1
  <2> QED BY <2>1, <2>2
<1>2. EachOnce'
  BY DEF Arrived, EachOnce
<1>3. \A i \in 1 .. Len(received) : received[i] <= Len(sent')
  BY <1>1 DEF Arrived
<1>4. ASSUME connected_', NEW i \in 1 .. Len(received), NEW n \in 1 .. Len(wire')
      PROVE  received[i] < wire'[n][1]
  <2>1. received[i] \in Nat /\ received[i] <= Len(sent)
    BY <1>1 DEF Arrived
  <2>2. CASE wire'[n][1] = Len(sent) + 1
    BY <1>1, <2>1, <2>2
  <2>3. CASE connected_ /\ \E m \in 1 .. Len(wire) : wire'[n] = wire[m]
    BY <2>3 DEF Arrived
  <2> QED BY <1>4, <2>2, <2>3
<1> QED BY <1>1, <1>2, <1>3, <1>4 DEF Arrived

\* With the last piece of a body the whole message is off the wire, and what is behind it
\* is newer.
LEMMA ArrivedReceive ==
  ASSUME Inv, Arrived, Receive
  PROVE  Arrived'
<1>1. /\ TypeInv /\ connected_ /\ pc \in {"length", "body"} /\ sent' = sent
  BY DEF Inv, Receive, net
<1>2. /\ Len(wire) \in Nat /\ Len(buffer_) \in Nat /\ remainBytes \in Nat /\ Len(sent) \in Nat
      /\ wire \in Seq(Piece) /\ buffer_ \in Seq(Piece)
  BY <1>1 DEF TypeInv
<1>3. PICK off, k : Reads(off, k)
  BY <1>1 DEF Inv
<1>4. PICK n \in rawReceiveBytes \ {0} :
       /\ wire' = SubSeq(wire, n + 1, Len(wire))
       /\ LET pieces == buffer_ \o SubSeq(wire, 1, n) IN
          \/ received' = received
          \/ /\ ~(nowRemain(n) > 0) /\ pc = "body"
             /\ received' = Append(received, pieces[1][1])
  BY Zenon DEF Receive
<1>5. wire # <<>> /\ n \in 1 .. Len(wire) /\ n <= remainBytes
  <2>1. wire # <<>>
    BY <1>4 DEF rawReceiveBytes
  <2>2. n \in 1 .. Min({remainBytes, Len(wire)})
    BY <1>4, <2>1 DEF rawReceiveBytes
  <2> QED BY <1>2, <2>1, <2>2, MinOfTwo
<1>6. /\ n \in 0 .. Len(wire) /\ n \in Nat /\ n > 0 /\ 1 \in 1 .. Len(wire)
  BY <1>2, <1>5
<1>7. Rest(wire, n, wire')
  BY <1>2, <1>4, <1>6, RestIsSubSeq, Zenon
<1>8. \A m \in 1 .. Len(wire') : m + n \in 1 .. Len(wire) /\ wire'[m] = wire[m + n]
  BY <1>2, <1>6, <1>7 DEF Rest
<1>9. CASE received' = received
  <2>1. \A m \in 1 .. Len(wire') : \E l \in 1 .. Len(wire) : wire'[m] = wire[l]
    BY <1>8
  <2> QED BY <1>1, <1>9, <2>1, ArrivedStays
<1>10. CASE received' # received
  <2>1. pc = "body" /\ ~(remainBytes - n > 0)
    BY <1>4, <1>10 DEF nowRemain
  <2>2. PICK pieces : pieces = buffer_ \o SubSeq(wire, 1, n)
    OBVIOUS
  <2>3. received' = Append(received, pieces[1][1])
    BY <1>4, <1>10, <2>2
  <2>4. PICK j : j = wire[1][1]
    OBVIOUS
  <2>5. /\ j \in 1 .. Len(sent) /\ off[1] = 3 + Len(buffer_) /\ off[1] + (n - 1) <= Whole(j)
        /\ j = k
        /\ AllOf(buffer_ \o SubSeq(wire, 1, n), buffer_, n, <<j, pc>>)
    BY <1>1, <1>3, <1>5, <2>1, <2>4, ReadIsOfOne
  <2>6. AllOf(pieces, buffer_, n, <<j, pc>>)
    BY <2>2, <2>5, Zenon
  <2>7. pieces[1][1] = j
    BY <1>2, <1>6, <2>6 DEF AllOf
  <2>8. Len(buffer_) + remainBytes = sent[j].parts /\ Fits(off)
    BY <1>3, <2>1, <2>5 DEF Reads
  <2>9. n = remainBytes /\ off[1] + (n - 1) = Whole(j) /\ sent[j].parts \in Nat
    <3>1. n = remainBytes
      BY <1>2, <1>5, <1>6, <2>1
    <3>2. Whole(j) = 2 + sent[j].parts /\ sent[j].parts \in Nat
      BY <1>1, <2>5, WholeLength
    <3>3. off[1] + (n - 1) = 2 + (Len(buffer_) + remainBytes)
      BY <1>2, <1>6, <2>5, <3>1
    <3>4. off[1] + (n - 1) = Whole(j)
      BY <2>8, <3>2, <3>3, Zenon
    <3> QED BY <3>1, <3>2, <3>4
  <2>10. wire[n][1] = j /\ off[n] = Whole(j)
    <3>1. off[1] + (n - 1) <= Whole(wire[1][1])
      BY <2>4, <2>5
    <3>2. \A m \in 1 .. n : wire[m] = <<wire[1][1], Kind(off[1] + (m - 1))>> /\ off[m] = off[1] + (m - 1)
      BY <1>1, <1>5, <2>8, <3>1, FirstPieces
    <3> QED BY <1>6, <2>4, <2>9, <3>2
  <2>11. ASSUME NEW m \in 1 .. Len(wire') PROVE j < wire'[m][1] /\ wire'[m][1] \in Nat
    <3>1. m + n \in 1 .. Len(wire) /\ n + 1 \in 1 .. Len(wire) /\ n + 1 > 1 /\ (n + 1) - 1 = n
      BY <1>2, <1>6, <1>8
    <3>2. off[n + 1] = 1
      <4>1. off[(n + 1) - 1] = Whole(wire[(n + 1) - 1][1])
        BY <2>10, <3>1
      <4> QED BY <2>8, <3>1, <4>1 DEF Fits
    <3>3. wire[n][1] < wire[n + 1][1]
      BY <1>5, <1>6, <2>8, <3>1, <3>2 DEF Fits, Rising
    <3>4. wire[n + 1][1] <= wire[m + n][1]
      <4>1. CASE m = 1
        BY <2>8, <3>1, <4>1 DEF Fits
      <4>2. CASE m > 1
        BY <1>2, <1>6, <2>8, <3>1, <4>2 DEF Fits, Rising
      <4> QED BY <4>1, <4>2
    <3>5. wire[n + 1][1] \in Nat /\ wire[m + n][1] \in Nat
      BY <2>8, <3>1, SMTT(30) DEF Fits
    <3> QED BY <1>8, <2>5, <2>10, <3>3, <3>4, <3>5, SMTT(30)
  <2>12. \A i \in 1 .. Len(received) : received[i] < j /\ received[i] \in Nat
    BY <1>1, <1>6, <2>4 DEF Arrived
  <2>13. received \in Seq(Nat) /\ j \in Nat /\ EachOnce /\ j <= Len(sent)
    BY <1>2, <2>5 DEF Arrived
  <2>14. /\ received' \in Seq(Nat) /\ Len(received') = Len(received) + 1
         /\ \A i \in 1 .. Len(received) : received'[i] = received[i]
         /\ received'[Len(received) + 1] = j /\ Len(received) \in Nat
    BY <2>3, <2>7, <2>13
  <2>15. EachOnce'
    <3>0. DOMAIN received' = 1 .. Len(received') /\ DOMAIN received = 1 .. Len(received)
      BY <2>13, <2>14
    <3> SUFFICES ASSUME NEW a \in 1 .. Len(received'), NEW b \in 1 .. Len(received'), a < b
                 PROVE  received'[a] < received'[b]
      BY <3>0 DEF EachOnce
    <3>1. CASE b \in 1 .. Len(received)
      <4>1. a \in 1 .. Len(received) /\ received'[a] = received[a] /\ received'[b] = received[b]
        BY <2>14, <3>1, SMTT(30)
      <4> QED BY <2>13, <3>0, <3>1, <4>1 DEF EachOnce
    <3>2. CASE b = Len(received) + 1
      BY <2>12, <2>14, <3>2
    <3> QED BY <2>14, <3>1, <3>2
  <2>16. \A i \in 1 .. Len(received') : received'[i] <= j /\ received'[i] \in Nat
    BY <2>12, <2>13, <2>14, SMTT(30)
  <2>17. \A i \in 1 .. Len(received') : received'[i] <= Len(sent')
    BY <1>1, <1>2, <2>13, <2>16
  <2>18. \A i \in 1 .. Len(received'), m \in 1 .. Len(wire') : received'[i] < wire'[m][1]
    BY <2>11, <2>13, <2>16
  <2> QED BY <2>14, <2>15, <2>17, <2>18 DEF Arrived
<1> QED BY <1>9, <1>10

\* No step makes a message arrive twice, or after a later one.
LEMMA ArrivedNext == Inv /\ Arrived /\ [Next]_vars => Arrived'
<1> SUFFICES ASSUME Inv, Arrived, [Next]_vars PROVE Arrived'
  OBVIOUS
<1>1. Len(wire) \in Nat /\ wire \in Seq(Piece) /\ Len(sent) \in Nat /\ connected_ \in BOOLEAN
  BY DEF Inv, TypeInv
<1>2. CASE Check
  <2>1. received' = received /\ sent' = sent
    BY <1>2 DEF Check
  <2>2. ASSUME connected_', NEW n \in 1 .. Len(wire')
        PROVE  connected_ /\ \E m \in 1 .. Len(wire) : wire'[n] = wire[m]
    <3>1. CASE wire' = <<>>
      BY <2>2, <3>1
    <3>2. CASE wire' # <<>>
      BY <1>2, <2>2, <3>2 DEF Check, makesAgain
    <3> QED BY <3>1, <3>2
  <2> QED BY <2>1, <2>2, ArrivedStays
<1>3. CASE Receive
  BY <1>3, ArrivedReceive
<1>4. CASE ReceiveFails
  BY <1>4, ArrivedStays DEF ReceiveFails, Fail, net
<1>5. CASE Handle
  <2>1. received' = received /\ sent' = sent /\ wire' = wire /\ connected_
    BY <1>5 DEF Handle, Inv, net
  <2> QED BY <2>1, ArrivedStays
<1>6. CASE LoseConnection
  <2>1. received' = received /\ sent' = sent /\ connected_' = connected_
    BY <1>6 DEF LoseConnection
  <2>2. PICK n \in 0 .. Len(wire) : wire' = SubSeq(wire, 1, n)
    BY <1>6 DEF LoseConnection
  <2>3. First(wire, n, wire')
    BY <1>1, <2>2, FirstIsSubSeq, Zenon
  <2>4. \A m \in 1 .. Len(wire') : m \in 1 .. Len(wire) /\ wire'[m] = wire[m]
    BY <1>1, <2>3 DEF First
  <2> QED BY <2>1, <2>4, ArrivedStays
<1>7. ASSUME NEW f \in Frames, Send(f) PROVE Arrived'
  <2>1. /\ received' = received /\ sent' = Append(sent, f) /\ connected_' = connected_
        /\ wire' = wire \o Pieces(f, Len(sent) + 1) /\ f.parts \in Nat
    BY <1>7, ManagerAssumption DEF Send
  <2>2. PICK k : k = Len(sent) + 1
    OBVIOUS
  <2>3. PICK p : p = Pieces(f, k)
    OBVIOUS
  <2>4. p \in Seq(Piece) /\ Len(p) = 2 + f.parts /\ \A i \in 1 .. 2 + f.parts : p[i] = <<k, Kind(i)>>
    <3>1. k \in Nat
      BY <1>1, <2>2
    <3>2. /\ Pieces(f, k) \in Seq(Piece) /\ Len(Pieces(f, k)) = 2 + f.parts
          /\ \A i \in 1 .. 2 + f.parts : Pieces(f, k)[i] = <<k, Kind(i)>>
      BY <2>1, <3>1, PiecesAre
    <3> QED BY <2>3, <3>2, Zenon
  <2>5. wire' = wire \o p
    BY <2>1, <2>2, <2>3, Zenon
  <2>6. ASSUME NEW n \in 1 .. Len(wire')
        PROVE  wire'[n][1] = Len(sent) + 1 \/ \E m \in 1 .. Len(wire) : wire'[n] = wire[m]
    <3>1. PICK S : S = Piece
      OBVIOUS
    <3>2. /\ Len(wire \o p) = Len(wire) + Len(p)
          /\ \A i \in 1 .. Len(wire) + Len(p) :
               (wire \o p)[i] = IF i <= Len(wire) THEN wire[i] ELSE p[i - Len(wire)]
      BY <1>1, <2>4, <3>1, ConcatProperties
    <3>3. Len(p) \in Nat /\ n \in 1 .. Len(wire) + Len(p)
      BY <2>1, <2>4, <2>5, <3>2
    <3>4. CASE n <= Len(wire)
      BY <1>1, <2>5, <3>2, <3>3, <3>4
    <3>5. CASE ~(n <= Len(wire))
      <4>1. n - Len(wire) \in 1 .. 2 + f.parts
        BY <1>1, <2>1, <2>4, <3>3, <3>5
      <4>2. wire'[n] = <<k, Kind(n - Len(wire))>>
        BY <2>4, <2>5, <3>2, <3>3, <3>5, <4>1
      <4> QED BY <2>2, <4>2
    <3> QED BY <3>4, <3>5
  <2> QED BY <2>1, <2>6, ArrivedStays
<1>8. CASE UNCHANGED vars
  BY <1>8, ArrivedStays DEF vars, net
<1> QED BY <1>2, <1>3, <1>4, <1>5, <1>6, <1>7, <1>8 DEF Next, SpinOnce

\* The callback of spinOnce gets every message at most once, and messages in the order in
\* which the controller sent them, through any number of connections that end in the
\* middle of a message or of a length.
THEOREM ReadsEachOnce == Spec => []EachOnce
<1>1. Init => Arrived
  BY DEF Init, Arrived, EachOnce
<1>2. Inv /\ Arrived /\ [Next]_vars => Arrived'
  BY ArrivedNext
<1>3. Arrived => EachOnce
  BY DEF Arrived
<1> QED BY <1>1, <1>2, <1>3, ManagerInvariant, PTL DEF Spec

-----------------------------------------------------------------------------
(* Loops: a recursive function is what it says of itself because a loop that  *)
(* does so exists, and what every turn of it keeps holds after it.             *)

\* What holds before a loop and is kept by every turn holds after it.
LEMMA Loop ==
  ASSUME NEW n \in Nat, NEW T, 0 \in T, \A i \in 1 .. n : i - 1 \in T => i \in T
  PROVE  \A i \in 0 .. n : i \in T
<1> SUFFICES ASSUME NEW l \in 0 .. n, l \notin T PROVE FALSE
  OBVIOUS
<1> DEFINE Bad == {i \in 0 .. n : i \notin T}
<1>1. PICK i \in Bad : \A j \in Bad : <<j, i>> \notin OpToRel(<, Nat)
  <2>1. Bad \subseteq Nat /\ Bad # {}
    OBVIOUS
  <2>2. IsWellFoundedOn(OpToRel(<, Nat), Nat)
    BY NatLessThanWellFounded
  <2> HIDE DEF Bad
  <2> QED BY <2>1, <2>2, WFMin
<1>2. i \in 1 .. n /\ i - 1 \in 0 .. n /\ i - 1 < i /\ i \in Nat /\ i - 1 \in Nat
  OBVIOUS
<1>3. i - 1 \notin Bad
  BY <1>1, <1>2 DEF OpToRel
<1> QED BY <1>2, <1>3
-----------------------------------------------------------------------------
(* The bytes of members.                                                   *)

\* n members, each of one byte or of four.
Sized(ms, n) == n \in Nat /\ Len(ms) = n /\ \A i \in 1 .. n : ms[i].size \in {1, 4}

\* Where a member ends is where the next begins.
LEMMA SizeStep ==
  ASSUME NEW n, NEW ms, Sized(ms, n)
  PROVE  /\ size(ms, 0) = 0
         /\ \A i \in 1 .. n : size(ms, i) = size(ms, i - 1) + ms[i].size
         /\ \A i \in 0 .. n : size(ms, i) \in Nat
<1> DEFINE Flags(i) == {j \in 1 .. i : ms[j].size = 1}
<1>1. n \in Nat /\ \A i \in 1 .. n : ms[i].size \in {1, 4}
  BY DEF Sized
<1>2. \A i \in 0 .. n : IsFiniteSet(Flags(i)) /\ Cardinality(Flags(i)) \in Nat
  <2> SUFFICES ASSUME NEW i \in 0 .. n PROVE IsFiniteSet(Flags(i)) /\ Cardinality(Flags(i)) \in Nat
    OBVIOUS
  <2>1. IsFiniteSet(1 .. i)
    BY <1>1, FS_Interval
  <2>2. Flags(i) \in SUBSET (1 .. i)
    OBVIOUS
  <2> HIDE DEF Flags
  <2> QED BY <2>1, <2>2, FS_Subset, FS_CardinalityType
<1>3. size(ms, 0) = 0
  <2>1. Flags(0) = {}
    OBVIOUS
  <2>2. Cardinality(Flags(0)) = 0
    BY <2>1, FS_EmptySet
  <2> QED BY <2>2 DEF size
<1>4. ASSUME NEW i \in 1 .. n
      PROVE  size(ms, i) = size(ms, i - 1) + ms[i].size
  <2>1. i \in Int /\ i - 1 \in 0 .. n /\ i \in 0 .. n
    BY <1>1
  <2>2. PICK c \in Nat : c = Cardinality(Flags(i - 1)) /\ IsFiniteSet(Flags(i - 1))
    <3> HIDE DEF Flags
    <3> QED BY <1>2, <2>1
  <2>3. CASE ms[i].size = 1
    <3>1. Flags(i) = Flags(i - 1) \union {i} /\ i \notin Flags(i - 1)
      BY <1>1, <2>3
    <3>2. Cardinality(Flags(i)) = c + 1
      <4> HIDE DEF Flags
      <4> QED BY <2>2, <3>1, FS_AddElement
    <3>3. size(ms, i) = 4 * i - 3 * (c + 1) /\ size(ms, i - 1) = 4 * (i - 1) - 3 * c
      BY <2>2, <3>2 DEF size
    <3> QED BY <2>1, <2>2, <2>3, <3>3
  <2>4. CASE ms[i].size = 4
    <3>1. Flags(i) = Flags(i - 1)
      BY <1>1, <2>4
    <3>2. size(ms, i) = 4 * i - 3 * c /\ size(ms, i - 1) = 4 * (i - 1) - 3 * c
      BY <2>2, <3>1 DEF size
    <3> QED BY <2>1, <2>2, <2>4, <3>2
  <2> QED BY <1>1, <2>3, <2>4
<1>5. \A i \in 0 .. n : size(ms, i) \in Nat
  <2> DEFINE T == {i \in 0 .. n : size(ms, i) \in Nat}
  <2>1. 0 \in T
    BY <1>1, <1>3
  <2>2. \A i \in 1 .. n : i - 1 \in T => i \in T
    BY <1>1, <1>4
  <2>3. \A i \in 0 .. n : i \in T
    <3> HIDE DEF T
    <3> QED BY <1>1, <2>1, <2>2, Loop
  <2> QED BY <2>3
<1> QED BY <1>3, <1>4, <1>5

\* Every member needs a byte at least.
LEMMA SizeGrows ==
  ASSUME NEW n, NEW ms, Sized(ms, n), NEW i \in 0 .. n, NEW j \in 0 .. n, i <= j
  PROVE  size(ms, i) + (j - i) <= size(ms, j)
<1>1. n \in Nat /\ \A k \in 1 .. n : ms[k].size \in {1, 4}
  BY DEF Sized
<1>2. /\ \A k \in 1 .. n : size(ms, k) = size(ms, k - 1) + ms[k].size
      /\ \A k \in 0 .. n : size(ms, k) \in Nat
  BY SizeStep
<1> DEFINE T == {k \in 0 .. n : i <= k => size(ms, i) + (k - i) <= size(ms, k)}
<1>3. 0 \in T
  BY <1>1, <1>2
<1>4. ASSUME NEW k \in 1 .. n, k - 1 \in T PROVE k \in T
  <2>1. /\ size(ms, k) = size(ms, k - 1) + ms[k].size /\ ms[k].size \in {1, 4}
        /\ size(ms, k) \in Nat /\ size(ms, k - 1) \in Nat /\ size(ms, i) \in Nat
    BY <1>1, <1>2
  <2> QED BY <1>1, <1>4, <2>1
<1>5. \A k \in 0 .. n : k \in T
  <2> HIDE DEF T
  <2> QED BY <1>1, <1>3, <1>4, Loop
<1> QED BY <1>5

\* A loop that starts with x0, and of which every turn makes of x what step says.
Turns(w, n, x0, step) == \A i \in 0 .. n : w[i] = IF i = 0 THEN x0 ELSE step[<<w[i - 1], i>>]

\* A loop of n turns can be run from any beginning.
LEMMA LoopTurns ==
  ASSUME NEW n \in Nat, NEW X, NEW x0 \in X, NEW step \in [X \X (1 .. n) -> X]
  PROVE  \E w \in [0 .. n -> X] : Turns(w, n, x0, step)
<1> DEFINE T == {k \in 0 .. n : \E w \in [0 .. k -> X] : Turns(w, k, x0, step)}
<1>1. 0 \in T
  <2>1. PICK w : w = [i \in 0 .. 0 |-> x0]
    OBVIOUS
  <2>2. w \in [0 .. 0 -> X] /\ Turns(w, 0, x0, step)
    BY <2>1 DEF Turns
  <2> QED BY <2>2
<1>2. ASSUME NEW k \in 1 .. n, k - 1 \in T PROVE k \in T
  <2>1. PICK v \in [0 .. k - 1 -> X] : Turns(v, k - 1, x0, step)
    BY <1>2
  <2>2. PICK last \in X : last = step[<<v[k - 1], k>>]
    <3>1. v[k - 1] \in X
      OBVIOUS
    <3> QED BY <3>1
  <2>3. PICK w : w = [i \in 0 .. k |-> IF i = k THEN last ELSE v[i]]
    OBVIOUS
  <2>4. w \in [0 .. k -> X]
    <3>1. \A i \in 0 .. k : i # k => i \in 0 .. k - 1
      OBVIOUS
    <3> QED BY <2>3, <3>1
  <2>5. ASSUME NEW i \in 0 .. k PROVE w[i] = IF i = 0 THEN x0 ELSE step[<<w[i - 1], i>>]
    <3>1. CASE i = k
      <4>1. w[i] = last /\ i # 0 /\ w[i - 1] = v[i - 1]
        BY <2>3, <3>1
      <4> QED BY <2>2, <3>1, <4>1
    <3>2. CASE i # k
      <4>1. i \in 0 .. k - 1 /\ w[i] = v[i] /\ (i # 0 => w[i - 1] = v[i - 1])
        BY <2>3, <3>2
      <4>2. v[i] = IF i = 0 THEN x0 ELSE step[<<v[i - 1], i>>]
        BY <2>1, <4>1 DEF Turns
      <4> QED BY <4>1, <4>2
    <3> QED BY <3>1, <3>2
  <2>6. Turns(w, k, x0, step)
    BY <2>5, Zenon DEF Turns
  <2> QED BY <2>4, <2>6
<1>3. \A k \in 0 .. n : k \in T
  <2> HIDE DEF T
  <2> QED BY <1>1, <1>2, Loop
<1> QED BY <1>3

\* The members of an object are in b from place p on.
Lays(ms, n, object, b, p) == \A i \in 1 .. n : \A j \in 1 .. ms[i].size :
  b[p + size(ms, i - 1) + j] = <<ms[i].name, object[ms[i].name], j>>

\* What a member is written as is bytes of S.
WrittenIn(ms, n, object, S) ==
  \A i \in 1 .. n : \A j \in 1 .. 4 : <<ms[i].name, object[ms[i].name], j>> \in S

\* l is b with the bytes of one member behind them.
Loaded(l, b, f, v, s, S) ==
  /\ l \in Seq(S) /\ Len(l) = Len(b) + s
  /\ \A j \in 1 .. Len(b) : l[j] = b[j]
  /\ \A j \in 1 .. s : l[Len(b) + j] = <<f, v, j>>

\* load puts the bytes of one member behind the others (ByteArray::load).
LEMMA LoadAppends ==
  ASSUME NEW S, NEW b \in Seq(S), NEW f, NEW v, NEW s \in {1, 4}, \A j \in 1 .. 4 : <<f, v, j>> \in S,
         NEW l, l = load(b, f, v, s)
  PROVE  Loaded(l, b, f, v, s, S)
<1>1. PICK a : a = Bytes(f, v, s)
  OBVIOUS
<1>2. /\ a \in Seq(S) /\ Len(a) = s /\ \A j \in 1 .. s : a[j] = <<f, v, j>>
  <2>1. a = [j \in 1 .. s |-> <<f, v, j>>]
    BY <1>1, Zenon DEF Bytes
  <2>2. s \in Nat /\ \A j \in 1 .. s : j \in 1 .. 4
    OBVIOUS
  <2>3. \A j \in 1 .. s : a[j] = <<f, v, j>>
    BY <2>1, Zenon
  <2>4. a \in [1 .. s -> S]
    BY <2>1, <2>2, Zenon
  <2>5. a \in Seq(S) /\ Len(a) = s
    BY <2>2, <2>4
  <2> QED BY <2>3, <2>5
<1>3. l = b \o a
  BY <1>1 DEF load
<1>4. /\ l \in Seq(S) /\ Len(l) = Len(b) + Len(a)
      /\ \A i \in 1 .. Len(b) + Len(a) : l[i] = IF i <= Len(b) THEN b[i] ELSE a[i - Len(b)]
  BY <1>2, <1>3, ConcatProperties
<1>5. Len(b) \in Nat
  OBVIOUS
<1>6. \A j \in 1 .. Len(b) : l[j] = b[j]
  BY <1>2, <1>4, <1>5
<1>7. ASSUME NEW j \in 1 .. s PROVE l[Len(b) + j] = <<f, v, j>>
  <2>1. PICK i : i = Len(b) + j
    OBVIOUS
  <2>2. i \in 1 .. Len(b) + Len(a) /\ ~(i <= Len(b)) /\ i - Len(b) = j
    BY <1>2, <1>5, <2>1
  <2>3. l[i] = a[j]
    BY <1>4, <2>2
  <2> QED BY <1>2, <2>1, <2>3
<1> QED BY <1>2, <1>4, <1>6, <1>7 DEF Loaded

\* A class writes its members one after the other (serialize).
LEMMA Serialized ==
  ASSUME NEW n, NEW ms, Sized(ms, n), NEW object, NEW S, WrittenIn(ms, n, object, S),
         NEW b, b = serialize(ms, object)
  PROVE  b \in Seq(S) /\ Len(b) = size(ms, n) /\ Lays(ms, n, object, b, 0)
<1>1. n \in Nat /\ Len(ms) = n /\ \A k \in 1 .. n : ms[k].size \in {1, 4}
  BY DEF Sized
<1> DEFINE X == Seq(S)
           put(x, i) == load(x, ms[i].name, object[ms[i].name], ms[i].size)
           step == [a \in X \X (1 .. n) |-> put(a[1], a[2])]
<1>2. ASSUME NEW x \in X, NEW i \in 1 .. n
      PROVE  /\ put(x, i) \in X /\ Len(put(x, i)) = Len(x) + ms[i].size
             /\ \A j \in 1 .. Len(x) : put(x, i)[j] = x[j]
             /\ \A j \in 1 .. ms[i].size : put(x, i)[Len(x) + j] = <<ms[i].name, object[ms[i].name], j>>
  <2>1. \A j \in 1 .. 4 : <<ms[i].name, object[ms[i].name], j>> \in S
    BY DEF WrittenIn
  <2>2. PICK l : l = put(x, i)
    OBVIOUS
  <2>3. PICK f, v, s : f = ms[i].name /\ v = object[ms[i].name] /\ s = ms[i].size
    OBVIOUS
  <2>4. s \in {1, 4} /\ l = load(x, f, v, s) /\ \A j \in 1 .. 4 : <<f, v, j>> \in S
    BY <1>1, <2>1, <2>2, <2>3
  <2>5. /\ l \in Seq(S) /\ Len(l) = Len(x) + s
        /\ \A j \in 1 .. Len(x) : l[j] = x[j]
        /\ \A j \in 1 .. s : l[Len(x) + j] = <<f, v, j>>
    <3>1. x \in Seq(S) /\ s \in {1, 4} /\ (\A j \in 1 .. 4 : <<f, v, j>> \in S) /\ l = load(x, f, v, s)
      BY <2>4
    <3>2. Loaded(l, x, f, v, s, S)
      BY <3>1, LoadAppends
    <3> QED BY <3>2 DEF Loaded
  <2>6. /\ put(x, i) \in X /\ Len(put(x, i)) = Len(x) + s
        /\ \A j \in 1 .. Len(x) : put(x, i)[j] = x[j]
        /\ \A j \in 1 .. s : put(x, i)[Len(x) + j] = <<f, v, j>>
    <3> HIDE DEF put
    <3> QED BY <2>2, <2>5
  <2> HIDE DEF put, X
  <2> QED BY <2>3, <2>6
<1>3. \E w : w = [i \in 0 .. n |-> IF i = 0 THEN <<>> ELSE put(w[i - 1], i)]
  <2>1. <<>> \in X /\ step \in [X \X (1 .. n) -> X]
    <3>1. \A a \in X \X (1 .. n) : put(a[1], a[2]) \in X
      <4> HIDE DEF X, put
      <4> QED BY <1>2
    <3>2. <<>> \in X
      BY EmptySeq
    <3> HIDE DEF X, put
    <3> QED BY <3>1, <3>2
  <2>2. PICK w \in [0 .. n -> X] : Turns(w, n, <<>>, step)
    <3> HIDE DEF X, step
    <3> QED BY <1>1, <2>1, LoopTurns
  <2>3. \A i \in 0 .. n : w[i] = IF i = 0 THEN <<>> ELSE put(w[i - 1], i)
    <3> SUFFICES ASSUME NEW i \in 0 .. n PROVE w[i] = IF i = 0 THEN <<>> ELSE put(w[i - 1], i)
      OBVIOUS
    <3>1. w[i] = IF i = 0 THEN <<>> ELSE step[<<w[i - 1], i>>]
      BY <2>2 DEF Turns
    <3>2. i # 0 => <<w[i - 1], i>> \in X \X (1 .. n)
      <4>1. i # 0 => i - 1 \in 0 .. n /\ i \in 1 .. n
        BY <1>1
      <4> HIDE DEF X
      <4> QED BY <4>1
    <3>3. i # 0 => step[<<w[i - 1], i>>] = put(w[i - 1], i)
      <4> HIDE DEF X, put
      <4> QED BY <3>2
    <3> QED BY <3>1, <3>3, Zenon
  <2>4. w = [i \in 0 .. n |-> w[i]]
    OBVIOUS
  <2>5. w = [i \in 0 .. n |-> IF i = 0 THEN <<>> ELSE put(w[i - 1], i)]
    <3> HIDE DEF put
    <3> QED BY <2>3, <2>4, Zenon
  <2> QED BY <2>5
<1>4. PICK w : w = [i \in 0 .. n |-> IF i = 0 THEN <<>> ELSE put(w[i - 1], i)] /\ b = w[n]
  <2>1. PICK w : w = CHOOSE v : v = [i \in 0 .. n |-> IF i = 0 THEN <<>> ELSE put(v[i - 1], i)]
    OBVIOUS
  <2>2. w = [i \in 0 .. n |-> IF i = 0 THEN <<>> ELSE put(w[i - 1], i)]
    BY <1>3, <2>1, Zenon
  <2>3. b = w[n]
    BY <1>1, <2>1, Zenon DEF serialize
  <2> QED BY <2>2, <2>3
<1>5. w[0] = <<>> /\ \A i \in 1 .. n : w[i] = put(w[i - 1], i)
  <2>1. \A i \in 0 .. n : w[i] = IF i = 0 THEN <<>> ELSE put(w[i - 1], i)
    <3> HIDE DEF put
    <3> QED BY <1>4, Zenon
  <2> HIDE DEF put
  <2> QED BY <1>1, <2>1
<1>6. /\ size(ms, 0) = 0
      /\ \A i \in 1 .. n : size(ms, i) = size(ms, i - 1) + ms[i].size
      /\ \A i \in 0 .. n : size(ms, i) \in Nat
  BY SizeStep
<1> DEFINE T == {k \in 0 .. n : /\ w[k] \in X /\ Len(w[k]) = size(ms, k)
                                /\ Lays(ms, k, object, w[k], 0)}
<1>7. 0 \in T
  <2>1. w[0] \in X /\ Len(w[0]) = 0
    BY <1>5, EmptySeq
  <2>2. Lays(ms, 0, object, w[0], 0)
    BY DEF Lays
  <2> HIDE DEF X
  <2> QED BY <1>1, <1>6, <2>1, <2>2
<1>8. ASSUME NEW k \in 1 .. n, k - 1 \in T PROVE k \in T
  <2>1. k - 1 \in 0 .. n /\ k \in 0 .. n /\ k \in Nat
    BY <1>1
  <2>2. PICK x : x = w[k - 1]
    OBVIOUS
  <2>3. PICK y : y = w[k]
    OBVIOUS
  <2>4. x \in X /\ Len(x) = size(ms, k - 1) /\ Lays(ms, k - 1, object, x, 0)
    BY <1>8, <2>2
  <2>5. y = put(x, k)
    BY <1>5, <2>2, <2>3
  <2>6. /\ y \in X /\ Len(y) = Len(x) + ms[k].size
        /\ \A j \in 1 .. Len(x) : y[j] = x[j]
        /\ \A j \in 1 .. ms[k].size : y[Len(x) + j] = <<ms[k].name, object[ms[k].name], j>>
    <3> HIDE DEF X, put
    <3> QED BY <1>2, <2>4, <2>5
  <2>7. ASSUME NEW i \in 1 .. k, NEW j \in 1 .. ms[i].size
        PROVE  y[0 + size(ms, i - 1) + j] = <<ms[i].name, object[ms[i].name], j>>
    <3>1. CASE i = k
      BY <1>6, <2>1, <2>4, <2>6, <3>1
    <3>2. CASE i # k
      <4>1. i \in 1 .. k - 1 /\ i - 1 \in 0 .. n /\ i \in 0 .. n /\ i \in 1 .. n
        BY <1>1, <3>2
      <4>2. size(ms, i) <= size(ms, k - 1)
        <5>1. size(ms, i) + ((k - 1) - i) <= size(ms, k - 1)
          BY <2>1, <4>1, SizeGrows
        <5> QED BY <1>6, <2>1, <4>1, <5>1
      <4>3. 0 + size(ms, i - 1) + j \in 1 .. Len(x)
        <5>1. PICK y0, y1, z : y0 = size(ms, i - 1) /\ y1 = size(ms, i) /\ z = size(ms, k - 1)
          OBVIOUS
        <5>2. /\ y0 \in Nat /\ y1 \in Nat /\ z \in Nat /\ y1 <= z /\ Len(x) = z
              /\ y1 = y0 + ms[i].size /\ ms[i].size \in {1, 4}
          BY <1>1, <1>6, <2>1, <2>4, <4>1, <4>2, <5>1, Zenon
        <5>3. 0 + y0 + j \in 1 .. Len(x)
          BY <5>2
        <5> QED BY <5>1, <5>3
      <4>4. x[0 + size(ms, i - 1) + j] = <<ms[i].name, object[ms[i].name], j>>
        BY <2>4, <4>1 DEF Lays
      <4>5. y[0 + size(ms, i - 1) + j] = x[0 + size(ms, i - 1) + j]
        <5> HIDE DEF X, put
        <5> QED BY <2>6, <4>3
      <4> QED BY <4>4, <4>5, Zenon
    <3> QED BY <3>1, <3>2
  <2>8. Len(y) = size(ms, k)
    BY <1>6, <2>4, <2>6
  <2>9. Lays(ms, k, object, y, 0)
    BY <2>7 DEF Lays
  <2> HIDE DEF X
  <2> QED BY <2>1, <2>3, <2>6, <2>8, <2>9
<1>9. n \in 0 .. n
  BY <1>1
<1>10. \A k \in 0 .. n : k \in T
  <2> HIDE DEF T
  <2> QED BY <1>1, <1>7, <1>8, Loop
<1> QED BY <1>4, <1>9, <1>10

-----------------------------------------------------------------------------
(* What is written to the end of a buffer is read from there.                  *)

\* The members rs are the members ms from the last to the first.
Turned(rs, ms, n) == Len(rs) = n /\ \A i \in 1 .. n : rs[i] = ms[n + 1 - i]

\* No two members have the same name.
Named(ms, n) == \A i, j \in 1 .. n : ms[i].name = ms[j].name => i = j

\* Read from the last, the first i members need what the others leave.
LEMMA SizeTurned ==
  ASSUME NEW n, NEW ms, Sized(ms, n), NEW rs, Turned(rs, ms, n)
  PROVE  /\ Sized(rs, n)
         /\ \A i \in 0 .. n : size(rs, i) \in Nat /\ size(rs, i) + size(ms, n - i) = size(ms, n)
<1>1. n \in Nat /\ \A k \in 1 .. n : ms[k].size \in {1, 4}
  BY DEF Sized
<1>2. Len(rs) = n /\ \A i \in 1 .. n : rs[i] = ms[n + 1 - i]
  BY DEF Turned
<1>3. Sized(rs, n)
  <2>1. \A i \in 1 .. n : n + 1 - i \in 1 .. n
    BY <1>1
  <2> QED BY <1>1, <1>2, <2>1 DEF Sized
<1>4. /\ size(rs, 0) = 0
      /\ \A i \in 1 .. n : size(rs, i) = size(rs, i - 1) + rs[i].size
      /\ \A i \in 0 .. n : size(rs, i) \in Nat
  BY <1>3, SizeStep
<1>5. /\ \A i \in 1 .. n : size(ms, i) = size(ms, i - 1) + ms[i].size
      /\ \A i \in 0 .. n : size(ms, i) \in Nat
  BY SizeStep
<1> DEFINE T == {k \in 0 .. n : size(rs, k) + size(ms, n - k) = size(ms, n)}
<1>6. 0 \in T
  <2>1. n - 0 = n /\ n \in 0 .. n /\ 0 \in 0 .. n
    BY <1>1
  <2> QED BY <1>4, <1>5, <2>1
<1>7. ASSUME NEW k \in 1 .. n, k - 1 \in T PROVE k \in T
  <2>1. PICK l : l = n + 1 - k
    OBVIOUS
  <2>2. /\ l \in 1 .. n /\ l - 1 \in 0 .. n /\ l \in 0 .. n /\ n - k = l - 1 /\ n - (k - 1) = l
        /\ k - 1 \in 0 .. n /\ k \in 0 .. n /\ n \in 0 .. n
    BY <1>1, <2>1
  <2>3. /\ size(ms, l) = size(ms, l - 1) + ms[l].size
        /\ size(ms, l) \in Nat /\ size(ms, l - 1) \in Nat /\ ms[l].size \in {1, 4}
    BY <1>1, <1>5, <2>2
  <2>4. size(rs, k) = size(rs, k - 1) + ms[l].size /\ size(rs, k - 1) \in Nat
    BY <1>2, <1>4, <2>1, <2>2
  <2>5. size(rs, k - 1) + size(ms, l) = size(ms, n)
    BY <1>7, <2>2
  <2>6. size(rs, k) + size(ms, l - 1) = size(ms, n)
    BY <2>3, <2>4, <2>5
  <2> QED BY <2>2, <2>6
<1>8. \A k \in 0 .. n : k \in T
  <2> HIDE DEF T
  <2> QED BY <1>1, <1>6, <1>7, Loop
<1> QED BY <1>3, <1>4, <1>8

\* What a member was written as is read as its value.
LEMMA ValueOfBytes ==
  ASSUME NEW S, NEW f, NEW v, NEW s \in {1, 4}, NEW b \in Seq(S), Len(b) = s,
         \A j \in 1 .. s : b[j] = <<f, v, j>>
  PROVE  Value(b) = v
<1>1. b = [j \in 1 .. s |-> <<f, v, j>>]
  <2>1. b = [j \in 1 .. s |-> b[j]]
    OBVIOUS
  <2> QED BY <2>1, Zenon
<1>2. b = Bytes(f, v, s)
  BY <1>1, Zenon DEF Bytes
<1>3. b[1] = <<f, v, 1>>
  OBVIOUS
<1>4. b[1][1] = f /\ b[1][2] = v
  BY <1>3
<1>5. b = Bytes(b[1][1], b[1][2], Len(b))
  BY <1>2, <1>4, Zenon
<1> QED BY <1>4, <1>5, Zenon DEF Value

\* d bytes of b, those after the first c.
LEMMA Part ==
  ASSUME NEW S, NEW b \in Seq(S), NEW c \in Nat, NEW d \in Nat, c + d <= Len(b),
         NEW u, u = SubSeq(b, c + 1, c + d)
  PROVE  u \in Seq(S) /\ Len(u) = d /\ \A j \in 1 .. d : u[j] = b[c + j]
<1>1. PICK l, h : l = c + 1 /\ h = c + d
  OBVIOUS
<1>2. l \in Int /\ h \in Int /\ u = SubSeq(b, l, h) /\ h - l + 1 = d
  BY <1>1
<1>3. \A i \in l .. h : b[i] \in S
  <2>1. \A i \in l .. h : i \in 1 .. Len(b)
    BY <1>1
  <2> QED BY <2>1
<1>4. /\ u \in Seq(S) /\ Len(u) = IF l <= h THEN h - l + 1 ELSE 0
      /\ \A j \in 1 .. h - l + 1 : u[j] = b[l + j - 1]
  <2>1. /\ SubSeq(b, l, h) \in Seq(S) /\ Len(SubSeq(b, l, h)) = IF l <= h THEN h - l + 1 ELSE 0
        /\ \A j \in 1 .. h - l + 1 : SubSeq(b, l, h)[j] = b[l + j - 1]
    BY <1>2, <1>3, SubSeqProperties
  <2> QED BY <1>2, <2>1, Zenon
<1>5. Len(u) = d
  <2>1. d = 0 \/ l <= h
    BY <1>1
  <2>2. d = 0 => ~(l <= h)
    BY <1>1
  <2> QED BY <1>2, <1>4, <2>1, <2>2
<1>6. ASSUME NEW j \in 1 .. d PROVE u[j] = b[c + j]
  <2>1. l + j - 1 = c + j
    BY <1>1
  <2> QED BY <1>2, <1>4, <2>1
<1> QED BY <1>4, <1>5, <1>6

\* u is what b is taken apart to: the first c bytes are left and the last d are taken.
Taken(u, b, c, d, S) ==
  /\ u.ok
  /\ u.buffer = SubSeq(b, 1, c)
  /\ u.buffer \in Seq(S) /\ Len(u.buffer) = c /\ \A j \in 1 .. c : u.buffer[j] = b[j]
  /\ u.bytes \in Seq(S) /\ Len(u.bytes) = d /\ \A j \in 1 .. d : u.bytes[j] = b[c + j]

\* unload takes the last bytes, and leaves those before them (ByteArray::unload).
LEMMA Unloads ==
  ASSUME NEW S, NEW b \in Seq(S), NEW c \in Nat, NEW d \in Nat, Len(b) = c + d,
         NEW u, u = unload(b, d)
  PROVE  Taken(u, b, c, d, S)
<1>1. /\ d <= Len(b) /\ Len(b) - d = c /\ Len(b) - d + 1 = c + 1 /\ c + d <= Len(b)
      /\ 0 \in Nat /\ 0 + 1 = 1 /\ 0 + c = c /\ 0 + c <= Len(b)
  OBVIOUS
<1>2. u = [ok |-> TRUE, bytes |-> SubSeq(b, c + 1, c + d), buffer |-> SubSeq(b, 1, c)]
  <2>1. u = IF d <= Len(b)
            THEN [ok |-> TRUE, bytes |-> SubSeq(b, Len(b) - d + 1, Len(b)),
                  buffer |-> SubSeq(b, 1, Len(b) - d)]
            ELSE [ok |-> FALSE, bytes |-> <<>>, buffer |-> b]
    BY Zenon DEF unload
  <2> QED BY <1>1, <2>1, Zenon
<1>3. PICK h, t : h = SubSeq(b, 1, c) /\ t = SubSeq(b, c + 1, c + d)
  OBVIOUS
<1>4. h = SubSeq(b, 0 + 1, 0 + c)
  BY <1>1, <1>3, Zenon
<1>5. /\ t \in Seq(S) /\ Len(t) = d /\ \A j \in 1 .. d : t[j] = b[c + j]
  BY <1>1, <1>3, Part
<1>6. /\ h \in Seq(S) /\ Len(h) = c /\ \A j \in 1 .. c : h[j] = b[0 + j]
  BY <1>1, <1>4, Part
<1>7. \A j \in 1 .. c : 0 + j = j
  OBVIOUS
<1>8. \A j \in 1 .. c : h[j] = b[j]
  BY <1>6, <1>7, Zenon
<1>9. u.ok /\ u.buffer = h /\ u.bytes = t
  BY <1>2, <1>3
<1> QED BY <1>3, <1>5, <1>6, <1>8, <1>9, Zenon DEF Taken

\* The member k of a class is read from the bytes it and those before it have.
LEMMA ReadsMember ==
  ASSUME NEW n, NEW ms, Sized(ms, n), NEW object, NEW S, NEW b \in Seq(S), NEW p \in Nat,
         NEW k \in 1 .. n, NEW d \in Nat, Len(b) = p + size(ms, k) + d, Lays(ms, n, object, b, p)
  PROVE  Value(unload(unload(b, d).buffer, ms[k].size).bytes) = object[ms[k].name]
<1>1. n \in Nat /\ ms[k].size \in {1, 4} /\ k \in 0 .. n /\ k - 1 \in 0 .. n
  BY DEF Sized
<1>2. /\ size(ms, k) = size(ms, k - 1) + ms[k].size
      /\ size(ms, k) \in Nat /\ size(ms, k - 1) \in Nat
  BY <1>1, SizeStep
<1>3. PICK z, s, f, v : z = size(ms, k - 1) /\ s = ms[k].size /\ f = ms[k].name /\ v = object[ms[k].name]
  OBVIOUS
<1>4. z \in Nat /\ s \in {1, 4} /\ size(ms, k) = z + s
  BY <1>1, <1>2, <1>3, Zenon
<1>5. PICK c \in Nat : c = p + z
  BY <1>4
<1>6. Len(b) = (c + s) + d /\ s \in Nat /\ c + s \in Nat
  BY <1>4, <1>5
<1>7. \A j \in 1 .. s : b[c + j] = <<f, v, j>>
  BY <1>3, <1>5, Zenon DEF Lays
<1>8. PICK q : q = unload(b, d).buffer
  OBVIOUS
<1>9. q \in Seq(S) /\ Len(q) = c + s /\ \A j \in 1 .. c + s : q[j] = b[j]
  <2>1. PICK u : u = unload(b, d)
    OBVIOUS
  <2>2. u.buffer \in Seq(S) /\ Len(u.buffer) = c + s /\ \A j \in 1 .. c + s : u.buffer[j] = b[j]
    <3>1. c + s \in Nat /\ d \in Nat /\ Len(b) = (c + s) + d /\ b \in Seq(S) /\ u = unload(b, d)
      BY <1>6, <2>1
    <3>2. Taken(u, b, c + s, d, S)
      BY <3>1, Unloads
    <3> QED BY <3>2, Zenon DEF Taken
  <2> QED BY <1>8, <2>1, <2>2, Zenon
<1>10. PICK u : u = unload(q, s)
  OBVIOUS
<1>11. u.bytes \in Seq(S) /\ Len(u.bytes) = s /\ \A j \in 1 .. s : u.bytes[j] = q[c + j]
  <2>1. c \in Nat /\ s \in Nat /\ Len(q) = c + s /\ q \in Seq(S) /\ u = unload(q, s)
    BY <1>6, <1>9, <1>10
  <2>2. Taken(u, q, c, s, S)
    BY <2>1, Unloads
  <2> QED BY <2>2, Zenon DEF Taken
<1>12. ASSUME NEW j \in 1 .. s PROVE u.bytes[j] = <<f, v, j>>
  <2>1. c + j \in 1 .. c + s
    BY <1>4
  <2>2. u.bytes[j] = q[c + j] /\ q[c + j] = b[c + j]
    BY <1>9, <1>11, <2>1, Zenon
  <2> QED BY <1>7, <2>2, Zenon
<1>13. PICK a : a = u.bytes
  OBVIOUS
<1>14. Value(a) = v
  <2>1. a \in Seq(S) /\ Len(a) = s /\ \A j \in 1 .. s : a[j] = <<f, v, j>>
    BY <1>11, <1>12, <1>13
  <2> QED BY <1>4, <2>1, ValueOfBytes
<1> QED BY <1>3, <1>8, <1>10, <1>13, <1>14, Zenon

\* The greatest of the numbers that fit is one of them.
LEMMA MaxOf ==
  ASSUME NEW n \in Nat, NEW N \in SUBSET (0 .. n), 0 \in N
  PROVE  Max(N) \in N /\ (n \in N => Max(N) = n)
<1> DEFINE Top(k) == \E x \in N : \A y \in N : y <= k => x >= y
           T == {k \in 0 .. n : Top(k)}
<1>1. 0 \in T
  OBVIOUS
<1>2. ASSUME NEW k \in 1 .. n, k - 1 \in T PROVE k \in T
  <2>1. CASE k \in N
    <3>1. \A y \in N : y <= k => k >= y
      OBVIOUS
    <3> QED BY <2>1, <3>1
  <2>2. CASE k \notin N
    <3>1. PICK x \in N : \A y \in N : y <= k - 1 => x >= y
      BY <1>2
    <3>2. \A y \in N : y <= k => y <= k - 1
      BY <2>2
    <3> QED BY <3>1, <3>2
  <2> QED BY <2>1, <2>2
<1>3. \A k \in 0 .. n : k \in T
  <2> HIDE DEF T
  <2> QED BY <1>1, <1>2, Loop
<1>4. PICK top \in N : \A y \in N : top >= y
  <2>1. n \in T
    BY <1>3
  <2> QED BY <2>1
<1>5. Max(N) \in N /\ \A y \in N : Max(N) >= y
  BY <1>4 DEF Max
<1>6. n \in N => Max(N) = n
  <2>1. PICK x : x = Max(N)
    OBVIOUS
  <2>2. x \in 0 .. n /\ \A y \in N : x >= y
    BY <1>5, <2>1
  <2>3. n \in N => x >= n
    BY <2>2
  <2>4. n \in N => x = n
    BY <2>2, <2>3
  <2> QED BY <2>1, <2>4
<1> QED BY <1>5, <1>6

\* The greatest of one number is that number.
LEMMA MaxOfOne == ASSUME NEW i \in Nat PROVE Max({i}) = i
<1>1. \A x \in {i} : x = i
  OBVIOUS
<1>2. Max({i}) \in {i}
  BY DEF Max
<1> QED BY <1>1, <1>2

\* What is read of members: those that have a name among them are taken from object.
Merged(ms, n, object, init) ==
  [m \in DOMAIN init |-> IF \E i \in 1 .. n : ms[i].name = m THEN object[m] ELSE init[m]]

\* r is what is read of the members from the end of b: what is before them is left.
HasRead(r, ms, n, object, init, b, p) ==
  r = [ok |-> TRUE, buffer |-> SubSeq(b, 1, p), object |-> Merged(ms, n, object, init)]

\* A class reads the members it wrote, from the last to the first, from the end of a
\* buffer, and leaves what was before them.
LEMMA ReadsBack ==
  ASSUME NEW n, NEW ms, Sized(ms, n), Named(ms, n), NEW rs, Turned(rs, ms, n),
         NEW object, NEW S, NEW b \in Seq(S), NEW p \in Nat, Len(b) = p + size(ms, n),
         Lays(ms, n, object, b, p), NEW init
  PROVE  HasRead(deserialize(rs, init, b), ms, n, object, init, b, p)
<1>1. n \in Nat /\ Len(rs) = n /\ (\A i \in 1 .. n : rs[i] = ms[n + 1 - i]) /\ n \in 0 .. n
  BY DEF Sized, Turned
<1>2. /\ \A i \in 0 .. n : size(rs, i) \in Nat /\ size(rs, i) + size(ms, n - i) = size(ms, n)
      /\ \A i \in 0 .. n : size(ms, i) \in Nat
      /\ size(ms, 0) = 0 /\ size(rs, n) = size(ms, n)
  <2>1. \A i \in 0 .. n : size(rs, i) \in Nat /\ size(rs, i) + size(ms, n - i) = size(ms, n)
    BY SizeTurned
  <2>2. size(ms, 0) = 0 /\ \A i \in 0 .. n : size(ms, i) \in Nat
    BY SizeStep
  <2>3. n - n = 0
    BY <1>1
  <2>4. size(rs, n) \in Nat /\ size(rs, n) + size(ms, 0) = size(ms, n)
    BY <1>1, <2>1, <2>3
  <2>5. size(rs, n) = size(ms, n)
    BY <2>2, <2>4
  <2> QED BY <2>1, <2>2, <2>5
<1> DEFINE before(i) == unload(b, size(rs, i)).buffer
           Member(m) == {i \in 1 .. n : rs[i].name = m}
<1>3. Max({i \in 0 .. Len(rs) : size(rs, i) <= Len(b)}) = n
  <2>1. PICK N : N = {i \in 0 .. n : size(rs, i) <= Len(b)}
    OBVIOUS
  <2>2. N \in SUBSET (0 .. n)
    BY <2>1
  <2>3. 0 \in N /\ n \in N
    <3>1. size(rs, n) <= Len(b)
      <4>1. PICK z \in Nat : z = size(ms, n)
        BY <1>1, <1>2
      <4> QED BY <1>2, <4>1
    <3>2. size(rs, 0) <= Len(b)
      <4>1. 0 \in 0 .. n /\ n - 0 = n
        BY <1>1
      <4>2. size(rs, 0) + size(ms, n) = size(ms, n) /\ size(rs, 0) \in Nat /\ size(ms, n) \in Nat
        BY <1>1, <1>2, <4>1
      <4>3. size(rs, 0) = 0
        BY <4>2
      <4> QED BY <4>3
    <3> QED BY <1>1, <2>1, <3>1, <3>2
  <2>4. Max(N) = n
    BY <1>1, <2>2, <2>3, MaxOf
  <2> QED BY <1>1, <2>1, <2>4, Zenon
<1>4. before(n) = SubSeq(b, 1, p)
  <2>1. PICK d \in Nat : d = size(ms, n)
    BY <1>1, <1>2
  <2>2. Len(b) = p + d
    BY <2>1
  <2>3. Taken(unload(b, d), b, p, d, S)
    BY <2>2, Unloads
  <2> QED BY <1>2, <2>1, <2>3, Zenon DEF Taken
<1>5. ASSUME NEW i \in 1 .. n
      PROVE  Value(unload(before(i - 1), rs[i].size).bytes) = object[rs[i].name]
  <2>1. PICK k : k = n + 1 - i
    OBVIOUS
  <2>2. k \in 1 .. n /\ k \in 0 .. n /\ n - (i - 1) = k /\ i - 1 \in 0 .. n /\ rs[i] = ms[k]
    BY <1>1, <2>1
  <2>3. PICK d \in Nat : d = size(rs, i - 1)
    BY <1>2, <2>2
  <2>4. d + size(ms, k) = size(ms, n) /\ size(ms, k) \in Nat
    BY <1>2, <2>2, <2>3
  <2>5. Len(b) = p + size(ms, k) + d
    BY <2>4
  <2>6. Value(unload(unload(b, d).buffer, ms[k].size).bytes) = object[ms[k].name]
    BY <2>2, <2>5, ReadsMember
  <2> QED BY <2>2, <2>3, <2>6, Zenon
<1>6. ASSUME NEW m, NEW i \in 1 .. n, ms[i].name = m
      PROVE  /\ Member(m) # {}
             /\ LET k == Max(Member(m)) IN
                Value(unload(before(k - 1), rs[k].size).bytes) = object[m]
  <2>1. PICK k : k = n + 1 - i
    OBVIOUS
  <2>2. k \in 1 .. n /\ rs[k] = ms[i] /\ n + 1 - k = i
    BY <1>1, <2>1
  <2>3. Member(m) = {k}
    <3>1. ASSUME NEW j \in 1 .. n, rs[j].name = m PROVE j = k
      <4>1. PICK l : l = n + 1 - j
        OBVIOUS
      <4>2. l \in 1 .. n /\ rs[j] = ms[l] /\ n + 1 - l = j
        BY <1>1, <4>1
      <4>3. ms[l].name = ms[i].name
        BY <1>6, <3>1, <4>2, Zenon
      <4>4. l = i
        BY <1>6, <4>2, <4>3, Zenon DEF Named
      <4> QED BY <1>1, <2>2, <4>2, <4>4
    <3>2. rs[k].name = m
      BY <1>6, <2>2
    <3> QED BY <2>2, <3>1, <3>2
  <2>4. Max(Member(m)) = k
    BY <1>1, <2>2, <2>3, MaxOfOne
  <2>5. Value(unload(before(k - 1), rs[k].size).bytes) = object[m]
    BY <1>5, <1>6, <2>2, Zenon
  <2> HIDE DEF Member, before
  <2> QED BY <2>3, <2>4, <2>5, Zenon
<1>7. ASSUME NEW m, ~ \E i \in 1 .. n : ms[i].name = m
      PROVE  Member(m) = {}
  <2>1. \A i \in 1 .. n : n + 1 - i \in 1 .. n
    BY <1>1
  <2> QED BY <1>1, <1>7, <2>1
<1>8. deserialize(rs, init, b) =
        [ok |-> n = Len(rs), buffer |-> before(n),
         object |-> [m \in DOMAIN init |->
           IF Member(m) = {} THEN init[m]
           ELSE LET i == Max(Member(m)) IN Value(unload(before(i - 1), rs[i].size).bytes)]]
  BY <1>3, Zenon DEF deserialize
<1>9. \A m \in DOMAIN init :
        (IF Member(m) = {} THEN init[m]
         ELSE LET i == Max(Member(m)) IN Value(unload(before(i - 1), rs[i].size).bytes))
        = IF \E i \in 1 .. n : ms[i].name = m THEN object[m] ELSE init[m]
  <2> HIDE DEF Member, before
  <2> QED BY <1>6, <1>7, Zenon
<1>10. [m \in DOMAIN init |->
           IF Member(m) = {} THEN init[m]
           ELSE LET i == Max(Member(m)) IN Value(unload(before(i - 1), rs[i].size).bytes)]
       = Merged(ms, n, object, init)
  <2> HIDE DEF Member, before
  <2> QED BY <1>9, Zenon DEF Merged
<1>11. (n = Len(rs)) = TRUE
  BY <1>1
<1> HIDE DEF Member, before
<1> QED BY <1>4, <1>8, <1>10, <1>11, Zenon DEF HasRead

\* A class refuses fewer bytes than its members have.
LEMMA RefusesShort ==
  ASSUME NEW n, NEW ms, Sized(ms, n), NEW rs, Turned(rs, ms, n), NEW S, NEW b \in Seq(S),
         Len(b) < size(ms, n), NEW init
  PROVE  deserialize(rs, init, b).ok = FALSE
<1>1. n \in Nat /\ Len(rs) = n /\ n \in 0 .. n /\ 0 \in 0 .. n /\ n - 0 = n /\ n - n = 0 /\ Len(b) \in Nat
  BY DEF Sized, Turned
<1>2. \A i \in 0 .. n : size(rs, i) \in Nat /\ size(rs, i) + size(ms, n - i) = size(ms, n)
  BY SizeTurned
<1>3. size(ms, 0) = 0 /\ size(ms, n) \in Nat
  BY <1>1, SizeStep
<1>4. size(rs, 0) = 0 /\ size(rs, n) = size(ms, n)
  <2>1. size(rs, 0) \in Nat /\ size(rs, 0) + size(ms, n) = size(ms, n)
    BY <1>1, <1>2
  <2>2. size(rs, n) \in Nat /\ size(rs, n) + size(ms, 0) = size(ms, n)
    BY <1>1, <1>2
  <2> QED BY <1>3, <2>1, <2>2
<1>5. PICK N : N = {i \in 0 .. n : size(rs, i) <= Len(b)}
  OBVIOUS
<1>6. N \in SUBSET (0 .. n) /\ 0 \in N /\ n \notin N
  <2>1. 0 <= Len(b) /\ ~(size(ms, n) <= Len(b))
    BY <1>1, <1>3
  <2> QED BY <1>1, <1>4, <1>5, <2>1
<1>7. Max(N) # n
  BY <1>1, <1>6, MaxOf
<1>8. deserialize(rs, init, b).ok = (Max({i \in 0 .. Len(rs) : size(rs, i) <= Len(b)}) = Len(rs))
  BY DEF deserialize
<1> QED BY <1>1, <1>5, <1>7, <1>8, Zenon

-----------------------------------------------------------------------------
(* The members of every class: none has the name of another, and a class reads *)
(* them in the order opposite to that in which it writes them.                 *)

\* The members of the header and of all the classes.
Fields ==
  {"message_type_", "comm_type_", "reply_code_",
   "sequence_", "joint_position_", "velocity_", "duration_", "robot_id_", "valid_fields_",
   "time_", "positions_", "velocities_", "accelerations_", "joints_", "drives_powered_",
   "e_stopped_", "error_code_", "in_error_", "in_motion_", "mode_", "motion_possible_",
   "trajectory_complete_", "vector_", "type_", "cmd_type_", "frame_ref_", "tool_ref_",
   "accel_", "vel_", "tvel_", "rvel_", "user_in_", "valve_out_", "basic_in_",
   "basic_out_", "basic_in_2_", "basic_out_2_", "basic_io_valid_", "basic_io_2_valid_",
   "module_id_", "pin_", "state_", "drive_power_"}

Cell == [name : Fields \X Nat, size : {1, 4}]

\* The members ms of a class have the names ns, each one its own, and are read, as rs,
\* from the last to the first.
Block(ms, rs, ns) ==
  /\ ms \in Seq(Cell) /\ rs \in Seq(Cell)
  /\ Turned(rs, ms, Len(ms)) /\ Named(ms, Len(ms))
  /\ ns = {ms[i].name : i \in 1 .. Len(ms)}

\* c is a with b behind it.
Chained(c, a, b, S) ==
  /\ c \in Seq(S) /\ Len(c) = Len(a) + Len(b)
  /\ \A i \in 1 .. Len(a) + Len(b) : c[i] = IF i <= Len(a) THEN a[i] ELSE b[i - Len(a)]

\* A concatenation has the elements of both, one after the other.
LEMMA Chains ==
  ASSUME NEW S, NEW a \in Seq(S), NEW b \in Seq(S)
  PROVE  Chained(a \o b, a, b, S)
BY ConcatProperties DEF Chained

\* Two blocks without a common member are a block, and are read the second first.
LEMMA Joined ==
  ASSUME NEW a, NEW ra, NEW as, Block(a, ra, as), NEW b, NEW rb, NEW bs, Block(b, rb, bs),
         as \intersect bs = {}
  PROVE  Block(a \o b, rb \o ra, as \union bs)
<1>1. PICK m \in Nat, n \in Nat : m = Len(a) /\ n = Len(b)
  BY DEF Block
<1>2. /\ a \in Seq(Cell) /\ Len(ra) = m /\ ra \in Seq(Cell) /\ \A i \in 1 .. m : ra[i] = a[m + 1 - i]
      /\ b \in Seq(Cell) /\ Len(rb) = n /\ rb \in Seq(Cell) /\ \A i \in 1 .. n : rb[i] = b[n + 1 - i]
  BY <1>1 DEF Block, Turned
<1>3. /\ \A i, j \in 1 .. m : a[i].name = a[j].name => i = j
      /\ \A i, j \in 1 .. n : b[i].name = b[j].name => i = j
  BY <1>1 DEF Block, Named
<1>4. \A i \in 1 .. m, j \in 1 .. n : a[i].name # b[j].name
  BY <1>1 DEF Block
<1>5. PICK c, rc : c = a \o b /\ rc = rb \o ra
  OBVIOUS
<1>6. /\ c \in Seq(Cell) /\ Len(c) = m + n
      /\ \A i \in 1 .. m + n : c[i] = IF i <= m THEN a[i] ELSE b[i - m]
  <2>1. Chained(c, a, b, Cell)
    BY <1>2, <1>5, Chains
  <2> QED BY <1>1, <2>1, Zenon DEF Chained
<1>7. /\ rc \in Seq(Cell) /\ Len(rc) = n + m
      /\ \A i \in 1 .. n + m : rc[i] = IF i <= n THEN rb[i] ELSE ra[i - n]
  <2>1. Chained(rc, rb, ra, Cell)
    BY <1>2, <1>5, Chains
  <2> QED BY <1>1, <1>2, <2>1, Zenon DEF Chained
<1>8. ASSUME NEW i \in 1 .. m + n PROVE rc[i] = c[(m + n) + 1 - i]
  <2>1. PICK j : j = (m + n) + 1 - i
    OBVIOUS
  <2>2. j \in 1 .. m + n /\ i \in 1 .. n + m
    BY <2>1
  <2>3. CASE i <= n
    <3>1. i \in 1 .. n /\ j - m = n + 1 - i /\ ~(j <= m)
      BY <2>1, <2>3
    <3>2. rc[i] = rb[i] /\ rb[i] = b[n + 1 - i]
      BY <1>2, <1>7, <2>2, <2>3, <3>1
    <3>3. c[j] = b[j - m]
      BY <1>6, <2>2, <3>1
    <3> QED BY <2>1, <3>1, <3>2, <3>3
  <2>4. CASE ~(i <= n)
    <3>1. i - n \in 1 .. m /\ j = m + 1 - (i - n) /\ j <= m
      BY <2>1, <2>4
    <3>2. rc[i] = ra[i - n] /\ ra[i - n] = a[m + 1 - (i - n)]
      BY <1>2, <1>7, <2>2, <2>4, <3>1
    <3>3. c[j] = a[j]
      BY <1>6, <2>2, <3>1
    <3> QED BY <2>1, <3>1, <3>2, <3>3
  <2> QED BY <2>3, <2>4
<1>9. Turned(rc, c, Len(c))
  BY <1>6, <1>7, <1>8 DEF Turned
<1>10. ASSUME NEW i \in 1 .. m + n, NEW j \in 1 .. m + n, c[i].name = c[j].name PROVE i = j
  <2>1. CASE i <= m /\ j <= m
    <3>1. i \in 1 .. m /\ j \in 1 .. m /\ c[i] = a[i] /\ c[j] = a[j]
      BY <1>6, <2>1
    <3> QED BY <1>3, <1>10, <3>1, Zenon
  <2>2. CASE ~(i <= m) /\ ~(j <= m)
    <3>1. PICK k, l : k = i - m /\ l = j - m
      OBVIOUS
    <3>2. k \in 1 .. n /\ l \in 1 .. n /\ c[i] = b[k] /\ c[j] = b[l]
      BY <1>6, <2>2, <3>1
    <3>3. k = l
      BY <1>3, <1>10, <3>2, Zenon
    <3> QED BY <3>1, <3>3
  <2>3. CASE i <= m /\ ~(j <= m)
    <3>1. PICK l : l = j - m
      OBVIOUS
    <3>2. i \in 1 .. m /\ l \in 1 .. n /\ c[i] = a[i] /\ c[j] = b[l]
      BY <1>6, <2>3, <3>1
    <3> QED BY <1>4, <1>10, <3>2, Zenon
  <2>4. CASE ~(i <= m) /\ j <= m
    <3>1. PICK k : k = i - m
      OBVIOUS
    <3>2. k \in 1 .. n /\ j \in 1 .. m /\ c[i] = b[k] /\ c[j] = a[j]
      BY <1>6, <2>4, <3>1
    <3> QED BY <1>4, <1>10, <3>2, Zenon
  <2> QED BY <2>1, <2>2, <2>3, <2>4
<1>11. Named(c, Len(c))
  BY <1>6, <1>10, Zenon DEF Named
<1>12. as \union bs = {c[i].name : i \in 1 .. Len(c)}
  <2>1. as = {a[i].name : i \in 1 .. m} /\ bs = {b[i].name : i \in 1 .. n}
    BY <1>1 DEF Block
  <2>2. \A i \in 1 .. m : i \in 1 .. m + n /\ c[i] = a[i]
    BY <1>6
  <2>3. \A i \in 1 .. n : m + i \in 1 .. m + n /\ c[m + i] = b[i]
    <3> SUFFICES ASSUME NEW i \in 1 .. n PROVE m + i \in 1 .. m + n /\ c[m + i] = b[i]
      OBVIOUS
    <3>1. PICK j : j = m + i
      OBVIOUS
    <3>2. j \in 1 .. m + n /\ ~(j <= m) /\ j - m = i
      BY <3>1
    <3> QED BY <1>6, <3>1, <3>2
  <2>4. \A i \in 1 .. m + n : c[i].name \in as \union bs
    <3> SUFFICES ASSUME NEW i \in 1 .. m + n PROVE c[i].name \in as \union bs
      OBVIOUS
    <3>1. CASE i <= m
      <4>1. i \in 1 .. m /\ c[i] = a[i]
        BY <1>6, <3>1
      <4> QED BY <2>1, <4>1
    <3>2. CASE ~(i <= m)
      <4>1. PICK k : k = i - m
        OBVIOUS
      <4>2. k \in 1 .. n /\ c[i] = b[k]
        BY <1>6, <3>2, <4>1
      <4> QED BY <2>1, <4>2
    <3> QED BY <3>1, <3>2
  <2>5. ASSUME NEW x \in as \union bs PROVE x \in {c[i].name : i \in 1 .. m + n}
    <3>1. CASE x \in as
      <4>1. PICK i \in 1 .. m : x = a[i].name
        BY <2>1, <3>1
      <4>2. i \in 1 .. m + n /\ x = c[i].name
        BY <2>2, <4>1
      <4> QED BY <4>2
    <3>2. CASE x \in bs
      <4>1. PICK i \in 1 .. n : x = b[i].name
        BY <2>1, <3>2
      <4>2. m + i \in 1 .. m + n /\ x = c[m + i].name
        BY <2>3, <4>1
      <4> QED BY <4>2
    <3> QED BY <3>1, <3>2
  <2>6. Len(c) = m + n
    BY <1>6
  <2>7. as \union bs = {c[i].name : i \in 1 .. m + n}
    BY <2>4, <2>5
  <2> QED BY <2>6, <2>7
<1>13. Block(c, rc, as \union bs)
  <2>1. c \in Seq(Cell) /\ rc \in Seq(Cell)
    BY <1>6, <1>7, Zenon
  <2> QED BY <1>9, <1>11, <1>12, <2>1, Zenon DEF Block
<1> QED BY <1>5, <1>13, Zenon

\* Words of different names are a block.
LEMMA WordsBlock ==
  ASSUME NEW n \in Nat, NEW fs \in [1 .. n -> Fields], NEW gs \in [1 .. n -> Fields],
         \A i \in 1 .. n : gs[i] = fs[n + 1 - i],
         \A i, j \in 1 .. n : fs[i] = fs[j] => i = j,
         NEW ns, ns = {fs[i] : i \in 1 .. n} \X {0}
  PROVE  Block(Words(fs), Words(gs), ns)
<1>1. PICK a, b : a = Words(fs) /\ b = Words(gs)
  OBVIOUS
<1>2. /\ a = [i \in 1 .. n |-> [name |-> <<fs[i], 0>>, size |-> 4]]
      /\ b = [i \in 1 .. n |-> [name |-> <<gs[i], 0>>, size |-> 4]]
  <2>1. DOMAIN fs = 1 .. n /\ DOMAIN gs = 1 .. n
    OBVIOUS
  <2> QED BY <1>1, <2>1, Zenon DEF Words, Word
<1>3. a \in Seq(Cell) /\ Len(a) = n /\ b \in Seq(Cell) /\ Len(b) = n
  <2>1. a \in [1 .. n -> Cell] /\ b \in [1 .. n -> Cell]
    BY <1>2 DEF Cell
  <2> QED BY <2>1
<1>4. /\ \A i \in 1 .. n : a[i] = [name |-> <<fs[i], 0>>, size |-> 4]
      /\ \A i \in 1 .. n : b[i] = [name |-> <<gs[i], 0>>, size |-> 4]
  BY <1>2, Zenon
<1> \A i \in 1 .. n : a[i].name = <<fs[i], 0>>
  <2> SUFFICES ASSUME NEW i \in 1 .. n PROVE a[i].name = <<fs[i], 0>>
    OBVIOUS
  <2>1. PICK x : x = <<fs[i], 0>>
    OBVIOUS
  <2>2. a[i] = [name |-> x, size |-> 4]
    BY <1>4, <2>1, Zenon
  <2> QED BY <2>1, <2>2
<1>5. Turned(b, a, n)
  <2>1. \A i \in 1 .. n : n + 1 - i \in 1 .. n
    OBVIOUS
  <2>2. \A i \in 1 .. n : b[i] = a[n + 1 - i]
    <3> SUFFICES ASSUME NEW i \in 1 .. n PROVE b[i] = a[n + 1 - i]
      OBVIOUS
    <3>1. PICK j \in 1 .. n : j = n + 1 - i
      BY <2>1
    <3>2. gs[i] = fs[j]
      BY <3>1
    <3>3. b[i] = a[j]
      <4>1. b[i] = [name |-> <<gs[i], 0>>, size |-> 4] /\ a[j] = [name |-> <<fs[j], 0>>, size |-> 4]
        BY <1>4, Zenon
      <4> QED BY <3>2, <4>1, Zenon
    <3> QED BY <3>1, <3>3, Zenon
  <2> QED BY <1>3, <2>2 DEF Turned
<1>6. Named(a, n)
  <2>1. ASSUME NEW i \in 1 .. n, NEW j \in 1 .. n, a[i].name = a[j].name PROVE i = j
    <3>1. <<fs[i], 0>> = <<fs[j], 0>>
      BY <2>1, Zenon
    <3>2. fs[i] = fs[j]
      BY <3>1
    <3> QED BY <3>2
  <2> QED BY <2>1, Zenon DEF Named
<1>7. ns = {a[i].name : i \in 1 .. n}
  <2>1. ns = {<<fs[i], 0>> : i \in 1 .. n}
    OBVIOUS
  <2>2. \A x : (\E i \in 1 .. n : x = <<fs[i], 0>>) <=> (\E i \in 1 .. n : x = a[i].name)
    BY Zenon
  <2>3. \A x : x \in {<<fs[i], 0>> : i \in 1 .. n} <=> x \in {a[i].name : i \in 1 .. n}
    BY <2>2
  <2> QED BY <2>1, <2>3, Zenon
<1> QED BY <1>1, <1>3, <1>5, <1>6, <1>7 DEF Block

\* An array is a block, and is read from its last element.
LEMMA ArrayBlock ==
  ASSUME NEW n \in Nat, NEW f \in Fields
  PROVE  Block(Array(f, n), Reverse(Array(f, n)), {f} \X (1 .. n))
<1>1. PICK a, b : a = Array(f, n) /\ b = Reverse(a)
  OBVIOUS
<1>2. a = [i \in 1 .. n |-> [name |-> <<f, i>>, size |-> 4]]
  BY <1>1, Zenon DEF Array
<1>3. a \in Seq(Cell) /\ Len(a) = n
  <2>1. a \in [1 .. n -> Cell]
    BY <1>2 DEF Cell
  <2> QED BY <2>1
<1>4. \A i \in 1 .. n : a[i] = [name |-> <<f, i>>, size |-> 4]
  BY <1>2, Zenon
<1> \A i \in 1 .. n : a[i].name = <<f, i>>
  <2> SUFFICES ASSUME NEW i \in 1 .. n PROVE a[i].name = <<f, i>>
    OBVIOUS
  <2>1. PICK x : x = <<f, i>>
    OBVIOUS
  <2>2. a[i] = [name |-> x, size |-> 4]
    BY <1>4, <2>1, Zenon
  <2> QED BY <2>1, <2>2
<1>5. b = [i \in 1 .. n |-> a[(n - i) + 1]]
  BY <1>1, <1>3 DEF Reverse
<1>6. \A i \in 1 .. n : (n - i) + 1 \in 1 .. n /\ (n - i) + 1 = n + 1 - i
  OBVIOUS
<1>7. b \in Seq(Cell) /\ Len(b) = n /\ \A i \in 1 .. n : b[i] = a[n + 1 - i]
  <2>1. \A i \in 1 .. n : b[i] = a[n + 1 - i]
    BY <1>5, <1>6, Zenon
  <2>2. b \in [1 .. n -> Cell]
    BY <1>3, <1>5, <1>6
  <2> QED BY <2>1, <2>2
<1>8. Turned(b, a, n)
  BY <1>7 DEF Turned
<1>9. Named(a, n)
  <2>1. ASSUME NEW i \in 1 .. n, NEW j \in 1 .. n, a[i].name = a[j].name PROVE i = j
    <3>1. <<f, i>> = <<f, j>>
      BY <2>1, Zenon
    <3> QED BY <3>1
  <2> QED BY <2>1, Zenon DEF Named
<1>10. {f} \X (1 .. n) = {a[i].name : i \in 1 .. n}
  <2>1. {f} \X (1 .. n) = {<<f, i>> : i \in 1 .. n}
    OBVIOUS
  <2> QED BY <2>1, Zenon
<1> QED BY <1>1, <1>3, <1>7, <1>8, <1>9, <1>10 DEF Block

\* Three blocks without a common member are a block.
LEMMA Joined3 ==
  ASSUME NEW a, NEW ra, NEW as, Block(a, ra, as), NEW b, NEW rb, NEW bs, Block(b, rb, bs),
         NEW c, NEW rc, NEW cs, Block(c, rc, cs),
         as \intersect bs = {}, as \intersect cs = {}, bs \intersect cs = {}
  PROVE  Block(a \o b \o c, rc \o rb \o ra, as \union bs \union cs)
<1>1. Block(a \o b, rb \o ra, as \union bs)
  BY Joined
<1>2. (as \union bs) \intersect cs = {}
  OBVIOUS
<1>3. PICK ab, rab, abs : ab = a \o b /\ rab = rb \o ra /\ abs = as \union bs
  OBVIOUS
<1>4. Block(ab \o c, rc \o rab, abs \union cs)
  <2>1. Block(ab, rab, abs) /\ abs \intersect cs = {}
    BY <1>1, <1>2, <1>3, Zenon
  <2> QED BY <2>1, Joined
<1>5. rc \o (rb \o ra) = (rc \o rb) \o ra
  <2>1. rc \in Seq(Cell) /\ rb \in Seq(Cell) /\ ra \in Seq(Cell)
    BY DEF Block
  <2> QED BY <2>1, ConcatAssociative, SMTT(30)
<1> QED BY <1>3, <1>4, <1>5, Zenon

\* Four blocks without a common member are a block.
LEMMA Joined4 ==
  ASSUME NEW a, NEW ra, NEW as, Block(a, ra, as), NEW b, NEW rb, NEW bs, Block(b, rb, bs),
         NEW c, NEW rc, NEW cs, Block(c, rc, cs), NEW d, NEW rd, NEW ds, Block(d, rd, ds),
         as \intersect bs = {}, as \intersect cs = {}, bs \intersect cs = {},
         as \intersect ds = {}, bs \intersect ds = {}, cs \intersect ds = {}
  PROVE  Block(a \o b \o c \o d, rd \o rc \o rb \o ra, as \union bs \union cs \union ds)
<1>1. Block(a \o b \o c, rc \o rb \o ra, as \union bs \union cs)
  BY Joined3
<1>2. (as \union bs \union cs) \intersect ds = {}
  OBVIOUS
<1>3. PICK abc, rabc, abcs :
        abc = a \o b \o c /\ rabc = rc \o rb \o ra /\ abcs = as \union bs \union cs
  OBVIOUS
<1>4. Block(abc \o d, rd \o rabc, abcs \union ds)
  <2>1. Block(abc, rabc, abcs) /\ abcs \intersect ds = {}
    BY <1>1, <1>2, <1>3, Zenon
  <2> QED BY <2>1, Joined
<1>5. rd \o ((rc \o rb) \o ra) = ((rd \o rc) \o rb) \o ra
  <2>1. rd \in Seq(Cell) /\ rc \in Seq(Cell) /\ rb \in Seq(Cell) /\ ra \in Seq(Cell)
    BY DEF Block
  <2>2. rd \o (rc \o rb) = (rd \o rc) \o rb
    BY <2>1, ConcatAssociative, SMTT(30)
  <2>3. rc \o rb \in Seq(Cell)
    BY <2>1, ConcatProperties
  <2>4. rd \o ((rc \o rb) \o ra) = (rd \o (rc \o rb)) \o ra
    BY <2>1, <2>3, ConcatAssociative, SMTT(30)
  <2> QED BY <2>2, <2>4, Zenon
<1> QED BY <1>3, <1>4, <1>5, Zenon

\* One flag is a block, and so are two.
LEMMA FlagsBlock ==
  ASSUME NEW f \in Fields, NEW g \in Fields, f # g
  PROVE  /\ Block(<<Flag(f)>>, <<Flag(f)>>, {<<f, 0>>})
         /\ Block(<<Flag(f), Flag(g)>>, <<Flag(g), Flag(f)>>, {<<f, 0>>, <<g, 0>>})
<1>1. PICK x, y : x = Flag(f) /\ y = Flag(g)
  OBVIOUS
<1>2. x \in Cell /\ x.name = <<f, 0>> /\ y \in Cell /\ y.name = <<g, 0>>
  BY <1>1 DEF Flag, Cell
<1>3. x.name # y.name
  BY <1>2
<1>4. PICK b : b = <<x>>
  OBVIOUS
<1>5. Block(b, b, {x.name})
  <2>1. b \in Seq(Cell) /\ Len(b) = 1 /\ b[1] = x
    BY <1>2, <1>4
  <2>2. Turned(b, b, 1) /\ Named(b, 1)
    BY <2>1 DEF Turned, Named
  <2>3. {x.name} = {b[i].name : i \in 1 .. 1}
    BY <2>1
  <2> QED BY <2>1, <2>2, <2>3 DEF Block
<1>6. PICK c, d : c = <<x, y>> /\ d = <<y, x>>
  OBVIOUS
<1>7. Block(c, d, {x.name, y.name})
  <2>1. /\ c \in Seq(Cell) /\ Len(c) = 2 /\ c[1] = x /\ c[2] = y
        /\ d \in Seq(Cell) /\ Len(d) = 2 /\ d[1] = y /\ d[2] = x
    BY <1>2, <1>6
  <2>2. Turned(d, c, 2) /\ Named(c, 2)
    BY <1>3, <2>1 DEF Turned, Named
  <2>3. {x.name, y.name} = {c[i].name : i \in 1 .. 2}
    BY <2>1
  <2> QED BY <2>1, <2>2, <2>3 DEF Block
<1> QED BY <1>1, <1>2, <1>4, <1>5, <1>6, <1>7, Zenon

\* The members of a JointTrajPt, in the order in which load and unload name them.
LEMMA JointTrajPtBlock ==
  Block(JointTrajPtLoad, JointTrajPtUnload,
        ({"sequence_"} \X {0})
          \union ({"joint_position_"} \X (1 .. MAX_NUM_JOINTS))
          \union ({"velocity_", "duration_"} \X {0}))
<1>1. Block(Words(<<"sequence_">>),
      Words(<<"sequence_">>),
      {"sequence_"} \X {0})
  <2>1. PICK fs, gs, n : fs = <<"sequence_">>
                    /\ gs = <<"sequence_">> /\ n = 1
    OBVIOUS
  <2>2. n \in Nat /\ fs \in [1 .. n -> Fields] /\ gs \in [1 .. n -> Fields]
    BY <2>1 DEF Fields
  <2>3. \A i \in 1 .. n : gs[i] = fs[n + 1 - i]
    BY <2>1
  <2>4. \A i, j \in 1 .. n : fs[i] = fs[j] => i = j
    BY <2>1
  <2>5. {"sequence_"} = {fs[i] : i \in 1 .. n}
    BY <2>1
  <2>6. Block(Words(fs), Words(gs), {"sequence_"} \X {0})
    BY <2>2, <2>3, <2>4, <2>5, WordsBlock
  <2> QED BY <2>1, <2>6, Zenon
<1>2. Block(Joints("joint_position_"), JointsDown("joint_position_"), {"joint_position_"} \X (1 .. MAX_NUM_JOINTS))
  <2>1. "joint_position_" \in Fields /\ MAX_NUM_JOINTS \in Nat
    BY SizeAssumption DEF Fields
  <2> QED BY <2>1, ArrayBlock DEF Joints, JointsDown
<1>3. Block(Words(<<"velocity_", "duration_">>),
      Words(<<"duration_", "velocity_">>),
      {"velocity_", "duration_"} \X {0})
  <2>1. PICK fs, gs, n : fs = <<"velocity_", "duration_">>
                    /\ gs = <<"duration_", "velocity_">> /\ n = 2
    OBVIOUS
  <2>2. n \in Nat /\ fs \in [1 .. n -> Fields] /\ gs \in [1 .. n -> Fields]
    BY <2>1 DEF Fields
  <2>3. \A i \in 1 .. n : gs[i] = fs[n + 1 - i]
    BY <2>1
  <2>4. \A i, j \in 1 .. n : fs[i] = fs[j] => i = j
    BY <2>1
  <2>5. {"velocity_", "duration_"} = {fs[i] : i \in 1 .. n}
    BY <2>1
  <2>6. Block(Words(fs), Words(gs), {"velocity_", "duration_"} \X {0})
    BY <2>2, <2>3, <2>4, <2>5, WordsBlock
  <2> QED BY <2>1, <2>6, Zenon
<1>4. /\ ({"sequence_"} \X {0}) \intersect ({"joint_position_"} \X (1 .. MAX_NUM_JOINTS)) = {}
      /\ ({"sequence_"} \X {0}) \intersect ({"velocity_", "duration_"} \X {0}) = {}
      /\ ({"joint_position_"} \X (1 .. MAX_NUM_JOINTS)) \intersect ({"velocity_", "duration_"} \X {0}) = {}
  OBVIOUS
<1> QED BY <1>1, <1>2, <1>3, <1>4, Joined3 DEF JointTrajPtLoad, JointTrajPtUnload

\* The members of a JointTrajPtFull.
LEMMA JointTrajPtFullBlock ==
  Block(JointTrajPtFullLoad, JointTrajPtFullUnload,
        ({"robot_id_", "sequence_", "valid_fields_", "time_"} \X {0})
          \union ({"positions_"} \X (1 .. MAX_NUM_JOINTS))
          \union ({"velocities_"} \X (1 .. MAX_NUM_JOINTS))
          \union ({"accelerations_"} \X (1 .. MAX_NUM_JOINTS)))
<1>1. Block(Words(<<"robot_id_", "sequence_", "valid_fields_", "time_">>),
      Words(<<"time_", "valid_fields_", "sequence_", "robot_id_">>),
      {"robot_id_", "sequence_", "valid_fields_", "time_"} \X {0})
  <2>1. PICK fs, gs, n : fs = <<"robot_id_", "sequence_", "valid_fields_", "time_">>
                    /\ gs = <<"time_", "valid_fields_", "sequence_", "robot_id_">> /\ n = 4
    OBVIOUS
  <2>2. n \in Nat /\ fs \in [1 .. n -> Fields] /\ gs \in [1 .. n -> Fields]
    BY <2>1 DEF Fields
  <2>3. \A i \in 1 .. n : gs[i] = fs[n + 1 - i]
    BY <2>1
  <2>4. \A i, j \in 1 .. n : fs[i] = fs[j] => i = j
    BY <2>1
  <2>5. {"robot_id_", "sequence_", "valid_fields_", "time_"} = {fs[i] : i \in 1 .. n}
    BY <2>1
  <2>6. Block(Words(fs), Words(gs), {"robot_id_", "sequence_", "valid_fields_", "time_"} \X {0})
    BY <2>2, <2>3, <2>4, <2>5, WordsBlock
  <2> QED BY <2>1, <2>6, Zenon
<1>2. Block(Joints("positions_"), JointsDown("positions_"), {"positions_"} \X (1 .. MAX_NUM_JOINTS))
  <2>1. "positions_" \in Fields /\ MAX_NUM_JOINTS \in Nat
    BY SizeAssumption DEF Fields
  <2> QED BY <2>1, ArrayBlock DEF Joints, JointsDown
<1>3. Block(Joints("velocities_"), JointsDown("velocities_"), {"velocities_"} \X (1 .. MAX_NUM_JOINTS))
  <2>1. "velocities_" \in Fields /\ MAX_NUM_JOINTS \in Nat
    BY SizeAssumption DEF Fields
  <2> QED BY <2>1, ArrayBlock DEF Joints, JointsDown
<1>4. Block(Joints("accelerations_"), JointsDown("accelerations_"), {"accelerations_"} \X (1 .. MAX_NUM_JOINTS))
  <2>1. "accelerations_" \in Fields /\ MAX_NUM_JOINTS \in Nat
    BY SizeAssumption DEF Fields
  <2> QED BY <2>1, ArrayBlock DEF Joints, JointsDown
<1>5. /\ ({"robot_id_", "sequence_", "valid_fields_", "time_"} \X {0}) \intersect ({"positions_"} \X (1 .. MAX_NUM_JOINTS)) = {}
      /\ ({"robot_id_", "sequence_", "valid_fields_", "time_"} \X {0}) \intersect ({"velocities_"} \X (1 .. MAX_NUM_JOINTS)) = {}
      /\ ({"robot_id_", "sequence_", "valid_fields_", "time_"} \X {0}) \intersect ({"accelerations_"} \X (1 .. MAX_NUM_JOINTS)) = {}
      /\ ({"positions_"} \X (1 .. MAX_NUM_JOINTS)) \intersect ({"velocities_"} \X (1 .. MAX_NUM_JOINTS)) = {}
      /\ ({"positions_"} \X (1 .. MAX_NUM_JOINTS)) \intersect ({"accelerations_"} \X (1 .. MAX_NUM_JOINTS)) = {}
      /\ ({"velocities_"} \X (1 .. MAX_NUM_JOINTS)) \intersect ({"accelerations_"} \X (1 .. MAX_NUM_JOINTS)) = {}
  OBVIOUS
<1> QED BY <1>1, <1>2, <1>3, <1>4, <1>5, Joined4 DEF JointTrajPtFullLoad, JointTrajPtFullUnload

\* The members of a JointFeedback.
LEMMA JointFeedbackBlock ==
  Block(JointFeedbackLoad, JointFeedbackUnload,
        ({"robot_id_", "valid_fields_", "time_"} \X {0})
          \union ({"positions_"} \X (1 .. MAX_NUM_JOINTS))
          \union ({"velocities_"} \X (1 .. MAX_NUM_JOINTS))
          \union ({"accelerations_"} \X (1 .. MAX_NUM_JOINTS)))
<1>1. Block(Words(<<"robot_id_", "valid_fields_", "time_">>),
      Words(<<"time_", "valid_fields_", "robot_id_">>),
      {"robot_id_", "valid_fields_", "time_"} \X {0})
  <2>1. PICK fs, gs, n : fs = <<"robot_id_", "valid_fields_", "time_">>
                    /\ gs = <<"time_", "valid_fields_", "robot_id_">> /\ n = 3
    OBVIOUS
  <2>2. n \in Nat /\ fs \in [1 .. n -> Fields] /\ gs \in [1 .. n -> Fields]
    BY <2>1 DEF Fields
  <2>3. \A i \in 1 .. n : gs[i] = fs[n + 1 - i]
    BY <2>1
  <2>4. \A i, j \in 1 .. n : fs[i] = fs[j] => i = j
    BY <2>1
  <2>5. {"robot_id_", "valid_fields_", "time_"} = {fs[i] : i \in 1 .. n}
    BY <2>1
  <2>6. Block(Words(fs), Words(gs), {"robot_id_", "valid_fields_", "time_"} \X {0})
    BY <2>2, <2>3, <2>4, <2>5, WordsBlock
  <2> QED BY <2>1, <2>6, Zenon
<1>2. Block(Joints("positions_"), JointsDown("positions_"), {"positions_"} \X (1 .. MAX_NUM_JOINTS))
  <2>1. "positions_" \in Fields /\ MAX_NUM_JOINTS \in Nat
    BY SizeAssumption DEF Fields
  <2> QED BY <2>1, ArrayBlock DEF Joints, JointsDown
<1>3. Block(Joints("velocities_"), JointsDown("velocities_"), {"velocities_"} \X (1 .. MAX_NUM_JOINTS))
  <2>1. "velocities_" \in Fields /\ MAX_NUM_JOINTS \in Nat
    BY SizeAssumption DEF Fields
  <2> QED BY <2>1, ArrayBlock DEF Joints, JointsDown
<1>4. Block(Joints("accelerations_"), JointsDown("accelerations_"), {"accelerations_"} \X (1 .. MAX_NUM_JOINTS))
  <2>1. "accelerations_" \in Fields /\ MAX_NUM_JOINTS \in Nat
    BY SizeAssumption DEF Fields
  <2> QED BY <2>1, ArrayBlock DEF Joints, JointsDown
<1>5. /\ ({"robot_id_", "valid_fields_", "time_"} \X {0}) \intersect ({"positions_"} \X (1 .. MAX_NUM_JOINTS)) = {}
      /\ ({"robot_id_", "valid_fields_", "time_"} \X {0}) \intersect ({"velocities_"} \X (1 .. MAX_NUM_JOINTS)) = {}
      /\ ({"robot_id_", "valid_fields_", "time_"} \X {0}) \intersect ({"accelerations_"} \X (1 .. MAX_NUM_JOINTS)) = {}
      /\ ({"positions_"} \X (1 .. MAX_NUM_JOINTS)) \intersect ({"velocities_"} \X (1 .. MAX_NUM_JOINTS)) = {}
      /\ ({"positions_"} \X (1 .. MAX_NUM_JOINTS)) \intersect ({"accelerations_"} \X (1 .. MAX_NUM_JOINTS)) = {}
      /\ ({"velocities_"} \X (1 .. MAX_NUM_JOINTS)) \intersect ({"accelerations_"} \X (1 .. MAX_NUM_JOINTS)) = {}
  OBVIOUS
<1> QED BY <1>1, <1>2, <1>3, <1>4, <1>5, Joined4 DEF JointFeedbackLoad, JointFeedbackUnload

\* The members of a JointMessage.
LEMMA JointBlock ==
  Block(JointLoad, JointUnload,
        ({"sequence_"} \X {0})
          \union ({"joints_"} \X (1 .. MAX_NUM_JOINTS)))
<1>1. Block(Words(<<"sequence_">>),
      Words(<<"sequence_">>),
      {"sequence_"} \X {0})
  <2>1. PICK fs, gs, n : fs = <<"sequence_">>
                    /\ gs = <<"sequence_">> /\ n = 1
    OBVIOUS
  <2>2. n \in Nat /\ fs \in [1 .. n -> Fields] /\ gs \in [1 .. n -> Fields]
    BY <2>1 DEF Fields
  <2>3. \A i \in 1 .. n : gs[i] = fs[n + 1 - i]
    BY <2>1
  <2>4. \A i, j \in 1 .. n : fs[i] = fs[j] => i = j
    BY <2>1
  <2>5. {"sequence_"} = {fs[i] : i \in 1 .. n}
    BY <2>1
  <2>6. Block(Words(fs), Words(gs), {"sequence_"} \X {0})
    BY <2>2, <2>3, <2>4, <2>5, WordsBlock
  <2> QED BY <2>1, <2>6, Zenon
<1>2. Block(Joints("joints_"), JointsDown("joints_"), {"joints_"} \X (1 .. MAX_NUM_JOINTS))
  <2>1. "joints_" \in Fields /\ MAX_NUM_JOINTS \in Nat
    BY SizeAssumption DEF Fields
  <2> QED BY <2>1, ArrayBlock DEF Joints, JointsDown
<1>3. /\ ({"sequence_"} \X {0}) \intersect ({"joints_"} \X (1 .. MAX_NUM_JOINTS)) = {}
  OBVIOUS
<1> QED BY <1>1, <1>2, <1>3, Joined DEF JointLoad, JointUnload

\* The members of a RobotStatus.
LEMMA RobotStatusBlock ==
  Block(RobotStatusLoad, RobotStatusUnload,
        {"drives_powered_", "e_stopped_", "error_code_", "in_error_", "in_motion_", "mode_", "motion_possible_", "trajectory_complete_"} \X {0})
<1>1. Block(Words(<<"drives_powered_", "e_stopped_", "error_code_", "in_error_", "in_motion_", "mode_", "motion_possible_", "trajectory_complete_">>),
      Words(<<"trajectory_complete_", "motion_possible_", "mode_", "in_motion_", "in_error_", "error_code_", "e_stopped_", "drives_powered_">>),
      {"drives_powered_", "e_stopped_", "error_code_", "in_error_", "in_motion_", "mode_", "motion_possible_", "trajectory_complete_"} \X {0})
  <2>1. PICK fs, gs, n : fs = <<"drives_powered_", "e_stopped_", "error_code_", "in_error_", "in_motion_", "mode_", "motion_possible_", "trajectory_complete_">>
                    /\ gs = <<"trajectory_complete_", "motion_possible_", "mode_", "in_motion_", "in_error_", "error_code_", "e_stopped_", "drives_powered_">> /\ n = 8
    OBVIOUS
  <2>2. n \in Nat /\ fs \in [1 .. n -> Fields] /\ gs \in [1 .. n -> Fields]
    BY <2>1 DEF Fields
  <2>3. \A i \in 1 .. n : gs[i] = fs[n + 1 - i]
    BY <2>1
  <2>4. \A i, j \in 1 .. n : fs[i] = fs[j] => i = j
    BY <2>1
  <2>5. {"drives_powered_", "e_stopped_", "error_code_", "in_error_", "in_motion_", "mode_", "motion_possible_", "trajectory_complete_"} = {fs[i] : i \in 1 .. n}
    BY <2>1
  <2>6. Block(Words(fs), Words(gs), {"drives_powered_", "e_stopped_", "error_code_", "in_error_", "in_motion_", "mode_", "motion_possible_", "trajectory_complete_"} \X {0})
    BY <2>2, <2>3, <2>4, <2>5, WordsBlock
  <2> QED BY <2>1, <2>6, Zenon
<1> QED BY <1>1, Zenon DEF RobotStatusLoad, RobotStatusUnload

\* The members of a velocity command.
LEMMA VelocityCommandBlock ==
  Block(VelocityCommandLoad, VelocityCommandUnload,
        ({"sequence_"} \X {0})
          \union ({"vector_"} \X (1 .. 6))
          \union ({"type_"} \X {0}))
<1>1. Block(Words(<<"sequence_">>),
      Words(<<"sequence_">>),
      {"sequence_"} \X {0})
  <2>1. PICK fs, gs, n : fs = <<"sequence_">>
                    /\ gs = <<"sequence_">> /\ n = 1
    OBVIOUS
  <2>2. n \in Nat /\ fs \in [1 .. n -> Fields] /\ gs \in [1 .. n -> Fields]
    BY <2>1 DEF Fields
  <2>3. \A i \in 1 .. n : gs[i] = fs[n + 1 - i]
    BY <2>1
  <2>4. \A i, j \in 1 .. n : fs[i] = fs[j] => i = j
    BY <2>1
  <2>5. {"sequence_"} = {fs[i] : i \in 1 .. n}
    BY <2>1
  <2>6. Block(Words(fs), Words(gs), {"sequence_"} \X {0})
    BY <2>2, <2>3, <2>4, <2>5, WordsBlock
  <2> QED BY <2>1, <2>6, Zenon
<1>2. Block(Array("vector_", 6), Reverse(Array("vector_", 6)), {"vector_"} \X (1 .. 6))
  <2>1. "vector_" \in Fields /\ 6 \in Nat
    BY DEF Fields
  <2> QED BY <2>1, ArrayBlock
<1>3. Block(Words(<<"type_">>),
      Words(<<"type_">>),
      {"type_"} \X {0})
  <2>1. PICK fs, gs, n : fs = <<"type_">>
                    /\ gs = <<"type_">> /\ n = 1
    OBVIOUS
  <2>2. n \in Nat /\ fs \in [1 .. n -> Fields] /\ gs \in [1 .. n -> Fields]
    BY <2>1 DEF Fields
  <2>3. \A i \in 1 .. n : gs[i] = fs[n + 1 - i]
    BY <2>1
  <2>4. \A i, j \in 1 .. n : fs[i] = fs[j] => i = j
    BY <2>1
  <2>5. {"type_"} = {fs[i] : i \in 1 .. n}
    BY <2>1
  <2>6. Block(Words(fs), Words(gs), {"type_"} \X {0})
    BY <2>2, <2>3, <2>4, <2>5, WordsBlock
  <2> QED BY <2>1, <2>6, Zenon
<1>4. /\ ({"sequence_"} \X {0}) \intersect ({"vector_"} \X (1 .. 6)) = {}
      /\ ({"sequence_"} \X {0}) \intersect ({"type_"} \X {0}) = {}
      /\ ({"vector_"} \X (1 .. 6)) \intersect ({"type_"} \X {0}) = {}
  OBVIOUS
<1> QED BY <1>1, <1>2, <1>3, <1>4, Joined3 DEF VelocityCommandLoad, VelocityCommandUnload

\* The members of a velocity configuration.
LEMMA VelocityConfigBlock ==
  Block(VelocityConfigLoad, VelocityConfigUnload,
        ({"cmd_type_"} \X {0})
          \union ({"frame_ref_"} \X (1 .. 6))
          \union ({"tool_ref_"} \X (1 .. 6))
          \union ({"accel_", "vel_", "tvel_", "rvel_"} \X {0}))
<1>1. Block(Words(<<"cmd_type_">>),
      Words(<<"cmd_type_">>),
      {"cmd_type_"} \X {0})
  <2>1. PICK fs, gs, n : fs = <<"cmd_type_">>
                    /\ gs = <<"cmd_type_">> /\ n = 1
    OBVIOUS
  <2>2. n \in Nat /\ fs \in [1 .. n -> Fields] /\ gs \in [1 .. n -> Fields]
    BY <2>1 DEF Fields
  <2>3. \A i \in 1 .. n : gs[i] = fs[n + 1 - i]
    BY <2>1
  <2>4. \A i, j \in 1 .. n : fs[i] = fs[j] => i = j
    BY <2>1
  <2>5. {"cmd_type_"} = {fs[i] : i \in 1 .. n}
    BY <2>1
  <2>6. Block(Words(fs), Words(gs), {"cmd_type_"} \X {0})
    BY <2>2, <2>3, <2>4, <2>5, WordsBlock
  <2> QED BY <2>1, <2>6, Zenon
<1>2. Block(Array("frame_ref_", 6), Reverse(Array("frame_ref_", 6)), {"frame_ref_"} \X (1 .. 6))
  <2>1. "frame_ref_" \in Fields /\ 6 \in Nat
    BY DEF Fields
  <2> QED BY <2>1, ArrayBlock
<1>3. Block(Array("tool_ref_", 6), Reverse(Array("tool_ref_", 6)), {"tool_ref_"} \X (1 .. 6))
  <2>1. "tool_ref_" \in Fields /\ 6 \in Nat
    BY DEF Fields
  <2> QED BY <2>1, ArrayBlock
<1>4. Block(Words(<<"accel_", "vel_", "tvel_", "rvel_">>),
      Words(<<"rvel_", "tvel_", "vel_", "accel_">>),
      {"accel_", "vel_", "tvel_", "rvel_"} \X {0})
  <2>1. PICK fs, gs, n : fs = <<"accel_", "vel_", "tvel_", "rvel_">>
                    /\ gs = <<"rvel_", "tvel_", "vel_", "accel_">> /\ n = 4
    OBVIOUS
  <2>2. n \in Nat /\ fs \in [1 .. n -> Fields] /\ gs \in [1 .. n -> Fields]
    BY <2>1 DEF Fields
  <2>3. \A i \in 1 .. n : gs[i] = fs[n + 1 - i]
    BY <2>1
  <2>4. \A i, j \in 1 .. n : fs[i] = fs[j] => i = j
    BY <2>1
  <2>5. {"accel_", "vel_", "tvel_", "rvel_"} = {fs[i] : i \in 1 .. n}
    BY <2>1
  <2>6. Block(Words(fs), Words(gs), {"accel_", "vel_", "tvel_", "rvel_"} \X {0})
    BY <2>2, <2>3, <2>4, <2>5, WordsBlock
  <2> QED BY <2>1, <2>6, Zenon
<1>5. /\ ({"cmd_type_"} \X {0}) \intersect ({"frame_ref_"} \X (1 .. 6)) = {}
      /\ ({"cmd_type_"} \X {0}) \intersect ({"tool_ref_"} \X (1 .. 6)) = {}
      /\ ({"cmd_type_"} \X {0}) \intersect ({"accel_", "vel_", "tvel_", "rvel_"} \X {0}) = {}
      /\ ({"frame_ref_"} \X (1 .. 6)) \intersect ({"tool_ref_"} \X (1 .. 6)) = {}
      /\ ({"frame_ref_"} \X (1 .. 6)) \intersect ({"accel_", "vel_", "tvel_", "rvel_"} \X {0}) = {}
      /\ ({"tool_ref_"} \X (1 .. 6)) \intersect ({"accel_", "vel_", "tvel_", "rvel_"} \X {0}) = {}
  OBVIOUS
<1> QED BY <1>1, <1>2, <1>3, <1>4, <1>5, Joined4 DEF VelocityConfigLoad, VelocityConfigUnload

\* The members of the states of the IO modules.
LEMMA IOStatesBlock ==
  Block(IOStatesLoad, IOStatesUnload,
        ({"user_in_", "valve_out_", "basic_in_", "basic_out_", "basic_in_2_", "basic_out_2_"} \X {0})
          \union {<<"basic_io_valid_", 0>>, <<"basic_io_2_valid_", 0>>})
<1>1. Block(Words(<<"user_in_", "valve_out_", "basic_in_", "basic_out_", "basic_in_2_", "basic_out_2_">>),
      Words(<<"basic_out_2_", "basic_in_2_", "basic_out_", "basic_in_", "valve_out_", "user_in_">>),
      {"user_in_", "valve_out_", "basic_in_", "basic_out_", "basic_in_2_", "basic_out_2_"} \X {0})
  <2>1. PICK fs, gs, n : fs = <<"user_in_", "valve_out_", "basic_in_", "basic_out_", "basic_in_2_", "basic_out_2_">>
                    /\ gs = <<"basic_out_2_", "basic_in_2_", "basic_out_", "basic_in_", "valve_out_", "user_in_">> /\ n = 6
    OBVIOUS
  <2>2. n \in Nat /\ fs \in [1 .. n -> Fields] /\ gs \in [1 .. n -> Fields]
    BY <2>1 DEF Fields
  <2>3. \A i \in 1 .. n : gs[i] = fs[n + 1 - i]
    BY <2>1
  <2>4. \A i, j \in 1 .. n : fs[i] = fs[j] => i = j
    BY <2>1
  <2>5. {"user_in_", "valve_out_", "basic_in_", "basic_out_", "basic_in_2_", "basic_out_2_"} = {fs[i] : i \in 1 .. n}
    BY <2>1
  <2>6. Block(Words(fs), Words(gs), {"user_in_", "valve_out_", "basic_in_", "basic_out_", "basic_in_2_", "basic_out_2_"} \X {0})
    BY <2>2, <2>3, <2>4, <2>5, WordsBlock
  <2> QED BY <2>1, <2>6, Zenon
<1>2. Block(<<Flag("basic_io_valid_"), Flag("basic_io_2_valid_")>>, <<Flag("basic_io_2_valid_"), Flag("basic_io_valid_")>>,
            {<<"basic_io_valid_", 0>>, <<"basic_io_2_valid_", 0>>})
  <2>1. "basic_io_valid_" \in Fields /\ "basic_io_2_valid_" \in Fields /\ "basic_io_valid_" # "basic_io_2_valid_"
    BY DEF Fields
  <2> QED BY <2>1, FlagsBlock
<1>3. /\ ({"user_in_", "valve_out_", "basic_in_", "basic_out_", "basic_in_2_", "basic_out_2_"} \X {0}) \intersect {<<"basic_io_valid_", 0>>, <<"basic_io_2_valid_", 0>>} = {}
  OBVIOUS
<1> QED BY <1>1, <1>2, <1>3, Joined DEF IOStatesLoad, IOStatesUnload

\* The members of a request to write one IO.
LEMMA WriteSingleIOBlock ==
  Block(WriteSingleIOLoad, WriteSingleIOUnload,
        ({"module_id_", "pin_"} \X {0})
          \union {<<"state_", 0>>})
<1>1. Block(Words(<<"module_id_", "pin_">>),
      Words(<<"pin_", "module_id_">>),
      {"module_id_", "pin_"} \X {0})
  <2>1. PICK fs, gs, n : fs = <<"module_id_", "pin_">>
                    /\ gs = <<"pin_", "module_id_">> /\ n = 2
    OBVIOUS
  <2>2. n \in Nat /\ fs \in [1 .. n -> Fields] /\ gs \in [1 .. n -> Fields]
    BY <2>1 DEF Fields
  <2>3. \A i \in 1 .. n : gs[i] = fs[n + 1 - i]
    BY <2>1
  <2>4. \A i, j \in 1 .. n : fs[i] = fs[j] => i = j
    BY <2>1
  <2>5. {"module_id_", "pin_"} = {fs[i] : i \in 1 .. n}
    BY <2>1
  <2>6. Block(Words(fs), Words(gs), {"module_id_", "pin_"} \X {0})
    BY <2>2, <2>3, <2>4, <2>5, WordsBlock
  <2> QED BY <2>1, <2>6, Zenon
<1>2. Block(<<Flag("state_")>>, <<Flag("state_")>>, {<<"state_", 0>>})
  <2>1. "state_" \in Fields /\ "pin_" \in Fields /\ "state_" # "pin_"
    BY DEF Fields
  <2> QED BY <2>1, FlagsBlock
<1>3. /\ ({"module_id_", "pin_"} \X {0}) \intersect {<<"state_", 0>>} = {}
  OBVIOUS
<1> QED BY <1>1, <1>2, <1>3, Joined DEF WriteSingleIOLoad, WriteSingleIOUnload

\* The member of a request to switch the power of the drives.
LEMMA SetDrivePowerBlock ==
  Block(SetDrivePowerLoad, SetDrivePowerUnload,
        {<<"drive_power_", 0>>})
<1>1. Block(<<Flag("drive_power_")>>, <<Flag("drive_power_")>>, {<<"drive_power_", 0>>})
  <2>1. "drive_power_" \in Fields /\ "pin_" \in Fields /\ "drive_power_" # "pin_"
    BY DEF Fields
  <2> QED BY <2>1, FlagsBlock
<1> QED BY <1>1, Zenon DEF SetDrivePowerLoad, SetDrivePowerUnload

\* The message of every type is one of a class that reads what it writes from the end.
LEMMA LayoutBlock ==
  \A t \in Types : Block(Layout[t].load, Layout[t].unload, Members(Layout[t]))
<1>1. ASSUME NEW c, NEW l, NEW u, NEW ns, NEW i, c = MessageOf(l, u, i), Block(l, u, ns)
      PROVE  Block(c.load, c.unload, Members(c))
  <2>1. c.load = l /\ c.unload = u
    BY <1>1 DEF MessageOf
  <2>2. l \in Seq(Cell)
    BY <1>1 DEF Block
  <2>3. DOMAIN l = 1 .. Len(l)
    BY <2>2
  <2>4. Members(c) = ns
    BY <1>1, <2>1, <2>3, Zenon DEF Members, Block
  <2> QED BY <1>1, <2>1, <2>4, Zenon
<1>2. Block(PingLoad, PingUnload, {})
  <2>1. PICK e : e = <<>>
    OBVIOUS
  <2>2. e \in Seq(Cell) /\ Len(e) = 0
    BY <2>1
  <2> QED BY <2>1, <2>2 DEF Block, PingLoad, PingUnload, Turned, Named
<1>3. Block(Layout["PING"].load, Layout["PING"].unload, Members(Layout["PING"]))
  <2>1. Layout["PING"] = PingMessage
    BY DEF Layout
  <2>2. Block(PingMessage.load, PingMessage.unload, Members(PingMessage))
    BY <1>1, <1>2, Zenon DEF PingMessage
  <2> QED BY <2>1, <2>2, Zenon
<1>4. Block(Layout["JOINT"].load, Layout["JOINT"].unload, Members(Layout["JOINT"]))
  <2>1. Layout["JOINT"] = JointMessage
    BY DEF Layout
  <2>2. Block(JointMessage.load, JointMessage.unload, Members(JointMessage))
    BY <1>1, JointBlock, Zenon DEF JointMessage
  <2> QED BY <2>1, <2>2, Zenon
<1>5. Block(Layout["JOINT_TRAJ_PT"].load, Layout["JOINT_TRAJ_PT"].unload, Members(Layout["JOINT_TRAJ_PT"]))
  <2>1. Layout["JOINT_TRAJ_PT"] = JointTrajPtMessage
    BY DEF Layout
  <2>2. Block(JointTrajPtMessage.load, JointTrajPtMessage.unload, Members(JointTrajPtMessage))
    BY <1>1, JointTrajPtBlock, Zenon DEF JointTrajPtMessage
  <2> QED BY <2>1, <2>2, Zenon
<1>6. Block(Layout["STATUS"].load, Layout["STATUS"].unload, Members(Layout["STATUS"]))
  <2>1. Layout["STATUS"] = RobotStatusMessage
    BY DEF Layout
  <2>2. Block(RobotStatusMessage.load, RobotStatusMessage.unload, Members(RobotStatusMessage))
    BY <1>1, RobotStatusBlock, Zenon DEF RobotStatusMessage
  <2> QED BY <2>1, <2>2, Zenon
<1>7. Block(Layout["JOINT_TRAJ_PT_FULL"].load, Layout["JOINT_TRAJ_PT_FULL"].unload, Members(Layout["JOINT_TRAJ_PT_FULL"]))
  <2>1. Layout["JOINT_TRAJ_PT_FULL"] = JointTrajPtFullMessage
    BY DEF Layout
  <2>2. Block(JointTrajPtFullMessage.load, JointTrajPtFullMessage.unload, Members(JointTrajPtFullMessage))
    BY <1>1, JointTrajPtFullBlock, Zenon DEF JointTrajPtFullMessage
  <2> QED BY <2>1, <2>2, Zenon
<1>8. Block(Layout["JOINT_FEEDBACK"].load, Layout["JOINT_FEEDBACK"].unload, Members(Layout["JOINT_FEEDBACK"]))
  <2>1. Layout["JOINT_FEEDBACK"] = JointFeedbackMessage
    BY DEF Layout
  <2>2. Block(JointFeedbackMessage.load, JointFeedbackMessage.unload, Members(JointFeedbackMessage))
    BY <1>1, JointFeedbackBlock, Zenon DEF JointFeedbackMessage
  <2> QED BY <2>1, <2>2, Zenon
<1>9. Block(Layout["SET_DRIVE_POWER"].load, Layout["SET_DRIVE_POWER"].unload, Members(Layout["SET_DRIVE_POWER"]))
  <2>1. Layout["SET_DRIVE_POWER"] = SetDrivePowerMessage
    BY DEF Layout
  <2>2. Block(SetDrivePowerMessage.load, SetDrivePowerMessage.unload, Members(SetDrivePowerMessage))
    BY <1>1, SetDrivePowerBlock, Zenon DEF SetDrivePowerMessage
  <2> QED BY <2>1, <2>2, Zenon
<1>10. Block(Layout["READ_IO"].load, Layout["READ_IO"].unload, Members(Layout["READ_IO"]))
  <2>1. Layout["READ_IO"] = ReadIOMessage
    BY DEF Layout
  <2>2. Block(ReadIOMessage.load, ReadIOMessage.unload, Members(ReadIOMessage))
    BY <1>1, IOStatesBlock, Zenon DEF ReadIOMessage
  <2> QED BY <2>1, <2>2, Zenon
<1>11. Block(Layout["WRITE_SINGLE_IO"].load, Layout["WRITE_SINGLE_IO"].unload, Members(Layout["WRITE_SINGLE_IO"]))
  <2>1. Layout["WRITE_SINGLE_IO"] = WriteSingleIOMessage
    BY DEF Layout
  <2>2. Block(WriteSingleIOMessage.load, WriteSingleIOMessage.unload, Members(WriteSingleIOMessage))
    BY <1>1, WriteSingleIOBlock, Zenon DEF WriteSingleIOMessage
  <2> QED BY <2>1, <2>2, Zenon
<1>12. Block(Layout["VELOCITY_CONFIG"].load, Layout["VELOCITY_CONFIG"].unload, Members(Layout["VELOCITY_CONFIG"]))
  <2>1. Layout["VELOCITY_CONFIG"] = VelocityConfigMessage
    BY DEF Layout
  <2>2. Block(VelocityConfigMessage.load, VelocityConfigMessage.unload, Members(VelocityConfigMessage))
    BY <1>1, VelocityConfigBlock, Zenon DEF VelocityConfigMessage
  <2> QED BY <2>1, <2>2, Zenon
<1>13. Block(Layout["VELOCITY_COMMAND"].load, Layout["VELOCITY_COMMAND"].unload, Members(Layout["VELOCITY_COMMAND"]))
  <2>1. Layout["VELOCITY_COMMAND"] = VelocityCommandMessage
    BY DEF Layout
  <2>2. Block(VelocityCommandMessage.load, VelocityCommandMessage.unload, Members(VelocityCommandMessage))
    BY <1>1, VelocityCommandBlock, Zenon DEF VelocityCommandMessage
  <2> QED BY <2>1, <2>2, Zenon
<1>14. Types = {"PING", "JOINT", "JOINT_TRAJ_PT", "STATUS", "JOINT_TRAJ_PT_FULL", "JOINT_FEEDBACK", "SET_DRIVE_POWER", "READ_IO", "WRITE_SINGLE_IO", "VELOCITY_CONFIG", "VELOCITY_COMMAND"}
  BY DEF Types, Layout
<1> QED BY <1>3, <1>4, <1>5, <1>6, <1>7, <1>8, <1>9, <1>10, <1>11, <1>12, <1>13, <1>14, Zenon

-----------------------------------------------------------------------------
(* Header and data: a message is read as it was sent.                          *)

\* A block has members of known sizes, which can be read from the last to the first.
LEMMA BlockFacts ==
  ASSUME NEW ms, NEW rs, NEW ns, Block(ms, rs, ns)
  PROVE  /\ ms \in Seq(Cell) /\ Len(ms) \in Nat /\ Sized(ms, Len(ms)) /\ Named(ms, Len(ms))
         /\ Turned(rs, ms, Len(ms)) /\ Turned(Reverse(ms), ms, Len(ms))
         /\ ns = {ms[i].name : i \in 1 .. Len(ms)}
<1>1. PICK n \in Nat : n = Len(ms)
  BY DEF Block
<1>2. ms \in Seq(Cell) /\ Named(ms, n) /\ Turned(rs, ms, n) /\ ns = {ms[i].name : i \in 1 .. n}
  BY <1>1, Zenon DEF Block
<1>3. Sized(ms, n)
  <2>1. \A i \in 1 .. n : ms[i] \in Cell
    BY <1>1, <1>2
  <2> QED BY <1>1, <2>1 DEF Sized, Cell
<1>4. Turned(Reverse(ms), ms, n)
  <2>1. PICK r : r = Reverse(ms)
    OBVIOUS
  <2>2. r = [i \in 1 .. n |-> ms[(n - i) + 1]]
    BY <1>1, <2>1, Zenon DEF Reverse
  <2>3. \A i \in 1 .. n : (n - i) + 1 = n + 1 - i /\ n + 1 - i \in 1 .. n
    OBVIOUS
  <2>4. \A i \in 1 .. n : r[i] = ms[n + 1 - i]
    BY <2>2, <2>3, Zenon
  <2>5. r \in Seq(Cell) /\ Len(r) = n
    <3>1. \A i \in 1 .. n : ms[(n - i) + 1] \in Cell
      BY <1>1, <1>2, <2>3
    <3>2. r \in [1 .. n -> Cell]
      BY <2>2, <3>1, Zenon
    <3> QED BY <3>2
  <2> QED BY <2>1, <2>4, <2>5 DEF Turned
<1> QED BY <1>1, <1>2, <1>3, <1>4

\* The header of a message: three words, twelve bytes.
LEMMA HeaderBlock ==
  /\ Block(header, Words(<<"reply_code_", "comm_type_", "message_type_">>),
           {"message_type_", "comm_type_", "reply_code_"} \X {0})
  /\ Len(header) = 3 /\ size(header, 3) = HEADER_SIZE
<1>1. PICK fs, gs, n : fs = <<"message_type_", "comm_type_", "reply_code_">>
                  /\ gs = <<"reply_code_", "comm_type_", "message_type_">> /\ n = 3
  OBVIOUS
<1>2. n \in Nat /\ fs \in [1 .. n -> Fields] /\ gs \in [1 .. n -> Fields]
  BY <1>1 DEF Fields
<1>3. \A i \in 1 .. n : gs[i] = fs[n + 1 - i]
  BY <1>1
<1>4. \A i, j \in 1 .. n : fs[i] = fs[j] => i = j
  BY <1>1
<1>5. {"message_type_", "comm_type_", "reply_code_"} = {fs[i] : i \in 1 .. n}
  BY <1>1
<1>6. Block(Words(fs), Words(gs), {"message_type_", "comm_type_", "reply_code_"} \X {0})
  BY <1>2, <1>3, <1>4, <1>5, WordsBlock
<1>7. PICK h : h = Words(fs)
  OBVIOUS
<1>8. DOMAIN fs = 1 .. 3
  BY <1>1, <1>2
<1>9. h = [i \in 1 .. 3 |-> [name |-> <<fs[i], 0>>, size |-> 4]]
  BY <1>7, <1>8, Zenon DEF Words, Word
<1>10. Len(h) = 3
  BY <1>9
<1>11. size(h, 3) = 12
  <2>1. \A i \in 1 .. 3 : h[i].size = 4
    <3> SUFFICES ASSUME NEW i \in 1 .. 3 PROVE h[i].size = 4
      OBVIOUS
    <3>1. h[i] = [name |-> <<fs[i], 0>>, size |-> 4]
      BY <1>9, Zenon
    <3> QED BY <3>1
  <2>2. Sized(h, 3)
    BY <1>10, <2>1 DEF Sized
  <2>3. size(h, 0) = 0 /\ \A i \in 1 .. 3 : size(h, i) = size(h, i - 1) + h[i].size
    BY <2>2, SizeStep
  <2>4. size(h, 1) = size(h, 0) + 4 /\ size(h, 2) = size(h, 1) + 4 /\ size(h, 3) = size(h, 2) + 4
    BY <2>1, <2>3
  <2> QED BY <2>3, <2>4
<1>12. header = h
  BY <1>1, <1>7, Zenon DEF header
<1> QED BY <1>1, <1>6, <1>7, <1>10, <1>11, <1>12, Zenon DEF HEADER_SIZE

\* A set of bytes can be found for anything that is written.
LEMMA BytesOf ==
  ASSUME NEW n, NEW ms, NEW a, NEW m, NEW ks, NEW b
  PROVE  \E S : WrittenIn(ms, n, a, S) /\ WrittenIn(ks, m, b, S)
<1>1. \A l, o, k : \E A : \A i \in 1 .. l, j \in 1 .. 4 : <<k[i].name, o[k[i].name], j>> \in A
  <2> SUFFICES ASSUME NEW l, NEW o, NEW k
               PROVE  \E A : \A i \in 1 .. l, j \in 1 .. 4 : <<k[i].name, o[k[i].name], j>> \in A
    OBVIOUS
  <2> DEFINE A == {<<k[p[1]].name, o[k[p[1]].name], p[2]>> : p \in (1 .. l) \X (1 .. 4)}
  <2>1. ASSUME NEW i \in 1 .. l, NEW j \in 1 .. 4 PROVE <<k[i].name, o[k[i].name], j>> \in A
    <3>1. PICK p \in (1 .. l) \X (1 .. 4) : p[1] = i /\ p[2] = j
      <4>1. <<i, j>> \in (1 .. l) \X (1 .. 4) /\ <<i, j>>[1] = i /\ <<i, j>>[2] = j
        OBVIOUS
      <4> QED BY <4>1
    <3> QED BY <3>1, Zenon
  <2> HIDE DEF A
  <2> QED BY <2>1
<1>2. PICK A : \A i \in 1 .. n, j \in 1 .. 4 : <<ms[i].name, a[ms[i].name], j>> \in A
  BY <1>1, Zenon
<1>3. PICK B : \A i \in 1 .. m, j \in 1 .. 4 : <<ks[i].name, b[ks[i].name], j>> \in B
  BY <1>1, Zenon
<1>4. WrittenIn(ms, n, a, A \union B) /\ WrittenIn(ks, m, b, A \union B)
  BY <1>2, <1>3, Zenon DEF WrittenIn
<1> QED BY <1>4

MessageFields == {"message_type_", "comm_type_", "reply_code_", "data_"}

\* The members of the header.
LEMMA HeaderMembers ==
  ASSUME NEW msg, DOMAIN msg = MessageFields
  PROVE  /\ DOMAIN members(msg) = {"message_type_", "comm_type_", "reply_code_"} \X {0}
         /\ \A f \in {"message_type_", "comm_type_", "reply_code_"} : members(msg)[<<f, 0>>] = msg[f]
<1>1. DOMAIN msg \ {"data_"} = {"message_type_", "comm_type_", "reply_code_"}
  BY DEF MessageFields
<1>2. PICK F : F = {"message_type_", "comm_type_", "reply_code_"}
  OBVIOUS
<1> PICK D : D = {<<f, 0>> : f \in F}
  OBVIOUS
<1>3. D = F \X {0}
  BY <1>2
<1>4. PICK o : o = members(msg)
  OBVIOUS
<1>5. o = [m \in D |-> msg[m[1]]]
  BY <1>1, <1>2, <1>4, Zenon DEF members
<1>6. \A f \in F : o[<<f, 0>>] = msg[f]
  <2> SUFFICES ASSUME NEW f \in F PROVE o[<<f, 0>>] = msg[f]
    OBVIOUS
  <2>1. PICK m \in D : m = <<f, 0>>
    BY <1>2
  <2>2. m[1] = f
    BY <2>1
  <2> QED BY <1>5, <2>1, <2>2, Zenon
<1>7. DOMAIN o = D
  BY <1>5, Zenon
<1> QED BY <1>2, <1>3, <1>4, <1>6, <1>7, Zenon

\* A message is put together again from its header and its data.
LEMMA MessageAgain ==
  ASSUME NEW msg, msg = [f \in MessageFields |-> msg[f]]
  PROVE  message(members(msg), msg.data_) = msg
<1>1. PICK o, F : o = members(msg) /\ F = {"message_type_", "comm_type_", "reply_code_"}
  OBVIOUS
<1>2. DOMAIN o = F \X {0} /\ \A f \in F : o[<<f, 0>>] = msg[f]
  <2>1. DOMAIN msg = MessageFields
    BY Zenon
  <2> QED BY <1>1, <2>1, HeaderMembers, Zenon
<1>3. {m[1] : m \in DOMAIN o} = F
  <2>1. {m[1] : m \in F \X {0}} = F
    <3>1. \A f \in F : <<f, 0>> \in F \X {0} /\ <<f, 0>>[1] = f
      OBVIOUS
    <3>2. \A m \in F \X {0} : m[1] \in F
      OBVIOUS
    <3>3. \A f \in F : f \in {m[1] : m \in F \X {0}}
      BY <3>1, Zenon
    <3> QED BY <3>2, <3>3
  <2> QED BY <1>2, <2>1, Zenon
<1>4. F \union {"data_"} = MessageFields
  BY <1>1 DEF MessageFields
<1>5. message(o, msg.data_) = [f \in MessageFields |-> IF f = "data_" THEN msg.data_ ELSE o[<<f, 0>>]]
  BY <1>3, <1>4, Zenon DEF message
<1>6. \A f \in MessageFields : (IF f = "data_" THEN msg.data_ ELSE o[<<f, 0>>]) = msg[f]
  <2> SUFFICES ASSUME NEW f \in MessageFields
               PROVE  (IF f = "data_" THEN msg.data_ ELSE o[<<f, 0>>]) = msg[f]
    OBVIOUS
  <2>1. f # "data_" => f \in F
    BY <1>4
  <2> QED BY <1>2, <2>1, Zenon
<1>7. [f \in MessageFields |-> IF f = "data_" THEN msg.data_ ELSE o[<<f, 0>>]]
        = [f \in MessageFields |-> msg[f]]
  BY <1>6, Zenon
<1> QED BY <1>1, <1>5, <1>7, Zenon

\* What is read from the bytes of a message is that message.
LEMMA MessageRead ==
  ASSUME NEW msg, msg = [f \in MessageFields |-> msg[f]], NEW S, msg.data_ \in Seq(S),
         WrittenIn(header, 3, members(msg), S), NEW b, b = toByteArray(msg)
  PROVE  /\ b \in Seq(S) /\ Len(b) = HEADER_SIZE + Len(msg.data_)
         /\ initFrom(NewMessage, b) = [ok |-> validateMessage(msg), msg |-> msg]
<1>1. PICK h : h = serialize(header, members(msg))
  OBVIOUS
<1>2. PICK o, i, z : o = members(msg) /\ i = members(NewMessage) /\ z = Reverse(header)
  OBVIOUS
<1>3. PICK ns : ns = {"message_type_", "comm_type_", "reply_code_"} \X {0}
  OBVIOUS
<1>4. /\ Sized(header, 3) /\ Named(header, 3) /\ Turned(z, header, 3) /\ size(header, 3) = 12
      /\ ns = {header[j].name : j \in 1 .. 3}
  <2>1. PICK r : Block(header, r, ns)
    BY <1>3, HeaderBlock, Zenon
  <2>2. Len(header) = 3 /\ size(header, 3) = 12
    BY HeaderBlock, Zenon DEF HEADER_SIZE
  <2>3. /\ Sized(header, Len(header)) /\ Named(header, Len(header))
        /\ Turned(Reverse(header), header, Len(header)) /\ ns = {header[j].name : j \in 1 .. Len(header)}
    BY <2>1, BlockFacts
  <2> QED BY <1>2, <2>2, <2>3, Zenon
<1>5. h \in Seq(S) /\ Len(h) = 12 /\ Lays(header, 3, o, h, 0)
  BY <1>1, <1>2, <1>4, Serialized
<1>6. PICK d : d = msg.data_
  OBVIOUS
<1>7. b = h \o d /\ d \in Seq(S) /\ Len(d) \in Nat
  <2>1. b = h \o d
    BY <1>1, <1>6, Zenon DEF toByteArray, loadArray
  <2> QED BY <1>6, <2>1
<1>8. Chained(b, h, d, S)
  BY <1>5, <1>7, Chains
<1>9. b \in Seq(S) /\ Len(b) = 12 + Len(d) /\ \A j \in 1 .. 12 : b[j] = h[j]
  <2>1. b \in Seq(S) /\ Len(b) = Len(h) + Len(d)
    BY <1>8 DEF Chained
  <2>2. ASSUME NEW j \in 1 .. 12 PROVE b[j] = h[j]
    <3>1. j \in 1 .. 12 + Len(d) /\ j <= 12
      BY <1>7
    <3> QED BY <1>5, <1>8, <3>1 DEF Chained
  <2> QED BY <1>5, <2>1, <2>2
<1>10. /\ getBufferSize(b) - HEADER_SIZE = Len(d) /\ ~(getBufferSize(b) < HEADER_SIZE)
  BY <1>7, <1>9 DEF getBufferSize, HEADER_SIZE
<1>11. PICK t : t = unload(b, Len(d))
  OBVIOUS
<1>12. Taken(t, b, 12, Len(d), S)
  BY <1>7, <1>9, <1>11, Unloads
<1>13. t.buffer = h
  <2>1. t.buffer \in Seq(S) /\ Len(t.buffer) = 12 /\ \A j \in 1 .. 12 : t.buffer[j] = b[j]
    BY <1>12, Zenon DEF Taken
  <2>2. PICK q : q = t.buffer
    OBVIOUS
  <2>3. q \in Seq(S) /\ Len(q) = 12 /\ \A j \in 1 .. 12 : q[j] = h[j]
    BY <1>9, <2>1, <2>2, Zenon
  <2>4. q = h
    BY <1>5, <2>3, SeqEqual
  <2> QED BY <2>2, <2>4
<1>14. t.bytes = d
  <2>1. t.bytes \in Seq(S) /\ Len(t.bytes) = Len(d) /\ \A j \in 1 .. Len(d) : t.bytes[j] = b[12 + j]
    BY <1>12, Zenon DEF Taken
  <2>2. PICK q : q = t.bytes
    OBVIOUS
  <2>3. \A j \in 1 .. Len(d) : b[12 + j] = d[j]
    <3> SUFFICES ASSUME NEW j \in 1 .. Len(d) PROVE b[12 + j] = d[j]
      OBVIOUS
    <3>1. PICK k : k = 12 + j
      OBVIOUS
    <3>2. k \in 1 .. 12 + Len(d) /\ ~(k <= 12) /\ k - 12 = j
      BY <1>7, <3>1
    <3>3. b[k] = d[k - 12]
      BY <1>5, <1>8, <3>2 DEF Chained
    <3> QED BY <3>1, <3>2, <3>3
  <2>4. q \in Seq(S) /\ Len(q) = Len(d) /\ \A j \in 1 .. Len(d) : q[j] = d[j]
    BY <2>1, <2>2, <2>3
  <2>5. q = d
    BY <1>7, <2>4, SeqEqual
  <2> QED BY <2>2, <2>5
<1>15. PICK u : u = unloadArray(b, <<>>, Len(d))
  OBVIOUS
<1>16. u.buffer = h /\ u.bytes = d
  <2>1. PICK e : e = loadArray(<<>>, d)
    OBVIOUS
  <2>2. e = d
    BY <1>7, <2>1, ConcatEmptySeq DEF loadArray
  <2>3. u = [t EXCEPT !.bytes = loadArray(<<>>, t.bytes)]
    BY <1>11, <1>15, Zenon DEF unloadArray
  <2>4. u = [t EXCEPT !.bytes = d]
    BY <1>14, <2>1, <2>2, <2>3, Zenon
  <2>5. t = [ok |-> t.ok, bytes |-> t.bytes, buffer |-> t.buffer]
    BY <1>11 DEF unload
  <2> QED BY <1>13, <2>4, <2>5
<1>17. /\ DOMAIN o = ns /\ DOMAIN i = ns
       /\ o = [m \in ns |-> o[m]]
  <2>1. DOMAIN msg = MessageFields
    BY Zenon
  <2>2. DOMAIN NewMessage = MessageFields
    BY DEF NewMessage, MessageFields
  <2>3. DOMAIN o = ns /\ DOMAIN i = ns
    BY <1>2, <1>3, <2>1, <2>2, HeaderMembers, Zenon
  <2>4. o = [m \in {<<f, 0>> : f \in DOMAIN msg \ {"data_"}} |-> msg[m[1]]]
    BY <1>2, Zenon DEF members
  <2>5. o = [m \in DOMAIN o |-> o[m]]
    BY <2>4
  <2> QED BY <2>3, <2>5, Zenon
<1>18. Merged(header, 3, o, i) = o
  <2>1. \A m \in ns : \E j \in 1 .. 3 : header[j].name = m
    BY <1>4
  <2>2. Merged(header, 3, o, i) = [m \in ns |-> IF \E j \in 1 .. 3 : header[j].name = m THEN o[m] ELSE i[m]]
    BY <1>17, Zenon DEF Merged
  <2>3. Merged(header, 3, o, i) = [m \in ns |-> o[m]]
    BY <2>1, <2>2, Zenon
  <2> QED BY <1>17, <2>3, Zenon
<1>19. PICK g : g = deserialize(z, i, h)
  OBVIOUS
<1>20. g = [ok |-> TRUE, buffer |-> SubSeq(h, 1, 0), object |-> Merged(header, 3, o, i)]
  <2>1. Len(h) = 0 + size(header, 3) /\ 0 \in Nat
    BY <1>4, <1>5
  <2>2. HasRead(deserialize(z, i, h), header, 3, o, i, h, 0)
    BY <1>4, <1>5, <2>1, ReadsBack
  <2> QED BY <1>19, <2>2, Zenon DEF HasRead
<1>21. g.object = o
  BY <1>18, <1>20
<1>22. message(g.object, u.bytes) = msg
  BY <1>2, <1>6, <1>16, <1>21, MessageAgain, Zenon
<1>23. NewMessage.data_ = <<>>
  BY DEF NewMessage
<1>24. initFrom(NewMessage, b) =
         [ok |-> validateMessage(message(g.object, u.bytes)), msg |-> message(g.object, u.bytes)]
  <2>1. initFrom(NewMessage, b) =
          IF getBufferSize(b) < HEADER_SIZE THEN [ok |-> FALSE, msg |-> NewMessage]
          ELSE LET uu == unloadArray(b, NewMessage.data_, getBufferSize(b) - HEADER_SIZE)
                   hh == deserialize(Reverse(header), members(NewMessage), uu.buffer)
                   read == message(hh.object, uu.bytes)
               IN [ok |-> validateMessage(read), msg |-> read]
    BY Zenon DEF initFrom
  <2> QED BY <1>2, <1>10, <1>15, <1>16, <1>19, <1>23, <2>1, Zenon
<1> QED BY <1>6, <1>9, <1>22, <1>24, Zenon DEF HEADER_SIZE

\* The first bytes of a buffer are bytes.
LEMMA Beginning ==
  ASSUME NEW S, NEW b \in Seq(S), NEW c \in Nat, c <= Len(b), NEW u, u = SubSeq(b, 1, c)
  PROVE  u \in Seq(S) /\ Len(u) = c
<1>1. 1 = 0 + 1 /\ c = 0 + c /\ 0 \in Nat /\ 0 + c <= Len(b)
  OBVIOUS
<1>2. u = SubSeq(b, 0 + 1, 0 + c)
  BY <1>1, Zenon
<1> QED BY <1>1, <1>2, Part

\* b, or all but its last byte, is read as the object o, or refused.
ReadsAll(ms, rs, o, i, b, S) ==
  /\ b \in Seq(S)
  /\ deserialize(rs, i, b) = [ok |-> TRUE, object |-> o, buffer |-> <<>>]
  /\ ms # <<>> => Front(b) \in Seq(S) /\ deserialize(rs, i, Front(b)).ok = FALSE

\* A class reads all of what it wrote, and refuses it without its last byte.
LEMMA DataRead ==
  ASSUME NEW ms, NEW rs, NEW ns, Block(ms, rs, ns), NEW o, o = [m \in ns |-> o[m]],
         NEW i, DOMAIN i = ns, NEW S, WrittenIn(ms, Len(ms), o, S), NEW b, b = serialize(ms, o)
  PROVE  ReadsAll(ms, rs, o, i, b, S)
<1>1. PICK n \in Nat : n = Len(ms)
  BY BlockFacts
<1>2. /\ ms \in Seq(Cell) /\ Sized(ms, n) /\ Named(ms, n) /\ Turned(rs, ms, n)
      /\ ns = {ms[j].name : j \in 1 .. n} /\ WrittenIn(ms, n, o, S)
  BY <1>1, BlockFacts, Zenon
<1>3. b \in Seq(S) /\ Len(b) = size(ms, n) /\ Lays(ms, n, o, b, 0)
  BY <1>2, Serialized
<1>4. size(ms, n) \in Nat /\ (n # 0 => size(ms, n) >= 1)
  <2>1. size(ms, 0) = 0 /\ size(ms, n) \in Nat /\ 0 \in 0 .. n /\ n \in 0 .. n /\ 0 <= n
    BY <1>2, SizeStep
  <2>2. size(ms, 0) + (n - 0) <= size(ms, n)
    BY <1>2, <2>1, SizeGrows
  <2> QED BY <2>1, <2>2
<1>5. deserialize(rs, i, b) = [ok |-> TRUE, object |-> o, buffer |-> <<>>]
  <2>1. HasRead(deserialize(rs, i, b), ms, n, o, i, b, 0)
    <3>1. Len(b) = 0 + size(ms, n) /\ 0 \in Nat
      BY <1>3, <1>4
    <3> QED BY <1>2, <1>3, <3>1, ReadsBack
  <2>2. SubSeq(b, 1, 0) = <<>>
    BY <1>3
  <2>3. Merged(ms, n, o, i) = o
    <3>1. \A m \in ns : \E j \in 1 .. n : ms[j].name = m
      BY <1>2
    <3>2. Merged(ms, n, o, i) = [m \in ns |-> IF \E j \in 1 .. n : ms[j].name = m THEN o[m] ELSE i[m]]
      BY Zenon DEF Merged
    <3>3. Merged(ms, n, o, i) = [m \in ns |-> o[m]]
      BY <3>1, <3>2, Zenon
    <3> QED BY <3>3, Zenon
  <2>4. deserialize(rs, i, b) = [ok |-> TRUE, buffer |-> <<>>, object |-> o]
    BY <2>1, <2>2, <2>3, Zenon DEF HasRead
  <2> QED BY <2>4
<1>6. ASSUME ms # <<>>
      PROVE  Front(b) \in Seq(S) /\ deserialize(rs, i, Front(b)).ok = FALSE
  <2>1. n # 0
    BY <1>1, <1>2, <1>6
  <2>2. PICK f : f = Front(b)
    OBVIOUS
  <2>3. PICK c \in Nat : Len(b) = c + 1
    <3>1. Len(b) >= 1 /\ Len(b) \in Nat
      BY <1>3, <1>4, <2>1
    <3>2. Len(b) - 1 \in Nat /\ Len(b) = (Len(b) - 1) + 1
      BY <3>1
    <3> QED BY <3>2
  <2>4. f = SubSeq(b, 1, c)
    <3>1. Len(b) - 1 = c
      BY <2>3
    <3> QED BY <2>2, <3>1, Zenon DEF Front
  <2>5. f \in Seq(S) /\ Len(f) = c
    <3>1. b \in Seq(S) /\ c \in Nat /\ c <= Len(b)
      BY <1>3, <2>3
    <3> QED BY <2>4, <3>1, Beginning
  <2>6. Len(f) < size(ms, n)
    BY <1>3, <2>3, <2>5
  <2>7. deserialize(rs, i, f).ok = FALSE
    BY <1>2, <2>5, <2>6, RefusesShort
  <2> QED BY <2>2, <2>5, <2>7, Zenon
<1> QED BY <1>3, <1>5, <1>6, Zenon DEF ReadsAll

\* What the controller may send, for all that the code knows.
AnyFrame(f) ==
  /\ f \in [type : Types, comm : {"INVALID", "TOPIC", "SERVICE_REQUEST", "SERVICE_REPLY"},
            code : {"INVALID", "SUCCESS", "FAILURE"}, valid : SUBSET ValidFields,
            short : BOOLEAN, parts : Nat]
  /\ f.short => Layout[f.type].load # <<>>

\* What the assumption on the constants says of Frames.
LEMMA FramesAreAny == \A f \in Frames : AnyFrame(f)
BY ManagerAssumption DEF AnyFrame

Filled(msg, type, comm, code, data) ==
  /\ msg = [x \in MessageFields |-> msg[x]]
  /\ msg.message_type_ = type /\ msg.comm_type_ = comm /\ msg.reply_code_ = code /\ msg.data_ = data

\* A message has the type and the data it was made of, and the reply code if it has one.
Made(msg, f, data) ==
  /\ msg = [x \in MessageFields |-> msg[x]]
  /\ msg.message_type_ = f.type /\ msg.comm_type_ = f.comm /\ msg.data_ = data
  /\ msg.reply_code_ = IF f.comm = "TOPIC" THEN "INVALID" ELSE f.code

\* toTopic, toRequest and toReply make the message they are asked for.
LEMMA MakesMessage ==
  ASSUME NEW f, AnyFrame(f), NEW S, NEW data \in Seq(S)
  PROVE  Made(MessageWith(f, data), f, data)
<1>1. ASSUME NEW t, NEW c, NEW r, NEW msg, msg = initMessage(NewMessage, t, c, r, data)
      PROVE  Filled(msg, t, c, r, data)
  <2>1. copyFrom(NewMessage.data_, data) = data
    <3>1. NewMessage.data_ = <<>>
      BY DEF NewMessage
    <3>2. Len(data) = 0 => data = <<>>
      OBVIOUS
    <3> QED BY <3>1, <3>2, Zenon DEF copyFrom, getBufferSize
  <2>2. msg = [NewMessage EXCEPT !.message_type_ = t, !.comm_type_ = c, !.reply_code_ = r, !.data_ = data]
    BY <1>1, <2>1, Zenon DEF initMessage
  <2>3. msg = [message_type_ |-> t, comm_type_ |-> c, reply_code_ |-> r, data_ |-> data]
    BY <2>2 DEF NewMessage
  <2> QED BY <2>3 DEF MessageFields, Filled
<1>2. PICK msg : msg = MessageWith(f, data)
  OBVIOUS
<1>3. f.code \in {"INVALID", "SUCCESS", "FAILURE"}
  BY DEF AnyFrame
<1>4. CASE f.comm = "TOPIC"
  <2>1. msg = initMessage(NewMessage, f.type, "TOPIC", "INVALID", data)
    BY <1>2, <1>4 DEF MessageWith, toTopic
  <2>3. Filled(msg, f.type, "TOPIC", "INVALID", data)
    BY <1>1, <2>1
  <2>4. Made(msg, f, data)
    BY <1>4, <2>3, Zenon DEF Made, Filled
  <2> QED BY <1>2, <2>4, Zenon
<1>5. CASE f.comm = "SERVICE_REQUEST" /\ f.code = "INVALID"
  <2>1. msg = initMessage(NewMessage, f.type, "SERVICE_REQUEST", "INVALID", data)
    BY <1>2, <1>5 DEF MessageWith, toRequest
  <2>2. f.comm # "TOPIC"
    BY <1>5
  <2>3. Filled(msg, f.type, "SERVICE_REQUEST", "INVALID", data)
    BY <1>1, <2>1
  <2>4. Made(msg, f, data)
    BY <1>5, <2>2, <2>3, Zenon DEF Made, Filled
  <2> QED BY <1>2, <2>4, Zenon
<1>6. CASE f.comm # "TOPIC" /\ ~(f.comm = "SERVICE_REQUEST" /\ f.code = "INVALID")
  <2>1. msg = initMessage(NewMessage, f.type, f.comm, f.code, data)
    BY <1>2, <1>6 DEF MessageWith
  <2>3. Filled(msg, f.type, f.comm, f.code, data)
    BY <1>1, <2>1
  <2>4. Made(msg, f, data)
    BY <1>6, <2>3, Zenon DEF Made, Filled
  <2> QED BY <1>2, <2>4, Zenon
<1> QED BY <1>4, <1>5, <1>6

\* Whether a message is valid does not depend on its data.
LEMMA Valid ==
  ASSUME NEW f, NEW m, NEW n, NEW d, NEW e, Made(m, f, d), Made(n, f, e)
  PROVE  validateMessage(m) <=> validateMessage(n)
<1>1. /\ m.message_type_ = n.message_type_ /\ m.comm_type_ = n.comm_type_
      /\ m.reply_code_ = n.reply_code_
  BY Zenon DEF Made
<1> QED BY <1>1, Zenon DEF validateMessage

\* An object has the members it was made for.
LEMMA ObjectHas ==
  ASSUME NEW f, NEW k, NEW ns, NEW o, o = Object(f, k, ns)
  PROVE  o = [m \in ns |-> o[m]]
BY DEF Object

\* A message was made of the bytes of the object o, and is read as this object.
SentIsRead(msg, f, k, class, o) ==
  /\ \E S : msg.data_ \in Seq(S) /\ WrittenIn(header, 3, members(msg), S)
  /\ Made(msg, f, Data(f, k, class))
  /\ ~f.short => initTyped(class, msg) = [ok |-> TRUE, object |-> o, buffer |-> <<>>]
  /\ f.short => initTyped(class, msg).ok = FALSE

\* The data of a message of the controller are read as the object that was written, and
\* refused if they lack a byte.
LEMMA SentData ==
  ASSUME NEW f, AnyFrame(f), NEW k, NEW class, class = Layout[f.type],
         NEW o, o = Object(f, k, Members(class)), NEW msg, msg = SentMessage(f, k)
  PROVE  SentIsRead(msg, f, k, class, o)
<1>1. f.type \in Types /\ f.short \in BOOLEAN /\ (f.short => class.load # <<>>)
  BY DEF AnyFrame
<1>2. PICK ms, rs, ns, i, b :
        /\ ms = class.load /\ rs = class.unload /\ ns = Members(class) /\ i = initObject(class)
        /\ b = serialize(ms, o)
  OBVIOUS
<1>3. Block(ms, rs, ns)
  BY <1>1, <1>2, LayoutBlock, Zenon
<1>4. o = [m \in ns |-> o[m]]
  BY <1>2, ObjectHas
<1>5. DOMAIN i = ns
  BY <1>2, Zenon DEF initObject
<1>6. PICK d : d = Data(f, k, class)
  OBVIOUS
<1>7. d = IF f.short THEN Front(b) ELSE b
  BY <1>2, <1>6, Zenon DEF Data, cut
<1>8. msg = MessageWith(f, d)
  BY <1>6, Zenon DEF SentMessage
<1>9. PICK S : WrittenIn(ms, Len(ms), o, S) /\ WrittenIn(header, 3, members(msg), S)
  BY BytesOf, Zenon
<1>10. /\ b \in Seq(S)
       /\ deserialize(rs, i, b) = [ok |-> TRUE, object |-> o, buffer |-> <<>>]
       /\ ms # <<>> => Front(b) \in Seq(S) /\ deserialize(rs, i, Front(b)).ok = FALSE
  <2>1. WrittenIn(ms, Len(ms), o, S) /\ b = serialize(ms, o)
    BY <1>2, <1>9
  <2>2. ReadsAll(ms, rs, o, i, b, S)
    BY <1>3, <1>4, <1>5, <2>1, DataRead
  <2> QED BY <2>2, Zenon DEF ReadsAll
<1>11. d \in Seq(S)
  BY <1>1, <1>2, <1>7, <1>10, Zenon
<1>12. Made(msg, f, d)
  BY <1>8, <1>11, MakesMessage
<1>13. msg.data_ = d
  BY <1>12, Zenon DEF Made
<1>14. initTyped(class, msg) = deserialize(rs, i, d)
  BY <1>2, <1>13, Zenon DEF initTyped
<1>15. ~f.short => initTyped(class, msg) = [ok |-> TRUE, object |-> o, buffer |-> <<>>]
  BY <1>7, <1>10, <1>14, Zenon
<1>16. f.short => initTyped(class, msg).ok = FALSE
  BY <1>1, <1>2, <1>7, <1>10, <1>14, Zenon
<1>17. msg.data_ \in Seq(S)
  BY <1>11, <1>13, Zenon
<1> QED BY <1>6, <1>9, <1>12, <1>15, <1>16, <1>17, Zenon DEF SentIsRead

\* A body is the message that was sent, but for a stump, which is none.
LEMMA BodyRead ==
  ASSUME NEW f, AnyFrame(f), NEW k, NEW msg, msg = SentMessage(f, k),
         NEW r, r = initFrom(NewMessage, Body(f, k))
  PROVE  /\ f.parts = 1 => r.ok = FALSE
         /\ f.parts # 1 => r = [ok |-> validateMessage(msg), msg |-> msg]
<1>1. PICK b : b = toByteArray(msg)
  OBVIOUS
<1>2. PICK class : class = Layout[f.type]
  OBVIOUS
<1>3. PICK o : o = Object(f, k, Members(class))
  OBVIOUS
<1>4. SentIsRead(msg, f, k, class, o)
  BY <1>2, <1>3, SentData
<1> PICK S : msg.data_ \in Seq(S) /\ WrittenIn(header, 3, members(msg), S)
  BY <1>4, Zenon DEF SentIsRead
<1>5. Made(msg, f, Data(f, k, class))
  BY <1>4, Zenon DEF SentIsRead
<1>6. msg = [x \in MessageFields |-> msg[x]]
  BY <1>5, Zenon DEF Made
<1>7. /\ b \in Seq(S) /\ Len(b) = HEADER_SIZE + Len(msg.data_)
      /\ initFrom(NewMessage, b) = [ok |-> validateMessage(msg), msg |-> msg]
  BY <1>1, <1>4, <1>6, MessageRead
<1>8. CASE f.parts = 1
  <2>1. PICK s : s = SubSeq(b, 1, 6)
    OBVIOUS
  <2>2. Len(msg.data_) \in Nat /\ Len(b) >= 6
    BY <1>4, <1>7 DEF HEADER_SIZE
  <2>3. Len(s) = 6
    <3>1. b \in Seq(S) /\ 6 \in Nat /\ 6 <= Len(b)
      BY <1>7, <2>2
    <3> QED BY <2>1, <3>1, Beginning
  <2>4. getBufferSize(s) < HEADER_SIZE
    BY <2>3 DEF getBufferSize, HEADER_SIZE
  <2>5. r = initFrom(NewMessage, s)
    BY <1>1, <1>8, <2>1, Zenon DEF Body, stump
  <2>6. r = [ok |-> FALSE, msg |-> NewMessage]
    BY <2>4, <2>5, Zenon DEF initFrom
  <2> QED BY <1>8, <2>6
<1>9. CASE f.parts # 1
  <2>1. r = initFrom(NewMessage, b)
    BY <1>1, <1>9, Zenon DEF Body, stump
  <2> QED BY <1>7, <1>9, <2>1, Zenon
<1> QED BY <1>8, <1>9

-----------------------------------------------------------------------------
(* The handlers, and what they do with a message.                              *)

\* The handler that is found is the first of its type.
LEMMA HandlerFound ==
  ASSUME NEW S, NEW hs \in Seq(S), NEW types, NEW type, NEW i, i = getHandlerIdx(hs, types, type)
  PROVE  /\ (\A j \in 1 .. Len(hs) : types[hs[j]] # type) => i = 0
         /\ (\E j \in 1 .. Len(hs) : types[hs[j]] = type) =>
              /\ i \in 1 .. Len(hs) /\ types[hs[i]] = type
              /\ \A j \in 1 .. Len(hs) : types[hs[j]] = type => i <= j
<1>1. PICK n \in Nat : n = Len(hs)
  OBVIOUS
<1>2. PICK I : I = {j \in 1 .. n : types[hs[j]] = type}
  OBVIOUS
<1>3. i = IF I # {} THEN Min(I) ELSE 0
  BY <1>1, <1>2, Zenon DEF getHandlerIdx, SelectInSeq
<1>4. CASE I = {}
  <2>1. ~ \E j \in 1 .. n : types[hs[j]] = type
    BY <1>2, <1>4
  <2> QED BY <1>1, <1>3, <1>4, <2>1, Zenon
<1>5. CASE I # {}
  <2>1. \E x \in I : \A y \in I : x <= y
    <3>1. PICK x \in I : \A y \in I : <<y, x>> \notin OpToRel(<, Nat)
      <4>1. I \subseteq Nat
        BY <1>2
      <4>2. IsWellFoundedOn(OpToRel(<, Nat), Nat)
        BY NatLessThanWellFounded
      <4> QED BY <1>5, <4>1, <4>2, WFMin
    <3>2. \A y \in I : x <= y
      <4>1. \A y \in I : ~(y < x)
        <5> SUFFICES ASSUME NEW y \in I, y < x PROVE FALSE
          OBVIOUS
        <5>1. x \in Nat /\ y \in Nat
          BY <1>2
        <5> QED BY <3>1, <5>1 DEF OpToRel
      <4> QED BY <1>2, <4>1
    <3> QED BY <3>2
  <2>2. Min(I) \in I /\ \A y \in I : Min(I) <= y
    BY <2>1, Zenon DEF Min
  <2>3. i \in I /\ \A y \in I : i <= y
    BY <1>3, <1>5, <2>2, Zenon
  <2> QED BY <1>1, <1>2, <2>3
<1> QED BY <1>4, <1>5

\* A handler takes the place of the one of its type, or comes last.
LEMMA Added ==
  ASSUME NEW S, NEW hs \in Seq(S), NEW types, NEW h
  PROVE  /\ (\A j \in 1 .. Len(hs) : types[hs[j]] # types[h]) => add(hs, types, h) = Append(hs, h)
         /\ Len(hs) >= 1 /\ types[hs[1]] = types[h] => add(hs, types, h) = [hs EXCEPT ![1] = h]
<1>1. PICK type, i : type = types[h] /\ i = getHandlerIdx(hs, types, type)
  OBVIOUS
<1>2. add(hs, types, h) = IF i = 0 THEN Append(hs, h) ELSE [hs EXCEPT ![i] = h]
  BY <1>1, Zenon DEF add
<1>3. /\ (\A j \in 1 .. Len(hs) : types[hs[j]] # type) => i = 0
      /\ (\E j \in 1 .. Len(hs) : types[hs[j]] = type) =>
           /\ i \in 1 .. Len(hs) /\ types[hs[i]] = type
           /\ \A j \in 1 .. Len(hs) : types[hs[j]] = type => i <= j
  BY <1>1, HandlerFound
<1>4. ASSUME Len(hs) >= 1, types[hs[1]] = type PROVE i = 1
  <2>1. 1 \in 1 .. Len(hs)
    BY <1>4
  <2>2. i \in 1 .. Len(hs) /\ i <= 1
    BY <1>3, <1>4, <2>1
  <2> QED BY <2>2
<1>5. ASSUME \A j \in 1 .. Len(hs) : types[hs[j]] # type
      PROVE  add(hs, types, h) = Append(hs, h)
  BY <1>2, <1>3, <1>5, Zenon
<1>6. ASSUME Len(hs) >= 1, types[hs[1]] = type
      PROVE  add(hs, types, h) = [hs EXCEPT ![1] = h]
  <2>1. i = 1 /\ i # 0
    BY <1>4, <1>6
  <2> QED BY <1>2, <2>1, Zenon
<1> QED BY <1>1, <1>5, <1>6, Zenon

\* A sequence with one element more at its end.
LEMMA AppendIs ==
  ASSUME NEW S, NEW s \in Seq(S), NEW t \in Seq(S), NEW e \in S, Len(t) = Len(s) + 1,
         t[Len(t)] = e, \A i \in 1 .. Len(s) : t[i] = s[i]
  PROVE  Append(s, e) = t
<1>1. PICK a : a = Append(s, e)
  OBVIOUS
<1>2. /\ a \in Seq(S) /\ Len(a) = Len(s) + 1
      /\ \A i \in 1 .. Len(s) : a[i] = s[i]
      /\ a[Len(s) + 1] = e
  BY <1>1, AppendProperties
<1>3. \A i \in 1 .. Len(a) : a[i] = t[i]
  BY <1>2
<1>4. a = t
  BY <1>2, <1>3, SeqEqual
<1> QED BY <1>1, <1>4

\* Two are registered before they have a type, one in the place of the other; all four
\* are registered in the end, each by its type.
LEMMA HandlersAre == handlers_ = <<"status", "ping", "joint", "feedback">>
<1>1. PICK none : none = [h \in DOMAIN MsgType |-> "INVALID"]
  OBVIOUS
<1>2. DOMAIN MsgType = {"ping", "joint", "status", "feedback"}
  BY DEF MsgType
<1>3. /\ MsgType["ping"] = "PING" /\ MsgType["joint"] = "JOINT"
      /\ MsgType["status"] = "STATUS" /\ MsgType["feedback"] = "JOINT_FEEDBACK"
  BY DEF MsgType
<1> DEFINE H == {"ping", "joint", "status", "feedback"}
<1>4. PICK t1 : t1 = [h \in H |-> IF h = "ping" THEN "PING" ELSE "INVALID"]
  OBVIOUS
<1>5. PICK t2 : t2 = [h \in H |-> IF h = "joint" THEN "JOINT" ELSE t1[h]]
  OBVIOUS
<1>6. PICK t3 : t3 = [h \in H |-> IF h = "status" THEN "STATUS" ELSE t2[h]]
  OBVIOUS
<1>7. PICK t4 : t4 = [h \in H |-> IF h = "feedback" THEN "JOINT_FEEDBACK" ELSE t3[h]]
  OBVIOUS
<1>8. /\ [none EXCEPT !["ping"] = MsgType["ping"]] = t1
      /\ [t1 EXCEPT !["joint"] = MsgType["joint"]] = t2
      /\ [t2 EXCEPT !["status"] = MsgType["status"]] = t3
      /\ [t3 EXCEPT !["feedback"] = MsgType["feedback"]] = t4
  BY <1>1, <1>2, <1>3, <1>4, <1>5, <1>6, <1>7
<1>9. PICK h0, h1, h2, h3, h4, h6 :
        /\ h0 = <<>> /\ h1 = <<"joint">> /\ h2 = <<"status">> /\ h3 = <<"status", "ping">>
        /\ h4 = <<"status", "ping", "joint">> /\ h6 = <<"status", "ping", "joint", "feedback">>
  OBVIOUS
<1>10. h0 \in Seq(H) /\ h1 \in Seq(H) /\ h2 \in Seq(H) /\ h3 \in Seq(H) /\ h4 \in Seq(H)
  BY <1>9
<1>11. add(h0, none, "joint") = h1
  <2>1. \A j \in 1 .. Len(h0) : none[h0[j]] # none["joint"]
    BY <1>9
  <2>2. Append(h0, "joint") = h1
    BY <1>9
  <2> QED BY <1>10, <2>1, <2>2, Added
<1>12. add(h1, none, "status") = h2
  <2>1. Len(h1) >= 1 /\ none[h1[1]] = none["status"]
    BY <1>1, <1>2, <1>9
  <2>2. [h1 EXCEPT ![1] = "status"] = h2
    BY <1>9
  <2> QED BY <1>10, <2>1, <2>2, Added
<1>13. add(h2, t1, "ping") = h3
  <2>1. \A j \in 1 .. Len(h2) : t1[h2[j]] # t1["ping"]
    BY <1>4, <1>9
  <2>2. Append(h2, "ping") = h3
    <3>1. /\ h3 \in Seq(H) /\ "ping" \in H /\ Len(h3) = Len(h2) + 1 /\ h3[Len(h3)] = "ping"
          /\ \A i \in 1 .. Len(h2) : h3[i] = h2[i]
      BY <1>9
    <3> QED BY <1>10, <3>1, AppendIs
  <2> QED BY <1>10, <2>1, <2>2, Added
<1>14. add(h3, t2, "joint") = h4
  <2>1. \A j \in 1 .. Len(h3) : t2[h3[j]] # t2["joint"]
    <3>1. \A j \in 1 .. Len(h3) : h3[j] \in {"status", "ping"}
      BY <1>9
    <3> QED BY <1>4, <1>5, <3>1
  <2>2. Append(h3, "joint") = h4
    <3>1. /\ h4 \in Seq(H) /\ "joint" \in H /\ Len(h4) = Len(h3) + 1 /\ h4[Len(h4)] = "joint"
          /\ \A i \in 1 .. Len(h3) : h4[i] = h3[i]
      BY <1>9
    <3> QED BY <1>10, <3>1, AppendIs
  <2> QED BY <1>10, <2>1, <2>2, Added
<1>15. add(h4, t3, "status") = h4
  <2>1. Len(h4) >= 1 /\ t3[h4[1]] = t3["status"]
    BY <1>9
  <2>2. [h4 EXCEPT ![1] = "status"] = h4
    BY <1>9
  <2> QED BY <1>10, <2>1, <2>2, Added
<1>16. add(h4, t4, "feedback") = h6
  <2>1. \A j \in 1 .. Len(h4) : t4[h4[j]] # t4["feedback"]
    <3>1. \A j \in 1 .. Len(h4) : h4[j] \in {"status", "ping", "joint"}
      BY <1>9
    <3>2. \A h \in {"status", "ping", "joint"} : h \in H /\ t4[h] \in {"STATUS", "PING", "JOINT"}
      BY <1>4, <1>5, <1>6, <1>7
    <3>3. t4["feedback"] = "JOINT_FEEDBACK"
      BY <1>7
    <3> QED BY <3>1, <3>2, <3>3
  <2>2. Append(h4, "feedback") = h6
    <3>1. /\ h6 \in Seq(H) /\ "feedback" \in H /\ Len(h6) = Len(h4) + 1 /\ h6[Len(h6)] = "feedback"
          /\ \A i \in 1 .. Len(h4) : h6[i] = h4[i]
      BY <1>9
    <3> QED BY <1>10, <3>1, AppendIs
  <2> QED BY <1>10, <2>1, <2>2, Added
<1>17. PICK steps : steps = Setup
  OBVIOUS
<1>18. /\ Len(steps) = 6
       /\ steps[1] = [h |-> "joint", typed |-> FALSE] /\ steps[2] = [h |-> "status", typed |-> FALSE]
       /\ steps[3] = [h |-> "ping", typed |-> TRUE] /\ steps[4] = [h |-> "joint", typed |-> TRUE]
       /\ steps[5] = [h |-> "status", typed |-> TRUE] /\ steps[6] = [h |-> "feedback", typed |-> TRUE]
  BY <1>17 DEF Setup
<1>19. PICK b0, b1, b2, b3, b4, b5, b6 :
         /\ b0 = [types |-> none, hs |-> h0] /\ b1 = [types |-> none, hs |-> h1]
         /\ b2 = [types |-> none, hs |-> h2] /\ b3 = [types |-> t1, hs |-> h3]
         /\ b4 = [types |-> t2, hs |-> h4]   /\ b5 = [types |-> t3, hs |-> h4]
         /\ b6 = [types |-> t4, hs |-> h6]
  OBVIOUS
<1>20. register(b0, steps[1]) = b1
  <2>1. b0.types = none /\ b0.hs = h0 /\ b1 = [types |-> none, hs |-> h1]
    BY <1>19
  <2>2. steps[1].h = "joint" /\ steps[1].typed = FALSE
    BY <1>18
  <2> QED BY <1>8, <1>11, <2>1, <2>2, Zenon DEF register
<1>21. register(b1, steps[2]) = b2
  <2>1. b1.types = none /\ b1.hs = h1 /\ b2 = [types |-> none, hs |-> h2]
    BY <1>19
  <2>2. steps[2].h = "status" /\ steps[2].typed = FALSE
    BY <1>18
  <2> QED BY <1>8, <1>12, <2>1, <2>2, Zenon DEF register
<1>22. register(b2, steps[3]) = b3
  <2>1. b2.types = none /\ b2.hs = h2 /\ b3 = [types |-> t1, hs |-> h3]
    BY <1>19
  <2>2. steps[3].h = "ping" /\ steps[3].typed = TRUE
    BY <1>18
  <2> QED BY <1>8, <1>13, <2>1, <2>2, Zenon DEF register
<1>23. register(b3, steps[4]) = b4
  <2>1. b3.types = t1 /\ b3.hs = h3 /\ b4 = [types |-> t2, hs |-> h4]
    BY <1>19
  <2>2. steps[4].h = "joint" /\ steps[4].typed = TRUE
    BY <1>18
  <2> QED BY <1>8, <1>14, <2>1, <2>2, Zenon DEF register
<1>24. register(b4, steps[5]) = b5
  <2>1. b4.types = t2 /\ b4.hs = h4 /\ b5 = [types |-> t3, hs |-> h4]
    BY <1>19
  <2>2. steps[5].h = "status" /\ steps[5].typed = TRUE
    BY <1>18
  <2> QED BY <1>8, <1>15, <2>1, <2>2, Zenon DEF register
<1>25. register(b5, steps[6]) = b6
  <2>1. b5.types = t3 /\ b5.hs = h4 /\ b6 = [types |-> t4, hs |-> h6]
    BY <1>19
  <2>2. steps[6].h = "feedback" /\ steps[6].typed = TRUE
    BY <1>18
  <2> QED BY <1>8, <1>16, <2>1, <2>2, Zenon DEF register
<1>26. PICK w : w = [i \in 0 .. 6 |-> IF i = 0 THEN b0 ELSE IF i = 1 THEN b1 ELSE IF i = 2 THEN b2
                       ELSE IF i = 3 THEN b3 ELSE IF i = 4 THEN b4 ELSE IF i = 5 THEN b5 ELSE b6]
  OBVIOUS
<1>27. w = [i \in 0 .. 6 |-> IF i = 0 THEN b0 ELSE register(w[i - 1], steps[i])]
  <2>1. /\ w[0] = b0 /\ w[1] = b1 /\ w[2] = b2 /\ w[3] = b3 /\ w[4] = b4 /\ w[5] = b5 /\ w[6] = b6
    BY <1>26
  <2>2. ASSUME NEW i \in 0 .. 6 PROVE w[i] = IF i = 0 THEN b0 ELSE register(w[i - 1], steps[i])
    <3>1. i = 0 \/ i = 1 \/ i = 2 \/ i = 3 \/ i = 4 \/ i = 5 \/ i = 6
      OBVIOUS
    <3>2. /\ 1 # 0 /\ 2 # 0 /\ 3 # 0 /\ 4 # 0 /\ 5 # 0 /\ 6 # 0
          /\ 1 - 1 = 0 /\ 2 - 1 = 1 /\ 3 - 1 = 2 /\ 4 - 1 = 3 /\ 5 - 1 = 4 /\ 6 - 1 = 5
      OBVIOUS
    <3> QED BY <1>20, <1>21, <1>22, <1>23, <1>24, <1>25, <2>1, <3>1, <3>2, ZenonT(30)
  <2>3. w = [i \in 0 .. 6 |-> w[i]]
    BY <1>26, Zenon
  <2> QED BY <2>2, <2>3, Zenon
<1>28. PICK v : v = CHOOSE f : f = [i \in 0 .. Len(steps) |->
                                     IF i = 0 THEN b0 ELSE register(f[i - 1], steps[i])]
  OBVIOUS
<1>29. handlers_ = v[Len(steps)].hs
  <2>1. b0 = [types |-> [h \in DOMAIN MsgType |-> "INVALID"], hs |-> <<>>]
    BY <1>1, <1>9, <1>19, Zenon
  <2> QED BY <1>17, <1>28, <2>1, Zenon DEF handlers_, addAgain
<1>30. v = [i \in 0 .. 6 |-> IF i = 0 THEN b0 ELSE register(v[i - 1], steps[i])]
  <2>1. \E f : f = [i \in 0 .. Len(steps) |-> IF i = 0 THEN b0 ELSE register(f[i - 1], steps[i])]
    BY <1>18, <1>27, Zenon
  <2> QED BY <1>18, <1>28, <2>1, Zenon
<1>31. v[6] = b6
  <2>1. /\ 0 \in 0 .. 6 /\ 1 \in 0 .. 6 /\ 2 \in 0 .. 6 /\ 3 \in 0 .. 6 /\ 4 \in 0 .. 6 /\ 5 \in 0 .. 6
        /\ 6 \in 0 .. 6 /\ 1 # 0 /\ 2 # 0 /\ 3 # 0 /\ 4 # 0 /\ 5 # 0 /\ 6 # 0
        /\ 1 - 1 = 0 /\ 2 - 1 = 1 /\ 3 - 1 = 2 /\ 4 - 1 = 3 /\ 5 - 1 = 4 /\ 6 - 1 = 5
    OBVIOUS
  <2>2. v[0] = b0
    BY <1>30, <2>1, Zenon
  <2>3. v[1] = register(v[0], steps[1]) /\ v[2] = register(v[1], steps[2])
    BY <1>30, <2>1, Zenon
  <2>4. v[3] = register(v[2], steps[3]) /\ v[4] = register(v[3], steps[4])
    BY <1>30, <2>1, Zenon
  <2>5. v[5] = register(v[4], steps[5]) /\ v[6] = register(v[5], steps[6])
    BY <1>30, <2>1, Zenon
  <2> QED BY <1>20, <1>21, <1>22, <1>23, <1>24, <1>25, <2>2, <2>3, <2>4, <2>5, Zenon
<1>32. b6.hs = h6
  BY <1>19
<1> QED BY <1>9, <1>18, <1>29, <1>31, <1>32, Zenon

\* Every handler is found by its type, and no other type has one.
LEMMA HandlersFound ==
  ASSUME NEW t
  PROVE  /\ hasHandler(t) <=> t \in {"PING", "JOINT", "STATUS", "JOINT_FEEDBACK"}
         /\ hasHandler(t) => MsgType[getHandler(t)] = t
<1>1. PICK hs : hs = <<"status", "ping", "joint", "feedback">>
  OBVIOUS
<1>2. hs \in Seq({"ping", "joint", "status", "feedback"}) /\ Len(hs) = 4
  BY <1>1
<1>3. /\ MsgType[hs[1]] = "STATUS" /\ MsgType[hs[2]] = "PING"
      /\ MsgType[hs[3]] = "JOINT" /\ MsgType[hs[4]] = "JOINT_FEEDBACK"
  BY <1>1 DEF MsgType
<1>4. PICK i : i = getHandlerIdx(hs, MsgType, t)
  OBVIOUS
<1>5. /\ (\A j \in 1 .. 4 : MsgType[hs[j]] # t) => i = 0
      /\ (\E j \in 1 .. 4 : MsgType[hs[j]] = t) => i \in 1 .. 4 /\ MsgType[hs[i]] = t
  BY <1>2, <1>4, HandlerFound, SMTT(30)
<1>6. (\E j \in 1 .. 4 : MsgType[hs[j]] = t) <=> t \in {"PING", "JOINT", "STATUS", "JOINT_FEEDBACK"}
  BY <1>3
<1>7. (hasHandler(t) <=> i # 0) /\ getHandler(t) = hs[i]
  BY <1>1, <1>4, HandlersAre, Zenon DEF hasHandler, getHandler
<1>8. i \in 1 .. 4 => i # 0
  OBVIOUS
<1> QED BY <1>5, <1>6, <1>7, <1>8, Zenon

-----------------------------------------------------------------------------
(* Sequences that are put together of others.                                  *)

\* w is what a loop has put together of the first sequences of s.
Gathered(s, n, w, S) ==
  /\ w \in [0 .. n -> Seq(S)] /\ w[0] = <<>>
  /\ \A i \in 1 .. n : w[i] = w[i - 1] \o s[i]

\* The sequences of a sequence can be put together one by one.
LEMMA Gathers ==
  ASSUME NEW S, NEW s \in Seq(Seq(S)), NEW n \in Nat, n = Len(s)
  PROVE  \E w : Gathered(s, n, w, S)
<1>1. PICK X : X = Seq(S)
  OBVIOUS
<1>2. PICK step : step = [p \in X \X (1 .. n) |-> p[1] \o s[p[2]]]
  OBVIOUS
<1>3. \A x \in X, i \in 1 .. n : step[<<x, i>>] = x \o s[i] /\ x \o s[i] \in X
  <2>1. \A i \in 1 .. n : s[i] \in Seq(S)
    OBVIOUS
  <2>2. \A x \in X, i \in 1 .. n : x \o s[i] \in X
    BY <1>1, <2>1, ConcatProperties
  <2>3. \A x \in X, i \in 1 .. n : step[<<x, i>>] = x \o s[i]
    BY <1>2
  <2> QED BY <2>2, <2>3
<1>4. step \in [X \X (1 .. n) -> X]
  <2>1. \A p \in X \X (1 .. n) : p[1] \o s[p[2]] \in X
    BY <1>3
  <2> QED BY <1>2, <2>1, Zenon
<1>5. <<>> \in X
  BY <1>1
<1>6. PICK w \in [0 .. n -> X] : Turns(w, n, <<>>, step)
  BY <1>4, <1>5, LoopTurns
<1>7. \A i \in 0 .. n : w[i] = IF i = 0 THEN <<>> ELSE step[<<w[i - 1], i>>]
  BY <1>6, Zenon DEF Turns
<1>8. \A i \in 1 .. n : w[i] = w[i - 1] \o s[i]
  <2> SUFFICES ASSUME NEW i \in 1 .. n PROVE w[i] = w[i - 1] \o s[i]
    OBVIOUS
  <2>1. i \in 0 .. n /\ i # 0 /\ i - 1 \in 0 .. n
    OBVIOUS
  <2>2. w[i - 1] \in X
    BY <2>1
  <2> QED BY <1>3, <1>7, <2>1, <2>2, Zenon
<1>9. w[0] = <<>>
  <2>1. 0 \in 0 .. n
    OBVIOUS
  <2> QED BY <1>7, <2>1, Zenon
<1>10. w \in [0 .. n -> Seq(S)]
  BY <1>1, Zenon
<1>11. Gathered(s, n, w, S)
  BY <1>8, <1>9, <1>10, Zenon DEF Gathered
<1> QED BY <1>11

\* FlattenSeq gives what was put together in the last turn.
LEMMA FlattenIs ==
  ASSUME NEW S, NEW s \in Seq(Seq(S)), NEW n \in Nat, n = Len(s), NEW w, Gathered(s, n, w, S)
  PROVE  FlattenSeq(s) = w[n]
<1> PICK R : R = Seq(S)
  OBVIOUS
<1>0. s \in Seq(R)
  OBVIOUS
<1>1. /\ w \in [0 .. n -> R] /\ w[0] = <<>> /\ \A i \in 1 .. n : w[i] = w[i - 1] \o s[i]
      /\ \A i \in 1 .. n : s[i] \in R
  <2>1. \A i \in 1 .. n : s[i] \in R
    BY <1>0
  <2> QED BY <2>1, Zenon DEF Gathered
<1>2. CASE n = 0
  <2>1. s = <<>>
    BY <1>0, <1>2, EmptySeq, Zenon
  <2>2. FlattenSeq(s) = s
    BY <1>2, Zenon DEF FlattenSeq
  <2> QED BY <1>1, <1>2, <2>1, <2>2
<1>3. CASE n # 0
  <2>1. PICK v : v = CHOOSE f : f = [i \in 1 .. n |-> IF i = 1 THEN s[i] ELSE f[i - 1] \o s[i]]
    OBVIOUS
  <2>2. FlattenSeq(s) = v[n]
    BY <1>3, <2>1, Zenon DEF FlattenSeq
  <2>3. PICK g : g = [i \in 1 .. n |-> w[i]]
    OBVIOUS
  <2>4. w[1] = s[1]
    <3>1. 1 \in 1 .. n /\ 1 - 1 = 0
      BY <1>3
    <3>2. w[1] = <<>> \o s[1]
      BY <1>1, <3>1
    <3> QED BY <1>1, <3>1, <3>2, ConcatEmptySeq
  <2>5. g = [i \in 1 .. n |-> IF i = 1 THEN s[i] ELSE g[i - 1] \o s[i]]
    <3>1. \A i \in 1 .. n : g[i] = IF i = 1 THEN s[i] ELSE g[i - 1] \o s[i]
      <4> SUFFICES ASSUME NEW i \in 1 .. n PROVE g[i] = IF i = 1 THEN s[i] ELSE g[i - 1] \o s[i]
        OBVIOUS
      <4>1. i # 1 => i - 1 \in 1 .. n
        OBVIOUS
      <4> QED BY <1>1, <2>3, <2>4, <4>1, Zenon
    <3>2. g = [i \in 1 .. n |-> g[i]]
      BY <2>3, Zenon
    <3> QED BY <3>1, <3>2, Zenon
  <2>6. v = [i \in 1 .. n |-> IF i = 1 THEN s[i] ELSE v[i - 1] \o s[i]]
    BY <2>1, <2>5, Zenon
  <2> DEFINE T == {i \in 0 .. n : i # 0 => v[i] = w[i]}
  <2>7. 0 \in T
    OBVIOUS
  <2>8. ASSUME NEW i \in 1 .. n, i - 1 \in T PROVE i \in T
    <3>1. i - 1 # 0 => v[i - 1] = w[i - 1]
      BY <2>8
    <3>2. i - 1 # 0 <=> i # 1
      OBVIOUS
    <3>3. v[i] = IF i = 1 THEN s[i] ELSE v[i - 1] \o s[i]
      BY <2>6, Zenon
    <3>4. ASSUME i = 1 PROVE v[i] = w[i]
      BY <2>4, <3>3, <3>4, Zenon
    <3>5. ASSUME i # 1 PROVE v[i] = w[i]
      BY <1>1, <3>1, <3>2, <3>3, <3>5, Zenon
    <3> QED BY <3>4, <3>5
  <2>9. n \in T
    <3>1. \A i \in 0 .. n : i \in T
      <4> HIDE DEF T
      <4> QED BY <2>7, <2>8, Loop
    <3> QED BY <3>1
  <2> QED BY <1>3, <2>2, <2>9
<1> QED BY <1>2, <1>3

\* One sequence more is put behind those before.
LEMMA FlattenAppends ==
  ASSUME NEW S, NEW s \in Seq(Seq(S)), NEW e \in Seq(S), NEW t \in Seq(Seq(S)),
         Len(t) = Len(s) + 1, t[Len(t)] = e, \A i \in 1 .. Len(s) : t[i] = s[i]
  PROVE  FlattenSeq(s) \in Seq(S) /\ FlattenSeq(t) = FlattenSeq(s) \o e
<1>1. PICK n \in Nat, m \in Nat : n = Len(s) /\ m = n + 1
  OBVIOUS
<1>2. PICK w : Gathered(t, m, w, S)
  BY <1>1, Gathers
<1>3. PICK v : v = [i \in 0 .. n |-> w[i]]
  OBVIOUS
<1>4. /\ w \in [0 .. m -> Seq(S)] /\ w[0] = <<>> /\ \A i \in 1 .. m : w[i] = w[i - 1] \o t[i]
  BY <1>2, Zenon DEF Gathered
<1>5. Gathered(s, n, v, S)
  <2>1. v \in [0 .. n -> Seq(S)] /\ v[0] = <<>>
    BY <1>1, <1>3, <1>4
  <2>2. \A i \in 1 .. n : v[i] = v[i - 1] \o s[i]
    <3> SUFFICES ASSUME NEW i \in 1 .. n PROVE v[i] = v[i - 1] \o s[i]
      OBVIOUS
    <3>1. i \in 1 .. m /\ i \in 0 .. n /\ i - 1 \in 0 .. n
      BY <1>1
    <3>2. t[i] = s[i]
      BY <1>1
    <3> QED BY <1>3, <1>4, <3>1, <3>2, Zenon
  <2> QED BY <2>1, <2>2, Zenon DEF Gathered
<1>6. FlattenSeq(s) = v[n]
  BY <1>1, <1>5, FlattenIs
<1>7. FlattenSeq(t) = w[m]
  BY <1>1, <1>2, FlattenIs
<1>8. m \in 1 .. m /\ m - 1 = n /\ n \in 0 .. n /\ t[m] = e
  BY <1>1
<1>9. w[m] = w[n] \o e /\ v[n] = w[n] /\ v[n] \in Seq(S)
  BY <1>3, <1>4, <1>5, <1>8, Zenon DEF Gathered
<1> QED BY <1>6, <1>7, <1>9, Zenon

-----------------------------------------------------------------------------
(* What a message of the controller does.                                      *)

\* No type that has a class is the invalid one.
LEMMA KnownTypes == \A t \in Types : t # "INVALID"
BY DEF Types, Layout

Replies(msg, t, c) == validateMessage(msg) /\ msg.message_type_ = t /\ msg.reply_code_ = c

\* A reply has the type, the data and the code it was made of.
LEMMA RepliesAreValid ==
  ASSUME NEW t, t # "INVALID", NEW c \in {"SUCCESS", "FAILURE"}, NEW data,
         NEW msg, msg = toReply(t, data, c)
  PROVE  Replies(msg, t, c)
<1>1. msg = [NewMessage EXCEPT !.message_type_ = t, !.comm_type_ = "SERVICE_REPLY",
                               !.reply_code_ = c, !.data_ = copyFrom(NewMessage.data_, data)]
  BY Zenon DEF toReply, initMessage
<1>2. PICK d : d = copyFrom(NewMessage.data_, data)
  OBVIOUS
<1>3. msg = [message_type_ |-> t, comm_type_ |-> "SERVICE_REPLY", reply_code_ |-> c, data_ |-> d]
  BY <1>1, <1>2 DEF NewMessage
<1>4. msg.message_type_ = t /\ msg.comm_type_ = "SERVICE_REPLY" /\ msg.reply_code_ = c
  BY <1>3
<1>5. validateMessage(msg)
  BY <1>4 DEF validateMessage
<1> QED BY <1>4, <1>5, Zenon DEF Replies

\* A message publishes one message at most.
LEMMA PublishesOne ==
  ASSUME NEW t, NEW o
  PROVE  published_(t, o) = <<>> \/ \E x : published_(t, o) = <<x>>
BY Zenon DEF published_

\* One reply to message k, of its type, that says whether somebody can handle it.
Reply(r, f, k) ==
  /\ r.to = k /\ validateMessage(r.msg) /\ r.msg.message_type_ = f.type
  /\ r.msg.reply_code_ = "SUCCESS" <=> hasHandler(f.type)

\* A reply is valid, of the type of its request, and a success if there is a handler.
LEMMA RepliesOnce ==
  ASSUME NEW f, AnyFrame(f), NEW k, NEW data, NEW c \in {"SUCCESS", "FAILURE"},
         c = "SUCCESS" <=> hasHandler(f.type)
  PROVE  \E r : reply(k, f.type, data, c) = <<r>> /\ Reply(r, f, k)
<1>1. PICK msg : msg = toReply(f.type, data, c)
  OBVIOUS
<1>2. f.type # "INVALID"
  BY KnownTypes DEF AnyFrame
<1>3. validateMessage(msg) /\ msg.message_type_ = f.type /\ msg.reply_code_ = c
  <2>1. Replies(msg, f.type, c)
    BY <1>1, <1>2, RepliesAreValid
  <2> QED BY <2>1, Zenon DEF Replies
<1>4. PICK r : r = [to |-> k, msg |-> msg]
  OBVIOUS
<1>5. r.to = k /\ r.msg = msg
  BY <1>4
<1>6. reply(k, f.type, data, c) = <<r>>
  BY <1>1, <1>4, Zenon DEF reply
<1>7. Reply(r, f, k)
  BY <1>3, <1>5, Zenon DEF Reply
<1> QED BY <1>6, <1>7

\* What a message of the controller does: it is published if it can be read ...
Publishes(ps, f, k) ==
  ps = IF f.short \/ f.parts = 1 \/ ~validateMessage(MessageWith(f, <<>>)) THEN <<>>
       ELSE published_(f.type, Object(f, k, Members(Layout[f.type])))

\* ... and answered if it asks.  Requests for joint states may be answered or not.
Demands(f) == f.comm = "SERVICE_REQUEST" /\ ~ofJoints(f)
Owed(f)    == asks(f) /\ ~ofJoints(f)

Answered(rs, f, k) ==
  /\ rs = <<>> \/ \E r : rs = <<r>> /\ Reply(r, f, k)
  /\ Demands(f) => (rs # <<>> <=> Owed(f))

\* callback publishes and answers what a message calls for, whatever it is.
LEMMA CallbackDoes ==
  ASSUME NEW f, AnyFrame(f), NEW k
  PROVE  Publishes(callback(f, k).published, f, k) /\ Answered(callback(f, k).replies, f, k)
<1>1. PICK done : done = callback(f, k)
  OBVIOUS
<1>2. PICK r : r = initFrom(NewMessage, Body(f, k))
  OBVIOUS
<1>3. done = handle(k, r)
  BY <1>1, <1>2, Zenon DEF callback
<1>4. PICK msg : msg = SentMessage(f, k)
  OBVIOUS
<1>5. PICK class : class = Layout[f.type]
  OBVIOUS
<1>6. PICK o : o = Object(f, k, Members(class))
  OBVIOUS
<1>7. /\ f.parts = 1 => r.ok = FALSE
      /\ f.parts # 1 => r = [ok |-> validateMessage(msg), msg |-> msg]
  BY <1>2, <1>4, BodyRead
<1>9. PICK it : it = initTyped(class, msg)
  OBVIOUS
<1>10. /\ Made(msg, f, Data(f, k, class))
       /\ ~f.short => it = [ok |-> TRUE, object |-> o, buffer |-> <<>>]
       /\ f.short => it.ok = FALSE
  <2>1. SentIsRead(msg, f, k, class, o)
    BY <1>4, <1>5, <1>6, SentData
  <2> QED BY <1>9, <2>1, Zenon DEF SentIsRead
<1>11. msg.message_type_ = f.type /\ msg.comm_type_ = f.comm
  BY <1>10, Zenon DEF Made
<1>12. validateMessage(msg) <=> validateMessage(MessageWith(f, <<>>))
  <2>1. <<>> \in Seq({})
    OBVIOUS
  <2>2. Made(MessageWith(f, <<>>), f, <<>>)
    BY <2>1, MakesMessage
  <2> QED BY <1>10, <2>2, Valid
<1>13. f.comm = "SERVICE_REQUEST" => (validateMessage(msg) <=> f.code = "INVALID")
  <2>1. f.type # "INVALID"
    BY KnownTypes DEF AnyFrame
  <2>2. f.comm = "SERVICE_REQUEST" => msg.reply_code_ = f.code
    BY <1>10 DEF Made
  <2> QED BY <1>11, <2>1, <2>2 DEF validateMessage
<1>14. f.type \in Types /\ f.short \in BOOLEAN
  BY DEF AnyFrame
<1>15. hasHandler(f.type) <=> f.type \in {"PING", "JOINT", "STATUS", "JOINT_FEEDBACK"}
  BY HandlersFound
<1>16. nothing.published = <<>> /\ nothing.replies = <<>>
  BY DEF nothing
\* What cannot be taken for a message does nothing.
<1>17. CASE f.parts = 1 \/ ~validateMessage(msg)
  <2>1. r.ok = FALSE
    BY <1>7, <1>17
  <2>2. done = nothing
    BY <1>3, <2>1, Zenon DEF handle
  <2>3. ~Owed(f)
    BY <1>13, <1>17, Zenon DEF asks, Owed
  <2>4. Publishes(done.published, f, k)
    BY <1>12, <1>16, <1>17, <2>2, Zenon DEF Publishes
  <2>5. Answered(done.replies, f, k)
    BY <1>16, <2>2, <2>3, Zenon DEF Answered
  <2> QED BY <1>1, <2>4, <2>5, Zenon
<1>18. CASE f.parts # 1 /\ validateMessage(msg)
  <2>1. r.ok = TRUE /\ r.msg = msg
    BY <1>7, <1>18
  <2>2. Demands(f) => (Owed(f) <=> (hasHandler(f.type) => ~f.short))
    BY <1>13, <1>18, Zenon DEF asks, Owed, Demands
\* Nobody can handle it.
  <2>3. CASE ~hasHandler(f.type)
    <3>1. published_(f.type, o) = <<>>
      BY <1>15, <2>3, Zenon DEF published_
    <3>2. PICK e : e = reply(k, f.type, <<>>, "FAILURE")
      OBVIOUS
    <3>3. done = IF f.comm = "SERVICE_REQUEST" THEN [nothing EXCEPT !.replies = e] ELSE nothing
      BY <1>3, <1>11, <2>1, <2>3, <3>2, Zenon DEF handle, refuses
    <3>4. PICK y : e = <<y>> /\ Reply(y, f, k)
      <4>1. "FAILURE" \in {"SUCCESS", "FAILURE"} /\ "FAILURE" # "SUCCESS"
        OBVIOUS
      <4> QED BY <2>3, <3>2, <4>1, RepliesOnce
    <3>5. done.published = <<>> /\ done.replies = IF f.comm = "SERVICE_REQUEST" THEN <<y>> ELSE <<>>
      BY <3>3, <3>4 DEF nothing
    <3>6. Publishes(done.published, f, k)
      BY <1>5, <1>6, <3>1, <3>5, Zenon DEF Publishes
    <3>7. Answered(done.replies, f, k)
      <4>1. <<y>> # <<>>
        OBVIOUS
      <4> QED BY <2>2, <2>3, <3>4, <3>5, <4>1, Zenon DEF Answered, Demands
    <3> QED BY <1>1, <3>6, <3>7, Zenon
  <2>4. CASE hasHandler(f.type)
    <3>1. PICK h : h = getHandler(f.type)
      OBVIOUS
    <3>2. validateMsg(h, msg)
      <4>1. MsgType[h] = f.type
        BY <2>4, <3>1, HandlersFound
      <4> QED BY <1>11, <1>18, <4>1, Zenon DEF validateMsg
    <3>3. done = dispatch(k, h, msg, it)
      BY <1>3, <1>5, <1>9, <1>11, <2>1, <2>4, <3>1, Zenon DEF handle, refuses
\* It lacks a byte.
    <3>4. CASE f.short
      <4>1. done = nothing
        BY <1>10, <3>3, <3>4, Zenon DEF dispatch
      <4>2. Publishes(done.published, f, k)
        BY <1>16, <3>4, <4>1, Zenon DEF Publishes
      <4>3. Answered(done.replies, f, k)
        BY <1>16, <2>2, <2>4, <3>4, <4>1, Zenon DEF Answered
      <4> QED BY <1>1, <4>2, <4>3, Zenon
    <3>5. CASE ~f.short
      <4>1. it.ok = TRUE /\ it.object = o
        BY <1>10, <3>5
      <4>2. PICK e : e = reply(k, f.type, msg.data_, "SUCCESS")
        OBVIOUS
      <4>3. PICK y : e = <<y>> /\ Reply(y, f, k)
        <5>1. "SUCCESS" \in {"SUCCESS", "FAILURE"}
          OBVIOUS
        <5> QED BY <2>4, <4>2, <5>1, RepliesOnce
      <4>4. done = [published |-> published_(f.type, o),
                    replies |-> IF answers(f.type, f.comm) THEN e ELSE <<>>]
        BY <1>11, <3>2, <3>3, <4>1, <4>2, Zenon DEF dispatch
      <4>5. done.published = published_(f.type, o)
            /\ done.replies = IF answers(f.type, f.comm) THEN <<y>> ELSE <<>>
        BY <4>3, <4>4
      <4>6. Publishes(done.published, f, k)
        BY <1>5, <1>6, <1>12, <1>18, <3>5, <4>5, Zenon DEF Publishes
      <4>7. Demands(f) => (answers(f.type, f.comm) <=> Owed(f))
        BY <1>15, <2>2, <2>4, <3>5 DEF answers, Demands, ofJoints
      <4>8. Answered(done.replies, f, k)
        <5>1. <<y>> # <<>>
          OBVIOUS
        <5> QED BY <4>3, <4>5, <4>7, <5>1, Zenon DEF Answered
      <4> QED BY <1>1, <4>6, <4>8, Zenon
    <3> QED BY <1>14, <3>4, <3>5
  <2> QED BY <2>3, <2>4
<1> QED BY <1>17, <1>18

AtMostOne(q, n) ==
  /\ n \in Nat /\ q = [i \in 1 .. n |-> q[i]]
  /\ \A i \in 1 .. n : q[i] = <<>> \/ \E x : q[i] = <<x>>

Grows(p, q, m) == FlattenSeq(q) = FlattenSeq(p) \o q[m] /\ \E S : FlattenSeq(p) \in Seq(S)

\* One element more adds what it stands for to the end.
LEMMA FlattenGrows ==
  ASSUME NEW n \in Nat, NEW m, m = n + 1, NEW q, AtMostOne(q, m), NEW p, p = [i \in 1 .. n |-> q[i]]
  PROVE  Grows(p, q, m)
<1>1. PICK S : S = {q[i][1] : i \in 1 .. m}
  OBVIOUS
<1>2. \A i \in 1 .. m : q[i] \in Seq(S)
  <2> SUFFICES ASSUME NEW i \in 1 .. m PROVE q[i] \in Seq(S)
    OBVIOUS
  <2>1. CASE q[i] = <<>>
    BY <2>1
  <2>2. CASE \E x : q[i] = <<x>>
    <3>1. PICK x : q[i] = <<x>>
      BY <2>2
    <3>2. q[i][1] = x
      BY <3>1
    <3>3. x \in S
      BY <1>1, <3>2, Zenon
    <3> QED BY <3>1, <3>3
  <2> QED BY <2>1, <2>2, Zenon DEF AtMostOne
<1>3. PICK R : R = Seq(S)
  OBVIOUS
<1>4. q \in [1 .. m -> R] /\ p \in [1 .. n -> R]
  <2>1. q = [i \in 1 .. m |-> q[i]]
    BY Zenon DEF AtMostOne
  <2>2. \A i \in 1 .. n : i \in 1 .. m
    OBVIOUS
  <2> QED BY <1>2, <1>3, <2>1, <2>2, Zenon
<1>5. /\ q \in Seq(R) /\ Len(q) = m /\ p \in Seq(R) /\ Len(p) = n
      /\ \A i \in 1 .. Len(p) : q[i] = p[i]
  BY <1>4
<1>6. q[m] \in Seq(S)
  BY <1>2
<1>7. q \in Seq(Seq(S)) /\ p \in Seq(Seq(S)) /\ Len(q) = Len(p) + 1
  BY <1>3, <1>5, Zenon
<1>8. FlattenSeq(p) \in Seq(S) /\ FlattenSeq(q) = FlattenSeq(p) \o q[m]
  BY <1>5, <1>6, <1>7, FlattenAppends
<1> QED BY <1>8, Zenon DEF Grows

-----------------------------------------------------------------------------
(* What the handlers have done is what the messages that arrived call for. *)

\* The messages that have been handled.
Handled == IF pc = "handle" THEN Len(received) - 1 ELSE Len(received)

PublishedBy(n) == [i \in 1 .. n |-> callback(sent[received[i]], received[i]).published]
AskedBy(n)     == [i \in 1 .. n |-> IF Owed(sent[received[i]]) THEN <<received[i]>> ELSE <<>>]
AnsweredBy(n)  == [i \in 1 .. n |-> IF Demands(sent[replies[i].to])
                                    THEN <<replies[i].to>> ELSE <<>>]

\* The message in the buffer is the last that arrived.
Numbered ==
  /\ Len(sent) <= MaxSent /\ \A i \in 1 .. Len(received) : received[i] \in 1 .. Len(sent)
  /\ pc = "handle" => received # <<>> /\ buffer_[1][1] = received[Len(received)]

Replied ==
  /\ \E S : replies \in Seq(S)
  /\ \A i \in 1 .. Len(replies) : /\ replies[i].to \in 1 .. Len(sent)
                                  /\ Reply(replies[i], sent[replies[i].to], replies[i].to)

\* A reply answers a message that was handled, and no other does.
Ordered ==
  /\ \A i \in 1 .. Len(replies) : \E j \in 1 .. Handled : replies[i].to = received[j]
  /\ \A i, j \in 1 .. Len(replies) : i < j => replies[i].to < replies[j].to

Served ==
  /\ Numbered /\ Replied /\ Ordered
  /\ published = FlattenSeq(PublishedBy(Handled))
  /\ FlattenSeq(AnsweredBy(Len(replies))) = FlattenSeq(AskedBy(Handled))

\* It takes a handler to change that.
LEMMA ServedStays ==
  ASSUME Inv, Arrived, Served, Numbered', Handled' = Handled,
         \A i \in 1 .. Handled : received'[i] = received[i],
         \A k \in 1 .. Len(sent) : k \in 1 .. Len(sent') /\ sent'[k] = sent[k],
         published' = published, replies' = replies
  PROVE  Served'
<1>1. received \in Seq(Nat) /\ Len(received) \in Nat
  BY DEF Arrived
<1>2. Handled \in Nat /\ \A i \in 1 .. Handled : i \in 1 .. Len(received)
  BY <1>1 DEF Handled, Served, Numbered
<1>3. \A i \in 1 .. Handled : sent'[received'[i]] = sent[received[i]] /\ received'[i] = received[i]
  BY <1>2 DEF Served, Numbered
<1>4. PublishedBy(Handled)' = PublishedBy(Handled)
  <2>1. [i \in 1 .. Handled |-> callback(sent'[received'[i]], received'[i]).published]
          = [i \in 1 .. Handled |-> callback(sent[received[i]], received[i]).published]
    BY <1>3, Zenon
  <2> QED BY <2>1, Zenon DEF PublishedBy
<1>5. AskedBy(Handled)' = AskedBy(Handled)
  <2>1. [i \in 1 .. Handled |-> IF Owed(sent'[received'[i]]) THEN <<received'[i]>> ELSE <<>>]
          = [i \in 1 .. Handled |-> IF Owed(sent[received[i]]) THEN <<received[i]>> ELSE <<>>]
    BY <1>3, Zenon
  <2> QED BY <2>1, Zenon DEF AskedBy
<1>6. \A i \in 1 .. Len(replies) : /\ replies[i].to \in 1 .. Len(sent')
                                   /\ sent'[replies[i].to] = sent[replies[i].to]
  BY DEF Served, Replied
<1>7. AnsweredBy(Len(replies))' = AnsweredBy(Len(replies))
  <2>1. [i \in 1 .. Len(replies) |-> IF Demands(sent'[replies[i].to])
                                     THEN <<replies[i].to>> ELSE <<>>]
          = [i \in 1 .. Len(replies) |-> IF Demands(sent[replies[i].to])
                                         THEN <<replies[i].to>> ELSE <<>>]
    BY <1>6, Zenon
  <2> QED BY <2>1, Zenon DEF AnsweredBy
<1>8. Replied'
  <2>1. \A i \in 1 .. Len(replies) : Reply(replies[i], sent'[replies[i].to], replies[i].to)
    BY <1>6, Zenon DEF Served, Replied
  <2> QED BY <1>6, <2>1, Zenon DEF Served, Replied
<1>9. Ordered'
  <2>1. ASSUME NEW i \in 1 .. Len(replies)
        PROVE  \E j \in 1 .. Handled : replies[i].to = received'[j]
    <3>1. PICK j \in 1 .. Handled : replies[i].to = received[j]
      BY Zenon DEF Served, Ordered
    <3>2. received'[j] = received[j]
      OBVIOUS
    <3> QED BY <3>1, <3>2, Zenon
  <2>2. \A i, j \in 1 .. Len(replies) : i < j => replies[i].to < replies[j].to
    BY Zenon DEF Served, Ordered
  <2> QED BY <2>1, <2>2, Zenon DEF Ordered
<1> QED BY <1>4, <1>5, <1>7, <1>8, <1>9, Zenon DEF Served

\* A handler does what its message calls for, and nothing else.
LEMMA ServedHandle ==
  ASSUME Inv, Arrived, Served, Handle
  PROVE  Served'
<1>1. /\ pc = "handle" /\ pc' = "check" /\ sent' = sent /\ received' = received /\ buffer_' = buffer_
  BY DEF Handle, net
<1>2. received \in Seq(Nat) /\ received # <<>> /\ sent \in Seq(Frames)
  BY <1>1 DEF Arrived, Served, Numbered, Inv, TypeInv
<1>3. PICK n : n = Len(received) - 1
  OBVIOUS
<1>4. PICK m : m = Len(received)
  OBVIOUS
<1>5. /\ n \in Nat /\ m = n + 1 /\ m \in Nat /\ m \in 1 .. m
      /\ \A i \in 1 .. n : i \in 1 .. m
  BY <1>2, <1>3, <1>4
<1>6. PICK k : k = received[m]
  OBVIOUS
<1>7. k \in 1 .. Len(sent) /\ k \in 1 .. MaxSent /\ buffer_[1][1] = k /\ Len(sent) \in Nat
  <2>1. Len(sent) <= MaxSent /\ k \in 1 .. Len(sent) /\ buffer_[1][1] = k
    BY <1>1, <1>4, <1>5, <1>6 DEF Served, Numbered
  <2>2. Len(sent) \in Nat /\ MaxSent \in Nat
    BY <1>2, ManagerAssumption
  <2> QED BY <2>1, <2>2
<1>8. PICK f \in Frames : f = sent[k]
  BY <1>2, <1>7
<1>9. PICK done : done = callback(f, k)
  OBVIOUS
<1>10. outcome[sent[k]][k] = done
  BY <1>7, <1>8, <1>9, Zenon DEF outcome
<1>11. published' = published \o done.published /\ replies' = replies \o done.replies
  BY <1>7, <1>10, Zenon DEF Handle
<1>12. ASSUME NEW g \in Frames, NEW j
       PROVE  Publishes(callback(g, j).published, g, j) /\ Answered(callback(g, j).replies, g, j)
  BY FramesAreAny, CallbackDoes
<1>13. \A i \in 1 .. m : received[i] \in 1 .. Len(sent) /\ sent[received[i]] \in Frames
  BY <1>2, <1>4 DEF Served, Numbered
<1>14. Numbered'
  BY <1>1 DEF Served, Numbered
<1>15. Handled = n /\ Handled' = m
  BY <1>1, <1>3, <1>4 DEF Handled
\* What it publishes.
<1>16. published' = FlattenSeq(PublishedBy(Handled))'
  <2>1. PICK q : q = PublishedBy(m)
    OBVIOUS
  <2>2. PICK p : p = PublishedBy(n)
    OBVIOUS
  <2>3. q = [i \in 1 .. m |-> callback(sent[received[i]], received[i]).published]
    BY <2>1, Zenon DEF PublishedBy
  <2>4. p = [i \in 1 .. n |-> callback(sent[received[i]], received[i]).published]
    BY <2>2, Zenon DEF PublishedBy
  <2>5. p = [i \in 1 .. n |-> q[i]]
    BY <1>5, <2>3, <2>4, Zenon
  <2>6. AtMostOne(q, m)
    <3>1. ASSUME NEW i \in 1 .. m PROVE q[i] = <<>> \/ \E x : q[i] = <<x>>
      <4> PICK j : j = received[i]
        OBVIOUS
      <4>1. PICK g \in Frames : g = sent[received[i]] /\ j = received[i]
        BY <1>13
      <4>2. Publishes(callback(g, j).published, g, j)
        BY <1>12
      <4>3. q[i] = callback(g, j).published
        BY <2>3, <4>1, Zenon
      <4>4. q[i] = <<>> \/ \E t, o : q[i] = published_(t, o)
        BY <4>2, <4>3, Zenon DEF Publishes
      <4> QED BY <4>4, PublishesOne, Zenon
    <3>2. \A i \in 1 .. m : q[i] = <<>> \/ \E x : q[i] = <<x>>
      BY <3>1
    <3>3. q = [i \in 1 .. m |-> q[i]]
      BY <2>3, Zenon
    <3> QED BY <1>5, <3>2, <3>3, Zenon DEF AtMostOne
  <2>7. FlattenSeq(q) = FlattenSeq(p) \o q[m]
    <3>1. Grows(p, q, m)
      BY <1>5, <2>5, <2>6, FlattenGrows
    <3> QED BY <3>1, Zenon DEF Grows
  <2>8. q[m] = done.published
    BY <1>5, <1>6, <1>8, <1>9, <2>3, Zenon
  <2>9. published = FlattenSeq(p)
    BY <1>15, <2>2, Zenon DEF Served
  <2>10. PublishedBy(Handled)' = q
    BY <1>1, <1>15, <2>3, Zenon DEF PublishedBy
  <2> QED BY <1>11, <2>7, <2>8, <2>9, <2>10, Zenon
\* What it answers.
<1>17. PICK q : q = AskedBy(m)
  OBVIOUS
<1>18. PICK p : p = AskedBy(n)
  OBVIOUS
<1>19. q = [i \in 1 .. m |-> IF Owed(sent[received[i]]) THEN <<received[i]>> ELSE <<>>]
  BY <1>17, Zenon DEF AskedBy
<1>20. p = [i \in 1 .. n |-> q[i]]
  BY <1>5, <1>18, <1>19, Zenon DEF AskedBy
<1>21. AtMostOne(q, m)
  <2>1. \A i \in 1 .. m : q[i] = <<>> \/ \E x : q[i] = <<x>>
    BY <1>19, Zenon
  <2>2. q = [i \in 1 .. m |-> q[i]]
    BY <1>19, Zenon
  <2> QED BY <1>5, <2>1, <2>2, Zenon DEF AtMostOne
<1>22. FlattenSeq(q) = FlattenSeq(p) \o q[m] /\ \E S : FlattenSeq(p) \in Seq(S)
  <2>1. Grows(p, q, m)
    BY <1>5, <1>20, <1>21, FlattenGrows
  <2> QED BY <2>1, Zenon DEF Grows
<1>23. q[m] = IF Owed(f) THEN <<k>> ELSE <<>>
  BY <1>5, <1>6, <1>8, <1>19, Zenon
<1>24. AskedBy(Handled)' = q
  BY <1>1, <1>15, <1>19, Zenon DEF AskedBy
<1>25. PICK a : a = AnsweredBy(Len(replies))
  OBVIOUS
<1>26. FlattenSeq(a) = FlattenSeq(p)
  BY <1>15, <1>18, <1>25, Zenon DEF Served
<1>27. Answered(done.replies, f, k)
  BY <1>9, <1>12
<1>28. Owed(f) => Demands(f)
  BY Zenon DEF asks, Owed, Demands
<1>29. PICK S : replies \in Seq(S)
  BY Zenon DEF Served, Replied
<1>30. CASE done.replies = <<>>
  <2>1. replies' = replies
    BY <1>11, <1>29, <1>30, ConcatEmptySeq
  <2>2. ~Owed(f)
    BY <1>27, <1>28, <1>30, Zenon DEF Answered
  <2>3. FlattenSeq(q) = FlattenSeq(p)
    <3>1. PICK T : FlattenSeq(p) \in Seq(T)
      BY <1>22, Zenon
    <3>2. FlattenSeq(q) = FlattenSeq(p) \o <<>>
      BY <1>22, <1>23, <2>2, Zenon
    <3> QED BY <3>1, <3>2, ConcatEmptySeq
  <2>4. AnsweredBy(Len(replies))' = a
    BY <1>1, <1>25, <2>1, Zenon DEF AnsweredBy
  <2>5. Replied'
    BY <1>1, <2>1, Zenon DEF Served, Replied
  <2>6. Ordered'
    BY <1>1, <1>5, <1>15, <2>1, Zenon DEF Served, Ordered
  <2> QED BY <1>14, <1>16, <1>24, <1>26, <2>3, <2>4, <2>5, <2>6, Zenon DEF Served
<1>31. CASE \E r : done.replies = <<r>> /\ Reply(r, f, k)
  <2>1. PICK r : done.replies = <<r>> /\ Reply(r, f, k)
    BY <1>31
  <2>2. Demands(f) <=> Owed(f)
    <3>1. <<r>> # <<>>
      OBVIOUS
    <3> QED BY <1>27, <1>28, <2>1, <3>1, Zenon DEF Answered
  <2>3. PICK l : l = Len(replies)
    OBVIOUS
  <2>4. PICK L : L = l + 1
    OBVIOUS
  <2>5. PICK R : R = S \union {r}
    OBVIOUS
  <2>6. replies \in Seq(R) /\ <<r>> \in Seq(R) /\ Len(<<r>>) = 1 /\ <<r>>[1] = r
    BY <1>29, <2>5
  <2>7. PICK z : z = replies \o <<r>>
    OBVIOUS
  <2>8. Chained(z, replies, <<r>>, R)
    BY <2>6, <2>7, Chains
  <2>9. /\ l \in Nat /\ L \in Nat /\ L \in 1 .. L
        /\ z \in Seq(R) /\ Len(z) = L /\ z[L] = r /\ \A i \in 1 .. l : z[i] = replies[i] /\ i \in 1 .. L
    <3>1. l \in Nat /\ Len(z) = L /\ z \in Seq(R)
      BY <2>3, <2>4, <2>6, <2>8 DEF Chained
    <3>2. L - Len(replies) = 1 /\ ~(L <= Len(replies)) /\ L \in 1 .. Len(replies) + 1
      BY <2>3, <2>4, <3>1
    <3>3. z[L] = r
      BY <2>6, <2>8, <3>2 DEF Chained
    <3>4. ASSUME NEW i \in 1 .. l PROVE z[i] = replies[i] /\ i \in 1 .. L
      <4>1. i \in 1 .. Len(replies) + 1 /\ i <= Len(replies) /\ i \in 1 .. L
        BY <2>3, <2>4, <3>1
      <4> QED BY <2>6, <2>8, <4>1 DEF Chained
    <3> QED BY <2>4, <3>1, <3>3, <3>4
  <2>10. replies' = z
    BY <1>11, <2>1, <2>7, Zenon
  <2>11. r.to = k
    BY <2>1, Zenon DEF Reply
  <2>12. Replied'
    <3>1. ASSUME NEW i \in 1 .. L
          PROVE  z[i].to \in 1 .. Len(sent) /\ Reply(z[i], sent[z[i].to], z[i].to)
      <4>1. CASE i = L
        BY <1>7, <1>8, <2>1, <2>9, <2>11, <4>1, Zenon
      <4>2. CASE i # L
        <5>1. i \in 1 .. l
          BY <2>4, <2>9, <4>2
        <5>2. replies[i].to \in 1 .. Len(sent) /\ Reply(replies[i], sent[replies[i].to], replies[i].to)
          BY <2>3, <5>1, Zenon DEF Served, Replied
        <5> QED BY <2>9, <5>1, <5>2, Zenon
      <4> QED BY <4>1, <4>2
    <3> QED BY <1>1, <2>9, <2>10, <3>1, Zenon DEF Replied
  <2>13. PICK b : b = [i \in 1 .. L |-> IF Demands(sent[z[i].to])
                                        THEN <<z[i].to>> ELSE <<>>]
    OBVIOUS
  <2>14. AnsweredBy(Len(replies))' = b
    BY <1>1, <2>9, <2>10, <2>13, Zenon DEF AnsweredBy
  <2>15. a = [i \in 1 .. l |-> b[i]]
    <3>1. a = [i \in 1 .. l |-> IF Demands(sent[replies[i].to])
                                THEN <<replies[i].to>> ELSE <<>>]
      BY <1>25, <2>3, Zenon DEF AnsweredBy
    <3> QED BY <2>9, <2>13, <3>1, Zenon
  <2>16. AtMostOne(b, L)
    <3>1. \A i \in 1 .. L : b[i] = <<>> \/ \E x : b[i] = <<x>>
      BY <2>13, Zenon
    <3>2. b = [i \in 1 .. L |-> b[i]]
      BY <2>13, Zenon
    <3> QED BY <2>9, <3>1, <3>2, Zenon DEF AtMostOne
  <2>17. FlattenSeq(b) = FlattenSeq(a) \o b[L]
    <3>1. Grows(a, b, L)
      BY <2>4, <2>9, <2>15, <2>16, FlattenGrows
    <3> QED BY <3>1, Zenon DEF Grows
  <2>18. b[L] = q[m]
    BY <1>8, <1>23, <2>2, <2>9, <2>11, <2>13, Zenon
  <2>19. FlattenSeq(b) = FlattenSeq(q)
    BY <1>22, <1>26, <2>17, <2>18, Zenon
\* It is the newest of all: what was answered before had arrived before.
  <2>20. ASSUME NEW i \in 1 .. l
         PROVE  replies[i].to < k /\ \E j \in 1 .. m : replies[i].to = received[j]
    <3>1. PICK j \in 1 .. n : replies[i].to = received[j]
      BY <1>15, <2>3, Zenon DEF Served, Ordered
    <3>2. j \in 1 .. m /\ j < m /\ m \in 1 .. m
      BY <1>5
    <3>3. received[j] < received[m]
      BY <1>2, <1>4, <3>2 DEF Arrived, EachOnce
    <3> QED BY <1>6, <3>1, <3>2, <3>3
  <2>21. Ordered'
    <3>1. \A i \in 1 .. L : \E j \in 1 .. m : z[i].to = received[j]
      <4> SUFFICES ASSUME NEW i \in 1 .. L PROVE \E j \in 1 .. m : z[i].to = received[j]
        OBVIOUS
      <4>1. CASE i = L
        BY <1>5, <1>6, <2>9, <2>11, <4>1
      <4>2. CASE i # L
        <5>1. i \in 1 .. l
          BY <2>4, <2>9, <4>2
        <5> QED BY <2>9, <2>20, <5>1, Zenon
      <4> QED BY <4>1, <4>2
    <3>2. ASSUME NEW i \in 1 .. L, NEW j \in 1 .. L, i < j
          PROVE  z[i].to < z[j].to
      <4>1. i \in 1 .. l
        BY <2>4, <2>9, <3>2
      <4>2. CASE j = L
        BY <2>9, <2>11, <2>20, <4>1, <4>2, Zenon
      <4>3. CASE j # L
        <5>1. j \in 1 .. l
          BY <2>4, <2>9, <4>3
        <5>2. replies[i].to < replies[j].to
          BY <2>3, <3>2, <4>1, <5>1, Zenon DEF Served, Ordered
        <5> QED BY <2>9, <4>1, <5>1, <5>2, Zenon
      <4> QED BY <4>2, <4>3
    <3> QED BY <1>1, <1>15, <2>9, <2>10, <3>1, <3>2, Zenon DEF Ordered
  <2> QED BY <1>14, <1>16, <1>24, <2>12, <2>14, <2>19, <2>21, Zenon DEF Served
<1> QED BY <1>27, <1>30, <1>31, Zenon DEF Answered

\* A message that has arrived is the one that is handled next.
LEMMA ServedReceive ==
  ASSUME Inv, Arrived, Served, Receive
  PROVE  Served'
<1>1. /\ TypeInv /\ connected_ /\ pc \in {"length", "body"} /\ sent' = sent
      /\ published' = published /\ replies' = replies
  BY DEF Inv, Receive, net
<1>2. /\ Len(wire) \in Nat /\ Len(buffer_) \in Nat /\ remainBytes \in Nat /\ Len(sent) \in Nat
      /\ wire \in Seq(Piece) /\ buffer_ \in Seq(Piece)
  BY <1>1 DEF TypeInv
<1>3. PICK off, k : Reads(off, k)
  BY <1>1 DEF Inv
<1>4. PICK n \in rawReceiveBytes \ {0} :
       LET pieces == buffer_ \o SubSeq(wire, 1, n) IN
          \/ received' = received /\ pc' # "handle"
          \/ /\ pc' = "handle" /\ buffer_' = pieces /\ received' = Append(received, pieces[1][1])
  <2>1. PICK n \in rawReceiveBytes \ {0} :
       LET pieces == buffer_ \o SubSeq(wire, 1, n) IN
          \/ received' = received /\ pc' = pc
          \/ /\ pc' = "handle" /\ buffer_' = pieces /\ received' = Append(received, pieces[1][1])
          \/ received' = received /\ (pc' = "check" \/ pc' = "body")
    BY Zenon DEF Receive, Fail
  <2>2. "check" # "handle" /\ "body" # "handle" /\ pc # "handle"
    BY <1>1
  <2> QED BY <2>1, <2>2, Zenon
<1>5. n \in 1 .. Len(wire) /\ n <= remainBytes /\ wire # <<>>
  <2>1. wire # <<>>
    BY <1>4 DEF rawReceiveBytes
  <2>2. n \in 1 .. Min({remainBytes, Len(wire)})
    BY <1>4, <2>1 DEF rawReceiveBytes
  <2> QED BY <1>2, <2>1, <2>2, MinOfTwo
<1>6. received \in Seq(Nat) /\ Len(received) \in Nat /\ Handled = Len(received)
  BY <1>1 DEF Arrived, Handled
<1>7. \A i \in 1 .. Len(sent) : i \in 1 .. Len(sent') /\ sent'[i] = sent[i]
  BY <1>1
<1>8. CASE received' = received /\ pc' # "handle"
  <2>1. Numbered'
    BY <1>1, <1>8 DEF Served, Numbered
  <2>2. Handled' = Handled
    BY <1>6, <1>8, Zenon DEF Handled
  <2>3. \A i \in 1 .. Handled : received'[i] = received[i]
    BY <1>8
  <2> QED BY <1>1, <1>7, <2>1, <2>2, <2>3, ServedStays
<1>9. CASE ~(received' = received /\ pc' # "handle")
  <2>1. PICK pieces : pieces = buffer_ \o SubSeq(wire, 1, n)
    OBVIOUS
  <2>2. pc' = "handle" /\ buffer_' = pieces /\ received' = Append(received, pieces[1][1])
    BY <1>4, <1>9, <2>1, Zenon
  <2>3. PICK j : j = wire[1][1]
    OBVIOUS
  <2>4. /\ j \in 1 .. Len(sent)
        /\ AllOf(buffer_ \o SubSeq(wire, 1, n), buffer_, n, <<j, pc>>)
    BY <1>1, <1>3, <1>5, <2>3, ReadIsOfOne
  <2>5. AllOf(pieces, buffer_, n, <<j, pc>>)
    BY <2>1, <2>4, Zenon
  <2>6. pieces[1][1] = j
    <3>1. 1 \in 1 .. Len(buffer_) + n
      BY <1>2, <1>5
    <3> QED BY <2>5, <3>1 DEF AllOf
  <2>7. j \in Nat
    BY <1>2, <2>4
  <2>8. PICK m : m = Len(received)
    OBVIOUS
  <2>9. /\ Len(received') = m + 1 /\ received' \in Seq(Nat) /\ received'[m + 1] = j
        /\ \A i \in 1 .. m : received'[i] = received[i]
    BY <1>6, <2>2, <2>6, <2>7, <2>8
  <2>10. Numbered'
    <3>1. \A i \in 1 .. Len(received') : received'[i] \in 1 .. Len(sent')
      <4> SUFFICES ASSUME NEW i \in 1 .. m + 1 PROVE received'[i] \in 1 .. Len(sent)
        BY <1>1, <2>9
      <4>1. CASE i = m + 1
        BY <2>4, <2>9, <4>1
      <4>2. CASE i # m + 1
        <5>1. i \in 1 .. m
          BY <1>6, <2>8, <4>2
        <5> QED BY <2>8, <2>9, <5>1 DEF Served, Numbered
      <4> QED BY <4>1, <4>2
    <3>2. received' # <<>>
      BY <1>6, <2>8, <2>9
    <3>3. buffer_'[1][1] = received'[Len(received')]
      BY <2>2, <2>6, <2>9
    <3> QED BY <1>1, <3>1, <3>2, <3>3 DEF Served, Numbered
  <2>11. Handled' = m /\ Handled = m
    <3>1. (m + 1) - 1 = m
      BY <1>6, <2>8
    <3> QED BY <1>6, <2>2, <2>8, <2>9, <3>1 DEF Handled
  <2>12. \A i \in 1 .. Handled : received'[i] = received[i]
    BY <2>9, <2>11
  <2>13. Handled' = Handled
    BY <2>11
  <2> QED BY <1>1, <1>7, <2>10, <2>12, <2>13, ServedStays
<1> QED BY <1>8, <1>9

\* Every step keeps what was published and answered equal to what the arrived messages
\* call for.
LEMMA ServedNext == Inv /\ Arrived /\ Served /\ [Next]_vars => Served'
<1> SUFFICES ASSUME Inv, Arrived, Served, [Next]_vars PROVE Served'
  OBVIOUS
<1>1. /\ received \in Seq(Nat) /\ sent \in Seq(Frames) /\ Len(sent) \in Nat
      /\ Numbered /\ \A k \in 1 .. Len(sent) : k \in 1 .. Len(sent) /\ sent[k] = sent[k]
  BY DEF Arrived, Inv, TypeInv, Served
<1>2. CASE Check \/ ReceiveFails
  <2>1. /\ pc # "handle" /\ pc' # "handle" /\ sent' = sent /\ received' = received
        /\ published' = published /\ replies' = replies
    BY <1>2 DEF Check, ReceiveFails, Fail, net
  <2>2. Numbered'
    BY <1>1, <2>1 DEF Numbered
  <2>3. Handled' = Handled
    BY <2>1 DEF Handled
  <2> QED BY <1>1, <2>1, <2>2, <2>3, ServedStays
<1>3. CASE Receive
  BY <1>3, ServedReceive
<1>4. CASE Handle
  BY <1>4, ServedHandle
<1>5. CASE LoseConnection
  <2>1. /\ pc' = pc /\ buffer_' = buffer_ /\ sent' = sent /\ received' = received
        /\ published' = published /\ replies' = replies
    BY <1>5 DEF LoseConnection
  <2>2. Numbered' /\ Handled' = Handled
    BY <1>1, <2>1 DEF Numbered, Handled
  <2> QED BY <1>1, <2>1, <2>2, ServedStays
<1>6. ASSUME NEW f \in Frames, Send(f) PROVE Served'
  <2>1. /\ pc' = pc /\ buffer_' = buffer_ /\ sent' = Append(sent, f) /\ received' = received
        /\ published' = published /\ replies' = replies /\ Len(sent) < MaxSent
    BY <1>6 DEF Send
  <2>2. /\ Len(sent') = Len(sent) + 1
        /\ \A k \in 1 .. Len(sent) : k \in 1 .. Len(sent') /\ sent'[k] = sent[k]
    BY <1>1, <2>1
  <2>3. Len(sent') <= MaxSent
    BY <1>1, <2>1, <2>2, ManagerAssumption
  <2>4. Numbered'
    BY <1>1, <2>1, <2>2, <2>3 DEF Numbered
  <2>5. Handled' = Handled
    BY <2>1 DEF Handled
  <2> QED BY <2>1, <2>2, <2>4, <2>5, ServedStays
<1>7. CASE UNCHANGED vars
  <2>1. /\ pc' = pc /\ buffer_' = buffer_ /\ sent' = sent /\ received' = received
        /\ published' = published /\ replies' = replies
    BY <1>7 DEF vars, net
  <2>2. Numbered' /\ Handled' = Handled
    BY <1>1, <2>1 DEF Numbered, Handled
  <2> QED BY <1>1, <2>1, <2>2, ServedStays
<1> QED BY <1>2, <1>3, <1>4, <1>5, <1>6, <1>7 DEF Next, SpinOnce

\* Nothing has arrived, and nothing was published or answered.
LEMMA ServedInit == Init => Served
<1> SUFFICES ASSUME Init PROVE Served
  OBVIOUS
<1>1. /\ received = <<>> /\ sent = <<>> /\ replies = <<>> /\ published = <<>> /\ pc = "check"
  BY DEF Init
<1>2. PICK n : n = 0
  OBVIOUS
<1>3. Len(received) = n /\ Len(replies) = n /\ Len(sent) = 0 /\ Handled = n /\ 0 <= MaxSent
  BY <1>1, <1>2, ManagerAssumption DEF Handled
<1>4. \A i \in 1 .. n : FALSE
  BY <1>2
<1>5. ASSUME NEW q, q = [i \in 1 .. n |-> q[i]] PROVE q = <<>> /\ FlattenSeq(q) = <<>>
  <2>1. q = <<>>
    BY <1>2, <1>5
  <2>2. Len(q) = 0
    BY <2>1
  <2> QED BY <2>1, <2>2, Zenon DEF FlattenSeq
<1>6. FlattenSeq(PublishedBy(n)) = <<>> /\ FlattenSeq(AskedBy(n)) = <<>> /\ FlattenSeq(AnsweredBy(n)) = <<>>
  <2>1. PICK p, a, b : p = PublishedBy(n) /\ a = AskedBy(n) /\ b = AnsweredBy(n)
    OBVIOUS
  <2>2. p = [i \in 1 .. n |-> p[i]]
    BY <2>1, Zenon DEF PublishedBy
  <2>3. a = [i \in 1 .. n |-> a[i]]
    BY <2>1, Zenon DEF AskedBy
  <2>4. b = [i \in 1 .. n |-> b[i]]
    BY <2>1, Zenon DEF AnsweredBy
  <2> QED BY <1>5, <2>1, <2>2, <2>3, <2>4
<1>7. Numbered
  BY <1>1, <1>3, <1>4 DEF Numbered
<1>8. Replied
  <2>1. replies \in Seq({})
    BY <1>1
  <2> QED BY <1>3, <1>4, <2>1, Zenon DEF Replied
<1>9. Ordered
  BY <1>3, <1>4, Zenon DEF Ordered
<1> QED BY <1>1, <1>3, <1>6, <1>7, <1>8, <1>9, Zenon DEF Served

\* The three invariants hold together.
LEMMA ServedInvariant == Spec => [](Inv /\ Arrived /\ Served)
<1>1. Init => Arrived
  BY DEF Init, Arrived, EachOnce
<1> QED BY <1>1, ServedInit, ArrivedNext, ServedNext, ManagerInvariant, PTL DEF Spec

\* Whatever the connection does to the pieces, and however often it is lost, what the
\* handlers have published between two messages is what the controller meant by those that
\* arrived whole: for any messages of any class, a serialized object is read as itself, one
\* that lacks a byte or a stump of a header is refused, and one that is not valid is dropped.
THEOREM PublishesIt == Spec => []PublishesWhatWasSent
<1>1. Inv /\ Arrived /\ Served => PublishesWhatWasSent
  <2> SUFFICES ASSUME Inv, Arrived, Served, pc = "check"
               PROVE  /\ EachOnce
                      /\ published = FlattenSeq([i \in DOMAIN received |->
                           LET f == sent[received[i]] IN
                           IF f.short \/ f.parts = 1 \/ ~validateMessage(MessageWith(f, <<>>)) THEN <<>>
                           ELSE published_(f.type, Object(f, received[i], Members(Layout[f.type])))])
    BY Zenon DEF PublishesWhatWasSent
  <2>1. received \in Seq(Nat) /\ sent \in Seq(Frames) /\ EachOnce
    BY DEF Arrived, Inv, TypeInv
  <2>2. PICK n : n = Len(received)
    OBVIOUS
  <2>3. DOMAIN received = 1 .. n
    BY <2>1, <2>2
  <2>4. Handled = n
    BY <2>2 DEF Handled
  <2>5. ASSUME NEW i \in 1 .. n
        PROVE  callback(sent[received[i]], received[i]).published =
                 LET f == sent[received[i]] IN
                 IF f.short \/ f.parts = 1 \/ ~validateMessage(MessageWith(f, <<>>)) THEN <<>>
                 ELSE published_(f.type, Object(f, received[i], Members(Layout[f.type])))
    <3>1. received[i] \in 1 .. Len(sent)
      BY <2>2 DEF Served, Numbered
    <3>2. PICK f \in Frames : f = sent[received[i]]
      BY <2>1, <3>1
    <3>3. Publishes(callback(f, received[i]).published, f, received[i])
      BY <3>2, FramesAreAny, CallbackDoes
    <3> QED BY <3>2, <3>3, Zenon DEF Publishes
  <2>6. published = FlattenSeq([i \in 1 .. n |-> callback(sent[received[i]], received[i]).published])
    BY <2>4, Zenon DEF Served, PublishedBy
  <2>7. [i \in 1 .. n |-> callback(sent[received[i]], received[i]).published] =
          [i \in DOMAIN received |->
             LET f == sent[received[i]] IN
             IF f.short \/ f.parts = 1 \/ ~validateMessage(MessageWith(f, <<>>)) THEN <<>>
             ELSE published_(f.type, Object(f, received[i], Members(Layout[f.type])))]
    BY <2>3, <2>5, Zenon
  <2> QED BY <2>1, <2>6, <2>7, Zenon
<1> QED BY <1>1, ServedInvariant, PTL

\* Whether the connection lasts or not, no message is answered twice or out of order, an
\* answer says SUCCESS if a handler knows the type and FAILURE if none does, and a request is
\* answered if and only if it can be read, unless it is one for joint states.  Of those this
\* says only that an answer would be of the right type and code: the handlers never send one
\* (the run FindUnansweredRequest).
THEOREM AnswersThem == Spec => []AnswersRequests
<1>1. Inv /\ Arrived /\ Served => AnswersRequests
  <2> SUFFICES ASSUME Inv, Arrived, Served, pc = "check" PROVE AnswersRequests
    BY Zenon DEF AnswersRequests
  <2>1. received \in Seq(Nat) /\ \E S : replies \in Seq(S)
    BY DEF Arrived, Served, Replied
  <2>2. DOMAIN received = 1 .. Len(received) /\ DOMAIN replies = 1 .. Len(replies)
    BY <2>1
  <2>3. Handled = Len(received)
    BY DEF Handled
  <2>4. FlattenSeq(AnsweredBy(Len(replies))) = FlattenSeq(AskedBy(Len(received)))
    BY <2>3, Zenon DEF Served
  <2>5. AnsweredBy(Len(replies)) = [i \in DOMAIN replies |->
          LET k == replies[i].to IN
          IF sent[k].comm = "SERVICE_REQUEST" /\ ~ofJoints(sent[k]) THEN <<k>> ELSE <<>>]
    BY <2>2, Zenon DEF AnsweredBy, Demands
  <2>6. AskedBy(Len(received)) = [i \in DOMAIN received |->
          LET k == received[i] IN
          IF asks(sent[k]) /\ ~ofJoints(sent[k]) THEN <<k>> ELSE <<>>]
    BY <2>2, Zenon DEF AskedBy, Owed
  <2>7. ASSUME NEW i \in DOMAIN replies
        PROVE  LET r == replies[i] IN
                 /\ validateMessage(r.msg) /\ r.msg.message_type_ = sent[r.to].type
                 /\ r.msg.reply_code_ = "SUCCESS" <=> hasHandler(sent[r.to].type)
    <3>1. Reply(replies[i], sent[replies[i].to], replies[i].to)
      BY <2>2, Zenon DEF Served, Replied
    <3> QED BY <3>1, Zenon DEF Reply
  <2>8. \A i, j \in DOMAIN replies : i < j => replies[i].to < replies[j].to
    BY <2>2, Zenon DEF Served, Ordered
  <2> QED BY <2>4, <2>5, <2>6, <2>7, <2>8, Zenon DEF AnswersRequests
<1> QED BY <1>1, ServedInvariant, PTL

-----------------------------------------------------------------------------
(* What a class wrote is read again, copies are equal, and the service nodes   *)
(* ask for what they were asked.                                               *)

\* A message of any class is read as what was written into it.
LEMMA ReadsIt ==
  ASSUME NEW f \in [type : Types, comm : {"TOPIC"}, code : {"INVALID"}, valid : SUBSET ValidFields,
                    short : BOOLEAN, parts : {2}],
         NEW class, class = Layout[f.type], ~f.short \/ class.load # <<>>
  PROVE  ReadsWhatItWrote(f, class, Object(f, 1, Members(class)))
<1>1. AnyFrame(f)
  <2>1. /\ f.type \in Types /\ f.comm = "TOPIC" /\ f.code = "INVALID" /\ f.valid \in SUBSET ValidFields
        /\ f.short \in BOOLEAN /\ f.parts = 2
        /\ f = [type |-> f.type, comm |-> f.comm, code |-> f.code, valid |-> f.valid,
                short |-> f.short, parts |-> f.parts]
    OBVIOUS
  <2>2. f.comm \in {"INVALID", "TOPIC", "SERVICE_REQUEST", "SERVICE_REPLY"}
        /\ f.code \in {"INVALID", "SUCCESS", "FAILURE"} /\ f.parts \in Nat
    BY <2>1
  <2> QED BY <2>1, <2>2 DEF AnyFrame
<1>2. PICK o, msg : o = Object(f, 1, Members(class)) /\ msg = SentMessage(f, 1)
  OBVIOUS
<1>3. SentIsRead(msg, f, 1, class, o)
  BY <1>1, <1>2, SentData
<1>4. f.short \in BOOLEAN
  OBVIOUS
<1> QED BY <1>2, <1>3, <1>4, Zenon DEF SentIsRead, ReadsWhatItWrote

\* Member k is taken from the front of what is behind those before it.
LEMMA ReadsFrontMember ==
  ASSUME NEW n, NEW ms, Sized(ms, n), NEW object, NEW S, NEW b \in Seq(S), Len(b) = size(ms, n),
         Lays(ms, n, object, b, 0), NEW k \in 1 .. n
  PROVE  Value(unloadFront(unloadFront(b, size(ms, k - 1)).buffer, ms[k].size).bytes) = object[ms[k].name]
<1>1. n \in Nat /\ ms[k].size \in {1, 4} /\ k \in 0 .. n /\ k - 1 \in 0 .. n /\ n \in 0 .. n
  BY DEF Sized
<1>2. PICK c \in Nat, s \in {1, 4} : c = size(ms, k - 1) /\ s = ms[k].size
  BY <1>1, SizeStep
<1>3. c + s <= Len(b)
  <2>1. size(ms, k) = c + s
    BY <1>2, SizeStep
  <2>2. size(ms, k) + (n - k) <= size(ms, n)
    BY <1>1, SizeGrows
  <2>3. size(ms, n) \in Nat
    BY <1>1, SizeStep
  <2> QED BY <1>1, <1>2, <2>1, <2>2, <2>3
<1>4. PICK d \in Nat : Len(b) = c + d /\ s <= d
  <2>1. Len(b) - c \in Nat /\ Len(b) = c + (Len(b) - c) /\ s <= Len(b) - c
    BY <1>2, <1>3
  <2> QED BY <2>1
<1>5. PICK r : r = SubSeq(b, c + 1, c + d)
  OBVIOUS
<1>6. r \in Seq(S) /\ Len(r) = d /\ \A j \in 1 .. d : r[j] = b[c + j]
  <2>1. c + d <= Len(b)
    BY <1>4
  <2> QED BY <1>5, <2>1, Part
<1>7. unloadFront(b, c).buffer = r
  <2>1. c <= Len(b)
    BY <1>4
  <2>2. unloadFront(b, c) = [ok |-> TRUE, bytes |-> SubSeq(b, 1, c), buffer |-> r]
    BY <1>4, <1>5, <2>1, Zenon DEF unloadFront
  <2> QED BY <2>2
<1>8. PICK t : t = SubSeq(r, 0 + 1, 0 + s)
  OBVIOUS
<1>9. t \in Seq(S) /\ Len(t) = s /\ \A j \in 1 .. s : t[j] = r[0 + j]
  <2>1. 0 + s <= Len(r) /\ s \in Nat /\ 0 \in Nat
    BY <1>4, <1>6
  <2> QED BY <1>6, <1>8, <2>1, Part
<1>10. unloadFront(r, s).bytes = t
  <2>1. s <= Len(r) /\ 0 + 1 = 1 /\ 0 + s = s
    BY <1>4, <1>6
  <2>2. unloadFront(r, s) = [ok |-> TRUE, bytes |-> t, buffer |-> SubSeq(r, s + 1, Len(r))]
    BY <1>8, <2>1, Zenon DEF unloadFront
  <2> QED BY <2>2
<1>11. \A j \in 1 .. s : t[j] = <<ms[k].name, object[ms[k].name], j>>
  <2> SUFFICES ASSUME NEW j \in 1 .. s PROVE t[j] = <<ms[k].name, object[ms[k].name], j>>
    OBVIOUS
  <2>1. j \in 1 .. d /\ 0 + j = j /\ 0 + c + j = c + j
    BY <1>4
  <2>2. b[0 + c + j] = <<ms[k].name, object[ms[k].name], j>>
    BY <1>2, Zenon DEF Lays
  <2> QED BY <1>6, <1>9, <2>1, <2>2
<1>12. Value(t) = object[ms[k].name]
  <2>1. PICK f, v : f = ms[k].name /\ v = object[ms[k].name]
    OBVIOUS
  <2>2. \A j \in 1 .. s : t[j] = <<f, v, j>>
    BY <1>11, <2>1, Zenon
  <2>3. t \in Seq(S) /\ Len(t) = s /\ s \in {1, 4}
    BY <1>9, Zenon
  <2>4. Value(t) = v
    BY <2>2, <2>3, ValueOfBytes
  <2> QED BY <2>1, <2>4
<1> QED BY <1>2, <1>7, <1>10, <1>12, Zenon

\* The members of every class can be read from the front.
LEMMA ReadsFront ==
  ASSUME NEW type \in Types
  PROVE  ReadsFromFront(Layout[type])
<1>1. PICK ms, rs, ns : ms = Layout[type].load /\ rs = Layout[type].unload /\ ns = Members(Layout[type])
  OBVIOUS
<1>2. Block(ms, rs, ns)
  BY <1>1, LayoutBlock, Zenon
<1>3. PICK n \in Nat : n = Len(ms)
  BY <1>2, BlockFacts
<1>4. ms \in Seq(Cell) /\ Sized(ms, n) /\ DOMAIN ms = 1 .. n
  <2>1. ms \in Seq(Cell) /\ Sized(ms, Len(ms))
    BY <1>2, BlockFacts
  <2> QED BY <1>3, <2>1
<1>5. PICK o, b : o = [m \in ns |-> <<1, m>>] /\ b = serialize(ms, o)
  OBVIOUS
<1>6. PICK S : WrittenIn(ms, n, o, S)
  BY BytesOf, Zenon
<1>7. b \in Seq(S) /\ Len(b) = size(ms, n) /\ Lays(ms, n, o, b, 0)
  BY <1>4, <1>5, <1>6, Serialized
<1>8. \A i \in 1 .. n :
        Value(unloadFront(unloadFront(b, size(ms, i - 1)).buffer, ms[i].size).bytes) = o[ms[i].name]
  BY <1>4, <1>7, ReadsFrontMember
<1>9. ~unloadFront(b, getBufferSize(b) + 1).ok
  <2>1. ~(Len(b) + 1 <= Len(b))
    BY <1>7
  <2>2. unloadFront(b, Len(b) + 1) = [ok |-> FALSE, bytes |-> <<>>, buffer |-> b]
    BY <2>1, Zenon DEF unloadFront
  <2> QED BY <2>2 DEF getBufferSize
<1> QED BY <1>1, <1>4, <1>5, <1>8, <1>9, Zenon DEF ReadsFromFront

\* The members of a class are those of its block.
LEMMA MembersAre ==
  ASSUME NEW class, NEW rs, NEW ns, Block(class.load, rs, ns)
  PROVE  Members(class) = ns
<1>1. PICK ms : ms = class.load
  OBVIOUS
<1>2. ms \in Seq(Cell) /\ ns = {ms[i].name : i \in 1 .. Len(ms)}
  BY <1>1, Zenon DEF Block
<1>3. DOMAIN ms = 1 .. Len(ms)
  BY <1>2
<1> QED BY <1>1, <1>2, <1>3, Zenon DEF Members

-----------------------------------------------------------------------------
(* Copies.                                                                 *)

\* q is o with the members J of from.
With(q, M, o, J, from) == q = [m \in M |-> IF m \in J THEN from[m] ELSE o[m]]

\* copyFrom of a JointData copies every joint and leaves the other members alone.
LEMMA CopiesJoints ==
  ASSUME NEW M, NEW o, o = [m \in M |-> o[m]], NEW f, NEW from,
         {f} \X (1 .. MAX_NUM_JOINTS) \subseteq M
  PROVE  With(copyJoints(o, f, from), M, o, {f} \X (1 .. MAX_NUM_JOINTS), from)
<1>1. PICK n \in Nat : n = MAX_NUM_JOINTS
  BY SizeAssumption
<1>2. PICK w : w = [i \in 0 .. n |-> [m \in M |-> IF m \in {f} \X (1 .. i) THEN from[m] ELSE o[m]]]
  OBVIOUS
<1>3. w[0] = o
  <2>1. 0 \in 0 .. n /\ \A m \in M : m \notin {f} \X (1 .. 0)
    OBVIOUS
  <2>2. w[0] = [m \in M |-> IF m \in {f} \X (1 .. 0) THEN from[m] ELSE o[m]]
    BY <1>2, <2>1, Zenon
  <2>3. w[0] = [m \in M |-> o[m]]
    BY <2>1, <2>2, Zenon
  <2> QED BY <2>3, Zenon
<1>4. ASSUME NEW i \in 1 .. n PROVE w[i] = setJoint(w[i - 1], f, i - 1, getJoint(from, f, i - 1))
  <2>1. i - 1 < n /\ (i - 1) + 1 = i /\ i \in 0 .. n /\ i - 1 \in 0 .. n /\ i \in 1 .. i
    OBVIOUS
  <2>2. PICK x : x = <<f, i>>
    OBVIOUS
  <2>3. setJoint(w[i - 1], f, i - 1, getJoint(from, f, i - 1)) = [w[i - 1] EXCEPT ![x] = from[x]]
    BY <1>1, <2>1, <2>2, Zenon DEF setJoint, getJoint, hasJoint
  <2>4. /\ w[i - 1] = [m \in M |-> IF m \in {f} \X (1 .. i - 1) THEN from[m] ELSE o[m]]
        /\ w[i] = [m \in M |-> IF m \in {f} \X (1 .. i) THEN from[m] ELSE o[m]]
    BY <1>2, <2>1, Zenon
  <2>5. \A m : m \in {f} \X (1 .. i) <=> m \in {f} \X (1 .. i - 1) \/ m = x
    BY <2>2
  <2>6. x \in M /\ x \in {f} \X (1 .. i)
    BY <1>1, <2>2
  <2>7. PICK u : u = [w[i - 1] EXCEPT ![x] = from[x]]
    OBVIOUS
  <2>8. u = [m \in M |-> IF m = x THEN from[x] ELSE w[i - 1][m]]
    BY <2>4, <2>7, Zenon
  <2>9. \A m \in M : (IF m = x THEN from[x] ELSE w[i - 1][m])
                       = IF m \in {f} \X (1 .. i) THEN from[m] ELSE o[m]
    BY <2>4, <2>5, <2>6, Zenon
  <2>10. u = w[i]
    <3>1. PICK v : v = [m \in M |-> IF m = x THEN from[x] ELSE w[i - 1][m]]
      OBVIOUS
    <3>2. v = [m \in M |-> v[m]]
      BY <3>1
    <3>3. \A m \in M : v[m] = IF m \in {f} \X (1 .. i) THEN from[m] ELSE o[m]
      BY <2>9, <3>1, Zenon
    <3>4. v = [m \in M |-> IF m \in {f} \X (1 .. i) THEN from[m] ELSE o[m]]
      BY <3>2, <3>3, Zenon
    <3> QED BY <2>4, <2>8, <3>1, <3>4, Zenon
  <2> QED BY <2>3, <2>7, <2>10, Zenon
<1>5. PICK c : c = CHOOSE g : g = [i \in 0 .. n |->
                    IF i = 0 THEN o ELSE setJoint(g[i - 1], f, i - 1, getJoint(from, f, i - 1))]
  OBVIOUS
<1>6. copyJoints(o, f, from) = c[n]
  BY <1>1, <1>5, Zenon DEF copyJoints
<1>7. w = [i \in 0 .. n |-> IF i = 0 THEN o ELSE setJoint(w[i - 1], f, i - 1, getJoint(from, f, i - 1))]
  <2>1. \A i \in 0 .. n : w[i] = IF i = 0 THEN o ELSE setJoint(w[i - 1], f, i - 1, getJoint(from, f, i - 1))
    <3>1. \A i \in 0 .. n : i # 0 => i \in 1 .. n
      OBVIOUS
    <3> QED BY <1>3, <1>4, <3>1, Zenon
  <2>2. w = [i \in 0 .. n |-> w[i]]
    BY <1>2, Zenon
  <2> QED BY <2>1, <2>2, Zenon
<1>8. c = [i \in 0 .. n |-> IF i = 0 THEN o ELSE setJoint(c[i - 1], f, i - 1, getJoint(from, f, i - 1))]
  BY <1>5, <1>7, Zenon
<1> DEFINE T == {i \in 0 .. n : c[i] = w[i]}
<1>9. 0 \in T
  <2>1. 0 \in 0 .. n
    OBVIOUS
  <2> QED BY <1>3, <1>8, <2>1, Zenon
<1>10. ASSUME NEW i \in 1 .. n, i - 1 \in T PROVE i \in T
  <2>1. i \in 0 .. n /\ i # 0
    OBVIOUS
  <2>2. c[i - 1] = w[i - 1]
    BY <1>10, Zenon
  <2> QED BY <1>4, <1>8, <2>1, <2>2, Zenon
<1>11. \A i \in 0 .. n : i \in T
  <2> HIDE DEF T
  <2> QED BY <1>9, <1>10, Loop
<1>12. n \in 0 .. n
  OBVIOUS
<1>13. c[n] = w[n]
  BY <1>11, <1>12, Zenon
<1> QED BY <1>1, <1>2, <1>6, <1>12, <1>13, Zenon DEF With

PointMembers == Members(JointTrajPtMessage)
IsPoint(p)   == p = [m \in PointMembers |-> p[m]]

\* A member of a point is a joint or one of the three words.
LEMMA PointMember ==
  /\ {"joint_position_"} \X (1 .. MAX_NUM_JOINTS) \subseteq PointMembers
  /\ \A m \in PointMembers :
       \/ m \in {"joint_position_"} \X (1 .. MAX_NUM_JOINTS)
       \/ m[1] \in JointTrajPtCopied \ {"joint_position_"}
<1>1. PICK ms, rs, ns : /\ ms = JointTrajPtLoad /\ rs = JointTrajPtUnload
                        /\ ns = ({"sequence_"} \X {0})
                                  \union ({"joint_position_"} \X (1 .. MAX_NUM_JOINTS))
                                  \union ({"velocity_", "duration_"} \X {0})
  OBVIOUS
<1>2. Block(ms, rs, ns)
  BY <1>1, JointTrajPtBlock
<1>3. PICK c : c = JointTrajPtMessage
  OBVIOUS
<1>4. c.load = ms
  BY <1>1, <1>3 DEF JointTrajPtMessage, MessageOf
<1>5. Members(c) = ns
  BY <1>2, <1>4, MembersAre
<1>6. PointMembers = ns
  BY <1>3, <1>5, Zenon DEF PointMembers
<1>7. JointTrajPtCopied = {"joint_position_", "sequence_", "velocity_", "duration_"}
  BY DEF JointTrajPtCopied, JointTrajPtInit
<1>8. ASSUME NEW m \in ns
      PROVE  \/ m \in {"joint_position_"} \X (1 .. MAX_NUM_JOINTS)
             \/ m[1] \in {"sequence_", "velocity_", "duration_"}
  BY <1>1
<1> QED BY <1>1, <1>6, <1>7, <1>8

\* A point copied from another is the other.
LEMMA CopiesPoint ==
  ASSUME NEW o, DOMAIN o = PointMembers, NEW src, IsPoint(src)
  PROVE  copyPoint(o, src) = src
<1>1. PICK J, W, M : /\ J = {"joint_position_"} \X (1 .. MAX_NUM_JOINTS)
                     /\ W = JointTrajPtCopied \ {"joint_position_"} /\ M = PointMembers
  OBVIOUS
<1>2. J \subseteq M /\ \A m \in M : m \in J \/ m[1] \in W
  BY <1>1, PointMember, Zenon
<1>3. PICK c : c = copyMembers(o, src, W)
  OBVIOUS
<1>4. c = [m \in M |-> IF m[1] \in W THEN src[m] ELSE o[m]]
  BY <1>1, <1>3, Zenon DEF copyMembers
<1>5. c = [m \in M |-> c[m]]
  BY <1>4, Zenon
<1>6. PICK f : f = "joint_position_"
  OBVIOUS
<1>7. J = {f} \X (1 .. MAX_NUM_JOINTS) /\ {f} \X (1 .. MAX_NUM_JOINTS) \subseteq M
  BY <1>1, <1>2, <1>6, Zenon
<1>8. With(copyJoints(c, f, src), M, c, {f} \X (1 .. MAX_NUM_JOINTS), src)
  BY <1>5, <1>7, CopiesJoints
<1>9. copyPoint(o, src) = [m \in M |-> IF m \in J THEN src[m] ELSE c[m]]
  BY <1>1, <1>3, <1>6, <1>7, <1>8, Zenon DEF copyPoint, With
<1>10. \A m \in M : (IF m \in J THEN src[m] ELSE c[m]) = src[m]
  BY <1>2, <1>4, Zenon
<1>11. copyPoint(o, src) = [m \in M |-> src[m]]
  BY <1>9, <1>10, Zenon
<1> QED BY <1>1, <1>11, Zenon DEF IsPoint

\* A point that is made empty has the members of a point.
LEMMA EmptyPoint == DOMAIN emptyPoint = PointMembers
BY Zenon DEF emptyPoint, initObject, PointMembers

\* A point is equal to itself.
LEMMA PointIsEqual == ASSUME NEW a PROVE equalPoint(a, a)
BY Zenon DEF equalPoint, equalJoints, equalMembers

-----------------------------------------------------------------------------
(* Trajectories.                                                           *)

\* The bytes of a point are behind those of b, and are read from there.
PointIsRead(b, c, p, S) ==
  /\ c \in Seq(S)
  /\ deserialize(JointTrajPtUnload, emptyPoint, c) = [ok |-> TRUE, buffer |-> b, object |-> p]

\* A point is read from behind the bytes that were there before it.
LEMMA PointRead ==
  ASSUME NEW S, NEW b \in Seq(S), NEW p, IsPoint(p), WrittenIn(JointTrajPtLoad, Len(JointTrajPtLoad), p, S),
         NEW d, d = pointBytes(p), NEW c, c = b \o d
  PROVE  d \in Seq(S) /\ PointIsRead(b, c, p, S)
<1>1. PICK ms, rs, ns : ms = JointTrajPtLoad /\ rs = JointTrajPtUnload /\ Block(ms, rs, ns)
  BY JointTrajPtBlock
<1>2. PICK n \in Nat : n = Len(ms)
  BY <1>1, BlockFacts
<1>3. Sized(ms, n) /\ Named(ms, n) /\ Turned(rs, ms, n) /\ ns = {ms[i].name : i \in 1 .. n}
  BY <1>1, <1>2, BlockFacts
<1>4. WrittenIn(ms, n, p, S) /\ d = serialize(ms, p)
  BY <1>1, <1>2, Zenon DEF pointBytes
<1>5. d \in Seq(S) /\ Len(d) = size(ms, n) /\ Lays(ms, n, p, d, 0)
  BY <1>3, <1>4, Serialized
<1>6. PICK k \in Nat : k = Len(b)
  OBVIOUS
<1>7. Chained(c, b, d, S)
  BY <1>5, Chains
<1>8. c \in Seq(S) /\ Len(c) = k + size(ms, n)
  BY <1>5, <1>6, <1>7, Zenon DEF Chained
<1>9. \A i \in 0 .. n : size(ms, i) \in Nat
  BY <1>3, SizeStep
<1>10. Lays(ms, n, p, c, k)
  <2> SUFFICES ASSUME NEW i \in 1 .. n, NEW j \in 1 .. ms[i].size
               PROVE  c[k + size(ms, i - 1) + j] = <<ms[i].name, p[ms[i].name], j>>
    BY Zenon DEF Lays
  <2>1. i \in 0 .. n /\ i - 1 \in 0 .. n /\ n \in 0 .. n /\ n \in Nat
    OBVIOUS
  <2>2. PICK y, s : y = size(ms, i - 1) /\ s = ms[i].size
    OBVIOUS
  <2>3. y \in Nat /\ s \in {1, 4} /\ size(ms, i) = y + s /\ j \in 1 .. s
    BY <1>3, <1>9, <2>1, <2>2, SizeStep DEF Sized
  <2>4. size(ms, i) + (n - i) <= size(ms, n)
    BY <1>3, <2>1, SizeGrows
  <2>5. PICK z \in Nat : z = size(ms, n)
    BY <1>9, <2>1
  <2>6. y + j \in 1 .. z
    BY <2>1, <2>3, <2>4, <2>5
  <2>7. PICK q : q = k + y + j
    OBVIOUS
  <2>8. q \in 1 .. Len(b) + Len(d) /\ ~(q <= Len(b)) /\ q - Len(b) = 0 + y + j
    BY <1>5, <1>6, <2>3, <2>5, <2>6, <2>7
  <2>9. c[q] = d[0 + y + j]
    BY <1>7, <2>8, Zenon DEF Chained
  <2>10. d[0 + y + j] = <<ms[i].name, p[ms[i].name], j>>
    BY <1>5, <2>2, Zenon DEF Lays
  <2> QED BY <2>2, <2>7, <2>9, <2>10, Zenon
<1>11. HasRead(deserialize(rs, emptyPoint, c), ms, n, p, emptyPoint, c, k)
  BY <1>3, <1>8, <1>10, ReadsBack
<1>12. SubSeq(c, 1, k) = b
  <2>1. PICK u : u = SubSeq(c, 0 + 1, 0 + k)
    OBVIOUS
  <2>2. 0 + k <= Len(c) /\ 0 \in Nat
    <3>1. n \in 0 .. n
      OBVIOUS
    <3> QED BY <1>8, <1>9, <3>1
  <2>3. u \in Seq(S) /\ Len(u) = k /\ \A j \in 1 .. k : u[j] = c[0 + j]
    BY <1>8, <2>1, <2>2, Part
  <2>4. \A j \in 1 .. k : u[j] = b[j]
    <3> SUFFICES ASSUME NEW j \in 1 .. k PROVE u[j] = b[j]
      OBVIOUS
    <3>1. 0 + j = j /\ j \in 1 .. Len(b) + Len(d) /\ j <= Len(b)
      BY <1>5, <1>6
    <3>2. c[j] = b[j]
      BY <1>7, <3>1, Zenon DEF Chained
    <3> QED BY <2>3, <3>1, <3>2
  <2>5. u = b
    BY <1>6, <2>3, <2>4, SeqEqual
  <2>6. 0 + 1 = 1 /\ 0 + k = k
    OBVIOUS
  <2> QED BY <2>1, <2>5, <2>6, Zenon
<1>13. Merged(ms, n, p, emptyPoint) = p
  <2>1. PointMembers = ns
    <3>1. PICK class : class = JointTrajPtMessage
      OBVIOUS
    <3>2. class.load = ms
      BY <1>1, <3>1 DEF JointTrajPtMessage, MessageOf
    <3>3. Members(class) = ns
      BY <1>1, <3>2, MembersAre
    <3> QED BY <3>1, <3>3, Zenon DEF PointMembers
  <2>2. \A m \in PointMembers : \E i \in 1 .. n : ms[i].name = m
    BY <1>3, <2>1
  <2>3. Merged(ms, n, p, emptyPoint) = [m \in PointMembers |->
          IF \E i \in 1 .. n : ms[i].name = m THEN p[m] ELSE emptyPoint[m]]
    BY EmptyPoint, Zenon DEF Merged
  <2>4. Merged(ms, n, p, emptyPoint) = [m \in PointMembers |-> p[m]]
    BY <2>2, <2>3, Zenon
  <2> QED BY <2>4, Zenon DEF IsPoint
<1>14. deserialize(rs, emptyPoint, c) = [ok |-> TRUE, buffer |-> b, object |-> p]
  BY <1>11, <1>12, <1>13, Zenon DEF HasRead
<1> QED BY <1>1, <1>5, <1>8, <1>14, Zenon DEF PointIsRead

\* n points, and their first i.
Points(ps, n, P) == n \in Nat /\ ps \in Seq(P) /\ Len(ps) = n /\ \A p \in P : IsPoint(p)

Adds(a, ps, qs, n) ==
  a = IF n < MAX_NUM_POINTS THEN [ok |-> TRUE, points |-> qs] ELSE [ok |-> FALSE, points |-> ps]

\* addPoint puts a point behind those before, unless they are full.
LEMMA AddsPoint ==
  ASSUME NEW n, NEW ps, NEW P, Points(ps, n, P), NEW p \in P, NEW qs \in Seq(P),
         Len(qs) = n + 1, qs[n + 1] = p, \A i \in 1 .. n : qs[i] = ps[i]
  PROVE  Adds(addPoint(ps, p), ps, qs, n)
<1>1. copyPoint(emptyPoint, p) = p
  BY EmptyPoint, CopiesPoint DEF Points
<1>2. Append(ps, p) = qs
  BY AppendIs DEF Points
<1>3. isFull(ps) = ~(n < MAX_NUM_POINTS)
  BY SizeAssumption DEF isFull, Points
<1> QED BY <1>1, <1>2, <1>3, Zenon DEF addPoint, Adds

\* Points that are added one by one are the trajectory.
LEMMA Adding ==
  ASSUME NEW n \in Nat, NEW ps, NEW P, Points(ps, n, P), n <= MAX_NUM_POINTS,
         NEW a, a = CHOOSE g : g = [i \in 0 .. n |-> IF i = 0 THEN initTraj ELSE addPoint(g[i - 1], ps[i]).points]
  PROVE  a[n] = ps
<1>1. PICK w : w = [i \in 0 .. n |-> [j \in 1 .. i |-> ps[j]]]
  OBVIOUS
<1>2. ASSUME NEW i \in 0 .. n
      PROVE  Points(w[i], i, P) /\ \A j \in 1 .. i : w[i][j] = ps[j]
  <2>1. PICK q : q = w[i]
    OBVIOUS
  <2>2. q = [j \in 1 .. i |-> ps[j]] /\ i \in Nat
    BY <1>1, <2>1
  <2>3. \A j \in 1 .. i : ps[j] \in P
    BY DEF Points
  <2>4. q \in Seq(P) /\ Len(q) = i /\ \A j \in 1 .. i : q[j] = ps[j]
    BY <2>2, <2>3
  <2> QED BY <2>1, <2>2, <2>4, Zenon DEF Points
<1>3. ASSUME NEW i \in 1 .. n PROVE addPoint(w[i - 1], ps[i]).points = w[i]
  <2>1. PICK k \in Nat : k = i - 1
    OBVIOUS
  <2>2. PICK p, q, e : p = w[k] /\ q = w[i] /\ e = ps[i]
    OBVIOUS
  <2>3. k \in 0 .. n /\ i \in 0 .. n /\ i = k + 1 /\ k < MAX_NUM_POINTS /\ k + 1 \in 1 .. i
        /\ \A j \in 1 .. k : j \in 1 .. i
    BY <2>1, SizeAssumption
  <2>4. Points(p, k, P) /\ \A j \in 1 .. k : p[j] = ps[j]
    BY <1>2, <2>2, <2>3, Zenon
  <2>5. Points(q, i, P) /\ \A j \in 1 .. i : q[j] = ps[j]
    BY <1>2, <2>2, <2>3, Zenon
  <2>6. e \in P /\ q \in Seq(P) /\ Len(q) = k + 1 /\ q[k + 1] = e
    BY <2>2, <2>3, <2>5 DEF Points
  <2>7. \A j \in 1 .. k : q[j] = p[j]
    BY <2>3, <2>4, <2>5, Zenon
  <2>8. Adds(addPoint(p, e), p, q, k)
    BY <2>4, <2>6, <2>7, AddsPoint
  <2>9. addPoint(p, e) = [ok |-> TRUE, points |-> q]
    BY <2>3, <2>8, Zenon DEF Adds
  <2> QED BY <2>1, <2>2, <2>9
<1>4. w[0] = initTraj
  <2>1. 0 \in 0 .. n
    OBVIOUS
  <2>2. PICK q : q = w[0]
    OBVIOUS
  <2>3. q \in Seq(P) /\ Len(q) = 0
    BY <1>2, <2>1, <2>2, Zenon DEF Points
  <2>4. q = <<>>
    BY <2>3
  <2> QED BY <2>2, <2>4, Zenon DEF initTraj
<1>5. w = [i \in 0 .. n |-> IF i = 0 THEN initTraj ELSE addPoint(w[i - 1], ps[i]).points]
  <2>1. \A i \in 0 .. n : i # 0 => i \in 1 .. n
    OBVIOUS
  <2>2. \A i \in 0 .. n : w[i] = IF i = 0 THEN initTraj ELSE addPoint(w[i - 1], ps[i]).points
    BY <1>3, <1>4, <2>1, Zenon
  <2>3. w = [i \in 0 .. n |-> w[i]]
    BY <1>1, Zenon
  <2> QED BY <2>2, <2>3, Zenon
<1>6. a = [i \in 0 .. n |-> IF i = 0 THEN initTraj ELSE addPoint(a[i - 1], ps[i]).points]
  BY <1>5, Zenon
<1> DEFINE T == {i \in 0 .. n : a[i] = w[i]}
<1>7. 0 \in T
  <2>1. 0 \in 0 .. n
    OBVIOUS
  <2> QED BY <1>4, <1>6, <2>1, Zenon
<1>8. ASSUME NEW i \in 1 .. n, i - 1 \in T PROVE i \in T
  <2>1. i \in 0 .. n /\ i # 0
    OBVIOUS
  <2>2. a[i - 1] = w[i - 1]
    BY <1>8, Zenon
  <2> QED BY <1>3, <1>6, <2>1, <2>2, Zenon
<1>9. \A i \in 0 .. n : i \in T
  <2> HIDE DEF T
  <2> QED BY <1>7, <1>8, Loop
<1>10. n \in 0 .. n
  OBVIOUS
<1>11. a[n] = w[n]
  BY <1>9, <1>10, Zenon
<1>12. PICK q : q = w[n]
  OBVIOUS
<1>13. q \in Seq(P) /\ Len(q) = n /\ \A j \in 1 .. n : q[j] = ps[j]
  BY <1>2, <1>10, <1>12, Zenon DEF Points
<1>14. q = ps
  BY <1>13, SeqEqual DEF Points
<1> QED BY <1>11, <1>12, <1>14, Zenon

\* A set of bytes can be found for all the points of a trajectory and their number.
LEMMA BytesOfAll ==
  ASSUME NEW n, NEW ps, NEW m, NEW ms, NEW f
  PROVE  \E S : /\ \A i \in 1 .. n : WrittenIn(ms, m, ps[i], S)
                /\ \A j \in 1 .. 4 : <<f, n, j>> \in S
<1> DEFINE Q(i) == CHOOSE S : WrittenIn(ms, m, ps[i], S)
<1>1. \A i \in 1 .. n : WrittenIn(ms, m, ps[i], Q(i))
  <2> SUFFICES ASSUME NEW i \in 1 .. n PROVE WrittenIn(ms, m, ps[i], Q(i))
    OBVIOUS
  <2>1. \E A : WrittenIn(ms, m, ps[i], A)
    BY BytesOf, Zenon
  <2> QED BY <2>1, Zenon
<1>2. PICK U : U = UNION {Q(i) : i \in 1 .. n}
  OBVIOUS
<1>3. PICK B : B = {<<f, n, j>> : j \in 1 .. 4}
  OBVIOUS
<1>4. \A i \in 1 .. n : WrittenIn(ms, m, ps[i], U \union B)
  <2> SUFFICES ASSUME NEW i \in 1 .. n, NEW k \in 1 .. m, NEW j \in 1 .. 4
               PROVE  <<ms[k].name, ps[i][ms[k].name], j>> \in U \union B
    BY Zenon DEF WrittenIn
  <2>1. <<ms[k].name, ps[i][ms[k].name], j>> \in Q(i)
    <3> HIDE DEF Q
    <3> QED BY <1>1, Zenon DEF WrittenIn
  <2>2. <<ms[k].name, ps[i][ms[k].name], j>> \in U
    <3> HIDE DEF Q
    <3> QED BY <1>2, <2>1, Zenon
  <2> QED BY <2>2
<1>5. \A j \in 1 .. 4 : <<f, n, j>> \in U \union B
  BY <1>3
<1> QED BY <1>4, <1>5, Zenon

\* What is read of the last i points: they are in front of each other, the bytes of
\* the others are left.
ReadLast(r, i, n, ps, w) ==
  r = [ok |-> TRUE, buffer |-> w[n - i], points |-> [j \in 1 .. i |-> ps[n - i + j]]]

\* w has the bytes of the first points.
PointsWritten(ps, n, w, S) ==
  /\ w \in [0 .. n -> Seq(S)] /\ w[0] = <<>>
  /\ \A i \in 1 .. n : w[i] = w[i - 1] \o pointBytes(ps[i])
  /\ \A i \in 1 .. n : IsPoint(ps[i]) /\ WrittenIn(JointTrajPtLoad, Len(JointTrajPtLoad), ps[i], S)

\* One point more is read.
LEMMA ReadsPoint ==
  ASSUME NEW n \in Nat, NEW ps, NEW P, Points(ps, n, P), NEW w, NEW S, PointsWritten(ps, n, w, S),
         NEW i \in 1 .. n, NEW r, ReadLast(r, i - 1, n, ps, w)
  PROVE  ReadLast(unloadPoint(r), i, n, ps, w)
<1>1. PICK k \in 1 .. n : k = n - i + 1
  <2>1. n - i + 1 \in 1 .. n
    OBVIOUS
  <2> QED BY <2>1
<1>2. n - i = k - 1 /\ n - (i - 1) = k /\ k - 1 \in 0 .. n /\ k \in 0 .. n
  BY <1>1
<1>3. PICK b, c, d, p : b = w[k - 1] /\ c = w[k] /\ d = pointBytes(p) /\ p = ps[k]
  OBVIOUS
<1>4. /\ b \in Seq(S) /\ c = b \o d /\ IsPoint(p)
      /\ WrittenIn(JointTrajPtLoad, Len(JointTrajPtLoad), p, S)
  <2>1. PICK R : R = Seq(S)
    OBVIOUS
  <2>2. w \in [0 .. n -> R]
    BY <2>1, Zenon DEF PointsWritten
  <2>3. w[k - 1] \in R
    BY <1>2, <2>2
  <2>4. c = b \o d /\ IsPoint(p) /\ WrittenIn(JointTrajPtLoad, Len(JointTrajPtLoad), p, S)
    BY <1>3, Zenon DEF PointsWritten
  <2> QED BY <1>3, <2>1, <2>3, <2>4
<1>5. PointIsRead(b, c, p, S)
  BY <1>3, <1>4, PointRead
<1>6. deserialize(JointTrajPtUnload, emptyPoint, c) = [ok |-> TRUE, buffer |-> b, object |-> p]
  BY <1>5, Zenon DEF PointIsRead
<1>7. PICK q : q = [j \in 1 .. i - 1 |-> ps[k + j]]
  OBVIOUS
<1>8. r = [ok |-> TRUE, buffer |-> c, points |-> q]
  BY <1>2, <1>3, <1>7, Zenon DEF ReadLast
<1>9. PICK u : u = deserialize(JointTrajPtUnload, emptyPoint, c)
  OBVIOUS
<1>10. u.ok /\ u.buffer = b /\ u.object = p
  BY <1>6, <1>9
<1>11. r.ok /\ r.buffer = c /\ r.points = q
  BY <1>8
<1>12. unloadPoint(r) = [ok |-> TRUE, buffer |-> b, points |-> <<p>> \o q]
  BY <1>9, <1>10, <1>11, Zenon DEF unloadPoint, firstFirst
<1>13. PICK a : a = [j \in 1 .. i |-> ps[k - 1 + j]]
  OBVIOUS
<1>14. /\ \A j \in 1 .. n : ps[j] \in P
       /\ Len(ps) = n
  BY DEF Points
<1>15. PICK l \in Nat : l = i - 1
  OBVIOUS
<1>16. q \in Seq(P) /\ Len(q) = l /\ \A j \in 1 .. l : q[j] = ps[k + j]
  <2>1. \A j \in 1 .. l : k + j \in 1 .. n
    BY <1>1, <1>15
  <2>2. \A j \in 1 .. l : ps[k + j] \in P
    BY <1>14, <2>1
  <2> QED BY <1>7, <1>15, <2>2
<1>17. a \in Seq(P) /\ Len(a) = l + 1 /\ \A j \in 1 .. l + 1 : a[j] = ps[k - 1 + j]
  <2>1. \A j \in 1 .. i : k - 1 + j \in 1 .. n
    BY <1>1
  <2>2. \A j \in 1 .. i : ps[k - 1 + j] \in P
    BY <1>14, <2>1
  <2>3. i = l + 1
    BY <1>15
  <2> QED BY <1>13, <2>2, <2>3
<1>18. PICK o : o = <<p>>
  OBVIOUS
<1>19. p \in P /\ o \in Seq(P) /\ Len(o) = 1 /\ o[1] = p
  BY <1>3, <1>14, <1>18
<1>20. PICK z : z = o \o q
  OBVIOUS
<1>21. Chained(z, o, q, P)
  BY <1>16, <1>19, <1>20, Chains
<1>22. z \in Seq(P) /\ Len(z) = 1 + l /\ \A j \in 1 .. 1 + l : z[j] = IF j <= 1 THEN o[j] ELSE q[j - 1]
  BY <1>16, <1>19, <1>21, Zenon DEF Chained
<1>23. ASSUME NEW j \in 1 .. 1 + l PROVE z[j] = a[j]
  <2>1. CASE j = 1
    <3>1. k - 1 + 1 = k /\ j <= 1 /\ j \in 1 .. l + 1
      BY <2>1
    <3>2. z[j] = p /\ a[j] = ps[k]
      BY <1>17, <1>19, <1>22, <2>1, <3>1
    <3> QED BY <1>3, <3>2
  <2>2. CASE j # 1
    <3>1. ~(j <= 1) /\ j - 1 \in 1 .. l /\ k + (j - 1) = k - 1 + j /\ j \in 1 .. l + 1
      BY <2>2
    <3>2. z[j] = ps[k + (j - 1)] /\ a[j] = ps[k - 1 + j]
      BY <1>16, <1>17, <1>22, <3>1
    <3> QED BY <3>1, <3>2
  <2> QED BY <2>1, <2>2
<1>24. z = a
  <2>1. Len(z) = Len(a) /\ Len(z) = 1 + l
    BY <1>17, <1>22
  <2> QED BY <1>17, <1>22, <1>23, <2>1, SeqEqual
<1>25. unloadPoint(r) = [ok |-> TRUE, buffer |-> w[n - i], points |-> [j \in 1 .. i |-> ps[n - i + j]]]
  BY <1>2, <1>3, <1>12, <1>13, <1>18, <1>20, <1>24, Zenon
<1> QED BY <1>25, Zenon DEF ReadLast

\* All points are read.
LEMMA Reading ==
  ASSUME NEW n \in Nat, NEW ps, NEW P, Points(ps, n, P), NEW w, NEW S, PointsWritten(ps, n, w, S),
         NEW b, b = w[n],
         NEW a, a = CHOOSE g : g = [i \in 0 .. n |->
                      IF i = 0 THEN [ok |-> TRUE, buffer |-> b, points |-> <<>>] ELSE unloadPoint(g[i - 1])]
  PROVE  a[n] = [ok |-> TRUE, buffer |-> <<>>, points |-> ps]
<1>1. PICK r : r = [i \in 0 .. n |-> [ok |-> TRUE, buffer |-> w[n - i],
                                     points |-> [j \in 1 .. i |-> ps[n - i + j]]]]
  OBVIOUS
<1>2. ASSUME NEW i \in 0 .. n PROVE ReadLast(r[i], i, n, ps, w)
  BY <1>1, Zenon DEF ReadLast
<1>3. r[0] = [ok |-> TRUE, buffer |-> b, points |-> <<>>]
  <2>1. 0 \in 0 .. n /\ n - 0 = n
    OBVIOUS
  <2>2. PICK z : z = [j \in 1 .. 0 |-> ps[n - 0 + j]]
    OBVIOUS
  <2>3. z = <<>>
    BY <2>2
  <2> QED BY <1>1, <2>1, <2>2, <2>3, Zenon
<1>4. ASSUME NEW i \in 1 .. n PROVE unloadPoint(r[i - 1]) = r[i]
  <2>1. i - 1 \in 0 .. n /\ i \in 0 .. n
    OBVIOUS
  <2>2. PICK x : x = r[i - 1]
    OBVIOUS
  <2>3. ReadLast(x, i - 1, n, ps, w)
    BY <1>2, <2>1, <2>2, Zenon
  <2>4. ReadLast(unloadPoint(x), i, n, ps, w)
    BY <2>3, ReadsPoint
  <2>5. ReadLast(r[i], i, n, ps, w)
    BY <1>2, <2>1, Zenon
  <2> QED BY <2>2, <2>4, <2>5, Zenon DEF ReadLast
<1>5. r = [i \in 0 .. n |-> IF i = 0 THEN [ok |-> TRUE, buffer |-> b, points |-> <<>>] ELSE unloadPoint(r[i - 1])]
  <2>1. \A i \in 0 .. n : i # 0 => i \in 1 .. n
    OBVIOUS
  <2>2. \A i \in 0 .. n : r[i] = IF i = 0 THEN [ok |-> TRUE, buffer |-> b, points |-> <<>>]
                                 ELSE unloadPoint(r[i - 1])
    BY <1>3, <1>4, <2>1, Zenon
  <2>3. r = [i \in 0 .. n |-> r[i]]
    BY <1>1, Zenon
  <2> QED BY <2>2, <2>3, Zenon
<1>6. a = [i \in 0 .. n |-> IF i = 0 THEN [ok |-> TRUE, buffer |-> b, points |-> <<>>] ELSE unloadPoint(a[i - 1])]
  BY <1>5, Zenon
<1> DEFINE T == {i \in 0 .. n : a[i] = r[i]}
<1>7. 0 \in T
  <2>1. 0 \in 0 .. n
    OBVIOUS
  <2> QED BY <1>3, <1>6, <2>1, Zenon
<1>8. ASSUME NEW i \in 1 .. n, i - 1 \in T PROVE i \in T
  <2>1. i \in 0 .. n /\ i # 0
    OBVIOUS
  <2>2. a[i - 1] = r[i - 1]
    BY <1>8, Zenon
  <2> QED BY <1>4, <1>6, <2>1, <2>2, Zenon
<1>9. \A i \in 0 .. n : i \in T
  <2> HIDE DEF T
  <2> QED BY <1>7, <1>8, Loop
<1>10. n \in 0 .. n /\ n - n = 0
  OBVIOUS
<1>11. a[n] = r[n]
  BY <1>9, <1>10, Zenon
<1>12. PICK z : z = [j \in 1 .. n |-> ps[n - n + j]]
  OBVIOUS
<1>13. z = ps
  <2>1. \A j \in 1 .. n : n - n + j = j /\ ps[j] \in P
    BY DEF Points
  <2>2. z \in Seq(P) /\ Len(z) = n /\ \A j \in 1 .. n : z[j] = ps[j]
    BY <1>12, <2>1
  <2> QED BY <2>2, SeqEqual DEF Points
<1>14. a[n] = [ok |-> TRUE, buffer |-> w[0], points |-> ps]
  BY <1>1, <1>10, <1>11, <1>12, <1>13, Zenon
<1>15. w[0] = <<>>
  BY Zenon DEF PointsWritten
<1> QED BY <1>14, <1>15, Zenon

\* A point of a trajectory is given as it is.
LEMMA GetsPoint ==
  ASSUME NEW n, NEW ps, NEW P, Points(ps, n, P), NEW i \in 1 .. n
  PROVE  getPoint(ps, i - 1, emptyPoint) = ps[i] /\ IsPoint(ps[i])
<1>1. i - 1 < Len(ps) /\ (i - 1) + 1 = i
  BY DEF Points
<1>2. IsPoint(ps[i])
  BY DEF Points
<1>3. copyPoint(emptyPoint, ps[i]) = ps[i]
  BY <1>2, EmptyPoint, CopiesPoint
<1> QED BY <1>1, <1>2, <1>3, Zenon DEF getPoint

\* unloadTraj, of the number and what is before it.
UnloadPoints(u, n, b) ==
  LET read[i \in 0 .. n] ==
        IF i = 0 THEN [ok |-> TRUE, buffer |-> b, points |-> <<>>] ELSE unloadPoint(read[i - 1])
      all == read[n]
  IN  IF ~u.ok THEN [ok |-> FALSE, points |-> <<>>] ELSE [ok |-> all.ok, points |-> all.points]

\* A trajectory of any length but zero reads the points it wrote.
LEMMA TrajRead ==
  ASSUME NEW n, NEW ps, NEW P, Points(ps, n, P), n # 0
  PROVE  unloadTraj(loadTraj(ps).buffer) = [ok |-> TRUE, points |-> ps]
<1>1. n \in Nat /\ ps \in Seq(P) /\ Len(ps) = n /\ DOMAIN ps = 1 .. n /\ \A i \in 1 .. n : IsPoint(ps[i])
  BY DEF Points
<1>2. PICK f : f = <<"size_", 0>>
  OBVIOUS
<1>3. PICK S : /\ \A i \in 1 .. n : WrittenIn(JointTrajPtLoad, Len(JointTrajPtLoad), ps[i], S)
               /\ \A j \in 1 .. 4 : <<f, n, j>> \in S
  BY BytesOfAll, Zenon
<1>4. PICK s : s = [i \in 1 .. n |-> pointBytes(ps[i])]
  OBVIOUS
<1>5. PICK R : R = Seq(S)
  OBVIOUS
<1>6. s \in Seq(R) /\ Len(s) = n
  <2>1. ASSUME NEW i \in 1 .. n PROVE pointBytes(ps[i]) \in R
    <3>1. PICK b, p, d, c : b = <<>> /\ p = ps[i] /\ d = pointBytes(p) /\ c = b \o d
      OBVIOUS
    <3>2. b \in Seq(S) /\ IsPoint(p) /\ WrittenIn(JointTrajPtLoad, Len(JointTrajPtLoad), p, S)
      BY <1>1, <1>3, <3>1
    <3>3. d \in Seq(S)
      BY <3>1, <3>2, PointRead
    <3> QED BY <1>5, <3>1, <3>3
  <2> QED BY <1>1, <1>4, <2>1
<1>7. s \in Seq(Seq(S)) /\ n = Len(s)
  BY <1>5, <1>6, Zenon
<1>8. PICK w : Gathered(s, n, w, S)
  BY <1>1, <1>7, Gathers
<1>9. FlattenSeq(s) = w[n]
  BY <1>1, <1>7, <1>8, FlattenIs
<1>10. PointsWritten(ps, n, w, S)
  <2>1. \A i \in 1 .. n : w[i] = w[i - 1] \o pointBytes(ps[i])
    BY <1>4, <1>8, Zenon DEF Gathered
  <2> QED BY <1>1, <1>3, <1>8, <2>1, Zenon DEF Gathered, PointsWritten
<1>11. PICK b, l : b = w[n] /\ l = load(b, f, n, 4)
  OBVIOUS
<1>12. b \in Seq(S)
  <2>1. w \in [0 .. n -> R]
    BY <1>5, <1>8, Zenon DEF Gathered
  <2>2. n \in 0 .. n
    BY <1>1
  <2>3. w[n] \in R
    BY <2>1, <2>2
  <2> QED BY <1>5, <1>11, <2>3
<1>13. Loaded(l, b, f, n, 4, S)
  <2>1. 4 \in {1, 4}
    OBVIOUS
  <2> QED BY <1>3, <1>11, <1>12, <2>1, LoadAppends
<1>14. loadTraj(ps).buffer = l
  <2>1. ps # <<>>
    BY <1>1
  <2>2. [i \in 1 .. n |-> pointBytes(getPoint(ps, i - 1, emptyPoint))] = s
    <3>1. \A i \in 1 .. n : getPoint(ps, i - 1, emptyPoint) = ps[i]
      BY GetsPoint
    <3> QED BY <1>4, <3>1, Zenon
  <2>3. loadTraj(ps) = [ok |-> TRUE, buffer |-> l]
    BY <1>1, <1>2, <1>9, <1>11, <2>1, <2>2, Zenon DEF loadTraj
  <2> QED BY <2>3
<1>15. PICK m \in Nat : m = Len(b)
  BY <1>12
<1>16. l \in Seq(S) /\ Len(l) = m + 4 /\ (\A j \in 1 .. m : l[j] = b[j]) /\ \A j \in 1 .. 4 : l[m + j] = <<f, n, j>>
  BY <1>13, <1>15, Zenon DEF Loaded
<1>17. PICK u : u = unload(l, 4)
  OBVIOUS
<1>18. Taken(u, l, m, 4, S)
  BY <1>16, <1>17, Unloads
<1>19. PICK v, t : v = u.buffer /\ t = u.bytes
  OBVIOUS
<1>20. v = b
  <2>1. v \in Seq(S) /\ Len(v) = m /\ \A j \in 1 .. m : v[j] = b[j]
    BY <1>16, <1>18, <1>19, Zenon DEF Taken
  <2> QED BY <1>12, <1>15, <2>1, SeqEqual
<1>21. Value(t) = n
  <2>1. t \in Seq(S) /\ Len(t) = 4 /\ \A j \in 1 .. 4 : t[j] = <<f, n, j>>
    BY <1>16, <1>18, <1>19, Zenon DEF Taken
  <2>2. 4 \in {1, 4}
    OBVIOUS
  <2> QED BY <2>1, <2>2, ValueOfBytes
<1>22. u.ok
  BY <1>18, Zenon DEF Taken
<1>23. PICK a : a = CHOOSE g : g = [i \in 0 .. n |->
                  IF i = 0 THEN [ok |-> TRUE, buffer |-> b, points |-> <<>>] ELSE unloadPoint(g[i - 1])]
  OBVIOUS
<1>24. a[n] = [ok |-> TRUE, buffer |-> <<>>, points |-> ps]
  BY <1>1, <1>10, <1>11, <1>23, Reading
<1>25. unloadTraj(l) = [ok |-> a[n].ok, points |-> a[n].points]
  <2>1. unloadTraj(l) = UnloadPoints(unload(l, 4), Value(unload(l, 4).bytes), unload(l, 4).buffer)
    BY Zenon DEF unloadTraj, UnloadPoints
  <2>2. unloadTraj(l) = UnloadPoints(u, n, b)
    BY <1>17, <1>19, <1>20, <1>21, <2>1, Zenon
  <2> QED BY <1>22, <1>23, <2>2, Zenon DEF UnloadPoints
<1> QED BY <1>14, <1>24, <1>25

\* A copy of a trajectory is equal to it.
LEMMA TrajCopied ==
  ASSUME NEW n, NEW ps, NEW P, Points(ps, n, P)
  PROVE  copyTraj(ps) = ps /\ equalTraj(ps, ps)
<1>1. n \in Nat /\ ps \in Seq(P) /\ Len(ps) = n /\ \A i \in 1 .. n : IsPoint(ps[i]) /\ ps[i] \in P
  BY DEF Points
<1>2. \A i \in 1 .. n : getPoint(ps, i - 1, emptyPoint) = ps[i]
  BY GetsPoint
<1>3. \A i \in 1 .. n : copyPoint(emptyPoint, ps[i]) = ps[i]
  BY <1>1, EmptyPoint, CopiesPoint
<1>4. copyTraj(ps) = [i \in 1 .. n |-> ps[i]]
  BY <1>1, <1>2, <1>3, Zenon DEF copyTraj
<1>5. [i \in 1 .. n |-> ps[i]] = ps
  BY <1>1
<1>6. equalTraj(ps, ps)
  BY <1>1, <1>2, PointIsEqual, Zenon DEF equalTraj
<1> QED BY <1>4, <1>5, <1>6, Zenon

\* ReadsPoints, of the points ps.
ReadsThePoints(ps, n) ==
  LET added[i \in 0 .. n] == IF i = 0 THEN initTraj ELSE addPoint(added[i - 1], ps[i]).points
      stored == added[n]
  IN /\ unloadTraj(loadTraj(stored).buffer) = [ok |-> TRUE, points |-> ps]
     /\ equalTraj(copyTraj(stored), ps)
     /\ addPoint(stored, ps[1]).ok <=> n < MAX_NUM_POINTS

\* The points of a trajectory of any length but zero.
LEMMA PointsAreRead ==
  ASSUME NEW n \in 1 .. MAX_NUM_POINTS
  PROVE  ReadsPoints(n)
<1>1. n \in Nat /\ n # 0 /\ n <= MAX_NUM_POINTS /\ 1 \in 1 .. n
  BY SizeAssumption
<1>2. PICK ps : ps = [i \in 1 .. n |-> [m \in PointMembers |-> <<i, m>>]]
  OBVIOUS
<1>3. PICK P : P = {ps[i] : i \in 1 .. n}
  OBVIOUS
<1>4. \A i \in 1 .. n : IsPoint(ps[i]) /\ ps[i] \in P
  BY <1>2, <1>3, Zenon DEF IsPoint
<1>5. Points(ps, n, P)
  <2>1. \A p \in P : IsPoint(p)
    BY <1>3, <1>4, Zenon
  <2>2. ps \in Seq(P) /\ Len(ps) = n
    <3>1. ps = [i \in 1 .. n |-> ps[i]]
      BY <1>2, Zenon
    <3> QED BY <1>1, <1>4, <3>1
  <2> QED BY <1>1, <2>1, <2>2, Zenon DEF Points
<1>6. PICK a : a = CHOOSE g : g = [i \in 0 .. n |->
                 IF i = 0 THEN initTraj ELSE addPoint(g[i - 1], ps[i]).points]
  OBVIOUS
<1>7. a[n] = ps
  BY <1>1, <1>5, <1>6, Adding
<1>8. unloadTraj(loadTraj(ps).buffer) = [ok |-> TRUE, points |-> ps]
  BY <1>1, <1>5, TrajRead
<1>9. equalTraj(copyTraj(ps), ps)
  BY <1>5, TrajCopied
<1>10. addPoint(ps, ps[1]).ok <=> n < MAX_NUM_POINTS
  <2>1. PICK p \in P : p = ps[1]
    BY <1>1, <1>4
  <2>2. PICK qs : qs = [i \in 1 .. n + 1 |-> IF i = n + 1 THEN p ELSE ps[i]]
    OBVIOUS
  <2>3. qs \in Seq(P) /\ Len(qs) = n + 1 /\ qs[n + 1] = p /\ \A i \in 1 .. n : qs[i] = ps[i]
    <3>1. \A i \in 1 .. n + 1 : (IF i = n + 1 THEN p ELSE ps[i]) \in P
      BY <1>1, <1>4
    <3> QED BY <1>1, <2>2, <3>1
  <2>4. Adds(addPoint(ps, p), ps, qs, n)
    BY <1>5, <2>3, AddsPoint
  <2>5. PICK x : x = addPoint(ps, p)
    OBVIOUS
  <2>6. x = IF n < MAX_NUM_POINTS THEN [ok |-> TRUE, points |-> qs] ELSE [ok |-> FALSE, points |-> ps]
    BY <2>4, <2>5, Zenon DEF Adds
  <2>7. CASE n < MAX_NUM_POINTS
    <3>1. x.ok
      BY <2>6, <2>7
    <3> QED BY <2>1, <2>5, <2>7, <3>1, Zenon
  <2>8. CASE ~(n < MAX_NUM_POINTS)
    <3>1. x.ok = FALSE
      BY <2>6, <2>8
    <3> QED BY <2>1, <2>5, <2>8, <3>1, Zenon
  <2> QED BY <2>7, <2>8
<1>11. ReadsThePoints(ps, n)
  BY <1>6, <1>7, <1>8, <1>9, <1>10, Zenon DEF ReadsThePoints
<1>12. ReadsPoints(n) <=> ReadsThePoints([i \in 1 .. n |-> [m \in PointMembers |-> <<i, m>>]], n)
  BY Zenon DEF ReadsPoints, ReadsThePoints, PointMembers
<1> QED BY <1>2, <1>11, <1>12, Zenon

-----------------------------------------------------------------------------
(* Marks.                                                                  *)

\* A class that marks its members has a member for the marks, and copies all; its other
\* members have a mark or are compared.
Marks(class, M, copied, compared) ==
  /\ M = Members(class) /\ valid_fields_ \in M
  /\ \A m \in M : m[1] \in copied /\ (m[1] = "valid_fields_" => m = valid_fields_)
  /\ copied = DOMAIN class.init
  /\ compared = copied \ (ValidFields \union {"valid_fields_"})

\* A class that marks its members copies and compares them as its marks say.
LEMMA CopyHasMarks ==
  ASSUME NEW class, NEW M, NEW copied, NEW compared, Marks(class, M, copied, compared)
  PROVE  CopiesMarks(class, copied, compared)
<1>1. /\ M = Members(class) /\ valid_fields_ \in M /\ (\A m \in M : m[1] \in copied)
      /\ (\A m \in M : m[1] = "valid_fields_" => m = valid_fields_)
      /\ copied = DOMAIN class.init
      /\ compared = copied \ (ValidFields \union {"valid_fields_"})
  BY Zenon DEF Marks
<1> SUFFICES ASSUME NEW valid \in SUBSET ValidFields
             PROVE  LET o == [m \in Members(class) |-> IF m = valid_fields_ THEN valid ELSE <<1, m>>]
                        copy == copyFull(initObject(class), o, copied)
                        counts(m) == m[1] \in valid \union (DOMAIN class.init \ ValidFields)
                    IN /\ equalFull(copy, o, compared) /\ copy = o /\ copy = initFull(initObject(class), o, valid)
                       /\ \A m \in Members(class) \ {valid_fields_} :
                            equalFull([copy EXCEPT ![m] = <<2, m>>], o, compared) <=> ~counts(m)
                       /\ \A f \in ValidFields : LET cleared == clearField(copy, f) IN
                            /\ cleared[valid_fields_] = valid \ {f}
                            /\ setField(cleared, f, o) = mark(copy, valid \union {f})
  BY Zenon DEF CopiesMarks
<1>2. PICK o : o = [m \in M |-> IF m = valid_fields_ THEN valid ELSE <<1, m>>]
  OBVIOUS
<1>3. PICK e : e = initObject(class)
  OBVIOUS
<1>4. DOMAIN e = M
  BY <1>1, <1>3, Zenon DEF initObject
<1>5. o[valid_fields_] = valid /\ o = [m \in M |-> o[m]]
  BY <1>1, <1>2, Zenon
<1>6. copyFull(e, o, copied) = o
  <2>1. PICK c : c = copyMembers(e, o, copied)
    OBVIOUS
  <2>2. c = [m \in M |-> IF m[1] \in copied THEN o[m] ELSE e[m]]
    BY <1>4, <2>1, Zenon DEF copyMembers
  <2>3. c = [m \in M |-> o[m]]
    BY <1>1, <2>2, Zenon
  <2>4. c = o
    BY <1>5, <2>3, Zenon
  <2>5. mark(o, valid) = [m \in M |-> IF m = valid_fields_ THEN valid ELSE o[m]]
    BY <1>5, Zenon DEF mark
  <2>6. \A m \in M : (IF m = valid_fields_ THEN valid ELSE o[m]) = o[m]
    BY <1>5, Zenon
  <2>7. mark(o, valid) = [m \in M |-> o[m]]
    BY <2>5, <2>6, Zenon
  <2> QED BY <1>5, <2>1, <2>4, <2>7, Zenon DEF copyFull
<1>7. initFull(e, o, valid) = o
  <2>1. PICK c : c = setFields(e, o)
    OBVIOUS
  <2>2. c = [m \in M |-> IF m = valid_fields_ THEN e[m] \union ValidFields ELSE o[m]]
    BY <1>4, <2>1, Zenon DEF setFields
  <2>3. mark(c, valid) = [m \in M |-> IF m = valid_fields_ THEN valid ELSE c[m]]
    BY <2>2, Zenon DEF mark
  <2>4. \A m \in M : (IF m = valid_fields_ THEN valid ELSE c[m]) = o[m]
    BY <1>5, <2>2, Zenon
  <2>5. mark(c, valid) = [m \in M |-> o[m]]
    BY <2>3, <2>4, Zenon
  <2> QED BY <1>5, <2>1, <2>5, Zenon DEF initFull
<1>8. equalFull(o, o, compared)
  BY Zenon DEF equalFull, equalMembers
<1>9. ASSUME NEW x \in M \ {valid_fields_}
      PROVE  equalFull([o EXCEPT ![x] = <<2, x>>], o, compared)
               <=> ~(x[1] \in valid \union (DOMAIN class.init \ ValidFields))
  <2>1. PICK a : a = [o EXCEPT ![x] = <<2, x>>]
    OBVIOUS
  <2>2. a = [m \in M |-> IF m = x THEN <<2, x>> ELSE o[m]]
    BY <1>5, <2>1, Zenon
  <2>3. a[valid_fields_] = valid /\ a[x] # o[x] /\ \A m \in M : m # x => a[m] = o[m]
    <3>1. a[valid_fields_] = valid
      BY <1>1, <1>5, <2>2, Zenon
    <3>2. a[x] = <<2, x>> /\ o[x] = <<1, x>>
      BY <1>2, <2>2, Zenon
    <3>3. <<2, x>> # <<1, x>>
      OBVIOUS
    <3> QED BY <2>2, <3>1, <3>2, <3>3, Zenon
  <2>4. PICK C : C = compared \union {f \in ValidFields : f \in valid}
    OBVIOUS
  <2>5. equalFull(a, o, compared) <=> \A m \in M : m[1] \in C => a[m] = o[m]
    BY <1>5, <2>2, <2>3, <2>4, Zenon DEF equalFull, equalMembers, is_valid
  <2>6. equalFull(a, o, compared) <=> ~(x[1] \in C)
    BY <2>3, <2>5, Zenon
  <2>7. x[1] \in copied /\ x[1] # "valid_fields_"
    BY <1>1, Zenon
  <2>8. x[1] \in C <=> x[1] \in valid \union (DOMAIN class.init \ ValidFields)
    <3>1. PICK y : y = x[1]
      OBVIOUS
    <3>2. y \in C <=> y \in compared \/ y \in valid
      BY <2>4
    <3>3. y \in compared <=> y \notin ValidFields
      BY <1>1, <2>7, <3>1, Zenon
    <3>4. y \in valid \union (DOMAIN class.init \ ValidFields) <=> y \in valid \/ y \notin ValidFields
      BY <1>1, <2>7, <3>1, Zenon
    <3> QED BY <3>1, <3>2, <3>3, <3>4, Zenon
  <2> QED BY <2>1, <2>6, <2>8, Zenon
<1>10. ASSUME NEW f \in ValidFields
       PROVE  /\ clearField(o, f)[valid_fields_] = valid \ {f}
              /\ setField(clearField(o, f), f, o) = mark(o, valid \union {f})
  <2>1. PICK c : c = clearField(o, f)
    OBVIOUS
  <2>2. c = [m \in M |-> IF m = valid_fields_ THEN o[m] \ {f} ELSE IF m[1] = f THEN 0 ELSE o[m]]
    BY <1>5, <2>1, Zenon DEF clearField
  <2>3. c[valid_fields_] = valid \ {f}
    BY <1>1, <1>5, <2>2, Zenon
  <2>4. setField(c, f, o) = [m \in M |-> IF m = valid_fields_ THEN c[m] \union {f}
                                         ELSE IF m[1] = f THEN o[m] ELSE c[m]]
    BY <2>2, Zenon DEF setField
  <2>5. mark(o, valid \union {f}) = [m \in M |-> IF m = valid_fields_ THEN valid \union {f} ELSE o[m]]
    BY <1>5, Zenon DEF mark
  <2>6. (valid \ {f}) \union {f} = valid \union {f}
    OBVIOUS
  <2>7. \A m \in M : (IF m = valid_fields_ THEN c[m] \union {f} ELSE IF m[1] = f THEN o[m] ELSE c[m])
                       = IF m = valid_fields_ THEN valid \union {f} ELSE o[m]
    <3> SUFFICES ASSUME NEW m \in M
                 PROVE  (IF m = valid_fields_ THEN c[m] \union {f} ELSE IF m[1] = f THEN o[m] ELSE c[m])
                          = IF m = valid_fields_ THEN valid \union {f} ELSE o[m]
      OBVIOUS
    <3>1. m = valid_fields_ => c[m] \union {f} = valid \union {f}
      BY <2>3, <2>6, Zenon
    <3>2. m # valid_fields_ /\ m[1] # f => c[m] = o[m]
      BY <2>2, Zenon
    <3> QED BY <3>1, <3>2, Zenon
  <2>8. setField(c, f, o) = mark(o, valid \union {f})
    BY <2>4, <2>5, <2>7, Zenon
  <2> QED BY <2>1, <2>3, <2>8, Zenon
<1>11. PICK z : z = copyFull(e, o, copied)
  OBVIOUS
<1>12. z = o
  BY <1>6, <1>11, Zenon
<1> QED BY <1>1, <1>2, <1>3, <1>6, <1>7, <1>8, <1>9, <1>10, Zenon

\* JointTrajPtFull is such a class.
LEMMA MarksFull ==
  \E M : Marks(JointTrajPtFullMessage, M, JointTrajPtFullCopied, JointTrajPtFullCompared)
<1>1. PICK c, ms, rs, ns :
        /\ c = JointTrajPtFullMessage /\ ms = JointTrajPtFullLoad /\ rs = JointTrajPtFullUnload
        /\ ns = ({"robot_id_", "sequence_", "valid_fields_", "time_"} \X {0})
                  \union ({"positions_"} \X (1 .. MAX_NUM_JOINTS))
                  \union ({"velocities_"} \X (1 .. MAX_NUM_JOINTS))
                  \union ({"accelerations_"} \X (1 .. MAX_NUM_JOINTS))
  OBVIOUS
<1>2. Block(ms, rs, ns)
  BY <1>1, JointTrajPtFullBlock
<1>3. c.load = ms /\ c.init = JointTrajPtFullInit
  BY <1>1 DEF JointTrajPtFullMessage, MessageOf
<1>4. Members(c) = ns
  BY <1>2, <1>3, MembersAre
<1>5. PICK K : K = {"robot_id_", "sequence_", "valid_fields_", "time_", "positions_", "velocities_", "accelerations_"}
  OBVIOUS
<1>6. DOMAIN JointTrajPtFullInit = K
  BY <1>5 DEF JointTrajPtFullInit
<1>7. ASSUME NEW m \in ns PROVE m[1] \in K /\ (m[1] = "valid_fields_" => m = valid_fields_)
  BY <1>1, <1>5 DEF valid_fields_
<1>8. valid_fields_ \in ns
  BY <1>1 DEF valid_fields_
<1>9. JointTrajPtFullCompared = K \ (ValidFields \union {"valid_fields_"})
  BY <1>5 DEF JointTrajPtFullCompared, ValidFields
<1>10. Marks(c, ns, K, JointTrajPtFullCompared)
  BY <1>3, <1>4, <1>6, <1>7, <1>8, <1>9, Zenon DEF Marks
<1> QED BY <1>1, <1>6, <1>10, Zenon DEF JointTrajPtFullCopied

\* JointFeedback is such a class.
LEMMA MarksFeedback ==
  \E M : Marks(JointFeedbackMessage, M, JointFeedbackCopied, JointFeedbackCompared)
<1>1. PICK c, ms, rs, ns :
        /\ c = JointFeedbackMessage /\ ms = JointFeedbackLoad /\ rs = JointFeedbackUnload
        /\ ns = ({"robot_id_", "valid_fields_", "time_"} \X {0})
                  \union ({"positions_"} \X (1 .. MAX_NUM_JOINTS))
                  \union ({"velocities_"} \X (1 .. MAX_NUM_JOINTS))
                  \union ({"accelerations_"} \X (1 .. MAX_NUM_JOINTS))
  OBVIOUS
<1>2. Block(ms, rs, ns)
  BY <1>1, JointFeedbackBlock
<1>3. c.load = ms /\ c.init = JointFeedbackInit
  BY <1>1 DEF JointFeedbackMessage, MessageOf
<1>4. Members(c) = ns
  BY <1>2, <1>3, MembersAre
<1>5. PICK K : K = {"robot_id_", "valid_fields_", "time_", "positions_", "velocities_", "accelerations_"}
  OBVIOUS
<1>6. DOMAIN JointFeedbackInit = K
  BY <1>5 DEF JointFeedbackInit
<1>7. ASSUME NEW m \in ns PROVE m[1] \in K /\ (m[1] = "valid_fields_" => m = valid_fields_)
  BY <1>1, <1>5 DEF valid_fields_
<1>8. valid_fields_ \in ns
  BY <1>1 DEF valid_fields_
<1>9. JointFeedbackCompared = K \ (ValidFields \union {"valid_fields_"})
  BY <1>5 DEF JointFeedbackCompared, ValidFields
<1>10. Marks(c, ns, K, JointFeedbackCompared)
  BY <1>3, <1>4, <1>6, <1>7, <1>8, <1>9, Zenon DEF Marks
<1> QED BY <1>1, <1>6, <1>10, Zenon DEF JointFeedbackCopied

\* A copy of all the members is the same, and an object with another member is not equal.
Copies(e, o, M, C) ==
  /\ copyMembers(e, o, C) = o /\ equalMembers(o, o, C)
  /\ \A x \in M : LET a == [o EXCEPT ![x] = <<2, x>>] IN ~equalMembers(a, o, C) /\ a # o

\* A copy of all members is the object, and no other object is equal to it.
LEMMA MembersCopied ==
  ASSUME NEW M, NEW e, DOMAIN e = M, NEW o, o = [m \in M |-> <<1, m>>], NEW C, \A m \in M : m[1] \in C
  PROVE  Copies(e, o, M, C)
<1>1. copyMembers(e, o, C) = o
  <2>1. copyMembers(e, o, C) = [m \in M |-> IF m[1] \in C THEN o[m] ELSE e[m]]
    BY Zenon DEF copyMembers
  <2>2. \A m \in M : (IF m[1] \in C THEN o[m] ELSE e[m]) = <<1, m>>
    BY Zenon
  <2> QED BY <2>1, <2>2, Zenon
<1>2. equalMembers(o, o, C)
  BY Zenon DEF equalMembers
<1>3. ASSUME NEW x \in M, NEW a, a = [o EXCEPT ![x] = <<2, x>>] PROVE ~equalMembers(a, o, C) /\ a # o
  <2>1. a = [m \in M |-> IF m = x THEN <<2, x>> ELSE o[m]]
    BY <1>3, Zenon
  <2>2. a[x] # o[x]
    <3>1. a[x] = <<2, x>> /\ o[x] = <<1, x>>
      BY <2>1, Zenon
    <3>2. <<2, x>> # <<1, x>>
      OBVIOUS
    <3> QED BY <3>1, <3>2, Zenon
  <2>3. DOMAIN a = M
    BY <2>1, Zenon
  <2> QED BY <2>2, <2>3, Zenon DEF equalMembers
<1> QED BY <1>1, <1>2, <1>3, Zenon DEF Copies

\* A point with another member is not equal.
LEMMA PointDiffers ==
  ASSUME NEW o, o = [m \in PointMembers |-> <<1, m>>], NEW x \in PointMembers,
         NEW a, a = [o EXCEPT ![x] = <<2, x>>]
  PROVE  ~equalPoint(a, o)
<1>1. a = [m \in PointMembers |-> IF m = x THEN <<2, x>> ELSE o[m]]
  BY Zenon
<1>2. a[x] # o[x]
  <2>1. a[x] = <<2, x>> /\ o[x] = <<1, x>>
    BY <1>1, Zenon
  <2>2. <<2, x>> # <<1, x>>
    OBVIOUS
  <2> QED BY <2>1, <2>2, Zenon
<1>3. CASE x \in {"joint_position_"} \X (1 .. MAX_NUM_JOINTS)
  <2>1. PICK f : f = "joint_position_"
    OBVIOUS
  <2>2. PICK i \in 1 .. MAX_NUM_JOINTS : x = <<f, i>>
    BY <1>3, <2>1
  <2>3. i - 1 \in 0 .. MAX_NUM_JOINTS - 1 /\ i - 1 < MAX_NUM_JOINTS /\ (i - 1) + 1 = i
    BY SizeAssumption
  <2>4. getJoint(a, f, i - 1) = a[x] /\ getJoint(o, f, i - 1) = o[x]
    BY <2>2, <2>3, Zenon DEF getJoint, hasJoint
  <2>5. ~equalJoints(a, o, f)
    BY <1>2, <2>3, <2>4, Zenon DEF equalJoints, JointIndices
  <2> QED BY <2>1, <2>5, Zenon DEF equalPoint
<1>4. CASE x[1] \in JointTrajPtCopied \ {"joint_position_"}
  <2>1. JointTrajPtCompared = JointTrajPtCopied
    BY Zenon DEF JointTrajPtCompared, JointTrajPtCopied
  <2>2. x \in DOMAIN a
    BY <1>1, Zenon
  <2>3. ~equalMembers(a, o, JointTrajPtCompared \ {"joint_position_"})
    BY <1>2, <1>4, <2>1, <2>2, Zenon DEF equalMembers
  <2> QED BY <2>3, Zenon DEF equalPoint
<1> QED BY <1>3, <1>4, PointMember, Zenon

\* The classes without marks copy all their members and compare all of them.
LEMMA CopyHasMembers == CopiesMembers
<1>1. Differs(JointTrajPtMessage, LAMBDA o : copyPoint(initObject(JointTrajPtMessage), o), equalPoint)
  <2>1. PICK o : o = [m \in PointMembers |-> <<1, m>>]
    OBVIOUS
  <2>2. PICK e : e = initObject(JointTrajPtMessage)
    OBVIOUS
  <2>3. copyPoint(e, o) = o
    <3>1. IsPoint(o)
      BY <2>1, Zenon DEF IsPoint
    <3>2. DOMAIN e = PointMembers
      BY <2>2, EmptyPoint, Zenon DEF emptyPoint
    <3> QED BY <3>1, <3>2, CopiesPoint
  <2>4. equalPoint(o, o)
    BY PointIsEqual
  <2>5. \A x \in PointMembers : ~equalPoint([o EXCEPT ![x] = <<2, x>>], o)
    <3> SUFFICES ASSUME NEW x \in PointMembers PROVE ~equalPoint([o EXCEPT ![x] = <<2, x>>], o)
      OBVIOUS
    <3>1. PICK a : a = [o EXCEPT ![x] = <<2, x>>]
      OBVIOUS
    <3>2. ~equalPoint(a, o)
      BY <2>1, <3>1, PointDiffers
    <3> QED BY <3>1, <3>2, Zenon
  <2> QED BY <2>1, <2>2, <2>3, <2>4, <2>5, Zenon DEF Differs, PointMembers
<1>2. Differs(RobotStatusMessage,
              LAMBDA o : copyMembers(initObject(RobotStatusMessage), o, RobotStatusCopied),
              LAMBDA a, b : equalMembers(a, b, RobotStatusCompared))
  <2>1. PICK c, M, e, C, o :
          /\ c = RobotStatusMessage /\ M = Members(c) /\ e = initObject(c)
          /\ C = RobotStatusCopied /\ o = [m \in M |-> <<1, m>>]
    OBVIOUS
  <2>2. C = RobotStatusCompared
    BY <2>1, Zenon DEF RobotStatusCopied, RobotStatusCompared
  <2>3. DOMAIN e = M
    BY <2>1, Zenon DEF initObject
  <2>4. \A m \in M : m[1] \in C
    <3>1. PICK ns : ns = {"drives_powered_", "e_stopped_", "error_code_", "in_error_", "in_motion_",
                          "mode_", "motion_possible_", "trajectory_complete_"} \X {0}
      OBVIOUS
    <3>2. c.load = RobotStatusLoad
      BY <2>1 DEF RobotStatusMessage, MessageOf
    <3>3. Block(c.load, RobotStatusUnload, ns)
      BY <3>1, <3>2, RobotStatusBlock, Zenon
    <3>4. M = ns
      BY <2>1, <3>3, MembersAre
    <3>5. C = {"drives_powered_", "e_stopped_", "error_code_", "in_error_", "in_motion_",
               "mode_", "motion_possible_", "trajectory_complete_"}
      BY <2>1 DEF RobotStatusCopied, RobotStatusInit
    <3> QED BY <3>1, <3>4, <3>5
  <2>5. Copies(e, o, M, C)
    BY <2>1, <2>3, <2>4, MembersCopied
  <2>6. /\ copyMembers(e, o, RobotStatusCopied) = o /\ equalMembers(o, o, RobotStatusCompared)
        /\ \A x \in M : ~equalMembers([o EXCEPT ![x] = <<2, x>>], o, RobotStatusCompared)
    <3>1. /\ copyMembers(e, o, C) = o /\ equalMembers(o, o, C)
          /\ \A x \in M : ~equalMembers([o EXCEPT ![x] = <<2, x>>], o, C)
      BY <2>5, Zenon DEF Copies
    <3>2. C = RobotStatusCopied
      BY <2>1, Zenon
    <3>3. copyMembers(e, o, RobotStatusCopied) = o
      BY <3>1, <3>2, Zenon
    <3>4. equalMembers(o, o, RobotStatusCompared)
      BY <2>2, <3>1, Zenon
    <3>5. \A x \in M : ~equalMembers([o EXCEPT ![x] = <<2, x>>], o, RobotStatusCompared)
      BY <2>2, <3>1, Zenon
    <3> QED BY <3>3, <3>4, <3>5
  <2>7. /\ M = Members(RobotStatusMessage) /\ e = initObject(RobotStatusMessage)
        /\ o = [m \in Members(RobotStatusMessage) |-> <<1, m>>]
    <3>1. M = Members(RobotStatusMessage) /\ e = initObject(RobotStatusMessage)
      BY <2>1, Zenon
    <3>2. o = [m \in M |-> <<1, m>>]
      BY <2>1, Zenon
    <3> QED BY <3>1, <3>2
  <2> QED BY <2>6, <2>7, Zenon DEF Differs
<1>3. Differs(WriteSingleIOMessage,
              LAMBDA o : copyMembers(initObject(WriteSingleIOMessage), o, WriteSingleIOCopied),
              LAMBDA a, b : a = b)
  <2>1. PICK c, M, e, C, o :
          /\ c = WriteSingleIOMessage /\ M = Members(c) /\ e = initObject(c)
          /\ C = WriteSingleIOCopied /\ o = [m \in M |-> <<1, m>>]
    OBVIOUS
  <2>2. DOMAIN e = M
    BY <2>1, Zenon DEF initObject
  <2>3. \A m \in M : m[1] \in C
    <3>1. PICK ns : ns = ({"module_id_", "pin_"} \X {0}) \union {<<"state_", 0>>}
      OBVIOUS
    <3>2. c.load = WriteSingleIOLoad
      BY <2>1 DEF WriteSingleIOMessage, MessageOf
    <3>3. Block(c.load, WriteSingleIOUnload, ns)
      BY <3>1, <3>2, WriteSingleIOBlock, Zenon
    <3>4. M = ns
      BY <2>1, <3>3, MembersAre
    <3>5. C = {"module_id_", "pin_", "state_"}
      BY <2>1 DEF WriteSingleIOCopied, WriteSingleIOInit
    <3> QED BY <3>1, <3>4, <3>5
  <2>4. Copies(e, o, M, C)
    BY <2>1, <2>2, <2>3, MembersCopied
  <2> QED BY <2>1, <2>4, Zenon DEF Differs, Copies
<1> QED BY <1>1, <1>2, <1>3, Zenon DEF CopiesMembers

-----------------------------------------------------------------------------
(* The service nodes.                                                      *)

\* r is a message that was read, with the data d.
IsAsked(r, class, d) == r.ok /\ initTyped(class, r.msg).object = d

\* A request is read as what was asked.
LEMMA RequestRead ==
  ASSUME NEW type \in Types, NEW class, class = Layout[type], NEW d, d = [m \in Members(class) |-> d[m]],
         NEW b, b = serialize(class.load, d), NEW r, r = initFrom(NewMessage, toByteArray(toRequest(type, b)))
  PROVE  IsAsked(r, class, d)
<1>1. PICK ms, rs, ns, i : ms = class.load /\ rs = class.unload /\ ns = Members(class) /\ i = initObject(class)
  OBVIOUS
<1>2. Block(ms, rs, ns)
  BY <1>1, LayoutBlock, Zenon
<1>3. DOMAIN i = ns /\ d = [m \in ns |-> d[m]] /\ b = serialize(ms, d)
  BY <1>1, Zenon DEF initObject
<1>4. PICK f : f = [type |-> type, comm |-> "SERVICE_REQUEST", code |-> "INVALID", valid |-> {},
                    short |-> FALSE, parts |-> 2]
  OBVIOUS
<1>5. f.type = type /\ f.comm = "SERVICE_REQUEST" /\ f.code = "INVALID"
  BY <1>4
<1>6. AnyFrame(f)
  BY <1>4 DEF AnyFrame
<1>7. PICK msg : msg = toRequest(type, b)
  OBVIOUS
<1>8. msg = MessageWith(f, b)
  <2>1. f.comm # "TOPIC"
    BY <1>5
  <2> QED BY <1>5, <1>7, <2>1, Zenon DEF MessageWith
<1>9. PICK S : WrittenIn(ms, Len(ms), d, S) /\ WrittenIn(header, 3, members(msg), S)
  BY BytesOf, Zenon
<1>10. ReadsAll(ms, rs, d, i, b, S)
  BY <1>2, <1>3, <1>9, DataRead
<1>11. b \in Seq(S) /\ deserialize(rs, i, b) = [ok |-> TRUE, object |-> d, buffer |-> <<>>]
  BY <1>10, Zenon DEF ReadsAll
<1>12. Made(msg, f, b)
  BY <1>6, <1>8, <1>11, MakesMessage
<1>13. /\ msg = [x \in MessageFields |-> msg[x]] /\ msg.message_type_ = type
       /\ msg.comm_type_ = "SERVICE_REQUEST" /\ msg.reply_code_ = "INVALID" /\ msg.data_ = b
  <2>1. f.comm # "TOPIC"
    BY <1>5
  <2> QED BY <1>5, <1>12, <2>1, Zenon DEF Made
<1>14. r = [ok |-> validateMessage(msg), msg |-> msg]
  <2>1. msg.data_ \in Seq(S)
    BY <1>11, <1>13, Zenon
  <2>2. PICK c : c = toByteArray(msg)
    OBVIOUS
  <2>3. initFrom(NewMessage, c) = [ok |-> validateMessage(msg), msg |-> msg]
    BY <1>9, <1>13, <2>1, <2>2, MessageRead
  <2> QED BY <1>7, <2>2, <2>3, Zenon
<1>15. validateMessage(msg)
  <2>1. type # "INVALID"
    BY KnownTypes
  <2>2. "SERVICE_REQUEST" # "INVALID" /\ "SERVICE_REQUEST" # "SERVICE_REPLY"
    OBVIOUS
  <2> QED BY <1>13, <2>1, <2>2, Zenon DEF validateMessage
<1>16. r.ok /\ r.msg = msg
  BY <1>14, <1>15
<1>17. initTyped(class, msg) = [ok |-> TRUE, object |-> d, buffer |-> <<>>]
  BY <1>1, <1>11, <1>13, Zenon DEF initTyped
<1>18. initTyped(class, msg).object = d
  BY <1>17
<1> QED BY <1>16, <1>18, Zenon DEF IsAsked

\* Every request asks for what the caller wanted.
LEMMA Asks == AsksForIt
<1>1. ASSUME NEW id, NEW pin, NEW state,
             NEW r, r = initFrom(NewMessage, toByteArray(writeSingleIO(id, pin, state)))
      PROVE  IsAsked(r, WriteSingleIOMessage, membersOf([module_id_ |-> id, pin_ |-> pin, state_ |-> state]))
  <2>1. PICK type, class, data, d, b :
          /\ type = "WRITE_SINGLE_IO" /\ class = WriteSingleIOMessage
          /\ data = [module_id_ |-> id, pin_ |-> pin, state_ |-> state] /\ d = membersOf(data)
          /\ b = serialize(WriteSingleIOLoad, d)
    OBVIOUS
  <2>2. type \in Types /\ class = Layout[type]
    BY <2>1 DEF Types, Layout
  <2>3. class.load = WriteSingleIOLoad
    BY <2>1 DEF WriteSingleIOMessage, MessageOf
  <2>4. PICK ns : ns = ({"module_id_", "pin_"} \X {0}) \union {<<"state_", 0>>}
    OBVIOUS
  <2>5. Members(class) = ns
    <3>1. Block(class.load, WriteSingleIOUnload, ns)
      BY <2>3, <2>4, WriteSingleIOBlock, Zenon
    <3> QED BY <3>1, MembersAre
  <2>6. d = [m \in ns |-> d[m]]
    <3>1. DOMAIN data = {"module_id_", "pin_", "state_"}
      BY <2>1
    <3>2. {<<f, 0>> : f \in {"module_id_", "pin_", "state_"}} = ns
      BY <2>4
    <3>3. d = [m \in ns |-> data[m[1]]]
      BY <2>1, <3>1, <3>2, Zenon DEF membersOf
    <3> QED BY <3>3, Zenon
  <2>7. d = [m \in Members(class) |-> d[m]] /\ b = serialize(class.load, d)
    BY <2>1, <2>3, <2>5, <2>6, Zenon
  <2>8. r = initFrom(NewMessage, toByteArray(toRequest(type, b)))
    BY <1>1, <2>1, Zenon DEF writeSingleIO
  <2>9. IsAsked(r, class, d)
    BY <2>2, <2>7, <2>8, RequestRead
  <2> QED BY <2>1, <2>9, Zenon
<1>2. ASSUME NEW value, NEW r, r = initFrom(NewMessage, toByteArray(setDrivePower(value)))
      PROVE  IsAsked(r, SetDrivePowerMessage, membersOf([drive_power_ |-> value]))
  <2>1. PICK type, class, data, d, b :
          /\ type = "SET_DRIVE_POWER" /\ class = SetDrivePowerMessage
          /\ data = [drive_power_ |-> value] /\ d = membersOf(data)
          /\ b = serialize(SetDrivePowerLoad, d)
    OBVIOUS
  <2>2. type \in Types /\ class = Layout[type]
    BY <2>1 DEF Types, Layout
  <2>3. class.load = SetDrivePowerLoad
    BY <2>1 DEF SetDrivePowerMessage, MessageOf
  <2>4. PICK ns : ns = {<<"drive_power_", 0>>}
    OBVIOUS
  <2>5. Members(class) = ns
    <3>1. Block(class.load, SetDrivePowerUnload, ns)
      BY <2>3, <2>4, SetDrivePowerBlock, Zenon
    <3> QED BY <3>1, MembersAre
  <2>6. d = [m \in ns |-> d[m]]
    <3>1. DOMAIN data = {"drive_power_"}
      BY <2>1
    <3>2. {<<f, 0>> : f \in {"drive_power_"}} = ns
      BY <2>4
    <3>3. d = [m \in ns |-> data[m[1]]]
      BY <2>1, <3>1, <3>2, Zenon DEF membersOf
    <3> QED BY <3>3, Zenon
  <2>7. d = [m \in Members(class) |-> d[m]] /\ b = serialize(class.load, d)
    BY <2>1, <2>3, <2>5, <2>6, Zenon
  <2>8. r = initFrom(NewMessage, toByteArray(toRequest(type, b)))
    BY <1>2, <2>1, Zenon DEF setDrivePower
  <2>9. IsAsked(r, class, d)
    BY <2>2, <2>7, <2>8, RequestRead
  <2> QED BY <2>1, <2>9, Zenon
<1> QED BY <1>1, <1>2, Zenon DEF AsksForIt, IsAsked

\* The reply that came is the answer.
LEMMA Tells == TellsTheAnswer
<1>1. ASSUME NEW type \in {"WRITE_SINGLE_IO", "SET_DRIVE_POWER"}, NEW code \in {"SUCCESS", "FAILURE"}
      PROVE  serviceAnswers(toByteArray(toReply(type, <<>>, code))) = {code}
  <2>1. PICK f : f = [type |-> type, comm |-> "SERVICE_REPLY", code |-> code, valid |-> {},
                      short |-> FALSE, parts |-> 2]
    OBVIOUS
  <2>2. f.type = type /\ f.comm = "SERVICE_REPLY" /\ f.code = code /\ f.comm # "TOPIC" /\ f.comm # "SERVICE_REQUEST"
    BY <2>1
  <2>3. AnyFrame(f)
    <3>1. type \in Types
      BY DEF Types, Layout
    <3> QED BY <2>1, <3>1 DEF AnyFrame
  <2>4. PICK msg, d : msg = toReply(type, d, code) /\ d = <<>>
    OBVIOUS
  <2>5. msg = MessageWith(f, d)
    BY <2>2, <2>4, Zenon DEF MessageWith, toReply
  <2>6. PICK S : WrittenIn(header, 3, members(msg), S)
    BY BytesOf, Zenon
  <2>7. d \in Seq(S)
    BY <2>4
  <2>8. Made(msg, f, d)
    BY <2>3, <2>5, <2>7, MakesMessage
  <2>9. msg = [x \in MessageFields |-> msg[x]] /\ msg.reply_code_ = code /\ msg.data_ = d
    BY <2>2, <2>8, Zenon DEF Made
  <2>10. PICK b : b = toByteArray(msg)
    OBVIOUS
  <2>11. initFrom(NewMessage, b) = [ok |-> validateMessage(msg), msg |-> msg]
    <3>1. msg.data_ \in Seq(S)
      BY <2>7, <2>9, Zenon
    <3> QED BY <2>6, <2>9, <2>10, <3>1, MessageRead
  <2>12. received_(b) = msg
    <3>1. received_(b) = initFrom(NewMessage, b).msg
      BY Zenon DEF received_
    <3> QED BY <2>11, <3>1
  <2>13. code # Garbled
    BY DEF Garbled
  <2>14. serviceAnswers(b) = {ServiceReturnCode(c = "SUCCESS") : c \in {code}}
    BY <2>9, <2>12, <2>13, Zenon DEF serviceAnswers
  <2>15. ServiceReturnCode(code = "SUCCESS") = code
    BY DEF ServiceReturnCode
  <2>16. serviceAnswers(b) = {code}
    BY <2>14, <2>15, Zenon
  <2> QED BY <2>4, <2>10, <2>16, Zenon
<1> QED BY <1>1, Zenon DEF TellsTheAnswer

\* A port that is in range is kept.
LEMMA Connects == ConnectsToPort
<1> SUFFICES ASSUME NEW ip \in Addresses, NEW port \in Ports
             PROVE  /\ initIO(ip, port, TRUE) => ~empty(ip) /\ sin_port(port) = port
                    /\ initSystem(ip, port, TRUE) => ~empty(ip) /\ sin_port(port) = port
  BY Zenon DEF ConnectsToPort
<1>1. port > 0 /\ port <= 65535 => sin_port(port) = port
  BY DEF sin_port, Ports
<1> QED BY <1>1 DEF initIO, initSystem

-----------------------------------------------------------------------------
\* RoundTrip holds whatever the state.
LEMMA EverythingIsRead == RoundTrip
<1>1. ASSUME NEW f \in [type : Types, comm : {"TOPIC"}, code : {"INVALID"}, valid : SUBSET ValidFields,
                        short : BOOLEAN, parts : {2}],
             NEW class, class = Layout[f.type], ~f.short \/ class.load # <<>>
      PROVE  ReadsWhatItWrote(f, class, Object(f, 1, Members(class)))
  BY <1>1, ReadsIt
<1>2. \A n \in 1 .. MAX_NUM_POINTS : ReadsPoints(n)
  BY PointsAreRead
<1>3. \A type \in Types : ReadsFromFront(Layout[type])
  BY ReadsFront
<1>4. CopiesMarks(JointTrajPtFullMessage, JointTrajPtFullCopied, JointTrajPtFullCompared)
  <2>1. PICK M : Marks(JointTrajPtFullMessage, M, JointTrajPtFullCopied, JointTrajPtFullCompared)
    BY MarksFull, Zenon
  <2> QED BY <2>1, CopyHasMarks
<1>5. CopiesMarks(JointFeedbackMessage, JointFeedbackCopied, JointFeedbackCompared)
  <2>1. PICK M : Marks(JointFeedbackMessage, M, JointFeedbackCopied, JointFeedbackCompared)
    BY MarksFeedback, Zenon
  <2> QED BY <2>1, CopyHasMarks
<1>6. \A f \in [type : Types, comm : {"TOPIC"}, code : {"INVALID"}, valid : SUBSET ValidFields,
                 short : BOOLEAN, parts : {2}] :
        LET class == Layout[f.type] IN
        ~f.short \/ class.load # <<>> => ReadsWhatItWrote(f, class, Object(f, 1, Members(class)))
  BY <1>1, Zenon
<1>7. CopiesMembers /\ AsksForIt /\ TellsTheAnswer /\ ConnectsToPort
  BY CopyHasMembers, Asks, Tells, Connects, Zenon
<1> QED BY <1>2, <1>3, <1>4, <1>5, <1>6, <1>7, Zenon DEF RoundTrip

\* What a class writes into a message it reads from there, for arrays and trajectories of
\* any length, and refuses it without its last byte; copies are equal and only copies are;
\* the service nodes ask for what was asked of them and tell what was answered.
THEOREM ReadsWhatWasWritten == Spec => []RoundTrip
BY EverythingIsRead, PTL
=============================================================================
