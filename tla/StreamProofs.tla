---------------------------- MODULE StreamProofs ----------------------------
(***************************************************************************)
(* Theorems about Stream for any size of the buffer, any texts, offsets    *)
(* and lengths: what a stream does is what AbstractFile promises.          *)
(***************************************************************************)
EXTENDS Stream, SequenceTheorems, WellFoundedInduction, TLAPS

Byte == Bytes \cup {Hole}

-----------------------------------------------------------------------------
(* Sequences.                                                              *)

LEMMA PartIs ==
    ASSUME NEW V, NEW q \in Seq(V), NEW m \in Nat, NEW n \in Nat, m <= n, n <= Len(q)
    PROVE  /\ SubSeq(q, m + 1, n) \in Seq(V)
           /\ Len(SubSeq(q, m + 1, n)) = n - m
           /\ \A i \in 1..n - m : SubSeq(q, m + 1, n)[i] = q[m + i]
<1>1. /\ m + 1 \in Int /\ n \in Int /\ Len(q) \in Nat
      /\ \A i \in m + 1 .. n : i \in 1..Len(q)
    BY LenProperties
<1>2. \A i \in m + 1 .. n : q[i] \in V
    BY <1>1, ElementOfSeq
<1>3. /\ SubSeq(q, m + 1, n) \in Seq(V)
      /\ Len(SubSeq(q, m + 1, n)) = IF m + 1 <= n THEN n - (m + 1) + 1 ELSE 0
      /\ \A i \in 1 .. n - (m + 1) + 1 : SubSeq(q, m + 1, n)[i] = q[m + 1 + i - 1]
    BY <1>1, <1>2, SubSeqProperties
<1>4. n - (m + 1) + 1 = n - m /\ \A i \in 1..n - m : m + 1 + i - 1 = m + i
    OBVIOUS
<1>5. m + 1 <= n \/ m = n
    OBVIOUS
<1>6. QED
    BY <1>3, <1>4, <1>5

LEMMA DropIs ==
    ASSUME NEW V, NEW q \in Seq(V), NEW m \in Nat
    PROVE  /\ Drop(q, m) \in Seq(V)
           /\ Len(Drop(q, m)) = IF m <= Len(q) THEN Len(q) - m ELSE 0
           /\ \A i \in 1..Len(q) - m : Drop(q, m)[i] = q[m + i]
<1>1. Len(q) \in Nat
    BY LenProperties
<1>2. CASE m <= Len(q)
    BY <1>1, <1>2, PartIs DEF Drop
<1>3. CASE m > Len(q)
  <2>1. m + 1 \in Int /\ Len(q) \in Int /\ Len(q) < m + 1
      BY <1>1, <1>3
  <2>2. SubSeq(q, m + 1, Len(q)) = << >>
      BY <2>1, SubSeqEmpty
  <2>3. QED
      BY <1>1, <1>3, <2>2, EmptySeq DEF Drop
<1>4. QED
    BY <1>1, <1>2, <1>3

LEMMA MinOfTwo == ASSUME NEW a \in Int, NEW b \in Int PROVE Min({a, b}) = IF a <= b THEN a ELSE b
BY DEF Min

LEMMA MaxOfTwo == ASSUME NEW a \in Int, NEW b \in Int PROVE Max({a, b}) = IF a >= b THEN a ELSE b
BY DEF Max

LEMMA FunctionIsSequence ==
    ASSUME NEW V, NEW n \in Nat, NEW f \in [1..n -> V]
    PROVE  f \in Seq(V) /\ Len(f) = n
<1>1. f \in Seq(V)
    BY SeqDef
<1>2. QED
    BY <1>1, LenProperties

LEMMA OverlayIs ==
    ASSUME NEW c \in Seq(Byte), NEW at \in Nat, NEW b \in Seq(Byte)
    PROVE  /\ Overlay(c, at, b) \in Seq(Byte)
           /\ Len(Overlay(c, at, b)) =
                 IF b # <<>> /\ at + Len(b) > Len(c) THEN at + Len(b) ELSE Len(c)
           /\ \A i \in 1..Len(Overlay(c, at, b)) :
                 Overlay(c, at, b)[i] = IF i \in at + 1 .. at + Len(b) THEN b[i - at]
                                        ELSE IF i <= Len(c) THEN c[i] ELSE Hole
<1>1. Len(c) \in Nat /\ Len(b) \in Nat
    BY LenProperties
<1>2. CASE b = <<>>
  <2>1. Len(b) = 0
      BY <1>2, EmptySeq
  <2>2. QED
      BY <1>1, <1>2, <2>1 DEF Overlay
<1>3. CASE b # <<>>
  <2> DEFINE n == IF at + Len(b) > Len(c) THEN at + Len(b) ELSE Len(c)
             At(i) == IF i \in at + 1 .. at + Len(b) THEN b[i - at]
                      ELSE IF i <= Len(c) THEN c[i] ELSE Hole
  <2>1. n \in Nat
      BY <1>1
  <2>2. Max({Len(c), at + Len(b)}) = n
      BY <1>1, MaxOfTwo
  <2>3. \A i \in 1..n : At(i) \in Byte
    <3>1. TAKE i \in 1..n
    <3>2. CASE i \in at + 1 .. at + Len(b)
      <4>1. i - at \in 1..Len(b)
          BY <1>1, <3>2
      <4>2. QED
          BY <3>2, <4>1, ElementOfSeq
    <3>3. CASE i \notin at + 1 .. at + Len(b) /\ i <= Len(c)
      <4>1. i \in 1..Len(c)
          BY <1>1, <2>1, <3>1, <3>3
      <4>2. QED
          BY <3>3, <4>1, ElementOfSeq
    <3>4. QED
        BY <3>2, <3>3 DEF Byte
  <2>4. Overlay(c, at, b) = [i \in 1..n |-> At(i)]
      BY <1>3, <2>2 DEF Overlay
  <2>5. [i \in 1..n |-> At(i)] \in [1..n -> Byte]
      BY <2>3
  <2> HIDE DEF n, At
  <2>6. Overlay(c, at, b) \in Seq(Byte) /\ Len(Overlay(c, at, b)) = n
      BY <2>1, <2>4, <2>5, FunctionIsSequence
  <2>7. \A i \in 1..n : Overlay(c, at, b)[i] = At(i)
      BY <2>4
  <2>8. QED
      BY <1>3, <2>6, <2>7 DEF n, At
<1>4. QED
    BY <1>2, <1>3

LEMMA EmptyIs ==
    ASSUME NEW V, NEW q \in Seq(V)
    PROVE  q = <<>> <=> Len(q) = 0
BY EmptySeq

LEMMA SameSequence ==
    ASSUME NEW V, NEW p \in Seq(V), NEW q \in Seq(V), Len(p) = Len(q),
           \A i \in 1..Len(p) : p[i] = q[i]
    PROVE  p = q
BY SeqEqual

\* Writing in two parts is writing at once
LEMMA OverlayTwice ==
    ASSUME NEW c \in Seq(Byte), NEW at \in Nat, NEW b \in Seq(Byte), NEW k \in 0..Len(b)
    PROVE  Overlay(Overlay(c, at, SubSeq(b, 1, k)), at + k, Drop(b, k)) = Overlay(c, at, b)
<1> DEFINE x == SubSeq(b, 1, k)
           y == Drop(b, k)
           o == Overlay(c, at, x)
<1>1. Len(c) \in Nat /\ Len(b) \in Nat /\ k \in Nat /\ k <= Len(b) /\ at + k \in Nat
    BY LenProperties
<1>2. x \in Seq(Byte) /\ Len(x) = k /\ \A i \in 1..k : x[i] = b[i]
  <2>1. /\ SubSeq(b, 0 + 1, k) \in Seq(Byte) /\ Len(SubSeq(b, 0 + 1, k)) = k - 0
        /\ \A i \in 1..k - 0 : SubSeq(b, 0 + 1, k)[i] = b[0 + i]
      BY <1>1, PartIs
  <2>2. QED
      BY <1>1, <2>1
<1>3. y \in Seq(Byte) /\ Len(y) = Len(b) - k /\ \A i \in 1..Len(b) - k : y[i] = b[k + i]
    BY <1>1, DropIs
<1> HIDE DEF x, y
<1>4. (x = <<>> <=> k = 0) /\ (y = <<>> <=> Len(b) = k) /\ (b = <<>> <=> Len(b) = 0)
  <2>1. /\ x = <<>> <=> Len(x) = 0
        /\ y = <<>> <=> Len(y) = 0
        /\ b = <<>> <=> Len(b) = 0
      BY <1>2, <1>3, EmptyIs
  <2>2. QED
      BY <1>1, <1>2, <1>3, <2>1
<1>5. /\ o \in Seq(Byte)
      /\ Len(o) = IF x # <<>> /\ at + Len(x) > Len(c) THEN at + Len(x) ELSE Len(c)
      /\ \A i \in 1..Len(o) : o[i] = IF i \in at + 1 .. at + Len(x) THEN x[i - at]
                                     ELSE IF i <= Len(c) THEN c[i] ELSE Hole
    BY <1>2, OverlayIs
<1> HIDE DEF o
<1>6. /\ Overlay(o, at + k, y) \in Seq(Byte)
      /\ Len(Overlay(o, at + k, y)) =
            IF y # <<>> /\ at + k + Len(y) > Len(o) THEN at + k + Len(y) ELSE Len(o)
      /\ \A i \in 1..Len(Overlay(o, at + k, y)) :
            Overlay(o, at + k, y)[i] = IF i \in at + k + 1 .. at + k + Len(y) THEN y[i - (at + k)]
                                       ELSE IF i <= Len(o) THEN o[i] ELSE Hole
    BY SMTT(30), <1>1, <1>3, <1>5, OverlayIs
<1>7. /\ Overlay(c, at, b) \in Seq(Byte)
      /\ Len(Overlay(c, at, b)) =
            IF b # <<>> /\ at + Len(b) > Len(c) THEN at + Len(b) ELSE Len(c)
      /\ \A i \in 1..Len(Overlay(c, at, b)) :
            Overlay(c, at, b)[i] = IF i \in at + 1 .. at + Len(b) THEN b[i - at]
                                   ELSE IF i <= Len(c) THEN c[i] ELSE Hole
    BY OverlayIs
<1>8. Len(Overlay(o, at + k, y)) = Len(Overlay(c, at, b))
    BY <1>1, <1>2, <1>3, <1>4, <1>5, <1>6, <1>7
<1>9. ASSUME NEW i \in 1..Len(Overlay(o, at + k, y))
      PROVE  Overlay(o, at + k, y)[i] = Overlay(c, at, b)[i]
  <2>1. i \in Nat /\ i >= 1 /\ i <= Len(Overlay(c, at, b))
      BY <1>6, <1>8, <1>9, LenProperties
  <2>2. Overlay(c, at, b)[i] = IF i \in at + 1 .. at + Len(b) THEN b[i - at]
                               ELSE IF i <= Len(c) THEN c[i] ELSE Hole
      BY <1>7, <1>8, <1>9
  <2>3. CASE i > at + k /\ i <= at + Len(b)
    <3>1. i - (at + k) \in 1..Len(b) - k /\ k + (i - (at + k)) = i - at
        BY <1>1, <2>1, <2>3
    <3>2. Overlay(o, at + k, y)[i] = y[i - (at + k)]
        BY <1>1, <1>3, <1>6, <1>9, <2>1, <2>3
    <3>3. y[i - (at + k)] = b[i - at]
        BY <1>3, <3>1
    <3>4. i \in at + 1 .. at + Len(b)
        BY <1>1, <2>1, <2>3
    <3>5. QED
        BY <2>2, <3>2, <3>3, <3>4
  <2>4. CASE ~ (i > at + k /\ i <= at + Len(b))
    <3>1. i <= at + k \/ i > at + Len(b)
        BY <1>1, <2>1, <2>4
    <3>2. i \notin at + k + 1 .. at + k + Len(y)
        BY <1>1, <1>3, <2>1, <3>1
    <3>3. Overlay(o, at + k, y)[i] = IF i <= Len(o) THEN o[i] ELSE Hole
        BY <1>6, <1>9, <3>2
    <3>4. CASE i <= Len(o)
      <4>1. i \in 1..Len(o)
          BY <1>5, <2>1, <3>4, LenProperties
      <4>2. o[i] = IF i \in at + 1 .. at + k THEN x[i - at] ELSE IF i <= Len(c) THEN c[i] ELSE Hole
          BY <1>2, <1>5, <4>1
      <4>3. CASE i \in at + 1 .. at + k
        <5>1. i - at \in 1..k /\ i \in at + 1 .. at + Len(b)
            BY <1>1, <2>1, <4>3
        <5>2. QED
            BY <1>2, <2>2, <3>3, <3>4, <4>2, <4>3, <5>1
      <4>4. CASE i \notin at + 1 .. at + k
        <5>1. i \notin at + 1 .. at + Len(b)
            BY <1>1, <2>1, <3>1, <4>4
        <5>2. QED
            BY <2>2, <3>3, <3>4, <4>2, <4>4, <5>1
      <4>5. QED
          BY <4>3, <4>4
    <3>5. CASE i > Len(o)
      <4>1. i > Len(c) /\ i \notin at + 1 .. at + Len(b)
          BY <1>1, <1>2, <1>4, <1>5, <2>1, <3>1, <3>5
      <4>2. ~ (i <= Len(o)) /\ ~ (i <= Len(c))
          BY <1>1, <1>5, <2>1, <3>5, <4>1, LenProperties
      <4>3. QED
          BY <2>2, <3>3, <4>1, <4>2
    <3>6. QED
        BY <1>5, <2>1, <3>4, <3>5, LenProperties
  <2>5. QED
      BY <2>3, <2>4
<1>10. QED
    BY <1>6, <1>7, <1>8, <1>9, SameSequence DEF o, x, y

-----------------------------------------------------------------------------
(* The stream.  What is staged goes to the file where the descriptor       *)
(* stands; what was read ahead is, behind the pushed back characters, what *)
(* the file has just before that place.                                    *)

StreamType ==
    [buffer : Seq(Byte), bufsz : {BufSize}, bufpos : 0..BufSize, bufeof : 0..BufSize,
     writing : BOOLEAN, line : BOOLEAN, error : BOOLEAN, eof : BOOLEAN,
     mode : {"r", "w", "rw"}, seekable : BOOLEAN, file : Seq(Byte), off : Nat, torn : BOOLEAN]

Sane(f) ==
    /\ f \in StreamType
    /\ f.buffer # Unbuffered => Len(f.buffer) = BufSize
    /\ f.mode = "rw" => f.seekable
    /\ f.writing => f.mode # "r"
    /\ ~ f.writing => f.bufpos <= f.bufeof /\ (f.mode = "w" => f.bufpos = f.bufeof)

\* Where reading goes on behind p pushed back characters
Base(f, p) == f.off - (f.bufeof - f.bufpos - p)

Reading(f) == f.buffer # Unbuffered /\ ~ f.writing

ReadAhead(f, p) ==
    /\ p <= f.bufeof - f.bufpos /\ Base(f, p) >= 0
    /\ p < f.bufeof - f.bufpos => f.off <= Len(f.file)
    /\ \A i \in 1 .. f.bufeof - f.bufpos - p : f.buffer[f.bufpos + p + i] = f.file[Base(f, p) + i]

Positioned(f, p) == IF Reading(f) THEN ReadAhead(f, p) ELSE p = 0

\* The inductive invariant
StreamInv == Sane(s) /\ pushed \in Nat /\ (~ s.torn => Positioned(s, pushed))

-----------------------------------------------------------------------------
(* The descriptor takes a part of what it is given, or all, or fails.      *)

\* What no transfer changes
Like(g, f) ==
    /\ g.mode = f.mode /\ g.seekable = f.seekable /\ g.line = f.line
    /\ f.torn => g.torn

SameBuffer(g, f) ==
    /\ g.buffer = f.buffer /\ g.bufpos = f.bufpos /\ g.bufeof = f.bufeof
    /\ g.writing = f.writing /\ g.eof = f.eof

LEMMA PutOutIs ==
    ASSUME NEW f, Sane(f), NEW b \in Seq(Byte)
    PROVE  /\ Sane(PutOut(f, b)) /\ Like(PutOut(f, b), f) /\ SameBuffer(PutOut(f, b), f)
           /\ PutOut(f, b).error = f.error /\ PutOut(f, b).torn = f.torn
           /\ PutOut(f, b).file = Overlay(f.file, f.off, b)
           /\ PutOut(f, b).off = f.off + Len(b)
           /\ PutOut(f, <<>>) = f
<1>1. f \in StreamType
    BY DEF Sane
<1>2. f.file \in Seq(Byte) /\ f.off \in Nat
    BY <1>1 DEF StreamType
<1>3. Overlay(f.file, f.off, b) \in Seq(Byte) /\ Len(b) \in Nat /\ f.off + Len(b) \in Nat
    BY <1>2, OverlayIs, LenProperties
<1>4. PICK c \in Seq(Byte), o \in Nat : c = Overlay(f.file, f.off, b) /\ o = f.off + Len(b)
    BY <1>3
<1>5. PutOut(f, b) = [f EXCEPT !.file = c, !.off = o]
    BY <1>4 DEF PutOut
<1>6. /\ [f EXCEPT !.file = c, !.off = o] \in StreamType
      /\ \A g : g = [f EXCEPT !.file = c, !.off = o] =>
            /\ g.file = c /\ g.off = o /\ Like(g, f) /\ SameBuffer(g, f)
            /\ g.error = f.error /\ g.torn = f.torn
    BY <1>1 DEF StreamType, Like, SameBuffer
<1>7. PutOut(f, <<>>) = f
  <2>1. Overlay(f.file, f.off, <<>>) = f.file
      BY DEF Overlay
  <2>2. Len(<<>>) = 0 /\ f.off + 0 = f.off
      BY <1>2, EmptySeq
  <2>3. PutOut(f, <<>>) = [f EXCEPT !.file = f.file, !.off = f.off]
      BY <2>1, <2>2 DEF PutOut
  <2>4. QED
      BY <1>1, <2>3 DEF StreamType
<1>8. Sane(PutOut(f, b))
    BY <1>5, <1>6 DEF Sane, Like, SameBuffer
<1>9. QED
    BY <1>4, <1>5, <1>6, <1>7, <1>8

LEMMA FullWriteIs ==
    ASSUME NEW f, Sane(f), NEW b \in Seq(Byte), NEW r \in FullWrite(f, b)
    PROVE  /\ Sane(r[1]) /\ Like(r[1], f) /\ SameBuffer(r[1], f) /\ r[1].error = f.error
           /\ r[2] \in -1 .. Len(b)
           /\ r[2] >= 0 => /\ r[1].file = Overlay(f.file, f.off, SubSeq(b, 1, r[2]))
                           /\ r[1].off = f.off + r[2] /\ r[1].torn = f.torn
           /\ r[2] = -1 => r[1].torn \/ (r[1].file = f.file /\ r[1].off = f.off)
<1>1. Len(b) \in Nat /\ f \in StreamType /\ f.torn \in BOOLEAN
    BY LenProperties DEF Sane, StreamType
<1>2. ASSUME NEW k \in 0 .. Len(b)
      PROVE  SubSeq(b, 1, k) \in Seq(Byte) /\ Len(SubSeq(b, 1, k)) = k
  <2>1. k \in Nat /\ k <= Len(b) /\ 0 \in Nat /\ 0 <= k
      BY <1>1, <1>2
  <2>2. SubSeq(b, 0 + 1, k) \in Seq(Byte) /\ Len(SubSeq(b, 0 + 1, k)) = k - 0
      BY <2>1, PartIs
  <2>3. QED
      BY <2>1, <2>2
<1>3. SubSeq(b, 1, Len(b)) = b
    BY SubSeqFull
<1>4. CASE r = <<f, -1>>
    BY <1>1, <1>4 DEF Like, SameBuffer
<1>5. ASSUME NEW k \in 0 .. Len(b), r = <<PutOut(f, SubSeq(b, 1, k)), k>>
      PROVE  /\ Sane(r[1]) /\ Like(r[1], f) /\ SameBuffer(r[1], f) /\ r[1].error = f.error
             /\ r[2] \in -1 .. Len(b) /\ r[2] # -1
             /\ r[1].file = Overlay(f.file, f.off, SubSeq(b, 1, r[2]))
             /\ r[1].off = f.off + r[2] /\ r[1].torn = f.torn
  <2>1. PICK x \in Seq(Byte) : x = SubSeq(b, 1, k) /\ Len(x) = k
      BY <1>2
  <2>2. PICK g : g = PutOut(f, x)
      OBVIOUS
  <2>3. /\ Sane(g) /\ Like(g, f) /\ SameBuffer(g, f) /\ g.error = f.error /\ g.torn = f.torn
        /\ g.file = Overlay(f.file, f.off, x) /\ g.off = f.off + k
      BY <2>1, <2>2, PutOutIs
  <2>4. r[1] = g /\ r[2] = k
      BY <1>5, <2>1, <2>2
  <2>5. k \in -1 .. Len(b) /\ k # -1
      BY <1>1
  <2>6. QED
      BY <2>1, <2>3, <2>4, <2>5
<1>6. ASSUME NEW k \in 0 .. Len(b),
             r = <<[PutOut(f, SubSeq(b, 1, k)) EXCEPT !.torn = @ \/ k > 0], -1>>
      PROVE  /\ Sane(r[1]) /\ Like(r[1], f) /\ SameBuffer(r[1], f) /\ r[1].error = f.error
             /\ r[2] = -1
             /\ r[1].torn \/ (r[1].file = f.file /\ r[1].off = f.off)
  <2>1. PICK g : g = PutOut(f, SubSeq(b, 1, k))
      OBVIOUS
  <2>2. /\ Sane(g) /\ Like(g, f) /\ SameBuffer(g, f) /\ g.error = f.error /\ g.torn = f.torn
        /\ k = 0 => g = f
    <3>1. k = 0 => SubSeq(b, 1, k) = <<>>
        BY <1>2, EmptyIs
    <3>2. QED
        BY <1>2, <2>1, <3>1, PutOutIs
  <2>3. PICK t \in BOOLEAN : t = (g.torn \/ k > 0)
      OBVIOUS
  <2>4. r[1] = [g EXCEPT !.torn = t] /\ r[2] = -1
      BY <1>6, <2>1, <2>3
  <2>5. g \in StreamType
      BY <2>2 DEF Sane
  <2>6. /\ r[1] \in StreamType /\ r[1].torn = t /\ r[1].error = g.error
        /\ r[1].mode = g.mode /\ r[1].seekable = g.seekable /\ r[1].line = g.line
        /\ SameBuffer(r[1], g) /\ r[1].file = g.file /\ r[1].off = g.off
      BY <2>4, <2>5 DEF StreamType, SameBuffer
  <2>7. t \/ k = 0
    <3>1. k > 0 \/ k = 0
        BY <1>1
    <3>2. k > 0 => t
        BY <2>3
    <3>3. QED
        BY <3>1, <3>2
  <2>8. Sane(r[1]) /\ Like(r[1], f) /\ SameBuffer(r[1], f)
      BY <2>2, <2>3, <2>6 DEF Sane, Like, SameBuffer
  <2>9. QED
      BY <2>2, <2>4, <2>6, <2>7, <2>8
<1>7. \/ r = <<f, -1>>
      \/ \E k \in 0 .. Len(b) : r = <<PutOut(f, SubSeq(b, 1, k)), k>>
      \/ \E k \in 0 .. Len(b) :
            r = <<[PutOut(f, SubSeq(b, 1, k)) EXCEPT !.torn = @ \/ k > 0], -1>>
  <2>1. r = <<PutOut(f, b), Len(b)>> => r = <<PutOut(f, SubSeq(b, 1, Len(b))), Len(b)>>
      BY <1>3
  <2>2. Len(b) \in 0 .. Len(b) /\ 0 .. Len(b) - 1 \subseteq 0 .. Len(b)
      BY <1>1
  <2>3. QED
      BY <2>1, <2>2 DEF FullWrite
<1>8. QED
    BY <1>4, <1>5, <1>6, <1>7

-----------------------------------------------------------------------------
(* What is staged and goes out.                                            *)

Staging(f) == f.buffer # Unbuffered /\ f.writing
StagedOf(f) == SubSeq(f.buffer, 1, f.bufpos)

\* What the file is when everything that was accepted has reached it
Content(f) == IF Staging(f) THEN Overlay(f.file, f.off, StagedOf(f)) ELSE f.file

LEMMA StagedIs ==
    ASSUME NEW f, Sane(f), Staging(f), NEW n \in 0 .. f.bufpos
    PROVE  /\ SubSeq(f.buffer, 1, n) \in Seq(Byte) /\ Len(SubSeq(f.buffer, 1, n)) = n
           /\ \A i \in 1 .. n : SubSeq(f.buffer, 1, n)[i] = f.buffer[i]
           /\ f.bufpos \in Nat /\ f.bufpos <= BufSize /\ BufSize \in Nat /\ Len(f.buffer) = BufSize
<1>1. f \in StreamType /\ f.buffer \in Seq(Byte) /\ f.bufpos \in 0 .. BufSize
    BY DEF Sane, StreamType
<1>2. Len(f.buffer) = BufSize /\ BufSize \in Nat
    BY <1>1, LenProperties DEF Sane, Staging
<1>3. n \in Nat /\ n <= Len(f.buffer) /\ 0 \in Nat /\ 0 <= n
    BY <1>1, <1>2
<1>4. /\ SubSeq(f.buffer, 0 + 1, n) \in Seq(Byte) /\ Len(SubSeq(f.buffer, 0 + 1, n)) = n - 0
      /\ \A i \in 1 .. n - 0 : SubSeq(f.buffer, 0 + 1, n)[i] = f.buffer[0 + i]
    BY <1>1, <1>3, PartIs
<1>5. QED
    BY <1>1, <1>2, <1>3, <1>4

LEMMA ConsumeIs ==
    ASSUME NEW f, Sane(f), Staging(f), NEW k \in 0 .. f.bufpos
    PROVE  LET g == Consume(f, k)
           IN  /\ Sane(g) /\ Like(g, f) /\ Staging(g)
               /\ g.bufpos = f.bufpos - k /\ StagedOf(g) = Drop(StagedOf(f), k)
               /\ g.file = f.file /\ g.off = f.off /\ g.torn = f.torn
               /\ g.error = f.error /\ g.eof = f.eof
<1>1. /\ f \in StreamType /\ f.buffer \in Seq(Byte) /\ f.bufpos \in 0 .. BufSize
      /\ f.bufsz = BufSize /\ f.bufeof \in 0 .. BufSize
    BY DEF Sane, StreamType
<1>2. f.bufpos \in 0 .. f.bufpos /\ k \in Nat /\ k <= f.bufpos /\ f.bufpos \in Nat
    BY <1>1
<1>3. /\ StagedOf(f) \in Seq(Byte) /\ Len(StagedOf(f)) = f.bufpos
      /\ \A i \in 1 .. f.bufpos : StagedOf(f)[i] = f.buffer[i]
      /\ BufSize \in Nat /\ Len(f.buffer) = BufSize
    BY <1>1, <1>2, StagedIs DEF StagedOf
<1>4. /\ Drop(StagedOf(f), k) \in Seq(Byte) /\ Len(Drop(StagedOf(f), k)) = f.bufpos - k
  <2>1. PICK q \in Seq(Byte) : q = StagedOf(f) /\ Len(q) = f.bufpos
      BY <1>3
  <2>2. Drop(q, k) \in Seq(Byte) /\ Len(Drop(q, k)) = IF k <= Len(q) THEN Len(q) - k ELSE 0
      BY <1>2, DropIs
  <2>3. QED
      BY <1>2, <2>1, <2>2
<1>5. PICK x \in Seq(Byte) : x = Drop(StagedOf(f), k)
    BY <1>4
<1>6. PICK y \in Seq(Byte) : y = SubSeq(f.buffer, f.bufpos - k + 1, BufSize) /\ Len(y) = BufSize - (f.bufpos - k)
  <2>1. f.bufpos - k \in Nat /\ f.bufpos - k <= BufSize /\ BufSize <= Len(f.buffer)
      BY <1>1, <1>2, <1>3
  <2>2. /\ SubSeq(f.buffer, (f.bufpos - k) + 1, BufSize) \in Seq(Byte)
        /\ Len(SubSeq(f.buffer, (f.bufpos - k) + 1, BufSize)) = BufSize - (f.bufpos - k)
      BY <1>1, <1>3, <2>1, PartIs
  <2>3. QED
      BY <2>2
<1>7. PICK z : z = x \o y
    OBVIOUS
<1>8. z \in Seq(Byte) /\ Len(z) = BufSize /\ \A i \in 1 .. Len(x) : z[i] = x[i]
  <2>1. z \in Seq(Byte) /\ Len(z) = Len(x) + Len(y)
      BY <1>7, ConcatProperties
  <2>2. \A i \in 1 .. Len(x) : z[i] = x[i]
    <3>1. Len(x) \in Nat /\ Len(y) \in Nat
        BY LenProperties
    <3>2. \A i \in 1 .. Len(x) + Len(y) : z[i] = IF i <= Len(x) THEN x[i] ELSE y[i - Len(x)]
        BY <1>7, ConcatProperties
    <3>3. QED
        BY <3>1, <3>2
  <2>3. QED
      BY <1>1, <1>2, <1>3, <1>4, <1>5, <1>6, <2>1, <2>2
<1>9. PICK g : g = Consume(f, k)
    OBVIOUS
<1>10. PICK n \in 0 .. BufSize : n = f.bufpos - k
    BY <1>1, <1>2, <1>3
<1>11. g = [f EXCEPT !.bufpos = n, !.buffer = z]
    BY <1>1, <1>5, <1>6, <1>7, <1>9, <1>10 DEF Consume, StagedOf
<1>12. /\ g \in StreamType /\ g.bufpos = n /\ g.buffer = z /\ g.file = f.file /\ g.off = f.off
       /\ g.torn = f.torn /\ g.error = f.error /\ g.eof = f.eof /\ g.bufeof = f.bufeof
       /\ g.writing = f.writing /\ g.mode = f.mode /\ g.seekable = f.seekable /\ g.line = f.line
    BY <1>1, <1>8, <1>11 DEF StreamType
<1>13. z # <<>>
    BY <1>3, <1>8, EmptyIs DEF Staging, Unbuffered
<1>14. Sane(g) /\ Like(g, f) /\ Staging(g)
    BY <1>8, <1>12, <1>13 DEF Sane, Like, Staging, Unbuffered
<1>15. StagedOf(g) = x
  <2>1. /\ StagedOf(g) \in Seq(Byte) /\ Len(StagedOf(g)) = n
        /\ \A i \in 1 .. n : StagedOf(g)[i] = z[i]
    <3>1. n \in 0 .. g.bufpos
        BY <1>3, <1>12
    <3>2. QED
        BY <1>12, <1>14, <3>1, StagedIs DEF StagedOf
  <2>2. Len(x) = n
      BY <1>4, <1>5, <1>10
  <2>3. QED
      BY <1>8, <2>1, <2>2, SameSequence
<1>16. QED
    BY <1>5, <1>9, <1>10, <1>12, <1>14, <1>15

\* The file takes some of what is staged, and the rest stays staged behind it
LEMMA WriteOutIs ==
    ASSUME NEW f, Sane(f), Staging(f), NEW n \in 0 .. f.bufpos,
           NEW r \in FullWrite(f, SubSeq(f.buffer, 1, n)),
           NEW g, IF r[2] > 0 THEN g = Consume(r[1], r[2])
                  ELSE g = r[1] \/ (r[2] = 0 /\ g = Consume(r[1], 0))
    PROVE  /\ r[2] \in -1 .. n
           /\ Sane(g) /\ Like(g, f) /\ Staging(g) /\ g.error = f.error /\ g.eof = f.eof
           /\ g.bufpos = IF r[2] > 0 THEN f.bufpos - r[2] ELSE f.bufpos
           /\ g.torn \/ (Content(g) = Content(f) /\ g.off + g.bufpos = f.off + f.bufpos)
<1> DEFINE x == SubSeq(f.buffer, 1, n)
           b == StagedOf(f)
<1>1. /\ x \in Seq(Byte) /\ Len(x) = n /\ \A i \in 1 .. n : x[i] = f.buffer[i]
      /\ f.bufpos \in Nat /\ n \in Nat /\ n <= f.bufpos
    BY StagedIs
<1>2. b \in Seq(Byte) /\ Len(b) = f.bufpos /\ \A i \in 1 .. f.bufpos : b[i] = f.buffer[i]
  <2>1. f.bufpos \in 0 .. f.bufpos
      BY <1>1
  <2>2. QED
      BY <2>1, StagedIs DEF StagedOf
<1> HIDE DEF x, b
<1>3. /\ Sane(r[1]) /\ Like(r[1], f) /\ SameBuffer(r[1], f) /\ r[1].error = f.error
      /\ r[2] \in -1 .. n
      /\ r[2] >= 0 => /\ r[1].file = Overlay(f.file, f.off, SubSeq(x, 1, r[2]))
                      /\ r[1].off = f.off + r[2] /\ r[1].torn = f.torn
      /\ r[2] = -1 => r[1].torn \/ (r[1].file = f.file /\ r[1].off = f.off)
  <2>1. r \in FullWrite(f, x)
      BY DEF x
  <2>2. QED
      BY <1>1, <2>1, FullWriteIs
<1>4. PICK h : h = r[1]
    OBVIOUS
<1>5. PICK k \in -1 .. n : k = r[2]
    BY <1>3
<1>6. /\ Staging(h) /\ StagedOf(h) = b /\ StagedOf(f) = b /\ h.bufpos = f.bufpos /\ h.eof = f.eof
      /\ Sane(h) /\ Like(h, f)
    BY <1>3, <1>4 DEF Staging, StagedOf, SameBuffer, b
<1>7. f.file \in Seq(Byte) /\ f.off \in Nat
    BY DEF Sane, StreamType
<1>8. CASE k = -1
  <2>1. g = h
      BY <1>4, <1>5, <1>8
  <2>2. Content(f) = Overlay(f.file, f.off, b) /\ Content(h) = Overlay(h.file, h.off, b)
      BY <1>6 DEF Content
  <2>3. h.torn \/ (h.file = f.file /\ h.off = f.off)
      BY <1>3, <1>4, <1>5, <1>8
  <2>4. QED
      BY <1>1, <1>3, <1>4, <1>5, <1>6, <1>8, <2>1, <2>2, <2>3
<1>9. CASE k >= 0
  <2>1. SubSeq(x, 1, k) = SubSeq(b, 1, k)
    <3>1. k \in 0 .. f.bufpos
        BY <1>1, <1>9
    <3>2. /\ SubSeq(x, 0 + 1, k) \in Seq(Byte) /\ Len(SubSeq(x, 0 + 1, k)) = k - 0
          /\ \A i \in 1 .. k - 0 : SubSeq(x, 0 + 1, k)[i] = x[0 + i]
        BY <1>1, <1>9, PartIs
    <3>3. /\ SubSeq(b, 0 + 1, k) \in Seq(Byte) /\ Len(SubSeq(b, 0 + 1, k)) = k - 0
          /\ \A i \in 1 .. k - 0 : SubSeq(b, 0 + 1, k)[i] = b[0 + i]
        BY <1>1, <1>2, <1>9, PartIs
    <3>4. \A i \in 1 .. k - 0 : x[0 + i] = b[0 + i]
        BY <1>1, <1>2, <1>9
    <3>5. SubSeq(x, 0 + 1, k) = SubSeq(b, 0 + 1, k)
        BY <3>2, <3>3, <3>4, SameSequence
    <3>6. QED
        BY <3>5
  <2>2. /\ h.file = Overlay(f.file, f.off, SubSeq(b, 1, k))
        /\ h.off = f.off + k /\ h.torn = f.torn
      BY <1>3, <1>4, <1>5, <1>9, <2>1
  <2>3. Overlay(h.file, h.off, Drop(b, k)) = Overlay(f.file, f.off, b)
    <3>1. k \in 0 .. Len(b)
        BY <1>1, <1>2, <1>9
    <3>2. Overlay(Overlay(f.file, f.off, SubSeq(b, 1, k)), f.off + k, Drop(b, k))
             = Overlay(f.file, f.off, b)
        BY <1>2, <1>7, <3>1, OverlayTwice
    <3>3. QED
        BY <2>2, <3>2
  <2>4. ASSUME g = Consume(h, k)
        PROVE  /\ Sane(g) /\ Like(g, f) /\ Staging(g) /\ g.error = f.error /\ g.eof = f.eof
               /\ g.bufpos = f.bufpos - k
               /\ Content(g) = Content(f) /\ g.off + g.bufpos = f.off + f.bufpos
    <3>1. k \in 0 .. h.bufpos
        BY <1>1, <1>6, <1>9
    <3>2. /\ Sane(g) /\ Like(g, h) /\ Staging(g)
          /\ g.bufpos = h.bufpos - k /\ StagedOf(g) = Drop(b, k)
          /\ g.file = h.file /\ g.off = h.off /\ g.torn = h.torn
          /\ g.error = h.error /\ g.eof = h.eof
        BY <1>6, <2>4, <3>1, ConsumeIs
    <3>3. Content(g) = Content(f)
        BY <1>6, <2>3, <3>2 DEF Content
    <3>4. Like(g, f)
        BY <1>6, <3>2 DEF Like
    <3>5. g.off + g.bufpos = f.off + f.bufpos
        BY <1>1, <1>6, <1>7, <2>2, <3>2
    <3>6. QED
        BY <1>3, <1>4, <1>6, <3>2, <3>3, <3>4, <3>5
  <2>5. ASSUME g = h, k = 0
        PROVE  Content(g) = Content(f) /\ g.off + g.bufpos = f.off + f.bufpos
    <3>1. Drop(b, 0) = b
        BY <1>2, SubSeqFull DEF Drop
    <3>2. Content(h) = Overlay(h.file, h.off, b)
        BY <1>6 DEF Content
    <3>3. Content(f) = Overlay(f.file, f.off, b)
        BY <1>6 DEF Content
    <3>4. QED
        BY <1>1, <1>6, <1>7, <2>2, <2>3, <2>5, <3>1, <3>2, <3>3
  <2>6. g = Consume(h, k) \/ (g = h /\ k = 0)
      BY <1>4, <1>5, <1>9
  <2>7. f.bufpos - k = IF k > 0 THEN f.bufpos - k ELSE f.bufpos
      BY <1>1, <1>9
  <2>8. QED
      BY <1>1, <1>3, <1>4, <1>5, <1>6, <2>4, <2>5, <2>6, <2>7
<1>10. QED
    BY <1>8, <1>9

-----------------------------------------------------------------------------
(* Flushing.                                                               *)

LEMMA MarkIs ==
    ASSUME NEW f, Sane(f), NEW e \in BOOLEAN
    PROVE  LET g == [f EXCEPT !.error = e]
           IN  /\ Sane(g) /\ Like(g, f) /\ SameBuffer(g, f) /\ g.error = e
               /\ g.file = f.file /\ g.off = f.off /\ g.torn = f.torn
<1>1. f \in StreamType
    BY DEF Sane
<1>2. PICK g : g = [f EXCEPT !.error = e]
    OBVIOUS
<1>3. /\ g \in StreamType /\ g.error = e /\ g.file = f.file /\ g.off = f.off /\ g.torn = f.torn
      /\ SameBuffer(g, f) /\ g.mode = f.mode /\ g.seekable = f.seekable /\ g.line = f.line
    BY <1>1, <1>2 DEF StreamType, SameBuffer
<1>4. Sane(g) /\ Like(g, f)
    BY <1>3 DEF Sane, Like, SameBuffer
<1>5. QED
    BY <1>2, <1>3, <1>4

LEMMA FlushOutputIs ==
    ASSUME NEW f, Sane(f), Staging(f), NEW r \in FlushOutput(f)
    PROVE  /\ r = <<r[1], r[2]>> /\ r[2] \in BOOLEAN
           /\ Sane(r[1]) /\ Like(r[1], f) /\ Staging(r[1]) /\ r[1].eof = f.eof
           /\ IF r[2] THEN r[1].bufpos = 0 ELSE r[1].error
           /\ r[1].torn \/ (Content(r[1]) = Content(f) /\ r[1].off + r[1].bufpos = f.off + f.bufpos)
<1>1. PICK q \in FullWrite(f, SubSeq(f.buffer, 1, f.bufpos)) :
         r = IF q[2] = f.bufpos THEN <<Consume(q[1], q[2]), TRUE>>
             ELSE <<[IF q[2] > 0 THEN Consume(q[1], q[2]) ELSE q[1] EXCEPT !.error = TRUE], FALSE>>
    BY DEF FlushOutput
<1>2. f.bufpos \in Nat /\ f.bufpos \in 0 .. f.bufpos
    BY DEF Sane, StreamType
<1>3. CASE q[2] = f.bufpos
  <2>1. PICK g : g = Consume(q[1], q[2])
      OBVIOUS
  <2>2. IF q[2] > 0 THEN g = Consume(q[1], q[2]) ELSE g = q[1] \/ (q[2] = 0 /\ g = Consume(q[1], 0))
      BY <1>2, <1>3, <2>1
  <2>3. /\ Sane(g) /\ Like(g, f) /\ Staging(g) /\ g.eof = f.eof
        /\ g.bufpos = IF q[2] > 0 THEN f.bufpos - q[2] ELSE f.bufpos
        /\ g.torn \/ (Content(g) = Content(f) /\ g.off + g.bufpos = f.off + f.bufpos)
      BY <1>2, <2>2, WriteOutIs
  <2>4. g.bufpos = 0
      BY <1>2, <1>3, <2>3
  <2>5. r = <<g, TRUE>>
      BY <1>1, <1>3, <2>1
  <2>6. QED
      BY <2>3, <2>4, <2>5
<1>4. CASE q[2] # f.bufpos
  <2>1. PICK g : g = IF q[2] > 0 THEN Consume(q[1], q[2]) ELSE q[1]
      OBVIOUS
  <2>2. IF q[2] > 0 THEN g = Consume(q[1], q[2]) ELSE g = q[1] \/ (q[2] = 0 /\ g = Consume(q[1], 0))
      BY <2>1
  <2>3. /\ Sane(g) /\ Like(g, f) /\ Staging(g) /\ g.eof = f.eof
        /\ g.torn \/ (Content(g) = Content(f) /\ g.off + g.bufpos = f.off + f.bufpos)
      BY <1>2, <2>2, WriteOutIs
  <2>4. PICK h : h = [g EXCEPT !.error = TRUE]
      OBVIOUS
  <2>5. r = <<h, FALSE>>
      BY <1>1, <1>4, <2>1, <2>4
  <2>6. /\ Sane(h) /\ Like(h, g) /\ SameBuffer(h, g) /\ h.error = TRUE
        /\ h.file = g.file /\ h.off = g.off /\ h.torn = g.torn
      BY <2>3, <2>4, MarkIs
  <2>7. Like(h, f) /\ Staging(h) /\ Content(h) = Content(g) /\ h.eof = f.eof /\ h.bufpos = g.bufpos
      BY <2>3, <2>6 DEF Like, Staging, StagedOf, SameBuffer, Content
  <2>8. QED
      BY <2>3, <2>5, <2>6, <2>7
<1>5. QED
    BY <1>3, <1>4

\* Nothing was moved
Still(g, f) == SameBuffer(g, f) /\ g.file = f.file /\ g.off = f.off

\* What was read ahead, and what was pushed back, is given up: reading goes on
\* before the first of the characters pushed back
GivenUp(g, f, p) ==
    /\ Reading(g) /\ g.bufpos = BufSize /\ g.bufeof = BufSize
    /\ g.file = f.file /\ g.eof = f.eof
    /\ g.off = Base(f, p) - p

LEMMA FlushInputIs ==
    ASSUME NEW f, Sane(f), Reading(f), NEW r \in FlushInput(f)
    PROVE  /\ r = <<r[1], r[2]>> /\ r[2] \in BOOLEAN
           /\ Sane(r[1]) /\ Like(r[1], f) /\ r[1].torn = f.torn
           /\ ~ r[2] => r[1].error /\ Still(r[1], f)
           /\ r[2] => IF f.bufpos = f.bufeof \/ ~ f.seekable THEN r[1] = f
                      ELSE \A p \in Nat : GivenUp(r[1], f, p)
<1>1. /\ f \in StreamType /\ f.off \in Nat /\ f.bufpos \in Nat /\ f.bufeof \in Nat
      /\ f.bufsz = BufSize /\ f.torn \in BOOLEAN
    BY DEF Sane, StreamType
<1>2. CASE f.bufpos = f.bufeof \/ ~ f.seekable
  <2>1. r = <<f, TRUE>>
      BY <1>2 DEF FlushInput
  <2>2. Like(f, f)
      BY DEF Like
  <2>3. QED
      BY <1>2, <2>1, <2>2
<1>3. CASE ~ (f.bufpos = f.bufeof \/ ~ f.seekable) /\ f.off + f.bufpos - f.bufeof < 0
  <2>1. r = <<[f EXCEPT !.error = TRUE], FALSE>>
      BY <1>3 DEF FlushInput
  <2>2. PICK g : g = [f EXCEPT !.error = TRUE]
      OBVIOUS
  <2>3. /\ Sane(g) /\ Like(g, f) /\ SameBuffer(g, f) /\ g.error = TRUE
        /\ g.file = f.file /\ g.off = f.off /\ g.torn = f.torn
      BY <2>2, MarkIs
  <2>4. QED
      BY <2>1, <2>2, <2>3 DEF Still
<1>4. CASE ~ (f.bufpos = f.bufeof \/ ~ f.seekable) /\ f.off + f.bufpos - f.bufeof >= 0
  <2>1. PICK to \in Nat : to = f.off + f.bufpos - f.bufeof
      BY <1>1, <1>4
  <2>2. PICK g : g = [f EXCEPT !.off = to, !.bufpos = BufSize, !.bufeof = BufSize]
      OBVIOUS
  <2>3. r = <<g, TRUE>>
    <3>1. ~ (f.off + f.bufpos - f.bufeof < 0)
        BY <1>1, <1>4
    <3>2. g = [f EXCEPT !.off = f.off + f.bufpos - f.bufeof, !.bufpos = f.bufsz, !.bufeof = f.bufsz]
        BY <1>1, <2>1, <2>2
    <3>3. QED
        BY <1>4, <3>1, <3>2 DEF FlushInput
  <2>4. BufSize \in 0 .. BufSize
    <3>1. Len(f.buffer) \in Nat /\ Len(f.buffer) = BufSize
        BY <1>1, LenProperties DEF Sane, Reading, StreamType
    <3>2. QED
        BY <3>1
  <2>5. /\ g \in StreamType /\ g.off = to /\ g.bufpos = BufSize /\ g.bufeof = BufSize
        /\ g.file = f.file /\ g.torn = f.torn /\ g.eof = f.eof /\ g.buffer = f.buffer
        /\ g.mode = f.mode /\ g.seekable = f.seekable /\ g.line = f.line
        /\ g.writing = f.writing
      BY <1>1, <2>1, <2>2, <2>4 DEF StreamType
  <2>6. Sane(g) /\ Like(g, f) /\ Reading(g)
      BY <2>4, <2>5 DEF Sane, Like, Reading
  <2>7. ASSUME NEW p \in Nat PROVE GivenUp(g, f, p)
      BY <1>1, <2>1, <2>5, <2>6, <2>7 DEF GivenUp, Base
  <2>8. QED
      BY <1>4, <2>3, <2>5, <2>6, <2>7
<1>5. QED
    BY <1>1, <1>2, <1>3, <1>4

LEMMA FlushOneIs ==
    ASSUME NEW f, Sane(f), NEW r \in FlushOne(f)
    PROVE  /\ r = <<r[1], r[2]>> /\ r[2] \in BOOLEAN
           /\ Sane(r[1]) /\ Like(r[1], f) /\ r[1].eof = f.eof
           /\ ~ r[2] => r[1].error
           /\ f.buffer = Unbuffered => r[1] = f /\ r[2]
           /\ Staging(f) => /\ Staging(r[1])
                            /\ r[2] => r[1].bufpos = 0
                            /\ r[1].torn \/ /\ Content(r[1]) = Content(f)
                                            /\ r[1].off + r[1].bufpos = f.off + f.bufpos
           /\ Reading(f) => /\ r[1].torn = f.torn
                            /\ ~ r[2] => Still(r[1], f)
                            /\ r[2] => IF f.bufpos = f.bufeof \/ ~ f.seekable THEN r[1] = f
                                       ELSE \A p \in Nat : GivenUp(r[1], f, p)
<1>1. f.writing \in BOOLEAN
    BY DEF Sane, StreamType
<1>2. CASE f.buffer = Unbuffered
  <2>1. r = <<f, TRUE>>
      BY <1>2 DEF FlushOne
  <2>2. Like(f, f)
      BY DEF Like
  <2>3. QED
      BY <1>2, <2>1, <2>2 DEF Staging, Reading
<1>3. CASE f.buffer # Unbuffered /\ f.writing
  <2>1. Staging(f) /\ ~ Reading(f)
      BY <1>3 DEF Staging, Reading
  <2>2. r \in FlushOutput(f)
      BY <1>3 DEF FlushOne
  <2>3. /\ r = <<r[1], r[2]>> /\ r[2] \in BOOLEAN
        /\ Sane(r[1]) /\ Like(r[1], f) /\ Staging(r[1]) /\ r[1].eof = f.eof
        /\ IF r[2] THEN r[1].bufpos = 0 ELSE r[1].error
        /\ r[1].torn \/ (Content(r[1]) = Content(f) /\ r[1].off + r[1].bufpos = f.off + f.bufpos)
      BY <2>1, <2>2, FlushOutputIs
  <2>4. QED
      BY <1>3, <2>1, <2>3
<1>4. CASE f.buffer # Unbuffered /\ ~ f.writing
  <2>1. Reading(f) /\ ~ Staging(f)
      BY <1>4 DEF Staging, Reading
  <2>2. r \in FlushInput(f)
      BY <1>4 DEF FlushOne
  <2>3. /\ r = <<r[1], r[2]>> /\ r[2] \in BOOLEAN
        /\ Sane(r[1]) /\ Like(r[1], f) /\ r[1].torn = f.torn
        /\ ~ r[2] => r[1].error /\ Still(r[1], f)
        /\ r[2] => IF f.bufpos = f.bufeof \/ ~ f.seekable THEN r[1] = f
                   ELSE \A p \in Nat : GivenUp(r[1], f, p)
      BY <2>1, <2>2, FlushInputIs
  <2>4. r[1].eof = f.eof
    <3>1. ~ r[2] => r[1].eof = f.eof
        BY <2>3 DEF Still, SameBuffer
    <3>2. r[2] => r[1].eof = f.eof
      <4>1. GivenUp(r[1], f, 0) => r[1].eof = f.eof
          BY DEF GivenUp
      <4>2. QED
          BY <2>3, <4>1
    <3>3. QED
        BY <2>3, <3>1, <3>2
  <2>5. QED
      BY <1>4, <2>1, <2>3, <2>4
<1>5. QED
    BY <1>1, <1>2, <1>3, <1>4

-----------------------------------------------------------------------------
(* What the callers see of a stream, with p characters pushed back.        *)

Spot(f, p) ==
    IF f.buffer = Unbuffered THEN f.off
    ELSE IF f.writing THEN f.off + f.bufpos ELSE Base(f, p)
Back(f, p) == IF Reading(f) THEN SubSeq(f.buffer, f.bufpos + 1, f.bufpos + p) ELSE <<>>

FileContent == IF Buffering /\ s.writing THEN Overlay(s.file, s.off, Staged) ELSE s.file
FileBase == IF ~ Buffering THEN s.off
            ELSE IF s.writing THEN s.off + s.bufpos ELSE s.off - (Len(Unread) - pushed)
FileBack == IF Buffering /\ ~ s.writing THEN SubSeq(Unread, 1, pushed) ELSE <<>>

LEMMA BackIs ==
    ASSUME NEW f, Sane(f), NEW p \in Nat, Positioned(f, p)
    PROVE  /\ Back(f, p) \in Seq(Byte) /\ Len(Back(f, p)) = p
           /\ \A i \in 1 .. p : Back(f, p)[i] = f.buffer[f.bufpos + i]
<1>1. CASE Reading(f)
  <2>1. /\ f.buffer \in Seq(Byte) /\ f.bufpos \in Nat /\ f.bufeof \in Nat /\ f.bufeof <= BufSize
        /\ Len(f.buffer) = BufSize /\ p <= f.bufeof - f.bufpos /\ BufSize \in Nat
    <3>1. f.buffer \in Seq(Byte) /\ f.bufpos \in 0 .. BufSize /\ f.bufeof \in 0 .. BufSize
        BY DEF Sane, StreamType
    <3>2. Len(f.buffer) \in Nat /\ Len(f.buffer) = BufSize
        BY <1>1, <3>1, LenProperties DEF Sane, Reading
    <3>3. p <= f.bufeof - f.bufpos
        BY <1>1 DEF Positioned, ReadAhead
    <3>4. QED
        BY <3>1, <3>2, <3>3
  <2>2. f.bufpos + p \in Nat /\ f.bufpos <= f.bufpos + p /\ f.bufpos + p <= Len(f.buffer)
      BY <2>1
  <2>3. PICK n \in Nat : n = f.bufpos + p
      BY <2>2
  <2>4. /\ SubSeq(f.buffer, f.bufpos + 1, n) \in Seq(Byte)
        /\ Len(SubSeq(f.buffer, f.bufpos + 1, n)) = n - f.bufpos
        /\ \A i \in 1 .. n - f.bufpos : SubSeq(f.buffer, f.bufpos + 1, n)[i] = f.buffer[f.bufpos + i]
    <3>1. PICK q \in Seq(Byte), m \in Nat : q = f.buffer /\ m = f.bufpos /\ m <= n /\ n <= Len(q)
        BY <2>1, <2>2, <2>3
    <3>2. m <= n /\ n <= Len(q)
        BY <3>1
    <3>3. /\ SubSeq(q, m + 1, n) \in Seq(Byte) /\ Len(SubSeq(q, m + 1, n)) = n - m
          /\ \A i \in 1 .. n - m : SubSeq(q, m + 1, n)[i] = q[m + i]
        BY <3>2, PartIs
    <3>4. QED
        BY <3>1, <3>3
  <2>5. n - f.bufpos = p
      BY <2>1, <2>3
  <2>6. Back(f, p) = SubSeq(f.buffer, f.bufpos + 1, n)
      BY <1>1, <2>3 DEF Back
  <2>7. QED
      BY <2>4, <2>5, <2>6
<1>2. CASE ~ Reading(f)
  <2>1. p = 0 /\ Back(f, p) = <<>>
      BY <1>2 DEF Positioned, Back
  <2>2. <<>> \in Seq(Byte) /\ Len(<<>>) = 0
      BY EmptySeq
  <2>3. \A i \in 1 .. p : FALSE
      BY <2>1
  <2>4. QED
      BY <2>1, <2>2, <2>3
<1>3. QED
    BY <1>1, <1>2

LEMMA ShownIs ==
    Sane(s) /\ pushed \in Nat /\ Positioned(s, pushed) =>
        FileContent = Content(s) /\ FileBase = Spot(s, pushed) /\ FileBack = Back(s, pushed)
<1> SUFFICES ASSUME Sane(s), pushed \in Nat, Positioned(s, pushed)
             PROVE  FileContent = Content(s) /\ FileBase = Spot(s, pushed) /\ FileBack = Back(s, pushed)
    OBVIOUS
<1>1. s.writing \in BOOLEAN
    BY DEF Sane, StreamType
<1>2. FileContent = Content(s)
    BY DEF FileContent, Content, Staging, StagedOf, Staged, Buffering
<1>3. CASE ~ Reading(s)
  <2>1. s.buffer = Unbuffered \/ s.writing
      BY <1>3 DEF Reading
  <2>2. FileBase = Spot(s, pushed)
      BY <2>1 DEF FileBase, Spot, Buffering
  <2>3. FileBack = Back(s, pushed)
      BY <1>3 DEF FileBack, Back, Reading, Buffering
  <2>4. QED
      BY <1>2, <2>2, <2>3
<1>4. CASE Reading(s)
  <2>1. /\ s.buffer \in Seq(Byte) /\ s.bufpos \in 0 .. BufSize /\ s.bufeof \in 0 .. BufSize
        /\ s.bufpos <= s.bufeof /\ s.off \in Nat
      BY <1>4 DEF Sane, StreamType, Reading
  <2>2. Len(s.buffer) = BufSize /\ BufSize \in Nat
      BY <1>4, <2>1, LenProperties DEF Sane, Reading
  <2>3. /\ s.bufpos \in Nat /\ s.bufeof \in Nat /\ s.bufpos <= s.bufeof /\ s.bufeof <= Len(s.buffer)
        /\ pushed <= s.bufeof - s.bufpos
      BY <1>4, <2>1, <2>2 DEF Positioned, ReadAhead
  <2>4. /\ Unread \in Seq(Byte) /\ Len(Unread) = s.bufeof - s.bufpos
        /\ \A i \in 1 .. s.bufeof - s.bufpos : Unread[i] = s.buffer[s.bufpos + i]
    <3>1. /\ SubSeq(s.buffer, s.bufpos + 1, s.bufeof) \in Seq(Byte)
          /\ Len(SubSeq(s.buffer, s.bufpos + 1, s.bufeof)) = s.bufeof - s.bufpos
          /\ \A i \in 1 .. s.bufeof - s.bufpos :
                SubSeq(s.buffer, s.bufpos + 1, s.bufeof)[i] = s.buffer[s.bufpos + i]
      <4>1. PICK q \in Seq(Byte), m \in Nat, n \in Nat :
               q = s.buffer /\ m = s.bufpos /\ n = s.bufeof /\ m <= n /\ n <= Len(q)
          BY <2>1, <2>3
      <4>2. m <= n /\ n <= Len(q)
          BY <4>1
      <4>3. /\ SubSeq(q, m + 1, n) \in Seq(Byte) /\ Len(SubSeq(q, m + 1, n)) = n - m
            /\ \A i \in 1 .. n - m : SubSeq(q, m + 1, n)[i] = q[m + i]
          BY <4>2, PartIs
      <4>4. QED
          BY <4>1, <4>3
    <3>2. QED
        BY <3>1 DEF Unread
  <2>5. FileBase = Spot(s, pushed)
      BY <1>4, <2>1, <2>3, <2>4 DEF FileBase, Spot, Base, Reading, Buffering
  <2>6. /\ SubSeq(Unread, 1, pushed) \in Seq(Byte) /\ Len(SubSeq(Unread, 1, pushed)) = pushed
        /\ \A i \in 1 .. pushed : SubSeq(Unread, 1, pushed)[i] = s.buffer[s.bufpos + i]
    <3>1. 0 \in Nat /\ 0 <= pushed /\ pushed <= Len(Unread)
        BY <2>3, <2>4
    <3>2. /\ SubSeq(Unread, 0 + 1, pushed) \in Seq(Byte) /\ Len(SubSeq(Unread, 0 + 1, pushed)) = pushed - 0
          /\ \A i \in 1 .. pushed - 0 : SubSeq(Unread, 0 + 1, pushed)[i] = Unread[0 + i]
        BY <2>4, <3>1, PartIs
    <3>3. \A i \in 1 .. pushed : Unread[i] = s.buffer[s.bufpos + i]
        BY <2>3, <2>4
    <3>4. QED
        BY <3>2, <3>3
  <2>7. SubSeq(Unread, 1, pushed) = Back(s, pushed)
      BY <2>6, BackIs, SameSequence
  <2>8. FileBack = Back(s, pushed)
      BY <1>4, <2>7 DEF FileBack, Reading, Buffering
  <2>9. QED
      BY <1>2, <2>5, <2>8
<1>5. QED
    BY <1>2, <1>3, <1>4

LEMMA CleanedIs ==
    ASSUME NEW f, Sane(f)
    PROVE  LET g == Cleaned(f)
           IN  /\ Sane(g) /\ g.mode = f.mode /\ g.seekable = f.seekable /\ g.torn = f.torn
               /\ g.error = f.error /\ g.eof = f.eof /\ g.file = f.file /\ g.off = f.off
               /\ Content(g) = Content(f)
               /\ \A p \in Nat : Spot(g, p) = Spot(f, p)
               /\ \A p \in Nat : Positioned(f, p) => Positioned(g, p) /\ Back(g, p) = Back(f, p)
<1> DEFINE In(i) == i \in (IF f.writing THEN 1 ELSE f.bufpos + 1) .. (IF f.writing THEN f.bufpos ELSE f.bufeof)
<1>1. /\ f \in StreamType /\ f.buffer \in Seq(Byte) /\ f.bufpos \in 0 .. BufSize
      /\ f.bufeof \in 0 .. BufSize /\ f.writing \in BOOLEAN
    BY DEF Sane, StreamType
<1>2. Len(f.buffer) \in Nat /\ DOMAIN f.buffer = 1 .. Len(f.buffer) /\ Hole \in Byte
    BY <1>1, LenProperties DEF Byte
<1>3. PICK n \in Nat : n = Len(f.buffer)
    BY <1>2
<1>4. PICK z : z = [i \in 1 .. n |-> IF In(i) THEN f.buffer[i] ELSE Hole]
    OBVIOUS
<1>5. z \in [1 .. n -> Byte]
  <2>1. \A i \in 1 .. n : f.buffer[i] \in Byte
      BY <1>1, <1>3, ElementOfSeq
  <2>2. QED
      BY <1>2, <1>4, <2>1
<1>6. z \in Seq(Byte) /\ Len(z) = n
    BY <1>5, FunctionIsSequence
<1>7. \A i \in 1 .. n : In(i) => z[i] = f.buffer[i]
    BY <1>4
<1>8. PICK g : g = [f EXCEPT !.buffer = z]
    OBVIOUS
<1>9. g = Cleaned(f)
    BY <1>2, <1>3, <1>4, <1>8 DEF Cleaned
<1>10. /\ g \in StreamType /\ g.buffer = z /\ g.bufpos = f.bufpos /\ g.bufeof = f.bufeof
       /\ g.writing = f.writing /\ g.mode = f.mode /\ g.seekable = f.seekable /\ g.torn = f.torn
       /\ g.error = f.error /\ g.eof = f.eof /\ g.file = f.file /\ g.off = f.off
    BY <1>1, <1>6, <1>8 DEF StreamType
<1>11. z = Unbuffered <=> f.buffer = Unbuffered
    BY <1>1, <1>3, <1>6, EmptyIs DEF Unbuffered
<1>12. /\ Sane(g) /\ (Staging(g) <=> Staging(f)) /\ (Reading(g) <=> Reading(f))
       /\ \A p \in Nat : Spot(g, p) = Spot(f, p)
    BY <1>3, <1>6, <1>10, <1>11 DEF Sane, Staging, Reading, Spot, Base
<1>13. Content(g) = Content(f)
  <2>1. CASE Staging(f)
    <3>1. f.bufpos \in 0 .. f.bufpos /\ f.bufpos \in 0 .. g.bufpos
        BY <1>1, <1>10, <2>1, StagedIs
    <3>2. /\ StagedOf(f) \in Seq(Byte) /\ Len(StagedOf(f)) = f.bufpos
          /\ \A i \in 1 .. f.bufpos : StagedOf(f)[i] = f.buffer[i]
          /\ f.bufpos <= BufSize /\ Len(f.buffer) = BufSize /\ BufSize \in Nat
        BY <2>1, <3>1, StagedIs DEF StagedOf
    <3>3. /\ StagedOf(g) \in Seq(Byte) /\ Len(StagedOf(g)) = f.bufpos
          /\ \A i \in 1 .. f.bufpos : StagedOf(g)[i] = z[i]
        BY <1>10, <1>12, <2>1, <3>1, StagedIs DEF StagedOf
    <3>4. \A i \in 1 .. f.bufpos : In(i) /\ i \in 1 .. n
        BY <1>1, <1>3, <2>1, <3>2 DEF Staging
    <3>5. StagedOf(g) = StagedOf(f)
        BY <1>7, <3>2, <3>3, <3>4, SameSequence
    <3>6. QED
        BY <1>10, <1>12, <3>5 DEF Content
  <2>2. CASE ~ Staging(f)
      BY <1>10, <1>12, <2>2 DEF Content
  <2>3. QED
      BY <2>1, <2>2
<1>14. ASSUME NEW p \in Nat, Positioned(f, p)
       PROVE  Positioned(g, p) /\ Back(g, p) = Back(f, p)
  <2>1. CASE Reading(f)
    <3>1. /\ f.bufpos \in Nat /\ f.bufeof \in Nat /\ f.bufeof <= n /\ ~ f.writing
      <4>1. n = BufSize
          BY <1>3, <2>1 DEF Sane, Reading
      <4>2. QED
          BY <1>1, <2>1, <4>1 DEF Reading
    <3>2. \A i \in 1 .. f.bufeof - f.bufpos :
              f.bufpos + i \in 1 .. n /\ In(f.bufpos + i)
        BY <3>1
    <3>3. \A i \in 1 .. f.bufeof - f.bufpos : z[f.bufpos + i] = f.buffer[f.bufpos + i]
        BY <1>7, <3>2
    <3>4. ReadAhead(f, p) /\ p <= f.bufeof - f.bufpos
        BY <1>14, <2>1 DEF Positioned, ReadAhead
    <3>5. \A i \in 1 .. f.bufeof - f.bufpos - p :
              z[f.bufpos + p + i] = f.buffer[f.bufpos + p + i]
      <4>1. TAKE i \in 1 .. f.bufeof - f.bufpos - p
      <4>2. p + i \in 1 .. f.bufeof - f.bufpos /\ f.bufpos + (p + i) = f.bufpos + p + i
          BY <3>1, <3>4
      <4>3. QED
          BY <3>3, <4>2
    <3>6. ReadAhead(g, p)
        BY <1>10, <3>4, <3>5 DEF ReadAhead, Base
    <3>7. Positioned(g, p)
        BY <1>12, <2>1, <3>6 DEF Positioned
    <3>8. /\ Back(f, p) \in Seq(Byte) /\ Len(Back(f, p)) = p
          /\ \A i \in 1 .. p : Back(f, p)[i] = f.buffer[f.bufpos + i]
        BY <1>14, BackIs
    <3>9. /\ Back(g, p) \in Seq(Byte) /\ Len(Back(g, p)) = p
          /\ \A i \in 1 .. p : Back(g, p)[i] = z[f.bufpos + i]
        BY <1>10, <1>12, <3>7, BackIs
    <3>10. 1 .. p \subseteq 1 .. f.bufeof - f.bufpos
        BY <3>1, <3>4
    <3>11. Back(g, p) = Back(f, p)
        BY <3>3, <3>8, <3>9, <3>10, SameSequence
    <3>12. QED
        BY <3>7, <3>11
  <2>2. CASE ~ Reading(f)
      BY <1>12, <1>14, <2>2 DEF Positioned, Back
  <2>3. QED
      BY <2>1, <2>2
<1>15. QED
    BY <1>9, <1>10, <1>12, <1>13, <1>14

-----------------------------------------------------------------------------
(* The end of a call, and what AbstractFile asks of it.                    *)

LEMMA DoneIs ==
    ASSUME NEW f, Sane(f), NEW n \in Nat, NEW r, Done(f, n, r),
           NEW p \in Nat, p = Min({n, UnreadOf(f)}), f.torn \/ Positioned(f, p)
    PROVE  /\ StreamInv' /\ res' = r
           /\ s'.file = f.file /\ s'.seekable = f.seekable /\ s'.torn = f.torn
           /\ s'.error = f.error /\ s'.eof = f.eof
           /\ ~ f.torn => /\ FileContent' = Content(f)
                          /\ FileBase' = Spot(f, p) /\ FileBack' = Back(f, p)
<1>1. s' = Cleaned(f) /\ res' = r /\ pushed' = p
    BY DEF Done
<1>2. PICK g : g = Cleaned(f)
    OBVIOUS
<1>3. /\ Sane(g) /\ g.mode = f.mode /\ g.seekable = f.seekable /\ g.torn = f.torn
      /\ g.error = f.error /\ g.eof = f.eof /\ g.file = f.file /\ g.off = f.off
      /\ Content(g) = Content(f) /\ Spot(g, p) = Spot(f, p)
      /\ Positioned(f, p) => Positioned(g, p) /\ Back(g, p) = Back(f, p)
    BY <1>2, CleanedIs
<1>4. s' = g
    BY <1>1, <1>2
<1>5. StreamInv'
    BY <1>1, <1>3, <1>4 DEF StreamInv
<1>6. ASSUME ~ f.torn
      PROVE  FileContent' = Content(f) /\ FileBase' = Spot(f, p) /\ FileBack' = Back(f, p)
  <2>1. Sane(s') /\ pushed' \in Nat /\ Positioned(s', pushed')
      BY <1>1, <1>3, <1>4, <1>6
  <2>2. /\ FileContent' = Content(s')
        /\ FileBase' = Spot(s', pushed') /\ FileBack' = Back(s', pushed')
    <3>1. (Sane(s) /\ pushed \in Nat /\ Positioned(s, pushed) =>
             FileContent = Content(s) /\ FileBase = Spot(s, pushed) /\ FileBack = Back(s, pushed))'
        BY ShownIs, PTL
    <3>2. QED
        BY <2>1, <3>1
  <2>3. QED
      BY <1>1, <1>3, <1>4, <1>6, <2>2
<1>7. QED
    BY <1>1, <1>3, <1>4, <1>5, <1>6

LEMMA AbstractOverlay ==
    ASSUME NEW c \in Seq(Byte), NEW at \in Nat, NEW b \in Seq(Byte)
    PROVE  Abstract!Overlay(c, at, b) = Overlay(c, at, b)
<1>1. Len(c) \in Nat /\ Len(b) \in Nat
    BY LenProperties
<1>2. Max({Len(c), at + Len(b)}) = IF at + Len(b) > Len(c) THEN at + Len(b) ELSE Len(c)
    BY <1>1, MaxOfTwo
<1>3. PICK n \in Nat : n = IF at + Len(b) > Len(c) THEN at + Len(b) ELSE Len(c)
    BY <1>1
<1>4. \A i \in 1 .. n : i \in at + 1 .. at + Len(b) <=> i > at /\ i <= at + Len(b)
    BY <1>1
<1>5. QED
    BY <1>2, <1>3, <1>4 DEF Abstract!Overlay, Overlay

Tell == FileBase - Len(FileBack)

LEMMA AbstractWrite ==
    ASSUME res'.op = "write", NEW t \in Nat, t = Tell, NEW c \in Seq(Byte), c = FileContent,
           NEW x \in Seq(Byte), x = SubSeq(res'.asked, 1, res'.done),
           FileContent' = Overlay(c, t, x), FileBase' = t + res'.done, FileBack' = <<>>,
           res'.done < Len(res'.asked) => s'.error, s'.eof = s.eof
    PROVE  Abstract!Write
<1>1. FileContent' = Abstract!Overlay(FileContent, t, SubSeq(res'.asked, 1, res'.done))
    BY AbstractOverlay
<1>2. t = Abstract!Tell
    BY DEF Abstract!Tell, Tell, FileBase, FileBack
<1>3. QED
    BY <1>1, <1>2 DEF Abstract!Write, FileContent, FileBase, FileBack

LEMMA AbstractSettled ==
    ASSUME Tell >= 0, FileBase' = Tell, FileBack' = <<>>, FileContent' = FileContent
    PROVE  Abstract!Settled
BY DEF Abstract!Settled, Abstract!Tell, Tell, FileContent, FileBase, FileBack

LEMMA AbstractFlush ==
    ASSUME res'.op = "flush", res'.ok => s'.file = FileContent', s'.eof = s.eof,
           IF s.seekable THEN Abstract!Settled
           ELSE FileContent' = FileContent /\ FileBase' = FileBase /\ FileBack' = FileBack
    PROVE  Abstract!Flush
BY DEF Abstract!Flush, FileContent, FileBase, FileBack

LEMMA AbstractSeek ==
    ASSUME res'.op = "seek", s.seekable, FileBack' = <<>>, FileContent' = FileContent,
           IF res'.ok THEN FileBase' = res'.to /\ ~ s'.eof /\ s'.file = FileContent'
           ELSE Abstract!Settled /\ s'.eof = s.eof
    PROVE  Abstract!Seek
BY DEF Abstract!Seek, FileContent, FileBase, FileBack

LEMMA AbstractUnread ==
    ASSUME res'.op = "unread", res'.ok, FileBack' = <<res'.byte>> \o FileBack, ~ s'.eof,
           FileContent' = FileContent, FileBase' = FileBase
    PROVE  Abstract!Unread
BY DEF Abstract!Unread, FileContent, FileBase, FileBack

LEMMA AbstractPosition ==
    ASSUME res'.op = "tell", res'.ok = s.seekable, res'.ok => res'.to = Tell, s'.eof = s.eof,
           FileContent' = FileContent, FileBase' = FileBase, FileBack' = FileBack
    PROVE  Abstract!Position
BY DEF Abstract!Position, Abstract!Tell, Tell, FileContent, FileBase, FileBack

LEMMA AbstractNothing ==
    ASSUME res'.op \in {"write", "seek", "flush", "unread", "other"},
           res'.op = "write" => res'.done = 0 /\ s'.error,
           res'.op \in {"seek", "flush", "unread"} => ~ res'.ok,
           s'.eof => s.eof,
           FileContent' = FileContent, FileBase' = FileBase, FileBack' = FileBack
    PROVE  Abstract!Nothing
BY DEF Abstract!Nothing, FileContent, FileBase, FileBack

LEMMA AbstractRead ==
    ASSUME res'.op = "read",
           NEW a, a = FileBack \o SubSeq(FileContent, FileBase + 1, Len(FileContent)),
           NEW k, k = Len(res'.bytes), k <= Len(a), res'.bytes = SubSeq(a, 1, k),
           k < res'.asked => s'.eof \/ s'.error,
           FileBack' = Drop(FileBack, k),
           FileBase' = IF k > Len(FileBack) THEN FileBase + k - Len(FileBack) ELSE FileBase,
           s'.eof /\ ~ s.eof => k = Len(a) \/ s'.error,
           FileContent' = FileContent
    PROVE  Abstract!Read
BY DEF Abstract!Read, Abstract!Ahead, Abstract!Drop, Drop, FileContent, FileBase, FileBack

-----------------------------------------------------------------------------
(* fflush() and the calls that begin with a flush.                         *)

LEMMA UnreadIs ==
    ASSUME NEW f, Sane(f), NEW n \in Nat
    PROVE  /\ UnreadOf(f) \in Nat
           /\ Reading(f) => UnreadOf(f) = f.bufeof - f.bufpos
           /\ ~ Reading(f) => UnreadOf(f) = 0
           /\ Min({n, UnreadOf(f)}) = IF n <= UnreadOf(f) THEN n ELSE UnreadOf(f)
           /\ Positioned(f, n) => Min({n, UnreadOf(f)}) = n
<1>1. f.bufpos \in Nat /\ f.bufeof \in Nat /\ f.writing \in BOOLEAN
    BY DEF Sane, StreamType
<1>2. /\ Reading(f) => UnreadOf(f) = f.bufeof - f.bufpos
      /\ ~ Reading(f) => UnreadOf(f) = 0
    BY DEF Reading, UnreadOf
<1>3. Reading(f) => f.bufpos <= f.bufeof
    BY DEF Reading, Sane
<1>4. UnreadOf(f) \in Nat
    BY <1>1, <1>2, <1>3
<1>5. Min({n, UnreadOf(f)}) = IF n <= UnreadOf(f) THEN n ELSE UnreadOf(f)
    BY <1>4, MinOfTwo
<1>6. Positioned(f, n) => n <= UnreadOf(f)
    BY <1>2, <1>4 DEF Positioned, ReadAhead
<1>7. QED
    BY <1>2, <1>4, <1>5, <1>6

LEMMA SpotIs ==
    ASSUME NEW f, Sane(f), NEW p \in Nat, Positioned(f, p)
    PROVE  Spot(f, p) \in Nat /\ Content(f) \in Seq(Byte) /\ f.file \in Seq(Byte)
<1>1. /\ f.file \in Seq(Byte) /\ f.off \in Nat /\ f.bufpos \in Nat /\ f.bufeof \in Nat
      /\ f.writing \in BOOLEAN
    BY DEF Sane, StreamType
<1>2. Content(f) \in Seq(Byte)
  <2>1. CASE Staging(f)
    <3>1. f.bufpos \in 0 .. f.bufpos
        BY <1>1
    <3>2. StagedOf(f) \in Seq(Byte)
        BY <2>1, <3>1, StagedIs DEF StagedOf
    <3>3. QED
        BY <1>1, <2>1, <3>2, OverlayIs DEF Content
  <2>2. CASE ~ Staging(f)
      BY <1>1, <2>2 DEF Content
  <2>3. QED
      BY <2>1, <2>2
<1>3. Reading(f) => Base(f, p) \in Nat
  <2>1. Base(f, p) \in Int
      BY <1>1 DEF Base
  <2>2. Reading(f) => Base(f, p) >= 0
      BY DEF Positioned, ReadAhead
  <2>3. QED
      BY <2>1, <2>2
<1>4. Spot(f, p) \in Nat
    BY <1>1, <1>3 DEF Spot, Reading
<1>5. QED
    BY <1>1, <1>2, <1>4

\* A stream that stayed as it was shows the same
LEMMA StillIs ==
    ASSUME NEW f, NEW g, Sane(f), Sane(g), Still(g, f), NEW p \in Nat, Positioned(f, p)
    PROVE  /\ Positioned(g, p) /\ Content(g) = Content(f)
           /\ Spot(g, p) = Spot(f, p) /\ Back(g, p) = Back(f, p)
BY DEF Still, SameBuffer, Positioned, Reading, ReadAhead, Base, Content, Staging, StagedOf, Spot, Back

LEMMA AfterFlush ==
    ASSUME NEW f, Sane(f), NEW p \in Nat, Positioned(f, p), NEW r \in FlushOne(f), ~ r[1].torn
    PROVE  /\ Content(r[1]) = Content(f)
           /\ IF r[2] /\ f.seekable
              THEN /\ Positioned(r[1], 0) /\ Back(r[1], 0) = <<>>
                   /\ Min({p, UnreadOf(r[1])}) = 0
                   /\ Spot(r[1], 0) = Spot(f, p) - Len(Back(f, p))
                   /\ r[1].bufpos = r[1].bufeof \/ ~ Reading(r[1])
              ELSE /\ Positioned(r[1], p) /\ Min({p, UnreadOf(r[1])}) = p
                   /\ Spot(r[1], p) = Spot(f, p) /\ Back(r[1], p) = Back(f, p)
           /\ r[2] => r[1].file = Content(f)
<1>1. /\ f.file \in Seq(Byte) /\ f.off \in Nat /\ f.bufpos \in Nat /\ f.bufeof \in Nat
      /\ f.writing \in BOOLEAN
    BY DEF Sane, StreamType
<1>2. PICK g : g = r[1]
    OBVIOUS
<1>3. Sane(g) /\ Like(g, f) /\ r[2] \in BOOLEAN /\ ~ g.torn
    BY <1>2, FlushOneIs
<1>4. Spot(f, p) \in Nat /\ Len(Back(f, p)) = p
    BY SpotIs, BackIs
<1>5. ASSUME g = f
      PROVE  Positioned(g, p) /\ Min({p, UnreadOf(g)}) = p
    BY <1>5, UnreadIs
<1>6. CASE f.buffer = Unbuffered
  <2>1. g = f
      BY <1>2, <1>6, FlushOneIs
  <2>2. ~ Reading(f) /\ ~ Staging(f) /\ p = 0
      BY <1>6 DEF Reading, Staging, Positioned
  <2>3. Content(f) = f.file
      BY <2>2 DEF Content
  <2>4. Back(f, 0) = <<>> /\ Len(Back(f, p)) = 0
      BY <1>4, <2>2 DEF Back
  <2>5. QED
      BY <1>2, <1>4, <1>5, <2>1, <2>2, <2>3, <2>4
<1>7. CASE f.buffer # Unbuffered /\ f.writing
  <2>1. Staging(f) /\ ~ Reading(f) /\ p = 0
      BY <1>7 DEF Staging, Reading, Positioned
  <2>2. /\ Staging(g) /\ Content(g) = Content(f) /\ g.off + g.bufpos = f.off + f.bufpos
        /\ r[2] => g.bufpos = 0
      BY <1>2, <1>3, <2>1, FlushOneIs
  <2>3. ~ Reading(g) /\ Positioned(g, 0) /\ Back(g, 0) = <<>> /\ Back(f, 0) = <<>>
      BY <2>1, <2>2 DEF Reading, Staging, Positioned, Back
  <2>4. UnreadOf(g) = 0 /\ Min({p, UnreadOf(g)}) = 0
      BY <1>3, <2>1, <2>3, UnreadIs
  <2>5. Spot(g, 0) = Spot(f, 0)
      BY <2>1, <2>2 DEF Spot, Staging
  <2>6. r[2] => g.file = Content(g)
    <3>1. ASSUME r[2] PROVE Content(g) = g.file
      <4>1. g.bufpos = 0 /\ 0 \in 0 .. g.bufpos
          BY <2>2, <3>1
      <4>2. StagedOf(g) \in Seq(Byte) /\ Len(StagedOf(g)) = 0
          BY <1>3, <2>2, <4>1, StagedIs DEF StagedOf
      <4>3. StagedOf(g) = <<>>
          BY <4>2, EmptyIs
      <4>4. QED
          BY <2>2, <4>3 DEF Content, Overlay
    <3>2. QED
        BY <3>1
  <2>7. Spot(f, p) - Len(Back(f, p)) = Spot(f, 0)
      BY <1>4, <2>1
  <2>8. QED
      BY <1>2, <2>1, <2>2, <2>3, <2>4, <2>5, <2>6, <2>7
<1>8. CASE f.buffer # Unbuffered /\ ~ f.writing
  <2>1. Reading(f) /\ ~ Staging(f) /\ Content(f) = f.file
      BY <1>8 DEF Reading, Staging, Content
  <2>2. /\ ~ r[2] => Still(g, f)
        /\ r[2] => IF f.bufpos = f.bufeof \/ ~ f.seekable THEN g = f ELSE GivenUp(g, f, p)
      BY <1>2, <2>1, FlushOneIs
  <2>3. CASE ~ r[2]
    <3>1. /\ Positioned(g, p) /\ Content(g) = Content(f)
          /\ Spot(g, p) = Spot(f, p) /\ Back(g, p) = Back(f, p)
        BY <1>3, <2>2, <2>3, StillIs
    <3>2. QED
        BY <1>2, <1>3, <2>3, <3>1, UnreadIs
  <2>4. CASE r[2] /\ (f.bufpos = f.bufeof \/ ~ f.seekable)
    <3>1. g = f
        BY <2>2, <2>4
    <3>2. ASSUME f.bufpos = f.bufeof
          PROVE  p = 0 /\ Back(f, 0) = <<>>
      <4>1. p = 0
          BY <1>1, <2>1, <3>2 DEF Positioned, ReadAhead
      <4>2. Back(f, p) \in Seq(Byte) /\ Len(Back(f, p)) = 0
          BY <4>1, BackIs
      <4>3. QED
          BY <4>1, <4>2, EmptyIs
    <3>3. QED
        BY <1>2, <1>4, <1>5, <2>1, <2>4, <3>1, <3>2
  <2>5. CASE r[2] /\ ~ (f.bufpos = f.bufeof \/ ~ f.seekable)
    <3>1. /\ Reading(g) /\ g.bufpos = BufSize /\ g.bufeof = BufSize
          /\ g.file = f.file /\ g.off = Base(f, p) - p
        BY <2>2, <2>5 DEF GivenUp
    <3>2. g.off \in Nat /\ BufSize \in Nat
      <4>1. f.buffer \in Seq(Byte) /\ Len(f.buffer) = BufSize
          BY <1>8 DEF Sane, StreamType
      <4>2. QED
          BY <1>3, <4>1, LenProperties DEF Sane, StreamType
    <3>3. Base(g, 0) = g.off
        BY <1>1, <3>1, <3>2 DEF Base
    <3>4. ReadAhead(g, 0) /\ Positioned(g, 0)
        BY <1>1, <3>1, <3>2, <3>3 DEF ReadAhead, Positioned
    <3>5. Back(g, 0) = <<>>
      <4>1. Back(g, 0) \in Seq(Byte) /\ Len(Back(g, 0)) = 0
          BY <1>3, <3>4, BackIs
      <4>2. QED
          BY <4>1, EmptyIs
    <3>6. Min({p, UnreadOf(g)}) = 0
      <4>1. UnreadOf(g) = 0
        <5>1. UnreadOf(g) = g.bufeof - g.bufpos
            BY <1>3, <3>1, UnreadIs
        <5>2. QED
            BY <3>1, <3>2, <5>1
      <4>2. QED
          BY <1>3, <4>1, UnreadIs
    <3>7. Spot(g, 0) = g.off /\ Spot(f, p) = Base(f, p)
        BY <2>1, <3>1, <3>3 DEF Spot, Reading
    <3>8. Content(g) = g.file
        BY <3>1 DEF Content, Reading, Staging
    <3>9. QED
        BY <1>2, <1>4, <2>1, <2>5, <3>1, <3>4, <3>5, <3>6, <3>7, <3>8
  <2>6. QED
      BY <1>3, <2>3, <2>4, <2>5
<1>9. QED
    BY <1>1, <1>6, <1>7, <1>8

-----------------------------------------------------------------------------
(* The calls keep the invariant and do what AbstractFile says.             *)

LEMMA AbstractStep ==
    ASSUME s'.seekable = s.seekable,
           \/ s'.torn \/ Abstract!Read \/ Abstract!Write \/ Abstract!Flush \/ Abstract!Seek
           \/ Abstract!Unread \/ Abstract!Position \/ Abstract!Nothing
    PROVE  Abstract!Next
BY DEF Abstract!Next

LEMMA Here ==
    ASSUME StreamInv, ~ s.torn
    PROVE  /\ Sane(s) /\ pushed \in Nat /\ Positioned(s, pushed)
           /\ FileContent = Content(s) /\ FileBase = Spot(s, pushed) /\ FileBack = Back(s, pushed)
           /\ Content(s) \in Seq(Byte) /\ Spot(s, pushed) \in Nat
           /\ Back(s, pushed) \in Seq(Byte) /\ Len(Back(s, pushed)) = pushed
           /\ UnreadOf(s) \in Nat /\ Min({pushed, UnreadOf(s)}) = pushed
<1>1. Sane(s) /\ pushed \in Nat /\ Positioned(s, pushed)
    BY DEF StreamInv
<1>2. QED
    BY <1>1, ShownIs, SpotIs, BackIs, UnreadIs

\* The end of a call that leaves the stream as it is, or an indicator apart
LEMMA StillDone ==
    ASSUME StreamInv, ~ s.torn, NEW f, Sane(f), f.seekable = s.seekable, Still(f, s),
           f.torn = s.torn,
           NEW r, Done(f, pushed, r)
    PROVE  /\ StreamInv' /\ res' = r /\ s'.seekable = s.seekable
           /\ s'.error = f.error /\ s'.eof = s.eof
           /\ FileContent' = FileContent /\ FileBase' = FileBase /\ FileBack' = FileBack
<1>1. /\ Positioned(f, pushed) /\ Content(f) = Content(s)
      /\ Spot(f, pushed) = Spot(s, pushed) /\ Back(f, pushed) = Back(s, pushed)
    BY Here, StillIs
<1>2. pushed = Min({pushed, UnreadOf(f)})
    BY <1>1, Here, UnreadIs
<1>3. /\ StreamInv' /\ res' = r
      /\ s'.seekable = f.seekable /\ s'.error = f.error /\ s'.eof = f.eof
      /\ FileContent' = Content(f) /\ FileBase' = Spot(f, pushed) /\ FileBack' = Back(f, pushed)
    BY <1>1, <1>2, Here, DoneIs
<1>4. QED
    BY <1>1, <1>3, Here DEF Still, SameBuffer

LEMMA FlushDone ==
    ASSUME StreamInv, ~ s.torn, NEW r \in FlushOne(s), NEW e, Done(r[1], pushed, e)
    PROVE  /\ StreamInv' /\ res' = e /\ s'.seekable = s.seekable /\ r[2] \in BOOLEAN
           /\ s'.torn = r[1].torn /\ s'.eof = s.eof /\ (~ r[2] => s'.error)
           /\ ~ s'.torn =>
                 /\ FileContent' = FileContent /\ (r[2] => s'.file = FileContent')
                 /\ IF r[2] /\ s.seekable THEN Abstract!Settled
                    ELSE FileBase' = FileBase /\ FileBack' = FileBack
<1>1. PICK f : f = r[1]
    OBVIOUS
<1>2. Sane(f) /\ Like(f, s) /\ f.eof = s.eof /\ r[2] \in BOOLEAN /\ (~ r[2] => f.error)
    BY <1>1, Here, FlushOneIs
<1>3. PICK p \in Nat : p = Min({pushed, UnreadOf(f)})
    BY <1>2, Here, UnreadIs
<1>4. ASSUME ~ f.torn
      PROVE  /\ Content(f) = Content(s)
             /\ IF r[2] /\ s.seekable
                THEN /\ Positioned(f, p) /\ Back(f, p) = <<>>
                     /\ Spot(f, p) = Spot(s, pushed) - Len(Back(s, pushed))
                ELSE /\ Positioned(f, p)
                     /\ Spot(f, p) = Spot(s, pushed) /\ Back(f, p) = Back(s, pushed)
             /\ r[2] => f.file = Content(s)
    BY <1>1, <1>3, <1>4, Here, AfterFlush
<1>5. /\ StreamInv' /\ res' = e
      /\ s'.file = f.file /\ s'.seekable = f.seekable /\ s'.torn = f.torn
      /\ s'.error = f.error /\ s'.eof = f.eof
      /\ ~ f.torn => /\ FileContent' = Content(f)
                     /\ FileBase' = Spot(f, p) /\ FileBack' = Back(f, p)
  <2>1. f.torn \/ Positioned(f, p)
      BY <1>4
  <2>2. Done(f, pushed, e)
      BY <1>1
  <2>3. QED
      BY <1>2, <1>3, <2>1, <2>2, Here, DoneIs
<1>6. s'.seekable = s.seekable
    BY <1>2, <1>5 DEF Like
<1>7. ASSUME ~ s'.torn
      PROVE  /\ FileContent' = FileContent /\ (r[2] => s'.file = FileContent')
             /\ IF r[2] /\ s.seekable THEN Abstract!Settled
                ELSE FileBase' = FileBase /\ FileBack' = FileBack
  <2>1. FileContent' = FileContent /\ (r[2] => s'.file = FileContent')
      BY <1>4, <1>5, <1>7, Here
  <2>2. CASE r[2] /\ s.seekable
    <3>1. /\ FileBase' = Tell /\ FileBack' = <<>>
        BY <1>4, <1>5, <1>7, <2>2, Here DEF Tell
    <3>2. Tell >= 0
      <4>1. f.off \in Nat /\ Spot(f, p) \in Nat
          BY <1>2, <1>4, <1>5, <1>7, <2>2, SpotIs DEF Sane, StreamType
      <4>2. QED
          BY <1>5, <1>7, <3>1, <4>1
    <3>3. QED
        BY <2>1, <2>2, <3>1, <3>2, AbstractSettled
  <2>3. CASE ~ (r[2] /\ s.seekable)
      BY <1>4, <1>5, <1>7, <2>1, <2>3, Here
  <2>4. QED
      BY <2>2, <2>3
<1>8. QED
    BY <1>2, <1>5, <1>6, <1>7, <1>1

LEMMA FflushKeeps ==
    ASSUME StreamInv, ~ s.torn, Fflush
    PROVE  StreamInv' /\ Abstract!Next
<1>1. PICK r \in FlushOne(s) : Done(r[1], pushed, [op |-> "flush", ok |-> r[2]])
    BY DEF Fflush
<1>2. /\ StreamInv' /\ res' = [op |-> "flush", ok |-> r[2]]
      /\ s'.seekable = s.seekable /\ r[2] \in BOOLEAN
      /\ s'.torn = r[1].torn /\ s'.eof = s.eof /\ (~ r[2] => s'.error)
      /\ ~ s'.torn =>
            /\ FileContent' = FileContent /\ (r[2] => s'.file = FileContent')
            /\ IF r[2] /\ s.seekable THEN Abstract!Settled
               ELSE FileBase' = FileBase /\ FileBack' = FileBack
    BY <1>1, FlushDone
<1>3. res'.op = "flush" /\ res'.ok = r[2]
    BY <1>2
<1>4. CASE ~ s'.torn /\ r[2]
  <2>1. Abstract!Flush
      BY <1>2, <1>3, <1>4, AbstractFlush
  <2>2. QED
      BY <1>2, <2>1, AbstractStep
<1>5. CASE ~ s'.torn /\ ~ r[2]
  <2>1. Abstract!Nothing
      BY <1>2, <1>3, <1>5, AbstractNothing
  <2>2. QED
      BY <1>2, <2>1, AbstractStep
<1>6. CASE s'.torn
    BY <1>2, <1>6, AbstractStep
<1>7. QED
    BY <1>2, <1>4, <1>5, <1>6

LEMMA FtellKeeps ==
    ASSUME StreamInv, ~ s.torn, Ftell
    PROVE  StreamInv' /\ Abstract!Next
<1>1. PICK r : /\ Done(s, pushed, r) /\ r.op = "tell" /\ r.ok = s.seekable
               /\ s.seekable => r.to = IF s.buffer = Unbuffered THEN s.off
                                       ELSE IF s.writing THEN s.off + s.bufpos
                                       ELSE s.off - (s.bufeof - s.bufpos)
  <2>1. s.seekable \in BOOLEAN
      BY Here DEF Sane, StreamType
  <2>2. CASE s.seekable
    <3>1. PICK to : to = IF s.buffer = Unbuffered THEN s.off
                         ELSE IF s.writing THEN s.off + s.bufpos
                         ELSE s.off - (s.bufeof - s.bufpos)
        OBVIOUS
    <3>2. PICK e : e = [op |-> "tell", ok |-> TRUE, to |-> to]
        OBVIOUS
    <3>3. Done(s, pushed, e)
        BY <2>2, <3>1, <3>2 DEF Ftell
    <3>4. e.op = "tell" /\ e.ok = TRUE /\ e.to = to
        BY <3>2
    <3>5. s.seekable = TRUE
        BY <2>1, <2>2
    <3>6. QED
        BY <3>1, <3>3, <3>4, <3>5
  <2>3. CASE ~ s.seekable
    <3>1. PICK e : e = [op |-> "tell", ok |-> FALSE]
        OBVIOUS
    <3>2. Done(s, pushed, e)
        BY <2>3, <3>1 DEF Ftell
    <3>3. e.op = "tell" /\ e.ok = FALSE
        BY <3>1
    <3>4. s.seekable = FALSE
        BY <2>1, <2>3
    <3>5. QED
        BY <2>3, <3>2, <3>3, <3>4
  <2>4. QED
      BY <2>2, <2>3
<1>2. Still(s, s)
    BY DEF Still, SameBuffer
<1>3. /\ StreamInv' /\ res' = r /\ s'.seekable = s.seekable /\ s'.eof = s.eof
      /\ FileContent' = FileContent /\ FileBase' = FileBase /\ FileBack' = FileBack
    BY <1>1, <1>2, Here, StillDone
<1>4. s.seekable => r.to = Tell
  <2>1. /\ s.off \in Nat /\ s.bufpos \in Nat /\ s.bufeof \in Nat /\ s.writing \in BOOLEAN
      BY Here DEF Sane, StreamType
  <2>2. Tell = Spot(s, pushed) - pushed
      BY Here DEF Tell
  <2>3. ~ Reading(s) => pushed = 0
      BY Here DEF Positioned
  <2>4. CASE s.buffer = Unbuffered
      BY <1>1, <2>1, <2>2, <2>3, <2>4 DEF Spot, Reading
  <2>5. CASE s.buffer # Unbuffered /\ s.writing
      BY <1>1, <2>1, <2>2, <2>3, <2>5 DEF Spot, Reading
  <2>6. CASE s.buffer # Unbuffered /\ ~ s.writing
    <3>1. Spot(s, pushed) = s.off - (s.bufeof - s.bufpos - pushed)
        BY <2>6 DEF Spot, Base
    <3>2. QED
        BY <1>1, <2>1, <2>2, <2>6, <3>1, Here
  <2>7. QED
      BY <2>1, <2>4, <2>5, <2>6
<1>5. Abstract!Position
    BY <1>1, <1>3, <1>4, AbstractPosition
<1>6. QED
    BY <1>3, <1>5, AbstractStep

LEMMA ClearerrKeeps ==
    ASSUME StreamInv, ~ s.torn, Clearerr
    PROVE  StreamInv' /\ Abstract!Next
<1>1. PICK f : f = [s EXCEPT !.error = FALSE, !.eof = FALSE]
    OBVIOUS
<1>2. Done(f, pushed, [op |-> "other"])
    BY <1>1 DEF Clearerr
<1>3. s \in StreamType
    BY Here DEF Sane
<1>4. /\ f \in StreamType /\ f.torn = s.torn /\ f.error = FALSE /\ f.eof = FALSE
      /\ f.file = s.file /\ f.off = s.off /\ f.buffer = s.buffer /\ f.bufpos = s.bufpos
      /\ f.bufeof = s.bufeof /\ f.writing = s.writing /\ f.mode = s.mode
      /\ f.seekable = s.seekable /\ f.line = s.line
    BY <1>1, <1>3 DEF StreamType
<1>5. Sane(f)
    BY <1>4, Here DEF Sane
<1>6. /\ Positioned(f, pushed) /\ Content(f) = Content(s)
      /\ Spot(f, pushed) = Spot(s, pushed) /\ Back(f, pushed) = Back(s, pushed)
    BY <1>4, Here
       DEF Positioned, Reading, ReadAhead, Base, Content, Staging, StagedOf, Spot, Back
<1>7. pushed = Min({pushed, UnreadOf(f)})
    BY <1>5, <1>6, Here, UnreadIs
<1>8. /\ StreamInv' /\ res' = [op |-> "other"]
      /\ s'.seekable = f.seekable /\ s'.eof = f.eof
      /\ FileContent' = Content(f) /\ FileBase' = Spot(f, pushed) /\ FileBack' = Back(f, pushed)
    BY <1>2, <1>4, <1>5, <1>6, <1>7, Here, DoneIs
<1>9. res'.op = "other"
    BY <1>8
<1>10. Abstract!Nothing
    BY <1>4, <1>6, <1>8, <1>9, Here, AbstractNothing
<1>11. QED
    BY <1>4, <1>8, <1>10, AbstractStep

LEMMA FseekKeeps ==
    ASSUME StreamInv, ~ s.torn, NEW whence \in {"set", "cur", "end"}, NEW d \in Int, Fseek(whence, d)
    PROVE  StreamInv' /\ Abstract!Next
<1>1. PICK r \in FlushOne(s) : \E to : \E ok :
         /\ to = Target(r[1], whence, d) /\ ok = (r[2] /\ s.seekable /\ to >= 0)
         /\ Done(IF ok THEN [r[1] EXCEPT !.off = to, !.eof = FALSE] ELSE r[1], pushed,
                 IF ok THEN [op |-> "seek", ok |-> TRUE, to |-> to] ELSE [op |-> "seek", ok |-> FALSE])
    BY Zenon DEF Fseek
<1>2. PICK to : \E ok :
         /\ to = Target(r[1], whence, d) /\ ok = (r[2] /\ s.seekable /\ to >= 0)
         /\ Done(IF ok THEN [r[1] EXCEPT !.off = to, !.eof = FALSE] ELSE r[1], pushed,
                 IF ok THEN [op |-> "seek", ok |-> TRUE, to |-> to] ELSE [op |-> "seek", ok |-> FALSE])
    BY <1>1, Zenon
<1>3. PICK ok :
         /\ to = Target(r[1], whence, d) /\ ok = (r[2] /\ s.seekable /\ to >= 0)
         /\ Done(IF ok THEN [r[1] EXCEPT !.off = to, !.eof = FALSE] ELSE r[1], pushed,
                 IF ok THEN [op |-> "seek", ok |-> TRUE, to |-> to] ELSE [op |-> "seek", ok |-> FALSE])
    BY <1>2
<1>4. Sane(r[1]) /\ Like(r[1], s) /\ r[2] \in BOOLEAN
    BY Here, FlushOneIs
<1>5. CASE ~ ok
  <2>1. Done(r[1], pushed, [op |-> "seek", ok |-> FALSE])
      BY <1>3, <1>5
  <2>2. /\ StreamInv' /\ res' = [op |-> "seek", ok |-> FALSE]
        /\ s'.seekable = s.seekable
        /\ s'.torn = r[1].torn /\ s'.eof = s.eof
        /\ ~ s'.torn =>
              /\ FileContent' = FileContent
              /\ IF r[2] /\ s.seekable THEN Abstract!Settled
                 ELSE FileBase' = FileBase /\ FileBack' = FileBack
      BY <2>1, FlushDone
  <2>3. res'.op = "seek" /\ res'.ok = FALSE
      BY <2>2
  <2>4. CASE ~ s'.torn /\ r[2] /\ s.seekable
    <3>1. FileBack' = <<>>
        BY <2>2, <2>4 DEF Abstract!Settled, FileBack
    <3>2. Abstract!Seek
        BY <2>2, <2>3, <2>4, <3>1, AbstractSeek
    <3>3. QED
        BY <2>2, <3>2, AbstractStep
  <2>5. CASE ~ s'.torn /\ ~ (r[2] /\ s.seekable)
    <3>1. Abstract!Nothing
        BY <2>2, <2>3, <2>5, AbstractNothing
    <3>2. QED
        BY <2>2, <3>1, AbstractStep
  <2>6. CASE s'.torn
      BY <2>2, <2>6, AbstractStep
  <2>7. QED
      BY <2>2, <2>4, <2>5, <2>6
<1>6. CASE ok
  <2>1. r[2] /\ s.seekable /\ to >= 0
      BY <1>3, <1>6
  <2>2. to \in Nat
    <3>1. r[1].off \in Nat /\ Len(r[1].file) \in Nat
        BY <1>4, LenProperties DEF Sane, StreamType
    <3>2. to = IF whence = "set" THEN d ELSE IF whence = "cur" THEN r[1].off + d ELSE Len(r[1].file)
        BY <1>3 DEF Target
    <3>3. to \in Int
        BY <3>1, <3>2
    <3>4. QED
        BY <2>1, <3>3
  <2>3. PICK g : g = r[1]
      OBVIOUS
  <2>4. PICK f : f = [g EXCEPT !.off = to, !.eof = FALSE]
      OBVIOUS
  <2>5. Done(f, pushed, [op |-> "seek", ok |-> TRUE, to |-> to])
      BY <1>3, <1>6, <2>3, <2>4
  <2>6. g \in StreamType /\ Sane(g) /\ Like(g, s)
      BY <1>4, <2>3 DEF Sane
  <2>7. /\ f \in StreamType /\ f.torn = g.torn /\ f.eof = FALSE
        /\ f.file = g.file /\ f.off = to /\ f.buffer = g.buffer /\ f.bufpos = g.bufpos
        /\ f.bufeof = g.bufeof /\ f.writing = g.writing /\ f.mode = g.mode
        /\ f.seekable = g.seekable /\ f.line = g.line
      BY <2>2, <2>4, <2>6 DEF StreamType
  <2>8. Sane(f)
      BY <2>6, <2>7 DEF Sane
  <2>9. PICK p \in Nat : p = Min({pushed, UnreadOf(f)}) /\ p = Min({pushed, UnreadOf(g)})
    <3>1. UnreadOf(f) = UnreadOf(g)
        BY <2>7 DEF UnreadOf
    <3>2. QED
        BY <2>8, <3>1, Here, UnreadIs
  <2>10. ASSUME ~ g.torn
         PROVE  /\ p = 0 /\ Positioned(f, 0) /\ Content(f) = Content(s) /\ f.file = Content(s)
                /\ Spot(f, 0) = to /\ Back(f, 0) = <<>>
    <3>1. /\ Content(g) = Content(s) /\ g.file = Content(s)
          /\ Positioned(g, 0) /\ Min({pushed, UnreadOf(g)}) = 0
          /\ g.bufpos = g.bufeof \/ ~ Reading(g)
        BY <2>1, <2>3, <2>10, Here, AfterFlush
    <3>2. p = 0
        BY <2>9, <3>1
    <3>3. (Reading(f) <=> Reading(g)) /\ (Staging(f) <=> Staging(g))
        BY <2>7 DEF Reading, Staging
    <3>4. /\ g.bufpos \in Nat /\ g.bufeof \in Nat /\ g.writing \in BOOLEAN
          /\ f.bufpos = g.bufpos /\ f.bufeof = g.bufeof
        BY <2>6, <2>7 DEF StreamType
    <3>5. Reading(f) => f.bufeof - f.bufpos = 0 /\ Base(f, 0) = to
        BY <2>2, <2>7, <3>1, <3>3, <3>4 DEF Base
    <3>6. Positioned(f, 0)
      <4>1. Reading(f) => ReadAhead(f, 0)
          BY <2>2, <3>4, <3>5 DEF ReadAhead
      <4>2. QED
          BY <4>1 DEF Positioned
    <3>7. Back(f, 0) = <<>>
      <4>1. Back(f, 0) \in Seq(Byte) /\ Len(Back(f, 0)) = 0
          BY <2>8, <3>6, BackIs
      <4>2. QED
          BY <4>1, EmptyIs
    <3>8. CASE Staging(f)
      <4>1. r[2] => g.bufpos = 0
        <5>1. Staging(s)
          <6>1. Staging(s) \/ Reading(s) \/ s.buffer = Unbuffered
              BY Here DEF Sane, StreamType, Staging, Reading
          <6>2. Reading(s) => Reading(g)
            <7>1. ASSUME Reading(s) PROVE Reading(g)
              <8>1. CASE s.bufpos = s.bufeof \/ ~ s.seekable
                  BY <2>1, <2>3, <7>1, <8>1, Here, FlushOneIs
              <8>2. CASE ~ (s.bufpos = s.bufeof \/ ~ s.seekable)
                  BY <2>1, <2>3, <7>1, <8>2, Here, FlushOneIs DEF GivenUp
              <8>3. QED
                  BY <8>1, <8>2
            <7>2. QED
                BY <7>1
          <6>3. s.buffer = Unbuffered => g = s
              BY <2>3, Here, FlushOneIs
          <6>4. QED
              BY <3>3, <3>8, <6>1, <6>2, <6>3 DEF Staging, Reading
        <5>2. QED
            BY <2>3, <5>1, Here, FlushOneIs
      <4>2. f.bufpos = 0 /\ 0 \in 0 .. f.bufpos
          BY <2>1, <3>4, <4>1
      <4>3. StagedOf(f) \in Seq(Byte) /\ Len(StagedOf(f)) = 0
          BY <2>8, <3>8, <4>2, StagedIs DEF StagedOf
      <4>4. StagedOf(f) = <<>>
          BY <4>3, EmptyIs
      <4>5. Content(f) = f.file
          BY <3>8, <4>4 DEF Content, Overlay
      <4>6. Spot(f, 0) = to
          BY <2>2, <2>7, <3>8, <4>2 DEF Spot, Staging
      <4>7. QED
          BY <2>7, <3>1, <3>2, <3>6, <3>7, <4>5, <4>6
    <3>9. CASE ~ Staging(f)
      <4>1. Spot(f, 0) = to
          BY <2>7, <3>4, <3>5, <3>9 DEF Spot, Staging, Reading
      <4>2. Content(f) = f.file
          BY <3>9 DEF Content
      <4>3. QED
          BY <2>7, <3>1, <3>2, <3>6, <3>7, <4>1, <4>2
    <3>10. QED
        BY <3>8, <3>9
  <2>11. /\ StreamInv' /\ res' = [op |-> "seek", ok |-> TRUE, to |-> to]
         /\ s'.file = f.file /\ s'.seekable = f.seekable /\ s'.torn = f.torn /\ s'.eof = f.eof
         /\ ~ f.torn => /\ FileContent' = Content(f)
                        /\ FileBase' = Spot(f, p) /\ FileBack' = Back(f, p)
      BY <2>5, <2>7, <2>8, <2>9, <2>10, Here, DoneIs
  <2>12. res'.op = "seek" /\ res'.ok = TRUE /\ res'.to = to
      BY <2>11
  <2>13. s'.seekable = s.seekable
      BY <2>6, <2>7, <2>11 DEF Like
  <2>14. CASE g.torn
      BY <2>7, <2>11, <2>13, <2>14, AbstractStep
  <2>15. CASE ~ g.torn
    <3>1. /\ FileContent' = FileContent /\ s'.file = FileContent'
          /\ FileBase' = to /\ FileBack' = <<>> /\ ~ s'.eof
        BY <2>7, <2>10, <2>11, <2>15, Here
    <3>2. Abstract!Seek
        BY <2>1, <2>12, <3>1, AbstractSeek
    <3>3. QED
        BY <2>11, <2>13, <3>2, AbstractStep
  <2>16. QED
      BY <2>14, <2>15
<1>7. QED
    BY <1>5, <1>6

-----------------------------------------------------------------------------
(* setvbuf() and ungetc().                                                 *)

\* Nothing is in the buffer
Idle(f) == f.buffer = Unbuffered \/ (IF f.writing THEN f.bufpos = 0 ELSE f.bufpos = f.bufeof)

LEMMA IdleIs ==
    ASSUME NEW f, Sane(f), Idle(f)
    PROVE  /\ Content(f) = f.file /\ Spot(f, 0) = f.off /\ Back(f, 0) = <<>>
           /\ Positioned(f, 0) /\ UnreadOf(f) = 0
           /\ \A p \in Nat : Positioned(f, p) => p = 0
<1>1. /\ f.off \in Nat /\ f.bufpos \in Nat /\ f.bufeof \in Nat /\ f.writing \in BOOLEAN
    BY DEF Sane, StreamType
<1>2. CASE f.buffer = Unbuffered
    BY <1>2 DEF Content, Staging, Spot, Back, Reading, Positioned, UnreadOf
<1>3. CASE f.buffer # Unbuffered /\ f.writing
  <2>1. Staging(f) /\ ~ Reading(f) /\ f.bufpos = 0 /\ 0 \in 0 .. f.bufpos
      BY <1>1, <1>3 DEF Staging, Reading, Idle
  <2>2. StagedOf(f) \in Seq(Byte) /\ Len(StagedOf(f)) = 0
      BY <2>1, StagedIs DEF StagedOf
  <2>3. StagedOf(f) = <<>>
      BY <2>2, EmptyIs
  <2>4. Content(f) = f.file
      BY <2>1, <2>3 DEF Content, Overlay
  <2>5. Spot(f, 0) = f.off
      BY <1>1, <1>3, <2>1 DEF Spot
  <2>6. QED
      BY <1>3, <2>1, <2>4, <2>5 DEF Back, Positioned, UnreadOf
<1>4. CASE f.buffer # Unbuffered /\ ~ f.writing
  <2>1. ~ Staging(f) /\ Reading(f) /\ f.bufpos = f.bufeof
      BY <1>4 DEF Staging, Reading, Idle
  <2>2. Base(f, 0) = f.off
      BY <1>1, <2>1 DEF Base
  <2>3. Positioned(f, 0)
      BY <1>1, <2>1, <2>2 DEF Positioned, ReadAhead
  <2>4. Back(f, 0) = <<>>
    <3>1. Back(f, 0) \in Seq(Byte) /\ Len(Back(f, 0)) = 0
        BY <2>3, BackIs
    <3>2. QED
        BY <3>1, EmptyIs
  <2>5. \A p \in Nat : Positioned(f, p) => p = 0
      BY <1>1, <2>1 DEF Positioned, ReadAhead
  <2>6. UnreadOf(f) = 0
      BY <1>1, <1>4, <2>1 DEF UnreadOf
  <2>7. QED
      BY <1>4, <2>1, <2>2, <2>3, <2>4, <2>5, <2>6 DEF Content, Spot
<1>5. QED
    BY <1>1, <1>2, <1>3, <1>4

LEMMA SetvbufKeeps ==
    ASSUME StreamAssumption, StreamInv, ~ s.torn, NEW mode, Setvbuf(mode)
    PROVE  StreamInv' /\ Abstract!Next
<1>1. PICK keep \in BOOLEAN : keep = (mode # "none" /\ s.buffer # Unbuffered)
    OBVIOUS
<1>2. PICK z : z = IF mode = "none" THEN Unbuffered
                   ELSE IF keep THEN s.buffer ELSE [i \in 1 .. BufSize |-> Hole]
    OBVIOUS
<1>3. PICK l \in BOOLEAN : l = (mode = "line")
    OBVIOUS
<1>4. PICK f : f = [s EXCEPT !.line = l, !.buffer = z]
    OBVIOUS
<1>5. s \in StreamType /\ BufSize \in Nat
    BY Here DEF Sane, StreamAssumption
<1>6. z \in Seq(Byte) /\ (z # Unbuffered => Len(z) = BufSize)
  <2>1. CASE mode = "none"
    <3>1. z = <<>>
        BY <1>2, <2>1 DEF Unbuffered
    <3>2. QED
        BY <3>1, EmptySeq DEF Unbuffered
  <2>2. CASE mode # "none" /\ keep
    <3>1. z = s.buffer
        BY <1>2, <2>2
    <3>2. QED
        BY <1>5, <3>1, Here DEF Sane, StreamType
  <2>3. CASE mode # "none" /\ ~ keep
    <3>1. z = [i \in 1 .. BufSize |-> Hole]
        BY <1>2, <2>3
    <3>2. z \in [1 .. BufSize -> Byte]
        BY <3>1 DEF Byte
    <3>3. QED
        BY <1>5, <3>2, FunctionIsSequence
  <2>4. QED
      BY <2>1, <2>2, <2>3
<1>7. Idle(s) /\ Done(IF keep THEN f ELSE [f EXCEPT !.bufpos = 0, !.bufeof = 0], pushed, [op |-> "other"])
  <2>1. f = [s EXCEPT !.line = mode = "line",
                      !.buffer = IF mode = "none" THEN Unbuffered
                                 ELSE IF keep THEN @ ELSE [i \in 1 .. BufSize |-> Hole]]
      BY <1>2, <1>3, <1>4
  <2>2. QED
      BY <1>1, <2>1 DEF Setvbuf, Idle
<1>8. /\ f \in StreamType /\ f.torn = s.torn /\ f.eof = s.eof /\ f.error = s.error
      /\ f.file = s.file /\ f.off = s.off /\ f.buffer = z /\ f.bufpos = s.bufpos
      /\ f.bufeof = s.bufeof /\ f.writing = s.writing /\ f.mode = s.mode
      /\ f.seekable = s.seekable
    BY <1>3, <1>4, <1>5, <1>6 DEF StreamType
<1>9. Sane(f)
    BY <1>6, <1>8, Here DEF Sane
<1>10. pushed = 0 /\ Content(s) = s.file /\ Spot(s, 0) = s.off /\ Back(s, 0) = <<>>
    BY <1>7, Here, IdleIs
<1>11. ASSUME NEW g, Sane(g), Idle(g), g.torn = s.torn, g.seekable = s.seekable, g.eof = s.eof,
              g.file = s.file, g.off = s.off, Done(g, pushed, [op |-> "other"])
       PROVE  StreamInv' /\ Abstract!Next
  <2>1. /\ Content(g) = g.file /\ Spot(g, 0) = g.off /\ Back(g, 0) = <<>>
        /\ Positioned(g, 0) /\ UnreadOf(g) = 0
      BY <1>11, IdleIs
  <2>2. 0 \in Nat /\ 0 = Min({pushed, UnreadOf(g)})
      BY <1>10, <1>11, <2>1, UnreadIs
  <2>3. /\ StreamInv' /\ res' = [op |-> "other"]
        /\ s'.seekable = g.seekable /\ s'.eof = g.eof
        /\ FileContent' = Content(g) /\ FileBase' = Spot(g, 0) /\ FileBack' = Back(g, 0)
      BY <1>11, <2>1, <2>2, Here, DoneIs
  <2>4. res'.op = "other"
      BY <2>3
  <2>5. Abstract!Nothing
      BY <1>10, <1>11, <2>1, <2>3, <2>4, Here, AbstractNothing
  <2>6. QED
      BY <1>11, <2>3, <2>5, AbstractStep
<1>12. CASE keep
  <2>1. z = s.buffer
      BY <1>1, <1>2, <1>12
  <2>2. Idle(f)
      BY <1>7, <1>8, <2>1 DEF Idle
  <2>3. QED
      BY <1>7, <1>8, <1>9, <1>11, <1>12, <2>2
<1>13. CASE ~ keep
  <2>1. PICK g : g = [f EXCEPT !.bufpos = 0, !.bufeof = 0]
      OBVIOUS
  <2>2. 0 \in 0 .. BufSize
      BY <1>5
  <2>3. /\ g \in StreamType /\ g.torn = f.torn /\ g.eof = f.eof
        /\ g.file = f.file /\ g.off = f.off /\ g.buffer = f.buffer /\ g.bufpos = 0
        /\ g.bufeof = 0 /\ g.writing = f.writing /\ g.mode = f.mode /\ g.seekable = f.seekable
      BY <1>8, <2>1, <2>2 DEF StreamType
  <2>4. Sane(g) /\ Idle(g)
      BY <1>9, <2>3 DEF Sane, Idle
  <2>5. QED
      BY <1>7, <1>8, <1>11, <1>13, <2>1, <2>3, <2>4
<1>14. QED
    BY <1>12, <1>13

LEMMA StartReadingIs ==
    ASSUME NEW f, Sane(f), ~ f.torn, f.buffer # Unbuffered, NEW p \in Nat, Positioned(f, p),
           NEW r \in StartReading(f)
    PROVE  /\ r[2] \in BOOLEAN /\ Sane(r[1]) /\ Like(r[1], f) /\ r[1].eof = f.eof
           /\ IF r[2] THEN Reading(r[1]) ELSE r[1].error
           /\ r[1].torn \/ /\ Positioned(r[1], p) /\ Content(r[1]) = Content(f)
                           /\ Spot(r[1], p) = Spot(f, p) /\ Back(r[1], p) = Back(f, p)
<1>1. /\ f \in StreamType /\ f.writing \in BOOLEAN /\ f.bufsz = BufSize
      /\ f.buffer \in Seq(Byte) /\ Len(f.buffer) = BufSize
    BY DEF Sane, StreamType
<1>2. BufSize \in Nat
    BY <1>1, LenProperties
<1>3. CASE ~ f.writing
  <2>1. r = <<f, TRUE>>
      BY <1>3 DEF StartReading
  <2>2. Reading(f) /\ Like(f, f)
      BY <1>3 DEF Reading, Like
  <2>3. QED
      BY <2>1, <2>2
<1>4. CASE f.writing
  <2>1. PICK q \in FlushOne(f) :
           r = IF q[2] THEN <<[q[1] EXCEPT !.writing = FALSE, !.bufpos = BufSize, !.bufeof = BufSize], TRUE>>
               ELSE q
      BY <1>1, <1>4, Zenon DEF StartReading
  <2>2. Staging(f) /\ ~ Reading(f) /\ p = 0 /\ Spot(f, p) = f.off + f.bufpos /\ Back(f, p) = <<>>
      BY <1>4 DEF Staging, Reading, Positioned, Spot, Back
  <2>3. PICK h : h = q[1]
      OBVIOUS
  <2>4. /\ Sane(h) /\ Like(h, f) /\ h.eof = f.eof /\ q[2] \in BOOLEAN /\ (~ q[2] => h.error)
        /\ Staging(h) /\ (q[2] => h.bufpos = 0)
        /\ h.torn \/ (Content(h) = Content(f) /\ h.off + h.bufpos = f.off + f.bufpos)
      BY <2>2, <2>3, FlushOneIs
  <2>5. ~ Reading(h) /\ Positioned(h, p) /\ Spot(h, p) = h.off + h.bufpos /\ Back(h, p) = <<>>
      BY <2>2, <2>4 DEF Staging, Reading, Positioned, Spot, Back
  <2>6. CASE ~ q[2]
    <3>1. r[1] = h /\ r[2] = FALSE
        BY <2>1, <2>3, <2>4, <2>6
    <3>2. QED
        BY <2>2, <2>4, <2>5, <2>6, <3>1
  <2>7. CASE q[2]
    <3>1. PICK g : g = [h EXCEPT !.writing = FALSE, !.bufpos = BufSize, !.bufeof = BufSize]
        OBVIOUS
    <3>2. r[1] = g /\ r[2] = TRUE
        BY <2>1, <2>3, <2>7, <3>1
    <3>3. h \in StreamType /\ BufSize \in 0 .. BufSize /\ h.off \in Nat
        BY <1>2, <2>4 DEF Sane, StreamType
    <3>4. /\ g \in StreamType /\ g.writing = FALSE /\ g.bufpos = BufSize /\ g.bufeof = BufSize
          /\ g.buffer = h.buffer /\ g.file = h.file /\ g.off = h.off /\ g.torn = h.torn
          /\ g.mode = h.mode /\ g.seekable = h.seekable /\ g.eof = h.eof /\ g.line = h.line
        BY <3>1, <3>3 DEF StreamType
    <3>5. Sane(g) /\ Reading(g) /\ Idle(g) /\ Idle(h)
        BY <1>2, <2>4, <2>7, <3>4 DEF Sane, Reading, Staging, Idle
    <3>6. /\ Content(g) = h.file /\ Spot(g, 0) = h.off /\ Back(g, 0) = <<>> /\ Positioned(g, 0)
          /\ Content(h) = h.file
        BY <2>4, <3>4, <3>5, IdleIs
    <3>7. h.torn \/ h.off = f.off + f.bufpos
        BY <2>4, <2>7, <3>3
    <3>8. Like(g, f)
        BY <2>4, <3>4 DEF Like
    <3>9. QED
        BY <2>2, <2>4, <3>2, <3>4, <3>5, <3>6, <3>7, <3>8
  <2>8. QED
      BY <2>4, <2>6, <2>7
<1>5. QED
    BY <1>1, <1>3, <1>4

\* f is g with c in front of what is unread
Pushed(f, g, c) ==
    /\ f \in StreamType /\ f.writing = g.writing /\ f.bufpos = g.bufpos - 1 /\ f.bufeof = g.bufeof
    /\ f.file = g.file /\ f.off = g.off /\ f.torn = g.torn
    /\ f.mode = g.mode /\ f.seekable = g.seekable /\ f.eof = FALSE /\ f.line = g.line
    /\ Len(f.buffer) = BufSize /\ f.buffer[g.bufpos] = c
    /\ \A i \in 1 .. BufSize : i # g.bufpos => f.buffer[i] = g.buffer[i]

LEMMA ReadingIs ==
    ASSUME NEW g, Sane(g), Reading(g)
    PROVE  /\ g \in StreamType /\ g.buffer \in Seq(Byte) /\ Len(g.buffer) = BufSize /\ BufSize \in Nat
           /\ g.bufpos \in 0 .. BufSize /\ g.bufeof \in 0 .. BufSize /\ g.off \in Nat /\ ~ g.writing
           /\ g.bufpos <= g.bufeof /\ g.file \in Seq(Byte) /\ Len(g.file) \in Nat
<1>1. /\ g \in StreamType /\ g.buffer \in Seq(Byte) /\ Len(g.buffer) = BufSize /\ g.file \in Seq(Byte)
    BY DEF Sane, StreamType, Reading
<1>2. BufSize \in Nat /\ Len(g.file) \in Nat
    BY <1>1, LenProperties
<1>3. QED
    BY <1>1, <1>2 DEF Sane, StreamType, Reading

LEMMA PushedIs ==
    ASSUME NEW g, Sane(g), Reading(g), g.bufpos > 0, NEW c \in Byte
    PROVE  Pushed([g EXCEPT !.buffer[g.bufpos] = c, !.bufpos = @ - 1, !.eof = FALSE], g, c)
<1>1. /\ g \in StreamType /\ g.buffer \in Seq(Byte) /\ Len(g.buffer) = BufSize /\ BufSize \in Nat
      /\ g.bufpos \in 0 .. BufSize
    BY ReadingIs
<1>2. PICK m \in 1 .. BufSize : m = g.bufpos
    BY <1>1
<1>3. PICK z : z = [g.buffer EXCEPT ![m] = c]
    OBVIOUS
<1>4. /\ z \in Seq(Byte) /\ Len(z) = BufSize /\ z[m] = c
      /\ \A i \in 1 .. BufSize : i # m => z[i] = g.buffer[i]
  <2>1. /\ z \in Seq(Byte) /\ Len(z) = BufSize
      BY <1>1, <1>2, <1>3, ExceptSeq
  <2>2. DOMAIN g.buffer = 1 .. BufSize
      BY <1>1, LenProperties
  <2>3. QED
      BY <1>2, <1>3, <2>1, <2>2
<1>5. PICK f : f = [g EXCEPT !.buffer = z, !.bufpos = m - 1, !.eof = FALSE]
    OBVIOUS
<1>6. f = [g EXCEPT !.buffer[g.bufpos] = c, !.bufpos = @ - 1, !.eof = FALSE]
    BY <1>2, <1>3, <1>5
<1>7. m - 1 \in 0 .. BufSize
    BY <1>1, <1>2
<1>8. Pushed(f, g, c)
    BY <1>1, <1>2, <1>4, <1>5, <1>7 DEF StreamType, Pushed
<1>9. QED
    BY <1>6, <1>8

LEMMA PushedBack ==
    ASSUME NEW g, Sane(g), Reading(g), g.mode # "w", g.bufpos > 0, NEW c \in Byte,
           NEW f, Pushed(f, g, c)
    PROVE  /\ Sane(f) /\ Like(f, g) /\ f.torn = g.torn /\ f.eof = FALSE
           /\ Content(f) = Content(g) /\ UnreadOf(f) = UnreadOf(g) + 1
           /\ \A p, n \in Nat : Positioned(g, p) /\ n = p + 1 =>
                 /\ Positioned(f, n) /\ Spot(f, n) = Spot(g, p)
                 /\ Back(f, n) = <<c>> \o Back(g, p)
<1>1. /\ g \in StreamType /\ g.buffer \in Seq(Byte) /\ Len(g.buffer) = BufSize /\ BufSize \in Nat
      /\ g.bufpos \in 0 .. BufSize /\ g.bufeof \in 0 .. BufSize /\ g.off \in Nat /\ ~ g.writing
      /\ g.bufpos <= g.bufeof
    BY ReadingIs
<1>2. PICK m \in 1 .. BufSize : m = g.bufpos
    BY <1>1
<1>3. PICK z : z = f.buffer
    OBVIOUS
<1>4. /\ z \in Seq(Byte) /\ Len(z) = BufSize /\ z[m] = c
      /\ \A i \in 1 .. BufSize : i # m => z[i] = g.buffer[i]
    BY <1>2, <1>3 DEF Pushed, StreamType
<1>7. /\ f \in StreamType /\ f.writing = g.writing /\ f.bufpos = m - 1 /\ f.bufeof = g.bufeof
      /\ f.buffer = z /\ f.file = g.file /\ f.off = g.off /\ f.torn = g.torn
      /\ f.mode = g.mode /\ f.seekable = g.seekable /\ f.eof = FALSE /\ f.line = g.line
    BY <1>2, <1>3 DEF Pushed
<1>8. z # <<>>
    BY <1>2, <1>4, EmptyIs
<1>9. Reading(f) /\ Like(f, g) /\ Content(f) = Content(g)
    BY <1>1, <1>7, <1>8 DEF Reading, Like, Content, Staging, Unbuffered
<1>10. Sane(f)
    BY <1>1, <1>2, <1>4, <1>7 DEF Sane
<1>11. UnreadOf(f) = UnreadOf(g) + 1
    BY <1>1, <1>2, <1>7, <1>9 DEF UnreadOf, Reading
<1>12. ASSUME NEW p \in Nat, NEW n \in Nat, Positioned(g, p), n = p + 1
       PROVE  /\ Positioned(f, n) /\ Spot(f, n) = Spot(g, p)
              /\ Back(f, n) = <<c>> \o Back(g, p)
  <2>1. ReadAhead(g, p) /\ Spot(g, p) = Base(g, p) /\ Spot(f, n) = Base(f, n)
      BY <1>9, <1>12 DEF Positioned, Spot, Reading
  <2>2. Base(f, n) = Base(g, p) /\ g.bufeof \in Nat /\ m \in Nat /\ m <= g.bufeof
      BY <1>1, <1>2, <1>7, <1>12 DEF Base
  <2>3. p <= g.bufeof - m
      BY <1>2, <2>1 DEF ReadAhead
  <2>4. \A i \in 1 .. g.bufeof - (m - 1) - (n) : z[m - 1 + (n) + i] = g.file[Base(g, p) + i]
    <3>1. TAKE i \in 1 .. g.bufeof - (m - 1) - (n)
    <3>2. i \in 1 .. g.bufeof - m - p /\ m - 1 + (n) + i = m + p + i
          /\ m + p + i \in 1 .. BufSize /\ m + p + i # m
        BY <1>1, <1>12, <2>2, <2>3
    <3>3. g.buffer[m + p + i] = g.file[Base(g, p) + i]
        BY <1>2, <2>1, <3>2 DEF ReadAhead
    <3>4. QED
        BY <1>4, <3>2, <3>3
  <2>5. ReadAhead(f, n)
    <3>1. n <= f.bufeof - f.bufpos
        BY <1>7, <1>12, <2>2, <2>3
    <3>2. n < f.bufeof - f.bufpos => f.off <= Len(f.file)
      <4>1. n < f.bufeof - f.bufpos => p < g.bufeof - g.bufpos
          BY <1>2, <1>7, <1>12, <2>2
      <4>2. QED
          BY <1>7, <2>1, <4>1 DEF ReadAhead
    <3>3. Base(f, n) >= 0
        BY <2>1, <2>2 DEF ReadAhead
    <3>4. \A i \in 1 .. f.bufeof - f.bufpos - (n) : f.buffer[f.bufpos + (n) + i] = f.file[Base(f, n) + i]
        BY <1>7, <1>12, <2>2, <2>4
    <3>5. QED
        BY <3>1, <3>2, <3>3, <3>4 DEF ReadAhead
  <2>6. Positioned(f, n)
      BY <1>9, <2>5 DEF Positioned
  <2>7. Back(f, n) = <<c>> \o Back(g, p)
    <3>1. n \in Nat
        BY <1>12
    <3>2. PICK x \in Seq(Byte) : x = Back(f, n)
        BY <1>10, <2>6, <3>1, BackIs
    <3>3. Len(x) = n /\ \A i \in 1 .. n : x[i] = z[m - 1 + i]
      <4>1. Len(x) = n /\ \A i \in 1 .. n : x[i] = f.buffer[f.bufpos + i]
          BY <1>10, <2>6, <3>1, <3>2, BackIs
      <4>2. f.buffer = z /\ f.bufpos = m - 1
          BY <1>7
      <4>3. QED
          BY <4>1, <4>2
    <3>4. PICK y \in Seq(Byte) : y = Back(g, p)
        BY <1>12, BackIs
    <3>5. Len(y) = p /\ \A i \in 1 .. p : y[i] = g.buffer[m + i]
        BY <1>2, <1>12, <3>4, BackIs
    <3>6. <<c>> \in Seq(Byte) /\ Len(<<c>>) = 1 /\ <<c>>[1] = c
        OBVIOUS
    <3>7. PICK w : w = <<c>> \o y
        OBVIOUS
    <3>8. /\ w \in Seq(Byte) /\ Len(w) = n
          /\ \A i \in 1 .. n : w[i] = IF i <= 1 THEN <<c>>[i] ELSE y[i - 1]
        BY <1>12, <3>5, <3>6, <3>7, ConcatProperties
    <3>9. ASSUME NEW i \in 1 .. n
          PROVE  x[i] = w[i]
      <4>1. CASE i = 1
        <5>1. x[1] = z[m] /\ w[1] = c
            BY <1>2, <3>3, <3>6, <3>8
        <5>2. QED
            BY <1>4, <4>1, <5>1
      <4>2. CASE i # 1
        <5>1. i - 1 \in 1 .. p /\ m - 1 + i = m + (i - 1) /\ m - 1 + i \in 1 .. BufSize /\ m - 1 + i # m
            BY <1>1, <1>12, <2>2, <2>3, <4>2
        <5>2. w[i] = y[i - 1]
            BY <1>12, <3>8, <4>2
        <5>3. y[i - 1] = g.buffer[m - 1 + i] /\ x[i] = z[m - 1 + i] /\ z[m - 1 + i] = g.buffer[m - 1 + i]
            BY <1>4, <3>3, <3>5, <5>1
        <5>4. QED
            BY <5>2, <5>3
      <4>3. QED
          BY <4>1, <4>2
    <3>10. x = w
        BY <3>3, <3>8, <3>9, SameSequence
    <3>11. QED
        BY <3>2, <3>4, <3>7, <3>10
  <2>8. QED
      BY <2>1, <2>2, <2>6, <2>7
<1>13. QED
    BY <1>7, <1>9, <1>10, <1>11, <1>12

LEMMA UngetcKeeps ==
    ASSUME StreamAssumption, StreamInv, ~ s.torn, NEW c \in Byte, Readable(s), Ungetc(c)
    PROVE  StreamInv' /\ Abstract!Next
<1>1. ASSUME NEW g, Sane(g), Like(g, s), g.eof = s.eof,
             g.torn \/ /\ Positioned(g, pushed) /\ Content(g) = Content(s)
                       /\ Spot(g, pushed) = Spot(s, pushed) /\ Back(g, pushed) = Back(s, pushed),
             Done(g, pushed, [op |-> "unread", ok |-> FALSE])
      PROVE  StreamInv' /\ Abstract!Next
  <2>1. PICK p \in Nat : p = Min({pushed, UnreadOf(g)})
      BY <1>1, Here, UnreadIs
  <2>2. g.torn \/ p = pushed
      BY <1>1, <2>1, Here, UnreadIs
  <2>3. g.torn \/ Positioned(g, p)
      BY <1>1, <2>2
  <2>4. PICK e : e = [op |-> "unread", ok |-> FALSE]
      OBVIOUS
  <2>5. /\ StreamInv' /\ res' = e /\ s'.seekable = g.seekable /\ s'.eof = g.eof /\ s'.torn = g.torn
        /\ ~ g.torn => /\ FileContent' = Content(g)
                       /\ FileBase' = Spot(g, p) /\ FileBack' = Back(g, p)
      BY <1>1, <2>1, <2>3, <2>4, Here, DoneIs
  <2>6. res'.op = "unread" /\ res'.ok = FALSE
      BY <2>4, <2>5
  <2>7. s'.seekable = s.seekable
      BY <1>1, <2>5 DEF Like
  <2>8. CASE g.torn
      BY <2>5, <2>7, <2>8, AbstractStep
  <2>9. CASE ~ g.torn
    <3>1. FileContent' = FileContent /\ FileBase' = FileBase /\ FileBack' = FileBack
        BY <1>1, <2>2, <2>5, <2>9, Here
    <3>2. Abstract!Nothing
        BY <1>1, <2>5, <2>6, <3>1, AbstractNothing
    <3>3. QED
        BY <2>5, <2>7, <3>2, AbstractStep
  <2>10. QED
      BY <2>8, <2>9
<1>2. CASE s.buffer = Unbuffered
  <2>1. Done(s, pushed, [op |-> "unread", ok |-> FALSE])
      BY <1>2, Zenon DEF Ungetc
  <2>2. Like(s, s)
      BY DEF Like
  <2>3. QED
      BY <1>1, <2>1, <2>2, Here
<1>3. CASE s.buffer # Unbuffered
  <2>1. PICK r \in StartReading(s) :
           IF r[2] /\ r[1].bufpos > 0
           THEN Done([r[1] EXCEPT !.buffer[r[1].bufpos] = c, !.bufpos = @ - 1, !.eof = FALSE],
                     pushed + 1, [op |-> "unread", ok |-> TRUE, byte |-> c])
           ELSE Done(r[1], pushed, [op |-> "unread", ok |-> FALSE])
      BY <1>3, Zenon DEF Ungetc
  <2>2. PICK g : g = r[1]
      OBVIOUS
  <2>3. /\ r[2] \in BOOLEAN /\ Sane(g) /\ Like(g, s) /\ g.eof = s.eof /\ (r[2] => Reading(g))
        /\ g.torn \/ /\ Positioned(g, pushed) /\ Content(g) = Content(s)
                     /\ Spot(g, pushed) = Spot(s, pushed) /\ Back(g, pushed) = Back(s, pushed)
      BY <1>3, <2>2, Here, StartReadingIs
  <2>4. CASE ~ (r[2] /\ g.bufpos > 0)
    <3>1. Done(g, pushed, [op |-> "unread", ok |-> FALSE])
        BY <2>1, <2>2, <2>4
    <3>2. QED
        BY <1>1, <2>3, <3>1
  <2>5. CASE r[2] /\ g.bufpos > 0
    <3>1. PICK f : Pushed(f, g, c) /\ Done(f, pushed + 1, [op |-> "unread", ok |-> TRUE, byte |-> c])
      <4>1. Pushed([g EXCEPT !.buffer[g.bufpos] = c, !.bufpos = @ - 1, !.eof = FALSE], g, c)
          BY <2>3, <2>5, PushedIs, Zenon
      <4>2. Done([g EXCEPT !.buffer[g.bufpos] = c, !.bufpos = @ - 1, !.eof = FALSE], pushed + 1,
                 [op |-> "unread", ok |-> TRUE, byte |-> c])
          BY <2>1, <2>2, <2>5
      <4>3. QED
          BY <4>1, <4>2, Zenon
    <3>2. PICK e : e = [op |-> "unread", ok |-> TRUE, byte |-> c]
        OBVIOUS
    <3>3. Done(f, pushed + 1, e)
        BY <3>1, <3>2
    <3>4. g.mode # "w"
        BY <2>3 DEF Like, Readable
    <3>5. pushed + 1 \in Nat
        BY Here
    <3>6. PICK n \in Nat : n = pushed + 1
        BY <3>5
    <3>7. /\ Sane(f) /\ Like(f, g) /\ f.torn = g.torn /\ f.eof = FALSE
          /\ Content(f) = Content(g) /\ UnreadOf(f) = UnreadOf(g) + 1
          /\ Positioned(g, pushed) => /\ Positioned(f, n) /\ Spot(f, n) = Spot(g, pushed)
                                      /\ Back(f, n) = <<c>> \o Back(g, pushed)
      <4>1. Sane(g) /\ Reading(g) /\ g.bufpos > 0 /\ pushed \in Nat /\ Pushed(f, g, c)
          BY <2>3, <2>5, <3>1, Here
      <4>2. PICK k \in Nat : k = pushed
          BY <4>1
      <4>3. n = k + 1
          BY <3>6, <4>2
      <4>4. /\ Sane(f) /\ Like(f, g) /\ f.torn = g.torn /\ f.eof = FALSE
            /\ Content(f) = Content(g) /\ UnreadOf(f) = UnreadOf(g) + 1
            /\ \A a, b \in Nat : Positioned(g, a) /\ b = a + 1 =>
                 /\ Positioned(f, b) /\ Spot(f, b) = Spot(g, a)
                 /\ Back(f, b) = <<c>> \o Back(g, a)
          BY <3>4, <4>1, PushedBack
      <4>5. QED
          BY <4>2, <4>3, <4>4
    <3>8. PICK p \in Nat : p = Min({n, UnreadOf(f)})
        BY <3>7, UnreadIs
    <3>9. g.torn \/ (Positioned(f, n) /\ p = n)
        BY <2>3, <3>7, <3>6, <3>8, UnreadIs
    <3>10. /\ StreamInv' /\ res' = e /\ s'.seekable = f.seekable /\ s'.eof = f.eof /\ s'.torn = f.torn
           /\ ~ f.torn => /\ FileContent' = Content(f)
                          /\ FileBase' = Spot(f, p) /\ FileBack' = Back(f, p)
        BY <3>3, <3>7, <3>6, <3>8, <3>9, DoneIs
    <3>11. res'.op = "unread" /\ res'.ok = TRUE /\ res'.byte = c
        BY <3>2, <3>10
    <3>12. s'.seekable = s.seekable
        BY <2>3, <3>7, <3>10 DEF Like
    <3>13. CASE f.torn
        BY <3>10, <3>12, <3>13, AbstractStep
    <3>14. CASE ~ f.torn
      <4>1. /\ FileContent' = FileContent /\ FileBase' = FileBase
            /\ FileBack' = <<res'.byte>> \o FileBack /\ ~ s'.eof
          BY <2>3, <3>7, <3>6, <3>9, <3>10, <3>11, <3>14, Here
      <4>2. Abstract!Unread
          BY <3>11, <4>1, AbstractUnread
      <4>3. QED
          BY <3>10, <3>12, <4>2, AbstractStep
    <3>15. QED
        BY <3>13, <3>14
  <2>6. QED
      BY <2>3, <2>4, <2>5
<1>4. QED
    BY <1>2, <1>3

-----------------------------------------------------------------------------
(* fwrite().                                                               *)

LEMMA FrontIs ==
    ASSUME NEW V, NEW q \in Seq(V), NEW k \in 0 .. Len(q)
    PROVE  /\ SubSeq(q, 1, k) \in Seq(V) /\ Len(SubSeq(q, 1, k)) = k
           /\ \A i \in 1 .. k : SubSeq(q, 1, k)[i] = q[i]
<1>1. Len(q) \in Nat
    BY LenProperties
<1>2. 0 \in Nat /\ k \in Nat /\ 0 <= k /\ k <= Len(q)
    BY <1>1
<1>3. /\ SubSeq(q, 0 + 1, k) \in Seq(V) /\ Len(SubSeq(q, 0 + 1, k)) = k - 0
      /\ \A i \in 1 .. k - 0 : SubSeq(q, 0 + 1, k)[i] = q[0 + i]
    BY <1>2, PartIs
<1>4. QED
    BY <1>2, <1>3

\* What is written behind p is written with it
LEMMA OverlayMore ==
    ASSUME NEW c \in Seq(Byte), NEW at \in Nat, NEW p \in Seq(Byte), NEW q \in Seq(Byte)
    PROVE  Overlay(Overlay(c, at, p), at + Len(p), q) = Overlay(c, at, p \o q)
<1>1. Len(p) \in Nat /\ Len(q) \in Nat
    BY LenProperties
<1>2. PICK b : b = p \o q
    OBVIOUS
<1>3. /\ b \in Seq(Byte) /\ Len(b) = Len(p) + Len(q)
      /\ \A i \in 1 .. Len(p) + Len(q) : b[i] = IF i <= Len(p) THEN p[i] ELSE q[i - Len(p)]
    BY <1>2, ConcatProperties
<1>4. Len(p) \in 0 .. Len(b) /\ Len(p) <= Len(b)
    BY <1>1, <1>3
<1>5. SubSeq(b, 1, Len(p)) = p
  <2>1. /\ SubSeq(b, 1, Len(p)) \in Seq(Byte) /\ Len(SubSeq(b, 1, Len(p))) = Len(p)
        /\ \A i \in 1 .. Len(p) : SubSeq(b, 1, Len(p))[i] = b[i]
      BY <1>3, <1>4, FrontIs
  <2>2. \A i \in 1 .. Len(p) : b[i] = p[i]
      BY <1>1, <1>3
  <2>3. QED
      BY <2>1, <2>2, SameSequence
<1>6. Drop(b, Len(p)) = q
  <2>1. /\ Drop(b, Len(p)) \in Seq(Byte)
        /\ Len(Drop(b, Len(p))) = IF Len(p) <= Len(b) THEN Len(b) - Len(p) ELSE 0
        /\ \A i \in 1 .. Len(b) - Len(p) : Drop(b, Len(p))[i] = b[Len(p) + i]
    <3>1. PICK m \in Nat, a \in Seq(Byte) : m = Len(p) /\ a = b
        BY <1>1, <1>3
    <3>2. /\ Drop(a, m) \in Seq(Byte) /\ Len(Drop(a, m)) = IF m <= Len(a) THEN Len(a) - m ELSE 0
          /\ \A i \in 1 .. Len(a) - m : Drop(a, m)[i] = a[m + i]
        BY DropIs
    <3>3. QED
        BY <3>1, <3>2
  <2>2. Len(Drop(b, Len(p))) = Len(q) /\ Len(b) - Len(p) = Len(q)
      BY <1>1, <1>3, <1>4, <2>1
  <2>3. \A i \in 1 .. Len(q) : b[Len(p) + i] = q[i]
    <3>1. TAKE i \in 1 .. Len(q)
    <3>2. Len(p) + i \in 1 .. Len(p) + Len(q) /\ ~ (Len(p) + i <= Len(p)) /\ Len(p) + i - Len(p) = i
        BY <1>1
    <3>3. QED
        BY <1>3, <3>2
  <2>4. QED
      BY <2>1, <2>2, <2>3, SameSequence
<1>7. Overlay(Overlay(c, at, SubSeq(b, 1, Len(p))), at + Len(p), Drop(b, Len(p))) = Overlay(c, at, b)
    BY <1>3, <1>4, OverlayTwice
<1>8. QED
    BY <1>2, <1>5, <1>6, <1>7

\* Of b, all but `rest' went to c at t
Took(f, rest, b, c, t) ==
    /\ rest = Drop(b, Len(b) - Len(rest))
    /\ Content(f) = Overlay(c, t, SubSeq(b, 1, Len(b) - Len(rest)))
    /\ Spot(f, 0) = t + (Len(b) - Len(rest))

\* z went to what f holds, where f stands
Added(g, f, z) ==
    Content(g) = Overlay(Content(f), Spot(f, 0), z) /\ Spot(g, 0) = Spot(f, 0) + Len(z)

\* Taking the next k of them
LEMMA TookMore ==
    ASSUME NEW b \in Seq(Byte), NEW rest \in Seq(Byte), Len(rest) <= Len(b),
           NEW c \in Seq(Byte), NEW t \in Nat,
           NEW f, Took(f, rest, b, c, t), NEW k \in 0 .. Len(rest),
           NEW g, NEW z \in Seq(Byte), z = SubSeq(rest, 1, k), Added(g, f, z)
    PROVE  /\ Drop(rest, k) \in Seq(Byte) /\ Len(Drop(rest, k)) = Len(rest) - k
           /\ Took(g, Drop(rest, k), b, c, t)
<1>1. Len(b) \in Nat /\ Len(rest) \in Nat /\ k \in Nat /\ k <= Len(rest)
    BY LenProperties
<1>2. PICK d \in Nat : d = Len(b) - Len(rest)
    BY SMTT(30), <1>1
<1>3. d + k \in Nat /\ d + k \in 0 .. Len(b) /\ d \in 0 .. Len(b) /\ k \in 0 .. Len(rest)
    BY <1>1, <1>2
<1>4. rest = Drop(b, d) /\ Content(f) = Overlay(c, t, SubSeq(b, 1, d)) /\ Spot(f, 0) = t + d
    BY <1>2 DEF Took
<1>5. /\ Drop(rest, k) \in Seq(Byte) /\ Len(Drop(rest, k)) = Len(rest) - k
      /\ \A i \in 1 .. Len(rest) - k : Drop(rest, k)[i] = rest[k + i]
    BY <1>1, DropIs
<1>6. \A i \in 1 .. Len(b) - d : rest[i] = b[d + i]
    BY <1>4, DropIs
<1>7. Drop(rest, k) = Drop(b, d + k)
  <2>1. PICK e \in Nat : e = d + k
      BY <1>3
  <2>2. /\ Drop(b, e) \in Seq(Byte) /\ Len(Drop(b, e)) = IF e <= Len(b) THEN Len(b) - e ELSE 0
        /\ \A i \in 1 .. Len(b) - e : Drop(b, e)[i] = b[e + i]
      BY DropIs
  <2>3. Len(Drop(b, e)) = Len(rest) - k /\ Len(b) - e = Len(rest) - k
      BY <1>1, <1>2, <1>3, <2>1, <2>2
  <2>4. \A i \in 1 .. Len(rest) - k : rest[k + i] = b[e + i]
    <3>1. TAKE i \in 1 .. Len(rest) - k
    <3>2. k + i \in 1 .. Len(b) - d /\ d + (k + i) = e + i
        BY <1>1, <1>2, <2>1
    <3>3. QED
        BY <1>6, <3>2
  <2>5. Drop(rest, k) = Drop(b, e)
      BY <1>5, <2>2, <2>3, <2>4, SameSequence
  <2>6. QED
      BY <2>1, <2>5
<1>8. PICK p \in Seq(Byte) : p = SubSeq(b, 1, d) /\ Len(p) = d /\ \A i \in 1 .. d : p[i] = b[i]
    BY ZenonT(60), <1>3, FrontIs
<1>9. PICK q \in Seq(Byte) : q = z /\ Len(q) = k /\ \A i \in 1 .. k : q[i] = rest[i]
    BY <1>3, FrontIs
<1>10. p \o q = SubSeq(b, 1, d + k)
  <2>1. PICK w : w = p \o q
      OBVIOUS
  <2>2. /\ w \in Seq(Byte) /\ Len(w) = d + k
        /\ \A i \in 1 .. d + k : w[i] = IF i <= d THEN p[i] ELSE q[i - d]
      BY <1>8, <1>9, <2>1, ConcatProperties
  <2>3. PICK y \in Seq(Byte) : /\ y = SubSeq(b, 1, d + k) /\ Len(y) = d + k
                               /\ \A i \in 1 .. d + k : y[i] = b[i]
      BY <1>3, FrontIs
  <2>4. ASSUME NEW i \in 1 .. d + k PROVE w[i] = y[i]
    <3>1. CASE i <= d
      <4>1. i \in 1 .. d
          BY <1>3, <3>1
      <4>2. QED
          BY <1>8, <2>2, <2>3, <3>1, <4>1
    <3>2. CASE ~ (i <= d)
      <4>1. i - d \in 1 .. k /\ i - d \in 1 .. Len(b) - d /\ d + (i - d) = i
          BY <1>1, <1>2, <1>3, <3>2
      <4>2. w[i] = q[i - d] /\ q[i - d] = rest[i - d] /\ rest[i - d] = b[i] /\ y[i] = b[i]
          BY <1>6, <1>9, <2>2, <2>3, <3>2, <4>1
      <4>3. QED
          BY <4>2
    <3>3. QED
        BY <3>1, <3>2
  <2>5. w = y
      BY <2>2, <2>3, <2>4, SameSequence
  <2>6. QED
      BY <2>1, <2>3, <2>5
<1>11. Overlay(Overlay(c, t, p), t + Len(p), q) = Overlay(c, t, p \o q)
    BY OverlayMore
<1>12. Content(g) = Overlay(c, t, SubSeq(b, 1, d + k))
    BY <1>4, <1>8, <1>9, <1>10, <1>11 DEF Added
<1>13. Len(b) - Len(Drop(rest, k)) = d + k
    BY <1>1, <1>2, <1>3, <1>5
<1>14. Spot(g, 0) = t + (d + k)
  <2>1. Spot(g, 0) = (t + d) + k
      BY <1>4, <1>9 DEF Added
  <2>2. (t + d) + k = t + (d + k)
      BY <1>1
  <2>3. QED
      BY <2>1, <2>2
<1>15. QED
    BY <1>5, <1>7, <1>12, <1>13, <1>14 DEF Took

\* z is staged behind what is staged
Behind(f, z) ==
    [f EXCEPT !.bufpos = @ + Len(z), !.buffer = SubSeq(@, 1, f.bufpos) \o z \o Drop(@, f.bufpos + Len(z))]

LEMMA StagedMore ==
    ASSUME NEW f, Sane(f), Staging(f), NEW z \in Seq(Byte), NEW k \in Nat, k = Len(z), f.bufpos + k <= BufSize
    PROVE  LET g == Behind(f, z)
           IN  /\ Sane(g) /\ Staging(g) /\ Like(g, f) /\ g.bufpos = f.bufpos + k
               /\ g.error = f.error /\ g.eof = f.eof /\ g.torn = f.torn /\ Added(g, f, z)
<1>1. /\ f \in StreamType /\ f.buffer \in Seq(Byte) /\ f.bufpos \in 0 .. BufSize
      /\ f.file \in Seq(Byte) /\ f.off \in Nat /\ Len(f.buffer) = BufSize
    BY DEF Sane, StreamType, Staging
<1>2. BufSize \in Nat /\ k \in Nat /\ f.bufpos \in Nat /\ f.bufpos \in 0 .. f.bufpos
    BY <1>1, LenProperties
<1>3. PICK n \in 0 .. BufSize : n = f.bufpos + k
    BY <1>1, <1>2
<1>4. PICK m \in Nat : m = f.bufpos /\ m <= n /\ n = m + k
    BY <1>2, <1>3
<1>5. PICK a \in Seq(Byte) : a = StagedOf(f) /\ Len(a) = m /\ \A i \in 1 .. m : a[i] = f.buffer[i]
    BY <1>2, <1>4, StagedIs DEF StagedOf
<1>6. PICK e \in Seq(Byte) : e = Drop(f.buffer, n) /\ Len(e) = BufSize - n
  <2>1. PICK q \in Seq(Byte) : q = f.buffer /\ Len(q) = BufSize
      BY <1>1
  <2>2. n \in Nat /\ n <= Len(q)
      BY <1>2, <2>1
  <2>3. Drop(q, n) \in Seq(Byte) /\ Len(Drop(q, n)) = IF n <= Len(q) THEN Len(q) - n ELSE 0
      BY <2>2, DropIs
  <2>4. QED
      BY <2>1, <2>2, <2>3
<1>7. PICK w : w = a \o z
    OBVIOUS
<1>8. w \in Seq(Byte) /\ Len(w) = n
    BY <1>4, <1>5, <1>7, ConcatProperties
<1>9. PICK y : y = w \o e
    OBVIOUS
<1>10. /\ y \in Seq(Byte) /\ Len(y) = BufSize
       /\ \A i \in 1 .. n : y[i] = w[i]
  <2>1. /\ y \in Seq(Byte) /\ Len(y) = Len(w) + Len(e)
        /\ \A i \in 1 .. Len(w) + Len(e) : y[i] = IF i <= Len(w) THEN w[i] ELSE e[i - Len(w)]
      BY <1>8, <1>9, ConcatProperties
  <2>2. Len(w) + Len(e) = BufSize /\ \A i \in 1 .. n : i \in 1 .. Len(w) + Len(e) /\ i <= Len(w)
      BY <1>2, <1>6, <1>8
  <2>3. QED
      BY <2>1, <2>2
<1>11. PICK g : g = [f EXCEPT !.bufpos = n, !.buffer = y]
    OBVIOUS
<1>12. g = Behind(f, z)
    BY <1>3, <1>5, <1>6, <1>7, <1>9, <1>11 DEF StagedOf, Behind
<1>13. /\ g \in StreamType /\ g.bufpos = n /\ g.buffer = y /\ g.file = f.file /\ g.off = f.off
       /\ g.torn = f.torn /\ g.error = f.error /\ g.eof = f.eof /\ g.bufeof = f.bufeof
       /\ g.writing = f.writing /\ g.mode = f.mode /\ g.seekable = f.seekable /\ g.line = f.line
    BY <1>1, <1>10, <1>11 DEF StreamType
<1>14. y # <<>>
    BY <1>1, <1>10, EmptyIs DEF Staging, Unbuffered
<1>15. Sane(g) /\ Staging(g) /\ Like(g, f)
    BY <1>10, <1>13, <1>14 DEF Sane, Staging, Like, Unbuffered
<1>16. StagedOf(g) = w
  <2>1. n \in 0 .. g.bufpos
      BY <1>13
  <2>2. /\ StagedOf(g) \in Seq(Byte) /\ Len(StagedOf(g)) = n
        /\ \A i \in 1 .. n : StagedOf(g)[i] = y[i]
      BY <1>13, <1>15, <2>1, StagedIs DEF StagedOf
  <2>3. QED
      BY <1>8, <1>10, <2>2, SameSequence
<1>17. Added(g, f, z)
  <2>1. Content(g) = Overlay(f.file, f.off, a \o z) /\ Content(f) = Overlay(f.file, f.off, a)
      BY <1>5, <1>7, <1>13, <1>15, <1>16 DEF Content
  <2>2. Overlay(Overlay(f.file, f.off, a), f.off + Len(a), z) = Overlay(f.file, f.off, a \o z)
    <3>1. PICK c \in Seq(Byte), at \in Nat : c = f.file /\ at = f.off
        BY <1>1
    <3>2. Overlay(Overlay(c, at, a), at + Len(a), z) = Overlay(c, at, a \o z)
        BY OverlayMore
    <3>3. QED
        BY <3>1, <3>2
  <2>3. Spot(f, 0) = f.off + m /\ Spot(g, 0) = f.off + n
      BY <1>4, <1>13, <1>15 DEF Spot, Staging
  <2>4. f.off + n = f.off + m + k
      BY <1>1, <1>2, <1>4
  <2>5. QED
      BY <1>5, <2>1, <2>2, <2>3, <2>4 DEF Added
<1>18. QED
    BY <1>3, <1>12, <1>13, <1>15, <1>17

\* A call: b is written to the stream f, when the file was to be c and the stream
\* stood at t
Call(o) == o.b \in Seq(Byte) /\ o.c \in Seq(Byte) /\ o.t \in Nat

\* What a call in progress keeps
Job(j) == j = [f |-> j.f, rest |-> j.rest, stop |-> j.stop] /\ j.stop \in BOOLEAN
Accepting(j, o) ==
    /\ Job(j) /\ Call(o)
    /\ Sane(j.f) /\ Staging(j.f) /\ Like(j.f, o.f) /\ j.f.eof = o.f.eof
    /\ j.rest \in Seq(Byte) /\ Len(j.rest) <= Len(o.b)
    /\ j.f.torn \/ Took(j.f, j.rest, o.b, o.c, o.t)

\* n is j after k more of the rest went
Further(n, j, k) ==
    /\ Job(n) /\ n.rest = Drop(j.rest, k)
    /\ Sane(n.f) /\ Staging(n.f) /\ Like(n.f, j.f) /\ n.f.eof = j.f.eof
    /\ n.f.torn \/ Added(n.f, j.f, SubSeq(j.rest, 1, k))

LEMMA AcceptMore ==
    ASSUME NEW o, NEW j, Accepting(j, o), NEW k \in 0 .. Len(j.rest), NEW n, Further(n, j, k)
    PROVE  Accepting(n, o) /\ Len(n.rest) = Len(j.rest) - k
<1>1. PICK h : h = j.f
    OBVIOUS
<1>2. PICK rest \in Seq(Byte) : rest = j.rest
    BY DEF Accepting
<1>3. PICK g : g = n.f
    OBVIOUS
<1>4. PICK b \in Seq(Byte), c \in Seq(Byte), t \in Nat : b = o.b /\ c = o.c /\ t = o.t
    BY DEF Accepting, Call
<1>5. /\ Like(h, o.f) /\ h.eof = o.f.eof /\ Len(rest) <= Len(b)
      /\ h.torn \/ Took(h, rest, b, c, t)
    BY <1>1, <1>2, <1>4 DEF Accepting
<1>6. Len(b) \in Nat /\ Len(rest) \in Nat /\ k \in Nat /\ k <= Len(rest) /\ k \in 0 .. Len(rest)
    BY <1>2, LenProperties
<1>7. PICK z \in Seq(Byte) : z = SubSeq(rest, 1, k)
    BY <1>6, FrontIs
<1>8. Drop(rest, k) \in Seq(Byte) /\ Len(Drop(rest, k)) = Len(rest) - k
    BY <1>6, DropIs
<1>9. /\ Sane(g) /\ Staging(g) /\ Like(g, h) /\ g.eof = h.eof /\ (g.torn \/ Added(g, h, z))
      /\ Job(n) /\ n.rest = Drop(rest, k)
    BY <1>1, <1>2, <1>3, <1>7 DEF Further
<1>10. g.torn \/ Took(g, Drop(rest, k), b, c, t)
  <2>1. h.torn => g.torn
      BY <1>9 DEF Like
  <2>2. CASE Took(h, rest, b, c, t) /\ Added(g, h, z)
    <3>1. Took(g, Drop(rest, k), b, c, t)
        BY <1>5, <1>6, <1>7, <2>2, TookMore
    <3>2. QED
        BY <3>1
  <2>3. QED
      BY <1>5, <1>9, <2>1, <2>2
<1>11. Like(g, o.f) /\ g.eof = o.f.eof
    BY <1>5, <1>9 DEF Like
<1>12. Len(Drop(rest, k)) <= Len(b)
    BY <1>5, <1>6, <1>8
<1>13. Accepting(n, o)
    BY <1>3, <1>4, <1>8, <1>9, <1>10, <1>11, <1>12 DEF Accepting
<1>14. QED
    BY <1>2, <1>8, <1>9, <1>13

LEMMA FillIs ==
    ASSUME NEW o, NEW j, Accepting(j, o)
    PROVE  LET k == IF Len(j.rest) <= BufSize - j.f.bufpos THEN Len(j.rest) ELSE BufSize - j.f.bufpos
           IN  /\ Accepting(Fill(j), o)
               /\ Fill(j).f.error = j.f.error /\ Fill(j).stop = j.stop
               /\ Fill(j).f.bufpos = j.f.bufpos + k /\ Len(Fill(j).rest) = Len(j.rest) - k
<1>1. PICK h : h = j.f
    OBVIOUS
<1>2. PICK rest \in Seq(Byte) : rest = j.rest
    BY DEF Accepting
<1>3. Sane(h) /\ Staging(h) /\ j.stop \in BOOLEAN
    BY <1>1 DEF Accepting, Job
<1>4. h.bufsz = BufSize /\ h.bufpos \in 0 .. h.bufpos /\ h.bufpos \in Nat
    BY <1>3 DEF Sane, StreamType
<1>5. h.bufpos <= BufSize /\ BufSize \in Nat /\ Len(rest) \in Nat
    BY <1>3, <1>4, StagedIs, LenProperties
<1>6. PICK k : k = Min({h.bufsz - h.bufpos, Len(rest)})
    OBVIOUS
<1>7. k = IF Len(rest) <= BufSize - h.bufpos THEN Len(rest) ELSE BufSize - h.bufpos
    BY <1>4, <1>5, <1>6, MinOfTwo
<1>8. k \in 0 .. Len(rest) /\ h.bufpos + k <= BufSize /\ k \in Nat
    BY <1>4, <1>5, <1>7
<1>9. PICK z \in Seq(Byte) : z = SubSeq(rest, 1, k) /\ Len(z) = k
    BY <1>8, FrontIs
<1>10. PICK g : g = Behind(h, z)
    OBVIOUS
<1>11. /\ Sane(g) /\ Staging(g) /\ Like(g, h) /\ g.bufpos = h.bufpos + k
       /\ g.error = h.error /\ g.eof = h.eof /\ Added(g, h, z)
    BY <1>3, <1>8, <1>9, <1>10, StagedMore
<1>12. PICK n : n = [f |-> g, rest |-> Drop(rest, k), stop |-> j.stop]
    OBVIOUS
<1>13. n = Fill(j)
    BY <1>1, <1>2, <1>6, <1>9, <1>10, <1>12 DEF Fill, Behind
<1>14. n.f = g /\ n.rest = Drop(rest, k) /\ n.stop = j.stop /\ Job(n)
    BY <1>3, <1>12 DEF Job
<1>15. Further(n, j, k)
    BY <1>1, <1>2, <1>9, <1>11, <1>14 DEF Further
<1>16. Accepting(n, o) /\ Len(n.rest) = Len(j.rest) - k
  <2>1. k \in 0 .. Len(j.rest)
      BY <1>2, <1>8
  <2>2. QED
      BY <1>15, <2>1, AcceptMore
<1>17. QED
    BY <1>1, <1>2, <1>7, <1>11, <1>13, <1>14, <1>16

LEMMA MarkShows ==
    ASSUME NEW f, Sane(f), NEW e \in BOOLEAN, NEW g, g = [f EXCEPT !.error = e]
    PROVE  /\ Sane(g) /\ Like(g, f) /\ SameBuffer(g, f) /\ g.error = e /\ g.torn = f.torn
           /\ Staging(g) <=> Staging(f)
           /\ Content(g) = Content(f) /\ Spot(g, 0) = Spot(f, 0)
<1>1. /\ Sane(g) /\ Like(g, f) /\ SameBuffer(g, f) /\ g.error = e
      /\ g.file = f.file /\ g.off = f.off /\ g.torn = f.torn
    BY MarkIs
<1>2. /\ Staging(g) <=> Staging(f)
      /\ Content(g) = Content(f) /\ Spot(g, 0) = Spot(f, 0)
  <2>1. Base(g, 0) = Base(f, 0)
      BY <1>1 DEF Base, SameBuffer
  <2>2. QED
      BY <1>1, <2>1 DEF SameBuffer, Staging, Content, StagedOf, Spot
<1>3. QED
    BY <1>1, <1>2

LEMMA WriteBufferIs ==
    ASSUME NEW f, Sane(f), Staging(f), NEW n \in 0 .. f.bufpos, NEW r \in WriteBuffer(f, n)
    PROVE  /\ r[2] \in -1 .. n
           /\ Sane(r[1]) /\ Like(r[1], f) /\ Staging(r[1]) /\ r[1].eof = f.eof
           /\ r[1].error <=> f.error \/ r[2] < n
           /\ r[1].bufpos = IF r[2] > 0 THEN f.bufpos - r[2] ELSE f.bufpos
           /\ r[1].torn \/ (Content(r[1]) = Content(f) /\ Spot(r[1], 0) = Spot(f, 0))
<1>1. PICK q \in FullWrite(f, SubSeq(f.buffer, 1, n)) :
         r = <<[IF q[2] > 0 THEN Consume(q[1], q[2]) ELSE q[1] EXCEPT !.error = @ \/ q[2] < n], q[2]>>
    BY Zenon DEF WriteBuffer
<1>2. PICK g : g = IF q[2] > 0 THEN Consume(q[1], q[2]) ELSE q[1]
    OBVIOUS
<1>3. r = <<[g EXCEPT !.error = @ \/ q[2] < n], q[2]>>
    BY <1>1, <1>2
<1>4. /\ q[2] \in -1 .. n
      /\ Sane(g) /\ Like(g, f) /\ Staging(g) /\ g.error = f.error /\ g.eof = f.eof
      /\ g.bufpos = IF q[2] > 0 THEN f.bufpos - q[2] ELSE f.bufpos
      /\ g.torn \/ (Content(g) = Content(f) /\ g.off + g.bufpos = f.off + f.bufpos)
  <2>1. IF q[2] > 0 THEN g = Consume(q[1], q[2]) ELSE g = q[1] \/ (q[2] = 0 /\ g = Consume(q[1], 0))
      BY <1>2
  <2>2. QED
      BY <2>1, WriteOutIs
<1>5. PICK e \in BOOLEAN : e = (g.error \/ q[2] < n)
    OBVIOUS
<1>6. PICK h : h = [g EXCEPT !.error = e]
    OBVIOUS
<1>7. r[1] = h /\ r[2] = q[2]
  <2>1. [g EXCEPT !.error = @ \/ q[2] < n] = h
      BY <1>5, <1>6
  <2>2. QED
      BY <1>3, <2>1
<1>8. /\ Sane(h) /\ Like(h, g) /\ Staging(h) /\ h.error = e /\ h.eof = g.eof
      /\ h.bufpos = g.bufpos /\ h.torn = g.torn
      /\ Content(h) = Content(g) /\ Spot(h, 0) = Spot(g, 0)
    BY <1>4, <1>6, MarkShows DEF SameBuffer
<1>9. g.torn \/ Spot(g, 0) = Spot(f, 0)
    BY <1>4 DEF Spot, Staging
<1>10. Like(h, f)
    BY <1>4, <1>8 DEF Like
<1>11. h.torn \/ (Content(h) = Content(f) /\ Spot(h, 0) = Spot(f, 0))
    BY <1>4, <1>8, <1>9
<1>12. QED
    BY <1>4, <1>5, <1>7, <1>8, <1>10, <1>11

\* A transfer from the buffer leaves the job where it was
LEMMA AcceptStill ==
    ASSUME NEW o, NEW j, Accepting(j, o), NEW n, Job(n), n.rest = j.rest,
           Sane(n.f), Staging(n.f), Like(n.f, j.f), n.f.eof = j.f.eof,
           n.f.torn \/ (Content(n.f) = Content(j.f) /\ Spot(n.f, 0) = Spot(j.f, 0))
    PROVE  Accepting(n, o)
<1>1. Like(n.f, o.f)
    BY DEF Accepting, Like
<1>2. n.f.torn \/ Took(n.f, n.rest, o.b, o.c, o.t)
  <2>1. j.f.torn => n.f.torn
      BY DEF Like
  <2>2. j.f.torn \/ Took(j.f, j.rest, o.b, o.c, o.t)
      BY DEF Accepting
  <2>3. QED
      BY <2>1, <2>2 DEF Took
<1>3. QED
    BY <1>1, <1>2 DEF Accepting

LEMMA FlushFullIs ==
    ASSUME NEW o, NEW j, Accepting(j, o), ~ j.stop,
           j.f.bufpos = BufSize \/ j.f.bufpos = 0 \/ j.rest = <<>>, NEW n \in FlushFull(j)
    PROVE  /\ Accepting(n, o)
           /\ n.stop => n.f.error
           /\ ~ n.stop => n.f.bufpos = 0 \/ n.f.error \/ n.rest = <<>>
<1>1. PICK h : h = j.f
    OBVIOUS
<1>2. Sane(h) /\ Staging(h) /\ Job(j)
    BY <1>1 DEF Accepting
<1>3. h.bufsz = BufSize /\ h.bufpos \in Nat /\ h.bufpos \in 0 .. h.bufpos /\ h.error \in BOOLEAN
    BY <1>2 DEF Sane, StreamType
<1>4. CASE h.bufpos # h.bufsz
  <2>1. n = j
      BY <1>1, <1>4 DEF FlushFull
  <2>2. QED
      BY <1>1, <1>3, <1>4, <2>1
<1>5. CASE h.bufpos = h.bufsz
  <2>1. PICK r \in WriteBuffer(h, h.bufsz) : n = Offered(j, r, h.bufsz, FALSE)
      BY <1>1, <1>5 DEF FlushFull
  <2>2. /\ r[2] \in -1 .. h.bufpos
        /\ Sane(r[1]) /\ Like(r[1], h) /\ Staging(r[1]) /\ r[1].eof = h.eof
        /\ r[1].error <=> h.error \/ r[2] < h.bufpos
        /\ r[1].bufpos = IF r[2] > 0 THEN h.bufpos - r[2] ELSE h.bufpos
        /\ r[1].torn \/ (Content(r[1]) = Content(h) /\ Spot(r[1], 0) = Spot(h, 0))
      BY <1>2, <1>3, <1>5, <2>1, WriteBufferIs
  <2>3. PICK g : g = r[1]
      OBVIOUS
  <2>4. PICK short \in BOOLEAN : short = (r[2] \in 0 .. h.bufsz - 1)
    <3>1. (r[2] \in 0 .. h.bufsz - 1) \in BOOLEAN
        OBVIOUS
    <3>2. PICK b : b = (r[2] \in 0 .. h.bufsz - 1)
        OBVIOUS
    <3>3. QED
        BY <3>1, <3>2, Zenon
  <2>5. PICK m : m = [j EXCEPT !.f = g, !.stop = short]
      OBVIOUS
  <2>6. m.f = g /\ m.stop = short /\ m.rest = j.rest /\ Job(m)
      BY <1>2, <2>5 DEF Job
  <2>7. n = IF short /\ r[2] > 0 THEN Fill(m) ELSE m
    <3>1. [j EXCEPT !.f = g, !.stop = short, !.rest = @] = m
        BY <1>2, <2>5 DEF Job
    <3>2. QED
        BY <2>1, <2>3, <2>4, <3>1 DEF Offered
  <2>8. Accepting(m, o)
      BY <1>1, <2>2, <2>3, <2>6, AcceptStill
  <2>9. short => g.error
    <3>1. r[2] \in 0 .. h.bufsz - 1 => r[2] < h.bufpos
        BY <1>3, <1>5
    <3>2. QED
        BY <2>2, <2>3, <2>4, <3>1
  <2>10. ~ short => g.bufpos = 0 \/ g.error
    <3>1. r[2] \notin 0 .. h.bufsz - 1 => r[2] < h.bufpos \/ (r[2] = h.bufpos /\ h.bufpos \in Nat)
        BY <1>3, <1>5, <2>2
    <3>2. r[2] = h.bufpos /\ h.bufpos \in Nat => g.bufpos = 0
        BY <2>2, <2>3
    <3>3. QED
        BY <2>2, <2>3, <2>4, <3>1, <3>2
  <2>11. CASE short /\ r[2] > 0
    <3>1. Accepting(Fill(m), o) /\ Fill(m).f.error = m.f.error /\ Fill(m).stop = m.stop
        BY <2>8, FillIs
    <3>2. QED
        BY <2>6, <2>7, <2>9, <2>11, <3>1
  <2>12. CASE ~ (short /\ r[2] > 0)
      BY <2>6, <2>7, <2>8, <2>9, <2>10, <2>12
  <2>13. QED
      BY <2>11, <2>12
<1>6. QED
    BY <1>4, <1>5

LEMMA FrontOfFront ==
    ASSUME NEW V, NEW q \in Seq(V), NEW n \in 0 .. Len(q), NEW k \in 0 .. n
    PROVE  SubSeq(SubSeq(q, 1, n), 1, k) = SubSeq(q, 1, k)
<1>1. Len(q) \in Nat /\ n \in Nat /\ k \in Nat /\ k <= n /\ k \in 0 .. Len(q)
    BY LenProperties
<1>2. PICK x \in Seq(V) : x = SubSeq(q, 1, n) /\ Len(x) = n /\ \A i \in 1 .. n : x[i] = q[i]
    BY FrontIs
<1>3. PICK y \in Seq(V) : y = SubSeq(x, 1, k) /\ Len(y) = k /\ \A i \in 1 .. k : y[i] = x[i]
  <2>1. k \in 0 .. Len(x)
      BY <1>1, <1>2
  <2>2. QED
      BY <2>1, FrontIs
<1>4. PICK z \in Seq(V) : z = SubSeq(q, 1, k) /\ Len(z) = k /\ \A i \in 1 .. k : z[i] = q[i]
    BY ZenonT(60), <1>1, FrontIs
<1>5. \A i \in 1 .. k : y[i] = z[i]
    BY <1>1, <1>2, <1>3, <1>4
<1>6. y = z
    BY <1>3, <1>4, <1>5, SameSequence
<1>7. QED
    BY <1>2, <1>3, <1>4, <1>6

\* Nothing is staged: what the descriptor takes of b goes where the stream stands
LEMMA WriteDataIs ==
    ASSUME NEW f, Sane(f), Idle(f), ~ Reading(f), NEW b \in Seq(Byte), NEW r \in WriteData(f, b)
    PROVE  /\ r[2] \in -1 .. Len(b)
           /\ Sane(r[1]) /\ Like(r[1], f) /\ SameBuffer(r[1], f)
           /\ r[1].error <=> f.error \/ r[2] < Len(b)
           /\ r[1].torn \/ Added(r[1], f, SubSeq(b, 1, IF r[2] > 0 THEN r[2] ELSE 0))
<1>1. PICK q \in FullWrite(f, b) : r = <<[q[1] EXCEPT !.error = @ \/ q[2] < Len(b)], q[2]>>
    BY Zenon DEF WriteData
<1>2. PICK g : g = q[1]
    OBVIOUS
<1>3. /\ Sane(g) /\ Like(g, f) /\ SameBuffer(g, f) /\ g.error = f.error
      /\ q[2] \in -1 .. Len(b)
      /\ q[2] >= 0 => /\ g.file = Overlay(f.file, f.off, SubSeq(b, 1, q[2]))
                      /\ g.off = f.off + q[2] /\ g.torn = f.torn
      /\ q[2] = -1 => g.torn \/ (g.file = f.file /\ g.off = f.off)
    BY <1>2, FullWriteIs
<1>4. Idle(g)
    BY <1>3 DEF SameBuffer, Idle
<1>5. PICK e \in BOOLEAN : e = (g.error \/ q[2] < Len(b))
    OBVIOUS
<1>6. PICK h : h = [g EXCEPT !.error = e]
    OBVIOUS
<1>7. r[1] = h /\ r[2] = q[2]
  <2>1. [g EXCEPT !.error = @ \/ q[2] < Len(b)] = h
      BY <1>5, <1>6
  <2>2. QED
      BY <1>1, <1>2, <2>1
<1>8. /\ Sane(h) /\ Like(h, g) /\ SameBuffer(h, g) /\ h.error = e /\ h.torn = g.torn
      /\ Content(h) = Content(g) /\ Spot(h, 0) = Spot(g, 0)
    BY <1>3, <1>6, MarkShows
<1>9. PICK k \in 0 .. Len(b) : k = IF q[2] > 0 THEN q[2] ELSE 0
    BY <1>3, LenProperties
<1>10. PICK z \in Seq(Byte) : z = SubSeq(b, 1, k) /\ Len(z) = k
    BY FrontIs
<1>11. Content(g) = g.file /\ Spot(g, 0) = g.off /\ Content(f) = f.file /\ Spot(f, 0) = f.off
    BY <1>3, <1>4, IdleIs
<1>12. g.torn \/ Added(g, f, z)
  <2>1. f.file \in Seq(Byte) /\ f.off \in Nat
      BY DEF Sane, StreamType
  <2>2. CASE q[2] >= 0
    <3>1. k = q[2]
        BY <1>3, <1>9, <2>2
    <3>2. g.file = Overlay(f.file, f.off, z) /\ g.off = f.off + Len(z)
        BY <1>3, <1>10, <2>2, <3>1
    <3>3. QED
        BY <1>11, <3>2 DEF Added
  <2>3. CASE q[2] = -1 /\ ~ g.torn
    <3>1. k = 0
        BY <1>9, <2>3
    <3>2. z = <<>>
        BY <1>10, <3>1, EmptyIs
    <3>3. g.file = Overlay(f.file, f.off, z) /\ g.off = f.off + Len(z)
        BY <1>3, <1>10, <2>1, <2>3, <3>1, <3>2 DEF Overlay
    <3>4. QED
        BY <1>11, <3>3 DEF Added
  <2>4. QED
      BY <1>3, <2>2, <2>3
<1>13. h.torn \/ Added(h, f, z)
    BY <1>8, <1>12 DEF Added
<1>14. Like(h, f) /\ SameBuffer(h, f)
    BY <1>3, <1>8 DEF Like, SameBuffer
<1>15. h.error <=> f.error \/ q[2] < Len(b)
    BY <1>3, <1>5, <1>8
<1>16. QED
    BY <1>3, <1>4, <1>7, <1>8, <1>9, <1>10, <1>13, <1>14, <1>15

LEMMA StraightIs ==
    ASSUME NEW o, NEW j, Accepting(j, o), j.stop \/ j.f.bufpos = 0, j.stop => j.f.error,
           NEW n \in 0 .. Len(j.rest), NEW m \in Straight(j, n)
    PROVE  /\ Accepting(m, o) /\ (j.f.error => m.f.error)
           /\ m.stop => m.f.error
           /\ ~ m.stop => m.f.bufpos = 0 /\ (m.f.error \/ Len(m.rest) = Len(j.rest) - n)
<1>1. PICK h : h = j.f
    OBVIOUS
<1>2. PICK rest \in Seq(Byte) : rest = j.rest
    BY DEF Accepting
<1>3. Sane(h) /\ Staging(h) /\ Job(j) /\ Len(rest) \in Nat /\ n \in Nat /\ n <= Len(rest)
    BY <1>1, <1>2, LenProperties DEF Accepting
<1>4. CASE j.stop \/ n = 0
  <2>1. m = j
      BY <1>4 DEF Straight
  <2>2. QED
      BY <1>2, <1>3, <1>4, <2>1
<1>5. CASE ~ (j.stop \/ n = 0)
  <2>1. PICK b \in Seq(Byte) : b = SubSeq(rest, 1, n) /\ Len(b) = n
    <3>1. n \in 0 .. Len(rest)
        BY <1>2
    <3>2. SubSeq(rest, 1, n) \in Seq(Byte) /\ Len(SubSeq(rest, 1, n)) = n
        BY <3>1, FrontIs
    <3>3. QED
        BY <3>2
  <2>2. PICK r \in WriteData(h, b) : m = Offered(j, r, n, TRUE)
      BY <1>1, <1>2, <1>5, <2>1 DEF Straight
  <2>3. PICK g : g = r[1]
      OBVIOUS
  <2>4. /\ r[2] \in -1 .. n
        /\ Sane(g) /\ Like(g, h) /\ Staging(g) /\ g.eof = h.eof
        /\ g.error <=> h.error \/ r[2] < n
        /\ g.bufpos = 0
        /\ g.torn \/ Added(g, h, SubSeq(b, 1, IF r[2] > 0 THEN r[2] ELSE 0))
    <3>1. Idle(h) /\ ~ Reading(h)
        BY <1>1, <1>3, <1>5 DEF Idle, Staging, Reading
    <3>2. /\ r[2] \in -1 .. Len(b)
          /\ Sane(r[1]) /\ Like(r[1], h) /\ SameBuffer(r[1], h)
          /\ r[1].error <=> h.error \/ r[2] < Len(b)
          /\ r[1].torn \/ Added(r[1], h, SubSeq(b, 1, IF r[2] > 0 THEN r[2] ELSE 0))
        BY <1>3, <3>1, WriteDataIs, Zenon
    <3>3. Staging(g) /\ g.eof = h.eof /\ g.bufpos = 0
        BY <1>1, <1>3, <1>5, <2>3, <3>2 DEF SameBuffer, Staging
    <3>4. QED
        BY <2>1, <2>3, <3>2, <3>3, Zenon
  <2>5. PICK k \in 0 .. n : k = IF r[2] > 0 THEN r[2] ELSE 0
      BY <1>3, <2>4
  <2>6. k = Max({r[2], 0})
      BY <2>4, <2>5, MaxOfTwo
  <2>7. PICK short \in BOOLEAN : short = (r[2] \in 0 .. n - 1)
    <3>1. (r[2] \in 0 .. n - 1) \in BOOLEAN
        OBVIOUS
    <3>2. PICK e : e = (r[2] \in 0 .. n - 1)
        OBVIOUS
    <3>3. QED
        BY <3>1, <3>2, Zenon
  <2>8. PICK i : i = [f |-> g, rest |-> Drop(rest, k), stop |-> short]
      OBVIOUS
  <2>9. i.f = g /\ i.stop = short /\ i.rest = Drop(rest, k) /\ Job(i)
      BY <2>8 DEF Job
  <2>10. m = IF short /\ r[2] > 0 THEN Fill(i) ELSE i
    <3>1. [j EXCEPT !.f = g, !.stop = short, !.rest = IF TRUE THEN Drop(@, Max({r[2], 0})) ELSE @] = i
      <4>1. (IF TRUE THEN Drop(j.rest, Max({r[2], 0})) ELSE j.rest) = Drop(rest, k)
          BY <1>2, <2>6, Zenon
      <4>2. \A x : [j EXCEPT !.f = g, !.stop = short, !.rest = x] = [f |-> g, rest |-> x, stop |-> short]
        <5>1. PICK u, v, w : j = [f |-> u, rest |-> v, stop |-> w]
            BY <1>3 DEF Job
        <5>2. [j EXCEPT !.f = g] = [f |-> g, rest |-> v, stop |-> w]
            BY <5>1
        <5>3. PICK y : y = [f |-> g, rest |-> v, stop |-> w]
            OBVIOUS
        <5>4. [y EXCEPT !.stop = short] = [f |-> g, rest |-> v, stop |-> short]
            BY <5>3
        <5>5. PICK z : z = [f |-> g, rest |-> v, stop |-> short]
            OBVIOUS
        <5>6. \A x : [z EXCEPT !.rest = x] = [f |-> g, rest |-> x, stop |-> short]
            BY <5>5
        <5>7. QED
            BY <5>2, <5>3, <5>4, <5>5, <5>6, Zenon
      <4>3. QED
          BY <2>8, <4>1, <4>2, Zenon
    <3>2. QED
        BY <2>2, <2>3, <2>7, <3>1 DEF Offered
  <2>11. Further(i, j, k)
    <3>1. SubSeq(b, 1, k) = SubSeq(rest, 1, k)
        BY <1>2, <2>1, <2>5, FrontOfFront
    <3>2. g.torn \/ Added(g, h, SubSeq(rest, 1, k))
        BY <2>4, <2>5, <3>1
    <3>3. QED
        BY <1>1, <1>2, <2>4, <2>9, <3>2 DEF Further
  <2>12. Accepting(i, o) /\ Len(i.rest) = Len(rest) - k
    <3>1. k \in 0 .. Len(j.rest)
        BY <1>2, <1>3, <2>5
    <3>2. QED
        BY <1>2, <2>11, <3>1, AcceptMore
  <2>13. short => g.error
    <3>1. r[2] \in 0 .. n - 1 => r[2] < n
        BY <1>3
    <3>2. QED
        BY <2>4, <2>7, <3>1
  <2>14. ~ short => g.error \/ Len(i.rest) = Len(rest) - n
    <3>1. r[2] \notin 0 .. n - 1 => r[2] < n \/ k = n
        BY <1>3, <2>4, <2>5
    <3>2. QED
        BY <2>4, <2>7, <2>12, <3>1
  <2>15. h.error => g.error
      BY <2>4
  <2>16. CASE short /\ r[2] > 0
    <3>1. Accepting(Fill(i), o) /\ Fill(i).f.error = i.f.error /\ Fill(i).stop = i.stop
        BY <2>12, FillIs
    <3>2. QED
        BY <1>1, <2>9, <2>10, <2>13, <2>15, <2>16, <3>1
  <2>17. CASE ~ (short /\ r[2] > 0)
      BY <1>1, <1>2, <2>4, <2>9, <2>10, <2>12, <2>13, <2>14, <2>15, <2>17
  <2>18. QED
      BY <2>16, <2>17
<1>6. QED
    BY <1>4, <1>5

\* The greatest of a set of small numbers
LEMMA GreatestIs ==
    ASSUME NEW n \in Nat, NEW S \in SUBSET (0 .. n), S # {}
    PROVE  Max(S) \in S
<1> DEFINE T == {n - i : i \in S}
           R == OpToRel(<, Nat)
<1>1. \A i \in S : i \in 0 .. n /\ n - i \in Nat /\ i \in Int
    OBVIOUS
<1>2. T \in SUBSET Nat /\ T # {} /\ \A i \in S : n - i \in T
    BY <1>1
<1>3. \A x \in T : \E i \in S : x = n - i
    OBVIOUS
<1>4. IsWellFoundedOn(R, Nat)
    BY NatLessThanWellFounded, Zenon
<1>5. \A a, b \in Nat : a < b => <<a, b>> \in R
    BY DEF OpToRel
<1> HIDE DEF T, R
<1>6. PICK x \in T : \A y \in T : ~ (<<y, x>> \in R)
    BY <1>2, <1>4, WFMin
<1>7. PICK g \in S : x = n - g
    BY <1>3
<1>8. \A i \in S : g >= i
  <2>1. TAKE i \in S
  <2>2. n - i \in T /\ n - i \in Nat /\ x \in Nat
      BY <1>1, <1>2
  <2>3. ~ (n - i < x)
      BY <1>5, <1>6, <2>2
  <2>4. QED
      BY <1>1, <1>7, <2>2, <2>3
<1>9. QED
    BY <1>8, Zenon DEF Max

LEMMA LastLineIs ==
    ASSUME NEW b \in Seq(Byte)
    PROVE  LastLine(b) \in 0 .. Len(b)
<1>1. Len(b) \in Nat
    BY LenProperties
<1> DEFINE S == {0} \cup {i \in 1 .. Len(b) : b[i] = NewLine}
<1>2. S \in SUBSET (0 .. Len(b)) /\ S # {}
    BY <1>1
<1>3. LastLine(b) = Max(S)
    BY DEF LastLine
<1> HIDE DEF S
<1>4. Max(S) \in S
    BY <1>1, <1>2, GreatestIs
<1>5. QED
    BY <1>2, <1>3, <1>4

LEMMA BlocksAre ==
    ASSUME NEW n \in Nat, NEW m \in Nat, m > 0
    PROVE  (n \div m) * m \in 0 .. n /\ n - (n \div m) * m < m
<1>1. PICK q \in Nat, r \in 0 .. m - 1 : q = n \div m /\ r = n % m /\ n = m * q + r
    BY SMT
<1>2. m * q \in Nat /\ m * q = q * m
    BY <1>1
<1>3. PICK x \in Nat : x = q * m /\ n = x + r
    BY <1>1, <1>2
<1>4. x \in 0 .. n /\ n - x < m
    BY <1>1, <1>3
<1>5. QED
    BY <1>1, <1>3, <1>4

LEMMA FlushLinesIs ==
    ASSUME NEW o, NEW j, Accepting(j, o), NEW n \in FlushLines(j)
    PROVE  Accepting(n, o) /\ n.rest = j.rest /\ (j.f.error => n.f.error)
<1>1. PICK h : h = j.f
    OBVIOUS
<1>2. Sane(h) /\ Staging(h) /\ Job(j)
    BY <1>1 DEF Accepting
<1>3. h.bufpos \in 0 .. h.bufpos
    BY <1>2 DEF Sane, StreamType
<1>4. PICK b \in Seq(Byte) : b = SubSeq(h.buffer, 1, h.bufpos) /\ Len(b) = h.bufpos
    BY <1>2, <1>3, StagedIs
<1>5. PICK k \in 0 .. h.bufpos : k = IF h.line THEN LastLine(b) ELSE 0
  <2>1. LastLine(b) \in 0 .. h.bufpos
      BY <1>4, LastLineIs
  <2>2. 0 \in 0 .. h.bufpos
      BY <1>2, StagedIs, <1>3
  <2>3. QED
      BY <2>1, <2>2
<1>6. n = j \/ \E r \in WriteBuffer(h, k) : n = [j EXCEPT !.f = r[1]]
    BY <1>1, <1>4, <1>5 DEF FlushLines
<1>7. CASE n = j
    BY <1>7
<1>8. ASSUME NEW r \in WriteBuffer(h, k), n = [j EXCEPT !.f = r[1]]
      PROVE  Accepting(n, o) /\ n.rest = j.rest /\ (j.f.error => n.f.error)
  <2>1. PICK g : g = r[1]
      OBVIOUS
  <2>2. /\ Sane(g) /\ Like(g, h) /\ Staging(g) /\ g.eof = h.eof /\ (h.error => g.error)
        /\ g.torn \/ (Content(g) = Content(h) /\ Spot(g, 0) = Spot(h, 0))
      BY <1>2, <1>8, <2>1, WriteBufferIs
  <2>3. n.f = g /\ n.rest = j.rest /\ n.stop = j.stop /\ Job(n)
      BY <1>2, <1>8, <2>1 DEF Job
  <2>4. Accepting(n, o)
      BY <1>1, <2>2, <2>3, AcceptStill
  <2>5. QED
      BY <1>1, <2>2, <2>3, <2>4
<1>9. QED
    BY <1>6, <1>7, <1>8

\* When the call ends all of it was taken, or the error indicator is set
LEMMA WriteRestIs ==
    ASSUME NEW o, NEW j, Accepting(j, o), j.stop => j.f.error,
           ~ j.stop => j.f.bufpos = 0 \/ j.f.error \/ j.rest = <<>>,
           NEW n \in WriteRest(j)
    PROVE  Accepting(n, o) /\ (n.rest # <<>> => n.f.error)
<1>1. CASE j.stop
    BY <1>1 DEF WriteRest
<1>2. CASE ~ j.stop /\ j.f.bufpos # 0
  <2>1. n \in FlushLines(j)
      BY <1>2 DEF WriteRest
  <2>2. QED
      BY <1>2, <2>1, FlushLinesIs
<1>3. CASE ~ j.stop /\ j.f.bufpos = 0
  <2>1. PICK k \in WriteBlocks(j) : \E m \in WriteLines(k) : n = IF m.stop THEN m ELSE Fill(m)
      BY <1>3 DEF WriteRest
  <2>2. PICK m \in WriteLines(k) : n = IF m.stop THEN m ELSE Fill(m)
      BY <2>1
  <2>3. j.f.bufsz = BufSize /\ BufSize \in Nat /\ BufSize > 0 /\ Len(j.rest) \in Nat
    <3>1. Sane(j.f) /\ Staging(j.f) /\ j.rest \in Seq(Byte)
        BY DEF Accepting
    <3>2. j.f.bufsz = BufSize /\ j.f.buffer \in Seq(Byte) /\ Len(j.f.buffer) = BufSize
        BY <3>1 DEF Sane, StreamType, Staging
    <3>3. BufSize \in Nat /\ BufSize # 0
        BY <3>1, <3>2, EmptyIs, LenProperties DEF Staging, Unbuffered
    <3>4. QED
        BY <3>1, <3>2, <3>3, LenProperties
  <2>4. PICK x \in 0 .. Len(j.rest) : x = (Len(j.rest) \div j.f.bufsz) * j.f.bufsz /\ Len(j.rest) - x < BufSize
    <3>1. PICK y \in Nat : y = Len(j.rest)
        BY <2>3
    <3>2. (y \div BufSize) * BufSize \in 0 .. y /\ y - (y \div BufSize) * BufSize < BufSize
        BY <2>3, BlocksAre
    <3>3. QED
        BY <2>3, <3>1, <3>2
  <2>5. k \in Straight(j, x)
      BY <2>1, <2>4 DEF WriteBlocks
  <2>6. /\ Accepting(k, o)
        /\ k.stop => k.f.error
        /\ ~ k.stop => k.f.bufpos = 0 /\ (k.f.error \/ Len(k.rest) = Len(j.rest) - x)
      BY <1>3, <2>4, <2>5, StraightIs
  <2>7. k.rest \in Seq(Byte) /\ Len(k.rest) \in Nat
      BY <2>6, LenProperties DEF Accepting
  <2>8. PICK y \in 0 .. Len(k.rest) : y = IF k.f.line THEN LastLine(k.rest) ELSE 0
      BY <2>7, LastLineIs
  <2>9. m \in Straight(k, y)
      BY <2>2, <2>8 DEF WriteLines
  <2>10. /\ Accepting(m, o) /\ (k.f.error => m.f.error)
         /\ m.stop => m.f.error
         /\ ~ m.stop => m.f.bufpos = 0 /\ (m.f.error \/ Len(m.rest) = Len(k.rest) - y)
      BY <2>6, <2>8, <2>9, StraightIs
  <2>11. CASE m.stop
      BY <2>2, <2>10, <2>11
  <2>12. CASE ~ m.stop
    <3>1. n = Fill(m)
        BY <2>2, <2>12
    <3>2. PICK w : w = IF Len(m.rest) <= BufSize - m.f.bufpos THEN Len(m.rest) ELSE BufSize - m.f.bufpos
        OBVIOUS
    <3>3. /\ Accepting(n, o) /\ n.f.error = m.f.error
          /\ Len(n.rest) = Len(m.rest) - w
        BY <2>10, <3>1, <3>2, FillIs
    <3>4. m.f.error \/ Len(m.rest) < BufSize
      <4>1. k.stop => k.f.error
          BY <2>6
      <4>2. ~ k.stop /\ ~ k.f.error => Len(k.rest) < BufSize
          BY <2>4, <2>6
      <4>3. ~ m.f.error => Len(m.rest) = Len(k.rest) - y
          BY <2>10, <2>12
      <4>4. QED
          BY <2>3, <2>7, <2>8, <2>10, <4>1, <4>2, <4>3
    <3>5. m.rest \in Seq(Byte) /\ Len(m.rest) \in Nat /\ m.f.bufpos = 0
        BY <2>10, <2>12, LenProperties DEF Accepting
    <3>6. m.f.error \/ Len(n.rest) = 0
      <4>1. Len(m.rest) < BufSize => w = Len(m.rest)
          BY <2>3, <3>2, <3>5
      <4>2. QED
          BY <3>3, <3>4, <3>5, <4>1
    <3>7. n.rest \in Seq(Byte)
        BY <3>3 DEF Accepting
    <3>8. QED
        BY <3>3, <3>6, <3>7, EmptyIs
  <2>13. QED
      BY <2>11, <2>12
<1>4. QED
    BY <1>1, <1>2, <1>3

\* The buffer is written again, once nothing that was read ahead is in it
LEMMA StartWritingIs ==
    ASSUME NEW f, Sane(f), ~ f.torn, f.buffer # Unbuffered, f.mode # "r",
           NEW p \in Nat, Positioned(f, p), NEW r \in StartWriting(f)
    PROVE  /\ r[2] \in BOOLEAN /\ Sane(r[1]) /\ Like(r[1], f) /\ r[1].eof = f.eof
           /\ ~ r[1].torn /\ Content(r[1]) = Content(f)
           /\ IF r[2] THEN Staging(r[1]) /\ Spot(r[1], 0) = Spot(f, p) - p
              ELSE /\ r[1].error /\ Positioned(r[1], p)
                   /\ Spot(r[1], p) = Spot(f, p) /\ Back(r[1], p) = Back(f, p)
<1>1. CASE f.writing
  <2>1. r = <<f, TRUE>> /\ r[1] = f /\ r[2] = TRUE
    <3>1. r = <<f, TRUE>>
        BY <1>1, Zenon DEF StartWriting
    <3>2. QED
        BY <3>1
  <2>2. p = 0 /\ Staging(f) /\ Like(f, f)
      BY <1>1 DEF Positioned, Reading, Staging, Like
  <2>3. Spot(f, 0) \in Nat
      BY <2>2, SpotIs
  <2>4. Spot(f, 0) = Spot(f, p) - p
      BY <2>2, <2>3
  <2>5. QED
      BY <2>1, <2>2, <2>4
<1>2. CASE ~ f.writing
  <2>1. PICK q \in FlushOne(f) :
           r = IF q[2] /\ q[1].bufpos = q[1].bufeof
               THEN <<[q[1] EXCEPT !.writing = TRUE, !.bufpos = 0], TRUE>>
               ELSE <<q[1], FALSE>>
      BY <1>2 DEF StartWriting
  <2>2. PICK g : g = q[1]
      OBVIOUS
  <2>3. Reading(f)
      BY <1>2 DEF Reading
  <2>4. /\ q[2] \in BOOLEAN /\ Sane(g) /\ Like(g, f) /\ g.eof = f.eof
        /\ (~ q[2] => g.error /\ Still(g, f)) /\ g.torn = f.torn
        /\ q[2] => IF f.bufpos = f.bufeof \/ ~ f.seekable THEN g = f
                   ELSE \A n \in Nat : GivenUp(g, f, n)
      BY <2>1, <2>2, <2>3, FlushOneIs
  <2>5. /\ Content(g) = Content(f)
        /\ IF q[2] /\ f.seekable
           THEN /\ Positioned(g, 0) /\ Back(g, 0) = <<>>
                /\ Spot(g, 0) = Spot(f, p) - Len(Back(f, p))
                /\ g.bufpos = g.bufeof \/ ~ Reading(g)
           ELSE Positioned(g, p) /\ Spot(g, p) = Spot(f, p) /\ Back(g, p) = Back(f, p)
      BY <2>1, <2>2, <2>4, AfterFlush
  <2>6. Len(Back(f, p)) = p
      BY BackIs
  <2>7. CASE ~ q[2]
    <3>1. r[1] = g /\ r[2] = FALSE
        BY <2>1, <2>2, <2>7
    <3>2. QED
        BY <2>4, <2>5, <2>7, <3>1
  <2>8. CASE q[2]
    <3>1. Reading(g) /\ g.bufpos = g.bufeof
      <4>1. CASE g = f
        <5>1. g.bufpos = g.bufeof
          <6>1. CASE f.seekable
              BY <2>3, <2>5, <2>8, <4>1, <6>1
          <6>2. CASE ~ f.seekable
            <7>1. f.mode = "w"
                BY <6>2 DEF Sane, StreamType
            <7>2. QED
                BY <1>2, <4>1, <7>1 DEF Sane
          <6>3. QED
              BY <6>1, <6>2
        <5>2. QED
            BY <2>3, <4>1, <5>1
      <4>2. CASE GivenUp(g, f, 0)
          BY <4>2 DEF GivenUp
      <4>3. QED
          BY <2>4, <2>8, <4>1, <4>2
    <3>2. Content(g) = g.file /\ Spot(g, 0) = g.off /\ Positioned(g, 0)
      <4>1. Idle(g)
          BY <3>1 DEF Idle, Reading
      <4>2. QED
          BY <2>4, <4>1, IdleIs
    <3>3. PICK h : h = [g EXCEPT !.writing = TRUE, !.bufpos = 0]
        OBVIOUS
    <3>4. r[1] = h /\ r[2] = TRUE
        BY <2>1, <2>2, <2>8, <3>1, <3>3
    <3>5. /\ h \in StreamType /\ h.writing = TRUE /\ h.bufpos = 0 /\ h.buffer = g.buffer
          /\ h.file = g.file /\ h.off = g.off /\ h.torn = g.torn /\ h.eof = g.eof
          /\ h.mode = g.mode /\ h.seekable = g.seekable /\ h.line = g.line
      <4>1. g \in StreamType /\ g.bufpos \in 0 .. BufSize
          BY <2>4 DEF Sane, StreamType
      <4>2. 0 \in 0 .. BufSize
        <5>1. BufSize \in Nat
            BY <2>4, <3>1, ReadingIs
        <5>2. QED
            BY <5>1
      <4>3. QED
          BY <3>3, <4>1, <4>2 DEF StreamType
    <3>6. Sane(h) /\ Staging(h) /\ Like(h, f) /\ h.eof = f.eof /\ ~ h.torn
        BY <2>4, <3>1, <3>5 DEF Sane, Staging, Like, Reading
    <3>7. Content(h) = h.file /\ Spot(h, 0) = h.off
      <4>1. Idle(h)
          BY <3>5 DEF Idle
      <4>2. QED
          BY <3>6, <4>1, IdleIs
    <3>8. Spot(g, 0) = Spot(f, p) - p
      <4>1. CASE f.seekable
          BY <2>5, <2>6, <2>8, <4>1
      <4>2. CASE ~ f.seekable
        <5>1. f.mode = "w"
            BY <4>2 DEF Sane, StreamType
        <5>2. Idle(f)
            BY <1>2, <5>1 DEF Idle, Sane
        <5>3. p = 0 /\ Spot(f, 0) \in Nat
            BY <5>2, IdleIs, SpotIs
        <5>4. Spot(g, 0) = Spot(f, 0)
            BY <2>5, <4>2, <5>3
        <5>5. QED
            BY <5>3, <5>4
      <4>3. QED
          BY <4>1, <4>2
    <3>9. Content(h) = Content(f) /\ Spot(h, 0) = Spot(f, p) - p
        BY <2>5, <3>2, <3>5, <3>7, <3>8
    <3>10. QED
        BY <3>4, <3>6, <3>9
  <2>9. QED
      BY <2>4, <2>7, <2>8
<1>3. QED
    BY <1>1, <1>2 DEF Sane, StreamType

\* The stream stays where it was and the call says so, or some of b went there
Refused(n, b) ==
    /\ n.rest = b /\ n.f.error /\ Sane(n.f) /\ Like(n.f, s) /\ n.f.eof = s.eof /\ ~ n.f.torn
    /\ Positioned(n.f, pushed) /\ Content(n.f) = Content(s)
    /\ Spot(n.f, pushed) = Spot(s, pushed) /\ Back(n.f, pushed) = Back(s, pushed)
Accepted(n, b) ==
    /\ Sane(n.f) /\ ~ Reading(n.f) /\ Like(n.f, s) /\ n.f.eof = s.eof
    /\ n.rest \in Seq(Byte) /\ Len(n.rest) <= Len(b) /\ (n.rest # <<>> => n.f.error)
    /\ Spot(s, pushed) - pushed \in Nat
    /\ n.f.torn \/ Took(n.f, n.rest, b, Content(s), Spot(s, pushed) - pushed)

LEMMA FwriteBufferedIs ==
    ASSUME StreamInv, ~ s.torn, s.buffer # Unbuffered, s.mode # "r", NEW b \in Seq(Byte),
           NEW n \in FwriteBuffered(s, b)
    PROVE  Refused(n, b) \/ Accepted(n, b)
<1>1. PICK r \in StartWriting(s) :
         n \in IF ~ r[2] THEN {[f |-> r[1], rest |-> b, stop |-> TRUE]}
               ELSE LET j == [f |-> r[1], rest |-> b, stop |-> FALSE]
                    IN  UNION {WriteRest(k) : k \in
                           FlushFull(IF r[1].bufpos \in 1 .. r[1].bufsz - 1 THEN Fill(j) ELSE j)}
    BY Zenon DEF FwriteBuffered
<1>2. PICK g : g = r[1]
    OBVIOUS
<1>3. /\ r[2] \in BOOLEAN /\ Sane(g) /\ Like(g, s) /\ g.eof = s.eof
      /\ ~ g.torn /\ Content(g) = Content(s)
      /\ IF r[2] THEN Staging(g) /\ Spot(g, 0) = Spot(s, pushed) - pushed
         ELSE /\ g.error /\ Positioned(g, pushed)
              /\ Spot(g, pushed) = Spot(s, pushed) /\ Back(g, pushed) = Back(s, pushed)
    BY <1>2, Here, StartWritingIs
<1>4. CASE ~ r[2]
  <2>1. n = [f |-> g, rest |-> b, stop |-> TRUE]
      BY <1>1, <1>2, <1>4
  <2>2. n.f = g /\ n.rest = b
      BY <2>1
  <2>3. QED
      BY <1>3, <1>4, <2>2 DEF Refused
<1>5. CASE r[2]
  <2>1. PICK j : j = [f |-> g, rest |-> b, stop |-> FALSE]
      OBVIOUS
  <2>2. j.f = g /\ j.rest = b /\ j.stop = FALSE /\ Job(j)
      BY <2>1 DEF Job
  <2>3. PICK k \in FlushFull(IF g.bufpos \in 1 .. g.bufsz - 1 THEN Fill(j) ELSE j) : n \in WriteRest(k)
      BY <1>1, <1>2, <1>5, <2>1
  <2>4. PICK t \in Nat : t = Spot(s, pushed) - pushed /\ t = Spot(g, 0)
    <3>1. Positioned(g, 0)
        BY <1>3, <1>5 DEF Positioned, Reading, Staging
    <3>2. Spot(g, 0) \in Nat
        BY <1>3, <3>1, SpotIs
    <3>3. QED
        BY <1>3, <1>5, <3>2
  <2>5. PICK c \in Seq(Byte) : c = Content(s) /\ c = Content(g)
      BY <1>3, Here
  <2>6. PICK o : o = [f |-> s, b |-> b, c |-> c, t |-> t]
      OBVIOUS
  <2>7. o.f = s /\ o.b = b /\ o.c = c /\ o.t = t /\ Call(o)
      BY <2>6 DEF Call
  <2>8. Accepting(j, o)
    <3>1. Len(b) \in Nat /\ Len(b) - Len(b) = 0 /\ t + 0 = t
        BY LenProperties
    <3>2. Drop(b, 0) = b
      <4>1. /\ Drop(b, 0) \in Seq(Byte) /\ Len(Drop(b, 0)) = Len(b)
            /\ \A i \in 1 .. Len(b) : Drop(b, 0)[i] = b[i]
        <5>1. PICK z \in Nat : z = 0
            OBVIOUS
        <5>2. /\ Drop(b, z) \in Seq(Byte) /\ Len(Drop(b, z)) = IF z <= Len(b) THEN Len(b) - z ELSE 0
              /\ \A i \in 1 .. Len(b) - z : Drop(b, z)[i] = b[z + i]
            BY DropIs
        <5>3. \A i \in 1 .. Len(b) : i \in 1 .. Len(b) - z /\ z + i = i
            BY <3>1, <5>1
        <5>4. QED
            BY <3>1, <5>1, <5>2, <5>3
      <4>2. QED
          BY <4>1, SameSequence
    <3>3. SubSeq(b, 1, 0) = <<>>
      <4>1. 0 \in 0 .. Len(b)
          BY <3>1
      <4>2. SubSeq(b, 1, 0) \in Seq(Byte) /\ Len(SubSeq(b, 1, 0)) = 0
          BY <4>1, FrontIs
      <4>3. QED
          BY <4>2, EmptyIs
    <3>4. Overlay(c, t, <<>>) = c
        BY DEF Overlay
    <3>5. Took(g, b, b, c, t)
        BY <2>4, <2>5, <3>1, <3>2, <3>3, <3>4 DEF Took
    <3>6. QED
        BY <1>3, <1>5, <2>2, <2>7, <3>1, <3>5 DEF Accepting
  <2>9. g.bufsz = BufSize /\ g.bufpos \in 0 .. BufSize /\ BufSize \in Nat /\ Len(b) \in Nat
    <3>1. g.bufpos \in 0 .. g.bufpos
        BY <1>3 DEF Sane, StreamType
    <3>2. BufSize \in Nat
        BY <1>3, <1>5, <3>1, StagedIs
    <3>3. QED
        BY <1>3, <3>2, LenProperties DEF Sane, StreamType
  <2>10. PICK i : /\ i = IF g.bufpos \in 1 .. g.bufsz - 1 THEN Fill(j) ELSE j
                  /\ Accepting(i, o) /\ ~ i.stop
                  /\ i.f.bufpos = BufSize \/ i.f.bufpos = 0 \/ i.rest = <<>>
    <3>1. CASE ~ (g.bufpos \in 1 .. g.bufsz - 1)
        BY <2>2, <2>8, <2>9, <3>1
    <3>2. CASE g.bufpos \in 1 .. g.bufsz - 1
      <4>1. PICK w : w = IF Len(b) <= BufSize - g.bufpos THEN Len(b) ELSE BufSize - g.bufpos
          OBVIOUS
      <4>2. PICK i : i = Fill(j)
          OBVIOUS
      <4>3. /\ Accepting(i, o) /\ i.stop = FALSE
            /\ i.f.bufpos = g.bufpos + w /\ Len(i.rest) = Len(b) - w
          BY <2>2, <2>8, <4>1, <4>2, FillIs
      <4>4. i.f.bufpos = BufSize \/ Len(i.rest) = 0
          BY <2>9, <4>1, <4>3
      <4>5. i.rest \in Seq(Byte)
          BY <4>3 DEF Accepting
      <4>6. QED
          BY <3>2, <4>2, <4>3, <4>4, <4>5, EmptyIs
    <3>3. QED
        BY <3>1, <3>2
  <2>11. /\ Accepting(k, o) /\ (k.stop => k.f.error)
         /\ ~ k.stop => k.f.bufpos = 0 \/ k.f.error \/ k.rest = <<>>
      BY <2>3, <2>10, FlushFullIs
  <2>12. Accepting(n, o) /\ (n.rest # <<>> => n.f.error)
      BY <2>3, <2>11, WriteRestIs
  <2>13. QED
      BY <2>4, <2>5, <2>7, <2>12 DEF Accepting, Accepted, Staging, Reading
<1>6. QED
    BY <1>3, <1>4, <1>5

LEMMA FwriteOutcomesAre ==
    ASSUME StreamInv, ~ s.torn, NEW b \in Seq(Byte), NEW n \in FwriteOutcomes(s, b)
    PROVE  Refused(n, b) \/ Accepted(n, b)
<1>1. CASE s.buffer = Unbuffered
  <2>1. PICK r \in WriteData(s, b) : n = [f |-> r[1], rest |-> Drop(b, Max({r[2], 0}))]
      BY <1>1 DEF FwriteOutcomes
  <2>2. Idle(s) /\ ~ Reading(s)
      BY <1>1 DEF Idle, Reading
  <2>3. PICK g : g = r[1]
      OBVIOUS
  <2>4. /\ r[2] \in -1 .. Len(b)
        /\ Sane(g) /\ Like(g, s) /\ SameBuffer(g, s)
        /\ g.error <=> s.error \/ r[2] < Len(b)
        /\ g.torn \/ Added(g, s, SubSeq(b, 1, IF r[2] > 0 THEN r[2] ELSE 0))
      BY <2>1, <2>2, <2>3, Here, WriteDataIs
  <2>5. PICK k \in 0 .. Len(b) : k = IF r[2] > 0 THEN r[2] ELSE 0
      BY <2>4, LenProperties
  <2>6. k = Max({r[2], 0}) /\ Len(b) \in Nat /\ k \in Nat /\ k <= Len(b)
      BY <2>4, <2>5, MaxOfTwo, LenProperties
  <2>7. n.f = g /\ n.rest = Drop(b, k)
      BY <2>1, <2>3, <2>6
  <2>8. Drop(b, k) \in Seq(Byte) /\ Len(Drop(b, k)) = Len(b) - k
      BY <2>6, DropIs
  <2>9. Drop(b, k) # <<>> => g.error
    <3>1. Drop(b, k) # <<>> => Len(b) - k # 0
        BY <2>8, EmptyIs
    <3>2. Len(b) - k # 0 => r[2] < Len(b)
        BY <2>4, <2>5, <2>6
    <3>3. QED
        BY <2>4, <3>1, <3>2
  <2>10. pushed = 0
      BY <2>2, Here, IdleIs
  <2>11. PICK t \in Nat : t = Spot(s, pushed) - pushed /\ t = Spot(s, 0)
      BY <2>10, Here
  <2>12. g.torn \/ Took(g, Drop(b, k), b, Content(s), t)
    <3>1. Len(b) - Len(Drop(b, k)) = k
        BY <2>6, <2>8
    <3>2. Len(SubSeq(b, 1, k)) = k
        BY FrontIs
    <3>3. QED
        BY <2>4, <2>5, <2>11, <3>1, <3>2 DEF Added, Took
  <2>13. ~ Reading(g) /\ g.eof = s.eof
      BY <2>2, <2>4 DEF SameBuffer, Reading
  <2>14. Len(Drop(b, k)) <= Len(b)
      BY <2>6, <2>8
  <2>15. Accepted(n, b)
      BY <2>4, <2>7, <2>8, <2>9, <2>11, <2>12, <2>13, <2>14 DEF Accepted
  <2>16. QED
      BY <2>15
<1>2. CASE s.buffer # Unbuffered /\ s.mode = "r"
  <2>1. PICK g : g = [s EXCEPT !.error = TRUE]
      OBVIOUS
  <2>2. n = [f |-> g, rest |-> b]
      BY <1>2, <2>1 DEF FwriteOutcomes
  <2>3. /\ Sane(g) /\ Like(g, s) /\ SameBuffer(g, s) /\ g.error = TRUE
        /\ g.file = s.file /\ g.off = s.off /\ g.torn = s.torn
      BY <2>1, Here, MarkIs
  <2>4. /\ Positioned(g, pushed) /\ Content(g) = Content(s)
        /\ Spot(g, pushed) = Spot(s, pushed) /\ Back(g, pushed) = Back(s, pushed)
      BY <2>3, Here, StillIs DEF Still
  <2>5. n.f = g /\ n.rest = b /\ g.eof = s.eof
      BY <2>2, <2>3 DEF SameBuffer
  <2>6. Refused(n, b)
      BY <2>3, <2>4, <2>5 DEF Refused
  <2>7. QED
      BY <2>6
<1>3. CASE s.buffer # Unbuffered /\ s.mode # "r"
  <2>1. n \in FwriteBuffered(s, b)
      BY <1>3 DEF FwriteOutcomes
  <2>2. QED
      BY <1>3, <2>1, FwriteBufferedIs
<1>4. QED
    BY <1>1, <1>2, <1>3

LEMMA FwriteKeeps ==
    ASSUME StreamInv, ~ s.torn, NEW b \in Seq(Byte), Fwrite(b)
    PROVE  StreamInv' /\ Abstract!Next
<1>1. PICK n \in FwriteOutcomes(s, b) :
         Done(n.f, pushed, [op |-> "write", asked |-> b, done |-> Len(b) - Len(n.rest)])
    BY DEF Fwrite
<1>2. PICK g : g = n.f
    OBVIOUS
<1>3. PICK rest : rest = n.rest
    OBVIOUS
<1>4. PICK e : e = [op |-> "write", asked |-> b, done |-> Len(b) - Len(rest)]
    OBVIOUS
<1>5. Done(g, pushed, e)
    BY <1>1, <1>2, <1>3, <1>4
<1>6. Sane(g) /\ Like(g, s) /\ g.eof = s.eof /\ Len(b) \in Nat
  <2>1. Len(b) \in Nat
      BY LenProperties
  <2>2. QED
      BY <1>2, <2>1, FwriteOutcomesAre DEF Refused, Accepted
<1>7. ASSUME NEW p \in Nat, p = Min({pushed, UnreadOf(g)}), g.torn \/ Positioned(g, p)
      PROVE  /\ StreamInv' /\ s'.seekable = s.seekable /\ s'.eof = s.eof /\ s'.error = g.error
             /\ s'.torn = g.torn
             /\ res'.op = "write" /\ res'.asked = b /\ res'.done = Len(b) - Len(rest)
             /\ ~ g.torn => /\ FileContent' = Content(g)
                            /\ FileBase' = Spot(g, p) /\ FileBack' = Back(g, p)
  <2>1. /\ StreamInv' /\ res' = e /\ s'.seekable = g.seekable /\ s'.torn = g.torn
        /\ s'.error = g.error /\ s'.eof = g.eof
        /\ ~ g.torn => /\ FileContent' = Content(g)
                       /\ FileBase' = Spot(g, p) /\ FileBack' = Back(g, p)
      BY <1>5, <1>6, <1>7, Here, DoneIs
  <2>2. res'.op = "write" /\ res'.asked = b /\ res'.done = Len(b) - Len(rest)
      BY <1>4, <2>1
  <2>3. QED
      BY <1>6, <2>1, <2>2 DEF Like
<1>8. CASE Refused(n, b)
  <2>1. PICK p \in Nat : p = pushed
      BY Here
  <2>2. /\ rest = b /\ g.error /\ ~ g.torn /\ Positioned(g, p) /\ Content(g) = Content(s)
        /\ Spot(g, p) = Spot(s, pushed) /\ Back(g, p) = Back(s, pushed)
      BY <1>2, <1>3, <1>8, <2>1 DEF Refused
  <2>3. p = Min({pushed, UnreadOf(g)})
      BY <1>6, <2>1, <2>2, UnreadIs
  <2>4. /\ StreamInv' /\ s'.seekable = s.seekable /\ s'.eof = s.eof /\ s'.error
        /\ res'.op = "write" /\ res'.done = Len(b) - Len(b)
        /\ FileContent' = FileContent /\ FileBase' = FileBase /\ FileBack' = FileBack
      BY <1>7, <2>2, <2>3, Here
  <2>5. res'.done = 0
      BY <1>6, <2>4
  <2>6. Abstract!Nothing
      BY <2>4, <2>5, AbstractNothing
  <2>7. QED
      BY <2>4, <2>6, AbstractStep
<1>9. CASE Accepted(n, b)
  <2>1. /\ ~ Reading(g) /\ rest \in Seq(Byte) /\ Len(rest) <= Len(b) /\ (rest # <<>> => g.error)
        /\ Spot(s, pushed) - pushed \in Nat
        /\ g.torn \/ Took(g, rest, b, Content(s), Spot(s, pushed) - pushed)
      BY <1>2, <1>3, <1>9 DEF Accepted
  <2>2. Positioned(g, 0) /\ Back(g, 0) = <<>>
      BY <2>1 DEF Positioned, Back
  <2>3. 0 = Min({pushed, UnreadOf(g)})
    <3>1. PICK m \in Nat : m = pushed
        BY Here
    <3>2. UnreadOf(g) = 0 /\ Min({m, UnreadOf(g)}) = IF m <= UnreadOf(g) THEN m ELSE UnreadOf(g)
        BY <1>6, <2>1, UnreadIs
    <3>3. QED
        BY <3>1, <3>2
  <2>4. PICK z \in Nat : z = 0
      OBVIOUS
  <2>5. /\ StreamInv' /\ s'.seekable = s.seekable /\ s'.eof = s.eof /\ s'.error = g.error
        /\ s'.torn = g.torn
        /\ res'.op = "write" /\ res'.asked = b /\ res'.done = Len(b) - Len(rest)
        /\ ~ g.torn => /\ FileContent' = Content(g) /\ FileBase' = Spot(g, 0) /\ FileBack' = <<>>
      BY <1>7, <2>2, <2>3, <2>4
  <2>6. CASE g.torn
      BY <2>5, <2>6, AbstractStep
  <2>7. CASE ~ g.torn
    <3>1. PICK t \in Nat : t = Spot(s, pushed) - pushed
        BY <2>1
    <3>2. PICK c \in Seq(Byte) : c = Content(s)
        BY Here
    <3>3. t = Tell /\ c = FileContent
        BY <3>1, <3>2, Here DEF Tell
    <3>4. PICK k \in 0 .. Len(b) : k = Len(b) - Len(rest)
        BY <1>6, <2>1, LenProperties
    <3>5. PICK x \in Seq(Byte) : x = SubSeq(b, 1, k)
        BY FrontIs
    <3>6. Content(g) = Overlay(c, t, x) /\ Spot(g, 0) = t + k
        BY <2>1, <2>7, <3>1, <3>2, <3>4, <3>5 DEF Took
    <3>7. k < Len(b) => g.error
      <4>1. k < Len(b) => Len(rest) # 0
          BY <1>6, <2>1, <3>4, LenProperties
      <4>2. QED
          BY <2>1, <4>1, EmptyIs
    <3>8. res'.done = k /\ res'.asked = b
        BY <2>5, <3>4
    <3>9. Abstract!Write
      <4>1. FileContent' = Overlay(c, t, x) /\ FileBase' = t + res'.done /\ FileBack' = <<>>
          BY <2>5, <2>7, <3>6, <3>8
      <4>2. x = SubSeq(res'.asked, 1, res'.done) /\ (res'.done < Len(res'.asked) => s'.error)
          BY <2>5, <3>5, <3>7, <3>8
      <4>3. QED
          BY <2>5, <3>3, <4>1, <4>2, AbstractWrite
    <3>10. QED
        BY <2>5, <3>9, AbstractStep
  <2>8. QED
      BY <2>6, <2>7
<1>10. QED
    BY <1>8, <1>9, FwriteOutcomesAre

-----------------------------------------------------------------------------
(* fread() and fgetc().                                                    *)

\* A transfer from the file touches neither the buffer nor the file
Moved(g, f) ==
    /\ Sane(g) /\ Like(g, f) /\ (f.error => g.error) /\ (f.eof => g.eof)
    /\ g.buffer = f.buffer /\ g.bufpos = f.bufpos /\ g.bufeof = f.bufeof
    /\ g.writing = f.writing /\ g.file = f.file

\* k bytes came, where `need' were asked for
Came(r, f, left, k, need, room) ==
    /\ r[3] = k /\ r[2] = SubSeq(left, 1, k) /\ k <= room
    /\ r[1].off = f.off + k /\ r[1].torn = f.torn
    /\ k < need => r[1].eof \/ r[1].error
    /\ r[1].eof /\ ~ f.eof => r[1].error \/ (k < need /\ (k = Len(left) \/ k = room))
Failed(r, f) ==
    /\ r[2] = <<>> /\ r[3] = -1 /\ r[1].error /\ r[1].eof = f.eof
    /\ r[1].torn \/ r[1].off = f.off

\* What a transfer leaves: the descriptor stands at o, and an indicator may be set
AtOff(f, o) == [f EXCEPT !.off = o]
Ended(h) == [h EXCEPT !.eof = TRUE]
Faulty(h) == [h EXCEPT !.error = TRUE]
Torn(h, t) == [h EXCEPT !.error = TRUE, !.torn = t]
Shows(g, f, o, t, eof, error) ==
    Moved(g, f) /\ g.off = o /\ g.torn = t /\ g.eof = eof /\ g.error = error

LEMMA MovedIs ==
    ASSUME NEW f, Sane(f), NEW o \in Nat
    PROVE  /\ Shows(AtOff(f, o), f, o, f.torn, f.eof, f.error)
           /\ Shows(Ended(AtOff(f, o)), f, o, f.torn, TRUE, f.error)
           /\ Shows(Faulty(AtOff(f, o)), f, o, f.torn, f.eof, TRUE)
           /\ \A t \in BOOLEAN : (f.torn => t) => Shows(Torn(AtOff(f, o), t), f, o, t, f.eof, TRUE)
<1>1. f \in StreamType
    BY DEF Sane
<1>2. ASSUME NEW g, g \in StreamType, g.mode = f.mode, g.seekable = f.seekable, g.line = f.line,
             g.buffer = f.buffer, g.bufpos = f.bufpos, g.bufeof = f.bufeof, g.bufsz = f.bufsz,
             g.writing = f.writing, g.file = f.file, f.torn => g.torn,
             f.error => g.error, f.eof => g.eof
      PROVE  Moved(g, f)
    BY <1>2 DEF Moved, Sane, Like
<1>3. ASSUME NEW g, g = [f EXCEPT !.off = o]
      PROVE  Moved(g, f) /\ g.off = o /\ g.torn = f.torn /\ g.eof = f.eof /\ g.error = f.error
  <2>1. /\ g \in StreamType /\ g.mode = f.mode /\ g.seekable = f.seekable /\ g.line = f.line
        /\ g.buffer = f.buffer /\ g.bufpos = f.bufpos /\ g.bufeof = f.bufeof /\ g.bufsz = f.bufsz
        /\ g.writing = f.writing /\ g.file = f.file /\ g.off = o /\ g.torn = f.torn
        /\ g.eof = f.eof /\ g.error = f.error
      BY <1>1, <1>3 DEF StreamType
  <2>2. QED
      BY <1>2, <2>1
<1>4. PICK h : h = [f EXCEPT !.off = o]
    OBVIOUS
<1>5. /\ h \in StreamType /\ h.mode = f.mode /\ h.seekable = f.seekable /\ h.line = f.line
      /\ h.buffer = f.buffer /\ h.bufpos = f.bufpos /\ h.bufeof = f.bufeof /\ h.bufsz = f.bufsz
      /\ h.writing = f.writing /\ h.file = f.file /\ h.off = o /\ h.torn = f.torn
      /\ h.eof = f.eof /\ h.error = f.error
    BY <1>1, <1>4 DEF StreamType
<1>6. ASSUME NEW g, g = [h EXCEPT !.eof = TRUE]
      PROVE  Moved(g, f) /\ g.off = o /\ g.torn = f.torn /\ g.eof = TRUE /\ g.error = f.error
  <2>1. /\ g \in StreamType /\ g.mode = f.mode /\ g.seekable = f.seekable /\ g.line = f.line
        /\ g.buffer = f.buffer /\ g.bufpos = f.bufpos /\ g.bufeof = f.bufeof /\ g.bufsz = f.bufsz
        /\ g.writing = f.writing /\ g.file = f.file /\ g.off = o /\ g.torn = f.torn
        /\ g.eof = TRUE /\ g.error = f.error
      BY <1>5, <1>6 DEF StreamType
  <2>2. QED
      BY <1>2, <2>1
<1>7. ASSUME NEW g, g = [h EXCEPT !.error = TRUE]
      PROVE  Moved(g, f) /\ g.off = o /\ g.torn = f.torn /\ g.eof = f.eof /\ g.error = TRUE
  <2>1. /\ g \in StreamType /\ g.mode = f.mode /\ g.seekable = f.seekable /\ g.line = f.line
        /\ g.buffer = f.buffer /\ g.bufpos = f.bufpos /\ g.bufeof = f.bufeof /\ g.bufsz = f.bufsz
        /\ g.writing = f.writing /\ g.file = f.file /\ g.off = o /\ g.torn = f.torn
        /\ g.eof = f.eof /\ g.error = TRUE
      BY <1>5, <1>7 DEF StreamType
  <2>2. QED
      BY <1>2, <2>1
<1>8. ASSUME NEW t \in BOOLEAN, NEW g, f.torn => t, g = [h EXCEPT !.error = TRUE, !.torn = t]
      PROVE  Moved(g, f) /\ g.off = o /\ g.torn = t /\ g.eof = f.eof /\ g.error = TRUE
  <2>1. /\ g \in StreamType /\ g.mode = f.mode /\ g.seekable = f.seekable /\ g.line = f.line
        /\ g.buffer = f.buffer /\ g.bufpos = f.bufpos /\ g.bufeof = f.bufeof /\ g.bufsz = f.bufsz
        /\ g.writing = f.writing /\ g.file = f.file /\ g.off = o /\ g.torn = t
        /\ g.eof = f.eof /\ g.error = TRUE
      BY <1>5, <1>8 DEF StreamType
  <2>2. QED
      BY <1>2, <1>8, <2>1
<1>9. h = AtOff(f, o)
    BY <1>4, Zenon DEF AtOff
<1>10. Shows(h, f, o, f.torn, f.eof, f.error)
    BY <1>3, <1>4, Zenon DEF Shows
<1>11. Shows(Ended(h), f, o, f.torn, TRUE, f.error)
    BY <1>6, Zenon DEF Shows, Ended
<1>12. Shows(Faulty(h), f, o, f.torn, f.eof, TRUE)
    BY <1>7, Zenon DEF Shows, Faulty
<1>13. \A t \in BOOLEAN : (f.torn => t) => Shows(Torn(h, t), f, o, t, f.eof, TRUE)
    BY <1>8, Zenon DEF Shows, Torn
<1>14. QED
    BY <1>9, <1>10, <1>11, <1>12, <1>13, Zenon

LEMMA ReadLoopIs ==
    ASSUME NEW f, Sane(f), NEW need \in Nat, need > 0, NEW room \in Nat,
           NEW r \in ReadLoop(f, need, room),
           NEW left \in Seq(Byte), left = Drop(f.file, f.off)
    PROVE  /\ Moved(r[1], f)
           /\ Failed(r, f) \/ \E k \in 0 .. Len(left) : Came(r, f, left, k, need, room)
<1>1. f \in StreamType /\ f.off \in Nat /\ f.torn \in BOOLEAN /\ Len(left) \in Nat
    BY LenProperties DEF Sane, StreamType
<1>2. PICK most : most = Min({room, Len(left)})
    OBVIOUS
<1>3. most = IF room <= Len(left) THEN room ELSE Len(left)
    BY <1>1, <1>2, MinOfTwo
<1>4. most \in Nat /\ most <= room /\ most <= Len(left)
    BY <1>1, <1>3
<1>5. CASE ~ Readable(f)
  <2>1. r = <<[f EXCEPT !.error = TRUE], <<>>, -1>>
      BY <1>5 DEF ReadLoop
  <2>2. PICK g : g = [f EXCEPT !.error = TRUE]
      OBVIOUS
  <2>3. /\ Sane(g) /\ Like(g, f) /\ SameBuffer(g, f) /\ g.error = TRUE
        /\ g.file = f.file /\ g.off = f.off /\ g.torn = f.torn
      BY <2>2, MarkIs
  <2>4. r[1] = g /\ r[2] = <<>> /\ r[3] = -1
      BY <2>1, <2>2
  <2>5. Moved(g, f) /\ Failed(r, f)
      BY <2>3, <2>4 DEF Moved, Failed, SameBuffer
  <2>6. QED
      BY <2>4, <2>5
<1>6. CASE Readable(f)
  <2>1. \/ \E k \in need .. most : r = <<[f EXCEPT !.off = @ + k], SubSeq(left, 1, k), k>>
        \/ \E k \in {x \in {Len(left), room} : x < need /\ x <= most} :
              r = <<[[f EXCEPT !.off = @ + k] EXCEPT !.eof = TRUE], SubSeq(left, 1, k), k>>
        \/ \E k \in 0 .. Min({most, need - 1}) :
              r = <<[[f EXCEPT !.off = @ + k] EXCEPT !.error = TRUE], SubSeq(left, 1, k), k>>
        \/ \E k \in 0 .. Min({most, need - 1}) :
              r = <<[[f EXCEPT !.off = @ + k] EXCEPT !.error = TRUE, !.torn = @ \/ k > 0], <<>>, -1>>
      BY <1>2, <1>6, Zenon DEF ReadLoop
  <2>2. Min({most, need - 1}) = IF most <= need - 1 THEN most ELSE need - 1
      BY <1>4, MinOfTwo
  <2>3. ASSUME NEW k \in need .. most, r = <<[f EXCEPT !.off = @ + k], SubSeq(left, 1, k), k>>
        PROVE  Moved(r[1], f) /\ \E i \in 0 .. Len(left) : Came(r, f, left, i, need, room)
    <3>1. PICK o \in Nat : o = f.off + k
        BY <1>1, <1>4, <2>3
    <3>2. PICK g : g = AtOff(f, o)
        OBVIOUS
    <3>3. r = <<g, SubSeq(left, 1, k), k>>
        BY <2>3, <3>1, <3>2 DEF AtOff
    <3>4. Moved(g, f) /\ g.off = o /\ g.torn = f.torn /\ g.eof = f.eof /\ g.error = f.error
      <4>1. Shows(g, f, o, f.torn, f.eof, f.error)
          BY <3>2, MovedIs
      <4>2. QED
          BY <4>1 DEF Shows
    <3>5. k \in 0 .. Len(left) /\ k <= room /\ ~ (k < need)
        BY <1>1, <1>4, <2>3
    <3>6. r[1] = g /\ r[2] = SubSeq(left, 1, k) /\ r[3] = k
        BY <3>3
    <3>7. Came(r, f, left, k, need, room)
        BY <3>1, <3>4, <3>5, <3>6 DEF Came
    <3>8. QED
        BY <3>4, <3>5, <3>6, <3>7
  <2>4. ASSUME NEW k \in {x \in {Len(left), room} : x < need /\ x <= most},
               r = <<[[f EXCEPT !.off = @ + k] EXCEPT !.eof = TRUE], SubSeq(left, 1, k), k>>
        PROVE  Moved(r[1], f) /\ \E i \in 0 .. Len(left) : Came(r, f, left, i, need, room)
    <3>1. PICK o \in Nat : o = f.off + k
        BY <1>1, <1>4, <2>4
    <3>2. PICK g : g = Ended(AtOff(f, o))
        OBVIOUS
    <3>3. r = <<g, SubSeq(left, 1, k), k>>
        BY <2>4, <3>1, <3>2 DEF AtOff, Ended
    <3>4. Moved(g, f) /\ g.off = o /\ g.torn = f.torn /\ g.eof = TRUE
      <4>1. Shows(g, f, o, f.torn, TRUE, f.error)
          BY <3>2, MovedIs
      <4>2. QED
          BY <4>1 DEF Shows
    <3>5. /\ k \in 0 .. Len(left) /\ k <= room /\ k < need
          /\ k = Len(left) \/ k = room
        BY <1>1, <1>4, <2>4
    <3>6. r[1] = g /\ r[2] = SubSeq(left, 1, k) /\ r[3] = k
        BY <3>3
    <3>7. Came(r, f, left, k, need, room)
        BY <3>1, <3>4, <3>5, <3>6 DEF Came
    <3>8. QED
        BY <3>4, <3>5, <3>6, <3>7
  <2>5. ASSUME NEW k \in 0 .. Min({most, need - 1}),
               r = <<[[f EXCEPT !.off = @ + k] EXCEPT !.error = TRUE], SubSeq(left, 1, k), k>>
        PROVE  Moved(r[1], f) /\ \E i \in 0 .. Len(left) : Came(r, f, left, i, need, room)
    <3>1. k \in Nat /\ k <= most /\ k \in 0 .. Len(left) /\ k <= room
        BY <1>1, <1>4, <2>2, <2>5
    <3>2. PICK o \in Nat : o = f.off + k
        BY <1>1, <3>1
    <3>3. PICK g : g = Faulty(AtOff(f, o))
        OBVIOUS
    <3>4. r = <<g, SubSeq(left, 1, k), k>>
        BY <2>5, <3>2, <3>3 DEF AtOff, Faulty
    <3>5. Moved(g, f) /\ g.off = o /\ g.torn = f.torn /\ g.eof = f.eof /\ g.error = TRUE
      <4>1. Shows(g, f, o, f.torn, f.eof, TRUE)
          BY <3>3, MovedIs
      <4>2. QED
          BY <4>1 DEF Shows
    <3>6. r[1] = g /\ r[2] = SubSeq(left, 1, k) /\ r[3] = k
        BY <3>4
    <3>7. Came(r, f, left, k, need, room)
        BY <3>1, <3>2, <3>5, <3>6 DEF Came
    <3>8. QED
        BY <3>1, <3>5, <3>6, <3>7
  <2>6. ASSUME NEW k \in 0 .. Min({most, need - 1}),
               r = <<[[f EXCEPT !.off = @ + k] EXCEPT !.error = TRUE, !.torn = @ \/ k > 0], <<>>, -1>>
        PROVE  Moved(r[1], f) /\ Failed(r, f)
    <3>1. k \in Nat
        BY <1>4, <2>2, <2>6
    <3>2. PICK o \in Nat : o = f.off + k
        BY <1>1, <3>1
    <3>3. PICK t \in BOOLEAN : t = (f.torn \/ k > 0)
        OBVIOUS
    <3>4. PICK g : g = Torn(AtOff(f, o), t)
        OBVIOUS
    <3>5. r = <<g, <<>>, -1>>
      <4>1. [f EXCEPT !.off = o].torn = f.torn
          BY <1>1 DEF StreamType
      <4>2. PICK h : h = [f EXCEPT !.off = o]
          OBVIOUS
      <4>3. r = <<[h EXCEPT !.error = TRUE, !.torn = h.torn \/ k > 0], <<>>, -1>>
        <5>1. [f EXCEPT !.off = @ + k] = h
            BY <3>2, <4>2
        <5>2. \A x : [x EXCEPT !.error = TRUE, !.torn = @ \/ k > 0] =
                     [x EXCEPT !.error = TRUE, !.torn = x.torn \/ k > 0]
            BY Zenon
        <5>3. QED
            BY <2>6, <5>1, <5>2, Zenon
      <4>4. QED
          BY <3>3, <3>4, <4>1, <4>2, <4>3, Zenon DEF AtOff, Torn
    <3>6. Moved(g, f) /\ g.off = o /\ g.torn = t /\ g.eof = f.eof /\ g.error = TRUE
      <4>1. f.torn => t
          BY <3>3
      <4>2. Shows(Torn(AtOff(f, o), t), f, o, t, f.eof, TRUE)
          BY <4>1, MovedIs, Zenon
      <4>3. Shows(g, f, o, t, f.eof, TRUE)
          BY <3>4, <4>2, Zenon
      <4>4. QED
          BY <4>3 DEF Shows
    <3>7. r[1] = g /\ r[2] = <<>> /\ r[3] = -1
        BY <3>5
    <3>8. g.torn \/ g.off = f.off
      <4>1. CASE k > 0
          BY <3>3, <3>6, <4>1
      <4>2. CASE ~ (k > 0)
          BY <1>1, <3>1, <3>2, <3>6, <4>2
      <4>3. QED
          BY <4>1, <4>2
    <3>9. Failed(r, f)
        BY <3>6, <3>7, <3>8 DEF Failed
    <3>10. QED
        BY <3>6, <3>7, <3>9
  <2>7. QED
      BY <2>1, <2>3, <2>4, <2>5, <2>6, Zenon
<1>7. QED
    BY <1>5, <1>6

\* What can still be read: what was read ahead, then the file from where the
\* descriptor stands
Held(f) == f.bufeof - f.bufpos
Kept(f) == SubSeq(f.buffer, f.bufpos + 1, f.bufeof)
Beyond(f) == Drop(f.file, f.off)
Left(f) == Kept(f) \o Beyond(f)
Tells(f) == f.off - Held(f)

LEMMA LeftIs ==
    ASSUME NEW f, Sane(f), Reading(f)
    PROVE  /\ Held(f) \in Nat /\ Held(f) <= BufSize /\ Tells(f) \in Int /\ Tells(f) = f.off - Held(f)
           /\ Kept(f) \in Seq(Byte) /\ Len(Kept(f)) = Held(f)
           /\ \A i \in 1 .. Held(f) : Kept(f)[i] = f.buffer[f.bufpos + i]
           /\ Beyond(f) \in Seq(Byte)
           /\ Len(Beyond(f)) = IF f.off <= Len(f.file) THEN Len(f.file) - f.off ELSE 0
           /\ \A i \in 1 .. Len(f.file) - f.off : Beyond(f)[i] = f.file[f.off + i]
           /\ Left(f) \in Seq(Byte) /\ Len(Left(f)) = Held(f) + Len(Beyond(f))
           /\ \A i \in 1 .. Held(f) + Len(Beyond(f)) :
                 Left(f)[i] = IF i <= Held(f) THEN Kept(f)[i] ELSE Beyond(f)[i - Held(f)]
<1>1. /\ f.buffer \in Seq(Byte) /\ Len(f.buffer) = BufSize /\ BufSize \in Nat
      /\ f.bufpos \in 0 .. BufSize /\ f.bufeof \in 0 .. BufSize /\ f.off \in Nat
      /\ f.bufpos <= f.bufeof /\ f.file \in Seq(Byte) /\ Len(f.file) \in Nat
    BY ReadingIs
<1>2. PICK m \in Nat, n \in Nat, q \in Seq(Byte) : m = f.bufpos /\ n = f.bufeof /\ q = f.buffer
    BY <1>1
<1>3. m <= n /\ n <= Len(q)
    BY <1>1, <1>2
<1>4. PICK x \in Seq(Byte) : x = Kept(f) /\ Len(x) = n - m /\ \A i \in 1 .. n - m : x[i] = q[m + i]
  <2>1. /\ SubSeq(q, m + 1, n) \in Seq(Byte) /\ Len(SubSeq(q, m + 1, n)) = n - m
        /\ \A i \in 1 .. n - m : SubSeq(q, m + 1, n)[i] = q[m + i]
      BY <1>3, PartIs
  <2>2. QED
      BY <1>2, <2>1 DEF Kept
<1>5. PICK o \in Nat, c \in Seq(Byte) : o = f.off /\ c = f.file
    BY <1>1
<1>6. PICK y \in Seq(Byte) : /\ y = Beyond(f) /\ Len(y) = IF o <= Len(c) THEN Len(c) - o ELSE 0
                             /\ \A i \in 1 .. Len(c) - o : y[i] = c[o + i]
  <2>1. /\ Drop(c, o) \in Seq(Byte) /\ Len(Drop(c, o)) = IF o <= Len(c) THEN Len(c) - o ELSE 0
        /\ \A i \in 1 .. Len(c) - o : Drop(c, o)[i] = c[o + i]
      BY DropIs
  <2>2. QED
      BY <1>5, <2>1 DEF Beyond
<1>7. Held(f) = n - m /\ Held(f) \in Nat /\ Held(f) <= BufSize
    BY <1>1, <1>2, <1>3 DEF Held
<1>8. Tells(f) = f.off - Held(f) /\ Tells(f) \in Int
    BY <1>1, <1>7 DEF Tells
<1>9. PICK z : z = x \o y
    OBVIOUS
<1>10. /\ z \in Seq(Byte) /\ Len(z) = Len(x) + Len(y)
       /\ \A i \in 1 .. Len(x) + Len(y) : z[i] = IF i <= Len(x) THEN x[i] ELSE y[i - Len(x)]
    BY <1>9, ConcatProperties
<1>11. z = Left(f)
    BY <1>4, <1>6, <1>9 DEF Left
<1>12. QED
    BY <1>2, <1>4, <1>5, <1>6, <1>7, <1>8, <1>10, <1>11

\* got was read, and nothing else changed for the caller
Advanced(g, f, got) ==
    /\ Reading(g) /\ g.file = f.file /\ got \in Seq(Byte)
    /\ Left(f) = got \o Left(g)
    /\ Tells(g) = Tells(f) + Len(got)
    /\ Held(g) >= Held(f) - Len(got)
    /\ g.off <= Len(g.file) \/ (g.off = f.off /\ Held(g) = Held(f) - Len(got))

LEMMA AdvancedTwice ==
    ASSUME NEW f, Sane(f), Reading(f), NEW g, Sane(g), NEW h, Sane(h),
           NEW a, Advanced(g, f, a), NEW b, Advanced(h, g, b)
    PROVE  Advanced(h, f, a \o b)
<1>1. Reading(g) /\ Reading(h) /\ a \in Seq(Byte) /\ b \in Seq(Byte)
    BY DEF Advanced
<1>2. a \o b \in Seq(Byte) /\ Len(a \o b) = Len(a) + Len(b) /\ Len(a) \in Nat /\ Len(b) \in Nat
    BY <1>1, ConcatProperties, LenProperties
<1>3. /\ Held(f) \in Nat /\ Held(g) \in Nat /\ Held(h) \in Nat
      /\ Tells(f) \in Int /\ Tells(g) \in Int /\ Tells(h) \in Int /\ Left(h) \in Seq(Byte)
    BY <1>1, LeftIs
<1>4. Left(f) = (a \o b) \o Left(h)
  <2>1. PICK l \in Seq(Byte) : l = Left(h)
      BY <1>3
  <2>2. a \o (b \o l) = (a \o b) \o l
      BY <1>1, ConcatAssociative
  <2>3. Left(f) = a \o Left(g) /\ Left(g) = b \o l
      BY <2>1 DEF Advanced
  <2>4. QED
      BY <2>1, <2>2, <2>3
<1>5. Tells(h) = Tells(f) + (Len(a) + Len(b))
  <2>1. Tells(g) = Tells(f) + Len(a) /\ Tells(h) = Tells(g) + Len(b)
      BY DEF Advanced
  <2>2. QED
      BY <1>2, <1>3, <2>1
<1>6. Held(h) >= Held(f) - (Len(a) + Len(b))
  <2>1. Held(g) >= Held(f) - Len(a) /\ Held(h) >= Held(g) - Len(b)
      BY DEF Advanced
  <2>2. QED
      BY <1>2, <1>3, <2>1
<1>7. h.off <= Len(h.file) \/ (h.off = f.off /\ Held(h) = Held(f) - (Len(a) + Len(b)))
  <2>1. /\ h.off <= Len(h.file) \/ (h.off = g.off /\ Held(h) = Held(g) - Len(b))
        /\ g.off <= Len(g.file) \/ (g.off = f.off /\ Held(g) = Held(f) - Len(a))
        /\ h.file = g.file
      BY DEF Advanced
  <2>2. CASE h.off = g.off /\ Held(h) = Held(g) - Len(b) /\ g.off = f.off /\ Held(g) = Held(f) - Len(a)
      BY <1>2, <1>3, <2>2
  <2>3. QED
      BY <2>1, <2>2
<1>8. h.file = f.file
    BY DEF Advanced
<1>9. QED
    BY <1>1, <1>2, <1>4, <1>5, <1>6, <1>7, <1>8 DEF Advanced

LEMMA AdvancedNone ==
    ASSUME NEW f, Sane(f), Reading(f)
    PROVE  Advanced(f, f, <<>>)
<1>1. Held(f) \in Nat /\ Tells(f) \in Int /\ Left(f) \in Seq(Byte)
    BY LeftIs
<1>2. <<>> \in Seq(Byte) /\ Len(<<>>) = 0
    BY EmptySeq
<1>3. <<>> \o Left(f) = Left(f)
  <2>1. PICK l \in Seq(Byte) : l = Left(f)
      BY <1>1
  <2>2. <<>> \o l = l
      BY ConcatEmptySeq
  <2>3. QED
      BY <2>1, <2>2
<1>4. Tells(f) = Tells(f) + Len(<<>>) /\ Held(f) = Held(f) - Len(<<>>)
    BY <1>1, <1>2
<1>5. Held(f) >= Held(f) - Len(<<>>)
    BY <1>1, <1>2
<1>6. QED
    BY <1>2, <1>3, <1>4, <1>5 DEF Advanced

LEMMA SplitIs ==
    ASSUME NEW V, NEW q \in Seq(V), NEW k \in 0 .. Len(q)
    PROVE  q = SubSeq(q, 1, k) \o Drop(q, k)
<1>1. Len(q) \in Nat /\ k \in Nat /\ k <= Len(q)
    BY LenProperties
<1>2. PICK x \in Seq(V) : x = SubSeq(q, 1, k) /\ Len(x) = k /\ \A i \in 1 .. k : x[i] = q[i]
    BY FrontIs
<1>3. PICK y \in Seq(V) : y = Drop(q, k) /\ Len(y) = Len(q) - k /\ \A i \in 1 .. Len(q) - k : y[i] = q[k + i]
    BY <1>1, DropIs
<1>4. PICK z : z = x \o y
    OBVIOUS
<1>5. /\ z \in Seq(V) /\ Len(z) = k + (Len(q) - k)
      /\ \A i \in 1 .. k + (Len(q) - k) : z[i] = IF i <= k THEN x[i] ELSE y[i - k]
    BY <1>2, <1>3, <1>4, ConcatProperties
<1>6. k + (Len(q) - k) = Len(q)
    BY <1>1
<1>7. ASSUME NEW i \in 1 .. Len(q) PROVE q[i] = z[i]
  <2>1. CASE i <= k
    <3>1. i \in 1 .. k
        BY <1>1, <2>1
    <3>2. QED
        BY <1>2, <1>5, <1>6, <2>1, <3>1
  <2>2. CASE ~ (i <= k)
    <3>1. i - k \in 1 .. Len(q) - k /\ k + (i - k) = i
        BY <1>1, <2>2
    <3>2. z[i] = y[i - k] /\ y[i - k] = q[i]
        BY <1>3, <1>5, <1>6, <2>2, <3>1
    <3>3. QED
        BY <3>2
  <2>3. QED
      BY <2>1, <2>2
<1>8. q = z
    BY <1>5, <1>6, <1>7, SameSequence
<1>9. QED
    BY <1>2, <1>3, <1>4, <1>8

\* Behind p of them comes what the file holds from t on
Agree(f, p, t) ==
    /\ p <= Held(f) /\ t = Tells(f) + p
    /\ p < Held(f) => f.off <= Len(f.file)
    /\ Drop(Left(f), p) = Drop(f.file, t)

\* The pushed back characters, then the file, are what can be read
LEMMA AheadIs ==
    ASSUME NEW f, Sane(f), Reading(f), NEW p \in Nat, Positioned(f, p)
    PROVE  /\ Base(f, p) \in Nat /\ Agree(f, p, Base(f, p))
           /\ Back(f, p) = SubSeq(Left(f), 1, p)
           /\ Left(f) = Back(f, p) \o Drop(f.file, Base(f, p))
<1>1. /\ f.buffer \in Seq(Byte) /\ f.bufpos \in Nat /\ f.bufeof \in Nat /\ f.off \in Nat
      /\ f.bufpos <= f.bufeof /\ f.file \in Seq(Byte) /\ Len(f.file) \in Nat
    BY ReadingIs
<1>2. /\ Held(f) \in Nat /\ Tells(f) = f.off - Held(f) /\ Held(f) = f.bufeof - f.bufpos
      /\ Left(f) \in Seq(Byte) /\ Len(Left(f)) = Held(f) + Len(Beyond(f))
      /\ Len(Beyond(f)) = IF f.off <= Len(f.file) THEN Len(f.file) - f.off ELSE 0
    BY LeftIs DEF Held
<1>3. /\ p <= f.bufeof - f.bufpos /\ Base(f, p) >= 0
      /\ p < f.bufeof - f.bufpos => f.off <= Len(f.file)
      /\ \A i \in 1 .. f.bufeof - f.bufpos - p : f.buffer[f.bufpos + p + i] = f.file[Base(f, p) + i]
    BY DEF Positioned, ReadAhead
<1>4. PICK u \in Nat, l \in Seq(Byte), m \in Nat : u = Held(f) /\ l = Left(f) /\ m = Len(Beyond(f))
    BY <1>2, LeftIs, LenProperties
<1>5. PICK t \in Nat : t = Base(f, p) /\ t = f.off - (u - p)
    BY <1>1, <1>2, <1>3, <1>4 DEF Base
<1>6. /\ p <= u /\ t = Tells(f) + p
      /\ p < u => f.off <= Len(f.file)
  <2>1. u = f.bufeof - f.bufpos
      BY <1>2, <1>4
  <2>2. p <= u /\ (p < u => f.off <= Len(f.file))
      BY <1>3, <2>1
  <2>3. Tells(f) = f.off - u
      BY <1>2, <1>4
  <2>4. PICK o \in Nat : o = f.off
      BY <1>1
  <2>5. t = o - (u - p) /\ Tells(f) = o - u
      BY <1>5, <2>3, <2>4
  <2>6. t = Tells(f) + p
      BY <1>4, <2>4, <2>5
  <2>7. QED
      BY <2>2, <2>6
<1>7. \A i \in 1 .. u : l[i] = f.buffer[f.bufpos + i]
  <2>1. TAKE i \in 1 .. u
  <2>2. i \in 1 .. Held(f) + Len(Beyond(f)) /\ i <= Held(f) /\ i \in 1 .. Held(f)
      BY <1>4
  <2>3. QED
      BY <1>4, <2>2, LeftIs
<1>8. \A i \in 1 .. m : l[u + i] = f.file[f.off + i]
  <2>1. TAKE i \in 1 .. m
  <2>3. i \in 1 .. Len(f.file) - f.off
      BY <1>1, <1>2, <1>4
  <2>4. l[u + i] = Beyond(f)[i]
    <3>1. PICK k \in Nat : k = u + i
        BY <1>4
    <3>2. k \in 1 .. Held(f) + Len(Beyond(f)) /\ ~ (k <= Held(f)) /\ k - Held(f) = i
        BY <1>4, <3>1
    <3>3. Left(f)[k] = IF k <= Held(f) THEN Kept(f)[k] ELSE Beyond(f)[k - Held(f)]
        BY <3>2, LeftIs
    <3>4. Left(f)[k] = Beyond(f)[i]
        BY <3>2, <3>3
    <3>5. QED
        BY <1>4, <3>1, <3>4
  <2>5. Beyond(f)[i] = f.file[f.off + i]
      BY <2>3, LeftIs
  <2>6. QED
      BY <2>4, <2>5
<1>9. Len(l) = u + m /\ p \in 0 .. Len(l)
    BY <1>2, <1>4, <1>6
<1>10. Back(f, p) = SubSeq(l, 1, p)
  <2>1. /\ Back(f, p) \in Seq(Byte) /\ Len(Back(f, p)) = p
        /\ \A i \in 1 .. p : Back(f, p)[i] = f.buffer[f.bufpos + i]
      BY BackIs
  <2>2. /\ SubSeq(l, 1, p) \in Seq(Byte) /\ Len(SubSeq(l, 1, p)) = p
        /\ \A i \in 1 .. p : SubSeq(l, 1, p)[i] = l[i]
      BY <1>9, FrontIs
  <2>3. \A i \in 1 .. p : l[i] = f.buffer[f.bufpos + i]
      BY <1>6, <1>7
  <2>4. QED
      BY <2>1, <2>2, <2>3, SameSequence
<1>11. Drop(l, p) = Drop(f.file, t)
  <2>1. PICK c \in Seq(Byte) : c = f.file
      BY <1>1
  <2>2. PICK y \in Seq(Byte) : y = Drop(c, t) /\ Len(y) = (IF t <= Len(c) THEN Len(c) - t ELSE 0)
                               /\ \A i \in 1 .. Len(c) - t : y[i] = c[t + i]
    <3>1. /\ Drop(c, t) \in Seq(Byte) /\ Len(Drop(c, t)) = (IF t <= Len(c) THEN Len(c) - t ELSE 0)
          /\ \A i \in 1 .. Len(c) - t : Drop(c, t)[i] = c[t + i]
        BY DropIs
    <3>2. QED
        BY <3>1
  <2>3. PICK x \in Seq(Byte) : x = Drop(l, p) /\ Len(x) = u + m - p
                               /\ \A i \in 1 .. u + m - p : x[i] = l[p + i]
    <3>1. /\ Drop(l, p) \in Seq(Byte) /\ Len(Drop(l, p)) = IF p <= Len(l) THEN Len(l) - p ELSE 0
          /\ \A i \in 1 .. Len(l) - p : Drop(l, p)[i] = l[p + i]
        BY DropIs
    <3>2. QED
        BY <1>9, <3>1
  <2>4. Len(y) = u + m - p
    <3>1. PICK o \in Nat, n \in Nat : o = f.off /\ n = Len(c)
        BY <1>1, <2>1
    <3>2. m = (IF o <= n THEN n - o ELSE 0) /\ (p < u => o <= n)
        BY <1>2, <1>4, <1>6, <2>1, <3>1
    <3>3. p <= u /\ t = o - (u - p)
        BY <1>5, <1>6, <3>1
    <3>4. Len(y) = IF t <= n THEN n - t ELSE 0
        BY <2>2, <3>1
    <3>5. CASE o <= n
        BY <3>2, <3>3, <3>4, <3>5
    <3>6. CASE ~ (o <= n)
      <4>1. p = u /\ m = 0
          BY <3>2, <3>3, <3>6
      <4>2. t = o
          BY <3>3, <4>1
      <4>3. QED
          BY <3>4, <3>6, <4>1, <4>2
    <3>7. QED
        BY <3>5, <3>6
  <2>5. ASSUME NEW i \in 1 .. u + m - p PROVE x[i] = y[i]
    <3>1. i \in 1 .. Len(c) - t
        BY <1>5, <2>1, <2>2, <2>4, LenProperties
    <3>2. y[i] = c[t + i] /\ x[i] = l[p + i]
        BY <2>2, <2>3, <3>1
    <3>3. CASE p + i <= u
      <4>1. p + i \in 1 .. u /\ i \in 1 .. f.bufeof - f.bufpos - p /\ f.bufpos + (p + i) = f.bufpos + p + i
        <5>1. u = f.bufeof - f.bufpos
            BY <1>2, <1>4
        <5>2. i \in Nat /\ i >= 1
            BY <1>4, <1>6
        <5>3. p + i \in 1 .. u /\ i \in 1 .. u - p
            BY <1>6, <3>3, <5>2
        <5>4. f.bufpos + (p + i) = f.bufpos + p + i
            BY <1>1, <5>2
        <5>5. QED
            BY <5>1, <5>3, <5>4
      <4>2. l[p + i] = f.buffer[f.bufpos + p + i]
          BY <1>7, <4>1
      <4>3. f.buffer[f.bufpos + p + i] = c[t + i]
          BY <1>3, <1>5, <2>1, <4>1
      <4>4. QED
          BY <3>2, <4>2, <4>3
    <3>4. CASE p + i > u
      <4>1. p + i - u \in 1 .. m /\ u + (p + i - u) = p + i /\ f.off + (p + i - u) = t + i
          BY <1>1, <1>5, <3>4
      <4>2. l[p + i] = f.file[t + i]
          BY <1>8, <4>1
      <4>3. QED
          BY <2>1, <3>2, <4>2
    <3>5. QED
        BY <3>3, <3>4
  <2>6. x = y
      BY <2>2, <2>3, <2>4, <2>5, SameSequence
  <2>7. QED
      BY <2>1, <2>2, <2>3, <2>6
<1>12. l = SubSeq(l, 1, p) \o Drop(l, p)
    BY <1>9, SplitIs
<1>13. QED
    BY <1>4, <1>5, <1>6, <1>10, <1>11, <1>12 DEF Agree

LEMMA PositionedIf ==
    ASSUME NEW g, Sane(g), Reading(g), NEW p \in Nat, NEW t \in Nat, Agree(g, p, t)
    PROVE  Positioned(g, p) /\ Base(g, p) = t
<1>1. /\ g.buffer \in Seq(Byte) /\ g.bufpos \in Nat /\ g.bufeof \in Nat /\ g.off \in Nat
      /\ g.bufpos <= g.bufeof /\ g.file \in Seq(Byte) /\ Len(g.file) \in Nat
    BY ReadingIs
<1>2. PICK a \in Nat, e \in Nat, o \in Nat, n \in Nat :
         a = g.bufpos /\ e = g.bufeof /\ o = g.off /\ n = Len(g.file) /\ a <= e
    BY <1>1
<1>3. PICK u \in Nat : u = Held(g) /\ u = e - a /\ Tells(g) = o - u
    BY <1>2, LeftIs DEF Held
<1>4. PICK l \in Seq(Byte), c \in Seq(Byte), m \in Nat :
         l = Left(g) /\ c = g.file /\ m = Len(Beyond(g)) /\ Len(l) = u + m
    BY <1>1, <1>3, LeftIs, LenProperties
<1>5. p <= u /\ (p < u => o <= n) /\ Drop(l, p) = Drop(c, t)
    BY <1>2, <1>3, <1>4 DEF Agree
<1>6. t = o - u + p
    BY <1>3 DEF Agree
<1>7. Base(g, p) = t /\ t + (u - p) = o
  <2>1. o - (u - p) = t /\ t + (u - p) = o
      BY <1>6
  <2>2. Base(g, p) = o - (e - a - p)
      BY <1>2 DEF Base
  <2>3. e - a - p = u - p
      BY <1>3
  <2>4. QED
      BY <2>1, <2>2, <2>3
<1>8. ASSUME NEW i \in 1 .. u - p
      PROVE  g.buffer[g.bufpos + p + i] = g.file[t + i]
  <2>1. i \in Nat /\ i >= 1 /\ i <= u - p
      BY <1>5
  <2>2. o <= n
      BY <1>5, <2>1
  <2>3. i \in 1 .. Len(l) - p /\ i \in 1 .. n - t /\ p + i \in 1 .. u
      BY <1>4, <1>5, <1>7, <2>1, <2>2
  <2>4. Drop(l, p)[i] = l[p + i]
      BY <2>3, DropIs
  <2>5. Drop(c, t)[i] = c[t + i]
    <3>1. i \in 1 .. Len(c) - t
        BY <1>2, <1>4, <2>3
    <3>2. QED
        BY <3>1, DropIs
  <2>6. l[p + i] = g.buffer[a + (p + i)]
    <3>1. PICK k \in 1 .. u : k = p + i
        BY <2>3
    <3>2. k \in 1 .. Held(g) + Len(Beyond(g)) /\ k <= Held(g) /\ k \in 1 .. Held(g)
        BY <1>3, <1>4, <3>1
    <3>3. Left(g)[k] = Kept(g)[k] /\ Kept(g)[k] = g.buffer[g.bufpos + k]
        BY <3>2, LeftIs
    <3>4. QED
        BY <1>2, <1>4, <3>1, <3>3
  <2>7. a + (p + i) = a + p + i
      BY <2>1
  <2>8. QED
      BY <1>2, <1>4, <1>5, <2>4, <2>5, <2>6, <2>7
<1>9. u - p = g.bufeof - g.bufpos - p /\ p <= g.bufeof - g.bufpos /\ (p < g.bufeof - g.bufpos => g.off <= Len(g.file))
    BY <1>2, <1>3, <1>5
<1>10. Base(g, p) >= 0
    BY <1>7
<1>11. ReadAhead(g, p)
    BY <1>7, <1>8, <1>9, <1>10 DEF ReadAhead
<1>12. QED
    BY <1>7, <1>11 DEF Positioned

LEMMA DropTwice ==
    ASSUME NEW V, NEW q \in Seq(V), NEW a \in Nat, NEW b \in Nat
    PROVE  Drop(Drop(q, a), b) = Drop(q, a + b)
<1>1. PICK n \in Nat : n = Len(q)
    BY LenProperties
<1>2. PICK x \in Seq(V), m \in Nat : /\ x = Drop(q, a) /\ m = Len(x) /\ m = IF a <= n THEN n - a ELSE 0
                                     /\ \A i \in 1 .. n - a : x[i] = q[a + i]
  <2>1. /\ Drop(q, a) \in Seq(V) /\ Len(Drop(q, a)) = (IF a <= n THEN n - a ELSE 0)
        /\ \A i \in 1 .. n - a : Drop(q, a)[i] = q[a + i]
      BY <1>1, DropIs
  <2>2. QED
      BY <1>1, <2>1, LenProperties
<1>3. PICK y \in Seq(V) : y = Drop(x, b) /\ Len(y) = (IF b <= m THEN m - b ELSE 0)
                          /\ \A i \in 1 .. m - b : y[i] = x[b + i]
  <2>1. /\ Drop(x, b) \in Seq(V) /\ Len(Drop(x, b)) = (IF b <= Len(x) THEN Len(x) - b ELSE 0)
        /\ \A i \in 1 .. Len(x) - b : Drop(x, b)[i] = x[b + i]
      BY DropIs
  <2>2. Len(x) = m
      BY <1>2
  <2>3. QED
      BY <2>1, <2>2
<1>4. PICK d \in Nat : d = a + b
    OBVIOUS
<1>5. PICK z \in Seq(V) : z = Drop(q, d) /\ Len(z) = (IF d <= n THEN n - d ELSE 0)
                          /\ \A i \in 1 .. n - d : z[i] = q[d + i]
  <2>1. /\ Drop(q, d) \in Seq(V) /\ Len(Drop(q, d)) = (IF d <= n THEN n - d ELSE 0)
        /\ \A i \in 1 .. n - d : Drop(q, d)[i] = q[d + i]
      BY <1>1, DropIs
  <2>2. QED
      BY <2>1
<1>6. Len(y) = Len(z)
    BY <1>2, <1>3, <1>4, <1>5
<1>7. ASSUME NEW i \in 1 .. Len(y) PROVE y[i] = z[i]
  <2>1. i \in 1 .. m - b /\ i \in 1 .. n - d /\ b + i \in 1 .. n - a
      BY <1>2, <1>3, <1>4, <1>5, <1>6
  <2>2. y[i] = x[b + i] /\ x[b + i] = q[a + (b + i)] /\ z[i] = q[d + i]
      BY <1>2, <1>3, <1>5, <2>1
  <2>3. a + (b + i) = d + i
      BY <1>4, <2>1
  <2>4. QED
      BY <2>2, <2>3
<1>8. y = z
    BY <1>6, <1>7, SameSequence
<1>9. QED
    BY <1>2, <1>3, <1>4, <1>5, <1>8

LEMMA PartsAre ==
    ASSUME NEW V, NEW x \in Seq(V), NEW y \in Seq(V)
    PROVE  SubSeq(x \o y, 1, Len(x)) = x /\ Drop(x \o y, Len(x)) = y
<1>1. PICK m \in Nat, n \in Nat : m = Len(x) /\ n = Len(y)
    BY LenProperties
<1>2. PICK q \in Seq(V) : /\ q = x \o y /\ Len(q) = m + n
                          /\ \A i \in 1 .. m + n : q[i] = IF i <= m THEN x[i] ELSE y[i - m]
  <2>1. PICK q : q = x \o y
      OBVIOUS
  <2>2. /\ q \in Seq(V) /\ Len(q) = Len(x) + Len(y)
        /\ \A i \in 1 .. Len(x) + Len(y) : q[i] = IF i <= Len(x) THEN x[i] ELSE y[i - Len(x)]
      BY <2>1, ConcatProperties
  <2>3. QED
      BY <1>1, <2>1, <2>2
<1>3. m \in 0 .. Len(q)
    BY <1>2
<1>4. SubSeq(q, 1, m) = x
  <2>1. /\ SubSeq(q, 1, m) \in Seq(V) /\ Len(SubSeq(q, 1, m)) = m
        /\ \A i \in 1 .. m : SubSeq(q, 1, m)[i] = q[i]
      BY <1>3, FrontIs
  <2>2. \A i \in 1 .. m : i \in 1 .. m + n /\ i <= m
      BY <1>1
  <2>3. \A i \in 1 .. m : q[i] = x[i]
      BY <1>2, <2>2
  <2>4. QED
      BY <1>1, <2>1, <2>3, SameSequence
<1>5. Drop(q, m) = y
  <2>1. /\ Drop(q, m) \in Seq(V) /\ Len(Drop(q, m)) = (IF m <= Len(q) THEN Len(q) - m ELSE 0)
        /\ \A i \in 1 .. Len(q) - m : Drop(q, m)[i] = q[m + i]
      BY DropIs
  <2>2. Len(Drop(q, m)) = n /\ Len(q) - m = n
      BY <1>2, <2>1
  <2>3. ASSUME NEW i \in 1 .. n PROVE q[m + i] = y[i]
    <3>1. m + i \in 1 .. m + n /\ ~ (m + i <= m) /\ m + i - m = i
        OBVIOUS
    <3>2. QED
        BY <1>2, <3>1
  <2>4. QED
      BY SMTT(30), <1>1, <2>1, <2>2, <2>3, SameSequence
<1>6. QED
    BY <1>1, <1>2, <1>4, <1>5

LEMMA FrontAndDrop ==
    ASSUME NEW V, NEW q \in Seq(V), NEW p \in 0 .. Len(q), NEW k \in 0 .. p
    PROVE  Drop(SubSeq(q, 1, p), k) = SubSeq(Drop(q, k), 1, p - k)
<1>1. Len(q) \in Nat /\ p \in Nat /\ k \in Nat /\ p <= Len(q) /\ k <= p
    BY LenProperties
<1>2. PICK x \in Seq(V) : x = SubSeq(q, 1, p) /\ Len(x) = p /\ \A i \in 1 .. p : x[i] = q[i]
    BY FrontIs
<1>3. PICK n \in Nat : n = p - k
    BY <1>1
<1>4. PICK y \in Seq(V) : y = Drop(x, k) /\ Len(y) = n /\ \A i \in 1 .. n : y[i] = x[k + i]
  <2>1. /\ Drop(x, k) \in Seq(V) /\ Len(Drop(x, k)) = (IF k <= Len(x) THEN Len(x) - k ELSE 0)
        /\ \A i \in 1 .. Len(x) - k : Drop(x, k)[i] = x[k + i]
      BY <1>1, DropIs
  <2>2. Len(x) - k = n /\ k <= Len(x)
      BY <1>1, <1>2, <1>3
  <2>3. QED
      BY <2>1, <2>2
<1>5. PICK w \in Seq(V) : /\ w = Drop(q, k) /\ Len(w) = Len(q) - k
                          /\ \A i \in 1 .. Len(q) - k : w[i] = q[k + i]
  <2>1. /\ Drop(q, k) \in Seq(V) /\ Len(Drop(q, k)) = (IF k <= Len(q) THEN Len(q) - k ELSE 0)
        /\ \A i \in 1 .. Len(q) - k : Drop(q, k)[i] = q[k + i]
      BY <1>1, DropIs
  <2>2. QED
      BY <1>1, <2>1
<1>6. PICK z \in Seq(V) : z = SubSeq(w, 1, n) /\ Len(z) = n /\ \A i \in 1 .. n : z[i] = w[i]
  <2>1. n \in 0 .. Len(w)
      BY <1>1, <1>3, <1>5
  <2>2. QED
      BY ZenonT(60), <2>1, FrontIs
<1>7. ASSUME NEW i \in 1 .. n PROVE y[i] = z[i]
  <2>1. i \in 1 .. Len(q) - k /\ k + i \in 1 .. p
      BY <1>1, <1>3
  <2>2. QED
      BY <1>2, <1>4, <1>5, <1>6, <2>1
<1>8. y = z
    BY <1>4, <1>6, <1>7, SameSequence
<1>9. QED
    BY <1>2, <1>3, <1>4, <1>5, <1>6, <1>8

\* Of p pushed back characters and k that were read, what is left of them
Remaining(p, k) == IF k <= p THEN p - k ELSE 0

LEMMA AdvancedEnds ==
    ASSUME NEW f, Sane(f), Reading(f), NEW p \in Nat, Positioned(f, p),
           NEW g, Sane(g), NEW got, Advanced(g, f, got)
    PROVE  LET k == Len(got)
               q == Remaining(p, k)
           IN  /\ k \in Nat /\ q \in Nat /\ k <= Len(Left(f)) /\ got = SubSeq(Left(f), 1, k)
               /\ Positioned(g, q) /\ Back(g, q) = Drop(Back(f, p), k)
               /\ Base(g, q) = IF k > p THEN Base(f, p) + k - p ELSE Base(f, p)
               /\ Left(g) = <<>> => k = Len(Left(f))
<1>1. Reading(g) /\ got \in Seq(Byte) /\ g.file = f.file
    BY DEF Advanced
<1>2. PICK k \in Nat, q \in Nat : /\ k = Len(got) /\ q = Remaining(p, k)
                                  /\ q = IF k <= p THEN p - k ELSE 0
  <2>1. PICK k \in Nat : k = Len(got)
      BY <1>1, LenProperties
  <2>2. PICK q \in Nat : q = IF k <= p THEN p - k ELSE 0
    <3>1. CASE k <= p
      <4>1. p - k \in Nat
          BY <3>1
      <4>2. QED
          BY <3>1, <4>1
    <3>2. CASE ~ (k <= p)
        BY <3>2
    <3>3. QED
        BY <3>1, <3>2
  <2>3. q = Remaining(p, k)
      BY <2>2 DEF Remaining
  <2>4. QED
      BY <2>1, <2>2, <2>3
<1>3. PICK l \in Seq(Byte), m \in Seq(Byte) : l = Left(f) /\ m = Left(g)
    BY <1>1, LeftIs
<1>4. l = got \o m
    BY <1>3 DEF Advanced
<1>5. SubSeq(l, 1, k) = got /\ Drop(l, k) = m
    BY <1>1, <1>2, <1>4, PartsAre
<1>6. Len(l) = k + Len(m) /\ Len(m) \in Nat /\ Len(l) \in Nat
    BY <1>1, <1>2, <1>4, ConcatProperties, LenProperties
<1>7. PICK t \in Nat : t = Base(f, p) /\ Agree(f, p, t)
    BY AheadIs
<1>8. PICK u \in Nat, v \in Nat, x \in Int, y \in Int :
         u = Held(f) /\ v = Held(g) /\ x = Tells(f) /\ y = Tells(g)
    BY <1>1, LeftIs
<1>9. /\ p <= u /\ t = x + p /\ (p < u => f.off <= Len(f.file)) /\ Drop(l, p) = Drop(f.file, t)
      /\ y = x + k /\ v >= u - k
      /\ g.off <= Len(g.file) \/ (g.off = f.off /\ v = u - k)
    BY <1>2, <1>3, <1>7, <1>8 DEF Agree, Advanced
<1>10. PICK c \in Seq(Byte) : c = f.file
    BY ReadingIs
<1>11. p <= Len(l) /\ p \in 0 .. Len(l)
  <2>1. PICK n \in Nat : n = Len(Beyond(f))
      BY LeftIs, LenProperties
  <2>2. Len(l) = u + n
      BY <1>3, <1>8, <2>1, LeftIs
  <2>3. p <= u
      BY <1>9
  <2>4. QED
      BY <2>2, <2>3
<1>12. Back(f, p) = SubSeq(l, 1, p) /\ Len(Back(f, p)) = p /\ Back(f, p) \in Seq(Byte)
    BY <1>3, AheadIs, BackIs
<1>13. PICK e \in Nat : e = IF k > p THEN t + k - p ELSE t
  <2>1. CASE k > p
    <3>1. t + k - p \in Nat
        BY <2>1
    <3>2. QED
        BY <2>1, <3>1
  <2>2. CASE ~ (k > p)
      BY <2>2
  <2>3. QED
      BY <2>1, <2>2
<1>14. q <= v /\ e = y + q
  <2>1. p <= u /\ t = x + p /\ y = x + k /\ v >= u - k
      BY <1>9
  <2>2. CASE k <= p
    <3>1. q = p - k /\ e = t
        BY <1>2, <1>13, <2>2
    <3>2. QED
        BY <2>1, <3>1
  <2>3. CASE k > p
    <3>1. q = 0 /\ e = t + k - p
        BY <1>2, <1>13, <2>3
    <3>2. QED
        BY <2>1, <3>1
  <2>4. QED
      BY <2>2, <2>3
<1>15. q < v => g.off <= Len(g.file)
  <2>1. CASE g.off = f.off /\ v = u - k /\ q < v
    <3>1. p < u
        BY <1>2, <2>1 DEF Remaining
    <3>2. QED
        BY <1>1, <1>9, <2>1, <3>1
  <2>2. QED
      BY <1>9, <2>1
<1>20. got = SubSeq(l, 1, k) /\ k <= Len(l) /\ (m = <<>> => k = Len(l))
  <2>1. m = <<>> => Len(m) = 0
      BY EmptySeq
  <2>2. QED
      BY <1>5, <1>6, <2>1
<1>16. ASSUME k <= p
      PROVE  Positioned(g, q) /\ Back(g, q) = Drop(Back(f, p), k) /\ Base(g, q) = e
  <2>1. PICK d \in Nat : d = p - k /\ k + d = p
      BY <1>16
  <2>2. q = d /\ e = t
      BY <1>2, <1>13, <1>16, <2>1 DEF Remaining
  <2>3. Drop(m, d) = Drop(l, p)
    <3>1. Drop(Drop(l, k), d) = Drop(l, k + d)
        BY DropTwice
    <3>2. QED
        BY <1>5, <2>1, <3>1
  <2>4. Agree(g, q, e)
      BY <1>1, <1>3, <1>8, <1>9, <1>14, <1>15, <2>2, <2>3 DEF Agree
  <2>5. Positioned(g, q) /\ Base(g, q) = e
      BY <1>1, <2>4, PositionedIf
  <2>6. Back(g, q) = SubSeq(m, 1, q)
      BY <1>1, <1>3, <2>5, AheadIs
  <2>7. Drop(SubSeq(l, 1, p), k) = SubSeq(Drop(l, k), 1, p - k)
    <3>1. k \in 0 .. p
        BY <1>16
    <3>2. QED
        BY <1>11, <3>1, FrontAndDrop
  <2>8. Back(g, q) = Drop(Back(f, p), k)
      BY <1>5, <1>12, <2>1, <2>2, <2>6, <2>7
  <2>9. QED
      BY <2>5, <2>8
<1>17. ASSUME k > p
      PROVE  Positioned(g, q) /\ Back(g, q) = Drop(Back(f, p), k) /\ Base(g, q) = e
  <2>1. PICK d \in Nat : d = k - p /\ p + d = k
      BY <1>17
  <2>2. q = 0 /\ e = t + d
      BY <1>2, <1>13, <1>17, <2>1 DEF Remaining
  <2>3. Drop(m, 0) = Drop(c, e)
    <3>1. PICK z \in Nat : z = 0 /\ k + z = k
        OBVIOUS
    <3>2. Drop(Drop(l, k), z) = Drop(l, k + z)
        BY DropTwice
    <3>3. Drop(Drop(l, p), d) = Drop(l, p + d)
        BY DropTwice
    <3>4. Drop(Drop(c, t), d) = Drop(c, t + d)
        BY DropTwice
    <3>5. Drop(m, z) = Drop(l, k)
        BY <1>5, <3>1, <3>2
    <3>6. Drop(l, k) = Drop(c, t + d)
        BY <1>9, <1>10, <2>1, <3>3, <3>4
    <3>7. QED
        BY <2>2, <3>1, <3>5, <3>6
  <2>4. Agree(g, q, e)
      BY <1>1, <1>3, <1>8, <1>10, <1>14, <1>15, <2>2, <2>3 DEF Agree
  <2>5. Positioned(g, q) /\ Base(g, q) = e
      BY <1>1, <2>4, PositionedIf
  <2>6. Back(g, q) = <<>>
    <3>1. Back(g, q) \in Seq(Byte) /\ Len(Back(g, q)) = q
        BY <2>5, BackIs
    <3>2. QED
        BY <2>2, <3>1, EmptyIs
  <2>7. Drop(Back(f, p), k) = <<>>
    <3>1. PICK b \in Seq(Byte) : b = Back(f, p) /\ Len(b) = p
        BY <1>12
    <3>2. Drop(b, k) \in Seq(Byte) /\ Len(Drop(b, k)) = IF k <= Len(b) THEN Len(b) - k ELSE 0
        BY DropIs
    <3>3. Len(Drop(b, k)) = 0
        BY <1>17, <3>1, <3>2
    <3>4. QED
        BY <3>1, <3>2, <3>3, EmptyIs
  <2>8. QED
      BY <2>5, <2>6, <2>7
<1>18. Positioned(g, q) /\ Back(g, q) = Drop(Back(f, p), k) /\ Base(g, q) = e
    BY <1>16, <1>17
<1>19. /\ k <= Len(Left(f)) /\ got = SubSeq(Left(f), 1, k)
       /\ Base(g, q) = IF k > p THEN Base(f, p) + k - p ELSE Base(f, p)
       /\ Left(g) = <<>> => k = Len(Left(f))
    BY <1>3, <1>7, <1>13, <1>18, <1>20, Zenon
<1>21. QED
    BY <1>2, <1>18, <1>19, Zenon

\* What fread() in progress keeps, in a stream that was o.f when o.n bytes were asked for
Errand(j) == j = [f |-> j.f, n |-> j.n, stop |-> j.stop, got |-> j.got] /\ j.stop \in BOOLEAN
Fetching(j, o) ==
    /\ Errand(j) /\ Sane(o.f) /\ Reading(o.f) /\ o.f.mode # "w"
    /\ j.n \in Nat /\ j.got \in Seq(Byte) /\ j.n + Len(j.got) = o.n
    /\ Sane(j.f) /\ Reading(j.f) /\ Like(j.f, o.f)
    /\ (o.f.error => j.f.error) /\ (o.f.eof => j.f.eof)
    /\ j.f.torn \/ Advanced(j.f, o.f, j.got)

\* The end-of-file indicator came up for a reason
AtEnd(j, o) == j.f.eof /\ ~ o.f.eof => j.f.torn \/ j.f.error \/ Left(j.f) = <<>>

\* i is j after the stream became g and x was read
Fetched(i, j, g, x) ==
    /\ Errand(i) /\ i.f = g /\ i.got = j.got \o x /\ i.n \in Nat /\ i.n + Len(x) = j.n
    /\ Sane(g) /\ Reading(g) /\ Like(g, j.f) /\ x \in Seq(Byte)
    /\ (j.f.error => g.error) /\ (j.f.eof => g.eof)
    /\ g.torn \/ Advanced(g, j.f, x)

LEMMA FetchMore ==
    ASSUME NEW o, NEW j, Fetching(j, o), NEW i, NEW g, NEW x, Fetched(i, j, g, x)
    PROVE  Fetching(i, o)
<1>1. PICK f, h, a : f = o.f /\ h = j.f /\ a = j.got
    OBVIOUS
<1>2. /\ Sane(f) /\ Reading(f) /\ f.mode # "w" /\ Sane(h) /\ Like(h, f) /\ a \in Seq(Byte)
      /\ (f.error => h.error) /\ (f.eof => h.eof) /\ (h.torn \/ Advanced(h, f, a))
    BY <1>1 DEF Fetching
<1>3. /\ Sane(g) /\ Reading(g) /\ Like(g, h) /\ x \in Seq(Byte)
      /\ (h.error => g.error) /\ (h.eof => g.eof) /\ (g.torn \/ Advanced(g, h, x))
    BY <1>1 DEF Fetched
<1>4. PICK y \in Seq(Byte) : y = a \o x /\ Len(y) = Len(a) + Len(x)
    BY <1>2, <1>3, ConcatProperties
<1>5. Like(g, f) /\ (h.torn => g.torn)
    BY <1>2, <1>3 DEF Like
<1>6. g.torn \/ Advanced(g, f, y)
    BY <1>2, <1>3, <1>4, <1>5, AdvancedTwice
<1>7. i.n + Len(y) = o.n
  <2>1. PICK u \in Nat, v \in Nat : u = Len(a) /\ v = Len(x)
      BY <1>2, <1>3, LenProperties
  <2>2. PICK m \in Nat, n \in Nat : m = i.n /\ n = j.n
      BY DEF Fetched, Fetching
  <2>3. m + v = n /\ n + u = o.n
      BY <1>1, <2>1, <2>2 DEF Fetched, Fetching
  <2>4. m + (u + v) = o.n
      BY <2>3
  <2>5. QED
      BY <1>4, <2>1, <2>2, <2>4
<1>8. /\ Errand(i) /\ i.f = g /\ i.got = y /\ i.n \in Nat
    BY <1>1, <1>4 DEF Fetched
<1>9. QED
    BY <1>1, <1>2, <1>3, <1>4, <1>5, <1>6, <1>7, <1>8 DEF Fetching

\* k bytes were taken out of the buffer
Taken(f, k) == [f EXCEPT !.bufpos = f.bufpos + k]
TakenShows(g, f, k) ==
    /\ Sane(g) /\ Reading(g) /\ Like(g, f) /\ g.error = f.error /\ g.eof = f.eof
    /\ g.torn = f.torn /\ g.file = f.file /\ g.off = f.off
    /\ g.buffer = f.buffer /\ g.bufpos = f.bufpos + k /\ g.bufeof = f.bufeof

LEMMA TakenShowsIs ==
    ASSUME NEW f, Sane(f), Reading(f), NEW k \in Nat, k <= Held(f)
    PROVE  TakenShows(Taken(f, k), f, k)
<1>1. f \in StreamType /\ f.bufpos \in 0 .. BufSize /\ f.bufeof \in 0 .. BufSize /\ BufSize \in Nat
    BY ReadingIs
<1>2. PICK m \in Nat, n \in Nat, a \in Nat : m = f.bufpos /\ n = f.bufeof /\ a = m + k
    BY <1>1
<1>3. a <= n /\ a \in 0 .. BufSize
    BY <1>1, <1>2 DEF Held
<1>4. PICK g : g = [f EXCEPT !.bufpos = a]
    OBVIOUS
<1>5. /\ g \in StreamType /\ g.error = f.error /\ g.eof = f.eof /\ g.torn = f.torn
      /\ g.file = f.file /\ g.off = f.off /\ g.buffer = f.buffer /\ g.bufpos = a
      /\ g.bufeof = f.bufeof /\ g.writing = f.writing /\ g.mode = f.mode /\ g.line = f.line
      /\ g.seekable = f.seekable
    BY <1>1, <1>3, <1>4 DEF StreamType
<1>6. f.mode = "w" => k = 0 /\ a = m
    BY <1>1, <1>2, <1>3 DEF Held, Sane, Reading
<1>7. Sane(g) /\ Reading(g) /\ Like(g, f)
    BY <1>2, <1>3, <1>5, <1>6 DEF Sane, Reading, Like
<1>8. g = Taken(f, k)
    BY <1>2, <1>4 DEF Taken
<1>9. QED
    BY <1>2, <1>5, <1>7, <1>8 DEF TakenShows

LEMMA TakenIs ==
    ASSUME NEW f, Sane(f), Reading(f), NEW k \in Nat, k <= Held(f), NEW g, TakenShows(g, f, k)
    PROVE  /\ Advanced(g, f, SubSeq(f.buffer, f.bufpos + 1, f.bufpos + k))
           /\ Held(g) = Held(f) - k /\ Beyond(g) = Beyond(f)
           /\ SubSeq(f.buffer, f.bufpos + 1, f.bufpos + k) \in Seq(Byte)
           /\ Len(SubSeq(f.buffer, f.bufpos + 1, f.bufpos + k)) = k
<1>1. /\ f.bufpos \in Nat /\ f.bufeof \in Nat /\ f.buffer \in Seq(Byte) /\ f.off \in Nat
      /\ f.bufeof <= BufSize /\ Len(f.buffer) = BufSize /\ BufSize \in Nat
    BY ReadingIs
<1>2. PICK m \in Nat, n \in Nat, a \in Nat, q \in Seq(Byte), w \in Nat :
         m = f.bufpos /\ n = f.bufeof /\ a = m + k /\ q = f.buffer /\ w = m + 1
    BY <1>1
<1>3. a <= n /\ m <= a /\ n <= Len(q) /\ Len(q) \in Nat /\ a <= Len(q)
  <2>1. n <= Len(q) /\ Len(q) \in Nat
      BY <1>1, <1>2
  <2>2. k <= n - m
      BY <1>2 DEF Held
  <2>3. QED
      BY <1>2, <2>1, <2>2
<1>4. PICK x \in Seq(Byte) : x = SubSeq(q, w, a) /\ Len(x) = k
  <2>1. SubSeq(q, m + 1, a) \in Seq(Byte) /\ Len(SubSeq(q, m + 1, a)) = a - m
      BY <1>3, PartIs
  <2>2. a - m = k
      BY <1>2
  <2>3. QED
      BY <1>2, <2>1, <2>2
<1>5. PICK y \in Seq(Byte) : y = SubSeq(q, a + 1, n)
    BY <1>3, PartIs
<1>6. x \o y = SubSeq(q, w, n)
  <2>1. w \in 1 .. Len(q) + 1 /\ a \in w - 1 .. Len(q) /\ n \in a .. Len(q)
    <3>1. PICK d \in Nat : d = Len(q)
        BY <1>3
    <3>2. w = m + 1 /\ m <= a /\ a <= d /\ a <= n /\ n <= d
        BY <1>2, <1>3, <3>1
    <3>3. w \in 1 .. d + 1 /\ a \in w - 1 .. d /\ n \in a .. d
        BY <3>2
    <3>4. QED
        BY <3>1, <3>3
  <2>2. SubSeq(q, w, a) \o SubSeq(q, a + 1, n) = SubSeq(q, w, n)
      BY <2>1, ConcatAdjacentSubSeq
  <2>3. QED
      BY <1>4, <1>5, <2>2
<1>7. Sane(g) /\ Reading(g) /\ g.file = f.file /\ g.off = f.off /\ g.buffer = q /\ g.bufpos = a /\ g.bufeof = n
    BY <1>2 DEF TakenShows
<1>8. PICK z \in Seq(Byte) : z = Beyond(f)
    BY LeftIs
<1>9. Kept(f) = x \o y /\ Kept(g) = y /\ Beyond(g) = z
    BY <1>2, <1>5, <1>6, <1>7, <1>8 DEF Kept, Beyond
<1>10. Left(f) = x \o Left(g)
  <2>1. x \o (y \o z) = (x \o y) \o z
      BY SMTT(30), ConcatAssociative
  <2>2. Left(f) = (x \o y) \o z /\ Left(g) = y \o z
      BY <1>8, <1>9 DEF Left
  <2>3. QED
      BY <2>1, <2>2
<1>11. PICK u \in Nat, v \in Nat, t \in Nat : u = Held(f) /\ v = Held(g) /\ t = f.off
    BY <1>1, <1>7, LeftIs
<1>12. u = n - m /\ v = n - a /\ v = u - k
  <2>1. u = n - m
      BY <1>2, <1>11 DEF Held
  <2>2. v = n - a
      BY <1>7, <1>11 DEF Held
  <2>3. a = m + k
      BY <1>2
  <2>4. v = u - k
      BY <2>1, <2>2, <2>3
  <2>5. QED
      BY <2>1, <2>2, <2>4
<1>13. Tells(f) = t - u /\ Tells(g) = t - v /\ t - v = t - u + k
  <2>1. Tells(f) = f.off - Held(f) /\ Tells(g) = g.off - Held(g)
      BY DEF Tells
  <2>2. Tells(f) = t - u /\ Tells(g) = t - v
      BY <1>7, <1>11, <2>1
  <2>3. v = u - k
      BY <1>12
  <2>4. t - v = t - u + k
      BY <2>3
  <2>5. QED
      BY <2>2, <2>4
<1>14. Advanced(g, f, x)
  <2>1. Tells(g) = Tells(f) + Len(x)
      BY <1>4, <1>13
  <2>2. Held(g) = Held(f) - Len(x) /\ Held(g) >= Held(f) - Len(x)
      BY <1>4, <1>11, <1>12
  <2>3. QED
      BY <1>4, <1>7, <1>10, <2>1, <2>2 DEF Advanced
<1>15. x = SubSeq(f.buffer, f.bufpos + 1, f.bufpos + k)
    BY <1>2, <1>4
<1>16. QED
    BY <1>4, <1>8, <1>9, <1>11, <1>12, <1>14, <1>15

LEMMA NothingLeft ==
    ASSUME NEW f, Sane(f), Reading(f)
    PROVE  Left(f) = <<>> <=> Held(f) = 0 /\ Beyond(f) = <<>>
<1>1. PICK l \in Seq(Byte), b \in Seq(Byte) : l = Left(f) /\ b = Beyond(f)
    BY LeftIs
<1>2. PICK u \in Nat, n \in Nat, m \in Nat : u = Held(f) /\ n = Len(b) /\ m = Len(l)
    BY <1>1, LeftIs, LenProperties
<1>3. m = u + n
    BY <1>1, <1>2, LeftIs
<1>4. m = 0 <=> u = 0 /\ n = 0
    BY <1>3
<1>5. (l = <<>> <=> m = 0) /\ (b = <<>> <=> n = 0)
    BY <1>2, EmptyIs
<1>6. QED
    BY <1>1, <1>2, <1>4, <1>5

LEMMA UnbufferIs ==
    ASSUME NEW o, NEW j, Fetching(j, o), NEW i, i = Unbuffer(j)
    PROVE  /\ Fetching(i, o) /\ i.stop = j.stop /\ i.f.eof = j.f.eof /\ i.f.error = j.f.error
           /\ AtEnd(j, o) => AtEnd(i, o)
           /\ i.n > 0 => Held(i.f) = 0
           /\ Held(j.f) <= j.n => i.n = j.n - Held(j.f) /\ Held(i.f) = 0
           /\ j.n <= Held(j.f) => i.n = 0
           /\ Beyond(i.f) = Beyond(j.f) /\ i.f.torn = j.f.torn
<1>1. PICK f : f = j.f
    OBVIOUS
<1>2. /\ Sane(f) /\ Reading(f) /\ j.n \in Nat /\ j.stop \in BOOLEAN /\ j.got \in Seq(Byte)
    BY <1>1 DEF Fetching, Errand
<1>3. PICK u \in Nat, n \in Nat : u = Held(f) /\ n = j.n
    BY <1>2, LeftIs
<1>4. PICK k \in Nat : k = Min({u, n}) /\ k = (IF u <= n THEN u ELSE n)
  <2>1. Min({u, n}) = IF u <= n THEN u ELSE n
      BY MinOfTwo
  <2>2. QED
      BY <2>1
<1>5. k <= u /\ k <= n /\ (k < n => k = u) /\ (u <= n => k = u)
    BY <1>4
<1>6. PICK m \in Nat : m = n - k
    BY <1>5
<1>7. PICK g : g = Taken(f, k)
    OBVIOUS
<1>8. PICK x : x = SubSeq(f.buffer, f.bufpos + 1, f.bufpos + k)
    OBVIOUS
<1>9. i = [f |-> g, n |-> m, stop |-> j.stop, got |-> j.got \o x]
  <2>1. Min({f.bufeof - f.bufpos, j.n}) = k
      BY <1>3, <1>4, Zenon DEF Held
  <2>2. QED
      BY <1>1, <1>3, <1>6, <1>7, <1>8, <2>1, Zenon DEF Unbuffer, Taken
<1>10. k <= Held(f)
    BY <1>3, <1>5
<1>11. TakenShows(g, f, k)
    BY <1>2, <1>7, <1>10, TakenShowsIs
<1>12. /\ Advanced(g, f, x) /\ Held(g) = Held(f) - k /\ Beyond(g) = Beyond(f)
       /\ x \in Seq(Byte) /\ Len(x) = k
    BY <1>2, <1>8, <1>10, <1>11, TakenIs
<1>13. /\ Sane(g) /\ Reading(g) /\ Like(g, f) /\ g.error = f.error /\ g.eof = f.eof
       /\ g.torn = f.torn
    BY <1>11 DEF TakenShows
<1>14. i.f = g /\ i.n = m /\ i.stop = j.stop /\ i.got = j.got \o x /\ Errand(i)
    BY <1>2, <1>9 DEF Errand
<1>15. m + Len(x) = j.n
    BY <1>3, <1>5, <1>6, <1>12
<1>16. Fetching(i, o)
  <2>1. Fetched(i, j, g, x)
      BY <1>1, <1>12, <1>13, <1>14, <1>15 DEF Fetched
  <2>2. QED
      BY <2>1, FetchMore
<1>17. PICK v \in Nat : v = Held(g) /\ v = u - k
  <2>1. u - k \in Nat
      BY <1>5
  <2>2. QED
      BY <1>3, <1>12, <2>1
<1>18. m > 0 => v = 0
    BY <1>5, <1>6, <1>17
<1>19. u <= n => m = n - u /\ v = 0
    BY <1>5, <1>6, <1>17
<1>20. Left(f) = <<>> => Left(g) = <<>>
  <2>1. Left(f) = <<>> => u = 0 /\ Beyond(f) = <<>>
      BY <1>2, <1>3, NothingLeft
  <2>2. u = 0 => v = 0
    <3>1. k <= u /\ v = u - k
        BY <1>5, <1>17
    <3>2. QED
        BY <3>1
  <2>3. v = 0 /\ Beyond(g) = <<>> => Left(g) = <<>>
      BY <1>13, <1>17, NothingLeft
  <2>4. QED
      BY <1>12, <2>1, <2>2, <2>3
<1>21. AtEnd(j, o) => AtEnd(i, o)
    BY <1>1, <1>13, <1>14, <1>20 DEF AtEnd
<1>22. i.n > 0 => Held(i.f) = 0
    BY <1>14, <1>17, <1>18
<1>23. Held(j.f) <= j.n => i.n = j.n - Held(j.f) /\ Held(i.f) = 0
    BY <1>1, <1>3, <1>14, <1>17, <1>19
<1>24. j.n <= Held(j.f) => i.n = 0
  <2>1. n <= u => m = 0
      BY <1>4, <1>6
  <2>2. QED
      BY <1>1, <1>3, <1>14, <2>1
<1>25. QED
    BY <1>1, <1>12, <1>13, <1>14, <1>16, <1>21, <1>22, <1>23, <1>24

\* A transfer that follows what was read ahead
LEMMA CameIs ==
    ASSUME NEW f, Sane(f), Reading(f), Held(f) = 0, NEW need \in Nat, need > 0, NEW room \in Nat,
           NEW r \in ReadLoop(f, need, room)
    PROVE  /\ Moved(r[1], f) /\ Reading(r[1]) /\ Held(r[1]) = 0
           /\ \/ r[2] = <<>> /\ r[3] = -1 /\ r[1].error /\ (r[1].torn \/ Advanced(r[1], f, <<>>))
              \/ /\ r[2] \in Seq(Byte) /\ Len(r[2]) = r[3] /\ r[3] \in 0 .. room
                 /\ Advanced(r[1], f, r[2])
                 /\ r[3] < need => r[1].eof \/ r[1].error
                 /\ r[1].eof /\ ~ f.eof =>
                       r[1].error \/ (r[3] < need /\ (Left(r[1]) = <<>> \/ r[3] = room))
<1>1. PICK left \in Seq(Byte) : left = Drop(f.file, f.off) /\ left = Beyond(f)
    BY LeftIs DEF Beyond
<1>2. /\ Moved(r[1], f)
      /\ Failed(r, f) \/ \E k \in 0 .. Len(left) : Came(r, f, left, k, need, room)
    BY <1>1, ReadLoopIs
<1>3. PICK g : g = r[1]
    OBVIOUS
<1>4. /\ Sane(g) /\ g.buffer = f.buffer /\ g.bufpos = f.bufpos /\ g.bufeof = f.bufeof
      /\ g.writing = f.writing /\ g.file = f.file
    BY <1>2, <1>3 DEF Moved
<1>5. Reading(g) /\ Held(g) = Held(f) /\ Kept(g) = Kept(f)
    BY <1>4 DEF Reading, Held, Kept
<1>6. Held(g) = 0
    BY <1>5
<1>7. Kept(f) = <<>> /\ Kept(g) = <<>>
  <2>1. Kept(f) \in Seq(Byte) /\ Len(Kept(f)) = 0
      BY LeftIs
  <2>2. QED
      BY <1>5, <2>1, EmptySeq
<1>8. Left(f) = left
  <2>1. <<>> \o left = left
      BY ConcatEmptySeq
  <2>2. QED
      BY <1>1, <1>7, <2>1 DEF Left
<1>9. PICK c \in Seq(Byte), d \in Nat, t \in Nat, n \in Nat :
         c = f.file /\ d = Len(c) /\ t = f.off /\ n = Len(left)
  <2>1. f.file \in Seq(Byte) /\ f.off \in Nat
      BY ReadingIs
  <2>2. QED
      BY <2>1, LenProperties
<1>10. n = IF t <= d THEN d - t ELSE 0
    BY <1>1, <1>9, LeftIs
<1>11. CASE Failed(r, f)
  <2>1. r[2] = <<>> /\ r[3] = -1 /\ g.error /\ (g.torn \/ g.off = f.off)
      BY <1>3, <1>11 DEF Failed
  <2>2. ASSUME g.off = f.off PROVE Advanced(g, f, <<>>)
    <3>1. Advanced(f, f, <<>>)
        BY AdvancedNone
    <3>2. Left(g) = Left(f) /\ Tells(g) = Tells(f)
        BY <1>4, <1>5, <2>2 DEF Left, Beyond, Tells
    <3>3. QED
        BY <1>4, <1>5, <2>2, <3>1, <3>2 DEF Advanced
  <2>3. g.torn \/ Advanced(g, f, <<>>)
      BY <2>1, <2>2
  <2>4. QED
      BY <1>2, <1>3, <1>5, <1>6, <2>1, <2>3
<1>12. ASSUME NEW k \in 0 .. Len(left), Came(r, f, left, k, need, room)
       PROVE  /\ r[2] \in Seq(Byte) /\ Len(r[2]) = r[3] /\ r[3] \in 0 .. room
              /\ Advanced(r[1], f, r[2])
              /\ r[3] < need => r[1].eof \/ r[1].error
              /\ r[1].eof /\ ~ f.eof =>
                    r[1].error \/ (r[3] < need /\ (Left(r[1]) = <<>> \/ r[3] = room))
  <2>1. /\ r[3] = k /\ r[2] = SubSeq(left, 1, k) /\ k <= room /\ g.off = f.off + k
        /\ k < need => g.eof \/ g.error
        /\ g.eof /\ ~ f.eof => g.error \/ (k < need /\ (k = Len(left) \/ k = room))
      BY <1>3, <1>12 DEF Came
  <2>2. k \in Nat /\ k \in 0 .. room /\ k <= n
      BY <1>9, <2>1
  <2>3. PICK x \in Seq(Byte) : x = SubSeq(left, 1, k) /\ Len(x) = k
    <3>1. SubSeq(left, 1, k) \in Seq(Byte) /\ Len(SubSeq(left, 1, k)) = k
        BY FrontIs
    <3>2. QED
        BY <3>1
  <2>4. PICK y \in Seq(Byte) : y = Drop(left, k) /\ Len(y) = n - k
    <3>1. Drop(left, k) \in Seq(Byte) /\ Len(Drop(left, k)) = (IF k <= Len(left) THEN Len(left) - k ELSE 0)
        BY <2>2, DropIs
    <3>2. QED
        BY <1>9, <2>2, <3>1
  <2>5. left = x \o y
      BY <2>3, <2>4, SplitIs
  <2>6. Left(g) = y
    <3>1. Drop(Drop(c, t), k) = Drop(c, t + k)
        BY <2>2, DropTwice
    <3>2. Beyond(g) = y
        BY <1>1, <1>4, <1>9, <2>1, <2>4, <3>1 DEF Beyond
    <3>3. <<>> \o y = y
        BY ConcatEmptySeq
    <3>4. QED
        BY <1>7, <3>2, <3>3 DEF Left
  <2>7. PICK e \in Nat : e = t + k /\ e = g.off
      BY <1>9, <2>1, <2>2
  <2>8. Tells(g) = Tells(f) + k
    <3>1. Tells(f) = f.off - Held(f) /\ Tells(g) = g.off - Held(g)
        BY DEF Tells
    <3>2. Tells(f) = t - 0 /\ Tells(g) = e - 0
        BY <1>6, <1>9, <2>7, <3>1
    <3>3. QED
        BY <2>2, <2>7, <3>2
  <2>9. e <= d \/ (k = 0 /\ e = t)
      BY <1>10, <2>2, <2>7
  <2>10. Advanced(g, f, x)
    <3>1. Held(g) >= Held(f) - Len(x)
        BY <1>6, <2>2, <2>3
    <3>2. k = 0 => Held(g) = Held(f) - Len(x)
      <4>1. ASSUME k = 0 PROVE Held(g) = Held(f) - Len(x)
        <5>1. Held(f) = 0 /\ Held(g) = 0 /\ Len(x) = 0
            BY <1>6, <2>3, <4>1
        <5>2. QED
            BY <5>1
      <4>2. QED
          BY <4>1
    <3>3. g.off <= Len(g.file) \/ (g.off = f.off /\ Held(g) = Held(f) - Len(x))
        BY <1>4, <1>9, <2>7, <2>9, <3>2
    <3>4. QED
        BY <1>4, <1>5, <1>8, <2>3, <2>5, <2>6, <2>8, <3>1, <3>3 DEF Advanced
  <2>11. k = Len(left) => Left(g) = <<>>
    <3>1. k = n => Len(y) = 0
        BY <2>2, <2>4
    <3>2. QED
        BY <1>9, <2>6, <3>1, EmptyIs
  <2>12. g.eof /\ ~ f.eof => g.error \/ (k < need /\ (Left(g) = <<>> \/ k = room))
      BY <2>1, <2>11
  <2>13. QED
      BY <1>3, <2>1, <2>2, <2>3, <2>10, <2>12
<1>13. QED
    BY <1>2, <1>3, <1>5, <1>6, <1>11, <1>12

LEMMA LeftShrinks ==
    ASSUME NEW f, Sane(f), Reading(f), NEW g, Sane(g), NEW x, Advanced(g, f, x), Left(f) = <<>>
    PROVE  Left(g) = <<>>
<1>1. x \in Seq(Byte) /\ Reading(g) /\ Left(f) = x \o Left(g)
    BY DEF Advanced
<1>2. PICK l \in Seq(Byte) : l = Left(g)
    BY <1>1, LeftIs
<1>3. Len(x \o l) = Len(x) + Len(l)
    BY <1>1, ConcatProperties
<1>4. x \o l = <<>> /\ Len(<<>>) = 0
    BY <1>1, <1>2
<1>5. PICK u \in Nat, v \in Nat : u = Len(x) /\ v = Len(l)
    BY <1>1, LenProperties
<1>6. u + v = 0
    BY <1>3, <1>4, <1>5
<1>7. v = 0
    BY <1>6
<1>8. QED
    BY <1>2, <1>5, <1>7, EmptyIs

\* What ends a step of the call that asked for blocks
Blocked(i, o) ==
    /\ Fetching(i, o) /\ AtEnd(i, o) /\ (i.n > 0 => Held(i.f) = 0)
    /\ i.stop => i.f.eof \/ i.f.error
    /\ ~ i.stop => i.n < BufSize \/ i.f.error

LEMMA ReadBlocksIs ==
    ASSUME NEW o, NEW j, Fetching(j, o), AtEnd(j, o), j.n > 0 => Held(j.f) = 0, ~ j.stop,
           NEW i \in ReadBlocks(j)
    PROVE  Blocked(i, o)
<1>1. PICK f : f = j.f
    OBVIOUS
<1>2. Sane(f) /\ Reading(f) /\ j.n \in Nat /\ j.got \in Seq(Byte)
    BY <1>1 DEF Fetching
<1>3. PICK n \in Nat, z \in Nat : n = j.n /\ z = BufSize /\ z = f.bufsz
    BY <1>2, ReadingIs DEF Sane, StreamType
<1>4. z > 0
  <2>1. PICK q \in Seq(Byte) : q = f.buffer /\ Len(q) = z /\ q # <<>>
      BY <1>2, <1>3, ReadingIs DEF Reading, Unbuffered
  <2>2. Len(q) # 0
      BY <2>1, EmptyIs
  <2>3. QED
      BY <2>1, <2>2
<1>5. CASE n < z
  <2>1. i = j
      BY <1>1, <1>3, <1>5 DEF ReadBlocks
  <2>2. QED
      BY <1>3, <1>5, <2>1 DEF Blocked
<1>6. CASE ~ (n < z)
  <2>1. PICK m \in Nat : m = (n \div z) * z /\ m <= n /\ n - m < z /\ m > 0
    <3>1. (n \div z) * z \in 0 .. n /\ n - (n \div z) * z < z
        BY <1>4, BlocksAre
    <3>2. PICK m \in 0 .. n : m = (n \div z) * z /\ n - m < z
        BY <3>1
    <3>3. m \in Nat /\ m <= n /\ m > 0
        BY <1>6, <3>2
    <3>4. QED
        BY <3>2, <3>3
  <2>2. PICK r \in ReadLoop(f, m, m) :
           i = [f |-> r[1], got |-> j.got \o r[2], n |-> j.n - Len(r[2]), stop |-> r[3] \in 0 .. m - 1]
      BY <1>1, <1>3, <1>6, <2>1, Zenon DEF ReadBlocks, ReadData
  <2>3. PICK g, x, w : g = r[1] /\ x = r[2] /\ w = r[3]
      OBVIOUS
  <2>4. PICK b \in BOOLEAN : b = (w \in 0 .. m - 1)
    <3>1. (w \in 0 .. m - 1) \in BOOLEAN
        OBVIOUS
    <3>2. PICK b : b = (w \in 0 .. m - 1)
        OBVIOUS
    <3>3. QED
        BY <3>1, <3>2, Zenon
  <2>5. PICK y, v : y = j.got \o x /\ v = j.n - Len(x)
      OBVIOUS
  <2>6. i = [f |-> g, got |-> y, n |-> v, stop |-> b]
      BY <2>2, <2>3, <2>4, <2>5, Zenon
  <2>7. i.f = g /\ i.got = y /\ i.n = v /\ i.stop = b /\ Errand(i)
      BY <2>4, <2>6 DEF Errand
  <2>8. Held(f) = 0
      BY <1>1, <1>3, <1>4, <1>6
  <2>9. /\ Moved(g, f) /\ Reading(g) /\ Held(g) = 0
        /\ \/ x = <<>> /\ w = -1 /\ g.error /\ (g.torn \/ Advanced(g, f, <<>>))
           \/ /\ x \in Seq(Byte) /\ Len(x) = w /\ w \in 0 .. m
              /\ Advanced(g, f, x)
              /\ w < m => g.eof \/ g.error
              /\ g.eof /\ ~ f.eof => g.error \/ (w < m /\ (Left(g) = <<>> \/ w = m))
      BY <1>2, <2>1, <2>3, <2>8, CameIs
  <2>10. Sane(g) /\ Like(g, f) /\ (f.error => g.error) /\ (f.eof => g.eof) /\ (f.torn => g.torn)
      BY <2>9 DEF Moved, Like
  <2>11. i.n > 0 => Held(i.f) = 0
      BY <2>7, <2>9
  <2>12. CASE x = <<>> /\ w = -1 /\ g.error /\ (g.torn \/ Advanced(g, f, <<>>))
    <3>1. x \in Seq(Byte) /\ Len(x) = 0
        BY <2>12, EmptySeq
    <3>2. v = n /\ v + Len(x) = j.n /\ v \in Nat
        BY <1>3, <2>5, <3>1
    <3>3. b = FALSE
      <4>1. \A u \in 0 .. m - 1 : u # -1
          OBVIOUS
      <4>2. ~ (w \in 0 .. m - 1)
          BY <2>12, <4>1
      <4>3. QED
          BY <2>4, <4>2
    <3>4. Fetched(i, j, g, x)
        BY <1>1, <2>5, <2>7, <2>9, <2>10, <2>12, <3>1, <3>2 DEF Fetched
    <3>5. Fetching(i, o)
        BY <3>4, FetchMore
    <3>6. QED
        BY <2>7, <2>11, <2>12, <3>3, <3>5 DEF Blocked, AtEnd
  <2>13. CASE /\ x \in Seq(Byte) /\ Len(x) = w /\ w \in 0 .. m
              /\ Advanced(g, f, x)
              /\ w < m => g.eof \/ g.error
              /\ g.eof /\ ~ f.eof => g.error \/ (w < m /\ (Left(g) = <<>> \/ w = m))
    <3>1. PICK k \in Nat : k = w /\ k <= m /\ k = Len(x)
        BY <2>13
    <3>2. v = n - k /\ v + k = n /\ v \in Nat
      <4>1. v = n - k
          BY <1>3, <2>5, <3>1
      <4>2. k <= n
          BY <2>1, <3>1
      <4>3. QED
          BY <4>1, <4>2
    <3>3. b <=> k < m
      <4>1. k \in 0 .. m - 1 <=> k < m
          BY <3>1
      <4>2. QED
          BY <2>4, <3>1, <4>1
    <3>4. Fetched(i, j, g, x)
        BY <1>1, <1>3, <2>5, <2>7, <2>9, <2>10, <2>13, <3>1, <3>2 DEF Fetched
    <3>5. Fetching(i, o)
        BY <3>4, FetchMore
    <3>6. k < m => g.eof \/ g.error
        BY <2>13, <3>1
    <3>7. ~ (k < m) => v < z
        BY <2>1, <3>1, <3>2
    <3>8. Left(f) = <<>> => Left(g) = <<>>
        BY <1>2, <2>10, <2>13, LeftShrinks
    <3>9. g.eof /\ ~ f.eof => g.error \/ Left(g) = <<>>
        BY <2>13, <3>1
    <3>10. AtEnd(i, o)
        BY <1>1, <2>7, <2>10, <3>8, <3>9 DEF AtEnd
    <3>11. i.stop => i.f.eof \/ i.f.error
        BY <2>7, <3>3, <3>6
    <3>12. ~ i.stop => i.n < BufSize
        BY <1>3, <2>7, <3>3, <3>7
    <3>13. QED
        BY <2>11, <3>5, <3>10, <3>11, <3>12 DEF Blocked
  <2>14. QED
      BY <2>9, <2>12, <2>13
<1>7. QED
    BY <1>5, <1>6

\* The buffer was filled with x
FilledWith(h, g, x) ==
    /\ Sane(h) /\ Reading(h) /\ Like(h, g) /\ h.error = g.error /\ h.eof = g.eof
    /\ h.torn = g.torn /\ h.file = g.file /\ h.off = g.off
    /\ h.bufpos = 0 /\ h.bufeof = Len(x) /\ Kept(h) = x

LEMMA FilledWithIs ==
    ASSUME NEW g, Sane(g), Reading(g), g.mode # "w", NEW x \in Seq(Byte), x # <<>>,
           Len(x) <= BufSize
    PROVE  FilledWith(Refilled(g, x), g, x)
<1>1. /\ g \in StreamType /\ g.buffer \in Seq(Byte) /\ Len(g.buffer) = BufSize /\ BufSize \in Nat
    BY ReadingIs
<1>2. PICK k \in Nat, z \in Nat, q \in Seq(Byte) : k = Len(x) /\ z = BufSize /\ q = g.buffer /\ k <= z /\ Len(q) = z
    BY <1>1, LenProperties
<1>3. k \in 0 .. z /\ 0 \in 0 .. z
    BY <1>2
<1>4. PICK y \in Seq(Byte) : y = Drop(q, k) /\ Len(y) = z - k
  <2>1. Drop(q, k) \in Seq(Byte) /\ Len(Drop(q, k)) = (IF k <= Len(q) THEN Len(q) - k ELSE 0)
      BY DropIs
  <2>2. QED
      BY <1>2, <2>1
<1>5. PICK b \in Seq(Byte) : b = x \o y /\ Len(b) = z
  <2>1. x \o y \in Seq(Byte) /\ Len(x \o y) = Len(x) + Len(y)
      BY ConcatProperties
  <2>2. Len(x) + Len(y) = z
      BY <1>2, <1>4
  <2>3. QED
      BY <2>1, <2>2
<1>6. b # <<>>
  <2>1. Len(x) # 0
      BY EmptyIs
  <2>2. Len(b) # 0
      BY <1>2, <1>5, <2>1
  <2>3. QED
      BY <2>2, EmptyIs
<1>7. PICK h : h = [g EXCEPT !.bufpos = 0, !.bufeof = k, !.buffer = b]
    OBVIOUS
<1>8. h = Refilled(g, x)
    BY <1>2, <1>4, <1>5, <1>7 DEF Refilled
<1>9. /\ h \in StreamType /\ h.buffer = b /\ h.bufpos = 0 /\ h.bufeof = k
      /\ h.error = g.error /\ h.eof = g.eof /\ h.torn = g.torn /\ h.file = g.file /\ h.off = g.off
      /\ h.writing = g.writing /\ h.mode = g.mode /\ h.line = g.line /\ h.seekable = g.seekable
    BY <1>1, <1>2, <1>3, <1>7 DEF StreamType
<1>10. Sane(h) /\ Reading(h) /\ Like(h, g)
    BY <1>2, <1>5, <1>6, <1>9 DEF Sane, Reading, Like, Unbuffered
<1>11. Kept(h) = x
  <2>1. SubSeq(b, 1, k) = x
      BY <1>2, <1>5, PartsAre
  <2>2. Kept(h) = SubSeq(b, 0 + 1, k)
      BY <1>9 DEF Kept
  <2>3. 0 + 1 = 1
      OBVIOUS
  <2>4. QED
      BY <2>1, <2>2, <2>3
<1>12. QED
    BY <1>2, <1>8, <1>9, <1>10, <1>11 DEF FilledWith

LEMMA RefilledIs ==
    ASSUME NEW f, Sane(f), Reading(f), Held(f) = 0, NEW g, Sane(g), Reading(g), Held(g) = 0,
           NEW x, Advanced(g, f, x), Len(x) <= BufSize, g.mode # "w", NEW h, h = Refilled(g, x)
    PROVE  /\ Sane(h) /\ Reading(h) /\ Like(h, g) /\ h.error = g.error /\ h.eof = g.eof
           /\ h.torn = g.torn /\ Advanced(h, f, <<>>) /\ Held(h) = Len(x)
           /\ Left(g) = <<>> => Beyond(h) = <<>>
<1>1. x \in Seq(Byte) /\ g.file = f.file
    BY DEF Advanced
<1>2. CASE x = <<>>
  <2>1. h = g
      BY <1>2 DEF Refilled
  <2>2. Len(x) = 0 /\ Advanced(g, f, <<>>)
      BY <1>2
  <2>3. Like(g, g)
      BY DEF Like
  <2>4. Left(g) = <<>> => Beyond(g) = <<>>
      BY NothingLeft
  <2>5. QED
      BY <2>1, <2>2, <2>3, <2>4
<1>3. CASE x # <<>>
  <2>1. FilledWith(h, g, x)
      BY <1>1, <1>3, FilledWithIs
  <2>2. /\ Sane(h) /\ Reading(h) /\ Like(h, g) /\ h.error = g.error /\ h.eof = g.eof
        /\ h.torn = g.torn /\ h.file = g.file /\ h.off = g.off
        /\ h.bufpos = 0 /\ h.bufeof = Len(x) /\ Kept(h) = x
      BY <2>1 DEF FilledWith
  <2>3. PICK k \in Nat, t \in Nat, a \in Nat, e \in Nat :
           k = Len(x) /\ t = f.off /\ a = g.off /\ e = Len(g.file)
      BY <1>1, LenProperties, ReadingIs
  <2>4. k # 0
      BY <1>1, <1>3, <2>3, EmptyIs
  <2>5. Held(h) = k
    <3>1. Held(h) = k - 0
        BY <2>2, <2>3 DEF Held
    <3>2. QED
        BY <3>1
  <2>6. PICK y \in Seq(Byte) : y = Beyond(g) /\ y = Beyond(h)
      BY <2>2, LeftIs DEF Beyond
  <2>7. Left(g) = y
    <3>1. Kept(g) = <<>>
      <4>1. Kept(g) \in Seq(Byte) /\ Len(Kept(g)) = 0
          BY LeftIs
      <4>2. QED
          BY <4>1, EmptySeq
    <3>2. <<>> \o y = y
        BY ConcatEmptySeq
    <3>3. QED
        BY <2>6, <3>1, <3>2 DEF Left
  <2>8. PICK l \in Seq(Byte) : l = Left(h) /\ l = Left(f)
    <3>1. Left(h) = x \o y
        BY <2>2, <2>6 DEF Left
    <3>2. Left(f) = x \o y
        BY <2>7 DEF Advanced
    <3>3. QED
        BY <2>2, <3>1, <3>2, LeftIs
  <2>9. Tells(h) = Tells(f)
    <3>1. Tells(h) = h.off - Held(h) /\ Tells(g) = g.off - Held(g) /\ Tells(f) = f.off - Held(f)
        BY DEF Tells
    <3>2. Tells(h) = a - k /\ Tells(g) = a - 0 /\ Tells(f) = t - 0
        BY <2>2, <2>3, <2>5, <3>1
    <3>3. Tells(g) = Tells(f) + k
        BY <2>3 DEF Advanced
    <3>4. a = t + k
        BY <3>2, <3>3
    <3>5. QED
        BY <3>2, <3>4
  <2>10. h.off <= Len(h.file)
    <3>1. g.off <= Len(g.file) \/ Held(g) = Held(f) - Len(x)
        BY DEF Advanced
    <3>2. Held(g) # Held(f) - Len(x)
      <4>1. 0 # 0 - k
          BY <2>4
      <4>2. QED
          BY <2>3, <4>1
    <3>3. QED
        BY <2>2, <3>1, <3>2
  <2>11. Advanced(h, f, <<>>)
    <3>1. <<>> \in Seq(Byte) /\ Len(<<>>) = 0
        BY EmptySeq
    <3>2. <<>> \o l = l
        BY ConcatEmptySeq
    <3>3. PICK w \in Int : w = Tells(f) /\ w = Tells(h)
        BY <2>9, LeftIs
    <3>4. w = w + 0 /\ k >= 0 - 0
        OBVIOUS
    <3>5. Tells(h) = Tells(f) + Len(<<>>) /\ Held(h) >= Held(f) - Len(<<>>)
        BY <2>5, <3>1, <3>3, <3>4
    <3>6. Left(f) = <<>> \o Left(h)
        BY <2>8, <3>2
    <3>7. QED
        BY <1>1, <2>2, <2>10, <3>1, <3>5, <3>6 DEF Advanced
  <2>12. QED
      BY <2>2, <2>3, <2>5, <2>6, <2>7, <2>11
<1>4. QED
    BY <1>2, <1>3

LEMMA ReadRestIs ==
    ASSUME NEW o, NEW j, Blocked(j, o), NEW i \in ReadRest(j)
    PROVE  Fetching(i, o) /\ AtEnd(i, o) /\ (i.n > 0 => i.f.eof \/ i.f.error)
<1>1. PICK f : f = j.f
    OBVIOUS
<1>2. /\ Fetching(j, o) /\ AtEnd(j, o) /\ Sane(f) /\ Reading(f) /\ j.n \in Nat
      /\ j.got \in Seq(Byte) /\ j.stop \in BOOLEAN /\ Errand(j) /\ f.mode # "w"
    BY <1>1 DEF Blocked, Fetching, Errand, Like
<1>3. PICK n \in Nat, z \in Nat : n = j.n /\ z = BufSize /\ z = f.bufsz
    BY <1>2, ReadingIs DEF Sane, StreamType
<1>4. CASE j.stop \/ n = 0
  <2>1. i = j
      BY <1>3, <1>4 DEF ReadRest
  <2>2. j.n > 0 => f.eof \/ f.error
      BY <1>1, <1>3, <1>4 DEF Blocked
  <2>3. QED
      BY <1>1, <1>2, <2>1, <2>2
<1>5. CASE ~ j.stop /\ n # 0
  <2>1. n > 0 /\ Held(f) = 0 /\ (n < z \/ f.error)
      BY <1>1, <1>3, <1>5 DEF Blocked
  <2>2. PICK r \in ReadLoop(f, n, z) :
           i = IF r[3] < 0 THEN [j EXCEPT !.f = r[1]]
               ELSE Unbuffer([j EXCEPT !.f = Refilled(r[1], r[2])])
      BY <1>1, <1>3, <1>5, Zenon DEF ReadRest
  <2>3. PICK g, x, w : g = r[1] /\ x = r[2] /\ w = r[3]
      OBVIOUS
  <2>4. /\ Moved(g, f) /\ Reading(g) /\ Held(g) = 0
        /\ \/ x = <<>> /\ w = -1 /\ g.error /\ (g.torn \/ Advanced(g, f, <<>>))
           \/ /\ x \in Seq(Byte) /\ Len(x) = w /\ w \in 0 .. z
              /\ Advanced(g, f, x)
              /\ w < n => g.eof \/ g.error
              /\ g.eof /\ ~ f.eof => g.error \/ (w < n /\ (Left(g) = <<>> \/ w = z))
      BY <1>2, <2>1, <2>3, CameIs
  <2>5. Sane(g) /\ Like(g, f) /\ (f.error => g.error) /\ (f.eof => g.eof) /\ (f.torn => g.torn)
      BY <2>4 DEF Moved, Like
  <2>6. ASSUME NEW h, Sane(h), Reading(h), Like(h, f), f.error => h.error, f.eof => h.eof,
               h.torn \/ Advanced(h, f, <<>>), NEW e, e = [j EXCEPT !.f = h]
        PROVE  Fetching(e, o) /\ e.f = h /\ e.n = n
    <3>1. e = [f |-> h, n |-> n, stop |-> j.stop, got |-> j.got]
        BY <1>2, <1>3, <2>6 DEF Errand
    <3>2. e.f = h /\ e.n = n /\ e.stop = j.stop /\ e.got = j.got /\ Errand(e)
        BY <1>2, <3>1 DEF Errand
    <3>3. PICK y \in Seq(Byte) : y = j.got
        BY <1>2
    <3>4. y \o <<>> = y /\ <<>> \in Seq(Byte) /\ Len(<<>>) = 0 /\ n + 0 = n
        BY ConcatEmptySeq, EmptySeq
    <3>5. e.got = j.got \o <<>> /\ e.n + Len(<<>>) = j.n
        BY <1>3, <3>2, <3>3, <3>4
    <3>6. Fetched(e, j, h, <<>>)
        BY <1>1, <2>6, <3>2, <3>4, <3>5 DEF Fetched
    <3>7. QED
        BY <1>2, <3>2, <3>6, FetchMore
  <2>7. CASE x = <<>> /\ w = -1 /\ g.error /\ (g.torn \/ Advanced(g, f, <<>>))
    <3>1. i = [j EXCEPT !.f = g]
      <4>1. w < 0
          BY <2>7
      <4>2. QED
          BY <2>2, <2>3, <4>1
    <3>2. Fetching(i, o) /\ i.f = g
        BY <2>4, <2>5, <2>6, <2>7, <3>1
    <3>3. QED
        BY <2>7, <3>2 DEF AtEnd
  <2>8. CASE /\ x \in Seq(Byte) /\ Len(x) = w /\ w \in 0 .. z
             /\ Advanced(g, f, x)
             /\ w < n => g.eof \/ g.error
             /\ g.eof /\ ~ f.eof => g.error \/ (w < n /\ (Left(g) = <<>> \/ w = z))
    <3>1. PICK k \in Nat : k = w /\ k <= z /\ k = Len(x)
        BY <2>8
    <3>2. PICK h : h = Refilled(g, x)
        OBVIOUS
    <3>3. PICK e : e = [j EXCEPT !.f = h]
        OBVIOUS
    <3>4. i = Unbuffer(e)
      <4>1. ~ (w < 0)
          BY <3>1
      <4>2. QED
          BY <2>2, <2>3, <3>2, <3>3, <4>1
    <3>5. g.mode # "w" /\ Len(x) <= BufSize
        BY <1>2, <1>3, <2>5, <3>1 DEF Like
    <3>6. /\ Sane(h) /\ Reading(h) /\ Like(h, g) /\ h.error = g.error /\ h.eof = g.eof
          /\ h.torn = g.torn /\ Advanced(h, f, <<>>) /\ Held(h) = Len(x)
          /\ Left(g) = <<>> => Beyond(h) = <<>>
        BY <1>2, <2>1, <2>4, <2>5, <2>8, <3>2, <3>5, RefilledIs
    <3>7. Like(h, f)
        BY <2>5, <3>6 DEF Like
    <3>8. Fetching(e, o) /\ e.f = h /\ e.n = n
        BY <2>5, <2>6, <3>3, <3>6, <3>7
    <3>9. /\ Fetching(i, o) /\ i.f.eof = h.eof /\ i.f.error = h.error
          /\ Held(h) <= n => i.n = n - Held(h) /\ Held(i.f) = 0
          /\ AtEnd(e, o) => AtEnd(i, o)
          /\ n <= Held(h) => i.n = 0
          /\ Beyond(i.f) = Beyond(h) /\ i.f.torn = h.torn
        BY <3>4, <3>8, UnbufferIs
    <3>10. Held(h) = k /\ i.n \in Nat /\ Sane(i.f) /\ Reading(i.f)
        BY <3>1, <3>6, <3>9 DEF Fetching
    <3>11. i.n > 0 => i.f.eof \/ i.f.error
      <4>1. CASE k < n
          BY <2>8, <3>1, <3>6, <3>9, <4>1
      <4>2. CASE ~ (k < n)
        <5>1. n <= k
            BY <4>2
        <5>2. i.n = 0
            BY <3>8, <3>9, <3>10, <5>1
        <5>3. QED
            BY <5>2
      <4>3. QED
          BY <4>1, <4>2
    <3>12. ASSUME f.eof PROVE AtEnd(i, o)
      <4>1. o.f.eof \/ f.torn \/ f.error \/ Left(f) = <<>>
          BY <1>1, <1>2, <3>12 DEF AtEnd
      <4>2. Left(f) = <<>> => Left(h) = <<>>
          BY <1>2, <3>6, LeftShrinks
      <4>3. AtEnd(e, o)
          BY <2>5, <3>6, <3>8, <4>1, <4>2 DEF AtEnd
      <4>4. QED
          BY <3>9, <4>3
    <3>13. ASSUME ~ f.eof PROVE AtEnd(i, o)
      <4>1. g.eof => g.error \/ (k < n /\ (Left(g) = <<>> \/ k = z))
          BY <2>8, <3>1, <3>13
      <4>2. k < n /\ k = z => g.error
        <5>1. k < n /\ k = z => ~ (n < z)
            OBVIOUS
        <5>2. QED
            BY <2>1, <2>5, <5>1
      <4>3. k < n /\ Left(g) = <<>> => Left(i.f) = <<>>
        <5>1. ASSUME k < n, Left(g) = <<>> PROVE Left(i.f) = <<>>
          <6>1. k <= n /\ Beyond(i.f) = <<>>
              BY <3>6, <3>9, <5>1
          <6>2. Held(i.f) = 0
              BY <3>9, <3>10, <6>1
          <6>3. QED
              BY <3>10, <6>1, <6>2, NothingLeft
        <5>2. QED
            BY <5>1
      <4>4. QED
          BY <3>6, <3>9, <4>1, <4>2, <4>3 DEF AtEnd
    <3>14. QED
        BY <3>9, <3>11, <3>12, <3>13
  <2>9. QED
      BY <2>4, <2>7, <2>8
<1>6. QED
    BY <1>4, <1>5

\* What the caller can still read, p characters being pushed back
AheadOf(f, p) == Back(f, p) \o Drop(Content(f), Spot(f, p))

\* g is f after n bytes were asked for and got was read
Fed(g, got, n, f, p) ==
    /\ got \in Seq(Byte) /\ Len(got) <= Len(AheadOf(f, p)) /\ got = SubSeq(AheadOf(f, p), 1, Len(got))
    /\ Positioned(g, Remaining(p, Len(got)))
    /\ Back(g, Remaining(p, Len(got))) = Drop(Back(f, p), Len(got))
    /\ Content(g) = Content(f)
    /\ Spot(g, Remaining(p, Len(got))) = IF Len(got) > p THEN Spot(f, p) + Len(got) - p ELSE Spot(f, p)
    /\ Len(got) < n => g.eof \/ g.error
    /\ g.eof /\ ~ f.eof => Len(got) = Len(AheadOf(f, p)) \/ g.error

LEMMA DropNone ==
    ASSUME NEW V, NEW q \in Seq(V)
    PROVE  Drop(q, 0) = q /\ SubSeq(q, 1, 0) = <<>>
<1>1. PICK n \in Nat, z \in Nat : n = Len(q) /\ z = 0
    BY LenProperties
<1>2. PICK x \in Seq(V) : x = Drop(q, z) /\ Len(x) = n /\ \A i \in 1 .. n : x[i] = q[i]
  <2>1. /\ Drop(q, z) \in Seq(V) /\ Len(Drop(q, z)) = (IF z <= Len(q) THEN Len(q) - z ELSE 0)
        /\ \A i \in 1 .. Len(q) - z : Drop(q, z)[i] = q[z + i]
      BY DropIs
  <2>2. Len(q) - z = n /\ z <= Len(q) /\ \A i \in 1 .. n : z + i = i
      BY <1>1
  <2>3. QED
      BY <2>1, <2>2
<1>3. x = q
    BY <1>1, <1>2, SameSequence
<1>4. z \in 0 .. Len(q)
    BY <1>1
<1>5. SubSeq(q, 1, z) \in Seq(V) /\ Len(SubSeq(q, 1, z)) = z
    BY <1>4, FrontIs
<1>6. SubSeq(q, 1, z) = <<>>
    BY <1>1, <1>5, EmptyIs
<1>7. QED
    BY <1>1, <1>2, <1>3, <1>6

LEMMA AheadOfIs ==
    ASSUME NEW f, Sane(f), NEW p \in Nat, Positioned(f, p)
    PROVE  AheadOf(f, p) \in Seq(Byte)
<1>1. PICK t \in Nat, c \in Seq(Byte), b \in Seq(Byte) : t = Spot(f, p) /\ c = Content(f) /\ b = Back(f, p)
    BY SpotIs, BackIs
<1>2. PICK d \in Seq(Byte) : d = Drop(c, t)
    BY DropIs
<1>3. b \o d \in Seq(Byte)
    BY ConcatProperties
<1>4. QED
    BY <1>1, <1>2, <1>3 DEF AheadOf

\* A call that reads nothing
LEMMA FedNone ==
    ASSUME NEW f, Sane(f), NEW p \in Nat, Positioned(f, p), NEW g, Positioned(g, p),
           Content(g) = Content(f), Spot(g, p) = Spot(f, p), Back(g, p) = Back(f, p),
           g.eof \/ g.error, g.eof /\ ~ f.eof => g.error, NEW n
    PROVE  Fed(g, <<>>, n, f, p)
<1>1. PICK a \in Seq(Byte), b \in Seq(Byte), t \in Nat : a = AheadOf(f, p) /\ b = Back(f, p) /\ t = Spot(f, p)
    BY AheadOfIs, BackIs, SpotIs
<1>2. Remaining(p, 0) = p /\ 0 <= p /\ ~ (0 > p)
    BY DEF Remaining
<1>3. Drop(b, 0) = b /\ SubSeq(a, 1, 0) = <<>>
    BY DropNone
<1>4. <<>> \in Seq(Byte) /\ Len(<<>>) = 0
    BY EmptySeq
<1>5. 0 <= Len(a)
    BY LenProperties
<1>6. QED
    BY <1>1, <1>2, <1>3, <1>4, <1>5 DEF Fed

LEMMA AheadIsLeft ==
    ASSUME NEW f, Sane(f), Reading(f), NEW p \in Nat, Positioned(f, p)
    PROVE  AheadOf(f, p) = Left(f) /\ Spot(f, p) = Base(f, p) /\ Content(f) = f.file
<1>1. Content(f) = f.file /\ Spot(f, p) = Base(f, p)
    BY DEF Content, Staging, Spot, Reading
<1>2. Left(f) = Back(f, p) \o Drop(f.file, Base(f, p))
    BY AheadIs
<1>3. QED
    BY <1>1, <1>2 DEF AheadOf

LEMMA FreadBufferedIs ==
    ASSUME NEW f, Sane(f), ~ f.torn, f.buffer # Unbuffered, f.mode # "w",
           NEW p \in Nat, Positioned(f, p), NEW n \in Nat, n > 0, NEW c \in FreadBuffered(f, n)
    PROVE  Sane(c.f) /\ Like(c.f, f) /\ c.got \in Seq(Byte) /\ (c.f.torn \/ Fed(c.f, c.got, n, f, p))
<1>1. PICK r \in StartReading(f) :
         c \in IF ~ r[2] THEN {[f |-> r[1], got |-> <<>>]}
               ELSE UNION {ReadRest(j) : j \in
                       ReadBlocks(Unbuffer([f |-> r[1], got |-> <<>>, n |-> n, stop |-> FALSE]))}
    BY Zenon DEF FreadBuffered
<1>2. PICK h : h = r[1]
    OBVIOUS
<1>3. /\ r[2] \in BOOLEAN /\ Sane(h) /\ Like(h, f) /\ h.eof = f.eof
      /\ IF r[2] THEN Reading(h) ELSE h.error
      /\ h.torn \/ /\ Positioned(h, p) /\ Content(h) = Content(f)
                   /\ Spot(h, p) = Spot(f, p) /\ Back(h, p) = Back(f, p)
    BY <1>2, StartReadingIs
<1>4. CASE ~ r[2]
  <2>1. c = [f |-> h, got |-> <<>>]
      BY <1>1, <1>2, <1>4
  <2>2. c.f = h /\ c.got = <<>>
      BY <2>1
  <2>3. ~ h.torn => Fed(h, <<>>, n, f, p)
      BY <1>3, <1>4, FedNone
  <2>4. <<>> \in Seq(Byte)
      BY EmptySeq
  <2>5. QED
      BY <1>3, <2>2, <2>3, <2>4
<1>5. CASE r[2]
  <2>1. PICK o : o = [f |-> h, n |-> n]
      OBVIOUS
  <2>2. o.f = h /\ o.n = n
      BY <2>1
  <2>3. PICK j : j = [f |-> h, got |-> <<>>, n |-> n, stop |-> FALSE]
      OBVIOUS
  <2>4. j.f = h /\ j.got = <<>> /\ j.n = n /\ j.stop = FALSE /\ Errand(j)
      BY <2>3 DEF Errand
  <2>5. Reading(h) /\ h.mode # "w" /\ Like(h, h) /\ Advanced(h, h, <<>>)
      BY <1>3, <1>5, AdvancedNone DEF Like
  <2>6. Fetching(j, o) /\ AtEnd(j, o)
    <3>1. <<>> \in Seq(Byte) /\ Len(<<>>) = 0 /\ n + 0 = n
        BY EmptySeq
    <3>2. QED
        BY <1>3, <2>2, <2>4, <2>5, <3>1 DEF Fetching, AtEnd
  <2>7. PICK i : i = Unbuffer(j)
      OBVIOUS
  <2>8. /\ Fetching(i, o) /\ i.stop = FALSE /\ AtEnd(i, o) /\ (i.n > 0 => Held(i.f) = 0)
      BY <2>4, <2>6, <2>7, UnbufferIs
  <2>9. PICK b \in ReadBlocks(i) : c \in ReadRest(b)
      BY <1>1, <1>2, <1>5, <2>3, <2>7, Zenon
  <2>10. Blocked(b, o)
      BY <2>8, ReadBlocksIs
  <2>11. Fetching(c, o) /\ AtEnd(c, o) /\ (c.n > 0 => c.f.eof \/ c.f.error)
      BY <2>9, <2>10, ReadRestIs
  <2>12. PICK g, got, m : g = c.f /\ got = c.got /\ m = c.n
      OBVIOUS
  <2>13. /\ Sane(g) /\ Reading(g) /\ Like(g, h) /\ got \in Seq(Byte) /\ m \in Nat /\ m + Len(got) = n
         /\ (h.eof => g.eof) /\ (g.torn \/ Advanced(g, h, got))
      BY <2>2, <2>11, <2>12 DEF Fetching
  <2>14. Like(g, f) /\ (h.torn => g.torn)
      BY <1>3, <2>13 DEF Like
  <2>15. ASSUME ~ g.torn PROVE Fed(g, got, n, f, p)
    <3>1. /\ Positioned(h, p) /\ Content(h) = Content(f)
          /\ Spot(h, p) = Spot(f, p) /\ Back(h, p) = Back(f, p) /\ Advanced(g, h, got)
        BY <1>3, <2>13, <2>14, <2>15
    <3>2. AheadOf(f, p) = Left(h) /\ Spot(h, p) = Base(h, p) /\ Content(h) = h.file
        BY <1>3, <2>5, <3>1, AheadIsLeft DEF AheadOf
    <3>3. PICK k \in Nat : k = Len(got)
        BY <2>13, LenProperties
    <3>4. PICK q : q = Remaining(p, k)
        OBVIOUS
    <3>5. /\ q \in Nat /\ k <= Len(Left(h)) /\ got = SubSeq(Left(h), 1, k)
          /\ Positioned(g, q) /\ Back(g, q) = Drop(Back(h, p), k)
          /\ Base(g, q) = IF k > p THEN Base(h, p) + k - p ELSE Base(h, p)
          /\ Left(g) = <<>> => k = Len(Left(h))
        BY <1>3, <2>5, <2>13, <3>1, <3>3, <3>4, AdvancedEnds
    <3>6. Spot(g, q) = Base(g, q) /\ Content(g) = g.file /\ g.file = h.file
        BY <2>13, <3>1, <3>5, AheadIsLeft DEF Advanced
    <3>7. k < n => g.eof \/ g.error
      <4>1. k < n => m > 0
          BY <2>13, <3>3
      <4>2. QED
          BY <2>11, <2>12, <4>1
    <3>8. g.eof /\ ~ f.eof => k = Len(Left(h)) \/ g.error
        BY <1>3, <2>2, <2>11, <2>12, <2>15, <3>5 DEF AtEnd
    <3>9. QED
        BY <2>13, <3>1, <3>2, <3>3, <3>4, <3>5, <3>6, <3>7, <3>8, Zenon DEF Fed
  <2>16. QED
      BY <2>12, <2>13, <2>14, <2>15
<1>6. QED
    BY <1>3, <1>4, <1>5

LEMMA FreadUnbufferedIs ==
    ASSUME NEW f, Sane(f), f.buffer = Unbuffered, NEW p \in Nat, Positioned(f, p),
           NEW n \in Nat, n > 0, NEW r \in ReadData(f, n)
    PROVE  Sane(r[1]) /\ Like(r[1], f) /\ r[2] \in Seq(Byte) /\ (r[1].torn \/ Fed(r[1], r[2], n, f, p))
<1>1. PICK c \in Seq(Byte), t \in Nat : c = f.file /\ t = f.off
    BY DEF Sane, StreamType
<1>2. PICK left \in Seq(Byte) : left = Drop(c, t)
    BY DropIs
<1>3. PICK g : g = r[1]
    OBVIOUS
<1>4. /\ Moved(g, f)
      /\ Failed(r, f) \/ \E k \in 0 .. Len(left) : Came(r, f, left, k, n, n)
  <2>1. r \in ReadLoop(f, n, n) /\ left = Drop(f.file, f.off)
      BY <1>1, <1>2 DEF ReadData
  <2>2. QED
      BY <1>3, <2>1, ReadLoopIs
<1>5. /\ Sane(g) /\ Like(g, f) /\ g.buffer = f.buffer /\ g.bufpos = f.bufpos /\ g.bufeof = f.bufeof
      /\ g.writing = f.writing /\ g.file = f.file
    BY <1>4 DEF Moved
<1>6. /\ ~ Reading(f) /\ ~ Reading(g) /\ ~ Staging(f) /\ ~ Staging(g) /\ p = 0
      /\ Content(f) = c /\ Content(g) = c /\ Spot(f, p) = t /\ Spot(g, 0) = g.off
      /\ Back(f, p) = <<>> /\ Back(g, 0) = <<>> /\ Positioned(g, 0)
    BY <1>1, <1>5 DEF Reading, Staging, Positioned, Content, Spot, Back
<1>7. CASE Failed(r, f)
  <2>1. r[2] = <<>> /\ g.error /\ g.eof = f.eof /\ (g.torn \/ g.off = t)
      BY <1>1, <1>3, <1>7 DEF Failed
  <2>2. ~ g.torn => Fed(g, <<>>, n, f, p)
      BY <1>6, <2>1, FedNone
  <2>3. <<>> \in Seq(Byte)
      BY EmptySeq
  <2>4. QED
      BY <1>3, <1>5, <2>1, <2>2, <2>3
<1>8. ASSUME NEW k \in 0 .. Len(left), Came(r, f, left, k, n, n)
      PROVE  r[2] \in Seq(Byte) /\ Fed(g, r[2], n, f, p)
  <2>1. /\ r[3] = k /\ r[2] = SubSeq(left, 1, k) /\ k <= n /\ g.off = t + k
        /\ k < n => g.eof \/ g.error
        /\ g.eof /\ ~ f.eof => g.error \/ (k < n /\ (k = Len(left) \/ k = n))
      BY <1>1, <1>3, <1>8 DEF Came
  <2>2. PICK x \in Seq(Byte) : x = SubSeq(left, 1, k) /\ Len(x) = k /\ x = r[2]
      BY ZenonT(60), <2>1, FrontIs
  <2>3. k \in Nat /\ k <= Len(left)
      BY LenProperties
  <2>4. AheadOf(f, p) = left
    <3>1. <<>> \o left = left
        BY ConcatEmptySeq
    <3>2. QED
        BY <1>2, <1>6, <3>1 DEF AheadOf
  <2>5. Remaining(0, k) = 0
    <3>1. k <= 0 => 0 - k = 0
        BY <2>3
    <3>2. QED
        BY <3>1 DEF Remaining
  <2>6. Drop(<<>>, k) = <<>>
    <3>1. PICK e \in Seq(Byte) : e = <<>> /\ Len(e) = 0
        BY EmptySeq
    <3>2. Drop(e, k) \in Seq(Byte) /\ Len(Drop(e, k)) = IF k <= Len(e) THEN Len(e) - k ELSE 0
        BY <2>3, DropIs
    <3>3. Len(Drop(e, k)) = 0
        BY <2>3, <3>1, <3>2
    <3>4. QED
        BY <3>1, <3>2, <3>3, EmptyIs
  <2>7. t + k = IF k > 0 THEN t + k - 0 ELSE t
      BY <2>3
  <2>8. g.eof /\ ~ f.eof => k = Len(left) \/ g.error
    <3>1. k < n => k # n
        BY <2>3
    <3>2. QED
        BY <2>1, <3>1
  <2>9. Fed(g, x, n, f, p)
      BY <1>6, <2>1, <2>2, <2>3, <2>4, <2>5, <2>6, <2>7, <2>8, Zenon DEF Fed
  <2>10. QED
      BY <2>2, <2>9
<1>9. QED
    BY <1>3, <1>4, <1>5, <1>7, <1>8

LEMMA FreadOutcomesAre ==
    ASSUME StreamInv, ~ s.torn, NEW n \in Nat, n > 0, NEW c \in FreadOutcomes(s, n)
    PROVE  Sane(c.f) /\ Like(c.f, s) /\ c.got \in Seq(Byte) /\ (c.f.torn \/ Fed(c.f, c.got, n, s, pushed))
<1>1. Sane(s) /\ pushed \in Nat /\ Positioned(s, pushed)
    BY Here
<1>2. CASE s.buffer = Unbuffered
  <2>1. PICK r \in ReadData(s, n) : c = [f |-> r[1], got |-> r[2]]
      BY <1>2, Zenon DEF FreadOutcomes
  <2>2. c.f = r[1] /\ c.got = r[2]
      BY <2>1
  <2>3. QED
      BY <1>1, <1>2, <2>2, FreadUnbufferedIs
<1>3. CASE s.buffer # Unbuffered /\ s.mode = "w"
  <2>1. c = [f |-> [s EXCEPT !.error = TRUE], got |-> <<>>]
      BY <1>3 DEF FreadOutcomes
  <2>2. PICK g : g = [s EXCEPT !.error = TRUE]
      OBVIOUS
  <2>3. c.f = g /\ c.got = <<>> /\ <<>> \in Seq(Byte)
      BY <2>1, <2>2, EmptySeq
  <2>4. Sane(g) /\ Like(g, s) /\ SameBuffer(g, s) /\ g.error = TRUE /\ g.file = s.file /\ g.off = s.off
      BY <1>1, <2>2, MarkIs
  <2>5. Still(g, s) /\ g.eof = s.eof
      BY <2>4 DEF Still, SameBuffer
  <2>6. /\ Positioned(g, pushed) /\ Content(g) = Content(s)
        /\ Spot(g, pushed) = Spot(s, pushed) /\ Back(g, pushed) = Back(s, pushed)
      BY <1>1, <2>4, <2>5, StillIs
  <2>7. Fed(g, <<>>, n, s, pushed)
      BY <1>1, <2>4, <2>5, <2>6, FedNone
  <2>8. QED
      BY <2>3, <2>4, <2>7
<1>4. CASE s.buffer # Unbuffered /\ s.mode # "w"
  <2>1. c \in FreadBuffered(s, n)
      BY <1>4 DEF FreadOutcomes
  <2>2. QED
      BY <1>1, <1>4, <2>1, FreadBufferedIs
<1>5. QED
    BY <1>2, <1>3, <1>4

\* The end of a call that reads
LEMMA FedDone ==
    ASSUME StreamInv, ~ s.torn, NEW g, Sane(g), Like(g, s), NEW got \in Seq(Byte), NEW n \in Nat,
           g.torn \/ Fed(g, got, n, s, pushed), NEW q \in Nat, q = Remaining(pushed, Len(got)),
           NEW e, e.op = "read", e.asked = n, e.bytes = got, Done(g, q, e)
    PROVE  StreamInv' /\ Abstract!Next
<1>1. PICK m \in Nat : m = Min({q, UnreadOf(g)})
    BY UnreadIs
<1>2. ~ g.torn => Positioned(g, q) /\ m = q
    BY <1>1, UnreadIs DEF Fed
<1>3. /\ StreamInv' /\ res' = e
      /\ s'.seekable = g.seekable /\ s'.torn = g.torn /\ s'.error = g.error /\ s'.eof = g.eof
      /\ ~ g.torn => FileContent' = Content(g) /\ FileBase' = Spot(g, m) /\ FileBack' = Back(g, m)
  <2>1. g.torn \/ Positioned(g, m)
      BY <1>2
  <2>2. QED
      BY <1>1, <2>1, DoneIs
<1>4. s'.seekable = s.seekable
    BY <1>3 DEF Like
<1>5. CASE g.torn
    BY <1>3, <1>4, <1>5, AbstractStep
<1>6. CASE ~ g.torn
  <2>1. PICK k \in Nat : k = Len(got)
      BY LenProperties
  <2>2. PICK a \in Seq(Byte) : a = AheadOf(s, pushed)
      BY Here, AheadOfIs
  <2>3. /\ k <= Len(a) /\ got = SubSeq(a, 1, k) /\ Back(g, q) = Drop(Back(s, pushed), k)
        /\ Content(g) = Content(s)
        /\ Spot(g, q) = IF k > pushed THEN Spot(s, pushed) + k - pushed ELSE Spot(s, pushed)
        /\ k < n => g.eof \/ g.error
        /\ g.eof /\ ~ s.eof => k = Len(a) \/ g.error
      BY <1>6, <2>1, <2>2, Zenon DEF Fed
  <2>4. a = FileBack \o SubSeq(FileContent, FileBase + 1, Len(FileContent))
      BY <2>2, Here DEF AheadOf, Drop
  <2>5. res'.op = "read" /\ res'.asked = n /\ res'.bytes = got
      BY <1>3
  <2>6. /\ FileContent' = FileContent /\ FileBack' = Drop(FileBack, k)
        /\ FileBase' = IF k > Len(FileBack) THEN FileBase + k - Len(FileBack) ELSE FileBase
    <3>1. FileContent' = Content(g) /\ FileBase' = Spot(g, q) /\ FileBack' = Back(g, q)
        BY <1>2, <1>3, <1>6
    <3>2. /\ FileContent = Content(s) /\ FileBase = Spot(s, pushed) /\ FileBack = Back(s, pushed)
          /\ Len(FileBack) = pushed
        BY Here
    <3>3. QED
        BY <2>3, <3>1, <3>2, Zenon
  <2>7. /\ k = Len(res'.bytes) /\ res'.bytes = SubSeq(a, 1, k)
        /\ k < res'.asked => s'.eof \/ s'.error
        /\ s'.eof /\ ~ s.eof => k = Len(a) \/ s'.error
      BY <1>3, <2>1, <2>3, <2>5
  <2>8. Abstract!Read
      BY <2>3, <2>4, <2>5, <2>6, <2>7, AbstractRead
  <2>9. QED
      BY <1>3, <1>4, <2>8, AbstractStep
<1>7. QED
    BY <1>5, <1>6

LEMMA FreadKeeps ==
    ASSUME StreamInv, ~ s.torn, NEW n \in Nat, n > 0, Fread(n)
    PROVE  StreamInv' /\ Abstract!Next
<1>1. PICK c \in FreadOutcomes(s, n) :
         Done(c.f, Max({0, pushed - Len(c.got)}), [op |-> "read", asked |-> n, bytes |-> c.got])
    BY DEF Fread
<1>2. PICK g, got : g = c.f /\ got = c.got
    OBVIOUS
<1>3. Sane(g) /\ Like(g, s) /\ got \in Seq(Byte) /\ (g.torn \/ Fed(g, got, n, s, pushed))
    BY <1>2, FreadOutcomesAre
<1>4. PICK p \in Nat, k \in Nat : p = pushed /\ k = Len(got)
    BY <1>3, Here, LenProperties
<1>5. PICK q \in Nat : q = Remaining(p, k) /\ q = Max({0, p - k})
  <2>1. Max({0, p - k}) = IF 0 >= p - k THEN 0 ELSE p - k
      BY MaxOfTwo
  <2>2. CASE k <= p
    <3>1. PICK q \in Nat : q = p - k
        BY <2>2
    <3>2. Max({0, p - k}) = q
        BY <2>1, <3>1
    <3>3. Remaining(p, k) = q
        BY <2>2, <3>1 DEF Remaining
    <3>4. QED
        BY <3>2, <3>3
  <2>3. CASE ~ (k <= p)
    <3>1. Max({0, p - k}) = 0
        BY <2>1, <2>3
    <3>2. Remaining(p, k) = 0
        BY <2>3 DEF Remaining
    <3>3. QED
        BY <3>1, <3>2
  <2>4. QED
      BY <2>2, <2>3
<1>6. PICK e : e = [op |-> "read", asked |-> n, bytes |-> got]
    OBVIOUS
<1>7. e.op = "read" /\ e.asked = n /\ e.bytes = got
    BY <1>6
<1>8. Done(g, q, e)
    BY <1>1, <1>2, <1>4, <1>5, <1>6
<1>9. QED
    BY <1>3, <1>4, <1>5, <1>7, <1>8, FedDone

LEMMA FgetcKeeps ==
    ASSUME StreamInv, ~ s.torn, Fgetc
    PROVE  StreamInv' /\ Abstract!Next
<1>1. CASE ~ s.eof
  <2>1. Fread(1)
      BY <1>1 DEF Fgetc
  <2>2. PICK n \in Nat : n = 1
      OBVIOUS
  <2>3. Fread(n) /\ n > 0
      BY <2>1, <2>2
  <2>4. QED
      BY <2>3, FreadKeeps
<1>2. CASE s.eof
  <2>1. PICK n \in Nat, p \in Nat : n = 1 /\ p = pushed
      BY Here
  <2>2. PICK e : e = [op |-> "read", asked |-> n, bytes |-> <<>>]
      OBVIOUS
  <2>3. Done(s, p, e)
      BY <1>2, <2>1, <2>2 DEF Fgetc
  <2>4. e.op = "read" /\ e.asked = n /\ e.bytes = <<>>
      BY <2>2
  <2>5. <<>> \in Seq(Byte) /\ Len(<<>>) = 0
      BY EmptySeq
  <2>6. p = Remaining(pushed, Len(<<>>))
    <3>1. Remaining(p, 0) = p
        BY DEF Remaining
    <3>2. QED
        BY <2>1, <2>5, <3>1
  <2>7. Fed(s, <<>>, n, s, pushed)
      BY <1>2, Here, FedNone
  <2>8. Like(s, s)
      BY DEF Like
  <2>9. QED
      BY <2>3, <2>4, <2>5, <2>6, <2>7, <2>8, Here, FedDone
<1>3. QED
    BY <1>1, <1>2

-----------------------------------------------------------------------------
(* The stream is a file with one position.                                 *)

LEMMA TextIs ==
    ASSUME StreamAssumption, NEW b \in Texts \cup {<<>>}
    PROVE  b \in Seq(Byte)
<1>1. CASE b = <<>>
    BY <1>1, EmptySeq
<1>2. CASE b \in Texts
  <2>1. b \in Seq(Bytes)
      BY <1>2 DEF StreamAssumption
  <2>2. PICK n \in Nat : n = Len(b)
      BY <2>1, LenProperties
  <2>3. b \in [1 .. n -> Bytes]
      BY <2>1, <2>2, LenProperties
  <2>4. b \in [1 .. n -> Byte]
      BY <2>3 DEF Byte
  <2>5. QED
      BY <2>4, FunctionIsSequence
<1>3. QED
    BY <1>1, <1>2

LEMMA OpenedIs ==
    ASSUME StreamAssumption, NEW mode \in {"r", "w", "rw"}, NEW seekable \in BOOLEAN,
           NEW file \in Seq(Byte), mode = "rw" => seekable,
           NEW f, f = Opened(mode, seekable, file)
    PROVE  /\ Sane(f) /\ Idle(f) /\ f.mode = mode
           /\ mode # "rw" => Sane(Standard(f)) /\ Idle(Standard(f))
<1>1. PICK z \in Nat : z = BufSize
    BY DEF StreamAssumption
<1>2. PICK b \in Seq(Byte) : b = [i \in 1 .. z |-> Hole] /\ Len(b) = z
  <2>1. PICK b : b = [i \in 1 .. z |-> Hole]
      OBVIOUS
  <2>2. b \in [1 .. z -> Byte]
      BY <2>1 DEF Byte
  <2>3. b \in Seq(Byte) /\ Len(b) = z
      BY <2>2, FunctionIsSequence
  <2>4. QED
      BY <2>1, <2>3
<1>3. f = [buffer |-> b, bufsz |-> z, bufpos |-> 0, bufeof |-> 0,
           writing |-> FALSE, line |-> FALSE, error |-> FALSE, eof |-> FALSE,
           mode |-> mode, seekable |-> seekable, file |-> file, off |-> 0, torn |-> FALSE]
    BY <1>1, <1>2 DEF Opened
<1>4. /\ f \in StreamType /\ f.buffer = b /\ f.bufpos = 0 /\ f.bufeof = 0 /\ f.writing = FALSE
      /\ f.mode = mode /\ f.seekable = seekable
  <2>1. 0 \in 0 .. BufSize /\ 0 \in Nat
      BY <1>1
  <2>2. QED
      BY <1>1, <1>2, <1>3, <2>1 DEF StreamType
<1>5. Sane(f) /\ Idle(f)
    BY <1>1, <1>2, <1>4 DEF Sane, Idle
<1>6. ASSUME mode = "r" PROVE Sane(Standard(f)) /\ Idle(Standard(f))
  <2>1. PICK h : h = [f EXCEPT !.bufpos = z, !.bufeof = z]
      OBVIOUS
  <2>2. h = Standard(f)
      BY <1>1, <1>4, <1>6, <2>1 DEF Standard
  <2>3. z \in 0 .. BufSize
      BY <1>1
  <2>4. /\ h \in StreamType /\ h.buffer = b /\ h.bufpos = z /\ h.bufeof = z /\ h.writing = FALSE
        /\ h.mode = mode /\ h.seekable = seekable
      BY <1>4, <2>1, <2>3 DEF StreamType
  <2>5. Sane(h) /\ Idle(h)
      BY <1>1, <1>2, <1>6, <2>4 DEF Sane, Idle
  <2>6. QED
      BY <2>2, <2>5
<1>7. ASSUME mode = "w" PROVE Sane(Standard(f)) /\ Idle(Standard(f))
  <2>1. PICK h : h = [f EXCEPT !.writing = TRUE]
      OBVIOUS
  <2>2. h = Standard(f)
      BY <1>4, <1>7, <2>1 DEF Standard
  <2>3. /\ h \in StreamType /\ h.buffer = b /\ h.bufpos = 0 /\ h.bufeof = 0 /\ h.writing = TRUE
        /\ h.mode = mode /\ h.seekable = seekable
      BY <1>4, <2>1 DEF StreamType
  <2>4. Sane(h) /\ Idle(h)
      BY <1>1, <1>2, <1>7, <2>3 DEF Sane, Idle
  <2>5. QED
      BY <2>2, <2>4
<1>8. QED
    BY <1>4, <1>5, <1>6, <1>7

LEMMA StartIs ==
    ASSUME StreamAssumption, FileInit
    PROVE  StreamInv /\ s.file = FileContent /\ FileBack = <<>>
<1>1. PICK mode \in {"r", "w", "rw"}, seekable \in BOOLEAN, file \in Texts \cup {<<>>} :
         /\ mode = "rw" => seekable
         /\ s \in {Opened(mode, seekable, file)}
               \cup (IF mode = "rw" THEN {} ELSE {Standard(Opened(mode, seekable, file))})
    BY Zenon DEF FileInit
<1>2. PICK f : f = Opened(mode, seekable, file)
    OBVIOUS
<1>3. file \in Seq(Byte)
    BY TextIs
<1>4. /\ Sane(f) /\ Idle(f)
      /\ mode # "rw" => Sane(Standard(f)) /\ Idle(Standard(f))
    BY <1>1, <1>2, <1>3, OpenedIs
<1>5. s = f \/ (mode # "rw" /\ s = Standard(f))
    BY <1>1, <1>2
<1>6. Sane(s) /\ Idle(s)
    BY <1>4, <1>5
<1>7. PICK p \in Nat : p = 0 /\ p = pushed
    BY DEF FileInit
<1>8. Content(s) = s.file /\ Back(s, pushed) = <<>> /\ Positioned(s, pushed)
    BY <1>6, <1>7, IdleIs
<1>9. FileContent = Content(s) /\ FileBack = Back(s, pushed)
    BY <1>6, <1>7, <1>8, ShownIs
<1>10. QED
    BY <1>6, <1>7, <1>8, <1>9 DEF StreamInv

LEMMA CallsKeep ==
    ASSUME StreamAssumption, StreamInv, FileNext
    PROVE  StreamInv' /\ Abstract!Next
<1>1. ~ s.torn
    BY DEF FileNext
<1>2. ASSUME NEW n \in 1 .. MaxCall, Fread(n) PROVE StreamInv' /\ Abstract!Next
  <2>1. MaxCall \in Nat
      BY DEF StreamAssumption
  <2>2. n \in Nat /\ n > 0
      BY <2>1
  <2>3. QED
      BY <1>1, <1>2, <2>2, FreadKeeps
<1>3. CASE Fgetc
    BY <1>1, <1>3, FgetcKeeps
<1>4. ASSUME NEW b \in Texts, Fwrite(b) PROVE StreamInv' /\ Abstract!Next
  <2>1. b \in Seq(Byte)
      BY TextIs
  <2>2. QED
      BY <1>1, <1>4, <2>1, FwriteKeeps
<1>5. CASE Fflush
    BY <1>1, <1>5, FflushKeeps
<1>6. ASSUME NEW d \in Offsets, Fseek("set", d) PROVE StreamInv' /\ Abstract!Next
  <2>1. d \in Int
      BY DEF StreamAssumption
  <2>2. QED
      BY <1>1, <1>6, <2>1, FseekKeeps
<1>7. ASSUME NEW d \in {-1, 1}, Fseek("cur", d) PROVE StreamInv' /\ Abstract!Next
  <2>1. d \in Int
      OBVIOUS
  <2>2. QED
      BY <1>1, <1>7, <2>1, FseekKeeps
<1>8. CASE Fseek("end", 0)
    BY <1>1, <1>8, FseekKeeps
<1>9. CASE Ftell
    BY <1>1, <1>9, FtellKeeps
<1>10. ASSUME Readable(s), NEW c \in Bytes, Ungetc(c) PROVE StreamInv' /\ Abstract!Next
  <2>1. c \in Byte
      BY DEF Byte
  <2>2. QED
      BY <1>1, <1>10, <2>1, UngetcKeeps
<1>11. CASE Clearerr
    BY <1>1, <1>11, ClearerrKeeps
<1>12. ASSUME NEW mode \in {"none", "line", "full"}, Setvbuf(mode) PROVE StreamInv' /\ Abstract!Next
    BY <1>1, <1>12, SetvbufKeeps
<1>13. Calls
    BY DEF FileNext
<1>14. QED
    BY <1>2, <1>3, <1>4, <1>5, <1>6, <1>7, <1>8, <1>9, <1>10, <1>11, <1>12, <1>13, Zenon DEF Calls

LEMMA StreamStep ==
    ASSUME StreamAssumption, StreamInv, [FileNext]_fileVars
    PROVE  StreamInv' /\ [Abstract!Next]_Abstract!vars
<1>1. CASE FileNext
    BY <1>1, CallsKeep
<1>2. CASE UNCHANGED fileVars
  <2>1. UNCHANGED <<s, pushed, res>>
      BY <1>2 DEF fileVars
  <2>2. StreamInv'
      BY <2>1 DEF StreamInv
  <2>3. UNCHANGED Abstract!vars
      BY <2>1 DEF Abstract!vars, Buffering, Staged, Unread
  <2>4. QED
      BY <2>2, <2>3
<1>3. QED
    BY <1>1, <1>2

\* The cursors and the direction of the buffer, what was read ahead of the
\* descriptor's place, and what was pushed back agree after every call of
\* stdio/file.c, for any size of the buffer and of the calls.
THEOREM StreamCorrect == ASSUME StreamAssumption PROVE FileSpec => []StreamInv
<1>1. FileInit => StreamInv
    BY StartIs
<1>2. StreamInv /\ [FileNext]_fileVars => StreamInv'
    BY StreamStep
<1>3. QED
    BY <1>1, <1>2, PTL DEF FileSpec

\* Every call of stdio/file.c does to the file, to the position, to the pushed
\* back characters and to the two indicators what AbstractFile promises of it,
\* whatever the descriptor answers and whichever calls came before.
THEOREM FileImplemented == ASSUME StreamAssumption PROVE FileSpec => ImplementsFile
<1>1. FileInit => StreamInv /\ s.file = FileContent /\ FileBack = <<>>
    BY StartIs
<1>2. s.file = FileContent /\ FileBack = <<>> => Abstract!Init
    BY DEF FileContent, FileBack, Abstract!Init
<1>3. StreamInv /\ [FileNext]_fileVars => StreamInv' /\ [Abstract!Next]_Abstract!vars
    BY StreamStep
<1>4. QED
    BY <1>1, <1>2, <1>3, PTL DEF FileSpec, ImplementsFile, Abstract!Spec
=============================================================================
