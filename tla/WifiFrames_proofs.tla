------------------------- MODULE WifiFrames_proofs -------------------------
(***************************************************************************)
(* Theorems about WifiFrames, for every size of the receive buffer, of a   *)
(* write and of the texts, and every number of sound and damaged frames:   *)
(* the buffer is not overrun, the commands are handled as FrameQueue says, *)
(* and what damage costs is bounded.                                       *)
(***************************************************************************)
EXTENDS WifiFrames, SequenceTheorems, WellFoundedInduction, TLAPS

Byte == {J, L, End, Text}
Content(id, b) == <<Length(Len(b) + 1), Command(id)>> \o b

-----------------------------------------------------------------------------
(* Cells and frames.                                                       *)

LEMMA Cells ==
  /\ Byte \subseteq Plain /\ Plain \subseteq Cell
  /\ \A n \in Nat : Length(n) \in Plain /\ Command(n) \in Plain
  /\ \A c \in Seq(Plain) : Crc(c) \in Cell
  BY DEF Byte, Plain, Cell, J, L, End, Text, Length, Command, Crc

LEMMA Distinct ==
  /\ J # L /\ J # End /\ L # End /\ Text # End /\ Text # J
  /\ \A x : Crc(x) \notin Byte /\ Crc(x)[2] = x /\ Command(x)[2] = x
  /\ \A x, y : Length(x) # Crc(y) /\ Command(x) # Crc(y)
  /\ \A x, y : Length(x) # End /\ Command(x) # End
  /\ \A x, y : Length(x) = Length(y) => x = y
  BY DEF Byte, J, L, End, Text, Length, Command, Crc

\* A concatenation, part by part.
Joins(S, s, t, r) ==
  /\ r \in Seq(S)
  /\ Len(s) \in Nat /\ Len(t) \in Nat /\ Len(r) = Len(s) + Len(t)
  /\ \A q \in 1 .. Len(s) : r[q] = s[q]
  /\ \A q \in 1 .. Len(t) : r[Len(s) + q] = t[q]

LEMMA Joined ==
  ASSUME NEW S, NEW s \in Seq(S), NEW t \in Seq(S), NEW r, r = s \o t
  PROVE  Joins(S, s, t, r)
<1>1. Len(s) \in Nat /\ Len(t) \in Nat
  BY LenProperties
<1>2. r \in Seq(S) /\ Len(r) = Len(s) + Len(t)
  BY ConcatProperties
<1>3. \A i \in 1 .. Len(s) + Len(t) : r[i] = IF i <= Len(s) THEN s[i] ELSE t[i - Len(s)]
  BY ConcatProperties
<1>4. \A q \in 1 .. Len(s) : r[q] = s[q]
  BY <1>1, <1>3
<1>5. ASSUME NEW q \in 1 .. Len(t) PROVE r[Len(s) + q] = t[q]
  <2>1. /\ Len(s) + q \in 1 .. Len(s) + Len(t)
        /\ ~(Len(s) + q <= Len(s)) /\ (Len(s) + q) - Len(s) = q
    BY <1>1
  <2> QED
    BY <1>3, <2>1
<1> QED
  BY <1>1, <1>2, <1>4, <1>5 DEF Joins

\* The n elements of a sequence behind its first m.
Takes(S, s, m, n, t) ==
  /\ t \in Seq(S) /\ Len(t) = n
  /\ \A q \in 1 .. n : t[q] = s[m + q]

LEMMA Taken ==
  ASSUME NEW S, NEW s \in Seq(S), NEW m \in Nat, NEW n \in Nat, m + n <= Len(s)
  PROVE  Takes(S, s, m, n, SubSeq(s, m + 1, m + n))
<1> DEFINE a == m + 1
           b == m + n
           t == SubSeq(s, a, b)
<1>1. a \in Int /\ b \in Int /\ b - a + 1 = n /\ (a <= b <=> n # 0)
  OBVIOUS
<1>2. \A i \in a .. b : s[i] \in S
  <2>1. Len(s) \in Nat
    BY LenProperties
  <2>2. \A i \in a .. b : i \in 1 .. Len(s)
    BY <2>1
  <2> QED
    BY <2>2, ElementOfSeq
<1>3. /\ t \in Seq(S)
      /\ Len(t) = IF a <= b THEN b - a + 1 ELSE 0
      /\ \A i \in 1 .. b - a + 1 : t[i] = s[a + i - 1]
  <2> HIDE DEF a, b
  <2> QED
    BY <1>1, <1>2, SubSeqProperties
<1>4. Len(t) = n
  <2> HIDE DEF t
  <2> QED
    BY <1>1, <1>3
<1>5. ASSUME NEW q \in 1 .. n PROVE t[q] = s[m + q]
  <2>1. q \in 1 .. b - a + 1 /\ a + q - 1 = m + q
    BY <1>1
  <2> HIDE DEF t, a, b
  <2> QED
    BY <1>3, <2>1
<1> QED
  BY <1>3, <1>4, <1>5 DEF Takes

\* What the length bytes of a frame claim, and any other two bytes.
LEMMA Claims ==
  /\ \A n : Claimed(Length(n)) = n + 5
  /\ \A x \in Byte : Claimed(x) = BufMax + 1
  /\ \A x : Claimed(Command(x)) = BufMax + 1 /\ Claimed(Crc(x)) = BufMax + 1
  BY DEF Claimed, Byte, J, L, End, Text, Length, Command, Crc

LEMMA ClaimedNat == \A x \in Cell : Claimed(x) \in Nat /\ Claimed(x) >= 5
  BY FramesAssumption DEF Claimed, Cell, Plain

LEMMA BodyBytes == \A b \in Bodies : b \in Seq(Byte)
  BY BodiesAssumption DEF Byte

Encloses(S, g, c, e, f) ==
  /\ f \in Seq(S) /\ Len(f) = Len(c) + 4
  /\ f[1] = g[1] /\ f[2] = g[2] /\ f[Len(c) + 3] = e[1] /\ f[Len(c) + 4] = e[2]
  /\ \A q \in 1 .. Len(c) : f[2 + q] = c[q]

LEMMA ThreeParts ==
  ASSUME NEW S, NEW g \in Seq(S), NEW c \in Seq(S), NEW e \in Seq(S),
         Len(g) = 2, Len(e) = 2
  PROVE  Encloses(S, g, c, e, g \o c \o e)
<1>1. PICK r : r = g \o c
  OBVIOUS
<1>2. PICK f : f = r \o e
  OBVIOUS
<1>3. Joins(S, g, c, r)
  BY <1>1, Joined
<1>4. r \in Seq(S)
  BY <1>3 DEF Joins
<1>5. Joins(S, r, e, f)
  BY <1>2, <1>4, Joined
<1>6. Len(c) \in Nat /\ Len(r) = 2 + Len(c)
  BY <1>3 DEF Joins
<1>7. f \in Seq(S) /\ Len(f) = Len(c) + 4
  BY <1>5, <1>6 DEF Joins
<1>8. \A q \in 1 .. 2 : f[q] = g[q]
  <2>1. \A q \in 1 .. 2 : r[q] = g[q]
    BY <1>3 DEF Joins
  <2>2. \A q \in 1 .. 2 : f[q] = r[q]
    BY <1>5, <1>6 DEF Joins
  <2> QED
    BY <2>1, <2>2
<1>9. \A q \in 1 .. 2 : f[(2 + Len(c)) + q] = e[q]
  BY <1>5, <1>6 DEF Joins
<1>10. f[Len(c) + 3] = e[1] /\ f[Len(c) + 4] = e[2]
  <2>1. (2 + Len(c)) + 1 = Len(c) + 3 /\ (2 + Len(c)) + 2 = Len(c) + 4
    BY <1>6
  <2> QED
    BY <1>9, <2>1
<1>11. ASSUME NEW q \in 1 .. Len(c) PROVE f[2 + q] = c[q]
  <2>1. r[2 + q] = c[q]
    BY <1>3 DEF Joins
  <2>2. f[2 + q] = r[2 + q]
    BY <1>5, <1>6 DEF Joins
  <2> QED
    BY <2>1, <2>2
<1>12. f = g \o c \o e
  BY <1>1, <1>2
<1> QED
  BY <1>7, <1>8, <1>10, <1>11, <1>12 DEF Encloses

\* A frame cell by cell.
LEMMA FrameCells ==
  ASSUME NEW id \in Nat, NEW b \in Bodies
  PROVE  LET f == Frame(id, b)
             n == Len(b)
             c == Content(id, b) IN
         /\ n \in Nat
         /\ c \in Seq(Plain) /\ Len(c) = n + 2
         /\ c[1] = Length(n + 1) /\ c[2] = Command(id)
         /\ f \in Seq(Cell) /\ Len(f) = n + 6
         /\ f[1] = J /\ f[2] = L /\ f[3] = Length(n + 1) /\ f[4] = Command(id)
         /\ \A q \in 1 .. n : f[4 + q] \in Byte
         /\ f[n + 5] = Crc(c) /\ f[n + 6] = End
         /\ \A q \in 1 .. n + 2 : f[2 + q] = c[q]
<1> DEFINE f == Frame(id, b)
           n == Len(b)
           c == Content(id, b)
           h == <<Length(n + 1), Command(id)>>
           e == <<Crc(c), End>>
<1>1. b \in Seq(Byte) /\ n \in Nat
  BY BodyBytes, LenProperties
<1>2. h \in Seq(Plain) /\ Len(h) = 2 /\ h[1] = Length(n + 1) /\ h[2] = Command(id)
  BY <1>1, Cells
<1>3. b \in Seq(Plain)
  BY <1>1, Cells, SeqMonotonic
<1>4. /\ c \in Seq(Plain) /\ Len(c) = n + 2
      /\ c[1] = Length(n + 1) /\ c[2] = Command(id)
      /\ \A q \in 1 .. n : c[2 + q] = b[q]
  <2>1. Joins(Plain, h, b, c)
    <3>1. c = h \o b
      BY DEF Content
    <3> HIDE DEF h, c
    <3> QED
      BY <1>2, <1>3, <3>1, Joined
  <2> HIDE DEF c, h
  <2>2. c \in Seq(Plain) /\ Len(c) = n + 2
    BY <1>1, <1>2, <2>1 DEF Joins
  <2>3. \A q \in 1 .. 2 : c[q] = h[q]
    BY <1>2, <2>1 DEF Joins
  <2>4. \A q \in 1 .. n : c[2 + q] = b[q]
    BY <1>1, <1>2, <2>1 DEF Joins
  <2> QED
    BY <1>2, <2>2, <2>3, <2>4
<1>5. e \in Seq(Cell) /\ Len(e) = 2 /\ e[1] = Crc(c) /\ e[2] = End
  <2>1. Crc(c) \in Cell /\ End \in Cell
    BY <1>4, Cells DEF Byte
  <2> HIDE DEF c
  <2> QED
    BY <2>1
<1>6. <<J, L>> \in Seq(Cell) /\ Len(<<J, L>>) = 2 /\ <<J, L>>[1] = J /\ <<J, L>>[2] = L
  <2>1. J \in Cell /\ L \in Cell
    BY Cells DEF Byte
  <2> QED
    BY <2>1
<1>7. f = <<J, L>> \o c \o e
  BY DEF Frame, Content
<1>8. c \in Seq(Cell)
  BY <1>4, Cells, SeqMonotonic
<1>9. PICK g \in Seq(Cell) : g = <<J, L>>
  BY <1>6
<1>10. Len(g) = 2 /\ g[1] = J /\ g[2] = L
  BY <1>6, <1>9
<1>11. f = g \o c \o e
  BY <1>7, <1>9
<1>12. /\ f \in Seq(Cell) /\ Len(f) = (n + 2) + 4
       /\ f[1] = J /\ f[2] = L /\ f[(n + 2) + 3] = Crc(c) /\ f[(n + 2) + 4] = End
       /\ \A q \in 1 .. n + 2 : f[2 + q] = c[q]
  <2> HIDE DEF f, c, e
  <2>1. Encloses(Cell, g, c, e, f)
    BY <1>5, <1>8, <1>10, <1>11, ThreeParts
  <2> QED
    BY <1>1, <1>4, <1>5, <1>10, <2>1 DEF Encloses
<1>13. f[3] = Length(n + 1) /\ f[4] = Command(id)
  <2> HIDE DEF c, f
  <2>1. 1 \in 1 .. n + 2 /\ 2 \in 1 .. n + 2 /\ 2 + 1 = 3 /\ 2 + 2 = 4
    BY <1>1
  <2> QED
    BY <1>4, <1>12, <2>1
<1>14. ASSUME NEW q \in 1 .. n PROVE f[4 + q] \in Byte
  <2> HIDE DEF c, f
  <2>1. 2 + q \in 1 .. n + 2 /\ 2 + (2 + q) = 4 + q
    BY <1>1
  <2>2. f[4 + q] = c[2 + q]
    BY <1>12, <2>1
  <2> QED
    BY <1>1, <1>4, <2>2, ElementOfSeq
<1>15. (n + 2) + 3 = n + 5 /\ (n + 2) + 4 = n + 6
  BY <1>1
<1> HIDE DEF c, f
<1> QED
  BY <1>1, <1>4, <1>12, <1>13, <1>14, <1>15 DEF c, f

LEMMA FrameFits ==
  ASSUME NEW b \in Bodies
  PROVE  Len(b) \in Nat /\ Len(b) + 6 <= BufMax
<1>1. Len(b) \in Nat /\ Len(Frame(0, b)) = Len(b) + 6
  BY FrameCells
<1> QED
  BY <1>1, BodiesAssumption

\* Only one cell of a frame is a checksum, only one a length.
LEMMA FrameKinds ==
  ASSUME NEW id \in Nat, NEW b \in Bodies, NEW q \in 1 .. Len(b) + 6
  PROVE  /\ \A x : Frame(id, b)[q] = Crc(x) => q = Len(b) + 5 /\ x = Content(id, b)
         /\ q # 3 => Claimed(Frame(id, b)[q]) = BufMax + 1
<1> DEFINE f == Frame(id, b)
           n == Len(b)
           c == Content(id, b)
<1>1. /\ n \in Nat /\ f[1] = J /\ f[2] = L /\ f[3] = Length(n + 1) /\ f[4] = Command(id)
      /\ \A i \in 1 .. n : f[4 + i] \in Byte
      /\ f[n + 5] = Crc(c) /\ f[n + 6] = End
  BY FrameCells
<1> HIDE DEF f, c, n
<1>2. q = 1 \/ q = 2 \/ q = 3 \/ q = 4 \/ q \in 5 .. n + 4 \/ q = n + 5 \/ q = n + 6
  BY <1>1 DEF n
<1>3. CASE q \in 5 .. n + 4
  <2>1. q - 4 \in 1 .. n /\ 4 + (q - 4) = q
    BY <1>1, <1>3
  <2>2. f[q] \in Byte
    BY <1>1, <2>1
  <2> QED
    BY <1>1, <1>3, <2>2, Distinct, Claims DEF f, n, c
<1>4. CASE q \in {1, 2, 4, n + 6}
  <2>1. f[q] \in Byte \/ f[q] = Command(id)
    BY <1>1, <1>4 DEF Byte
  <2>2. \A x : f[q] # Crc(x)
    BY <2>1, Distinct
  <2>3. Claimed(f[q]) = BufMax + 1
    BY <2>1, Claims
  <2> QED
    BY <2>2, <2>3 DEF f, n, c
<1>5. CASE q = 3
  <2>1. \A x : f[q] # Crc(x)
    BY <1>1, <1>5, Distinct
  <2> QED
    BY <1>5, <2>1 DEF f, n, c
<1>6. CASE q = n + 5
  <2>1. ASSUME NEW x, f[q] = Crc(x) PROVE x = c
    <3>1. Crc(x)[2] = x /\ Crc(c)[2] = c
      BY Distinct
    <3>2. Crc(x) = Crc(c)
      BY <1>1, <1>6, <2>1
    <3> QED
      BY <3>1, <3>2
  <2>2. Claimed(f[q]) = BufMax + 1
    BY <1>1, <1>6, Claims
  <2> QED
    BY <1>6, <2>1, <2>2 DEF f, n, c
<1> QED
  BY <1>2, <1>3, <1>4, <1>5, <1>6

\* Whatever the phone sends starts like a frame.
LEMMA DamagedCells ==
  ASSUME NEW f \in DamagedFrames
  PROVE  /\ f \in Seq(Cell) /\ Len(f) >= 1 /\ f[1] = J
         /\ \E b \in Bodies :
              LET n == Len(b) IN
              /\ Len(f) <= n + 6
              /\ \/ /\ Len(f) < n + 6
                    /\ \A q \in 1 .. Len(f) : f[q] = Frame(0, b)[q]
                 \/ /\ \A q \in 1 .. n + 6 : q # 3 => f[q] = Frame(0, b)[q]
                    /\ f[3] # Length(n + 1) /\ \A x : f[3] # Crc(x)
                 \/ /\ \A q \in 1 .. n + 6 : q # n + 5 => f[q] = Frame(0, b)[q]
                    /\ f[n + 5] = Crc(<<>>)
                 \/ /\ \A q \in 1 .. n + 6 : q # n + 6 => f[q] = Frame(0, b)[q]
                    /\ f[n + 6] # End
<1>1. PICK b \in Bodies :
        LET g == Frame(0, b) IN
        \/ \E k \in 1 .. Len(g) - 1 : f = SubSeq(g, 1, k)
        \/ \E n \in (0 .. BufMax) \ {Len(b) + 1} : f = [g EXCEPT ![3] = Length(n)]
        \/ f = [g EXCEPT ![Len(g) - 1] = Crc(<<>>)]
        \/ f = [g EXCEPT ![Len(g)] = Text]
  BY DEF DamagedFrames
<1> DEFINE g == Frame(0, b)
           n == Len(b)
<1>2. n \in Nat /\ g \in Seq(Cell) /\ Len(g) = n + 6 /\ g[1] = J /\ 3 \in 1 .. n + 6
  BY FrameCells
<1> HIDE DEF g, n
<1>3. ASSUME NEW k \in 1 .. Len(g) - 1, f = SubSeq(g, 1, k)
      PROVE  /\ f \in Seq(Cell) /\ Len(f) = k /\ k < n + 6 /\ 1 <= k
             /\ \A q \in 1 .. Len(f) : f[q] = g[q]
  <2>1. k \in Nat /\ 1 <= k /\ k < n + 6 /\ 0 + k <= Len(g) /\ 0 + 1 = 1 /\ 0 + k = k
    BY <1>2
  <2>2. Takes(Cell, g, 0, k, SubSeq(g, 0 + 1, 0 + k))
    BY <1>2, <2>1, Taken
  <2>3. Takes(Cell, g, 0, k, f)
    BY <1>3, <2>1, <2>2
  <2>4. f \in Seq(Cell) /\ Len(f) = k /\ \A q \in 1 .. k : f[q] = g[0 + q]
    BY <2>3 DEF Takes
  <2>5. \A q \in 1 .. k : 0 + q = q
    OBVIOUS
  <2>6. \A q \in 1 .. Len(f) : f[q] = g[q]
    BY <2>4, <2>5
  <2> QED
    BY <2>1, <2>4, <2>6
<1>4. ASSUME NEW i \in 1 .. n + 6, NEW e \in Cell, f = [g EXCEPT ![i] = e]
      PROVE  /\ f \in Seq(Cell) /\ Len(f) = n + 6 /\ f[i] = e
             /\ \A q \in 1 .. n + 6 : q # i => f[q] = g[q]
  BY <1>2, <1>4, ExceptSeq
<1>5. CASE \E k \in 1 .. Len(g) - 1 : f = SubSeq(g, 1, k)
  <2>1. PICK k \in 1 .. Len(g) - 1 : f = SubSeq(g, 1, k)
    BY <1>5
  <2>2. /\ f \in Seq(Cell) /\ Len(f) = k /\ k < n + 6 /\ 1 <= k
        /\ \A q \in 1 .. Len(f) : f[q] = g[q]
    BY <1>3, <2>1
  <2>3. 1 \in 1 .. Len(f) /\ Len(f) <= n + 6 /\ Len(f) >= 1
    BY <1>2, <2>2
  <2> QED
    BY <1>2, <2>2, <2>3 DEF g, n
<1>6. CASE \E m \in (0 .. BufMax) \ {n + 1} : f = [g EXCEPT ![3] = Length(m)]
  <2>1. PICK m \in (0 .. BufMax) \ {n + 1} : f = [g EXCEPT ![3] = Length(m)]
    BY <1>6
  <2>2. Length(m) \in Cell
    <3>1. m \in Nat
      BY <2>1, FramesAssumption
    <3> QED
      BY <3>1, Cells
  <2>3. /\ f \in Seq(Cell) /\ Len(f) = n + 6 /\ f[3] = Length(m)
        /\ \A q \in 1 .. n + 6 : q # 3 => f[q] = g[q]
    BY <1>2, <1>4, <2>1, <2>2
  <2>4. f[3] # Length(n + 1) /\ \A x : f[3] # Crc(x)
    BY <2>1, <2>3, Distinct
  <2>5. 1 \in 1 .. n + 6 /\ Len(f) <= n + 6 /\ Len(f) >= 1
    BY <1>2, <2>3
  <2> QED
    BY <1>2, <2>3, <2>4, <2>5 DEF g, n
<1>7. CASE f = [g EXCEPT ![Len(g) - 1] = Crc(<<>>)]
  <2>1. n + 5 \in 1 .. n + 6 /\ Len(g) - 1 = n + 5 /\ 1 \in 1 .. n + 6 /\ 1 # n + 5
    BY <1>2
  <2>2. Crc(<<>>) \in Cell
    BY Cells, EmptySeq
  <2>3. /\ f \in Seq(Cell) /\ Len(f) = n + 6 /\ f[n + 5] = Crc(<<>>)
        /\ \A q \in 1 .. n + 6 : q # n + 5 => f[q] = g[q]
    BY <1>4, <1>7, <2>1, <2>2
  <2>4. Len(f) <= n + 6 /\ Len(f) >= 1
    BY <1>2, <2>3
  <2> QED
    BY <1>2, <2>1, <2>3, <2>4 DEF g, n
<1>8. CASE f = [g EXCEPT ![Len(g)] = Text]
  <2>1. n + 6 \in 1 .. n + 6 /\ Len(g) = n + 6 /\ 1 \in 1 .. n + 6 /\ 1 # n + 6
    BY <1>2
  <2>2. Text \in Cell
    BY Cells DEF Byte
  <2>3. /\ f \in Seq(Cell) /\ Len(f) = n + 6 /\ f[n + 6] = Text
        /\ \A q \in 1 .. n + 6 : q # n + 6 => f[q] = g[q]
    BY <1>4, <1>8, <2>1, <2>2
  <2>4. Len(f) <= n + 6 /\ Len(f) >= 1 /\ f[n + 6] # End
    BY <1>2, <2>3, Distinct
  <2> QED
    BY <1>2, <2>1, <2>3, <2>4 DEF g, n
<1> QED
  BY <1>1, <1>5, <1>6, <1>7, <1>8 DEF g, n

-----------------------------------------------------------------------------
(* Where sound frames end in a stream of cells.                            *)

\* The cell p of s ends a frame whose checksum is that of its content c.
Closes(s, p, c) ==
  /\ c \in Seq(Plain) /\ Len(c) >= 1
  /\ p \in Nat /\ Len(c) + 2 <= p /\ p <= Len(s)
  /\ s[p] = End /\ s[p - 1] = Crc(c)
  /\ \A q \in 1 .. Len(c) : s[(p - 2 - Len(c)) + q] = c[q]

LEMMA ClosesAfter ==
  ASSUME NEW s \in Seq(Cell), NEW m \in 0 .. Len(s), NEW t,
         Takes(Cell, s, m, Len(s) - m, t), NEW p, NEW c, Closes(t, p, c)
  PROVE  Closes(s, m + p, c)
<1>1. /\ Len(s) \in Nat /\ Len(c) \in Nat /\ m \in Nat /\ m <= Len(s)
      /\ Len(t) = Len(s) - m /\ \A q \in 1 .. Len(s) - m : t[q] = s[m + q]
  BY LenProperties DEF Takes, Closes
<1>2. /\ p \in Nat /\ Len(c) + 2 <= p /\ p <= Len(s) - m /\ Len(c) >= 1
  BY <1>1 DEF Closes
<1>3. p \in 1 .. Len(s) - m /\ p - 1 \in 1 .. Len(s) - m /\ m + (p - 1) = (m + p) - 1
  BY <1>1, <1>2
<1>4. s[m + p] = End /\ s[(m + p) - 1] = Crc(c)
  <2>1. t[p] = End /\ t[p - 1] = Crc(c)
    BY DEF Closes
  <2>2. t[p] = s[m + p] /\ t[p - 1] = s[m + (p - 1)]
    BY <1>1, <1>3
  <2> QED
    BY <1>3, <2>1, <2>2
<1>5. ASSUME NEW q \in 1 .. Len(c) PROVE s[((m + p) - 2 - Len(c)) + q] = c[q]
  <2>1. t[(p - 2 - Len(c)) + q] = c[q]
    BY DEF Closes
  <2>2. /\ (p - 2 - Len(c)) + q \in 1 .. Len(s) - m
        /\ m + ((p - 2 - Len(c)) + q) = ((m + p) - 2 - Len(c)) + q
    BY <1>1, <1>2
  <2>3. t[(p - 2 - Len(c)) + q] = s[m + ((p - 2 - Len(c)) + q)]
    BY <1>1, <2>2
  <2> QED
    BY <2>1, <2>2, <2>3
<1>6. m + p \in Nat /\ Len(c) + 2 <= m + p /\ m + p <= Len(s)
  BY <1>1, <1>2
<1> QED
  BY <1>4, <1>5, <1>6 DEF Closes

\* What closes in the first of two parts closed there before.
LEMMA ClosesBefore ==
  ASSUME NEW s \in Seq(Cell), NEW f \in Seq(Cell), NEW r, Joins(Cell, s, f, r),
         NEW p, NEW c, Closes(r, p, c), p <= Len(s)
  PROVE  Closes(s, p, c)
<1>1. Len(s) \in Nat /\ Len(c) \in Nat /\ p \in Nat /\ Len(c) + 2 <= p
  BY LenProperties DEF Closes
<1>2. p \in 1 .. Len(s) /\ p - 1 \in 1 .. Len(s)
  BY <1>1
<1>3. \A q \in 1 .. Len(s) : r[q] = s[q]
  BY DEF Joins
<1>4. s[p] = End /\ s[p - 1] = Crc(c)
  BY <1>2, <1>3 DEF Closes
<1>5. ASSUME NEW q \in 1 .. Len(c) PROVE s[(p - 2 - Len(c)) + q] = c[q]
  <2>1. (p - 2 - Len(c)) + q \in 1 .. Len(s)
    BY <1>1
  <2>2. r[(p - 2 - Len(c)) + q] = c[q]
    BY DEF Closes
  <2> QED
    BY <1>3, <2>1, <2>2
<1> QED
  BY <1>1, <1>4, <1>5 DEF Closes

\* A frame that starts with J: its checksum and end stand in it together.
LEMMA ClosesIn ==
  ASSUME NEW s \in Seq(Cell), NEW f \in Seq(Cell), f[1] = J, Len(f) >= 1,
         NEW r, Joins(Cell, s, f, r), NEW p, NEW c, Closes(r, p, c), p > Len(s)
  PROVE  LET q == p - Len(s) IN
         /\ q \in 2 .. Len(f) /\ p = Len(s) + q
         /\ f[q] = End /\ f[q - 1] = Crc(c)
<1> DEFINE q == p - Len(s)
<1>1. /\ Len(s) \in Nat /\ Len(f) \in Nat /\ Len(r) = Len(s) + Len(f)
      /\ \A i \in 1 .. Len(f) : r[Len(s) + i] = f[i]
  BY DEF Joins
<1>2. p \in Nat /\ p <= Len(s) + Len(f) /\ r[p] = End /\ r[p - 1] = Crc(c)
  BY <1>1 DEF Closes
<1>3. q \in 1 .. Len(f) /\ p = Len(s) + q
  BY <1>1, <1>2
<1>4. f[q] = End
  BY <1>1, <1>2, <1>3
<1>5. q # 1
  BY <1>4, Distinct
<1>6. q - 1 \in 1 .. Len(f) /\ Len(s) + (q - 1) = p - 1 /\ q \in 2 .. Len(f)
  BY <1>1, <1>3, <1>5
<1>7. f[q - 1] = Crc(c)
  BY <1>1, <1>2, <1>6
<1> QED
  BY <1>3, <1>4, <1>6, <1>7

\* A sound frame closes at its end and nowhere else.
LEMMA FrameCloses ==
  ASSUME NEW s \in Seq(Cell), NEW id \in Nat, NEW b \in Bodies,
         NEW r, Joins(Cell, s, Frame(id, b), r), NEW p, NEW c, Closes(r, p, c)
  PROVE  (Closes(s, p, c) /\ p <= Len(s)) \/ (p = Len(r) /\ c = Content(id, b))
<1> DEFINE f == Frame(id, b)
<1>1. f \in Seq(Cell) /\ f[1] = J /\ Len(b) \in Nat /\ Len(f) = Len(b) + 6
  BY FrameCells
<1>2. CASE p <= Len(s)
  BY <1>1, <1>2, ClosesBefore
<1>3. CASE p > Len(s)
  <2> DEFINE q == p - Len(s)
  <2>1. q \in 2 .. Len(f) /\ p = Len(s) + q /\ f[q - 1] = Crc(c)
    <3>1. Len(f) >= 1
      BY <1>1
    <3> HIDE DEF f
    <3> QED
      BY <1>1, <1>3, <3>1, ClosesIn DEF f
  <2>2. q - 1 \in 1 .. Len(b) + 6
    BY <1>1, <2>1
  <2>3. q - 1 = Len(b) + 5 /\ c = Content(id, b)
    BY <2>1, <2>2, FrameKinds
  <2>4. p = Len(r)
    <3>1. Len(r) = Len(s) + Len(f) /\ Len(s) \in Nat
      BY DEF Joins
    <3> QED
      BY <1>1, <2>1, <2>3, <3>1
  <2> QED
    BY <2>3, <2>4
<1>4. p \in Nat /\ Len(s) \in Nat
  BY DEF Closes, Joins
<1> QED
  BY <1>2, <1>3, <1>4

\* A damaged frame closes nowhere.
LEMMA DamagedCloses ==
  ASSUME NEW s \in Seq(Cell), NEW f \in DamagedFrames,
         NEW r, Joins(Cell, s, f, r), NEW p, NEW c, Closes(r, p, c)
  PROVE  Closes(s, p, c) /\ p <= Len(s)
<1>1. f \in Seq(Cell) /\ Len(f) >= 1 /\ f[1] = J /\ Len(f) \in Nat
  BY DamagedCells, LenProperties
<1>2. CASE p <= Len(s)
  BY <1>1, <1>2, ClosesBefore
<1>3. CASE p > Len(s)
  <2> DEFINE q == p - Len(s)
  <2>1. q \in 2 .. Len(f) /\ p = Len(s) + q /\ f[q] = End /\ f[q - 1] = Crc(c)
    BY <1>1, <1>3, ClosesIn
  <2>2. Len(c) \in Nat /\ Len(c) >= 1
    BY LenProperties DEF Closes
  <2>3. PICK b \in Bodies :
         LET n == Len(b) IN
         /\ Len(f) <= n + 6
         /\ \/ /\ Len(f) < n + 6
               /\ \A i \in 1 .. Len(f) : f[i] = Frame(0, b)[i]
            \/ /\ \A i \in 1 .. n + 6 : i # 3 => f[i] = Frame(0, b)[i]
               /\ f[3] # Length(n + 1) /\ \A x : f[3] # Crc(x)
            \/ /\ \A i \in 1 .. n + 6 : i # n + 5 => f[i] = Frame(0, b)[i]
               /\ f[n + 5] = Crc(<<>>)
            \/ /\ \A i \in 1 .. n + 6 : i # n + 6 => f[i] = Frame(0, b)[i]
               /\ f[n + 6] # End
    BY DamagedCells
  <2> DEFINE n == Len(b)
             g == Frame(0, b)
  <2>4. n \in Nat /\ Content(0, b)[1] = Length(n + 1) /\ Len(Content(0, b)) = n + 2
    BY FrameCells
  <2>5. q - 1 \in 1 .. Len(f) /\ q - 1 \in 1 .. n + 6
    BY <1>1, <2>1, <2>3, <2>4
  <2>6. g[q - 1] = Crc(c) => q - 1 = n + 5 /\ c = Content(0, b)
    BY <2>5, FrameKinds
  <2> HIDE DEF q, n, g
  <2>7. CASE Len(f) < n + 6 /\ \A i \in 1 .. Len(f) : f[i] = g[i]
    <3>1. g[q - 1] = Crc(c)
      BY <2>1, <2>5, <2>7
    <3> QED
      BY <1>1, <2>1, <2>4, <2>6, <2>7, <3>1
  <2>8. CASE /\ \A i \in 1 .. n + 6 : i # 3 => f[i] = g[i]
             /\ f[3] # Length(n + 1) /\ \A x : f[3] # Crc(x)
    <3>1. q - 1 # 3
      BY <2>1, <2>8
    <3>2. q - 1 = n + 5 /\ c = Content(0, b)
      BY <2>1, <2>5, <2>6, <2>8, <3>1
    <3>3. 1 \in 1 .. Len(c) /\ (p - 2 - Len(c)) + 1 = Len(s) + 3 /\ 3 \in 1 .. Len(f)
      <4>1. Len(s) \in Nat
        BY LenProperties
      <4> QED
        BY <1>1, <2>1, <2>4, <3>2, <4>1
    <3>4. r[(p - 2 - Len(c)) + 1] = c[1]
      BY <3>3 DEF Closes
    <3>5. r[Len(s) + 3] = f[3]
      BY <3>3 DEF Joins
    <3> QED
      BY <2>4, <2>8, <3>2, <3>3, <3>4, <3>5
  <2>9. CASE /\ \A i \in 1 .. n + 6 : i # n + 5 => f[i] = g[i]
             /\ f[n + 5] = Crc(<<>>)
    <3>1. q - 1 = n + 5
      BY <2>1, <2>5, <2>6, <2>9
    <3>2. Crc(c) = Crc(<<>>)
      BY <2>1, <2>9, <3>1
    <3>3. c = <<>>
      BY <3>2, Distinct
    <3> QED
      BY <2>2, <3>3
  <2>10. CASE /\ \A i \in 1 .. n + 6 : i # n + 6 => f[i] = g[i]
              /\ f[n + 6] # End
    <3>1. q # n + 6
      BY <2>1, <2>10
    <3>2. q - 1 # n + 6
      BY <1>1, <2>1, <2>3, <2>4 DEF n
    <3>3. q - 1 = n + 5
      BY <2>1, <2>5, <2>6, <2>10, <3>2
    <3> QED
      BY <2>4, <3>1, <3>3, <2>1
  <2> QED
    BY <2>3, <2>7, <2>8, <2>9, <2>10 DEF n, g
<1>4. p \in Nat /\ Len(s) \in Nat
  BY DEF Closes, Joins
<1> QED
  BY <1>2, <1>3, <1>4

LEMMA ClosesWider ==
  ASSUME NEW s \in Seq(Cell), NEW f, NEW r, Joins(Cell, s, f, r), NEW p, NEW c, Closes(s, p, c)
  PROVE  Closes(r, p, c)
<1>1. /\ Len(s) \in Nat /\ Len(f) \in Nat /\ Len(r) = Len(s) + Len(f)
      /\ \A i \in 1 .. Len(s) : r[i] = s[i]
  BY DEF Joins
<1>2. p \in Nat /\ Len(c) \in Nat /\ Len(c) + 2 <= p /\ p <= Len(s) /\ p <= Len(r)
  BY <1>1, LenProperties DEF Closes
<1>3. p \in 1 .. Len(s) /\ p - 1 \in 1 .. Len(s)
  BY <1>1, <1>2
<1>4. r[p] = End /\ r[p - 1] = Crc(c)
  BY <1>1, <1>3 DEF Closes
<1>5. ASSUME NEW q \in 1 .. Len(c) PROVE r[(p - 2 - Len(c)) + q] = c[q]
  <2>1. (p - 2 - Len(c)) + q \in 1 .. Len(s)
    BY <1>1, <1>2
  <2> QED
    BY <1>1, <2>1 DEF Closes
<1> QED
  BY <1>2, <1>4, <1>5 DEF Closes

LEMMA CrcContent == \A x : Crc(x) \in Cell => x \in Seq(Plain)
<1>1. ASSUME NEW x, Crc(x) \in Cell PROVE x \in Seq(Plain)
  <2>1. <<"crc", x>> \notin Plain
    BY DEF Plain
  <2>2. <<"crc", x>> \in {"crc"} \X Seq(Plain)
    BY <1>1, <2>1 DEF Cell, Crc
  <2> QED
    BY <2>2
<1> QED
  BY <1>1

\* The check of wifi_process_frames: a frame it accepts closes where it ends.
LEMMA SoundCloses ==
  ASSUME NEW s \in Seq(Cell), NEW m \in 5 .. Len(s), Sound(SubSeq(s, 1, m))
  PROVE  \E c : Closes(s, m, c) /\ Len(c) = m - 4 /\ \A q \in 1 .. m - 4 : c[q] = s[2 + q]
<1> DEFINE f == SubSeq(s, 1, m)
           c == SubSeq(f, 3, m - 2)
<1>1. Len(s) \in Nat /\ m \in Nat /\ 5 <= m /\ m <= Len(s)
  BY LenProperties
<1>2. f \in Seq(Cell) /\ Len(f) = m /\ \A q \in 1 .. m : f[q] = s[0 + q]
  <2>1. 0 + m <= Len(s) /\ 0 + 1 = 1 /\ 0 + m = m
    BY <1>1
  <2>2. Takes(Cell, s, 0, m, SubSeq(s, 0 + 1, 0 + m))
    BY <1>1, <2>1, Taken
  <2>3. Takes(Cell, s, 0, m, f)
    BY <2>1, <2>2
  <2> HIDE DEF f
  <2> QED
    BY <2>3 DEF Takes
<1>3. c \in Seq(Cell) /\ Len(c) = m - 4 /\ \A q \in 1 .. m - 4 : c[q] = f[2 + q]
  <2>1. 2 + (m - 4) <= Len(f) /\ 2 + 1 = 3 /\ 2 + (m - 4) = m - 2 /\ m - 4 \in Nat
    BY <1>1, <1>2
  <2> HIDE DEF f
  <2>2. Takes(Cell, f, 2, m - 4, SubSeq(f, 2 + 1, 2 + (m - 4)))
    BY <1>2, <2>1, Taken
  <2>3. Takes(Cell, f, 2, m - 4, c)
    BY <2>1, <2>2
  <2> HIDE DEF c
  <2> QED
    BY <2>3 DEF Takes
<1>4. f[m] = End /\ f[m - 1] = Crc(c)
  BY <1>2 DEF Sound
<1> HIDE DEF c, f
<1>5. m \in 1 .. m /\ m - 1 \in 1 .. m /\ 0 + m = m /\ 0 + (m - 1) = m - 1
  BY <1>1
<1>6. s[m] = End /\ s[m - 1] = Crc(c)
  BY <1>2, <1>4, <1>5
<1>7. ASSUME NEW q \in 1 .. m - 4 PROVE c[q] = s[2 + q]
  <2>1. 2 + q \in 1 .. m /\ 0 + (2 + q) = 2 + q
    BY <1>1
  <2> QED
    BY <1>2, <1>3, <2>1
<1>8. c \in Seq(Plain)
  <2>1. m - 1 \in 1 .. Len(s)
    BY <1>1
  <2>2. Crc(c) \in Cell
    BY <1>6, <2>1, ElementOfSeq
  <2> QED
    BY <2>2, CrcContent
<1>9. ASSUME NEW q \in 1 .. Len(c) PROVE s[(m - 2 - Len(c)) + q] = c[q]
  <2>1. q \in 1 .. m - 4 /\ (m - 2 - Len(c)) + q = 2 + q
    BY <1>1, <1>3
  <2> QED
    BY <1>7, <2>1
<1>10. Len(c) >= 1 /\ Len(c) + 2 <= m
  BY <1>1, <1>3
<1>11. Closes(s, m, c)
  BY <1>1, <1>6, <1>8, <1>9, <1>10 DEF Closes
<1> QED
  BY <1>3, <1>7, <1>11

-----------------------------------------------------------------------------
(* The sound frames of the stream s that is being delivered, and of the    *)
(* frames w that are still whole: they are those of wt, in this order.     *)

Ascending(wt) == \A j, k \in DOMAIN wt : j < k => wt[j] < wt[k]

Known(s, wt) ==
  \A p, c : Closes(s, p, c) => Len(c) >= 2 /\ \E k \in DOMAIN wt : c[2] = Command(wt[k])

Rising(s) ==
  \A p1, c1, p2, c2 : Closes(s, p1, c1) /\ Closes(s, p2, c2) /\ p1 < p2 => c1[2][2] < c2[2][2]

Coming(w, wt) ==
  \A x \in 1 .. Len(w) : \/ w[x] \in DamagedFrames
                         \/ \E k \in DOMAIN wt, b \in Bodies : w[x] = Frame(wt[k], b)

Later(s, w) ==
  \A p, c : \A x \in 1 .. Len(w) :
     Closes(s, p, c) /\ w[x] \notin DamagedFrames => c[2][2] < w[x][4][2]

InTurn(w) ==
  \A x, y \in 1 .. Len(w) :
     x < y /\ w[x] \notin DamagedFrames /\ w[y] \notin DamagedFrames => w[x][4][2] < w[y][4][2]

Genuine(s, w, wt) ==
  Known(s, wt) /\ Rising(s) /\ Coming(w, wt) /\ Later(s, w) /\ InTurn(w)

\* The server takes cells off the front.
LEMMA GenuineDrop ==
  ASSUME NEW s \in Seq(Cell), NEW m \in 0 .. Len(s), NEW t,
         Takes(Cell, s, m, Len(s) - m, t), NEW w, NEW wt, Genuine(s, w, wt)
  PROVE  Genuine(t, w, wt)
<1>1. \A p, c : Closes(t, p, c) => Closes(s, m + p, c)
  BY ClosesAfter
<1>2. m \in Nat
  OBVIOUS
<1>3. Known(t, wt)
  BY <1>1 DEF Genuine, Known
<1>4. Rising(t)
  <2>1. ASSUME NEW p1, NEW c1, NEW p2, NEW c2, Closes(t, p1, c1), Closes(t, p2, c2), p1 < p2
        PROVE  c1[2][2] < c2[2][2]
    <3>1. m + p1 < m + p2
      BY <1>2, <2>1 DEF Closes
    <3>2. Closes(s, m + p1, c1) /\ Closes(s, m + p2, c2)
      BY <1>1, <2>1
    <3>3. Rising(s)
      BY DEF Genuine
    <3> QED
      BY <3>1, <3>2, <3>3 DEF Rising
  <2> QED
    BY <2>1 DEF Rising
<1>5. Later(t, w)
  BY <1>1 DEF Genuine, Later
<1> QED
  BY <1>3, <1>4, <1>5 DEF Genuine

LEMMA FrameId ==
  ASSUME NEW id \in Nat, NEW b \in Bodies
  PROVE  /\ Frame(id, b)[4][2] = id /\ Content(id, b)[2] = Command(id)
         /\ Content(id, b)[2][2] = id /\ Len(Content(id, b)) >= 2
<1>1. /\ Len(b) \in Nat /\ Frame(id, b)[4] = Command(id)
      /\ Content(id, b)[2] = Command(id) /\ Len(Content(id, b)) = Len(b) + 2
  BY FrameCells
<1> QED
  BY <1>1, Distinct

\* The first whole frame joins the stream.
LEMMA GenuineBegin ==
  ASSUME NEW s \in Seq(Cell), NEW w \in Seq(Seq(Cell)), w # <<>>, NEW wt \in Seq(Nat),
         NEW r, Joins(Cell, s, w[1], r), Genuine(s, w, wt)
  PROVE  Genuine(r, Tail(w), wt)
<1> DEFINE f == w[1]
           v == Tail(w)
<1>1. /\ Len(w) \in Nat /\ 1 \in 1 .. Len(w) /\ Len(v) = Len(w) - 1
      /\ \A x \in 1 .. Len(v) : v[x] = w[x + 1] /\ x + 1 \in 1 .. Len(w)
  <2>1. Len(w) \in Nat /\ Len(w) >= 1
    BY EmptySeq
  <2>2. Len(v) = Len(w) - 1 /\ \A x \in 1 .. Len(v) : v[x] = w[x + 1]
    BY HeadTailProperties
  <2>3. \A x \in 1 .. Len(w) - 1 : x + 1 \in 1 .. Len(w)
    BY <2>1
  <2> QED
    BY <2>1, <2>2, <2>3
<1>2. Known(s, wt) /\ Rising(s) /\ Coming(w, wt) /\ Later(s, w) /\ InTurn(w)
  BY DEF Genuine
<1>3. Len(r) = Len(s) + Len(f) /\ Len(s) \in Nat /\ Len(f) \in Nat
  BY DEF Joins
<1> HIDE DEF f, v
<1>4. Coming(v, wt)
  <2>1. \A x \in 1 .. Len(v) : v[x] = w[x + 1] /\ x + 1 \in 1 .. Len(w)
    BY <1>1
  <2> QED
    BY <1>2, <2>1 DEF Coming
<1>5. InTurn(v)
  <2>1. ASSUME NEW x \in 1 .. Len(v), NEW y \in 1 .. Len(v), x < y,
               v[x] \notin DamagedFrames, v[y] \notin DamagedFrames
        PROVE  v[x][4][2] < v[y][4][2]
    <3>1. x + 1 \in 1 .. Len(w) /\ y + 1 \in 1 .. Len(w) /\ x + 1 < y + 1
      BY <1>1, <2>1
    <3> QED
      BY <1>1, <1>2, <2>1, <3>1 DEF InTurn
  <2> QED
    BY <2>1 DEF InTurn
<1>6. CASE f \in DamagedFrames
  <2>1. \A p, c : Closes(r, p, c) => Closes(s, p, c)
    BY <1>6, DamagedCloses DEF f
  <2>2. Known(r, wt)
    BY <1>2, <2>1 DEF Known
  <2>3. Rising(r)
    BY <1>2, <2>1 DEF Rising
  <2>4. Later(r, v)
    BY <1>1, <1>2, <2>1 DEF Later
  <2> QED
    BY <1>4, <1>5, <2>2, <2>3, <2>4 DEF Genuine, v
<1>7. CASE f \notin DamagedFrames
  <2>1. PICK k \in DOMAIN wt, b \in Bodies : f = Frame(wt[k], b)
    BY <1>1, <1>2, <1>7 DEF Coming, f
  <2> DEFINE id == wt[k]
  <2>2. id \in Nat
    BY ElementOfSeq, LenProperties
  <2>3. /\ f[4][2] = id /\ Content(id, b)[2] = Command(id)
        /\ Content(id, b)[2][2] = id /\ Len(Content(id, b)) >= 2
    BY <2>1, <2>2, FrameId
  <2>4. ASSUME NEW p, NEW c, Closes(r, p, c)
        PROVE  \/ Closes(s, p, c) /\ p <= Len(s)
               \/ p = Len(r) /\ c = Content(id, b)
    <3>1. Joins(Cell, s, Frame(id, b), r)
      BY <2>1 DEF f
    <3> HIDE DEF id
    <3> QED
      BY <2>2, <2>4, <3>1, FrameCloses
  <2> HIDE DEF id
  <2>5. Known(r, wt)
    <3>1. ASSUME NEW p, NEW c, Closes(r, p, c)
          PROVE  Len(c) >= 2 /\ \E j \in DOMAIN wt : c[2] = Command(wt[j])
      <4>1. CASE Closes(s, p, c)
        BY <1>2, <4>1 DEF Known
      <4>2. CASE c = Content(id, b)
        BY <2>3, <4>2 DEF id
      <4> QED
        BY <2>4, <3>1, <4>1, <4>2
    <3> QED
      BY <3>1 DEF Known
  <2>6. Rising(r)
    <3>1. ASSUME NEW p1, NEW c1, NEW p2, NEW c2, Closes(r, p1, c1), Closes(r, p2, c2), p1 < p2
          PROVE  c1[2][2] < c2[2][2]
      <4>1. /\ p1 \in Nat /\ p2 \in Nat /\ p1 <= Len(r) /\ p2 <= Len(r)
        BY <3>1 DEF Closes
      <4>2. Closes(s, p1, c1)
        <5>1. p1 # Len(r)
          BY <1>3, <3>1, <4>1
        <5> QED
          BY <2>4, <3>1, <5>1
      <4>3. CASE Closes(s, p2, c2)
        BY <1>2, <3>1, <4>2, <4>3 DEF Rising
      <4>4. CASE c2 = Content(id, b)
        <5>1. c1[2][2] < f[4][2]
          BY <1>1, <1>2, <1>7, <4>2 DEF Later, f
        <5> QED
          BY <2>3, <4>4, <5>1
      <4> QED
        BY <2>4, <3>1, <4>3, <4>4
    <3> QED
      BY <3>1 DEF Rising
  <2>7. Later(r, v)
    <3>1. ASSUME NEW p, NEW c, NEW x \in 1 .. Len(v), Closes(r, p, c), v[x] \notin DamagedFrames
          PROVE  c[2][2] < v[x][4][2]
      <4>1. v[x] = w[x + 1] /\ x + 1 \in 1 .. Len(w) /\ 1 < x + 1
        BY <1>1
      <4>2. CASE Closes(s, p, c)
        BY <1>2, <3>1, <4>1, <4>2 DEF Later
      <4>3. CASE c = Content(id, b)
        <5>1. f[4][2] < w[x + 1][4][2]
          BY <1>1, <1>2, <1>7, <3>1, <4>1 DEF InTurn, f
        <5> QED
          BY <2>3, <4>1, <4>3, <5>1
      <4> QED
        BY <2>4, <3>1, <4>2, <4>3
    <3> QED
      BY <3>1 DEF Later
  <2> QED
    BY <1>4, <1>5, <2>5, <2>6, <2>7 DEF Genuine, v
<1> QED
  BY <1>6, <1>7

\* The phone starts a damaged frame.
LEMMA GenuineDamaged ==
  ASSUME NEW s, NEW w \in Seq(Seq(Cell)), NEW wt, NEW f \in DamagedFrames, Genuine(s, w, wt)
  PROVE  Genuine(s, Append(w, f), wt)
<1> DEFINE v == Append(w, f)
<1>1. /\ Len(w) \in Nat /\ Len(v) = Len(w) + 1 /\ v[Len(w) + 1] = f
      /\ \A x \in 1 .. Len(w) : v[x] = w[x]
  BY DamagedCells, AppendProperties, LenProperties
<1> HIDE DEF v
<1>2. \A x \in 1 .. Len(v) : v[x] \notin DamagedFrames => x \in 1 .. Len(w) /\ v[x] = w[x]
  BY <1>1
<1>3. Coming(v, wt)
  <2>1. ASSUME NEW x \in 1 .. Len(v)
        PROVE  v[x] \in DamagedFrames \/ (x \in 1 .. Len(w) /\ v[x] = w[x])
    BY <1>2
  <2> QED
    BY <2>1 DEF Genuine, Coming
<1>4. Later(s, v)
  BY <1>2 DEF Genuine, Later
<1>5. InTurn(v)
  BY <1>2 DEF Genuine, InTurn
<1> QED
  BY <1>3, <1>4, <1>5 DEF Genuine, v

\* The phone starts a sound frame, with a command behind all before it.
LEMMA GenuineSend ==
  ASSUME NEW s, NEW w \in Seq(Seq(Cell)), NEW wt \in Seq(Nat), NEW id \in Nat, NEW b \in Bodies,
         \A k \in DOMAIN wt : wt[k] < id, Genuine(s, w, wt)
  PROVE  Genuine(s, Append(w, Frame(id, b)), Append(wt, id))
<1> DEFINE f == Frame(id, b)
           v == Append(w, f)
           ut == Append(wt, id)
<1>1. f \in Seq(Cell) /\ f[4][2] = id
  BY FrameCells, FrameId
<1>2. /\ Len(w) \in Nat /\ Len(v) = Len(w) + 1 /\ v[Len(w) + 1] = f
      /\ \A x \in 1 .. Len(w) : v[x] = w[x]
  BY <1>1, AppendProperties, LenProperties
<1>3. /\ DOMAIN wt \subseteq DOMAIN ut /\ \A k \in DOMAIN wt : ut[k] = wt[k]
      /\ Len(wt) + 1 \in DOMAIN ut /\ ut[Len(wt) + 1] = id
  <2>1. /\ ut \in Seq(Nat) /\ Len(ut) = Len(wt) + 1 /\ ut[Len(wt) + 1] = id
        /\ \A k \in 1 .. Len(wt) : ut[k] = wt[k]
    BY AppendProperties
  <2>2. Len(wt) \in Nat /\ DOMAIN wt = 1 .. Len(wt) /\ DOMAIN ut = 1 .. Len(ut)
    BY <2>1, LenProperties
  <2> HIDE DEF ut
  <2> QED
    BY <2>1, <2>2
<1> HIDE DEF f, v, ut
<1>4. Known(s, wt) /\ Rising(s) /\ Coming(w, wt) /\ Later(s, w) /\ InTurn(w)
  BY DEF Genuine
<1>5. \A x \in 1 .. Len(v) : (x \in 1 .. Len(w) /\ v[x] = w[x]) \/ (x = Len(w) + 1 /\ v[x] = f)
  BY <1>2
<1>6. ASSUME NEW x \in 1 .. Len(w), w[x] \notin DamagedFrames PROVE w[x][4][2] < id
  <2>1. PICK k \in DOMAIN wt, d \in Bodies : w[x] = Frame(wt[k], d)
    BY <1>4, <1>6 DEF Coming
  <2>2. wt[k] \in Nat
    BY ElementOfSeq, LenProperties
  <2>3. Frame(wt[k], d)[4][2] = wt[k]
    BY <2>2, FrameId
  <2> QED
    BY <2>1, <2>3
<1>7. ASSUME NEW p, NEW c, Closes(s, p, c) PROVE c[2][2] < id
  <2>1. PICK k \in DOMAIN wt : c[2] = Command(wt[k])
    BY <1>4, <1>7 DEF Known
  <2>2. c[2][2] = wt[k]
    BY <2>1, Distinct
  <2> QED
    BY <2>2
<1>8. Known(s, ut)
  BY <1>3, <1>4 DEF Known
<1>9. Coming(v, ut)
  <2>1. ASSUME NEW x \in 1 .. Len(v)
        PROVE  v[x] \in DamagedFrames \/ \E k \in DOMAIN ut, d \in Bodies : v[x] = Frame(ut[k], d)
    <3>1. CASE x \in 1 .. Len(w) /\ v[x] = w[x]
      BY <1>3, <1>4, <3>1 DEF Coming
    <3>2. CASE v[x] = f
      BY <1>3, <3>2 DEF f
    <3> QED
      BY <1>5, <3>1, <3>2
  <2> QED
    BY <2>1 DEF Coming
<1>10. Later(s, v)
  <2>1. ASSUME NEW p, NEW c, NEW x \in 1 .. Len(v), Closes(s, p, c), v[x] \notin DamagedFrames
        PROVE  c[2][2] < v[x][4][2]
    <3>1. CASE x \in 1 .. Len(w) /\ v[x] = w[x]
      BY <1>4, <2>1, <3>1 DEF Later
    <3>2. CASE v[x] = f
      BY <1>1, <1>7, <2>1, <3>2
    <3> QED
      BY <1>5, <3>1, <3>2
  <2> QED
    BY <2>1 DEF Later
<1>11. InTurn(v)
  <2>1. ASSUME NEW x \in 1 .. Len(v), NEW y \in 1 .. Len(v), x < y,
               v[x] \notin DamagedFrames, v[y] \notin DamagedFrames
        PROVE  v[x][4][2] < v[y][4][2]
    <3>1. x \in 1 .. Len(w) /\ v[x] = w[x]
      BY <1>2, <2>1
    <3>2. CASE y \in 1 .. Len(w) /\ v[y] = w[y]
      BY <1>4, <2>1, <3>1, <3>2 DEF InTurn
    <3>3. CASE v[y] = f
      BY <1>1, <1>6, <2>1, <3>1, <3>3
    <3> QED
      BY <1>5, <3>2, <3>3
  <2> QED
    BY <2>1 DEF InTurn
<1>12. Rising(s)
  BY <1>4
<1> QED
  BY <1>8, <1>9, <1>10, <1>11, <1>12 DEF Genuine, f, v, ut

\* The frame that closes at m is handled and taken off.
LEMMA GenuineHandle ==
  ASSUME NEW s \in Seq(Cell), NEW m \in 0 .. Len(s), NEW c, Closes(s, m, c),
         NEW t, Takes(Cell, s, m, Len(s) - m, t),
         NEW w, NEW wt \in Seq(Nat), Ascending(wt), Genuine(s, w, wt),
         NEW k \in DOMAIN wt, c[2][2] = wt[k]
  PROVE  Genuine(t, w, SubSeq(wt, k + 1, Len(wt)))
<1> DEFINE ut == SubSeq(wt, k + 1, Len(wt))
<1>1. Len(wt) \in Nat /\ DOMAIN wt = 1 .. Len(wt) /\ k \in 1 .. Len(wt)
  BY LenProperties
<1>2. Takes(Nat, wt, k, Len(wt) - k, ut)
  <2>1. k \in Nat /\ Len(wt) - k \in Nat /\ k + (Len(wt) - k) = Len(wt)
    BY <1>1
  <2>2. Takes(Nat, wt, k, Len(wt) - k, SubSeq(wt, k + 1, k + (Len(wt) - k)))
    BY <1>1, <2>1, Taken
  <2> QED
    BY <2>1, <2>2
<1>3. ASSUME NEW j \in DOMAIN wt, wt[k] < wt[j]
      PROVE  j - k \in DOMAIN ut /\ ut[j - k] = wt[j]
  <2>1. wt[k] \in Nat /\ wt[j] \in Nat
    BY <1>1, ElementOfSeq
  <2>2. ~(j < k) /\ j # k
    BY <1>3, <2>1 DEF Ascending
  <2>3. j - k \in 1 .. Len(wt) - k /\ k + (j - k) = j
    BY <1>1, <2>2
  <2>4. DOMAIN ut = 1 .. Len(wt) - k
    <3> HIDE DEF ut
    <3>1. ut \in Seq(Nat) /\ Len(ut) = Len(wt) - k
      BY <1>2 DEF Takes
    <3> QED
      BY <3>1, LenProperties
  <2>5. ut[j - k] = wt[k + (j - k)]
    <3> HIDE DEF ut
    <3> QED
      BY <1>2, <2>3 DEF Takes
  <2> QED
    BY <2>3, <2>4, <2>5
<1> HIDE DEF ut
<1>4. Genuine(t, w, wt)
  BY GenuineDrop
<1>5. Known(s, wt) /\ Rising(s) /\ Later(s, w)
  BY DEF Genuine
<1>6. Known(t, ut)
  <2>1. ASSUME NEW p, NEW d, Closes(t, p, d)
        PROVE  Len(d) >= 2 /\ \E j \in DOMAIN ut : d[2] = Command(ut[j])
    <3>1. Closes(s, m + p, d)
      BY <2>1, ClosesAfter
    <3>2. m < m + p
      <4>1. p \in Nat /\ p >= 1
        BY <2>1, LenProperties DEF Closes
      <4>2. m \in Nat
        BY LenProperties
      <4> QED
        BY <4>1, <4>2
    <3>3. c[2][2] < d[2][2]
      BY <1>5, <3>1, <3>2 DEF Rising
    <3>4. PICK j \in DOMAIN wt : Len(d) >= 2 /\ d[2] = Command(wt[j])
      BY <1>5, <3>1 DEF Known
    <3>5. d[2][2] = wt[j]
      BY <3>4, Distinct
    <3>6. j - k \in DOMAIN ut /\ ut[j - k] = wt[j]
      BY <1>3, <3>3, <3>5
    <3> QED
      BY <3>4, <3>6
  <2> QED
    BY <2>1 DEF Known
<1>7. Coming(w, ut)
  <2>1. ASSUME NEW x \in 1 .. Len(w), w[x] \notin DamagedFrames
        PROVE  \E j \in DOMAIN ut, b \in Bodies : w[x] = Frame(ut[j], b)
    <3>1. PICK j \in DOMAIN wt, b \in Bodies : w[x] = Frame(wt[j], b)
      BY <2>1 DEF Genuine, Coming
    <3>2. wt[j] \in Nat
      BY <1>1, ElementOfSeq
    <3>3. w[x][4][2] = wt[j]
      <4>1. Frame(wt[j], b)[4][2] = wt[j]
        BY <3>2, FrameId
      <4> QED
        BY <3>1, <4>1
    <3>4. c[2][2] < w[x][4][2]
      BY <1>5, <2>1 DEF Later
    <3>5. j - k \in DOMAIN ut /\ ut[j - k] = wt[j]
      BY <1>3, <3>3, <3>4
    <3> QED
      BY <3>1, <3>5
  <2> QED
    BY <2>1 DEF Coming
<1> QED
  BY <1>4, <1>6, <1>7 DEF Genuine, ut

-----------------------------------------------------------------------------
(* Frames that lie in a stream one behind the other.                       *)

\* The frame with this command and text lies in s from the cell p on.
Holds(s, p, id, b) == \A q \in 1 .. Len(b) + 6 : s[(p - 1) + q] = Frame(id, b)[q]

\* The frames i to n behind the last damage lie in s, each from its start on,
\* and s ends with them; of the last one the h last cells are still to come.
LaidBy(st, s, h, base, i, n) ==
  /\ \A k \in i .. n + 1 : st[k] \in Nat
  /\ st[n + 1] = Len(s) + 1
  /\ \A k \in i .. n : \E b \in Bodies : /\ st[k + 1] = st[k] + Len(b) + 6
                                        /\ Holds(s, st[k], base + k, b)
  /\ i <= n => st[n] + h <= Len(s) + 1

Laid(s, h, base, a, i, n) == \E st : st[i] = a /\ LaidBy(st, s, h, base, i, n)

\* A set of numbers that is not empty has a least one.
LEMMA Least ==
  ASSUME NEW T \in SUBSET Nat, T # {}
  PROVE  \E x \in T : \A y \in T : x <= y
<1> DEFINE R == OpToRel(<, Nat)
<1>1. IsWellFoundedOn(R, Nat)
  BY NatLessThanWellFounded, Zenon
<1>2. \A y, x \in Nat : y < x => <<y, x>> \in R
  BY SMT DEF OpToRel
<1> HIDE DEF R
<1>3. PICK x \in T : \A y \in T : ~(<<y, x>> \in R)
  BY <1>1, WFMin, Zenon
<1>4. \A y \in T : ~(y < x)
  BY <1>2, <1>3
<1> QED
  BY <1>4

LEMMA LaidStep ==
  ASSUME NEW st, NEW s, NEW h, NEW base, NEW i \in Nat, NEW n \in Nat,
         LaidBy(st, s, h, base, i, n), NEW k \in i .. n
  PROVE  st[k] \in Nat /\ st[k + 1] \in Nat /\ st[k + 1] >= st[k] + 6
<1>1. PICK b \in Bodies : st[k + 1] = st[k] + Len(b) + 6
  BY DEF LaidBy
<1>2. Len(b) \in Nat
  BY FrameFits
<1>3. k \in i .. n + 1 /\ k + 1 \in i .. n + 1
  OBVIOUS
<1>4. st[k] \in Nat /\ st[k + 1] \in Nat
  BY <1>3 DEF LaidBy
<1> QED
  BY <1>1, <1>2, <1>4

\* A frame has six cells or more.
LEMMA LaidGrows ==
  ASSUME NEW st, NEW s, NEW h, NEW base, NEW i \in Nat, NEW n \in Nat,
         LaidBy(st, s, h, base, i, n), NEW j \in i .. n + 1
  PROVE  st[j] >= st[i] + 6 * (j - i)
<1> DEFINE T == {k \in i .. n + 1 : ~(st[k] >= st[i] + 6 * (k - i))}
<1>1. SUFFICES T = {}
  OBVIOUS
<1>2. SUFFICES ASSUME T # {} PROVE FALSE
  OBVIOUS
<1>3. T \in SUBSET Nat
  OBVIOUS
<1>4. PICK k \in T : \A y \in T : k <= y
  <2> HIDE DEF T
  <2> QED
    BY <1>2, <1>3, Least
<1>5. k \in i .. n + 1 /\ ~(st[k] >= st[i] + 6 * (k - i))
  OBVIOUS
<1>6. st[k] \in Nat /\ st[i] \in Nat
  <2>1. i \in i .. n + 1
    OBVIOUS
  <2> QED
    BY <1>5, <2>1 DEF LaidBy
<1>7. k # i
  BY <1>5, <1>6
<1>8. k - 1 \in i .. n /\ (k - 1) + 1 = k /\ k - 1 \in i .. n + 1
  BY <1>5, <1>7
<1>9. st[k - 1] \in Nat /\ st[k] >= st[k - 1] + 6
  BY <1>8, LaidStep
<1>10. k - 1 \notin T
  <2>1. ~(k <= k - 1)
    BY <1>5
  <2> HIDE DEF T
  <2> QED
    BY <1>4, <2>1
<1>11. st[k - 1] >= st[i] + 6 * ((k - 1) - i)
  BY <1>8, <1>10
<1>12. 6 * (k - i) = 6 * ((k - 1) - i) + 6
  BY <1>5
<1> QED
  BY <1>5, <1>6, <1>9, <1>11, <1>12

LEMMA LaidFrom ==
  ASSUME NEW st, NEW s, NEW h, NEW base, NEW i \in Nat, NEW n \in Nat,
         LaidBy(st, s, h, base, i, n), NEW k \in i .. n + 1
  PROVE  LaidBy(st, s, h, base, k, n)
<1>1. \A j \in k .. n + 1 : j \in i .. n + 1
  OBVIOUS
<1>2. \A j \in k .. n : j \in i .. n
  OBVIOUS
<1>3. k <= n => i <= n
  OBVIOUS
<1> QED
  BY <1>1, <1>2, <1>3 DEF LaidBy

\* No frame yet.
LEMMA LaidNone ==
  ASSUME NEW s \in Seq(Cell), NEW h, NEW base, NEW n \in Nat
  PROVE  Laid(s, h, base, Len(s) + 1, n + 1, n)
<1> DEFINE st == [k \in {n + 1} |-> Len(s) + 1]
<1>1. st[n + 1] = Len(s) + 1 /\ Len(s) + 1 \in Nat
  BY LenProperties
<1>2. \A k \in n + 1 .. n + 1 : k = n + 1
  OBVIOUS
<1>3. \A k \in n + 1 .. n : FALSE
  OBVIOUS
<1>4. ~(n + 1 <= n)
  OBVIOUS
<1> HIDE DEF st
<1>5. LaidBy(st, s, h, base, n + 1, n)
  BY <1>1, <1>2, <1>3, <1>4 DEF LaidBy
<1> QED
  BY <1>1, <1>5 DEF Laid

LEMMA LaidHead ==
  ASSUME NEW s \in Seq(Cell), NEW h \in Nat, NEW g \in Nat, g <= h, NEW base, NEW a,
         NEW i \in Nat, NEW n \in Nat, Laid(s, h, base, a, i, n)
  PROVE  Laid(s, g, base, a, i, n)
<1>1. PICK st : st[i] = a /\ LaidBy(st, s, h, base, i, n)
  BY DEF Laid
<1>2. i <= n => st[n] \in Nat /\ Len(s) \in Nat
  <2>1. i <= n => n \in i .. n + 1
    OBVIOUS
  <2> QED
    BY <1>1, <2>1, LenProperties DEF LaidBy
<1>3. i <= n => st[n] + g <= Len(s) + 1
  BY <1>1, <1>2 DEF LaidBy
<1>4. LaidBy(st, s, g, base, i, n)
  BY <1>1, <1>3 DEF LaidBy
<1> QED
  BY <1>1, <1>4 DEF Laid

LEMMA HoldsWider ==
  ASSUME NEW s \in Seq(Cell), NEW f, NEW r, Joins(Cell, s, f, r), NEW p \in Nat, p >= 1,
         NEW id, NEW b \in Bodies, p + Len(b) + 6 <= Len(s) + 1, Holds(s, p, id, b)
  PROVE  Holds(r, p, id, b)
<1>1. Len(s) \in Nat /\ Len(b) \in Nat /\ \A q \in 1 .. Len(s) : r[q] = s[q]
  BY FrameFits DEF Joins
<1>2. ASSUME NEW q \in 1 .. Len(b) + 6 PROVE r[(p - 1) + q] = Frame(id, b)[q]
  <2>1. (p - 1) + q \in 1 .. Len(s)
    BY <1>1
  <2>2. s[(p - 1) + q] = Frame(id, b)[q]
    BY DEF Holds
  <2> QED
    BY <1>1, <2>1, <2>2
<1> QED
  BY <1>2 DEF Holds

\* The next frame begins.
LEMMA LaidBegin ==
  ASSUME NEW s \in Seq(Cell), NEW base \in Nat, NEW a \in Nat, a >= 1, NEW i \in Nat, NEW n \in Nat,
         i <= n + 1, NEW h, Laid(s, h, base, a, i, n),
         NEW b \in Bodies, NEW r, Joins(Cell, s, Frame(base + (n + 1), b), r)
  PROVE  Laid(r, Len(b) + 6, base, a, i, n + 1)
<1> DEFINE f == Frame(base + (n + 1), b)
<1>1. PICK st : st[i] = a /\ LaidBy(st, s, h, base, i, n)
  BY DEF Laid
<1>2. Len(b) \in Nat /\ f \in Seq(Cell) /\ Len(f) = Len(b) + 6
  BY FrameCells
<1> HIDE DEF f
<1>3. /\ Len(s) \in Nat /\ Len(r) = Len(s) + (Len(b) + 6)
      /\ \A q \in 1 .. Len(b) + 6 : r[Len(s) + q] = f[q]
  BY <1>2 DEF Joins, f
<1> DEFINE ut == [k \in i .. n + 2 |-> IF k = n + 2 THEN Len(r) + 1 ELSE st[k]]
<1>4. ut[n + 2] = Len(r) + 1 /\ \A k \in i .. n + 1 : ut[k] = st[k]
  <2>1. n + 2 \in i .. n + 2 /\ \A k \in i .. n + 1 : k \in i .. n + 2 /\ k # n + 2
    OBVIOUS
  <2> QED
    BY <2>1
<1>5. i \in i .. n + 1 /\ n + 1 \in i .. n + 1
  OBVIOUS
<1> HIDE DEF ut
<1>6. ut[i] = a
  BY <1>1, <1>4, <1>5
<1>7. ut[n + 1] = Len(s) + 1
  BY <1>1, <1>4, <1>5 DEF LaidBy
<1>8. ASSUME NEW k \in i .. n + 2 PROVE ut[k] \in Nat
  <2>1. CASE k = n + 2
    BY <1>2, <1>3, <1>4, <2>1
  <2>2. CASE k # n + 2
    <3>1. k \in i .. n + 1
      BY <2>2
    <3> QED
      BY <1>1, <1>4, <3>1 DEF LaidBy
  <2> QED
    BY <2>1, <2>2
<1>9. ASSUME NEW k \in i .. n + 1
      PROVE  \E d \in Bodies : ut[k + 1] = ut[k] + Len(d) + 6 /\ Holds(r, ut[k], base + k, d)
  <2>1. CASE k = n + 1
    <3>1. k + 1 = n + 2
      BY <2>1
    <3>2. ut[k + 1] = ut[k] + Len(b) + 6
      BY <1>2, <1>3, <1>4, <1>7, <2>1, <3>1
    <3>3. (ut[k] - 1) = Len(s)
      BY <1>3, <1>7, <2>1
    <3>4. Holds(r, ut[k], base + k, b)
      BY <1>3, <2>1, <3>3 DEF Holds, f
    <3> QED
      BY <3>2, <3>4
  <2>2. CASE k # n + 1
    <3>1. k \in i .. n /\ k + 1 \in i .. n + 1 /\ k \in i .. n + 1
      BY <2>2
    <3>2. PICK d \in Bodies : st[k + 1] = st[k] + Len(d) + 6 /\ Holds(s, st[k], base + k, d)
      BY <1>1, <3>1 DEF LaidBy
    <3>3. st[k] \in Nat /\ st[k] >= 1
      <4>1. st[k] \in Nat
        BY <1>1, <3>1 DEF LaidBy
      <4>2. st[k] >= st[i] + 6 * (k - i)
        BY <1>1, <3>1, LaidGrows
      <4>3. 6 * (k - i) >= 0
        BY <3>1
      <4> QED
        BY <1>1, <4>1, <4>2, <4>3
    <3>4. st[k] + Len(d) + 6 <= Len(s) + 1
      <4>1. LaidBy(st, s, h, base, k + 1, n)
        BY <1>1, <3>1, LaidFrom
      <4>2. n + 1 \in k + 1 .. n + 1 /\ k + 1 \in Nat
        BY <3>1
      <4>3. st[n + 1] >= st[k + 1] + 6 * ((n + 1) - (k + 1))
        BY <4>1, <4>2, LaidGrows
      <4>4. 6 * ((n + 1) - (k + 1)) >= 0 /\ st[n + 1] = Len(s) + 1 /\ st[k + 1] \in Nat
        BY <1>1, <3>1 DEF LaidBy
      <4> QED
        BY <1>3, <3>2, <4>3, <4>4
    <3>5. Holds(r, st[k], base + k, d)
      BY <3>2, <3>3, <3>4, HoldsWider
    <3>6. ut[k] = st[k] /\ ut[k + 1] = st[k + 1]
      BY <1>4, <3>1
    <3> QED
      BY <3>2, <3>5, <3>6
  <2> QED
    BY <2>1, <2>2
<1>10. ut[n + 1] + (Len(b) + 6) <= Len(r) + 1
  BY <1>2, <1>3, <1>7
<1>11. (n + 1) + 1 = n + 2
  OBVIOUS
<1>12. LaidBy(ut, r, Len(b) + 6, base, i, n + 1)
  BY <1>4, <1>8, <1>9, <1>10, <1>11 DEF LaidBy
<1> QED
  BY <1>6, <1>12 DEF Laid

LEMMA HoldsAfter ==
  ASSUME NEW s \in Seq(Cell), NEW m \in 0 .. Len(s), NEW t, Takes(Cell, s, m, Len(s) - m, t),
         NEW p \in Nat, p > m, NEW id, NEW b \in Bodies, p + Len(b) + 6 <= Len(s) + 1,
         Holds(s, p, id, b)
  PROVE  Holds(t, p - m, id, b)
<1>1. Len(s) \in Nat /\ Len(b) \in Nat /\ m \in Nat
  BY FrameFits, LenProperties
<1>2. \A q \in 1 .. Len(s) - m : t[q] = s[m + q]
  BY DEF Takes
<1>3. ASSUME NEW q \in 1 .. Len(b) + 6 PROVE t[((p - m) - 1) + q] = Frame(id, b)[q]
  <2>1. ((p - m) - 1) + q \in 1 .. Len(s) - m /\ m + (((p - m) - 1) + q) = (p - 1) + q
    BY <1>1
  <2>2. s[(p - 1) + q] = Frame(id, b)[q]
    BY DEF Holds
  <2> QED
    BY <1>2, <2>1, <2>2
<1> QED
  BY <1>3 DEF Holds

\* The frame k lies within the stream.
LEMMA LaidWithin ==
  ASSUME NEW st, NEW s \in Seq(Cell), NEW h, NEW base, NEW i \in Nat, NEW n \in Nat,
         LaidBy(st, s, h, base, i, n), NEW k \in i .. n
  PROVE  \E b \in Bodies : /\ st[k + 1] = st[k] + Len(b) + 6
                           /\ Holds(s, st[k], base + k, b)
                           /\ st[k] + Len(b) + 6 <= Len(s) + 1
<1>1. PICK b \in Bodies : st[k + 1] = st[k] + Len(b) + 6 /\ Holds(s, st[k], base + k, b)
  BY DEF LaidBy
<1>2. k + 1 \in Nat /\ k + 1 \in i .. n + 1 /\ n + 1 \in k + 1 .. n + 1
  OBVIOUS
<1>3. LaidBy(st, s, h, base, k + 1, n)
  BY <1>2, LaidFrom
<1>4. st[n + 1] >= st[k + 1] + 6 * ((n + 1) - (k + 1))
  BY <1>2, <1>3, LaidGrows
<1>5. st[n + 1] = Len(s) + 1 /\ st[k + 1] \in Nat /\ Len(s) \in Nat
  BY <1>2, LenProperties DEF LaidBy
<1>6. 6 * ((n + 1) - (k + 1)) >= 0
  OBVIOUS
<1> QED
  BY <1>1, <1>4, <1>5, <1>6

\* Cells in front of the frames are taken off.
LEMMA LaidDrop ==
  ASSUME NEW s \in Seq(Cell), NEW m \in 0 .. Len(s), NEW t, Takes(Cell, s, m, Len(s) - m, t),
         NEW h, NEW base, NEW a \in Nat, m < a, NEW i \in Nat, NEW n \in Nat, i <= n + 1,
         Laid(s, h, base, a, i, n), h \in Nat
  PROVE  Laid(t, h, base, a - m, i, n)
<1>1. PICK st : st[i] = a /\ LaidBy(st, s, h, base, i, n)
  BY DEF Laid
<1>2. Len(s) \in Nat /\ m \in Nat /\ m <= Len(s) /\ Len(t) = Len(s) - m
  BY LenProperties DEF Takes
<1> DEFINE ut == [k \in i .. n + 1 |-> st[k] - m]
<1>3. i \in i .. n + 1 /\ n + 1 \in i .. n + 1
  OBVIOUS
<1>4. ASSUME NEW k \in i .. n + 1 PROVE st[k] \in Nat /\ st[k] > m
  <2>1. st[k] \in Nat
    BY <1>1 DEF LaidBy
  <2>2. st[k] >= st[i] + 6 * (k - i)
    BY <1>1, LaidGrows
  <2>3. 6 * (k - i) >= 0
    OBVIOUS
  <2> QED
    BY <1>1, <1>2, <2>1, <2>2, <2>3
<1>5. \A k \in i .. n + 1 : ut[k] = st[k] - m /\ ut[k] \in Nat
  BY <1>2, <1>4
<1> HIDE DEF ut
<1>6. ut[i] = a - m /\ ut[n + 1] = Len(t) + 1
  <2>1. st[n + 1] = Len(s) + 1
    BY <1>1 DEF LaidBy
  <2> QED
    BY <1>1, <1>2, <1>3, <1>5, <2>1
<1>7. ASSUME NEW k \in i .. n
      PROVE  \E b \in Bodies : ut[k + 1] = ut[k] + Len(b) + 6 /\ Holds(t, ut[k], base + k, b)
  <2>1. PICK b \in Bodies : /\ st[k + 1] = st[k] + Len(b) + 6 /\ Holds(s, st[k], base + k, b)
                            /\ st[k] + Len(b) + 6 <= Len(s) + 1
    BY <1>1, LaidWithin
  <2>2. k \in i .. n + 1 /\ k + 1 \in i .. n + 1
    OBVIOUS
  <2>3. st[k] \in Nat /\ st[k] > m
    BY <1>4, <2>2
  <2>4. Holds(t, st[k] - m, base + k, b)
    BY <2>1, <2>3, HoldsAfter
  <2>5. ut[k + 1] = ut[k] + Len(b) + 6
    <3>1. ut[k] = st[k] - m /\ ut[k + 1] = st[k + 1] - m
      BY <1>5, <2>2
    <3>2. Len(b) \in Nat
      BY FrameFits
    <3> QED
      BY <1>2, <2>1, <2>3, <3>1, <3>2
  <2>6. Holds(t, ut[k], base + k, b)
    BY <1>5, <2>2, <2>4
  <2> QED
    BY <2>5, <2>6
<1>8. i <= n => ut[n] + h <= Len(t) + 1
  <2>1. SUFFICES ASSUME i <= n PROVE ut[n] + h <= Len(t) + 1
    OBVIOUS
  <2>2. n \in i .. n + 1
    BY <2>1
  <2>3. st[n] + h <= Len(s) + 1
    BY <1>1, <2>1 DEF LaidBy
  <2> QED
    BY <1>2, <1>4, <1>5, <2>2, <2>3
<1>9. LaidBy(ut, t, h, base, i, n)
  BY <1>5, <1>6, <1>7, <1>8 DEF LaidBy
<1> QED
  BY <1>6, <1>9 DEF Laid

\* The a - 1 cells in front are the last ones of a frame, which has lost some.
TailOf(t, a, id) ==
  \E b \in Bodies : /\ a - 1 < Len(b) + 6
                   /\ \A q \in 1 .. a - 1 : t[q] = Frame(id, b)[(Len(b) + 6) - (a - 1) + q]

LEMMA LandArithmetic ==
  ASSUME NEW u \in Nat, NEW l \in Nat, NEW m \in Nat, NEW e \in Nat, NEW a \in Nat,
         u + l + 6 <= e + 1, a = (u + l + 6) - m, a - 1 < l + 6, NEW q \in 1 .. a - 1
  PROVE  /\ (l + 6) - (a - 1) + q \in 1 .. l + 6
         /\ (u - 1) + ((l + 6) - (a - 1) + q) = m + q
         /\ q \in 1 .. e - m
  OBVIOUS

LEMMA WithinArithmetic ==
  ASSUME NEW x \in Nat, NEW y \in Nat, NEW l \in Nat, NEW m \in Nat,
         y = x + l + 6, x <= m, m + 1 < y
  PROVE  /\ y - m \in Nat /\ y - m > 1 /\ (y - m) - 1 = y - (m + 1)
         /\ (y - m) - 1 < l + 6
  OBVIOUS

\* As many cells are taken off as end within the frame k.
LEMMA LandWithin ==
  ASSUME NEW s \in Seq(Cell), NEW m \in 0 .. Len(s), NEW t, Takes(Cell, s, m, Len(s) - m, t),
         NEW h \in Nat, NEW base, NEW st, NEW i \in Nat, NEW n \in Nat,
         LaidBy(st, s, h, base, i, n), NEW k \in i .. n, st[k] <= m, m + 1 < st[k + 1]
  PROVE  \E a \in Nat : a > 1 /\ Laid(t, h, base, a, k + 1, n) /\ TailOf(t, a, base + k)
                       /\ a = st[k + 1] - m
<1>1. PICK b \in Bodies : /\ st[k + 1] = st[k] + Len(b) + 6
                          /\ Holds(s, st[k], base + k, b)
                          /\ st[k] + Len(b) + 6 <= Len(s) + 1
  BY LaidWithin
<1>2. /\ Len(b) \in Nat /\ Len(s) \in Nat /\ m \in Nat
      /\ k + 1 \in i .. n + 1 /\ k + 1 \in Nat /\ k \in i .. n + 1
  BY FrameFits, LenProperties
<1>3. st[k] \in Nat /\ st[k + 1] \in Nat
  BY <1>2 DEF LaidBy
<1> DEFINE a == st[k + 1] - m
<1>4. a \in Nat /\ a > 1 /\ a - 1 = st[k + 1] - (m + 1) /\ a - 1 < Len(b) + 6
  BY <1>1, <1>2, <1>3, WithinArithmetic
<1>5. Laid(t, h, base, a, k + 1, n)
  <2>1. LaidBy(st, s, h, base, k + 1, n)
    BY <1>2, LaidFrom
  <2>2. Laid(s, h, base, st[k + 1], k + 1, n)
    BY <2>1 DEF Laid
  <2>3. m < st[k + 1] /\ k + 1 <= n + 1
    BY <1>2, <1>3
  <2> QED
    BY <1>2, <1>3, <2>2, <2>3, LaidDrop
<1>6. a - 1 < Len(b) + 6
  BY <1>4
<1>7. ASSUME NEW q \in 1 .. a - 1 PROVE t[q] = Frame(base + k, b)[(Len(b) + 6) - (a - 1) + q]
  <2> DEFINE x == (Len(b) + 6) - (a - 1) + q
  <2>1. x \in 1 .. Len(b) + 6 /\ (st[k] - 1) + x = m + q /\ q \in 1 .. Len(s) - m
    <3>1. PICK u \in Nat : u = st[k]
      BY <1>3
    <3>2. PICK l \in Nat : l = Len(b)
      BY <1>2
    <3>3. PICK e \in Nat : e = Len(s)
      BY <1>2
    <3>4. u + l + 6 <= e + 1 /\ a = (u + l + 6) - m /\ a - 1 < l + 6
      BY <1>1, <1>6, <3>1, <3>2, <3>3
    <3> HIDE DEF a
    <3>5. /\ (l + 6) - (a - 1) + q \in 1 .. l + 6
          /\ (u - 1) + ((l + 6) - (a - 1) + q) = m + q
          /\ q \in 1 .. e - m
      BY <1>2, <1>4, <3>4, LandArithmetic
    <3> QED
      BY <3>1, <3>2, <3>3, <3>5
  <2>2. s[(st[k] - 1) + x] = Frame(base + k, b)[x]
    BY <1>1, <2>1 DEF Holds
  <2>3. t[q] = s[m + q]
    BY <2>1 DEF Takes
  <2> QED
    BY <2>1, <2>2, <2>3
<1>8. TailOf(t, a, base + k)
  BY <1>6, <1>7 DEF TailOf
<1> QED
  BY <1>4, <1>5, <1>8

\* As many cells are taken off as end where the frame k starts.
LEMMA LandAtStart ==
  ASSUME NEW s \in Seq(Cell), NEW m \in 0 .. Len(s), NEW t, Takes(Cell, s, m, Len(s) - m, t),
         NEW h \in Nat, NEW base, NEW st, NEW i \in Nat, NEW n \in Nat,
         LaidBy(st, s, h, base, i, n), NEW k \in i .. n + 1, st[k] = m + 1
  PROVE  Laid(t, h, base, 1, k, n)
<1>1. k \in Nat /\ k <= n + 1 /\ m \in Nat
  BY LenProperties
<1>2. LaidBy(st, s, h, base, k, n)
  BY LaidFrom
<1>3. Laid(s, h, base, m + 1, k, n)
  BY <1>2 DEF Laid
<1>4. m + 1 \in Nat /\ m < m + 1 /\ (m + 1) - m = 1
  BY <1>1
<1>5. Laid(t, h, base, (m + 1) - m, k, n)
  BY <1>1, <1>3, <1>4, LaidDrop
<1> QED
  BY <1>4, <1>5

\* Wherever a cut among the frames falls, what is left starts with a whole
\* frame or with the end of one.
LEMMA LaidLand ==
  ASSUME NEW s \in Seq(Cell), NEW m \in 0 .. Len(s), NEW t, Takes(Cell, s, m, Len(s) - m, t),
         NEW h \in Nat, NEW base, NEW a \in Nat, a <= m, NEW i \in Nat, NEW n \in Nat,
         i <= n + 1, Laid(s, h, base, a, i, n)
  PROVE  \E k \in i .. n :
           \/ Laid(t, h, base, 1, k + 1, n)
           \/ \E d \in Nat : d > 1 /\ Laid(t, h, base, d, k + 1, n) /\ TailOf(t, d, base + k)
<1>1. PICK st : st[i] = a /\ LaidBy(st, s, h, base, i, n)
  BY DEF Laid
<1> DEFINE T == {j \in i .. n + 1 : st[j] >= m + 1}
<1>2. Len(s) \in Nat /\ m \in Nat /\ m <= Len(s)
  BY LenProperties
<1>3. n + 1 \in T
  <2>1. n + 1 \in i .. n + 1 /\ st[n + 1] = Len(s) + 1
    BY <1>1 DEF LaidBy
  <2> QED
    BY <1>2, <2>1
<1>4. PICK j \in T : \A y \in T : j <= y
  <2>1. T \in SUBSET Nat /\ T # {}
    BY <1>3
  <2> HIDE DEF T
  <2> QED
    BY <2>1, Least
<1>5. j \in i .. n + 1 /\ st[j] >= m + 1
  OBVIOUS
<1>6. \A x \in i .. n + 1 : st[x] \in Nat
  BY <1>1 DEF LaidBy
<1>7. j # i
  BY <1>1, <1>2, <1>5
<1> DEFINE k == j - 1
<1>8. k \in i .. n /\ k + 1 = j /\ k \in i .. n + 1
  BY <1>5, <1>7
<1>9. st[k] <= m
  <2>1. k \notin T
    <3>1. ~(j <= k)
      BY <1>5
    <3> HIDE DEF T, k
    <3> QED
      BY <1>4, <3>1
  <2> QED
    BY <1>2, <1>6, <1>8, <2>1
<1>10. CASE st[j] = m + 1
  <2>1. Laid(t, h, base, 1, j, n)
    BY <1>1, <1>5, <1>10, LandAtStart
  <2> QED
    BY <1>8, <2>1
<1>11. CASE st[j] # m + 1
  <2>1. m + 1 < st[k + 1]
    BY <1>2, <1>5, <1>6, <1>8, <1>11
  <2> HIDE DEF k
  <2>2. \E d \in Nat : d > 1 /\ Laid(t, h, base, d, k + 1, n) /\ TailOf(t, d, base + k)
    BY <1>1, <1>8, <1>9, <2>1, LandWithin
  <2> QED
    BY <1>8, <2>2
<1> QED
  BY <1>10, <1>11

\* The same when nothing is left but what is still to come of the last frame.
LEMMA LaidTail ==
  ASSUME NEW s \in Seq(Cell), NEW m \in 0 .. Len(s), NEW t, Takes(Cell, s, m, Len(s) - m, t),
         NEW h \in Nat, m + h = Len(s), NEW base, NEW a, NEW i \in Nat, NEW n \in Nat,
         i <= n, Laid(s, h, base, a, i, n)
  PROVE  \/ Laid(t, h, base, 1, n, n)
         \/ Laid(t, h, base, 1, n + 1, n)
         \/ \E d \in Nat : d > 1 /\ Laid(t, h, base, d, n + 1, n) /\ TailOf(t, d, base + n)
<1>1. PICK st : LaidBy(st, s, h, base, i, n)
  BY DEF Laid
<1>2. Len(s) \in Nat /\ m \in Nat /\ n \in i .. n /\ n \in i .. n + 1 /\ n + 1 \in i .. n + 1
  BY LenProperties
<1>3. st[n] \in Nat /\ st[n + 1] = Len(s) + 1 /\ st[n] + h <= Len(s) + 1
  BY <1>1, <1>2 DEF LaidBy
<1>4. CASE st[n] = m + 1
  BY <1>1, <1>2, <1>4, LandAtStart
<1>5. CASE st[n] # m + 1 /\ h = 0
  <2>1. st[n + 1] = m + 1
    BY <1>2, <1>3, <1>5
  <2> QED
    BY <1>1, <1>2, <2>1, LandAtStart
<1>6. CASE st[n] # m + 1 /\ h # 0
  <2>1. st[n] <= m /\ m + 1 < st[n + 1]
    BY <1>2, <1>3, <1>6
  <2> QED
    BY <1>1, <1>2, <2>1, LandWithin
<1> QED
  BY <1>4, <1>5, <1>6

\* The frames need their room.
LEMMA LaidCount ==
  ASSUME NEW s \in Seq(Cell), NEW h \in Nat, NEW base, NEW a \in Nat, NEW i \in Nat, NEW n \in Nat,
         i <= n, Laid(s, h, base, a, i, n)
  PROVE  a + 6 * (n - i) + h <= Len(s) + 1 /\ a + 6 * ((n - i) + 1) <= Len(s) + 1
<1>1. PICK st : st[i] = a /\ LaidBy(st, s, h, base, i, n)
  BY DEF Laid
<1>2. Len(s) \in Nat /\ n \in i .. n + 1 /\ n + 1 \in i .. n + 1
  BY LenProperties
<1>3. st[n] \in Nat /\ st[n + 1] = Len(s) + 1 /\ st[n] + h <= Len(s) + 1
  BY <1>1, <1>2 DEF LaidBy
<1>4. st[n] >= st[i] + 6 * (n - i)
  BY <1>1, <1>2, LaidGrows
<1>5. st[n + 1] >= st[i] + 6 * ((n + 1) - i)
  BY <1>1, <1>2, LaidGrows
<1>6. (n + 1) - i = (n - i) + 1 /\ n - i \in Nat
  OBVIOUS
<1>7. a + 6 * (n - i) + h <= Len(s) + 1
  BY <1>1, <1>2, <1>3, <1>4, <1>6
<1>8. a + 6 * ((n - i) + 1) <= Len(s) + 1
  BY <1>1, <1>2, <1>3, <1>5, <1>6
<1> QED
  BY <1>7, <1>8

\* The first of the frames.
LEMMA LaidFirst ==
  ASSUME NEW s \in Seq(Cell), NEW h \in Nat, NEW base, NEW a \in Nat, NEW i \in Nat, NEW n \in Nat,
         i <= n, Laid(s, h, base, a, i, n)
  PROVE  \E b \in Bodies : /\ Holds(s, a, base + i, b) /\ a + Len(b) + 6 <= Len(s) + 1
                           /\ Laid(s, h, base, a + Len(b) + 6, i + 1, n)
<1>1. PICK st : st[i] = a /\ LaidBy(st, s, h, base, i, n)
  BY DEF Laid
<1>2. i \in i .. n /\ i + 1 \in i .. n + 1
  OBVIOUS
<1>3. PICK b \in Bodies : /\ st[i + 1] = st[i] + Len(b) + 6 /\ Holds(s, st[i], base + i, b)
                          /\ st[i] + Len(b) + 6 <= Len(s) + 1
  BY <1>1, <1>2, LaidWithin
<1>4. LaidBy(st, s, h, base, i + 1, n)
  BY <1>1, <1>2, LaidFrom
<1> QED
  BY <1>1, <1>3, <1>4 DEF Laid

LEMMA LaidNoneLeft ==
  ASSUME NEW s, NEW h, NEW base, NEW a, NEW n, Laid(s, h, base, a, n + 1, n)
  PROVE  a = Len(s) + 1
  BY DEF Laid, LaidBy

\* The end of a frame is no header, unless what it claims exceeds the buffer.
LEMMA TailHeader ==
  ASSUME NEW t, NEW a \in Nat, a > 1, NEW id \in Nat, TailOf(t, a, id)
  PROVE  /\ a = 2 => t[1] # J
         /\ a = 3 => t[1] # J
         /\ a > 3 => Claimed(t[3]) = BufMax + 1
<1>1. PICK b \in Bodies :
        /\ a - 1 < Len(b) + 6
        /\ \A q \in 1 .. a - 1 : t[q] = Frame(id, b)[(Len(b) + 6) - (a - 1) + q]
  BY DEF TailOf
<1> DEFINE f == Frame(id, b)
           n == Len(b)
<1>2. n \in Nat /\ f[n + 5] = Crc(Content(id, b)) /\ f[n + 6] = End
  BY FrameCells
<1>3. End # J /\ Crc(Content(id, b)) # J
  BY Distinct DEF Byte
<1>4. \A q \in 1 .. n + 6 : q # 3 => Claimed(f[q]) = BufMax + 1
  BY FrameKinds
<1>5. a - 1 < n + 6 /\ \A q \in 1 .. a - 1 : t[q] = f[(n + 6) - (a - 1) + q]
  BY <1>1
<1> HIDE DEF f, n
<1>6. ASSUME a = 2 PROVE t[1] # J
  <2>1. 1 \in 1 .. a - 1 /\ (n + 6) - (a - 1) + 1 = n + 6
    BY <1>2, <1>6
  <2> QED
    BY <1>2, <1>3, <1>5, <2>1
<1>7. ASSUME a = 3 PROVE t[1] # J
  <2>1. 1 \in 1 .. a - 1 /\ (n + 6) - (a - 1) + 1 = n + 5
    BY <1>2, <1>7
  <2> QED
    BY <1>2, <1>3, <1>5, <2>1
<1>8. ASSUME a > 3 PROVE Claimed(t[3]) = BufMax + 1
  <2> DEFINE x == (n + 6) - (a - 1) + 3
  <2>1. 3 \in 1 .. a - 1 /\ x \in 1 .. n + 6 /\ x # 3
    BY <1>2, <1>5, <1>8
  <2> HIDE DEF x
  <2>2. t[3] = f[x]
    BY <1>5, <2>1 DEF x
  <2> QED
    BY <1>4, <2>1, <2>2
<1> QED
  BY <1>6, <1>7, <1>8

LEMMA TailDrop ==
  ASSUME NEW s, NEW m \in Nat, NEW t, Takes(Cell, s, m, Len(s) - m, t), NEW a \in Nat, m + 1 < a,
         a <= Len(s) + 1, Len(s) \in Nat, NEW id, TailOf(s, a, id)
  PROVE  TailOf(t, a - m, id)
<1>1. PICK b \in Bodies :
        /\ a - 1 < Len(b) + 6
        /\ \A q \in 1 .. a - 1 : s[q] = Frame(id, b)[(Len(b) + 6) - (a - 1) + q]
  BY DEF TailOf
<1>2. Len(b) \in Nat
  BY FrameFits
<1>3. ASSUME NEW q \in 1 .. (a - m) - 1
      PROVE  t[q] = Frame(id, b)[(Len(b) + 6) - ((a - m) - 1) + q]
  <2>1. /\ q \in 1 .. Len(s) - m /\ m + q \in 1 .. a - 1
        /\ (Len(b) + 6) - (a - 1) + (m + q) = (Len(b) + 6) - ((a - m) - 1) + q
    BY <1>2
  <2>2. t[q] = s[m + q]
    BY <2>1 DEF Takes
  <2>3. s[m + q] = Frame(id, b)[(Len(b) + 6) - (a - 1) + (m + q)]
    BY <1>1, <2>1
  <2> QED
    BY <2>1, <2>2, <2>3
<1>4. (a - m) - 1 < Len(b) + 6
  BY <1>1, <1>2
<1> QED
  BY <1>3, <1>4 DEF TailOf

LEMMA TailWider ==
  ASSUME NEW s \in Seq(Cell), NEW f, NEW r, Joins(Cell, s, f, r), NEW a \in Nat, a <= Len(s) + 1,
         NEW id, TailOf(s, a, id)
  PROVE  TailOf(r, a, id)
<1>1. \A q \in 1 .. a - 1 : q \in 1 .. Len(s)
  BY LenProperties
<1>2. \A q \in 1 .. Len(s) : r[q] = s[q]
  BY DEF Joins
<1>3. \A q \in 1 .. a - 1 : r[q] = s[q]
  BY <1>1, <1>2
<1> QED
  BY <1>3 DEF TailOf

-----------------------------------------------------------------------------
(* How the receive buffer stands to the frames behind the last damage.     *)

MostLost == (BufMax - 4) \div 6 + 1

\* Of the first k of these frames only as many as damage may cost still wait.
Kept(wt, base, k) == \A j \in DOMAIN wt : wt[j] <= base + MostLost \/ wt[j] > base + k

\* Without damage exactly the frames behind the first k wait.
Undamaged(wt, base, k, snt) ==
  base = 0 /\ Len(wt) + k = snt /\ \A j \in DOMAIN wt : wt[j] = k + j

\* Cells from before lie in front: nothing is lost yet, and what the buffer
\* waits for lies among so many frames at most.
Stuck(s, h, base, n, p) ==
  \E a \in Nat : a > 1 /\ Laid(s, h, base, a, 1, n) /\ (p => n <= MostLost)

\* The stream starts with a whole frame, or is empty.
Synced(s, h, base, n, wt, snt, clean) ==
  \E k \in 0 .. n : /\ Laid(s, h, base, 1, k + 1, n) /\ Kept(wt, base, k)
                    /\ clean => Undamaged(wt, base, k, snt)

\* It starts with the end of a frame that has lost its start.
Behind(s, h, base, n, p) ==
  \E k \in 1 .. n, a \in Nat :
     /\ a > 1 /\ Laid(s, h, base, a, k + 1, n)
     /\ k <= MostLost /\ TailOf(s, a, base + k)
     /\ n = k \/ a = 2 \/ (p /\ n <= MostLost)

Phase(s, h, base, n, p, wt, snt, clean) ==
  \/ n < 0 /\ ~clean
  \/ n >= 0 /\ Stuck(s, h, base, n, p) /\ ~clean
  \/ n >= 0 /\ Synced(s, h, base, n, wt, snt, clean)
  \/ n >= 0 /\ Behind(s, h, base, n, p) /\ ~clean

Header(b) == Len(b) >= 2 /\ b[1] = J /\ b[2] = L

\* wifi_process_frames returns only when more has to arrive.
Settled(b) == \/ Len(b) < 2
              \/ Header(b) /\ Len(b) < 3
              \/ Header(b) /\ Len(b) >= 3 /\ Claimed(b[3]) \in Len(b) + 1 .. BufMax

\* The buffer is the front of the stream, all but its h last cells.
FrontOf(b, s, h) ==
  /\ b \in Seq(Cell) /\ h \in Nat /\ Len(s) = Len(b) + h
  /\ \A q \in 1 .. Len(b) : s[q] = b[q]

LEMMA MostLostIs ==
  /\ MostLost \in Nat /\ MostLost >= 1
  /\ \A x \in Nat : 6 * x + 4 <= BufMax => x + 1 <= MostLost
  BY FramesAssumption DEF MostLost

LEMMA KeptAll ==
  ASSUME NEW wt \in Seq(Nat), NEW base \in Nat, NEW k \in Nat, k <= MostLost
  PROVE  Kept(wt, base, k)
<1>1. ASSUME NEW j \in DOMAIN wt PROVE wt[j] <= base + MostLost \/ wt[j] > base + k
  <2>1. wt[j] \in Nat
    BY ElementOfSeq, LenProperties
  <2> QED
    BY <2>1, MostLostIs
<1> QED
  BY <1>1 DEF Kept

\* The first cells of the frame at p.
LEMMA HoldsStart ==
  ASSUME NEW s, NEW p \in Nat, p >= 1, NEW id \in Nat, NEW b \in Bodies, Holds(s, p, id, b)
  PROVE  /\ s[p] = J /\ s[p + 1] = L /\ s[p + 2] = Length(Len(b) + 1) /\ s[p + 3] = Command(id)
         /\ Claimed(s[p + 2]) = Len(b) + 6 /\ Len(b) \in Nat /\ Len(b) + 6 <= BufMax
<1> DEFINE f == Frame(id, b)
<1>1. Len(b) \in Nat /\ f[1] = J /\ f[2] = L /\ f[3] = Length(Len(b) + 1) /\ f[4] = Command(id)
  BY FrameCells
<1> HIDE DEF f
<1>2. \A q \in 1 .. Len(b) + 6 : s[(p - 1) + q] = f[q]
  BY DEF Holds, f
<1>3. /\ 1 \in 1 .. Len(b) + 6 /\ 2 \in 1 .. Len(b) + 6
      /\ 3 \in 1 .. Len(b) + 6 /\ 4 \in 1 .. Len(b) + 6
  BY <1>1
<1>4. (p - 1) + 1 = p /\ (p - 1) + 2 = p + 1 /\ (p - 1) + 3 = p + 2 /\ (p - 1) + 4 = p + 3
  OBVIOUS
<1>5. s[p] = J /\ s[p + 1] = L /\ s[p + 2] = Length(Len(b) + 1) /\ s[p + 3] = Command(id)
  BY <1>1, <1>2, <1>3, <1>4
<1>6. Claimed(s[p + 2]) = Len(b) + 6
  <2>1. Claimed(Length(Len(b) + 1)) = (Len(b) + 1) + 5
    BY Claims
  <2> QED
    BY <1>1, <1>5, <2>1
<1> QED
  BY <1>1, <1>5, <1>6, FrameFits

\* While the buffer waits behind old cells, the frames it holds are few.
LEMMA StuckRoom ==
  ASSUME NEW s \in Seq(Cell), NEW b, NEW h, FrontOf(b, s, h), Settled(b),
         NEW base \in Nat, NEW n \in Nat, NEW p, Stuck(s, h, base, n, p)
  PROVE  n <= MostLost
<1>1. PICK a \in Nat : a > 1 /\ Laid(s, h, base, a, 1, n)
  BY DEF Stuck
<1>2. Len(b) \in Nat /\ h \in Nat /\ Len(s) = Len(b) + h /\ \A q \in 1 .. Len(b) : s[q] = b[q]
  BY LenProperties DEF FrontOf
<1>3. CASE n <= 1
  BY <1>3, MostLostIs
<1>4. CASE n > 1
  <2>1. a + 6 * (n - 1) <= Len(b) + 1
    <3>1. 1 <= n
      BY <1>4
    <3>2. a + 6 * (n - 1) + h <= Len(s) + 1
      BY <1>1, <1>2, <3>1, LaidCount
    <3> QED
      BY <1>2, <3>2
  <2>2. Len(b) >= 7
    BY <1>1, <1>2, <1>4, <2>1
  <2>3. Header(b) /\ Claimed(b[3]) \in Len(b) + 1 .. BufMax
    BY <1>2, <2>2 DEF Settled
  <2>4. s[2] = L /\ Claimed(s[3]) <= BufMax
    <3>1. 2 \in 1 .. Len(b) /\ 3 \in 1 .. Len(b)
      BY <1>2, <2>2
    <3>2. s[2] = L /\ s[3] = b[3]
      BY <1>2, <2>3, <3>1 DEF Header
    <3> QED
      BY <1>2, <2>3, <3>2, FramesAssumption
  <2>5. s[a] = J
    <3>1. 1 <= n
      BY <1>4
    <3>2. PICK d \in Bodies : Holds(s, a, base + 1, d)
      BY <1>1, <1>2, <3>1, LaidFirst
    <3>3. base + 1 \in Nat /\ a >= 1
      BY <1>1
    <3> QED
      BY <3>2, <3>3, HoldsStart
  <2>6. a # 2
    BY <2>4, <2>5, Distinct
  <2>7. a # 3
    <3>1. Claimed(J) = BufMax + 1
      BY Claims DEF Byte
    <3> QED
      BY <2>4, <2>5, <3>1, FramesAssumption
  <2>8. Len(b) + 1 <= BufMax
    BY <1>2, <2>3, FramesAssumption
  <2>9. 6 * (n - 1) + 4 <= BufMax
    BY <1>1, <1>2, <2>1, <2>6, <2>7, <2>8, FramesAssumption
  <2>10. n - 1 \in Nat /\ (n - 1) + 1 = n
    BY <1>4
  <2> QED
    BY <2>9, <2>10, MostLostIs
<1> QED
  BY <1>3, <1>4

\* What Behind says of k and a.
Lagging(s, h, base, n, p, k, a) ==
  /\ a > 1 /\ Laid(s, h, base, a, k + 1, n)
  /\ k <= MostLost /\ TailOf(s, a, base + k)
  /\ n = k \/ a = 2 \/ (p /\ n <= MostLost)

\* The end of the frame is all there is, or the buffer holds all of it.
LEMMA Covered ==
  ASSUME NEW s \in Seq(Cell), NEW b, NEW h, FrontOf(b, s, h),
         NEW base \in Nat, NEW n \in Nat, NEW p, NEW k \in 1 .. n, NEW a \in Nat,
         Lagging(s, h, base, n, p, k, a)
  PROVE  /\ n = k => a = Len(s) + 1
         /\ n # k => a <= Len(b) + 1
         /\ a - 1 <= Len(s)
<1>1. Len(b) \in Nat /\ h \in Nat /\ Len(s) = Len(b) + h
  BY LenProperties DEF FrontOf
<1>2. Laid(s, h, base, a, k + 1, n)
  BY DEF Lagging
<1>3. CASE n = k
  <2>1. a = Len(s) + 1
    BY <1>2, <1>3, LaidNoneLeft
  <2> QED
    BY <1>1, <1>3, <2>1
<1>4. CASE n # k
  <2>1. k + 1 <= n /\ k + 1 \in Nat
    BY <1>4
  <2>2. a + 6 * (n - (k + 1)) + h <= Len(s) + 1
    BY <1>1, <1>2, <2>1, LaidCount
  <2>3. 6 * (n - (k + 1)) >= 0
    BY <2>1
  <2> QED
    BY <1>1, <1>4, <2>2, <2>3
<1> QED
  BY <1>3, <1>4

LEMMA BehindNoHeader ==
  ASSUME NEW s \in Seq(Cell), NEW b, NEW h, FrontOf(b, s, h),
         NEW base \in Nat, NEW n \in Nat, NEW p, NEW k \in 1 .. n, NEW a \in Nat,
         Lagging(s, h, base, n, p, k, a), Header(b), Len(b) >= 3 \/ n # k
  PROVE  a > 3 /\ Claimed(s[3]) = BufMax + 1
<1>1. Len(b) \in Nat /\ h \in Nat /\ Len(s) = Len(b) + h /\ \A q \in 1 .. Len(b) : s[q] = b[q]
  BY LenProperties DEF FrontOf
<1>2. s[1] = J
  <2>1. 1 \in 1 .. Len(b) /\ b[1] = J
    BY <1>1 DEF Header
  <2> QED
    BY <1>1, <2>1
<1>3. a > 1 /\ TailOf(s, a, base + k) /\ base + k \in Nat
  BY DEF Lagging
<1>4. a # 2 /\ a # 3
  BY <1>2, <1>3, TailHeader
<1>5. a > 3
  BY <1>3, <1>4
<1> QED
  BY <1>3, <1>5, TailHeader

LEMMA BehindSettled ==
  ASSUME NEW s \in Seq(Cell), NEW b, NEW h, FrontOf(b, s, h), Settled(b),
         NEW base \in Nat, NEW n \in Nat, NEW p, NEW k \in 1 .. n, NEW a \in Nat,
         Lagging(s, h, base, n, p, k, a)
  PROVE  n = k \/ a = 2
<1>1. SUFFICES ASSUME n # k, a # 2 PROVE FALSE
  OBVIOUS
<1>2. Len(b) \in Nat /\ h \in Nat /\ Len(s) = Len(b) + h /\ \A q \in 1 .. Len(b) : s[q] = b[q]
  BY LenProperties DEF FrontOf
<1>3. a <= Len(b) + 1 /\ a > 1
  BY <1>1, Covered DEF Lagging
<1>4. Len(b) >= 2
  BY <1>1, <1>2, <1>3
<1>5. Header(b)
  BY <1>2, <1>4 DEF Settled
<1>6. a > 3 /\ Claimed(s[3]) = BufMax + 1
  BY <1>1, <1>5, BehindNoHeader
<1>7. Len(b) >= 3 /\ 3 \in 1 .. Len(b)
  BY <1>2, <1>3, <1>6
<1>8. Claimed(b[3]) \in Len(b) + 1 .. BufMax
  BY <1>2, <1>7 DEF Settled
<1> QED
  BY <1>2, <1>6, <1>7, <1>8, FramesAssumption

-----------------------------------------------------------------------------
(* What the steps of the server make of the phase.                         *)

\* Behind old cells a cut among few frames leaves one of the other two.
LEMMA Landed ==
  ASSUME NEW s \in Seq(Cell), NEW m \in 0 .. Len(s), NEW t, Takes(Cell, s, m, Len(s) - m, t),
         NEW h \in Nat, NEW base \in Nat, NEW a \in Nat, a >= 1, a <= m + 1, NEW i \in Nat, i >= 1,
         NEW n \in Nat, i <= n + 1, n <= MostLost, Laid(s, h, base, a, i, n),
         NEW wt \in Seq(Nat), NEW snt
  PROVE  Synced(t, h, base, n, wt, snt, FALSE) \/ Behind(t, h, base, n, TRUE)
<1>1. CASE a = m + 1
  <2>1. m < a /\ a - m = 1
    BY <1>1
  <2>2. Laid(t, h, base, a - m, i, n)
    BY <2>1, LaidDrop
  <2>3. PICK k \in 0 .. n : i = k + 1
    <3>1. i - 1 \in 0 .. n /\ i = (i - 1) + 1
      OBVIOUS
    <3> QED
      BY <3>1
  <2>4. Laid(t, h, base, 1, k + 1, n)
    BY <2>1, <2>2, <2>3
  <2>5. k <= MostLost /\ k \in Nat
    BY <2>3, MostLostIs
  <2>6. Kept(wt, base, k)
    BY <2>5, KeptAll
  <2> QED
    BY <2>4, <2>6 DEF Synced
<1>2. CASE a <= m
  <2>1. PICK k \in i .. n :
          \/ Laid(t, h, base, 1, k + 1, n)
          \/ \E d \in Nat : d > 1 /\ Laid(t, h, base, d, k + 1, n) /\ TailOf(t, d, base + k)
    BY <1>2, LaidLand
  <2>2. k \in Nat /\ k \in 0 .. n /\ k \in 1 .. n /\ k <= MostLost
    BY MostLostIs
  <2>3. Kept(wt, base, k)
    BY <2>2, KeptAll
  <2>4. CASE Laid(t, h, base, 1, k + 1, n)
    BY <2>2, <2>3, <2>4 DEF Synced
  <2>5. CASE \E d \in Nat : d > 1 /\ Laid(t, h, base, d, k + 1, n) /\ TailOf(t, d, base + k)
    BY <2>2, <2>5 DEF Behind
  <2> QED
    BY <2>1, <2>4, <2>5
<1>3. a = m + 1 \/ a <= m
  OBVIOUS
<1> QED
  BY <1>1, <1>2, <1>3

\* The same when the whole buffer goes.
LEMMA Emptied ==
  ASSUME NEW s \in Seq(Cell), NEW m \in 0 .. Len(s), NEW t, Takes(Cell, s, m, Len(s) - m, t),
         NEW h \in Nat, m + h = Len(s), NEW base \in Nat, NEW a \in Nat, a >= 1, a <= m + 1,
         NEW i \in Nat, i >= 1, NEW n \in Nat, i <= n + 1, n <= MostLost,
         Laid(s, h, base, a, i, n), NEW wt \in Seq(Nat), NEW snt
  PROVE  Synced(t, h, base, n, wt, snt, FALSE) \/ Behind(t, h, base, n, FALSE)
<1>0. Len(s) \in Nat
  BY LenProperties
<1>1. CASE a = m + 1
  <2>1. m < a /\ a - m = 1
    BY <1>1
  <2>2. Laid(t, h, base, a - m, i, n)
    BY <2>1, LaidDrop
  <2>3. PICK k \in 0 .. n : i = k + 1
    <3>1. i - 1 \in 0 .. n /\ i = (i - 1) + 1
      OBVIOUS
    <3> QED
      BY <3>1
  <2>4. Laid(t, h, base, 1, k + 1, n)
    BY <2>1, <2>2, <2>3
  <2>5. k <= MostLost /\ k \in Nat
    BY <2>3, MostLostIs
  <2>6. Kept(wt, base, k)
    BY <2>5, KeptAll
  <2> QED
    BY <2>4, <2>6 DEF Synced
<1>2. CASE a <= m
  <2>1. i <= n
    <3>1. SUFFICES ASSUME i = n + 1 PROVE FALSE
      OBVIOUS
    <3>2. a = Len(s) + 1
      BY <3>1, LaidNoneLeft
    <3> QED
      BY <1>0, <1>2, <3>2
  <2>2. PICK j \in 0 .. n : n = j + 1
    <3>1. n - 1 \in 0 .. n /\ n = (n - 1) + 1
      BY <2>1
    <3> QED
      BY <3>1
  <2>3. Kept(wt, base, n)
    BY KeptAll
  <2>4. Kept(wt, base, j)
    <3>1. j \in Nat /\ j <= MostLost
      BY <2>2, MostLostIs
    <3> QED
      BY <3>1, KeptAll
  <2>5. \/ Laid(t, h, base, 1, n, n)
        \/ Laid(t, h, base, 1, n + 1, n)
        \/ \E d \in Nat : d > 1 /\ Laid(t, h, base, d, n + 1, n) /\ TailOf(t, d, base + n)
    BY <2>1, LaidTail
  <2>6. CASE Laid(t, h, base, 1, n, n)
    <3>1. Laid(t, h, base, 1, j + 1, n)
      BY <2>2, <2>6
    <3> QED
      BY <2>4, <3>1 DEF Synced
  <2>7. CASE Laid(t, h, base, 1, n + 1, n)
    <3>1. n \in 0 .. n
      OBVIOUS
    <3> QED
      BY <2>3, <2>7, <3>1 DEF Synced
  <2>8. CASE \E d \in Nat : d > 1 /\ Laid(t, h, base, d, n + 1, n) /\ TailOf(t, d, base + n)
    <3>1. n \in 1 .. n
      BY <2>1
    <3> QED
      BY <2>8, <3>1 DEF Behind
  <2> QED
    BY <2>5, <2>6, <2>7, <2>8
<1>3. a = m + 1 \/ a <= m
  OBVIOUS
<1> QED
  BY <1>1, <1>2, <1>3

\* The buffer starts with a whole frame: its first cells are in the buffer as
\* soon as three cells are.
LEMMA SyncedHeader ==
  ASSUME NEW s \in Seq(Cell), NEW b, NEW h, FrontOf(b, s, h), Len(b) >= 2,
         NEW base \in Nat, NEW n \in Nat, NEW k \in 0 .. n, Laid(s, h, base, 1, k + 1, n)
  PROVE  /\ k < n /\ Header(b)
         /\ \E d \in Bodies :
              /\ Holds(s, 1, base + (k + 1), d)
              /\ Laid(s, h, base, 1 + Len(d) + 6, k + 2, n)
              /\ Len(d) + 6 <= Len(s)
              /\ Len(b) >= 3 => Claimed(b[3]) = Len(d) + 6
              /\ Len(d) \in Nat /\ Len(d) + 6 <= BufMax
<1>1. Len(b) \in Nat /\ h \in Nat /\ Len(s) = Len(b) + h /\ \A q \in 1 .. Len(b) : s[q] = b[q]
  BY LenProperties DEF FrontOf
<1>2. k < n
  <2>1. SUFFICES ASSUME k = n PROVE FALSE
    OBVIOUS
  <2>2. 1 = Len(s) + 1
    BY <2>1, LaidNoneLeft
  <2> QED
    BY <1>1, <2>2
<1>3. k + 1 <= n /\ k + 1 \in Nat /\ (k + 1) + 1 = k + 2 /\ base + (k + 1) \in Nat
  BY <1>2
<1>4. PICK d \in Bodies : /\ Holds(s, 1, base + (k + 1), d) /\ 1 + Len(d) + 6 <= Len(s) + 1
                          /\ Laid(s, h, base, 1 + Len(d) + 6, (k + 1) + 1, n)
  BY <1>1, <1>3, LaidFirst
<1>5. /\ s[1] = J /\ s[2] = L /\ Claimed(s[3]) = Len(d) + 6
      /\ Len(d) \in Nat /\ Len(d) + 6 <= BufMax
  <2>1. /\ s[1] = J /\ s[1 + 1] = L /\ Claimed(s[1 + 2]) = Len(d) + 6
        /\ Len(d) \in Nat /\ Len(d) + 6 <= BufMax
    BY <1>3, <1>4, HoldsStart
  <2> QED
    BY <2>1
<1>6. Header(b)
  <2>1. 1 \in 1 .. Len(b) /\ 2 \in 1 .. Len(b)
    BY <1>1
  <2> QED
    BY <1>1, <1>5, <2>1 DEF Header
<1>7. ASSUME Len(b) >= 3 PROVE Claimed(b[3]) = Len(d) + 6
  <2>1. 3 \in 1 .. Len(b)
    BY <1>1, <1>7
  <2> QED
    BY <1>1, <1>5, <2>1
<1>8. Len(d) + 6 <= Len(s)
  BY <1>1, <1>4, <1>5
<1>9. Laid(s, h, base, 1 + Len(d) + 6, k + 2, n)
  BY <1>3, <1>4
<1> QED
  BY <1>2, <1>4, <1>5, <1>6, <1>7, <1>8, <1>9

LEMMA BehindIs ==
  ASSUME NEW s, NEW h, NEW base, NEW n, NEW p
  PROVE  Behind(s, h, base, n, p) <=> \E k \in 1 .. n, a \in Nat : Lagging(s, h, base, n, p, k, a)
  BY DEF Behind, Lagging

\* Back to the main loop.
LEMMA PhaseNeedMore ==
  ASSUME NEW s \in Seq(Cell), NEW b, NEW h, FrontOf(b, s, h), Settled(b),
         NEW base \in Nat, NEW n \in Int, NEW wt, NEW snt, NEW clean,
         Phase(s, h, base, n, TRUE, wt, snt, clean)
  PROVE  Phase(s, h, base, n, FALSE, wt, snt, clean)
<1>1. CASE n >= 0 /\ Stuck(s, h, base, n, TRUE) /\ ~clean
  <2>1. Stuck(s, h, base, n, FALSE)
    BY <1>1 DEF Stuck
  <2> QED
    BY <1>1, <2>1 DEF Phase
<1>2. CASE n >= 0 /\ Behind(s, h, base, n, TRUE) /\ ~clean
  <2>1. n \in Nat
    BY <1>2
  <2>2. PICK k \in 1 .. n, a \in Nat : Lagging(s, h, base, n, TRUE, k, a)
    BY <1>2, BehindIs
  <2>3. n = k \/ a = 2
    BY <2>1, <2>2, BehindSettled
  <2>4. Lagging(s, h, base, n, FALSE, k, a)
    BY <2>2, <2>3 DEF Lagging
  <2>5. Behind(s, h, base, n, FALSE)
    BY <2>4, BehindIs
  <2> QED
    BY <1>2, <2>5 DEF Phase
<1> QED
  BY <1>1, <1>2 DEF Phase

\* One cell is skipped.
LEMMA PhaseSkip ==
  ASSUME NEW s \in Seq(Cell), NEW b, NEW h, FrontOf(b, s, h), Len(b) >= 2, ~Header(b),
         NEW t, Takes(Cell, s, 1, Len(s) - 1, t),
         NEW base \in Nat, NEW n \in Int, NEW wt \in Seq(Nat), NEW snt, NEW clean,
         NEW p, p = TRUE, Phase(s, h, base, n, p, wt, snt, clean)
  PROVE  Phase(t, h, base, n, p, wt, snt, clean)
<1>0. Len(b) \in Nat /\ h \in Nat /\ Len(s) = Len(b) + h /\ 1 \in 0 .. Len(s)
  BY LenProperties DEF FrontOf
<1>1. CASE n < 0 /\ ~clean
  BY <1>1 DEF Phase
<1>2. CASE n >= 0 /\ Stuck(s, h, base, n, p) /\ ~clean
  <2>1. n \in Nat
    BY <1>2
  <2>2. PICK a \in Nat : a > 1 /\ Laid(s, h, base, a, 1, n) /\ n <= MostLost
    BY <1>2 DEF Stuck
  <2>3. Laid(t, h, base, a - 1, 1, n)
    <3>1. 1 < a /\ 1 \in Nat /\ 1 <= n + 1
      BY <2>1, <2>2
    <3> QED
      BY <1>0, <2>1, <2>2, <3>1, LaidDrop
  <2>4. CASE a > 2
    <3>1. a - 1 \in Nat /\ a - 1 > 1
      BY <2>4
    <3>2. Stuck(t, h, base, n, p)
      BY <2>2, <2>3, <3>1 DEF Stuck
    <3> QED
      BY <1>2, <3>2 DEF Phase
  <2>5. CASE a = 2
    <3>1. Laid(t, h, base, 1, 0 + 1, n)
      BY <2>3, <2>5
    <3>2. Kept(wt, base, 0)
      BY KeptAll, MostLostIs
    <3>3. 0 \in 0 .. n
      BY <2>1
    <3>4. Synced(t, h, base, n, wt, snt, clean)
      BY <1>2, <3>1, <3>2, <3>3 DEF Synced
    <3> QED
      BY <1>2, <3>4 DEF Phase
  <2>6. a > 2 \/ a = 2
    BY <2>2
  <2> QED
    BY <2>4, <2>5, <2>6
<1>3. CASE n >= 0 /\ Synced(s, h, base, n, wt, snt, clean)
  <2>1. n \in Nat
    BY <1>3
  <2>2. PICK k \in 0 .. n : Laid(s, h, base, 1, k + 1, n)
    BY <1>3 DEF Synced
  <2>3. Header(b)
    BY <2>1, <2>2, SyncedHeader
  <2> QED
    BY <2>3
<1>4. CASE n >= 0 /\ Behind(s, h, base, n, p) /\ ~clean
  <2>1. n \in Nat
    BY <1>4
  <2>2. PICK k \in 1 .. n, a \in Nat : Lagging(s, h, base, n, p, k, a)
    BY <1>4, BehindIs
  <2>3. /\ a > 1 /\ Laid(s, h, base, a, k + 1, n) /\ k <= MostLost /\ TailOf(s, a, base + k)
        /\ n = k \/ a = 2 \/ n <= MostLost
    BY <2>2 DEF Lagging
  <2>4. k + 1 \in Nat /\ k + 1 <= n + 1 /\ k \in Nat /\ k \in 0 .. n
    BY <2>1
  <2>5. Laid(t, h, base, a - 1, k + 1, n)
    BY <1>0, <2>1, <2>3, <2>4, LaidDrop
  <2>6. CASE a > 2
    <3>1. a - 1 \in Nat /\ a - 1 > 1 /\ 1 + 1 < a
      BY <2>6
    <3>2. a <= Len(s) + 1 /\ Len(s) \in Nat /\ 1 \in Nat
      <4>1. a - 1 <= Len(s)
        BY <2>1, <2>2, Covered
      <4> QED
        BY <1>0, <4>1
    <3>3. TailOf(t, a - 1, base + k)
      BY <1>0, <2>3, <3>1, <3>2, TailDrop
    <3>4. n = k \/ n <= MostLost
      BY <2>3, <2>6
    <3>5. Lagging(t, h, base, n, p, k, a - 1)
      BY <2>3, <2>5, <3>1, <3>3, <3>4 DEF Lagging
    <3>6. Behind(t, h, base, n, p)
      BY <3>1, <3>5, BehindIs
    <3> QED
      BY <1>4, <3>6 DEF Phase
  <2>7. CASE a = 2
    <3>1. Laid(t, h, base, 1, k + 1, n)
      BY <2>5, <2>7
    <3>2. Kept(wt, base, k)
      BY <2>3, <2>4, KeptAll
    <3>3. Synced(t, h, base, n, wt, snt, clean)
      BY <1>4, <2>4, <3>1, <3>2 DEF Synced
    <3> QED
      BY <1>4, <3>3 DEF Phase
  <2>8. a > 2 \/ a = 2
    BY <2>3
  <2> QED
    BY <2>6, <2>7, <2>8
<1> QED
  BY <1>1, <1>2, <1>3, <1>4 DEF Phase

\* What a phase without damage is not.
LEMMA PhaseDamaged ==
  ASSUME NEW s, NEW h, NEW base, NEW n \in Int, n >= 0, NEW p, NEW wt, NEW snt, NEW clean, ~clean,
         Synced(s, h, base, n, wt, snt, FALSE) \/ Behind(s, h, base, n, p)
  PROVE  Phase(s, h, base, n, p, wt, snt, clean)
<1>1. CASE Synced(s, h, base, n, wt, snt, FALSE)
  <2>1. Synced(s, h, base, n, wt, snt, clean)
    BY <1>1 DEF Synced
  <2> QED
    BY <2>1 DEF Phase
<1>2. CASE Behind(s, h, base, n, p)
  BY <1>2 DEF Phase
<1> QED
  BY <1>1, <1>2

\* The buffer is cleared because what it claims exceeds it.
LEMMA PhaseClear ==
  ASSUME NEW s \in Seq(Cell), NEW b, NEW h, FrontOf(b, s, h), Header(b), Len(b) >= 3,
         Claimed(b[3]) > BufMax,
         NEW m \in 0 .. Len(s), m = Len(b), NEW t, Takes(Cell, s, m, Len(s) - m, t),
         NEW base \in Nat, NEW n \in Int, NEW wt \in Seq(Nat), NEW snt, NEW clean,
         NEW p, p = TRUE, Phase(s, h, base, n, p, wt, snt, clean)
  PROVE  Phase(t, h, base, n, FALSE, wt, snt, clean)
<1>0. /\ Len(b) \in Nat /\ h \in Nat /\ Len(s) = Len(b) + h /\ m + h = Len(s) /\ Len(b) >= 2
      /\ Len(s) \in Nat
  BY LenProperties DEF FrontOf
<1>1. CASE n < 0 /\ ~clean
  BY <1>1 DEF Phase
<1>2. CASE n >= 0 /\ Stuck(s, h, base, n, p) /\ ~clean
  <2>1. n \in Nat /\ 1 \in Nat /\ 1 <= n + 1
    BY <1>2
  <2>2. PICK a \in Nat : a > 1 /\ Laid(s, h, base, a, 1, n) /\ n <= MostLost
    BY <1>2 DEF Stuck
  <2>3. CASE m + 1 < a
    <3>1. m < a /\ a - m \in Nat /\ a - m > 1
      BY <2>2, <2>3
    <3>2. Laid(t, h, base, a - m, 1, n)
      BY <1>0, <2>1, <2>2, <3>1, LaidDrop
    <3>3. Stuck(t, h, base, n, FALSE)
      BY <3>1, <3>2 DEF Stuck
    <3> QED
      BY <1>2, <3>3 DEF Phase
  <2>4. CASE a <= m + 1
    <3>1. a >= 1 /\ 1 >= 1
      BY <2>2
    <3>2. Synced(t, h, base, n, wt, snt, FALSE) \/ Behind(t, h, base, n, FALSE)
      BY <1>0, <2>1, <2>2, <2>4, <3>1, Emptied
    <3> QED
      BY <1>2, <3>2, PhaseDamaged
  <2>5. m + 1 < a \/ a <= m + 1
    BY <2>2
  <2> QED
    BY <2>3, <2>4, <2>5
<1>3. CASE n >= 0 /\ Synced(s, h, base, n, wt, snt, clean)
  <2>1. n \in Nat
    BY <1>3
  <2>2. PICK k \in 0 .. n : Laid(s, h, base, 1, k + 1, n)
    BY <1>3 DEF Synced
  <2>3. PICK d \in Bodies : /\ Len(b) >= 3 => Claimed(b[3]) = Len(d) + 6
                            /\ Len(d) \in Nat /\ Len(d) + 6 <= BufMax
    BY <1>0, <2>1, <2>2, SyncedHeader
  <2> QED
    BY <2>3, FramesAssumption
<1>4. CASE n >= 0 /\ Behind(s, h, base, n, p) /\ ~clean
  <2>1. n \in Nat
    BY <1>4
  <2>2. PICK k \in 1 .. n, a \in Nat : Lagging(s, h, base, n, p, k, a)
    BY <1>4, BehindIs
  <2>3. /\ a > 1 /\ Laid(s, h, base, a, k + 1, n) /\ k <= MostLost /\ TailOf(s, a, base + k)
        /\ n = k \/ a = 2 \/ n <= MostLost
    BY <2>2 DEF Lagging
  <2>4. k + 1 \in Nat /\ k + 1 >= 1 /\ k + 1 <= n + 1 /\ k \in Nat /\ a >= 1
    BY <2>1, <2>3
  <2>5. a > 3
    BY <2>1, <2>2, BehindNoHeader
  <2>6. n <= MostLost
    <3>1. n = k \/ n <= MostLost
      BY <2>3, <2>5
    <3> QED
      BY <2>3, <3>1
  <2>7. CASE m + 1 < a
    <3>1. n = k
      <4>1. n # k => a <= Len(b) + 1
        BY <2>1, <2>2, Covered
      <4> QED
        BY <1>0, <2>7, <4>1
    <3>2. a <= Len(s) + 1 /\ m \in Nat
      <4>1. a - 1 <= Len(s)
        BY <2>1, <2>2, Covered
      <4> QED
        BY <1>0, <4>1
    <3>3. m < a /\ a - m \in Nat /\ a - m > 1
      BY <2>3, <2>7
    <3>4. Laid(t, h, base, a - m, k + 1, n)
      BY <1>0, <2>1, <2>3, <2>4, <3>3, LaidDrop
    <3>5. TailOf(t, a - m, base + k)
      BY <1>0, <2>3, <2>7, <3>2, TailDrop
    <3>6. Lagging(t, h, base, n, FALSE, k, a - m)
      BY <2>3, <3>1, <3>3, <3>4, <3>5 DEF Lagging
    <3>7. Behind(t, h, base, n, FALSE)
      BY <3>3, <3>6, BehindIs
    <3> QED
      BY <1>4, <3>7 DEF Phase
  <2>8. CASE a <= m + 1
    <3>1. Synced(t, h, base, n, wt, snt, FALSE) \/ Behind(t, h, base, n, FALSE)
      BY <1>0, <2>1, <2>3, <2>4, <2>6, <2>8, Emptied
    <3> QED
      BY <1>4, <3>1, PhaseDamaged
  <2>9. m + 1 < a \/ a <= m + 1
    BY <2>3
  <2> QED
    BY <2>7, <2>8, <2>9
<1> QED
  BY <1>1, <1>2, <1>3, <1>4 DEF Phase

\* What a frame that is taken off does to those that wait, when it is the next.
Advances(b, m, base, n, wt, ut, snt, clean) ==
  \A k \in 0 .. n - 1, d \in Bodies :
     m = Len(d) + 6 /\ Holds(b, 1, base + (k + 1), d) /\ Kept(wt, base, k)
     /\ (clean => Undamaged(wt, base, k, snt))
       => Kept(ut, base, k + 1) /\ (clean => Undamaged(ut, base, k + 1, snt))

\* The buffer holds as much as it claims for its frame.
Full(b, m) == /\ Header(b) /\ Len(b) >= 3 /\ Claimed(b[3]) <= BufMax
              /\ m = Claimed(b[3]) /\ m <= Len(b)

\* As many cells as the buffer claims for its frame are taken off.
LEMMA PhaseTake ==
  ASSUME NEW s \in Seq(Cell), NEW b, NEW h, FrontOf(b, s, h),
         NEW m \in 0 .. Len(s), Full(b, m),
         NEW t, Takes(Cell, s, m, Len(s) - m, t),
         NEW base \in Nat, NEW n \in Int, NEW wt \in Seq(Nat), NEW ut \in Seq(Nat),
         NEW snt, NEW clean, Advances(b, m, base, n, wt, ut, snt, clean),
         NEW p, p = TRUE, Phase(s, h, base, n, p, wt, snt, clean)
  PROVE  Phase(t, h, base, n, p, ut, snt, clean)
<1>0. /\ Len(b) \in Nat /\ h \in Nat /\ Len(s) = Len(b) + h /\ Len(b) >= 2 /\ Len(s) \in Nat
      /\ \A q \in 1 .. Len(b) : s[q] = b[q]
      /\ Header(b) /\ Len(b) >= 3 /\ Claimed(b[3]) <= BufMax
      /\ m = Claimed(b[3]) /\ m <= Len(b)
  <2>1. /\ Header(b) /\ Len(b) >= 3 /\ Claimed(b[3]) <= BufMax
        /\ m = Claimed(b[3]) /\ m <= Len(b)
    BY DEF Full
  <2> QED
    BY <2>1, LenProperties DEF FrontOf
<1>1. CASE n < 0 /\ ~clean
  BY <1>1 DEF Phase
<1>2. CASE n >= 0 /\ Stuck(s, h, base, n, p) /\ ~clean
  <2>1. n \in Nat /\ 1 \in Nat /\ 1 <= n + 1
    BY <1>2
  <2>2. PICK a \in Nat : a > 1 /\ Laid(s, h, base, a, 1, n) /\ n <= MostLost
    BY <1>2 DEF Stuck
  <2>3. CASE m + 1 < a
    <3>1. m < a /\ a - m \in Nat /\ a - m > 1
      BY <2>2, <2>3
    <3>2. Laid(t, h, base, a - m, 1, n)
      BY <1>0, <2>1, <2>2, <3>1, LaidDrop
    <3>3. Stuck(t, h, base, n, p)
      BY <2>2, <3>1, <3>2 DEF Stuck
    <3> QED
      BY <1>2, <3>3 DEF Phase
  <2>4. CASE a <= m + 1
    <3>1. a >= 1 /\ 1 >= 1
      BY <2>2
    <3>2. Synced(t, h, base, n, ut, snt, FALSE) \/ Behind(t, h, base, n, TRUE)
      BY <1>0, <2>1, <2>2, <2>4, <3>1, Landed
    <3>3. Synced(t, h, base, n, ut, snt, FALSE) \/ Behind(t, h, base, n, p)
      BY <3>2 DEF Behind
    <3> QED
      BY <1>2, <3>3, PhaseDamaged
  <2>5. m + 1 < a \/ a <= m + 1
    BY <2>2
  <2> QED
    BY <2>3, <2>4, <2>5
<1>3. CASE n >= 0 /\ Synced(s, h, base, n, wt, snt, clean)
  <2>1. n \in Nat
    BY <1>3
  <2>2. PICK k \in 0 .. n : /\ Laid(s, h, base, 1, k + 1, n) /\ Kept(wt, base, k)
                            /\ clean => Undamaged(wt, base, k, snt)
    BY <1>3 DEF Synced
  <2>3. k < n
    BY <1>0, <2>1, <2>2, SyncedHeader
  <2>4. PICK d \in Bodies : /\ Holds(s, 1, base + (k + 1), d)
                            /\ Laid(s, h, base, 1 + Len(d) + 6, k + 2, n)
                            /\ Len(b) >= 3 => Claimed(b[3]) = Len(d) + 6
                            /\ Len(d) \in Nat
    BY <1>0, <2>1, <2>2, SyncedHeader
  <2>5. m = Len(d) + 6
    BY <1>0, <2>4
  <2>6. Holds(b, 1, base + (k + 1), d)
    <3>1. Len(d) \in Nat /\ Len(b) \in Nat /\ Len(d) + 6 <= Len(b)
      BY <1>0, <2>4, <2>5
    <3>2. ASSUME NEW q \in 1 .. Len(d) + 6 PROVE q \in 1 .. Len(b) /\ (1 - 1) + q = q
      BY <3>1
    <3>3. \A q \in 1 .. Len(d) + 6 : b[(1 - 1) + q] = s[(1 - 1) + q]
      BY <1>0, <3>2
    <3> QED
      BY <2>4, <3>3 DEF Holds
  <2>7. k \in 0 .. n - 1 /\ k + 1 \in 0 .. n /\ k + 2 \in Nat /\ k + 2 <= n + 1
    BY <2>3
  <2>8. Kept(ut, base, k + 1) /\ (clean => Undamaged(ut, base, k + 1, snt))
    BY <2>2, <2>5, <2>6, <2>7 DEF Advances
  <2>9. Laid(t, h, base, 1, (k + 1) + 1, n)
    <3>1. PICK a \in Nat : a = 1 + Len(d) + 6
      BY <2>4
    <3>2. m < a /\ a - m = 1 /\ (k + 1) + 1 = k + 2
      BY <2>4, <2>5, <3>1
    <3>3. Laid(s, h, base, a, k + 2, n)
      BY <2>4, <3>1
    <3>4. Laid(t, h, base, a - m, k + 2, n)
      BY <1>0, <2>1, <2>7, <3>2, <3>3, LaidDrop
    <3> QED
      BY <3>2, <3>4
  <2>10. Synced(t, h, base, n, ut, snt, clean)
    BY <2>7, <2>8, <2>9 DEF Synced
  <2> QED
    BY <1>3, <2>10 DEF Phase
<1>4. CASE n >= 0 /\ Behind(s, h, base, n, p) /\ ~clean
  <2>1. n \in Nat
    BY <1>4
  <2>2. PICK k \in 1 .. n, a \in Nat : Lagging(s, h, base, n, p, k, a)
    BY <1>4, BehindIs
  <2>3. Claimed(s[3]) = BufMax + 1
    BY <1>0, <2>1, <2>2, BehindNoHeader
  <2>4. s[3] = b[3]
    <3>1. 3 \in 1 .. Len(b)
      BY <1>0
    <3> QED
      BY <1>0, <3>1
  <2> QED
    BY <1>0, <2>3, <2>4, FramesAssumption
<1> QED
  BY <1>1, <1>2, <1>3, <1>4 DEF Phase

\* While the buffer waits for more of a whole frame, this is the last one.
LEMMA SyncedRoom ==
  ASSUME NEW s \in Seq(Cell), NEW b, NEW h, FrontOf(b, s, h), Settled(b),
         NEW base \in Nat, NEW n \in Nat, NEW k \in 0 .. n, Laid(s, h, base, 1, k + 1, n)
  PROVE  (k = n /\ Len(s) = 0) \/ (k + 1 = n /\ Len(s) <= BufMax /\ h > 0)
<1>0. Len(b) \in Nat /\ h \in Nat /\ Len(s) = Len(b) + h /\ \A q \in 1 .. Len(b) : s[q] = b[q]
  BY LenProperties DEF FrontOf
<1>1. CASE k = n
  <2>1. 1 = Len(s) + 1
    BY <1>1, LaidNoneLeft
  <2> QED
    BY <1>0, <1>1, <2>1
<1>2. CASE k < n
  <2>1. k + 1 <= n /\ k + 1 \in Nat /\ (k + 1) + 1 = k + 2 /\ base + (k + 1) \in Nat /\ k + 2 \in Nat
    BY <1>2
  <2>2. PICK d \in Bodies : /\ Holds(s, 1, base + (k + 1), d) /\ 1 + Len(d) + 6 <= Len(s) + 1
                            /\ Laid(s, h, base, 1 + Len(d) + 6, (k + 1) + 1, n)
    BY <1>0, <2>1, LaidFirst
  <2>3. Len(d) \in Nat /\ Len(d) + 6 <= BufMax
    BY FrameFits
  <2>4. PICK a \in Nat : a = Len(d) + 7
    BY <2>3
  <2>5. Laid(s, h, base, a, k + 2, n) /\ a <= Len(s) + 1
    <3>1. 1 + Len(d) + 6 = a
      BY <2>3, <2>4
    <3> QED
      BY <2>1, <2>2, <3>1
  <2>6. ~(Len(d) + 6 <= Len(b))
    <3>1. SUFFICES ASSUME Len(d) + 6 <= Len(b) PROVE FALSE
      OBVIOUS
    <3>2. Len(b) >= 3 /\ Len(b) >= 2
      BY <1>0, <2>3, <3>1
    <3>3. Claimed(b[3]) \in Len(b) + 1 .. BufMax
      BY <1>0, <3>2 DEF Settled
    <3>4. Claimed(s[1 + 2]) = Len(d) + 6
      BY <2>1, <2>2, HoldsStart
    <3>5. s[3] = b[3] /\ 1 + 2 = 3
      <4>1. 3 \in 1 .. Len(b)
        BY <1>0, <3>2
      <4> QED
        BY <1>0, <4>1
    <3>6. Claimed(b[3]) = Len(d) + 6
      BY <3>4, <3>5
    <3> QED
      BY <1>0, <2>3, <3>1, <3>3, <3>6, FramesAssumption
  <2>7. ~(k + 2 <= n)
    <3>1. SUFFICES ASSUME k + 2 <= n PROVE FALSE
      OBVIOUS
    <3>2. a + 6 * (n - (k + 2)) + h <= Len(s) + 1
      BY <1>0, <2>1, <2>5, <3>1, LaidCount
    <3>3. 6 * (n - (k + 2)) >= 0
      BY <3>1
    <3> QED
      BY <1>0, <2>3, <2>4, <2>6, <3>2, <3>3
  <2>8. k + 1 = n /\ k + 2 = n + 1
    BY <2>1, <2>7
  <2>9. a = Len(s) + 1
    <3>1. Laid(s, h, base, a, n + 1, n)
      BY <2>5, <2>8
    <3> QED
      BY <3>1, LaidNoneLeft
  <2>10. Len(s) <= BufMax /\ h > 0
    BY <1>0, <2>3, <2>4, <2>6, <2>9, FramesAssumption
  <2> QED
    BY <2>8, <2>10
<1>3. k = n \/ k < n
  OBVIOUS
<1> QED
  BY <1>1, <1>2, <1>3

\* The end of a frame behind which the buffer waits is all there is, or the
\* only cell of the buffer.
LEMMA BehindRoom ==
  ASSUME NEW s \in Seq(Cell), NEW b, NEW h, FrontOf(b, s, h), Settled(b),
         NEW base \in Nat, NEW n \in Nat, NEW p, NEW k \in 1 .. n, NEW a \in Nat,
         Lagging(s, h, base, n, p, k, a)
  PROVE  (n = k /\ a = Len(s) + 1 /\ Len(s) < BufMax) \/ (n # k /\ Len(b) = 1)
<1>0. Len(b) \in Nat /\ h \in Nat /\ Len(s) = Len(b) + h /\ \A q \in 1 .. Len(b) : s[q] = b[q]
  BY LenProperties DEF FrontOf
<1>1. CASE n = k
  <2>1. a = Len(s) + 1
    BY <1>1, Covered
  <2>2. PICK d \in Bodies : a - 1 < Len(d) + 6
    BY DEF Lagging, TailOf
  <2>3. Len(d) \in Nat /\ Len(d) + 6 <= BufMax
    BY FrameFits
  <2> QED
    BY <1>0, <1>1, <2>1, <2>2, <2>3, FramesAssumption
<1>2. CASE n # k
  <2>1. a <= Len(b) + 1 /\ a > 1
    BY <1>2, Covered DEF Lagging
  <2>2. ~(Len(b) >= 2)
    <3>1. SUFFICES ASSUME Len(b) >= 2 PROVE FALSE
      OBVIOUS
    <3>2. Header(b)
      BY <1>0, <3>1 DEF Settled
    <3>3. a > 3
      BY <1>2, <3>2, BehindNoHeader
    <3>4. a = 2
      BY <1>2, BehindSettled
    <3> QED
      BY <3>3, <3>4
  <2>3. PICK e \in Nat : e = Len(b)
    BY <1>0
  <2>4. e = 1
    BY <2>1, <2>2, <2>3
  <2> QED
    BY <1>2, <2>3, <2>4
<1> QED
  BY <1>1, <1>2

\* A write is appended: g cells of the frame are still to come.
LEMMA PhaseMove ==
  ASSUME NEW s \in Seq(Cell), NEW b, NEW h, FrontOf(b, s, h), Settled(b), NEW g \in Nat, g <= h,
         NEW base \in Nat, NEW n \in Int, NEW wt, NEW snt, NEW clean,
         NEW p, p = FALSE, NEW r, Phase(s, h, base, n, p, wt, snt, clean)
  PROVE  Phase(s, g, base, n, r, wt, snt, clean)
<1>0. h \in Nat
  BY DEF FrontOf
<1>1. CASE n < 0 /\ ~clean
  BY <1>1 DEF Phase
<1>2. CASE n >= 0 /\ Stuck(s, h, base, n, p) /\ ~clean
  <2>1. n \in Nat /\ 1 \in Nat
    BY <1>2
  <2>2. n <= MostLost
    BY <1>2, <2>1, StuckRoom
  <2>3. PICK a \in Nat : a > 1 /\ Laid(s, h, base, a, 1, n)
    BY <1>2 DEF Stuck
  <2>4. Laid(s, g, base, a, 1, n)
    BY <1>0, <2>1, <2>3, LaidHead
  <2>5. Stuck(s, g, base, n, r)
    BY <2>2, <2>3, <2>4 DEF Stuck
  <2> QED
    BY <1>2, <2>5 DEF Phase
<1>3. CASE n >= 0 /\ Synced(s, h, base, n, wt, snt, clean)
  <2>1. n \in Nat
    BY <1>3
  <2>2. PICK k \in 0 .. n : /\ Laid(s, h, base, 1, k + 1, n) /\ Kept(wt, base, k)
                            /\ clean => Undamaged(wt, base, k, snt)
    BY <1>3 DEF Synced
  <2>3. k + 1 \in Nat
    OBVIOUS
  <2>4. Laid(s, g, base, 1, k + 1, n)
    BY <1>0, <2>1, <2>2, <2>3, LaidHead
  <2>5. Synced(s, g, base, n, wt, snt, clean)
    BY <2>2, <2>4 DEF Synced
  <2> QED
    BY <1>3, <2>5 DEF Phase
<1>4. CASE n >= 0 /\ Behind(s, h, base, n, p) /\ ~clean
  <2>1. n \in Nat
    BY <1>4
  <2>2. PICK k \in 1 .. n, a \in Nat : Lagging(s, h, base, n, p, k, a)
    BY <1>4, BehindIs
  <2>3. /\ a > 1 /\ Laid(s, h, base, a, k + 1, n) /\ k <= MostLost /\ TailOf(s, a, base + k)
        /\ n = k \/ a = 2
    BY <2>2 DEF Lagging
  <2>4. k + 1 \in Nat
    OBVIOUS
  <2>5. Laid(s, g, base, a, k + 1, n)
    BY <1>0, <2>1, <2>3, <2>4, LaidHead
  <2>6. Lagging(s, g, base, n, r, k, a)
    BY <2>3, <2>5 DEF Lagging
  <2>7. Behind(s, g, base, n, r)
    BY <2>6, BehindIs
  <2> QED
    BY <1>4, <2>7 DEF Phase
<1> QED
  BY <1>1, <1>2, <1>3, <1>4 DEF Phase

\* A write that does not fit is dropped and the buffer with it.
LEMMA PhaseOverflow ==
  ASSUME NEW s \in Seq(Cell), NEW b, NEW h, FrontOf(b, s, h), Settled(b),
         NEW cnt \in Nat, cnt <= h, cnt <= ChunkMax, Len(b) + cnt > BufMax,
         NEW m \in 0 .. Len(s), m = Len(b) + cnt, NEW t, Takes(Cell, s, m, Len(s) - m, t),
         NEW g \in Nat, g = h - cnt,
         NEW base \in Nat, NEW n \in Int, NEW wt \in Seq(Nat), NEW snt, NEW clean,
         NEW p, p = FALSE, Phase(s, h, base, n, p, wt, snt, clean)
  PROVE  Phase(t, g, base, n, FALSE, wt, snt, clean)
<1>0. /\ Len(b) \in Nat /\ h \in Nat /\ Len(s) = Len(b) + h /\ Len(s) \in Nat
      /\ g <= h /\ m + g = Len(s)
  BY LenProperties DEF FrontOf
<1>1. CASE n < 0 /\ ~clean
  BY <1>1 DEF Phase
<1>2. CASE n >= 0 /\ Stuck(s, h, base, n, p) /\ ~clean
  <2>1. n \in Nat /\ 1 \in Nat /\ 1 <= n + 1
    BY <1>2
  <2>2. n <= MostLost
    BY <1>2, <2>1, StuckRoom
  <2>3. PICK a \in Nat : a > 1 /\ Laid(s, h, base, a, 1, n)
    BY <1>2 DEF Stuck
  <2>4. Laid(s, g, base, a, 1, n)
    BY <1>0, <2>1, <2>3, LaidHead
  <2>5. CASE m + 1 < a
    <3>1. m < a /\ a - m \in Nat /\ a - m > 1
      BY <2>3, <2>5
    <3>2. Laid(t, g, base, a - m, 1, n)
      BY <1>0, <2>1, <2>4, <3>1, LaidDrop
    <3>3. Stuck(t, g, base, n, FALSE)
      BY <3>1, <3>2 DEF Stuck
    <3> QED
      BY <1>2, <3>3 DEF Phase
  <2>6. CASE a <= m + 1
    <3>1. a >= 1 /\ 1 >= 1
      BY <2>3
    <3>2. Synced(t, g, base, n, wt, snt, FALSE) \/ Behind(t, g, base, n, FALSE)
      BY <1>0, <2>1, <2>2, <2>4, <2>6, <3>1, Emptied
    <3> QED
      BY <1>2, <3>2, PhaseDamaged
  <2>7. m + 1 < a \/ a <= m + 1
    BY <2>3
  <2> QED
    BY <2>5, <2>6, <2>7
<1>3. CASE n >= 0 /\ Synced(s, h, base, n, wt, snt, clean)
  <2>1. n \in Nat
    BY <1>3
  <2>2. PICK k \in 0 .. n : Laid(s, h, base, 1, k + 1, n)
    BY <1>3 DEF Synced
  <2>3. Len(s) = 0 \/ Len(s) <= BufMax
    BY <2>1, <2>2, SyncedRoom
  <2> QED
    BY <1>0, <2>3, FramesAssumption
<1>4. CASE n >= 0 /\ Behind(s, h, base, n, p) /\ ~clean
  <2>1. n \in Nat
    BY <1>4
  <2>2. PICK k \in 1 .. n, a \in Nat : Lagging(s, h, base, n, p, k, a)
    BY <1>4, BehindIs
  <2>3. Len(s) < BufMax \/ Len(b) = 1
    BY <2>1, <2>2, BehindRoom
  <2>4. Len(b) # 1
    <3>1. cnt < BufMax
      BY FramesAssumption
    <3>2. PICK e \in Nat : e = Len(b)
      BY <1>0
    <3>3. e + cnt > BufMax
      BY <3>2
    <3>4. e # 1
      BY <3>1, <3>3, FramesAssumption
    <3> QED
      BY <3>2, <3>4
  <2>5. ~(Len(s) < BufMax)
    BY <1>0, FramesAssumption
  <2> QED
    BY <2>3, <2>4, <2>5
<1> QED
  BY <1>1, <1>2, <1>3, <1>4 DEF Phase

\* The next frame begins to arrive.
LEMMA PhaseBegin ==
  ASSUME NEW s \in Seq(Cell), FrontOf(s, s, 0), Settled(s),
         NEW f \in Seq(Cell), NEW g \in Nat, g = Len(f), g >= 1, NEW r, Joins(Cell, s, f, r),
         NEW base \in Nat, NEW n \in Int,
         n >= 0 => \E b \in Bodies : f = Frame(base + (n + 1), b),
         NEW wt \in Seq(Nat), NEW snt, NEW clean,
         NEW p, p = FALSE, Phase(s, 0, base, n, p, wt, snt, clean)
  PROVE  Phase(r, g, base, n + 1, p, wt, snt, clean)
<1>0. /\ Len(s) \in Nat /\ r \in Seq(Cell) /\ Len(r) = Len(s) + g
  BY LenProperties DEF Joins
<1>1. CASE n < 0 /\ ~clean
  <2>1. CASE n + 1 < 0
    BY <1>1, <2>1 DEF Phase
  <2>2. CASE n + 1 = 0
    <3>1. Laid(r, g, base, Len(r) + 1, 0 + 1, 0)
      BY <1>0, LaidNone
    <3>2. Len(r) + 1 \in Nat /\ Len(r) + 1 > 1 /\ 0 + 1 = 1
      BY <1>0
    <3>3. Stuck(r, g, base, 0, p)
      BY <3>1, <3>2 DEF Stuck
    <3> QED
      BY <1>1, <2>2, <3>3 DEF Phase
  <2>3. n + 1 < 0 \/ n + 1 = 0
    BY <1>1
  <2> QED
    BY <2>1, <2>2, <2>3
<1>2. ASSUME n >= 0
      PROVE  /\ n \in Nat /\ n + 1 \in Nat /\ n + 1 >= 0
             /\ \A a \in Nat, i \in Nat : a >= 1 /\ i <= n + 1 /\ Laid(s, 0, base, a, i, n)
                                            => Laid(r, g, base, a, i, n + 1)
  <2>1. n \in Nat /\ n + 1 \in Nat /\ n + 1 >= 0
    BY <1>2
  <2>2. PICK b \in Bodies : f = Frame(base + (n + 1), b)
    BY <1>2
  <2>3. g = Len(b) + 6
    <3>1. base + (n + 1) \in Nat
      BY <2>1
    <3>2. Len(Frame(base + (n + 1), b)) = Len(b) + 6
      BY <3>1, FrameCells
    <3> QED
      BY <2>2, <3>2
  <2>4. Joins(Cell, s, Frame(base + (n + 1), b), r)
    BY <2>2
  <2>5. ASSUME NEW a \in Nat, NEW i \in Nat, a >= 1, i <= n + 1, Laid(s, 0, base, a, i, n)
        PROVE  Laid(r, g, base, a, i, n + 1)
    <3>1. Laid(r, Len(b) + 6, base, a, i, n + 1)
      BY <2>1, <2>4, <2>5, LaidBegin
    <3> QED
      BY <2>3, <3>1
  <2> QED
    BY <2>1, <2>5
<1>3. CASE n >= 0 /\ Stuck(s, 0, base, n, p) /\ ~clean
  <2>1. PICK a \in Nat : a > 1 /\ Laid(s, 0, base, a, 1, n)
    BY <1>3 DEF Stuck
  <2>2. a >= 1 /\ 1 \in Nat /\ 1 <= n + 1
    BY <1>3, <2>1
  <2>3. Laid(r, g, base, a, 1, n + 1)
    BY <1>2, <1>3, <2>1, <2>2
  <2>4. Stuck(r, g, base, n + 1, p)
    BY <2>1, <2>3 DEF Stuck
  <2> QED
    BY <1>2, <1>3, <2>4 DEF Phase
<1>4. CASE n >= 0 /\ Synced(s, 0, base, n, wt, snt, clean)
  <2>1. PICK k \in 0 .. n : /\ Laid(s, 0, base, 1, k + 1, n) /\ Kept(wt, base, k)
                            /\ clean => Undamaged(wt, base, k, snt)
    BY <1>4 DEF Synced
  <2>2. k \in 0 .. n + 1 /\ k + 1 \in Nat /\ k + 1 <= n + 1 /\ 1 \in Nat /\ 1 >= 1
    OBVIOUS
  <2>3. Laid(r, g, base, 1, k + 1, n + 1)
    BY <1>2, <1>4, <2>1, <2>2
  <2>4. Synced(r, g, base, n + 1, wt, snt, clean)
    BY <2>1, <2>2, <2>3 DEF Synced
  <2> QED
    BY <1>2, <1>4, <2>4 DEF Phase
<1>5. CASE n >= 0 /\ Behind(s, 0, base, n, p) /\ ~clean
  <2>1. PICK k \in 1 .. n, a \in Nat : Lagging(s, 0, base, n, p, k, a)
    BY <1>5, BehindIs
  <2>2. /\ a > 1 /\ Laid(s, 0, base, a, k + 1, n) /\ k <= MostLost /\ TailOf(s, a, base + k)
        /\ n = k \/ a = 2
    BY <2>1 DEF Lagging
  <2>3. a = 2
    <3>1. SUFFICES ASSUME n = k PROVE a = 2
      BY <2>2
    <3>2. a = Len(s) + 1
      BY <1>2, <1>5, <2>1, <3>1, BehindRoom
    <3>3. ~(Len(s) >= 2)
      <4>1. SUFFICES ASSUME Len(s) >= 2 PROVE FALSE
        OBVIOUS
      <4>2. Header(s)
        BY <1>0, <4>1 DEF Settled
      <4>3. base + k \in Nat
        OBVIOUS
      <4>4. a # 3
        BY <2>2, <4>2, <4>3, TailHeader DEF Header
      <4>5. Len(s) >= 3
        BY <1>0, <3>2, <4>1, <4>4
      <4>6. Claimed(s[3]) = BufMax + 1
        BY <1>2, <1>5, <2>1, <4>2, <4>5, BehindNoHeader
      <4>7. Claimed(s[3]) <= BufMax
        BY <1>0, <4>5, FramesAssumption DEF Settled
      <4> QED
        BY <4>6, <4>7, FramesAssumption
    <3> QED
      BY <1>0, <2>2, <3>2, <3>3
  <2>4. k \in 1 .. n + 1 /\ k + 1 \in Nat /\ k + 1 <= n + 1 /\ a >= 1
    BY <2>3
  <2>5. Laid(r, g, base, a, k + 1, n + 1)
    BY <1>2, <1>5, <2>2, <2>4
  <2>6. a <= Len(s) + 1
    <3>1. a - 1 <= Len(s)
      BY <1>2, <1>5, <2>1, Covered
    <3> QED
      BY <1>0, <3>1
  <2>7. TailOf(r, a, base + k)
    BY <2>2, <2>6, TailWider
  <2>8. Lagging(r, g, base, n + 1, p, k, a)
    BY <2>2, <2>3, <2>5, <2>7 DEF Lagging
  <2>9. Behind(r, g, base, n + 1, p)
    BY <2>4, <2>8, BehindIs
  <2> QED
    BY <1>2, <1>5, <2>9 DEF Phase
<1> QED
  BY <1>1, <1>3, <1>4, <1>5 DEF Phase

\* The phone starts a sound frame.
LEMMA PhaseSend ==
  ASSUME NEW s, NEW h, NEW base \in Nat, NEW n \in Int, NEW wt \in Seq(Nat), NEW snt \in Nat,
         base + n <= snt, NEW p, NEW clean, Phase(s, h, base, n, p, wt, snt, clean)
  PROVE  Phase(s, h, base, n, p, Append(wt, snt + 1), snt + 1, clean)
<1> DEFINE ut == Append(wt, snt + 1)
<1>1. CASE n >= 0 /\ Synced(s, h, base, n, wt, snt, clean)
  <2>1. PICK k \in 0 .. n : /\ Laid(s, h, base, 1, k + 1, n) /\ Kept(wt, base, k)
                            /\ clean => Undamaged(wt, base, k, snt)
    BY <1>1 DEF Synced
  <2>2. /\ Len(wt) \in Nat /\ Len(ut) = Len(wt) + 1 /\ DOMAIN ut = 1 .. Len(wt) + 1
        /\ \A j \in 1 .. Len(wt) : ut[j] = wt[j]
        /\ ut[Len(wt) + 1] = snt + 1 /\ DOMAIN wt = 1 .. Len(wt)
    BY AppendProperties, LenProperties
  <2> HIDE DEF ut
  <2>3. ASSUME NEW j \in DOMAIN ut PROVE ut[j] <= base + MostLost \/ ut[j] > base + k
    <3>1. CASE j = Len(wt) + 1
      BY <2>2, <3>1
    <3>2. CASE j \in 1 .. Len(wt)
      BY <2>1, <2>2, <3>2 DEF Kept
    <3> QED
      BY <2>2, <3>1, <3>2
  <2>4. Kept(ut, base, k)
    BY <2>3 DEF Kept
  <2>5. ASSUME clean PROVE Undamaged(ut, base, k, snt + 1)
    <3>1. Undamaged(wt, base, k, snt)
      BY <2>1, <2>5
    <3>2. base = 0 /\ Len(wt) + k = snt /\ \A j \in DOMAIN wt : wt[j] = k + j
      BY <3>1 DEF Undamaged
    <3>3. Len(ut) + k = snt + 1
      BY <2>2, <3>2
    <3>4. ASSUME NEW j \in DOMAIN ut PROVE ut[j] = k + j
      <4>1. CASE j = Len(wt) + 1
        BY <2>2, <3>2, <4>1
      <4>2. CASE j \in 1 .. Len(wt)
        BY <2>2, <3>2, <4>2
      <4> QED
        BY <2>2, <4>1, <4>2
    <3> QED
      BY <3>2, <3>3, <3>4 DEF Undamaged
  <2>6. Synced(s, h, base, n, ut, snt + 1, clean)
    BY <2>1, <2>4, <2>5 DEF Synced
  <2>7. Phase(s, h, base, n, p, ut, snt + 1, clean)
    BY <1>1, <2>6 DEF Phase
  <2> QED
    BY <2>7 DEF ut
<1> HIDE DEF ut
<1>2. CASE ~(n >= 0 /\ Synced(s, h, base, n, wt, snt, clean))
  <2>1. Phase(s, h, base, n, p, ut, snt + 1, clean)
    BY <1>2 DEF Phase
  <2> QED
    BY <2>1 DEF ut
<1> QED
  BY <1>1, <1>2

\* The last damage was just now; what is left of a frame no longer counts.
LEMMA PhaseReset ==
  ASSUME NEW s \in Seq(Cell), NEW h, NEW base \in Nat, NEW n \in Int, n <= 0,
         NEW wt \in Seq(Nat), NEW snt, NEW clean, ~clean
  PROVE  Phase(s, h, base, n, FALSE, wt, snt, clean)
<1>1. CASE n < 0
  BY <1>1 DEF Phase
<1>2. CASE n = 0
  <2>1. Laid(s, h, base, Len(s) + 1, 0 + 1, 0)
    BY LaidNone
  <2>2. Len(s) \in Nat
    BY LenProperties
  <2>3. CASE Len(s) = 0
    <3>1. Laid(s, h, base, 1, 0 + 1, 0) /\ 0 \in 0 .. 0
      BY <2>1, <2>3
    <3>2. Kept(wt, base, 0)
      BY KeptAll, MostLostIs
    <3>3. Synced(s, h, base, 0, wt, snt, clean)
      BY <3>1, <3>2 DEF Synced
    <3> QED
      BY <1>2, <3>3 DEF Phase
  <2>4. CASE Len(s) # 0
    <3>1. Len(s) + 1 \in Nat /\ Len(s) + 1 > 1 /\ 0 + 1 = 1
      BY <2>2, <2>4
    <3>2. Stuck(s, h, base, 0, FALSE)
      BY <2>1, <3>1 DEF Stuck
    <3> QED
      BY <1>2, <3>2 DEF Phase
  <2> QED
    BY <2>3, <2>4
<1>3. n < 0 \/ n = 0
  OBVIOUS
<1> QED
  BY <1>1, <1>2, <1>3

-----------------------------------------------------------------------------
(* The stream: what the buffer holds and what is to come of the frame that *)
(* is being delivered.                                                     *)

\* Of the frames a that the phone is sending w are still whole; s is the buffer
\* and the h cells that are left of the one before them.
Delivers(b, a, s, h, w) ==
  \/ s = b /\ h = 0 /\ w = a
  \/ a # <<>> /\ s = b \o a[1] /\ h = Len(a[1]) /\ w = Tail(a)

\* Of the whole frames those sent after the last damage are the last ones.
Fresh(w, snt, snc) ==
  \A x \in 1 .. Len(w) :
     x + snc > Len(w) => \E b \in Bodies : w[x] = Frame((snt - Len(w)) + x, b)

Follows(s, h, w, p, wt, snt, snc, dmg) ==
  /\ s \in Seq(Cell) /\ h \in Nat /\ w \in Seq(Seq(Cell))
  /\ Genuine(s, w, wt) /\ Fresh(w, snt, snc)
  /\ Phase(s, h, snt - snc, snc - Len(w), p, wt, snt, dmg = 0)

Flows(b, a, p, wt, snt, snc, dmg) ==
  \E s, h, w : Delivers(b, a, s, h, w) /\ Follows(s, h, w, p, wt, snt, snc, dmg)

\* What a frame of the phone is: cells, at least one.
Sending(a) == a \in Seq(Seq(Cell)) /\ \A k \in DOMAIN a : Len(a[k]) >= 1

LEMMA SendingFirst ==
  ASSUME NEW a, Sending(a), a # <<>>
  PROVE  /\ a[1] \in Seq(Cell) /\ Len(a[1]) \in Nat /\ Len(a[1]) >= 1 /\ Head(a) = a[1]
         /\ Tail(a) \in Seq(Seq(Cell)) /\ Len(Tail(a)) = Len(a) - 1 /\ Sending(Tail(a))
         /\ \A k \in 1 .. Len(a) - 1 : Tail(a)[k] = a[k + 1]
         /\ Len(a) \in Nat /\ Len(a) >= 1
<1>1. a \in Seq(Seq(Cell)) /\ Len(a) \in Nat /\ DOMAIN a = 1 .. Len(a)
  BY LenProperties DEF Sending
<1>2. Len(a) >= 1
  BY <1>1, EmptySeq
<1>3. 1 \in 1 .. Len(a)
  BY <1>1, <1>2
<1>4. a[1] \in Seq(Cell) /\ Len(a[1]) >= 1
  BY <1>1, <1>3, ElementOfSeq DEF Sending
<1>5. /\ Tail(a) \in Seq(Seq(Cell)) /\ Len(Tail(a)) = Len(a) - 1
      /\ \A k \in 1 .. Len(Tail(a)) : Tail(a)[k] = a[k + 1]
  BY <1>1, HeadTailProperties
<1>6. Sending(Tail(a))
  <2>1. ASSUME NEW k \in DOMAIN Tail(a) PROVE Len(Tail(a)[k]) >= 1
    <3>1. k \in 1 .. Len(Tail(a))
      BY <1>5, LenProperties
    <3>2. k + 1 \in DOMAIN a /\ Tail(a)[k] = a[k + 1]
      BY <1>1, <1>5, <3>1
    <3> QED
      BY <3>2 DEF Sending
  <2> QED
    BY <1>5, <2>1 DEF Sending
<1>7. Head(a) = a[1]
  BY <1>1
<1>8. Len(a[1]) \in Nat
  BY <1>4, LenProperties
<1> QED
  BY <1>1, <1>2, <1>4, <1>5, <1>6, <1>7, <1>8

LEMMA DeliversIs ==
  ASSUME NEW b \in Seq(Cell), NEW a, Sending(a), NEW s, NEW h, NEW w, Delivers(b, a, s, h, w)
  PROVE  /\ s \in Seq(Cell) /\ h \in Nat /\ w \in Seq(Seq(Cell)) /\ FrontOf(b, s, h)
         /\ \/ s = b /\ h = 0 /\ w = a
            \/ a # <<>> /\ Joins(Cell, b, a[1], s) /\ h = Len(a[1]) /\ w = Tail(a)
<1>0. Len(b) \in Nat
  BY LenProperties
<1>1. CASE s = b /\ h = 0 /\ w = a
  <2>1. FrontOf(b, s, h)
    BY <1>0, <1>1 DEF FrontOf
  <2> QED
    BY <1>1, <2>1 DEF Sending
<1>2. CASE a # <<>> /\ s = b \o a[1] /\ h = Len(a[1]) /\ w = Tail(a)
  <2>1. a[1] \in Seq(Cell) /\ h \in Nat /\ w \in Seq(Seq(Cell))
    BY <1>2, SendingFirst
  <2>2. Joins(Cell, b, a[1], s)
    BY <1>2, <2>1, Joined
  <2>3. s \in Seq(Cell) /\ Len(s) = Len(b) + h /\ \A q \in 1 .. Len(b) : s[q] = b[q]
    BY <1>2, <2>2 DEF Joins
  <2>4. FrontOf(b, s, h)
    BY <2>1, <2>3 DEF FrontOf
  <2> QED
    BY <1>2, <2>1, <2>2, <2>3, <2>4
<1> QED
  BY <1>1, <1>2 DEF Delivers

\* Cells are taken off the buffer.
LEMMA DeliversDrop ==
  ASSUME NEW b \in Seq(Cell), NEW a, Sending(a), NEW s, NEW h, NEW w, Delivers(b, a, s, h, w),
         NEW m \in 0 .. Len(b), NEW c, Takes(Cell, b, m, Len(b) - m, c)
  PROVE  /\ m \in 0 .. Len(s)
         /\ \E t \in Seq(Cell) : Delivers(c, a, t, h, w) /\ Takes(Cell, s, m, Len(s) - m, t)
<1>0. Len(b) \in Nat /\ c \in Seq(Cell) /\ Len(c) = Len(b) - m /\ \A q \in 1 .. Len(b) - m : c[q] = b[m + q]
  BY LenProperties DEF Takes
<1>1. CASE s = b /\ h = 0 /\ w = a
  BY <1>0, <1>1 DEF Delivers
<1>2. CASE a # <<>> /\ Joins(Cell, b, a[1], s) /\ h = Len(a[1]) /\ w = Tail(a)
  <2>1. a[1] \in Seq(Cell) /\ h \in Nat
    BY <1>2, SendingFirst
  <2>2. PICK t : t = c \o a[1]
    OBVIOUS
  <2>3. Joins(Cell, c, a[1], t)
    BY <1>0, <2>1, <2>2, Joined
  <2>4. /\ t \in Seq(Cell) /\ Len(t) = (Len(b) - m) + h
        /\ \A q \in 1 .. Len(b) - m : t[q] = c[q]
        /\ \A q \in 1 .. h : t[(Len(b) - m) + q] = a[1][q]
    BY <1>0, <1>2, <2>3 DEF Joins
  <2>5. /\ Len(s) = Len(b) + h
        /\ \A q \in 1 .. Len(b) : s[q] = b[q]
        /\ \A q \in 1 .. h : s[Len(b) + q] = a[1][q]
    BY <1>2 DEF Joins
  <2>6. ASSUME NEW q \in 1 .. Len(s) - m PROVE t[q] = s[m + q]
    <3>1. CASE q <= Len(b) - m
      <4>1. q \in 1 .. Len(b) - m /\ m + q \in 1 .. Len(b)
        BY <1>0, <3>1
      <4> QED
        BY <1>0, <2>4, <2>5, <4>1
    <3>2. CASE q > Len(b) - m
      <4>1. PICK x \in 1 .. h : q = (Len(b) - m) + x
        <5>1. q - (Len(b) - m) \in 1 .. h /\ q = (Len(b) - m) + (q - (Len(b) - m))
          BY <1>0, <2>1, <2>5, <3>2
        <5> QED
          BY <5>1
      <4>2. m + q = Len(b) + x
        BY <1>0, <4>1
      <4> QED
        BY <2>4, <2>5, <4>1, <4>2
    <3>3. q <= Len(b) - m \/ q > Len(b) - m
      BY <1>0
    <3> QED
      BY <3>1, <3>2, <3>3
  <2>7. Len(t) = Len(s) - m /\ m \in 0 .. Len(s)
    BY <1>0, <2>1, <2>4, <2>5
  <2>8. Takes(Cell, s, m, Len(s) - m, t)
    BY <2>4, <2>6, <2>7 DEF Takes
  <2>9. Delivers(c, a, t, h, w)
    BY <1>2, <2>2 DEF Delivers
  <2> QED
    BY <2>4, <2>7, <2>8, <2>9
<1> QED
  BY <1>1, <1>2, DeliversIs

\* Back to the main loop.
LEMMA FlowNeedMore ==
  ASSUME NEW b \in Seq(Cell), Settled(b), NEW a, Sending(a),
         NEW wt, NEW snt \in Nat, NEW snc \in 0 .. snt, NEW dmg \in Nat,
         Flows(b, a, TRUE, wt, snt, snc, dmg)
  PROVE  Flows(b, a, FALSE, wt, snt, snc, dmg)
<1>1. PICK s, h, w : Delivers(b, a, s, h, w) /\ Follows(s, h, w, TRUE, wt, snt, snc, dmg)
  BY DEF Flows
<1>2. s \in Seq(Cell) /\ FrontOf(b, s, h) /\ w \in Seq(Seq(Cell))
  BY <1>1, DeliversIs
<1>3. PICK clean : clean = (dmg = 0)
  OBVIOUS
<1>4. PICK base \in Nat, n \in Int : base = snt - snc /\ n = snc - Len(w)
  <2>1. snt - snc \in Nat /\ snc - Len(w) \in Int
    BY <1>2, LenProperties
  <2> QED
    BY <2>1
<1>5. Phase(s, h, base, n, TRUE, wt, snt, clean)
  BY <1>1, <1>3, <1>4 DEF Follows
<1>6. Phase(s, h, base, n, FALSE, wt, snt, clean)
  BY <1>2, <1>5, PhaseNeedMore
<1>7. Follows(s, h, w, FALSE, wt, snt, snc, dmg)
  BY <1>1, <1>3, <1>4, <1>6 DEF Follows
<1> QED
  BY <1>1, <1>7 DEF Flows

\* What taking m cells off does to the phase and to the stream.
PhaseGoes(b, m, p, r, wt, ut, snt) ==
  \A s \in Seq(Cell), base \in Nat, n \in Int : \A h, t, clean :
     FrontOf(b, s, h) /\ m \in 0 .. Len(s) /\ Takes(Cell, s, m, Len(s) - m, t)
     /\ Phase(s, h, base, n, p, wt, snt, clean)
       => Phase(t, h, base, n, r, ut, snt, clean)

GenuineGoes(b, m, wt, ut) ==
  \A s \in Seq(Cell) : \A h, t, w :
     FrontOf(b, s, h) /\ m \in 0 .. Len(s) /\ Takes(Cell, s, m, Len(s) - m, t)
     /\ Genuine(s, w, wt)
       => Genuine(t, w, ut)

LEMMA FlowDrop ==
  ASSUME NEW b \in Seq(Cell), NEW a, Sending(a), NEW p, NEW wt, NEW snt \in Nat,
         NEW snc \in 0 .. snt, NEW dmg \in Nat, Flows(b, a, p, wt, snt, snc, dmg),
         NEW m \in 0 .. Len(b), NEW c, Takes(Cell, b, m, Len(b) - m, c), NEW r, NEW ut,
         PhaseGoes(b, m, p, r, wt, ut, snt), GenuineGoes(b, m, wt, ut)
  PROVE  Flows(c, a, r, ut, snt, snc, dmg)
<1>1. PICK s, h, w : Delivers(b, a, s, h, w) /\ Follows(s, h, w, p, wt, snt, snc, dmg)
  BY DEF Flows
<1>2. s \in Seq(Cell) /\ FrontOf(b, s, h) /\ w \in Seq(Seq(Cell)) /\ h \in Nat
  BY <1>1, DeliversIs
<1>3. PICK t \in Seq(Cell) : /\ Delivers(c, a, t, h, w) /\ Takes(Cell, s, m, Len(s) - m, t)
                             /\ m \in 0 .. Len(s)
  BY <1>1, DeliversDrop
<1>4. PICK clean : clean = (dmg = 0)
  OBVIOUS
<1>5. PICK base \in Nat, n \in Int : base = snt - snc /\ n = snc - Len(w)
  <2>1. snt - snc \in Nat /\ snc - Len(w) \in Int
    BY <1>2, LenProperties
  <2> QED
    BY <2>1
<1>6. Phase(s, h, base, n, p, wt, snt, clean) /\ Genuine(s, w, wt) /\ Fresh(w, snt, snc)
  BY <1>1, <1>4, <1>5 DEF Follows
<1>7. Phase(t, h, base, n, r, ut, snt, clean)
  BY <1>2, <1>3, <1>6 DEF PhaseGoes
<1>8. Genuine(t, w, ut)
  BY <1>2, <1>3, <1>6 DEF GenuineGoes
<1>9. Follows(t, h, w, r, ut, snt, snc, dmg)
  BY <1>2, <1>4, <1>5, <1>6, <1>7, <1>8 DEF Follows
<1> QED
  BY <1>3, <1>9 DEF Flows

LEMMA DropGenuine ==
  ASSUME NEW b, NEW m, NEW wt
  PROVE  GenuineGoes(b, m, wt, wt)
<1>1. ASSUME NEW s \in Seq(Cell), NEW h, NEW t, NEW w, m \in 0 .. Len(s),
             Takes(Cell, s, m, Len(s) - m, t), Genuine(s, w, wt)
      PROVE  Genuine(t, w, wt)
  BY <1>1, GenuineDrop
<1> QED
  BY <1>1 DEF GenuineGoes

LEMMA FlowSkip ==
  ASSUME NEW b \in Seq(Cell), Len(b) >= 2, ~Header(b), NEW a, Sending(a),
         NEW wt \in Seq(Nat), NEW snt \in Nat, NEW snc \in 0 .. snt, NEW dmg \in Nat,
         NEW p, p = TRUE, Flows(b, a, p, wt, snt, snc, dmg),
         NEW c, Takes(Cell, b, 1, Len(b) - 1, c)
  PROVE  Flows(c, a, p, wt, snt, snc, dmg)
<1>1. 1 \in 0 .. Len(b)
  BY LenProperties
<1>2. PhaseGoes(b, 1, p, p, wt, wt, snt)
  <2>1. ASSUME NEW s \in Seq(Cell), NEW base \in Nat, NEW n \in Int, NEW h, NEW t, NEW clean,
               FrontOf(b, s, h), Takes(Cell, s, 1, Len(s) - 1, t),
               Phase(s, h, base, n, p, wt, snt, clean)
        PROVE  Phase(t, h, base, n, p, wt, snt, clean)
    BY <2>1, PhaseSkip
  <2> QED
    BY <2>1 DEF PhaseGoes
<1> QED
  BY <1>1, <1>2, DropGenuine, FlowDrop

LEMMA FlowClear ==
  ASSUME NEW b \in Seq(Cell), Header(b), Len(b) >= 3, Claimed(b[3]) > BufMax, NEW a, Sending(a),
         NEW wt \in Seq(Nat), NEW snt \in Nat, NEW snc \in 0 .. snt, NEW dmg \in Nat,
         NEW p, p = TRUE, Flows(b, a, p, wt, snt, snc, dmg)
  PROVE  Flows(<<>>, a, FALSE, wt, snt, snc, dmg)
<1>1. PICK m \in Nat : m = Len(b)
  BY LenProperties
<1>2. m \in 0 .. Len(b)
  BY <1>1
<1>3. Takes(Cell, b, m, Len(b) - m, <<>>)
  BY <1>1 DEF Takes
<1>4. PhaseGoes(b, m, p, FALSE, wt, wt, snt)
  <2>1. ASSUME NEW s \in Seq(Cell), NEW base \in Nat, NEW n \in Int, NEW h, NEW t, NEW clean,
               FrontOf(b, s, h), m \in 0 .. Len(s), Takes(Cell, s, m, Len(s) - m, t),
               Phase(s, h, base, n, p, wt, snt, clean)
        PROVE  Phase(t, h, base, n, FALSE, wt, snt, clean)
    BY <1>1, <2>1, PhaseClear
  <2> QED
    BY <2>1 DEF PhaseGoes
<1> QED
  BY <1>2, <1>3, <1>4, DropGenuine, FlowDrop

\* A frame that lies at the front of the buffer passes the check.
LEMMA HoldsSound ==
  ASSUME NEW b \in Seq(Cell), NEW d \in Bodies, NEW id \in Nat, Holds(b, 1, id, d),
         NEW m, m = Len(d) + 6, m <= Len(b)
  PROVE  Sound(SubSeq(b, 1, m))
<1> DEFINE f == Frame(id, d)
           n == Len(d)
           c == Content(id, d)
<1>1. /\ n \in Nat /\ c \in Seq(Plain) /\ Len(c) = n + 2 /\ f \in Seq(Cell) /\ Len(f) = n + 6
      /\ f[n + 5] = Crc(c) /\ f[n + 6] = End
      /\ \A q \in 1 .. n + 2 : f[2 + q] = c[q]
  BY FrameCells
<1>2. \A q \in 1 .. n + 6 : b[(1 - 1) + q] = f[q]
  BY DEF Holds
<1> HIDE DEF f, n, c
<1>3. SubSeq(b, 1, m) = f
  <2>1. m \in Nat /\ 0 + m <= Len(b) /\ 0 + 1 = 1 /\ 0 + m = m /\ m = n + 6
    BY <1>1 DEF n
  <2>2. PICK g : g = SubSeq(b, 0 + 1, 0 + m)
    OBVIOUS
  <2>3. Takes(Cell, b, 0, m, g)
    BY <2>1, <2>2, Taken
  <2>4. g \in Seq(Cell) /\ Len(g) = m /\ \A q \in 1 .. m : g[q] = b[0 + q]
    BY <2>3 DEF Takes
  <2>5. \A q \in 1 .. Len(g) : g[q] = f[q]
    <3>1. \A q \in 1 .. m : q \in 1 .. n + 6 /\ 0 + q = (1 - 1) + q
      BY <2>1
    <3> QED
      BY <1>2, <2>4, <3>1
  <2>6. Len(g) = Len(f)
    BY <1>1, <2>1, <2>4
  <2>7. g = f
    BY <1>1, <2>4, <2>5, <2>6, SeqEqual
  <2> QED
    BY <2>1, <2>2, <2>7
<1>4. SubSeq(f, 3, Len(f) - 2) = c
  <2>1. n + 2 \in Nat /\ 2 + (n + 2) <= Len(f) /\ 2 + 1 = 3 /\ 2 + (n + 2) = Len(f) - 2 /\ 2 \in Nat
    BY <1>1
  <2>2. PICK g : g = SubSeq(f, 2 + 1, 2 + (n + 2))
    OBVIOUS
  <2>3. Takes(Cell, f, 2, n + 2, g)
    BY <1>1, <2>1, <2>2, Taken
  <2>4. g \in Seq(Cell) /\ Len(g) = n + 2 /\ \A q \in 1 .. n + 2 : g[q] = f[2 + q]
    BY <2>3 DEF Takes
  <2>5. c \in Seq(Cell)
    BY <1>1, Cells, SeqMonotonic
  <2>6. Len(g) = Len(c) /\ \A q \in 1 .. Len(g) : g[q] = c[q]
    BY <1>1, <2>4
  <2>7. g = c
    BY <2>4, <2>5, <2>6, SeqEqual
  <2> QED
    BY <2>1, <2>2, <2>7
<1>5. f[Len(f)] = End /\ f[Len(f) - 1] = Crc(c)
  <2>1. Len(f) = n + 6 /\ Len(f) - 1 = n + 5
    BY <1>1
  <2> QED
    BY <1>1, <2>1
<1> QED
  BY <1>3, <1>4, <1>5 DEF Sound

\* Whatever frames follow, those that wait are wt before and ut after.
Advancing(b, m, wt, ut, snt) ==
  \A base \in Nat, n \in Int : \A clean : Advances(b, m, base, n, wt, ut, snt, clean)

LEMMA TakeGoes ==
  ASSUME NEW b \in Seq(Cell), NEW m, Full(b, m), NEW wt \in Seq(Nat), NEW ut \in Seq(Nat), NEW snt,
         Advancing(b, m, wt, ut, snt), NEW p, p = TRUE
  PROVE  PhaseGoes(b, m, p, p, wt, ut, snt)
<1>1. ASSUME NEW s \in Seq(Cell), NEW base \in Nat, NEW n \in Int, NEW h, NEW t, NEW clean,
             FrontOf(b, s, h), m \in 0 .. Len(s), Takes(Cell, s, m, Len(s) - m, t),
             Phase(s, h, base, n, p, wt, snt, clean)
      PROVE  Phase(t, h, base, n, p, ut, snt, clean)
  <2>1. Advances(b, m, base, n, wt, ut, snt, clean)
    BY <1>1 DEF Advancing
  <2> QED
    BY <1>1, <2>1, PhaseTake
<1> QED
  BY <1>1 DEF PhaseGoes

LEMMA FullIs ==
  ASSUME NEW b \in Seq(Cell), NEW m, Full(b, m)
  PROVE  m \in Nat /\ m >= 5 /\ m \in 0 .. Len(b) /\ m \in 5 .. Len(b) /\ Len(b) \in Nat
<1>1. Len(b) \in Nat /\ 3 \in 1 .. Len(b)
  BY LenProperties DEF Full
<1>2. b[3] \in Cell
  BY <1>1, ElementOfSeq
<1>3. m \in Nat /\ m >= 5
  BY <1>2, ClaimedNat DEF Full
<1> QED
  BY <1>1, <1>3 DEF Full

\* A frame that is not sound is dropped.
LEMMA FlowBad ==
  ASSUME NEW b \in Seq(Cell), NEW m, Full(b, m), ~Sound(SubSeq(b, 1, m)), NEW a, Sending(a),
         NEW wt \in Seq(Nat), NEW snt \in Nat, NEW snc \in 0 .. snt, NEW dmg \in Nat,
         NEW p, p = TRUE, Flows(b, a, p, wt, snt, snc, dmg),
         NEW c, Takes(Cell, b, m, Len(b) - m, c)
  PROVE  Flows(c, a, p, wt, snt, snc, dmg)
<1>1. m \in 0 .. Len(b) /\ m <= Len(b)
  BY FullIs
<1>2. ASSUME NEW base \in Nat, NEW n \in Int, NEW clean
      PROVE  Advances(b, m, base, n, wt, wt, snt, clean)
  <2>1. ASSUME NEW k \in 0 .. n - 1, NEW d \in Bodies, m = Len(d) + 6, Holds(b, 1, base + (k + 1), d)
        PROVE  FALSE
    <3>1. base + (k + 1) \in Nat
      OBVIOUS
    <3> QED
      BY <1>1, <2>1, <3>1, HoldsSound
  <2> QED
    BY <2>1 DEF Advances
<1>3. PhaseGoes(b, m, p, p, wt, wt, snt)
  BY <1>2, TakeGoes DEF Advancing
<1> QED
  BY <1>1, <1>3, DropGenuine, FlowDrop

\* What is left of the frames that wait behind the one that is handled.
LEMMA WaitingDrop ==
  ASSUME NEW S, NEW wt \in Seq(S), NEW k \in DOMAIN wt
  PROVE  /\ Len(wt) \in Nat /\ k \in 1 .. Len(wt)
         /\ Takes(S, wt, k, Len(wt) - k, SubSeq(wt, k + 1, Len(wt)))
<1>1. Len(wt) \in Nat /\ k \in 1 .. Len(wt)
  BY LenProperties
<1>2. PICK e \in Nat : e = Len(wt)
  BY <1>1
<1>3. PICK n \in Nat : n = e - k /\ k \in Nat /\ k + n = e
  <2>1. k \in 1 .. e
    BY <1>1, <1>2
  <2>2. e - k \in Nat /\ k \in Nat /\ k + (e - k) = e
    BY <2>1
  <2> QED
    BY <2>2
<1>4. Takes(S, wt, k, n, SubSeq(wt, k + 1, k + n))
  <2>1. k + n <= Len(wt)
    BY <1>2, <1>3
  <2> QED
    BY <1>3, <2>1, Taken
<1> QED
  BY <1>1, <1>2, <1>3, <1>4

\* What closes in the buffer closes in the stream.
LEMMA FrontCloses ==
  ASSUME NEW s \in Seq(Cell), NEW b, NEW h, FrontOf(b, s, h), NEW p, NEW c, Closes(b, p, c)
  PROVE  Closes(s, p, c)
<1>0. Len(b) \in Nat /\ h \in Nat /\ Len(s) = Len(b) + h /\ \A q \in 1 .. Len(b) : s[q] = b[q]
  BY LenProperties DEF FrontOf
<1>1. /\ c \in Seq(Plain) /\ Len(c) >= 1 /\ p \in Nat /\ Len(c) + 2 <= p /\ p <= Len(b)
      /\ b[p] = End /\ b[p - 1] = Crc(c) /\ Len(c) \in Nat
      /\ \A q \in 1 .. Len(c) : b[(p - 2 - Len(c)) + q] = c[q]
  BY LenProperties DEF Closes
<1>2. p \in 1 .. Len(b) /\ p - 1 \in 1 .. Len(b) /\ p <= Len(s)
  BY <1>0, <1>1
<1>3. \A q \in 1 .. Len(c) : (p - 2 - Len(c)) + q \in 1 .. Len(b)
  BY <1>0, <1>1
<1>4. \A q \in 1 .. Len(c) : s[(p - 2 - Len(c)) + q] = c[q]
  BY <1>0, <1>1, <1>3
<1>5. s[p] = End /\ s[p - 1] = Crc(c)
  BY <1>0, <1>1, <1>2
<1> QED
  BY <1>1, <1>2, <1>4, <1>5 DEF Closes

\* A frame that passes the check is one of those that wait.
LEMMA SoundWaits ==
  ASSUME NEW b \in Seq(Cell), NEW m, Full(b, m), Sound(SubSeq(b, 1, m)), NEW a, Sending(a),
         NEW p, NEW wt \in Seq(Nat), NEW snt, NEW snc, NEW dmg,
         Flows(b, a, p, wt, snt, snc, dmg)
  PROVE  /\ \E k \in DOMAIN wt : b[4] = Command(wt[k])
         /\ \E c : Closes(b, m, c) /\ c[2] = b[4]
<1>1. PICK s, h, w : Delivers(b, a, s, h, w) /\ Follows(s, h, w, p, wt, snt, snc, dmg)
  BY DEF Flows
<1>2. s \in Seq(Cell) /\ FrontOf(b, s, h)
  BY <1>1, DeliversIs
<1>3. m \in 5 .. Len(b)
  BY FullIs
<1>4. PICK c : Closes(b, m, c) /\ Len(c) = m - 4 /\ \A q \in 1 .. m - 4 : c[q] = b[2 + q]
  BY <1>3, SoundCloses
<1>5. Closes(s, m, c)
  BY <1>2, <1>4, FrontCloses
<1>6. Known(s, wt)
  BY <1>1 DEF Follows, Genuine
<1>7. Len(c) >= 2 /\ \E k \in DOMAIN wt : c[2] = Command(wt[k])
  BY <1>5, <1>6 DEF Known
<1>8. 2 \in 1 .. m - 4 /\ 2 + 2 = 4
  BY <1>3, <1>4, <1>7
<1>9. c[2] = b[4]
  BY <1>4, <1>8
<1> QED
  BY <1>4, <1>7, <1>9

\* What handling a frame does to those that wait, when it is the next one.
LEMMA HandleAdvances ==
  ASSUME NEW wt \in Seq(Nat), Ascending(wt), NEW k \in DOMAIN wt,
         NEW ut, Takes(Nat, wt, k, Len(wt) - k, ut),
         NEW b, b[4][2] = wt[k], NEW m, NEW snt \in Nat, NEW base \in Nat, NEW n \in Int, NEW clean
  PROVE  Advances(b, m, base, n, wt, ut, snt, clean)
<1>1. PICK e \in Nat : e = Len(wt)
  BY LenProperties
<1>2. /\ k \in 1 .. e /\ DOMAIN wt = 1 .. e /\ ut \in Seq(Nat) /\ Len(ut) = e - k
      /\ \A q \in 1 .. e - k : ut[q] = wt[k + q]
  BY <1>1, LenProperties DEF Takes
<1>3. DOMAIN ut = 1 .. e - k
  BY <1>2, LenProperties
<1>4. \A q \in DOMAIN ut : k + q \in DOMAIN wt /\ k < k + q /\ q \in 1 .. e - k /\ q \in Nat
  <2>1. k \in 1 .. e /\ DOMAIN wt = 1 .. e
    BY <1>2
  <2>2. ASSUME NEW q \in 1 .. e - k PROVE k + q \in 1 .. e /\ k < k + q /\ q \in Nat
    BY <2>1
  <2> QED
    BY <1>3, <2>1, <2>2
<1>5. SUFFICES ASSUME NEW j \in 0 .. n - 1, NEW d \in Bodies, m = Len(d) + 6,
                      Holds(b, 1, base + (j + 1), d), Kept(wt, base, j),
                      clean => Undamaged(wt, base, j, snt)
               PROVE  Kept(ut, base, j + 1) /\ (clean => Undamaged(ut, base, j + 1, snt))
  BY DEF Advances
<1>6. wt[k] = base + (j + 1) /\ j \in Nat
  <2>1. base + (j + 1) \in Nat /\ 1 \in Nat /\ 1 >= 1
    OBVIOUS
  <2>2. b[1 + 3] = Command(base + (j + 1))
    BY <1>5, <2>1, HoldsStart
  <2>3. b[4] = Command(base + (j + 1))
    BY <2>2
  <2> QED
    BY <2>3, Distinct
<1>7. ASSUME NEW q \in DOMAIN ut PROVE ut[q] = wt[k + q] /\ ut[q] > base + (j + 1)
  <2>1. wt[k] < wt[k + q]
    BY <1>4 DEF Ascending
  <2>2. ut[q] = wt[k + q] /\ wt[k + q] \in Nat
    BY <1>2, <1>4, ElementOfSeq
  <2> QED
    BY <1>6, <2>1, <2>2
<1>8. Kept(ut, base, j + 1)
  BY <1>7 DEF Kept
<1>9. ASSUME clean PROVE Undamaged(ut, base, j + 1, snt)
  <2>1. base = 0 /\ e + j = snt /\ \A q \in DOMAIN wt : wt[q] = j + q
    BY <1>1, <1>5, <1>9 DEF Undamaged
  <2>2. k = 1
    <3>1. wt[k] = j + k /\ wt[k] = j + 1
      BY <1>6, <2>1
    <3> QED
      BY <1>2, <1>6, <3>1
  <2>3. Len(ut) + (j + 1) = snt
    BY <1>2, <1>6, <2>1, <2>2
  <2>4. ASSUME NEW q \in DOMAIN ut PROVE ut[q] = (j + 1) + q
    <3>1. ut[q] = j + (k + q)
      BY <1>4, <1>7, <2>1
    <3> QED
      BY <1>4, <1>6, <2>2, <3>1
  <2> QED
    BY <2>1, <2>3, <2>4 DEF Undamaged
<1> QED
  BY <1>8, <1>9

\* The frame is handled: it and those before it no longer wait.
LEMMA FlowHandle ==
  ASSUME NEW b \in Seq(Cell), NEW m, Full(b, m), Sound(SubSeq(b, 1, m)), NEW a, Sending(a),
         NEW wt \in Seq(Nat), Ascending(wt), NEW snt \in Nat, NEW snc \in 0 .. snt, NEW dmg \in Nat,
         NEW p, p = TRUE, Flows(b, a, p, wt, snt, snc, dmg),
         NEW k \in DOMAIN wt, b[4][2] = wt[k], NEW ut, ut = SubSeq(wt, k + 1, Len(wt)),
         NEW c, Takes(Cell, b, m, Len(b) - m, c)
  PROVE  Flows(c, a, p, ut, snt, snc, dmg)
<1>1. m \in 0 .. Len(b) /\ m <= Len(b)
  BY FullIs
<1>2. Takes(Nat, wt, k, Len(wt) - k, ut) /\ ut \in Seq(Nat)
  <2>1. Takes(Nat, wt, k, Len(wt) - k, SubSeq(wt, k + 1, Len(wt)))
    BY WaitingDrop
  <2>2. Takes(Nat, wt, k, Len(wt) - k, ut)
    BY <2>1
  <2> QED
    BY <2>2 DEF Takes
<1>3. PICK e : Closes(b, m, e) /\ e[2] = b[4]
  BY SoundWaits
<1>4. GenuineGoes(b, m, wt, ut)
  <2>1. ASSUME NEW s \in Seq(Cell), NEW h, NEW t, NEW w, FrontOf(b, s, h), m \in 0 .. Len(s),
               Takes(Cell, s, m, Len(s) - m, t), Genuine(s, w, wt)
        PROVE  Genuine(t, w, ut)
    <3>1. Closes(s, m, e)
      BY <1>3, <2>1, FrontCloses
    <3>2. e[2][2] = wt[k]
      BY <1>3
    <3>3. Genuine(t, w, SubSeq(wt, k + 1, Len(wt)))
      BY <2>1, <3>1, <3>2, GenuineHandle
    <3> QED
      BY <3>3
  <2> QED
    BY <2>1 DEF GenuineGoes
<1>5. ASSUME NEW base \in Nat, NEW n \in Int, NEW clean
      PROVE  Advances(b, m, base, n, wt, ut, snt, clean)
  BY <1>2, HandleAdvances
<1>6. PhaseGoes(b, m, p, p, wt, ut, snt)
  BY <1>2, <1>5, TakeGoes DEF Advancing
<1> QED
  BY <1>1, <1>4, <1>6, FlowDrop

\* Without damage the frame that is handled is the one that waits longest.
LEMMA HandledNext ==
  ASSUME NEW b \in Seq(Cell), NEW m, Full(b, m), Sound(SubSeq(b, 1, m)), NEW a, Sending(a),
         NEW wt \in Seq(Nat), NEW snt \in Nat, NEW snc \in 0 .. snt, NEW dmg, dmg = 0,
         NEW p, Flows(b, a, p, wt, snt, snc, dmg), NEW k \in DOMAIN wt, b[4][2] = wt[k]
  PROVE  k = 1
<1>1. PICK s, h, w : Delivers(b, a, s, h, w) /\ Follows(s, h, w, p, wt, snt, snc, dmg)
  BY DEF Flows
<1>2. s \in Seq(Cell) /\ FrontOf(b, s, h) /\ w \in Seq(Seq(Cell))
  BY <1>1, DeliversIs
<1>3. PICK base \in Nat, n \in Int : base = snt - snc /\ n = snc - Len(w)
  <2>1. snt - snc \in Nat /\ snc - Len(w) \in Int
    BY <1>2, LenProperties
  <2> QED
    BY <2>1
<1>4. n >= 0 /\ Synced(s, h, base, n, wt, snt, dmg = 0)
  BY <1>1, <1>3 DEF Follows, Phase
<1>5. n \in Nat
  BY <1>4
<1>6. PICK j \in 0 .. n : Laid(s, h, base, 1, j + 1, n) /\ Undamaged(wt, base, j, snt)
  BY <1>4 DEF Synced
<1>7. Len(b) >= 2 /\ Len(b) \in Nat /\ 4 \in 1 .. Len(b)
  <2>1. m \in 5 .. Len(b) /\ Len(b) \in Nat
    BY FullIs
  <2> QED
    BY <2>1
<1>8. PICK d \in Bodies : Holds(s, 1, base + (j + 1), d)
  BY <1>2, <1>5, <1>6, <1>7, SyncedHeader
<1>9. s[1 + 3] = Command(base + (j + 1))
  <2>1. base + (j + 1) \in Nat /\ 1 \in Nat /\ 1 >= 1
    OBVIOUS
  <2> QED
    BY <1>8, <2>1, HoldsStart
<1>10. b[4] = Command(base + (j + 1))
  <2>1. s[4] = b[4]
    BY <1>2, <1>7 DEF FrontOf
  <2>2. 1 + 3 = 4
    OBVIOUS
  <2> QED
    BY <1>9, <2>1, <2>2
<1>11. wt[k] = base + (j + 1)
  BY <1>10, Distinct
<1>12. base = 0 /\ wt[k] = j + k
  BY <1>6 DEF Undamaged
<1>13. k \in Nat
  BY LenProperties
<1> QED
  BY <1>11, <1>12, <1>13

\* The phone sends the first n cells of the frames a and keeps a2.
Chunked(a, n, a2) ==
  /\ Sending(a2)
  /\ \E c \in Seq(Cell), e \in Seq(Cell) :
       /\ c = SubSeq(Head(a), 1, n) /\ Len(c) = n
       /\ a[1] = c \o e /\ Len(a[1]) = n + Len(e)
       /\ Takes(Cell, a[1], n, Len(a[1]) - n, e)
       /\ \A b \in Seq(Cell) : Delivers(b, a2, b \o e, Len(e), Tail(a))

\* A write takes the first cells of the frame that is being sent.
LEMMA ChunkTaken ==
  ASSUME NEW a, Sending(a), a # <<>>, NEW n \in Nat, n >= 1, n <= Len(a[1]),
         NEW a2, a2 = IF n = Len(Head(a)) THEN Tail(a)
                      ELSE <<SubSeq(Head(a), n + 1, Len(Head(a)))>> \o Tail(a)
  PROVE  Chunked(a, n, a2)
<1>1. PICK f \in Seq(Cell) : f = a[1] /\ f = Head(a)
  BY SendingFirst
<1>2. PICK k \in Nat : n + k = Len(f) /\ k = Len(f) - n
  <2>1. Len(f) \in Nat /\ n <= Len(f)
    BY <1>1, LenProperties
  <2>2. Len(f) - n \in Nat /\ n + (Len(f) - n) = Len(f)
    BY <2>1
  <2> QED
    BY <2>2
<1>3. PICK c : c = SubSeq(f, 0 + 1, 0 + n)
  OBVIOUS
<1>4. PICK e : e = SubSeq(f, n + 1, n + k)
  OBVIOUS
<1>5. Takes(Cell, f, 0, n, c)
  <2>1. 0 + n <= Len(f) /\ 0 \in Nat
    BY <1>2
  <2> QED
    BY <1>3, <2>1, Taken
<1>6. Takes(Cell, f, n, k, e)
  <2>1. n + k <= Len(f)
    BY <1>2
  <2> QED
    BY <1>4, <2>1, Taken
<1>7. c \in Seq(Cell) /\ Len(c) = n /\ \A q \in 1 .. n : c[q] = f[0 + q]
  BY <1>5 DEF Takes
<1>8. e \in Seq(Cell) /\ Len(e) = k /\ \A q \in 1 .. k : e[q] = f[n + q]
  BY <1>6 DEF Takes
<1>9. f = c \o e
  <2>1. PICK g : g = c \o e
    OBVIOUS
  <2>2. Joins(Cell, c, e, g)
    BY <1>7, <1>8, <2>1, Joined
  <2>3. /\ g \in Seq(Cell) /\ Len(g) = n + k /\ \A q \in 1 .. n : g[q] = c[q]
        /\ \A q \in 1 .. k : g[n + q] = e[q]
    BY <1>7, <1>8, <2>2 DEF Joins
  <2>4. ASSUME NEW q \in 1 .. Len(f) PROVE f[q] = g[q]
    <3>1. CASE q <= n
      <4>1. q \in 1 .. n /\ 0 + q = q
        BY <3>1
      <4> QED
        BY <1>7, <2>3, <4>1
    <3>2. CASE q > n
      <4>1. PICK x \in 1 .. k : n + x = q
        <5>1. q - n \in 1 .. k /\ n + (q - n) = q
          BY <1>2, <3>2
        <5> QED
          BY <5>1
      <4>2. f[n + x] = e[x] /\ g[n + x] = e[x]
        BY <1>8, <2>3
      <4> QED
        BY <4>1, <4>2
    <3>3. q <= n \/ q > n
      BY <1>2
    <3> QED
      BY <3>1, <3>2, <3>3
  <2>5. f = g
    BY <1>2, <2>3, <2>4, SeqEqual
  <2> QED
    BY <2>1, <2>5
<1>10. /\ Tail(a) \in Seq(Seq(Cell)) /\ Sending(Tail(a)) /\ Len(Tail(a)) \in Nat
  BY SendingFirst, LenProperties
<1>11. CASE k = 0
  <2>1. n = Len(Head(a))
    BY <1>1, <1>2, <1>11
  <2>2. a2 = Tail(a) /\ Sending(a2)
    BY <1>10, <2>1
  <2>3. e = <<>>
    BY <1>8, <1>11, EmptySeq
  <2>4. ASSUME NEW b \in Seq(Cell) PROVE Delivers(b, a2, b \o e, Len(e), Tail(a))
    <3>1. b \o e = b
      BY <2>3, ConcatEmptySeq
    <3> QED
      BY <1>8, <1>11, <2>2, <3>1 DEF Delivers
  <2>5. c = SubSeq(Head(a), 1, n) /\ Len(a[1]) = n + Len(e) /\ Len(a[1]) - n = k
    BY <1>1, <1>2, <1>3, <1>8
  <2> QED
    BY <1>1, <1>6, <1>7, <1>8, <1>9, <2>2, <2>4, <2>5 DEF Chunked
<1>12. CASE k # 0
  <2>1. n # Len(Head(a)) /\ n + k = Len(Head(a))
    BY <1>1, <1>2, <1>12
  <2>2. a2 = <<e>> \o Tail(a)
    BY <1>1, <1>4, <2>1
  <2>3. <<e>> \in Seq(Seq(Cell)) /\ Len(<<e>>) = 1 /\ <<e>>[1] = e
    BY <1>8
  <2>4. Joins(Seq(Cell), <<e>>, Tail(a), a2)
    BY <1>10, <2>2, <2>3, Joined
  <2>5. /\ a2 \in Seq(Seq(Cell)) /\ Len(a2) = 1 + Len(Tail(a))
        /\ \A q \in 1 .. Len(<<e>>) : a2[q] = <<e>>[q]
        /\ \A q \in 1 .. Len(Tail(a)) : a2[Len(<<e>>) + q] = Tail(a)[q]
    BY <2>3, <2>4 DEF Joins
  <2>6. a2[1] = e /\ \A q \in 1 .. Len(Tail(a)) : a2[1 + q] = Tail(a)[q]
    <3>1. 1 \in 1 .. Len(<<e>>)
      BY <2>3
    <3> QED
      BY <2>3, <2>5, <3>1
  <2>7. Sending(a2)
    <3>1. ASSUME NEW q \in DOMAIN a2 PROVE Len(a2[q]) >= 1
      <4>1. q \in 1 .. 1 + Len(Tail(a))
        BY <2>5, LenProperties
      <4>2. CASE q = 1
        BY <1>8, <1>12, <2>6, <4>2
      <4>3. CASE q # 1
        <5>1. q - 1 \in 1 .. Len(Tail(a)) /\ 1 + (q - 1) = q
          BY <1>10, <4>1, <4>3
        <5>2. q - 1 \in DOMAIN Tail(a)
          BY <1>10, <5>1, LenProperties
        <5>3. a2[q] = Tail(a)[q - 1]
          BY <2>6, <5>1
        <5> QED
          BY <1>10, <5>2, <5>3 DEF Sending
      <4> QED
        BY <4>2, <4>3
    <3> QED
      BY <2>5, <3>1 DEF Sending
  <2>8. a2 # <<>>
    BY <1>10, <2>5, EmptySeq
  <2>9. Tail(a2) = Tail(a)
    <3>1. /\ Tail(a2) \in Seq(Seq(Cell)) /\ Len(Tail(a2)) = Len(a2) - 1
          /\ \A q \in 1 .. Len(a2) - 1 : Tail(a2)[q] = a2[q + 1]
      BY <2>7, <2>8, SendingFirst
    <3>2. Len(Tail(a2)) = Len(Tail(a))
      BY <1>10, <2>5, <3>1
    <3>3. ASSUME NEW q \in 1 .. Len(Tail(a2)) PROVE Tail(a2)[q] = Tail(a)[q]
      <4>1. q \in 1 .. Len(a2) - 1 /\ q \in 1 .. Len(Tail(a)) /\ q + 1 = 1 + q
        BY <3>1, <3>2
      <4> QED
        BY <2>6, <3>1, <4>1
    <3> QED
      BY <1>10, <3>1, <3>2, <3>3, SeqEqual
  <2>10. \A b \in Seq(Cell) : Delivers(b, a2, b \o e, Len(e), Tail(a))
    BY <2>6, <2>8, <2>9 DEF Delivers
  <2>11. c = SubSeq(Head(a), 1, n) /\ Len(a[1]) = n + Len(e) /\ Len(a[1]) - n = k
    BY <1>1, <1>2, <1>3, <1>8
  <2> QED
    BY <1>1, <1>6, <1>7, <1>8, <1>9, <2>7, <2>10, <2>11 DEF Chunked
<1> QED
  BY <1>11, <1>12

\* The frame that is being sent belongs to the stream, when the server is in
\* its main loop: the next write takes cells of it.
LEMMA Started ==
  ASSUME NEW b \in Seq(Cell), Settled(b), NEW a, Sending(a), a # <<>>,
         NEW wt \in Seq(Nat), NEW snt \in Nat, NEW snc \in 0 .. snt, NEW dmg \in Nat,
         NEW p, p = FALSE, Flows(b, a, p, wt, snt, snc, dmg)
  PROVE  \E s \in Seq(Cell) : /\ s = b \o a[1] /\ Joins(Cell, b, a[1], s)
                              /\ Follows(s, Len(a[1]), Tail(a), p, wt, snt, snc, dmg)
<1>1. PICK s, h, w : Delivers(b, a, s, h, w) /\ Follows(s, h, w, p, wt, snt, snc, dmg)
  BY DEF Flows
<1>2. CASE a # <<>> /\ s = b \o a[1] /\ h = Len(a[1]) /\ w = Tail(a)
  <2>1. a[1] \in Seq(Cell)
    BY SendingFirst
  <2>2. Joins(Cell, b, a[1], s)
    BY <1>2, <2>1, Joined
  <2>3. s \in Seq(Cell)
    BY <1>1 DEF Follows
  <2> QED
    BY <1>1, <1>2, <2>2, <2>3
<1>3. CASE s = b /\ h = 0 /\ w = a
  <2>1. PICK f \in Seq(Cell), g \in Nat : f = a[1] /\ g = Len(f) /\ g >= 1
    BY SendingFirst
  <2>2. PICK r : r = b \o f
    OBVIOUS
  <2>3. Joins(Cell, b, f, r)
    BY <2>2, Joined
  <2>4. r \in Seq(Cell)
    BY <2>3 DEF Joins
  <2>5. a \in Seq(Seq(Cell)) /\ Len(a) \in Nat /\ Len(a) >= 1
    BY SendingFirst DEF Sending
  <2>6. Genuine(b, a, wt) /\ Fresh(a, snt, snc)
    BY <1>1, <1>3 DEF Follows
  <2>7. Genuine(r, Tail(a), wt)
    BY <2>1, <2>3, <2>5, <2>6, GenuineBegin
  <2>8. /\ Tail(a) \in Seq(Seq(Cell)) /\ Len(Tail(a)) = Len(a) - 1
        /\ \A k \in 1 .. Len(a) - 1 : Tail(a)[k] = a[k + 1]
    BY SendingFirst
  <2>9. ASSUME NEW x \in 1 .. Len(Tail(a)), x + snc > Len(Tail(a))
        PROVE  \E d \in Bodies : Tail(a)[x] = Frame((snt - Len(Tail(a))) + x, d)
    <3>1. /\ x + 1 \in 1 .. Len(a) /\ (x + 1) + snc > Len(a) /\ x \in 1 .. Len(a) - 1
          /\ (snt - Len(a)) + (x + 1) = (snt - Len(Tail(a))) + x
      BY <2>5, <2>8, <2>9
    <3>2. PICK d \in Bodies : a[x + 1] = Frame((snt - Len(a)) + (x + 1), d)
      BY <2>6, <3>1 DEF Fresh
    <3>3. Tail(a)[x] = a[x + 1]
      BY <2>8, <3>1
    <3> QED
      BY <3>1, <3>2, <3>3
  <2>10. Fresh(Tail(a), snt, snc)
    BY <2>9 DEF Fresh
  <2>11. PICK clean : clean = (dmg = 0)
    OBVIOUS
  <2>12. PICK base \in Nat, n \in Int : /\ base = snt - snc /\ n = snc - Len(a)
                                        /\ n + 1 = snc - Len(Tail(a))
    <3>1. /\ snt - snc \in Nat /\ snc - Len(a) \in Int
          /\ (snc - Len(a)) + 1 = snc - Len(Tail(a))
      BY <2>5, <2>8
    <3> QED
      BY <3>1
  <2>13. Phase(b, 0, base, n, p, wt, snt, clean)
    BY <1>1, <1>3, <2>11, <2>12 DEF Follows
  <2>14. ASSUME n >= 0 PROVE \E d \in Bodies : f = Frame(base + (n + 1), d)
    <3>1. /\ 1 \in 1 .. Len(a) /\ 1 + snc > Len(a)
          /\ (snt - Len(a)) + 1 = base + (n + 1)
      BY <2>5, <2>12, <2>14
    <3>2. PICK d \in Bodies : a[1] = Frame((snt - Len(a)) + 1, d)
      BY <2>6, <3>1 DEF Fresh
    <3> QED
      BY <2>1, <3>1, <3>2
  <2>15. FrontOf(b, b, 0)
    <3>1. Len(b) \in Nat
      BY LenProperties
    <3> QED
      BY <3>1 DEF FrontOf
  <2>16. Phase(r, g, base, n + 1, p, wt, snt, clean)
    BY <2>1, <2>3, <2>13, <2>14, <2>15, PhaseBegin
  <2>17. Phase(r, g, snt - snc, snc - Len(Tail(a)), p, wt, snt, dmg = 0)
    BY <2>11, <2>12, <2>16
  <2>18. Follows(r, g, Tail(a), p, wt, snt, snc, dmg)
    BY <2>4, <2>7, <2>8, <2>10, <2>17 DEF Follows
  <2> QED
    BY <2>1, <2>2, <2>3, <2>4, <2>18
<1> QED
  BY <1>1, <1>2, <1>3 DEF Delivers

LEMMA Regrouped ==
  ASSUME NEW b \in Seq(Cell), NEW c \in Seq(Cell), NEW e \in Seq(Cell)
  PROVE  (b \o c) \o e = b \o (c \o e)
  BY ConcatAssociative

\* A write that fits.
LEMMA FlowWrite ==
  ASSUME NEW b \in Seq(Cell), Settled(b), NEW a, Sending(a), a # <<>>,
         NEW c \in Seq(Cell), NEW e \in Seq(Cell), a[1] = c \o e, Len(a[1]) = Len(c) + Len(e),
         NEW a2, \A b2 \in Seq(Cell) : Delivers(b2, a2, b2 \o e, Len(e), Tail(a)),
         NEW wt \in Seq(Nat), NEW snt \in Nat, NEW snc \in 0 .. snt, NEW dmg \in Nat,
         NEW p, p = FALSE, Flows(b, a, p, wt, snt, snc, dmg)
  PROVE  b \o c \in Seq(Cell) /\ Flows(b \o c, a2, TRUE, wt, snt, snc, dmg)
<1>1. PICK s \in Seq(Cell) : /\ s = b \o a[1] /\ Joins(Cell, b, a[1], s)
                             /\ Follows(s, Len(a[1]), Tail(a), p, wt, snt, snc, dmg)
  BY Started
<1>2. PICK b2 : b2 = b \o c
  OBVIOUS
<1>3. b2 \in Seq(Cell)
  <2>1. Joins(Cell, b, c, b2)
    BY <1>2, Joined
  <2> QED
    BY <2>1 DEF Joins
<1>4. s = b2 \o e
  <2>1. (b \o c) \o e = b \o (c \o e)
    BY Regrouped
  <2> QED
    BY <1>1, <1>2, <2>1
<1>5. Delivers(b2, a2, s, Len(e), Tail(a))
  BY <1>3, <1>4
<1>6. PICK h \in Nat : h = Len(a[1])
  BY SendingFirst
<1>7. PICK g \in Nat : g = Len(e)
  BY LenProperties
<1>8. g <= h
  <2>1. Len(c) \in Nat
    BY LenProperties
  <2> QED
    BY <1>6, <1>7, <2>1
<1>9. FrontOf(b, s, h)
  BY <1>1, <1>6 DEF FrontOf, Joins
<1>10. PICK clean : clean = (dmg = 0)
  OBVIOUS
<1>11. Tail(a) \in Seq(Seq(Cell)) /\ Len(Tail(a)) \in Nat
  BY SendingFirst, LenProperties
<1>12. PICK base \in Nat, n \in Int : base = snt - snc /\ n = snc - Len(Tail(a))
  <2>1. snt - snc \in Nat /\ snc - Len(Tail(a)) \in Int
    BY <1>11
  <2> QED
    BY <2>1
<1>13. Phase(s, h, base, n, p, wt, snt, clean)
  BY <1>1, <1>6, <1>10, <1>12 DEF Follows
<1>14. Phase(s, g, base, n, TRUE, wt, snt, clean)
  BY <1>8, <1>9, <1>13, PhaseMove
<1>15. Follows(s, g, Tail(a), TRUE, wt, snt, snc, dmg)
  BY <1>1, <1>10, <1>11, <1>12, <1>14 DEF Follows
<1> QED
  BY <1>2, <1>3, <1>5, <1>7, <1>15 DEF Flows

\* The stream without what the buffer held and the write that took c.
LEMMA Dropped ==
  ASSUME NEW b \in Seq(Cell), NEW f \in Seq(Cell), NEW s \in Seq(Cell), Joins(Cell, b, f, s),
         NEW n \in Nat, n <= Len(f), NEW e, Takes(Cell, f, n, Len(f) - n, e)
  PROVE  LET m == Len(b) + n IN
         m \in 0 .. Len(s) /\ Takes(Cell, s, m, Len(s) - m, e)
<1>1. PICK x \in Nat : x = Len(b)
  BY LenProperties
<1>2. PICK y \in Nat : y = Len(f)
  BY LenProperties
<1>3. /\ Len(s) = x + y /\ \A q \in 1 .. y : s[x + q] = f[q]
  BY <1>1, <1>2 DEF Joins
<1>4. e \in Seq(Cell) /\ Len(e) = y - n /\ \A q \in 1 .. y - n : e[q] = f[n + q]
  BY <1>2 DEF Takes
<1>5. ASSUME NEW q \in 1 .. y - n PROVE e[q] = s[(x + n) + q]
  <2>1. n + q \in 1 .. y /\ x + (n + q) = (x + n) + q
    BY <1>2
  <2> QED
    BY <1>3, <1>4, <2>1
<1>6. x + n \in 0 .. Len(s) /\ Len(s) - (x + n) = y - n
  BY <1>2, <1>3
<1>7. Takes(Cell, s, x + n, Len(s) - (x + n), e)
  BY <1>4, <1>5, <1>6 DEF Takes
<1> QED
  BY <1>1, <1>6, <1>7

\* A write that does not fit.
LEMMA FlowOverflow ==
  ASSUME NEW b \in Seq(Cell), Settled(b), NEW a, Sending(a), a # <<>>,
         NEW n \in Nat, n <= Len(a[1]), n <= ChunkMax, Len(b) + n > BufMax,
         NEW e \in Seq(Cell), Len(a[1]) = n + Len(e), Takes(Cell, a[1], n, Len(a[1]) - n, e),
         NEW a2, \A b2 \in Seq(Cell) : Delivers(b2, a2, b2 \o e, Len(e), Tail(a)),
         NEW wt \in Seq(Nat), NEW snt \in Nat, NEW snc \in 0 .. snt, NEW dmg \in Nat,
         NEW p, p = FALSE, Flows(b, a, p, wt, snt, snc, dmg)
  PROVE  Flows(<<>>, a2, FALSE, wt, snt, snc, dmg)
<1>1. PICK s \in Seq(Cell) : /\ Joins(Cell, b, a[1], s)
                             /\ Follows(s, Len(a[1]), Tail(a), p, wt, snt, snc, dmg)
  BY Started
<1>2. Delivers(<<>>, a2, e, Len(e), Tail(a))
  <2>1. <<>> \in Seq(Cell) /\ <<>> \o e = e
    BY EmptySeq, ConcatEmptySeq
  <2>2. Delivers(<<>>, a2, <<>> \o e, Len(e), Tail(a))
    BY <2>1
  <2> QED
    BY <2>1, <2>2
<1>3. PICK h \in Nat : h = Len(a[1])
  BY SendingFirst
<1>4. PICK g \in Nat : g = Len(e)
  BY LenProperties
<1>5. g = h - n /\ n <= h
  BY <1>3, <1>4
<1>6. FrontOf(b, s, h)
  BY <1>1, <1>3 DEF FrontOf, Joins
<1>7. PICK m : m = Len(b) + n
  OBVIOUS
<1>8. m \in 0 .. Len(s) /\ Takes(Cell, s, m, Len(s) - m, e)
  BY <1>1, <1>7, SendingFirst, Dropped
<1>9. PICK clean : clean = (dmg = 0)
  OBVIOUS
<1>10. Tail(a) \in Seq(Seq(Cell)) /\ Len(Tail(a)) \in Nat
  BY SendingFirst, LenProperties
<1>11. PICK base \in Nat, i \in Int : base = snt - snc /\ i = snc - Len(Tail(a))
  <2>1. snt - snc \in Nat /\ snc - Len(Tail(a)) \in Int
    BY <1>10
  <2> QED
    BY <2>1
<1>12. Phase(s, h, base, i, p, wt, snt, clean)
  BY <1>1, <1>3, <1>9, <1>11 DEF Follows
<1>13. Phase(e, g, base, i, FALSE, wt, snt, clean)
  BY <1>5, <1>6, <1>7, <1>8, <1>12, PhaseOverflow
<1>14. Genuine(s, Tail(a), wt) /\ Fresh(Tail(a), snt, snc)
  BY <1>1 DEF Follows
<1>15. Genuine(e, Tail(a), wt)
  BY <1>8, <1>14, GenuineDrop
<1>16. Follows(e, g, Tail(a), FALSE, wt, snt, snc, dmg)
  BY <1>9, <1>10, <1>11, <1>13, <1>14, <1>15 DEF Follows
<1> QED
  BY <1>2, <1>4, <1>16 DEF Flows

\* A write at an offset.
LEMMA FlowOffset ==
  ASSUME NEW b \in Seq(Cell), Settled(b), NEW a, Sending(a), a # <<>>,
         NEW n \in Nat, n <= Len(a[1]),
         NEW e \in Seq(Cell), Takes(Cell, a[1], n, Len(a[1]) - n, e),
         NEW a2, \A b2 \in Seq(Cell) : Delivers(b2, a2, b2 \o e, Len(e), Tail(a)),
         NEW wt \in Seq(Nat), NEW snt \in Nat, NEW snc \in 0 .. snt, NEW dmg \in Nat,
         NEW p, p = FALSE, Flows(b, a, p, wt, snt, snc, dmg), NEW dmg2, dmg2 # 0
  PROVE  Flows(<<>>, a2, FALSE, wt, snt, 0, dmg2)
<1>1. PICK s \in Seq(Cell) : /\ Joins(Cell, b, a[1], s)
                             /\ Follows(s, Len(a[1]), Tail(a), p, wt, snt, snc, dmg)
  BY Started
<1>2. Delivers(<<>>, a2, e, Len(e), Tail(a))
  <2>1. <<>> \in Seq(Cell) /\ <<>> \o e = e
    BY EmptySeq, ConcatEmptySeq
  <2>2. Delivers(<<>>, a2, <<>> \o e, Len(e), Tail(a))
    BY <2>1
  <2> QED
    BY <2>1, <2>2
<1>3. PICK g \in Nat : g = Len(e)
  BY LenProperties
<1>4. PICK m : m = Len(b) + n
  OBVIOUS
<1>5. m \in 0 .. Len(s) /\ Takes(Cell, s, m, Len(s) - m, e)
  BY <1>1, <1>4, SendingFirst, Dropped
<1>6. Genuine(e, Tail(a), wt)
  BY <1>1, <1>5, GenuineDrop DEF Follows
<1>7. Tail(a) \in Seq(Seq(Cell)) /\ Len(Tail(a)) \in Nat
  BY SendingFirst, LenProperties
<1>8. Fresh(Tail(a), snt, 0)
  <2>1. \A x \in 1 .. Len(Tail(a)) : ~(x + 0 > Len(Tail(a)))
    BY <1>7
  <2> QED
    BY <2>1 DEF Fresh
<1>9. PICK clean : clean = (dmg2 = 0)
  OBVIOUS
<1>10. PICK base \in Nat, i \in Int : base = snt - 0 /\ i = 0 - Len(Tail(a)) /\ i <= 0
  <2>1. snt - 0 \in Nat /\ 0 - Len(Tail(a)) \in Int /\ 0 - Len(Tail(a)) <= 0
    BY <1>7
  <2> QED
    BY <2>1
<1>11. ~clean
  BY <1>9
<1>12. Phase(e, g, base, i, FALSE, wt, snt, clean)
  BY <1>10, <1>11, PhaseReset
<1>13. Follows(e, g, Tail(a), FALSE, wt, snt, 0, dmg2)
  BY <1>6, <1>7, <1>8, <1>9, <1>10, <1>12 DEF Follows
<1> QED
  BY <1>2, <1>3, <1>13 DEF Flows

\* The phone starts another frame.
LEMMA DeliversSend ==
  ASSUME NEW a, Sending(a), NEW f \in Seq(Cell), Len(f) >= 1,
         NEW b, NEW s, NEW h, NEW w, Delivers(b, a, s, h, w)
  PROVE  Sending(Append(a, f)) /\ Delivers(b, Append(a, f), s, h, Append(w, f))
<1>1. PICK a2 : a2 = Append(a, f)
  OBVIOUS
<1>2. PICK x \in Nat : x = Len(a)
  BY LenProperties DEF Sending
<1>3. a \in Seq(Seq(Cell)) /\ DOMAIN a = 1 .. x
  BY <1>2, LenProperties DEF Sending
<1>4. /\ a2 \in Seq(Seq(Cell)) /\ a2 # <<>> /\ Len(a2) = x + 1 /\ DOMAIN a2 = 1 .. x + 1
      /\ \A k \in 1 .. x : a2[k] = a[k]
      /\ a2[x + 1] = f
  BY <1>1, <1>2, <1>3, AppendProperties, LenProperties
<1>5. Sending(a2)
  <2>1. ASSUME NEW k \in DOMAIN a2 PROVE Len(a2[k]) >= 1
    <3>1. k = x + 1 \/ k \in 1 .. x
      BY <1>4
    <3>2. CASE k = x + 1
      BY <1>4, <3>2
    <3>3. CASE k \in 1 .. x
      BY <1>3, <1>4, <3>3 DEF Sending
    <3> QED
      BY <3>1, <3>2, <3>3
  <2> QED
    BY <1>4, <2>1 DEF Sending
<1>6. Delivers(b, a2, s, h, Append(w, f))
  <2>1. CASE s = b /\ h = 0 /\ w = a
    BY <1>1, <2>1 DEF Delivers
  <2>2. CASE a # <<>> /\ s = b \o a[1] /\ h = Len(a[1]) /\ w = Tail(a)
    <3>1. Tail(a2) = Append(Tail(a), f)
      BY <1>1, <1>3, <2>2, HeadTailAppend
    <3>2. 1 \in 1 .. x
      BY <1>2, <2>2, SendingFirst
    <3>3. a2[1] = a[1]
      BY <1>4, <3>2
    <3> QED
      BY <1>4, <2>2, <3>1, <3>3 DEF Delivers
  <2> QED
    BY <2>1, <2>2 DEF Delivers
<1> QED
  BY <1>1, <1>5, <1>6

LEMMA FlowSend ==
  ASSUME NEW b \in Seq(Cell), NEW a, Sending(a), NEW wt \in Seq(Nat), NEW snt \in Nat,
         \A k \in DOMAIN wt : wt[k] <= snt, NEW snc \in 0 .. snt, NEW dmg \in Nat, NEW p,
         Flows(b, a, p, wt, snt, snc, dmg), NEW d \in Bodies, NEW f, f = Frame(snt + 1, d)
  PROVE  /\ Sending(Append(a, f))
         /\ Flows(b, Append(a, f), p, Append(wt, snt + 1), snt + 1, snc + 1, dmg)
<1>1. PICK s, h, w : Delivers(b, a, s, h, w) /\ Follows(s, h, w, p, wt, snt, snc, dmg)
  BY DEF Flows
<1>2. snt + 1 \in Nat
  OBVIOUS
<1>3. f \in Seq(Cell) /\ Len(f) >= 1
  <2>1. Len(d) \in Nat /\ Frame(snt + 1, d) \in Seq(Cell) /\ Len(Frame(snt + 1, d)) = Len(d) + 6
    BY <1>2, FrameCells
  <2> QED
    BY <2>1
<1>4. Sending(Append(a, f)) /\ Delivers(b, Append(a, f), s, h, Append(w, f))
  BY <1>1, <1>3, DeliversSend
<1>5. s \in Seq(Cell) /\ h \in Nat /\ w \in Seq(Seq(Cell)) /\ Genuine(s, w, wt) /\ Fresh(w, snt, snc)
  BY <1>1 DEF Follows
<1>6. \A k \in DOMAIN wt : wt[k] < snt + 1
  <2>1. \A k \in DOMAIN wt : wt[k] \in Nat
    BY ElementOfSeq, LenProperties
  <2> QED
    BY <2>1
<1>7. Genuine(s, Append(w, Frame(snt + 1, d)), Append(wt, snt + 1))
  BY <1>2, <1>5, <1>6, GenuineSend
<1>8. PICK v : v = Append(w, f)
  OBVIOUS
<1>9. PICK x \in Nat : x = Len(w)
  BY <1>5, LenProperties
<1>10. /\ v \in Seq(Seq(Cell)) /\ Len(v) = x + 1 /\ v[x + 1] = f
       /\ \A k \in 1 .. x : v[k] = w[k]
  BY <1>3, <1>5, <1>8, <1>9, AppendProperties
<1>11. Fresh(v, snt + 1, snc + 1)
  <2>1. ASSUME NEW k \in 1 .. Len(v), k + (snc + 1) > Len(v)
        PROVE  \E e \in Bodies : v[k] = Frame(((snt + 1) - Len(v)) + k, e)
    <3>1. (snt + 1) - Len(v) = snt - x
      BY <1>10
    <3>2. CASE k = x + 1
      <4>1. (snt - x) + k = snt + 1
        BY <3>2
      <4> QED
        BY <1>10, <3>1, <3>2, <4>1
    <3>3. CASE k # x + 1
      <4>1. k \in 1 .. x /\ k + snc > x
        BY <1>10, <2>1, <3>3
      <4>2. PICK e \in Bodies : w[k] = Frame((snt - x) + k, e)
        BY <1>5, <1>9, <4>1 DEF Fresh
      <4> QED
        BY <1>10, <3>1, <4>1, <4>2
    <3> QED
      BY <3>2, <3>3
  <2> QED
    BY <2>1 DEF Fresh
<1>12. PICK clean : clean = (dmg = 0)
  OBVIOUS
<1>13. PICK base \in Nat, n \in Int : /\ base = snt - snc /\ n = snc - Len(w) /\ base + n <= snt
                                      /\ base = (snt + 1) - (snc + 1) /\ n = (snc + 1) - Len(v)
  <2>1. /\ snt - snc \in Nat /\ snc - Len(w) \in Int /\ (snt - snc) + (snc - Len(w)) <= snt
        /\ (snt + 1) - (snc + 1) = snt - snc /\ (snc + 1) - Len(v) = snc - Len(w)
    BY <1>9, <1>10
  <2> QED
    BY <2>1
<1>14. Phase(s, h, base, n, p, wt, snt, clean)
  BY <1>1, <1>12, <1>13 DEF Follows
<1>15. Phase(s, h, base, n, p, Append(wt, snt + 1), snt + 1, clean)
  BY <1>13, <1>14, PhaseSend
<1>16. Genuine(s, v, Append(wt, snt + 1))
  BY <1>7, <1>8
<1>17. Follows(s, h, v, p, Append(wt, snt + 1), snt + 1, snc + 1, dmg)
  BY <1>5, <1>10, <1>11, <1>12, <1>13, <1>15, <1>16 DEF Follows
<1>18. Flows(b, Append(a, f), p, Append(wt, snt + 1), snt + 1, snc + 1, dmg)
  BY <1>4, <1>8, <1>17 DEF Flows
<1> QED
  BY <1>4, <1>18

LEMMA FlowDamaged ==
  ASSUME NEW b \in Seq(Cell), NEW a, Sending(a), NEW wt, NEW snt \in Nat, NEW snc \in 0 .. snt,
         NEW dmg \in Nat, NEW p, Flows(b, a, p, wt, snt, snc, dmg),
         NEW f \in DamagedFrames, NEW dmg2, dmg2 # 0
  PROVE  Sending(Append(a, f)) /\ Flows(b, Append(a, f), p, wt, snt, 0, dmg2)
<1>1. PICK s, h, w : Delivers(b, a, s, h, w) /\ Follows(s, h, w, p, wt, snt, snc, dmg)
  BY DEF Flows
<1>2. f \in Seq(Cell) /\ Len(f) >= 1
  BY DamagedCells
<1>3. Sending(Append(a, f)) /\ Delivers(b, Append(a, f), s, h, Append(w, f))
  BY <1>1, <1>2, DeliversSend
<1>4. s \in Seq(Cell) /\ h \in Nat /\ w \in Seq(Seq(Cell)) /\ Genuine(s, w, wt)
  BY <1>1 DEF Follows
<1>5. PICK v : v = Append(w, f)
  OBVIOUS
<1>6. Genuine(s, v, wt)
  BY <1>4, <1>5, GenuineDamaged
<1>7. v \in Seq(Seq(Cell)) /\ Len(v) \in Nat /\ Len(v) >= 1
  <2>1. v \in Seq(Seq(Cell)) /\ v # <<>>
    BY <1>2, <1>4, <1>5, AppendProperties
  <2>2. Len(v) \in Nat /\ Len(v) # 0
    BY <2>1, LenProperties, EmptySeq
  <2> QED
    BY <2>1, <2>2
<1>8. Fresh(v, snt, 0)
  <2>1. \A x \in 1 .. Len(v) : ~(x + 0 > Len(v))
    BY <1>7
  <2> QED
    BY <2>1 DEF Fresh
<1>9. PICK clean : clean = (dmg2 = 0)
  OBVIOUS
<1>10. 0 - Len(v) < 0
  BY <1>7
<1>11. Phase(s, h, snt - 0, 0 - Len(v), p, wt, snt, clean)
  BY <1>9, <1>10 DEF Phase
<1>12. Follows(s, h, v, p, wt, snt, 0, dmg2)
  BY <1>4, <1>6, <1>7, <1>8, <1>9, <1>11 DEF Follows
<1>13. Flows(b, Append(a, f), p, wt, snt, 0, dmg2)
  BY <1>3, <1>5, <1>12 DEF Flows
<1> QED
  BY <1>3, <1>13

\* A new connection.
LEMMA FlowNew == Sending(<<>>) /\ Ascending(<<>>) /\ Settled(<<>>) /\ Flows(<<>>, <<>>, FALSE, <<>>, 0, 0, 0)
<1>1. Sending(<<>>) /\ Ascending(<<>>) /\ Settled(<<>>)
  <2>1. <<>> \in Seq(Seq(Cell)) /\ Len(<<>>) = 0 /\ DOMAIN <<>> = {}
    BY EmptySeq
  <2> QED
    BY <2>1 DEF Sending, Ascending, Settled
<1>2. Delivers(<<>>, <<>>, <<>>, 0, <<>>)
  BY DEF Delivers
<1>3. \A p, c : ~Closes(<<>>, p, c)
  <2>1. SUFFICES ASSUME NEW p, NEW c, Closes(<<>>, p, c) PROVE FALSE
    OBVIOUS
  <2>2. p \in Nat /\ Len(c) \in Nat /\ Len(c) + 2 <= p /\ p <= 0
    BY <2>1, LenProperties DEF Closes
  <2> QED
    BY <2>2
<1>4. Genuine(<<>>, <<>>, <<>>)
  BY <1>3 DEF Genuine, Known, Rising, Coming, Later, InTurn
<1>5. Fresh(<<>>, 0, 0)
  BY DEF Fresh
<1>6. Phase(<<>>, 0, 0, 0, FALSE, <<>>, 0, 0 = 0)
  <2>1. <<>> \in Seq(Cell) /\ Len(<<>>) = 0 /\ DOMAIN <<>> = {}
    BY EmptySeq
  <2>2. Laid(<<>>, 0, 0, Len(<<>>) + 1, 0 + 1, 0)
    BY <2>1, LaidNone
  <2>3. Laid(<<>>, 0, 0, 1, 0 + 1, 0)
    BY <2>1, <2>2
  <2>4. Kept(<<>>, 0, 0)
    BY <2>1 DEF Kept
  <2>5. Undamaged(<<>>, 0, 0, 0)
    BY <2>1 DEF Undamaged
  <2>6. 0 \in 0 .. 0 /\ 0 >= 0
    OBVIOUS
  <2>7. Synced(<<>>, 0, 0, 0, <<>>, 0, 0 = 0)
    BY <2>3, <2>4, <2>5, <2>6 DEF Synced
  <2> QED
    BY <2>6, <2>7 DEF Phase
<1>7. Follows(<<>>, 0, <<>>, FALSE, <<>>, 0, 0, 0)
  <2>1. <<>> \in Seq(Cell) /\ <<>> \in Seq(Seq(Cell)) /\ Len(<<>>) = 0
    BY EmptySeq
  <2>2. 0 \in Nat /\ 0 - 0 = 0
    OBVIOUS
  <2> QED
    BY <1>4, <1>5, <1>6, <2>1, <2>2 DEF Follows
<1> QED
  BY <1>1, <1>2, <1>7 DEF Flows

-----------------------------------------------------------------------------
(* The inductive invariant.                                                *)

IInv ==
  /\ TypeOK /\ Sending(air)
  /\ Ascending(waiting) /\ \A k \in DOMAIN waiting : waiting[k] <= sent
  /\ ~parsing => Settled(buf)
  /\ Flows(buf, air, parsing, waiting, sent, since, spoilt)

LEMMA InitIInv == Init => IInv
<1> SUFFICES ASSUME Init PROVE IInv
  OBVIOUS
<1>1. /\ buf = <<>> /\ parsing = FALSE /\ air = <<>> /\ sent = 0 /\ spoilt = 0
      /\ waiting = <<>> /\ handled = <<>> /\ since = 0
  BY DEF Init
<1>2. TypeOK
  <2>1. /\ <<>> \in Seq(Cell) /\ Len(<<>>) = 0 /\ <<>> \in Seq(Seq(Cell))
        /\ <<>> \in Seq(1 .. MaxSent) /\ <<>> \in Seq(Nat)
    BY EmptySeq
  <2>2. 0 <= BufMax /\ 0 \in 0 .. MaxSent /\ 0 \in 0 .. MaxSpoilt /\ 0 \in 0 .. 0
    BY FramesAssumption
  <2> QED
    BY <1>1, <2>1, <2>2 DEF TypeOK
<1>3. \A k \in DOMAIN waiting : waiting[k] <= sent
  <2>1. DOMAIN waiting = {}
    BY <1>1, EmptySeq
  <2> QED
    BY <2>1
<1> QED
  BY <1>1, <1>2, <1>3, FlowNew DEF IInv

\* The types as the lemmas ask for them.
LEMMA IInvTypes ==
  ASSUME IInv
  PROVE  /\ buf \in Seq(Cell) /\ Len(buf) \in Nat /\ parsing \in BOOLEAN
         /\ sent \in Nat /\ since \in 0 .. sent /\ spoilt \in Nat
         /\ waiting \in Seq(Nat) /\ waiting \in Seq(1 .. MaxSent)
<1>1. TypeOK
  BY DEF IInv
<1>2. 1 .. MaxSent \subseteq Nat
  BY FramesAssumption
<1>3. waiting \in Seq(Nat)
  BY <1>1, <1>2, SeqMonotonic DEF TypeOK
<1>4. sent \in Nat /\ spoilt \in Nat
  BY <1>1, FramesAssumption DEF TypeOK
<1> QED
  BY <1>1, <1>3, <1>4, LenProperties DEF TypeOK

\* The phone sends a sound frame.
LEMMA SendFrameStep ==
  ASSUME IInv, NEW b \in Bodies, SendFrame(b)
  PROVE  IInv'
<1>1. /\ sent < MaxSent /\ sent' = sent + 1 /\ since' = since + 1
      /\ air' = Append(air, Frame(sent + 1, b)) /\ waiting' = Append(waiting, sent + 1)
      /\ UNCHANGED <<buf, parsing, spoilt, handled>>
  BY DEF SendFrame
<1>2. /\ TypeOK /\ Sending(air) /\ Ascending(waiting)
      /\ \A k \in DOMAIN waiting : waiting[k] <= sent
      /\ ~parsing => Settled(buf)
      /\ Flows(buf, air, parsing, waiting, sent, since, spoilt)
  BY DEF IInv
<1>3. /\ buf \in Seq(Cell) /\ sent \in Nat /\ since \in 0 .. sent /\ spoilt \in Nat
      /\ waiting \in Seq(Nat) /\ waiting \in Seq(1 .. MaxSent)
  BY IInvTypes
<1>4. PICK f : f = Frame(sent + 1, b)
  OBVIOUS
<1>5. /\ Sending(Append(air, f))
      /\ Flows(buf, Append(air, f), parsing, Append(waiting, sent + 1), sent + 1, since + 1, spoilt)
  BY <1>2, <1>3, <1>4, FlowSend
<1>6. Sending(air') /\ Flows(buf', air', parsing', waiting', sent', since', spoilt')
  BY <1>1, <1>4, <1>5
<1>7. PICK n \in Nat : n = Len(waiting)
  BY <1>3, LenProperties
<1>8. /\ waiting' \in Seq(1 .. MaxSent) /\ DOMAIN waiting = 1 .. n /\ DOMAIN waiting' = 1 .. n + 1
      /\ \A k \in 1 .. n : waiting'[k] = waiting[k]
      /\ waiting'[n + 1] = sent + 1
  <2>1. sent + 1 \in 1 .. MaxSent
    BY <1>1, <1>3, FramesAssumption
  <2> QED
    BY <1>1, <1>3, <1>7, <2>1, AppendProperties, LenProperties
<1>9. \A k \in 1 .. n : waiting[k] \in Nat /\ waiting[k] <= sent
  BY <1>2, <1>3, <1>7, <1>8, ElementOfSeq
<1>10. \A k \in DOMAIN waiting' : waiting'[k] <= sent'
  <2>1. ASSUME NEW k \in 1 .. n + 1 PROVE waiting'[k] <= sent + 1
    <3>1. CASE k = n + 1
      BY <1>3, <1>8, <3>1
    <3>2. CASE k \in 1 .. n
      BY <1>3, <1>8, <1>9, <3>2
    <3> QED
      BY <3>1, <3>2
  <2> QED
    BY <1>1, <1>8, <2>1
<1>11. Ascending(waiting')
  <2>1. ASSUME NEW j \in 1 .. n + 1, NEW k \in 1 .. n + 1, j < k PROVE waiting'[j] < waiting'[k]
    <3>1. j \in 1 .. n
      BY <2>1
    <3>2. CASE k = n + 1
      BY <1>3, <1>8, <1>9, <3>1, <3>2
    <3>3. CASE k \in 1 .. n
      BY <1>2, <1>8, <2>1, <3>1, <3>3 DEF Ascending
    <3> QED
      BY <3>2, <3>3
  <2> QED
    BY <1>8, <2>1 DEF Ascending
<1>12. TypeOK'
  <2>1. sent + 1 \in 0 .. MaxSent /\ since + 1 \in 0 .. sent + 1
    BY <1>1, <1>3, FramesAssumption
  <2>2. air' \in Seq(Seq(Cell))
    BY <1>6 DEF Sending
  <2> QED
    BY <1>1, <1>2, <1>8, <2>1, <2>2 DEF TypeOK
<1>13. ~parsing' => Settled(buf')
  BY <1>1, <1>2
<1> QED
  BY <1>6, <1>10, <1>11, <1>12, <1>13 DEF IInv

LEMMA SendDamagedStep ==
  ASSUME IInv, SendDamaged
  PROVE  IInv'
<1>1. /\ spoilt < MaxSpoilt /\ spoilt' = spoilt + 1 /\ since' = 0
      /\ UNCHANGED <<buf, parsing, sent, waiting, handled>>
  BY DEF SendDamaged
<1>2. PICK f \in DamagedFrames : air' = Append(air, f)
  BY DEF SendDamaged
<1>3. /\ TypeOK /\ Sending(air) /\ Ascending(waiting)
      /\ \A k \in DOMAIN waiting : waiting[k] <= sent
      /\ ~parsing => Settled(buf)
      /\ Flows(buf, air, parsing, waiting, sent, since, spoilt)
  BY DEF IInv
<1>4. buf \in Seq(Cell) /\ sent \in Nat /\ since \in 0 .. sent /\ spoilt \in Nat
  BY IInvTypes
<1>5. PICK d : d = spoilt + 1 /\ d # 0 /\ d \in 0 .. MaxSpoilt
  <2>1. spoilt + 1 # 0 /\ spoilt + 1 \in 0 .. MaxSpoilt
    BY <1>1, <1>4, FramesAssumption
  <2> QED
    BY <2>1
<1>6. /\ Sending(Append(air, f))
      /\ Flows(buf, Append(air, f), parsing, waiting, sent, 0, d)
  BY <1>3, <1>4, <1>5, FlowDamaged
<1>7. Sending(air') /\ Flows(buf', air', parsing', waiting', sent', since', spoilt')
  BY <1>1, <1>2, <1>5, <1>6
<1>8. TypeOK'
  <2>1. air' \in Seq(Seq(Cell)) /\ spoilt' \in 0 .. MaxSpoilt
    BY <1>1, <1>5, <1>7 DEF Sending
  <2>2. since' \in 0 .. sent'
    BY <1>1, <1>4
  <2> QED
    BY <1>1, <1>3, <2>1, <2>2 DEF TypeOK
<1>9. ~parsing' => Settled(buf')
  BY <1>1, <1>3
<1>10. Ascending(waiting') /\ \A k \in DOMAIN waiting' : waiting'[k] <= sent'
  BY <1>1, <1>3
<1> QED
  BY <1>7, <1>8, <1>9, <1>10 DEF IInv

\* What a step of the server leaves alone of the invariant.
LEMMA ServerStep ==
  ASSUME IInv, UNCHANGED <<sent, since, spoilt>>, buf' \in Seq(Cell), Len(buf') <= BufMax,
         parsing' \in BOOLEAN, Sending(air'), ~parsing' => Settled(buf'),
         waiting' \in Seq(1 .. MaxSent), Ascending(waiting'),
         \A k \in DOMAIN waiting' : waiting'[k] <= sent, handled' \in Seq(Nat),
         Flows(buf', air', parsing', waiting', sent, since, spoilt)
  PROVE  IInv'
<1>1. TypeOK'
  BY DEF IInv, TypeOK, Sending
<1>2. \A k \in DOMAIN waiting' : waiting'[k] <= sent'
  OBVIOUS
<1>3. Flows(buf', air', parsing', waiting', sent', since', spoilt')
  OBVIOUS
<1> QED
  BY <1>1, <1>2, <1>3 DEF IInv

LEMMA IInvIs ==
  ASSUME IInv
  PROVE  /\ Sending(air) /\ Ascending(waiting) /\ \A k \in DOMAIN waiting : waiting[k] <= sent
         /\ ~parsing => Settled(buf)
         /\ Flows(buf, air, parsing, waiting, sent, since, spoilt)
         /\ Len(buf) <= BufMax /\ handled \in Seq(Nat)
  BY DEF IInv, TypeOK

LEMMA SettledNone == Settled(<<>>) /\ <<>> \in Seq(Cell) /\ Len(<<>>) <= BufMax
<1>1. <<>> \in Seq(Cell) /\ Len(<<>>) = 0
  BY EmptySeq
<1>2. 0 <= BufMax
  BY FramesAssumption
<1> QED
  BY <1>1, <1>2 DEF Settled

\* What TakeChunk leaves of the frames of the phone.
LEMMA WriteTakes ==
  ASSUME IInv, NEW n \in 1 .. ChunkMax, TakeChunk(n)
  PROVE  /\ n \in Nat /\ n <= ChunkMax /\ air # <<>> /\ n <= Len(air[1])
         /\ Chunked(air, n, air')
<1>1. /\ air # <<>> /\ n <= Len(Head(air))
      /\ air' = IF n = Len(Head(air)) THEN Tail(air)
                ELSE <<SubSeq(Head(air), n + 1, Len(Head(air)))>> \o Tail(air)
  BY DEF TakeChunk
<1>2. Sending(air)
  BY IInvIs
<1>3. Head(air) = air[1]
  BY <1>1, <1>2, SendingFirst
<1>4. n \in Nat /\ n >= 1 /\ n <= ChunkMax
  BY FramesAssumption
<1>5. n <= Len(air[1])
  BY <1>1, <1>3
<1>6. Chunked(air, n, air')
  BY <1>1, <1>2, <1>4, <1>5, ChunkTaken
<1> QED
  BY <1>1, <1>4, <1>5, <1>6

LEMMA WriteStep ==
  ASSUME IInv, Write
  PROVE  IInv'
<1>1. PICK n \in 1 .. ChunkMax :
        /\ TakeChunk(n)
        /\ IF Len(buf) + n <= BufMax
           THEN buf' = buf \o SubSeq(Head(air), 1, n) /\ parsing' = TRUE
           ELSE buf' = <<>> /\ UNCHANGED parsing
  BY DEF Write
<1>2. ~parsing /\ UNCHANGED <<sent, spoilt, waiting, handled, since>>
  BY DEF Write
<1>3. /\ n \in Nat /\ n <= ChunkMax /\ air # <<>> /\ n <= Len(air[1]) /\ Sending(air')
  BY <1>1, WriteTakes DEF Chunked
<1>4. PICK c \in Seq(Cell), e \in Seq(Cell) :
        /\ c = SubSeq(Head(air), 1, n) /\ Len(c) = n
        /\ air[1] = c \o e /\ Len(air[1]) = n + Len(e)
        /\ Takes(Cell, air[1], n, Len(air[1]) - n, e)
        /\ \A b \in Seq(Cell) : Delivers(b, air', b \o e, Len(e), Tail(air))
  BY <1>1, WriteTakes DEF Chunked
<1>5. /\ buf \in Seq(Cell) /\ Len(buf) \in Nat /\ parsing \in BOOLEAN
      /\ sent \in Nat /\ since \in 0 .. sent /\ spoilt \in Nat
      /\ waiting \in Seq(Nat) /\ waiting \in Seq(1 .. MaxSent)
  BY IInvTypes
<1>6. /\ Sending(air) /\ Ascending(waiting) /\ \A k \in DOMAIN waiting : waiting[k] <= sent
      /\ Settled(buf) /\ handled \in Seq(Nat)
      /\ Flows(buf, air, parsing, waiting, sent, since, spoilt)
  BY <1>2, IInvIs
<1>7. parsing = FALSE
  BY <1>2, <1>5
<1>8. PICK a2 : a2 = air'
  OBVIOUS
<1>9. \A b \in Seq(Cell) : Delivers(b, a2, b \o e, Len(e), Tail(air))
  BY <1>4, <1>8
<1>10. CASE Len(buf) + n <= BufMax
  <2>1. buf' = buf \o c /\ parsing' = TRUE
    BY <1>1, <1>4, <1>10
  <2>2. Len(air[1]) = Len(c) + Len(e)
    BY <1>4
  <2>3. buf \o c \in Seq(Cell) /\ Flows(buf \o c, a2, TRUE, waiting, sent, since, spoilt)
    BY <1>3, <1>4, <1>5, <1>6, <1>7, <1>9, <2>2, FlowWrite
  <2>4. Flows(buf', air', parsing', waiting', sent, since, spoilt)
    BY <1>2, <1>8, <2>1, <2>3
  <2>5. Len(buf') <= BufMax
    <3>1. Len(buf \o c) = Len(buf) + n
      BY <1>4, <1>5, ConcatProperties
    <3> QED
      BY <1>10, <2>1, <3>1
  <2> QED
    BY <1>2, <1>3, <1>5, <1>6, <2>1, <2>3, <2>4, <2>5, ServerStep
<1>11. CASE ~(Len(buf) + n <= BufMax)
  <2>1. buf' = <<>> /\ parsing' = FALSE
    BY <1>1, <1>7, <1>11
  <2>2. Len(buf) + n > BufMax
    BY <1>3, <1>5, <1>11, FramesAssumption
  <2>3. Flows(<<>>, a2, FALSE, waiting, sent, since, spoilt)
    BY <1>3, <1>4, <1>5, <1>6, <1>7, <1>9, <2>2, FlowOverflow
  <2>4. Flows(buf', air', parsing', waiting', sent, since, spoilt)
    BY <1>2, <1>8, <2>1, <2>3
  <2> QED
    BY <1>2, <1>3, <1>5, <1>6, <2>1, <2>4, SettledNone, ServerStep
<1> QED
  BY <1>10, <1>11

LEMMA WriteAtOffsetStep ==
  ASSUME IInv, WriteAtOffset
  PROVE  IInv'
<1>1. PICK n \in 1 .. ChunkMax : TakeChunk(n)
  BY DEF WriteAtOffset
<1>2. /\ ~parsing /\ spoilt < MaxSpoilt /\ buf' = <<>> /\ spoilt' = spoilt + 1 /\ since' = 0
      /\ UNCHANGED <<parsing, sent, waiting, handled>>
  BY DEF WriteAtOffset
<1>3. /\ n \in Nat /\ n <= ChunkMax /\ air # <<>> /\ n <= Len(air[1]) /\ Sending(air')
  BY <1>1, WriteTakes DEF Chunked
<1>4. PICK e \in Seq(Cell) :
        /\ Takes(Cell, air[1], n, Len(air[1]) - n, e)
        /\ \A b \in Seq(Cell) : Delivers(b, air', b \o e, Len(e), Tail(air))
  BY <1>1, WriteTakes DEF Chunked
<1>5. /\ buf \in Seq(Cell) /\ parsing \in BOOLEAN
      /\ sent \in Nat /\ since \in 0 .. sent /\ spoilt \in Nat
      /\ waiting \in Seq(Nat) /\ waiting \in Seq(1 .. MaxSent)
  BY IInvTypes
<1>6. /\ Sending(air) /\ Ascending(waiting) /\ \A k \in DOMAIN waiting : waiting[k] <= sent
      /\ Settled(buf) /\ handled \in Seq(Nat)
      /\ Flows(buf, air, parsing, waiting, sent, since, spoilt)
  BY <1>2, IInvIs
<1>7. parsing = FALSE
  BY <1>2, <1>5
<1>8. PICK a2 : a2 = air'
  OBVIOUS
<1>9. \A b \in Seq(Cell) : Delivers(b, a2, b \o e, Len(e), Tail(air))
  BY <1>4, <1>8
<1>10. PICK d : d = spoilt + 1 /\ d # 0 /\ d \in 0 .. MaxSpoilt
  <2>1. spoilt + 1 # 0 /\ spoilt + 1 \in 0 .. MaxSpoilt
    BY <1>2, <1>5, FramesAssumption
  <2> QED
    BY <2>1
<1>11. Flows(<<>>, a2, FALSE, waiting, sent, 0, d)
  BY <1>3, <1>4, <1>5, <1>6, <1>7, <1>9, <1>10, FlowOffset
<1>12. Flows(buf', air', parsing', waiting', sent', since', spoilt')
  BY <1>2, <1>7, <1>8, <1>10, <1>11
<1>13. TypeOK'
  <2>1. TypeOK
    BY DEF IInv
  <2>2. air' \in Seq(Seq(Cell)) /\ spoilt' \in 0 .. MaxSpoilt /\ since' \in 0 .. sent'
    BY <1>2, <1>3, <1>5, <1>10 DEF Sending
  <2>3. buf' \in Seq(Cell) /\ Len(buf') <= BufMax
    BY <1>2, SettledNone
  <2> QED
    BY <1>2, <2>1, <2>2, <2>3 DEF TypeOK
<1>14. Settled(buf')
  BY <1>2, SettledNone
<1>15. Ascending(waiting') /\ \A k \in DOMAIN waiting' : waiting'[k] <= sent'
  BY <1>2, <1>6
<1> QED
  BY <1>3, <1>12, <1>13, <1>14, <1>15 DEF IInv

LEMMA NeedMoreStep ==
  ASSUME IInv, NeedMore
  PROVE  IInv'
<1>1. /\ parsing /\ parsing' = FALSE
      /\ UNCHANGED <<buf, air, sent, spoilt, waiting, handled, since>>
  BY DEF NeedMore
<1>2. Settled(buf)
  BY DEF NeedMore, AtHeader, Header, Settled
<1>3. /\ buf \in Seq(Cell) /\ parsing \in BOOLEAN
      /\ sent \in Nat /\ since \in 0 .. sent /\ spoilt \in Nat
      /\ waiting \in Seq(Nat) /\ waiting \in Seq(1 .. MaxSent)
  BY IInvTypes
<1>4. /\ Sending(air) /\ Ascending(waiting) /\ \A k \in DOMAIN waiting : waiting[k] <= sent
      /\ Flows(buf, air, parsing, waiting, sent, since, spoilt)
      /\ Len(buf) <= BufMax /\ handled \in Seq(Nat)
  BY IInvIs
<1>5. parsing = TRUE
  BY <1>1, <1>3
<1>6. Flows(buf, air, TRUE, waiting, sent, since, spoilt)
  BY <1>4, <1>5
<1>7. Flows(buf, air, FALSE, waiting, sent, since, spoilt)
  BY <1>2, <1>3, <1>4, <1>6, FlowNeedMore
<1>8. Flows(buf', air', parsing', waiting', sent, since, spoilt)
  BY <1>1, <1>7
<1> QED
  BY <1>1, <1>2, <1>3, <1>4, <1>8, ServerStep

\* What is left when the first m cells of the buffer are taken off.
LEMMA RestTakes ==
  ASSUME IInv, NEW m \in Nat, m <= Len(buf)
  PROVE  LET c == SubSeq(buf, m + 1, Len(buf)) IN
         Takes(Cell, buf, m, Len(buf) - m, c) /\ c \in Seq(Cell) /\ Len(c) <= BufMax
<1>1. buf \in Seq(Cell) /\ Len(buf) \in Nat /\ Len(buf) <= BufMax
  BY IInvTypes, IInvIs
<1>2. PICK n \in Nat : n = Len(buf) - m /\ m + n = Len(buf) /\ n <= Len(buf)
  <2>1. Len(buf) - m \in Nat /\ m + (Len(buf) - m) = Len(buf) /\ Len(buf) - m <= Len(buf)
    BY <1>1
  <2> QED
    BY <2>1
<1>3. PICK c : c = SubSeq(buf, m + 1, m + n)
  OBVIOUS
<1>4. m + n <= Len(buf)
  BY <1>1, <1>2
<1>5. Takes(Cell, buf, m, n, c)
  BY <1>1, <1>3, <1>4, Taken
<1>6. c \in Seq(Cell) /\ Len(c) = n
  BY <1>5 DEF Takes
<1>7. Len(c) <= BufMax
  BY <1>1, <1>2, <1>6, FramesAssumption
<1> QED
  BY <1>2, <1>3, <1>5, <1>6, <1>7

LEMMA SkipByteStep ==
  ASSUME IInv, SkipByte
  PROVE  IInv'
<1>1. /\ parsing /\ Len(buf) >= 2 /\ ~AtHeader /\ buf' = Tail(buf)
      /\ UNCHANGED <<parsing, air, sent, spoilt, waiting, handled, since>>
  BY DEF SkipByte
<1>2. ~Header(buf)
  BY <1>1 DEF AtHeader, Header
<1>3. /\ buf \in Seq(Cell) /\ Len(buf) \in Nat /\ parsing \in BOOLEAN
      /\ sent \in Nat /\ since \in 0 .. sent /\ spoilt \in Nat
      /\ waiting \in Seq(Nat) /\ waiting \in Seq(1 .. MaxSent)
  BY IInvTypes
<1>4. /\ Sending(air) /\ Ascending(waiting) /\ \A k \in DOMAIN waiting : waiting[k] <= sent
      /\ Flows(buf, air, parsing, waiting, sent, since, spoilt)
      /\ handled \in Seq(Nat)
  BY IInvIs
<1>5. parsing = TRUE
  BY <1>1, <1>3
<1>6. 1 \in Nat /\ 1 <= Len(buf)
  BY <1>1, <1>3
<1>7. PICK c : /\ c = SubSeq(buf, 1 + 1, Len(buf))
               /\ Takes(Cell, buf, 1, Len(buf) - 1, c) /\ c \in Seq(Cell) /\ Len(c) <= BufMax
  BY <1>6, RestTakes
<1>8. buf' = c
  BY <1>1, <1>3, <1>7
<1>9. Flows(c, air, parsing, waiting, sent, since, spoilt)
  BY <1>1, <1>2, <1>3, <1>4, <1>5, <1>7, FlowSkip
<1>10. Flows(buf', air', parsing', waiting', sent, since, spoilt)
  BY <1>1, <1>8, <1>9
<1> QED
  BY <1>1, <1>3, <1>4, <1>5, <1>7, <1>8, <1>10, ServerStep

LEMMA ClearOversizedStep ==
  ASSUME IInv, ClearOversized
  PROVE  IInv'
<1>1. /\ parsing /\ AtHeader /\ Len(buf) >= 3 /\ Claimed(buf[3]) > BufMax
      /\ buf' = <<>> /\ parsing' = FALSE
      /\ UNCHANGED <<air, sent, spoilt, waiting, handled, since>>
  BY DEF ClearOversized
<1>2. Header(buf)
  BY <1>1 DEF AtHeader, Header
<1>3. /\ buf \in Seq(Cell) /\ parsing \in BOOLEAN
      /\ sent \in Nat /\ since \in 0 .. sent /\ spoilt \in Nat
      /\ waiting \in Seq(Nat) /\ waiting \in Seq(1 .. MaxSent)
  BY IInvTypes
<1>4. /\ Sending(air) /\ Ascending(waiting) /\ \A k \in DOMAIN waiting : waiting[k] <= sent
      /\ Flows(buf, air, parsing, waiting, sent, since, spoilt)
      /\ handled \in Seq(Nat)
  BY IInvIs
<1>5. parsing = TRUE
  BY <1>1, <1>3
<1>6. Flows(<<>>, air, FALSE, waiting, sent, since, spoilt)
  BY <1>1, <1>2, <1>3, <1>4, <1>5, FlowClear
<1>7. Flows(buf', air', parsing', waiting', sent, since, spoilt)
  BY <1>1, <1>6
<1> QED
  BY <1>1, <1>3, <1>4, <1>7, SettledNone, ServerStep

\* A complete frame at the front of the buffer, and what is left behind it.
LEMMA CompleteFull ==
  ASSUME IInv, Complete
  PROVE  LET m == Claimed(buf[3]) IN
         /\ Full(buf, m) /\ m \in Nat
         /\ Takes(Cell, buf, m, Len(buf) - m, Rest) /\ Rest \in Seq(Cell) /\ Len(Rest) <= BufMax
<1>1. PICK m : m = Claimed(buf[3])
  OBVIOUS
<1>2. /\ buf \in Seq(Cell)
  BY IInvTypes
<1>3. Full(buf, m)
  BY <1>1 DEF Complete, AtHeader, Header, Full
<1>4. m \in Nat /\ m <= Len(buf)
  BY <1>2, <1>3, FullIs DEF Full
<1>5. Rest = SubSeq(buf, m + 1, Len(buf))
  BY <1>1 DEF Rest
<1>6. Takes(Cell, buf, m, Len(buf) - m, Rest) /\ Rest \in Seq(Cell) /\ Len(Rest) <= BufMax
  BY <1>4, <1>5, RestTakes
<1> QED
  BY <1>1, <1>3, <1>4, <1>6

LEMMA DropBadStep ==
  ASSUME IInv, DropBad
  PROVE  IInv'
<1>1. /\ parsing /\ Complete /\ ~Sound(SubSeq(buf, 1, Claimed(buf[3]))) /\ buf' = Rest
      /\ UNCHANGED <<parsing, air, sent, spoilt, waiting, handled, since>>
  BY DEF DropBad
<1>2. PICK m : m = Claimed(buf[3])
  OBVIOUS
<1>3. PICK c : /\ c = Rest /\ Full(buf, m)
               /\ Takes(Cell, buf, m, Len(buf) - m, c) /\ c \in Seq(Cell) /\ Len(c) <= BufMax
  BY <1>1, <1>2, CompleteFull
<1>4. /\ buf \in Seq(Cell) /\ parsing \in BOOLEAN
      /\ sent \in Nat /\ since \in 0 .. sent /\ spoilt \in Nat
      /\ waiting \in Seq(Nat) /\ waiting \in Seq(1 .. MaxSent)
  BY IInvTypes
<1>5. /\ Sending(air) /\ Ascending(waiting) /\ \A k \in DOMAIN waiting : waiting[k] <= sent
      /\ Flows(buf, air, parsing, waiting, sent, since, spoilt)
      /\ handled \in Seq(Nat)
  BY IInvIs
<1>6. parsing = TRUE
  BY <1>1, <1>4
<1>7. ~Sound(SubSeq(buf, 1, m))
  BY <1>1, <1>2
<1>8. Flows(c, air, parsing, waiting, sent, since, spoilt)
  BY <1>3, <1>4, <1>5, <1>6, <1>7, FlowBad
<1>9. Flows(buf', air', parsing', waiting', sent, since, spoilt)
  BY <1>1, <1>3, <1>8
<1> QED
  BY <1>1, <1>3, <1>4, <1>5, <1>6, <1>9, ServerStep

\* A sound frame at the front of the buffer is one that waits; on a connection
\* without damage it is the one that has waited longest.
LEMMA HandleIs ==
  ASSUME IInv, HandleFrame
  PROVE  \E k \in DOMAIN waiting :
           /\ buf[4][2] = waiting[k]
           /\ spoilt = 0 => k = 1
           /\ handled' = Append(handled, waiting[k])
           /\ waiting' = SubSeq(waiting, k + 1, Len(waiting))
<1>1. /\ parsing /\ Complete /\ Sound(SubSeq(buf, 1, Claimed(buf[3])))
      /\ handled' = Append(handled, buf[4][2])
      /\ \/ \E k \in DOMAIN waiting : /\ waiting[k] = buf[4][2]
                                      /\ waiting' = SubSeq(waiting, k + 1, Len(waiting))
         \/ (\A k \in DOMAIN waiting : waiting[k] # buf[4][2]) /\ UNCHANGED waiting
  BY DEF HandleFrame
<1>2. PICK m : m = Claimed(buf[3])
  OBVIOUS
<1>3. Full(buf, m) /\ Sound(SubSeq(buf, 1, m))
  BY <1>1, <1>2, CompleteFull
<1>4. /\ buf \in Seq(Cell) /\ sent \in Nat /\ since \in 0 .. sent /\ spoilt \in Nat
      /\ waiting \in Seq(Nat)
  BY IInvTypes
<1>5. Sending(air) /\ Flows(buf, air, parsing, waiting, sent, since, spoilt)
  BY IInvIs
<1>6. \E k \in DOMAIN waiting : buf[4] = Command(waiting[k])
  BY <1>3, <1>4, <1>5, SoundWaits
<1>7. \E k \in DOMAIN waiting : waiting[k] = buf[4][2]
  BY <1>6, Distinct
<1>8. PICK k \in DOMAIN waiting : /\ waiting[k] = buf[4][2]
                                  /\ waiting' = SubSeq(waiting, k + 1, Len(waiting))
  BY <1>1, <1>7
<1>9. ASSUME spoilt = 0 PROVE k = 1
  BY <1>3, <1>4, <1>5, <1>8, <1>9, HandledNext
<1> QED
  BY <1>1, <1>8, <1>9

LEMMA HandleFrameStep ==
  ASSUME IInv, HandleFrame
  PROVE  IInv'
<1>1. /\ parsing /\ Complete /\ Sound(SubSeq(buf, 1, Claimed(buf[3]))) /\ buf' = Rest
      /\ UNCHANGED <<parsing, air, sent, spoilt, since>>
  BY DEF HandleFrame
<1>2. PICK m : m = Claimed(buf[3])
  OBVIOUS
<1>3. PICK c : /\ c = Rest /\ Full(buf, m)
               /\ Takes(Cell, buf, m, Len(buf) - m, c) /\ c \in Seq(Cell) /\ Len(c) <= BufMax
  BY <1>1, <1>2, CompleteFull
<1>4. /\ buf \in Seq(Cell) /\ parsing \in BOOLEAN
      /\ sent \in Nat /\ since \in 0 .. sent /\ spoilt \in Nat
      /\ waiting \in Seq(Nat) /\ waiting \in Seq(1 .. MaxSent)
  BY IInvTypes
<1>5. /\ Sending(air) /\ Ascending(waiting) /\ \A j \in DOMAIN waiting : waiting[j] <= sent
      /\ Flows(buf, air, parsing, waiting, sent, since, spoilt)
      /\ handled \in Seq(Nat)
  BY IInvIs
<1>6. parsing = TRUE
  BY <1>1, <1>4
<1>7. PICK k \in DOMAIN waiting :
        /\ buf[4][2] = waiting[k]
        /\ handled' = Append(handled, waiting[k])
        /\ waiting' = SubSeq(waiting, k + 1, Len(waiting))
  BY HandleIs
<1>8. PICK ut : ut = SubSeq(waiting, k + 1, Len(waiting))
  OBVIOUS
<1>9. Sound(SubSeq(buf, 1, m))
  BY <1>1, <1>2
<1>10. Flows(c, air, parsing, ut, sent, since, spoilt)
  BY <1>3, <1>4, <1>5, <1>6, <1>7, <1>8, <1>9, FlowHandle
<1>11. Flows(buf', air', parsing', waiting', sent, since, spoilt)
  BY <1>1, <1>3, <1>7, <1>8, <1>10
<1>12. PICK n \in Nat : n = Len(waiting)
  BY <1>4, LenProperties
<1>13. k \in 1 .. n /\ DOMAIN waiting = 1 .. n /\ Takes(1 .. MaxSent, waiting, k, n - k, ut)
  BY <1>4, <1>8, <1>12, WaitingDrop, LenProperties
<1>14. /\ ut \in Seq(1 .. MaxSent) /\ Len(ut) = n - k
       /\ \A q \in 1 .. n - k : ut[q] = waiting[k + q]
  BY <1>13 DEF Takes
<1>15. /\ DOMAIN ut = 1 .. n - k
       /\ \A q \in 1 .. n - k : k + q \in 1 .. n
  BY <1>13, <1>14, LenProperties
<1>16. \A q \in DOMAIN ut : ut[q] <= sent
  BY <1>5, <1>13, <1>14, <1>15
<1>17. Ascending(ut)
  <2>1. ASSUME NEW i \in 1 .. n - k, NEW j \in 1 .. n - k, i < j PROVE ut[i] < ut[j]
    <3>1. k + i \in 1 .. n /\ k + j \in 1 .. n /\ k + i < k + j
      BY <1>13, <1>15, <2>1
    <3>2. waiting[k + i] < waiting[k + j]
      BY <1>5, <1>13, <3>1 DEF Ascending
    <3> QED
      BY <1>14, <3>2
  <2> QED
    BY <1>15, <2>1 DEF Ascending
<1>18. handled' \in Seq(Nat)
  <2>1. waiting[k] \in Nat
    BY <1>4, ElementOfSeq, <1>13, <1>12
  <2> QED
    BY <1>5, <1>7, <2>1, AppendProperties
<1>19. waiting' = ut
  BY <1>7, <1>8
<1> QED
  BY <1>1, <1>3, <1>4, <1>5, <1>6, <1>11, <1>14, <1>16, <1>17, <1>18, <1>19, ServerStep

LEMMA ReconnectStep ==
  ASSUME IInv, Reconnect
  PROVE  IInv'
<1>1. /\ buf' = <<>> /\ parsing' = parsing /\ ~parsing
      /\ air' = <<>> /\ sent' = 0 /\ spoilt' = 0
      /\ waiting' = <<>> /\ handled' = <<>> /\ since' = 0
  BY DEF Reconnect
<1>2. parsing' = FALSE
  BY <1>1, IInvTypes
<1>3. Init'
  BY <1>1, <1>2 DEF Init
<1> QED
  BY <1>3, InitIInv, PTL

LEMMA NextIInv == IInv /\ [Next]_vars => IInv'
<1> SUFFICES ASSUME IInv, [Next]_vars PROVE IInv'
  OBVIOUS
<1>1. CASE \E b \in Bodies : SendFrame(b)
  BY <1>1, SendFrameStep
<1>2. CASE SendDamaged
  BY <1>2, SendDamagedStep
<1>3. CASE Write
  BY <1>3, WriteStep
<1>4. CASE WriteAtOffset
  BY <1>4, WriteAtOffsetStep
<1>5. CASE NeedMore
  BY <1>5, NeedMoreStep
<1>6. CASE SkipByte
  BY <1>6, SkipByteStep
<1>7. CASE ClearOversized
  BY <1>7, ClearOversizedStep
<1>8. CASE DropBad
  BY <1>8, DropBadStep
<1>9. CASE HandleFrame
  BY <1>9, HandleFrameStep
<1>10. CASE Reconnect
  BY <1>10, ReconnectStep
<1>11. CASE UNCHANGED vars
  BY <1>11 DEF vars, IInv, TypeOK
<1> QED
  BY <1>1, <1>2, <1>3, <1>4, <1>5, <1>6, <1>7, <1>8, <1>9, <1>10, <1>11 DEF Next

\* The buffer of the server and the frames still to come: IInv holds in every
\* state of every connection.
THEOREM Invariance == Spec => []IInv
  BY InitIInv, NextIInv, PTL DEF Spec

\* wifi_write_cb never leaves more than WIFI_RX_BUF_MAX in wifi_rx_buf, whatever
\* the phone sends, and the other variables keep their types.
THEOREM TypeCorrect == Spec => []TypeOK
<1>1. IInv => TypeOK
  BY DEF IInv
<1> QED
  BY <1>1, Invariance, PTL

\* The shortest frame has six cells: MostLost is the bound of ResyncIsBounded.
LEMMA ShortestFrame == Len(Frame(0, <<>>)) = 6
<1>1. PICK c : c = <<Length(Len(<<>>) + 1), Command(0)>>
  OBVIOUS
<1>2. Len(c) = 2 /\ c \o <<>> = c
  BY <1>1
<1>3. PICK g : g = <<J, L>>
  OBVIOUS
<1>4. PICK e : e = <<Crc(c), End>>
  OBVIOUS
<1>5. Frame(0, <<>>) = g \o c \o e
  BY <1>1, <1>2, <1>3, <1>4 DEF Frame
<1> QED
  BY <1>1, <1>3, <1>4, <1>5

\* With nothing left to send and the loop at rest, more than MostLost sound
\* frames after the last damage leave the last one handled or passed over.
LEMMA LastIsGone ==
  ASSUME NEW s \in Seq(Cell), FrontOf(s, s, 0), Settled(s),
         NEW base \in Nat, NEW n \in Int, n > MostLost, NEW wt \in Seq(Nat), NEW snt, snt = base + n,
         NEW clean, NEW p, p = FALSE, Phase(s, 0, base, n, p, wt, snt, clean),
         NEW j \in DOMAIN wt, wt[j] <= snt
  PROVE  wt[j] # snt
<1>1. n \in Nat /\ MostLost \in Nat /\ snt > base + MostLost /\ wt[j] \in Nat
  <2>1. wt[j] \in Nat
    BY ElementOfSeq, LenProperties
  <2> QED
    BY <2>1, MostLostIs
<1>2. CASE Stuck(s, 0, base, n, p)
  <2>1. n <= MostLost
    BY <1>1, <1>2, StuckRoom
  <2> QED
    BY <1>1, <2>1
<1>3. CASE Synced(s, 0, base, n, wt, snt, clean)
  <2>1. PICK k \in 0 .. n : Laid(s, 0, base, 1, k + 1, n) /\ Kept(wt, base, k)
    BY <1>3 DEF Synced
  <2>2. k = n
    <3>1. (k = n /\ Len(s) = 0) \/ (k + 1 = n /\ Len(s) <= BufMax /\ 0 > 0)
      BY <1>1, <2>1, SyncedRoom
    <3> QED
      BY <3>1
  <2>3. wt[j] <= base + MostLost \/ wt[j] > base + n
    BY <2>1, <2>2 DEF Kept
  <2> QED
    BY <1>1, <2>3
<1>4. CASE Behind(s, 0, base, n, p)
  <2>1. PICK k \in 1 .. n, a \in Nat : Lagging(s, 0, base, n, p, k, a)
    BY <1>1, <1>4, BehindIs
  <2>2. a > 1 /\ Laid(s, 0, base, a, k + 1, n) /\ k <= MostLost
    BY <2>1 DEF Lagging
  <2>3. n # k /\ k + 1 <= n /\ k + 1 \in Nat
    BY <1>1, <2>2
  <2>4. Len(s) = 1
    BY <1>1, <2>1, <2>3, BehindRoom
  <2>5. a + 6 * ((n - (k + 1)) + 1) <= Len(s) + 1
    BY <1>1, <2>2, <2>3, LaidCount
  <2> QED
    BY <1>1, <2>2, <2>3, <2>4, <2>5
<1> QED
  BY <1>1, <1>2, <1>3, <1>4 DEF Phase

LEMMA IInvResync == IInv => ResyncIsBounded
<1> SUFFICES ASSUME IInv, ~parsing, air = <<>>,
                    since > (BufMax - 4) \div Len(Frame(0, <<>>)) + 1,
                    NEW j \in DOMAIN waiting
             PROVE  waiting[j] # sent
  BY DEF ResyncIsBounded
<1>1. since > MostLost
  BY ShortestFrame DEF MostLost
<1>2. /\ buf \in Seq(Cell) /\ Len(buf) \in Nat /\ parsing \in BOOLEAN
      /\ sent \in Nat /\ since \in 0 .. sent /\ spoilt \in Nat
      /\ waiting \in Seq(Nat)
  BY IInvTypes
<1>3. /\ Sending(air) /\ waiting[j] <= sent /\ Settled(buf)
      /\ Flows(buf, air, parsing, waiting, sent, since, spoilt)
  BY IInvIs
<1>4. PICK p : p = parsing /\ p = FALSE
  BY <1>2
<1>5. PICK s, h, w : Delivers(buf, air, s, h, w) /\ Follows(s, h, w, p, waiting, sent, since, spoilt)
  BY <1>3, <1>4 DEF Flows
<1>6. s = buf /\ h = 0 /\ w = air
  BY <1>5 DEF Delivers
<1>7. Len(w) = 0
  BY <1>6
<1>8. PICK clean : clean = (spoilt = 0)
  OBVIOUS
<1>9. PICK base \in Nat, n \in Int : base = sent - since /\ n = since - Len(w)
  <2>1. sent - since \in Nat /\ since - Len(w) \in Int
    BY <1>2, <1>7
  <2> QED
    BY <2>1
<1>10. n = since /\ sent = base + n
  BY <1>2, <1>7, <1>9
<1>11. Phase(buf, 0, base, n, p, waiting, sent, clean)
  BY <1>5, <1>6, <1>8, <1>9 DEF Follows
<1>12. FrontOf(buf, buf, 0)
  BY <1>2 DEF FrontOf
<1>13. n > MostLost
  BY <1>1, <1>10
<1> QED
  BY <1>2, <1>3, <1>4, <1>9, <1>10, <1>11, <1>12, <1>13, LastIsGone

\* wifi_process_frames drops a damaged frame by the length it claims, and may
\* take text for a header: whatever the damage, no more than MostLost of the
\* sound frames behind it are lost, then the service answers again.
THEOREM Resync == Spec => []ResyncIsBounded
  BY Invariance, IInvResync, PTL

\* Every step of the code is a step of the queue the characteristic promises.
LEMMA QueueStep == IInv /\ [Next]_vars => [Queue!QNext]_(Queue!qvars)
<1> SUFFICES ASSUME IInv, [Next]_vars PROVE [Queue!QNext]_(Queue!qvars)
  OBVIOUS
<1>1. sent \in Nat /\ spoilt \in Nat /\ waiting \in Seq(Nat)
  BY IInvTypes
<1>2. CASE \E b \in Bodies : SendFrame(b)
  <2>1. /\ sent < MaxSent /\ waiting' = Append(waiting, sent + 1) /\ UNCHANGED <<handled, spoilt>>
    BY <1>2 DEF SendFrame
  <2>2. sent + 1 \in 1 .. MaxSent
    BY <1>1, <2>1, FramesAssumption
  <2>3. Queue!Send
    BY <2>1, <2>2 DEF Queue!Send
  <2> QED
    BY <2>3 DEF Queue!QNext
<1>3. CASE SendDamaged \/ WriteAtOffset
  <2>1. spoilt' = spoilt + 1 /\ UNCHANGED <<waiting, handled>>
    BY <1>3 DEF SendDamaged, WriteAtOffset
  <2>2. (spoilt' > 0) = TRUE
    BY <1>1, <2>1
  <2>3. Queue!Damage
    BY <2>1, <2>2 DEF Queue!Damage
  <2> QED
    BY <2>3 DEF Queue!QNext
<1>4. CASE HandleFrame
  <2>1. PICK k \in DOMAIN waiting :
          /\ spoilt = 0 => k = 1
          /\ handled' = Append(handled, waiting[k])
          /\ waiting' = SubSeq(waiting, k + 1, Len(waiting))
    BY <1>4, HandleIs
  <2>2. spoilt' = spoilt
    BY <1>4 DEF HandleFrame
  <2>3. k > 1 => spoilt > 0
    BY <1>1, <2>1
  <2>4. Queue!Deliver
    BY <2>1, <2>2, <2>3 DEF Queue!Deliver
  <2> QED
    BY <2>4 DEF Queue!QNext
<1>5. CASE Reconnect
  <2>1. waiting' = <<>> /\ handled' = <<>> /\ spoilt' = 0
    BY <1>5 DEF Reconnect
  <2>2. (spoilt' > 0) = FALSE
    BY <2>1
  <2>3. Queue!Renew
    BY <2>1, <2>2 DEF Queue!Renew
  <2> QED
    BY <2>3 DEF Queue!QNext
<1>6. CASE Write \/ NeedMore \/ SkipByte \/ ClearOversized \/ DropBad \/ UNCHANGED vars
  <2>1. UNCHANGED <<waiting, handled, spoilt>>
    BY <1>6 DEF Write, NeedMore, SkipByte, ClearOversized, DropBad, vars
  <2> QED
    BY <2>1 DEF Queue!qvars
<1> QED
  BY <1>2, <1>3, <1>4, <1>5, <1>6 DEF Next

LEMMA QueueInit == Init => Queue!QInit
<1> SUFFICES ASSUME Init PROVE Queue!QInit
  OBVIOUS
<1>1. waiting = <<>> /\ handled = <<>> /\ spoilt = 0
  BY DEF Init
<1>2. (spoilt > 0) = FALSE
  BY <1>1
<1> QED
  BY <1>1, <1>2 DEF Queue!QInit

\* However the writes of a phone are cut, commands are handled in the order
\* they were sent and none twice, and on a connection without damage none is
\* passed over.
THEOREM Queueing == Spec => ImplementsFrameQueue
  BY Invariance, QueueInit, QueueStep, PTL DEF Spec, ImplementsFrameQueue, Queue!QSpec
=============================================================================
