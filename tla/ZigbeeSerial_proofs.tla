------------------------- MODULE ZigbeeSerial_proofs -------------------------
(***************************************************************************)
(* Proofs about ZigbeeSerial, for any characters, limits and commands.     *)
(***************************************************************************)
EXTENDS ZigbeeSerial, SequenceTheorems, FiniteSetTheorems, WellFoundedInduction, TLAPS

USE DEF vars, rx, tx
-----------------------------------------------------------------------------
(***************************************************************************)
(* Arithmetic.                                                             *)
(***************************************************************************)
LEMMA NumbersByInduction ==
  ASSUME NEW S, 0 \in S, \A n \in Nat : n \in S => n + 1 \in S
  PROVE  Nat \subseteq S
<1>. DEFINE R == OpToRel(<, Nat)
            missing == Nat \ S
<1>. SUFFICES ASSUME missing # {} PROVE FALSE
  OBVIOUS
<1>1. IsWellFoundedOn(R, Nat)
  BY NatLessThanWellFounded
<1>2. \A x, y \in Nat : x < y => <<x, y>> \in R
  BY DEF R, OpToRel
<1>3. missing \subseteq Nat
  OBVIOUS
<1>. HIDE DEF R, missing
<1>4. PICK x \in missing : \A y \in missing : ~ (<<y, x>> \in R)
  BY <1>1, <1>3, WFMin
<1>5. x \in Nat /\ x # 0 /\ x - 1 \in Nat /\ x - 1 < x
  BY <1>4 DEF missing
<1>6. x - 1 \notin S
  BY <1>4, <1>5 DEF missing
<1>. QED
  BY <1>2, <1>4, <1>5, <1>6 DEF missing

LEMMA Multiples ==
  ASSUME NEW d \in Nat, NEW k \in Int
  PROVE  (k >= 2 => d * k >= 2 * d) /\ (k < 0 => d * k <= 0 - d)
OBVIOUS

\* One character more: what is left counts up to MaxLine and starts again.
LEMMA LeftNext ==
  ASSUME NEW n \in Nat
  PROVE  /\ Left(n) \in 0..MaxLine /\ Left(0) = 0
         /\ Left(n + 1) = IF Left(n) = MaxLine THEN 0 ELSE Left(n) + 1
<1>. DEFINE d == MaxLine + 1
            q == n \div d
            p == (n + 1) \div d
            k == p - q
            r == Left(n)
            t == Left(n + 1)
<1>1. /\ MaxLine \in Nat \ {0} /\ d \in Nat /\ q \in Int /\ p \in Int /\ k \in Int
      /\ r \in 0..MaxLine /\ t \in 0..MaxLine /\ Left(0) = 0
      /\ n = d * q + r /\ n + 1 = d * p + t
  BY SizeAssumption DEF Left
<1>. HIDE DEF d, q, p, r, t
<1>2. d * p = d * q + d * k
  BY <1>1
<1>3. d * p \in Int /\ d * q \in Int /\ d * k \in Int
  BY <1>1
<1>4. d * k = 1 + r - t
  BY <1>1, <1>2, <1>3
<1>. HIDE DEF k
<1>5. k = 0 \/ k = 1
  BY <1>1, <1>4, Multiples DEF d
<1>6. CASE k = 0
  BY <1>1, <1>4, <1>6 DEF t, r
<1>7. CASE k = 1
  BY <1>1, <1>4, <1>7 DEF d, t, r
<1>. QED
  BY <1>5, <1>6, <1>7
-----------------------------------------------------------------------------
(***************************************************************************)
(* The line that a position is in, when a byte arrives.                    *)
(***************************************************************************)
Later(s, p, x) == {y \in InLine(s, p) : y > x}

LEMMA InLineFinite ==
  ASSUME NEW s, NEW p \in Nat
  PROVE  /\ IsFiniteSet(InLine(s, p)) /\ Cardinality(InLine(s, p)) \in Nat
         /\ \A x : IsFiniteSet(Later(s, p, x)) /\ Cardinality(Later(s, p, x)) \in Nat
<1>1. IsFiniteSet(1..(p - 1))
  BY FS_Interval
<1>2. InLine(s, p) \in SUBSET (1..(p - 1))
  BY DEF InLine
<1>3. \A x : Later(s, p, x) \in SUBSET (1..(p - 1))
  BY <1>2 DEF Later
<1>. QED
  BY <1>1, <1>2, <1>3, FS_Subset, FS_CardinalityType

\* What came before stays as it was.
LEMMA InLineSame ==
  ASSUME NEW s, NEW t, NEW p \in Nat, \A x \in 1..(p - 1) : t[x] = s[x]
  PROVE  /\ InLine(t, p) = InLine(s, p)
         /\ \A l : EndsWith(s, p, l) => EndsWith(t, p, l)
         /\ \A l : IsWhatIsLeft(s, p, l) => IsWhatIsLeft(t, p, l)
<1>1. InLine(t, p) = InLine(s, p)
  BY DEF InLine
<1>2. \A x \in InLine(s, p) : t[x] = s[x]
  BY DEF InLine
<1>3. \A l : EndsWith(s, p, l) => EndsWith(t, p, l)
  BY <1>1, <1>2 DEF EndsWith
<1>. QED
  BY <1>1, <1>3 DEF IsWhatIsLeft

LEMMA InLineNext ==
  ASSUME NEW s \in Seq(Bytes), NEW ch \in Bytes, NEW n, n = Len(s) + 1
  PROVE  InLine(Append(s, ch), n + 1) = IF ch = LF THEN {}
                                        ELSE IF ch = CR THEN InLine(s, n)
                                        ELSE InLine(s, n) \cup {n}
<1>. DEFINE t == Append(s, ch)
<1>1. /\ n \in Nat \ {0} /\ t[n] = ch /\ \A x \in 1..(n - 1) : t[x] = s[x]
  BY AppendProperties, LenProperties
<1>. HIDE DEF t
<1>2. (n + 1) - 1 = n
  BY <1>1
<1>3. InLine(t, n + 1) = {x \in 1..n : t[x] # CR /\ \A y \in x..n : t[y] # LF}
  BY <1>2 DEF InLine
<1>4. CASE ch = LF
  <2>1. \A x \in 1..n : n \in x..n
    BY <1>1
  <2>. QED
    BY <1>1, <1>3, <1>4, <2>1 DEF t
<1>5. CASE ch # LF
  <2>1. ASSUME NEW x \in 1..(n - 1)
        PROVE  x \in InLine(t, n + 1) <=> x \in InLine(s, n)
    <3>1. x..n = x..(n - 1) \cup {n} /\ x \in 1..n
      BY <1>1
    <3>2. \A y \in x..(n - 1) : t[y] = s[y]
      BY <1>1
    <3>. QED
      BY <1>1, <1>3, <1>5, <3>1, <3>2 DEF InLine
  <2>2. n \in InLine(t, n + 1) <=> ch # CR
    BY <1>1, <1>3, <1>5
  <2>3. InLine(t, n + 1) \subseteq 1..(n - 1) \cup {n} /\ InLine(s, n) \subseteq 1..(n - 1)
    BY <1>1, <1>3 DEF InLine
  <2>4. InLine(t, n + 1) = IF ch = CR THEN InLine(s, n) ELSE InLine(s, n) \cup {n}
    <3>1. ASSUME ch = CR PROVE InLine(t, n + 1) = InLine(s, n)
      BY <2>1, <2>2, <2>3, <3>1
    <3>2. ASSUME ch # CR PROVE InLine(t, n + 1) = InLine(s, n) \cup {n}
      BY <2>1, <2>2, <2>3, <3>2
    <3>. QED
      BY <3>1, <3>2
  <2>. QED
    BY <1>5, <2>4 DEF t
<1>. QED
  BY <1>4, <1>5
-----------------------------------------------------------------------------
(***************************************************************************)
(* One byte: if the buffer is what is left of the current line, and the    *)
(* lines are those of the bytes so far, they are so after the byte.        *)
(***************************************************************************)
Receiver == [buffer : Seq(Chars), lines : Seq(Seq(Chars))]

BufferRight(s, b) == IsWhatIsLeft(s, Len(s) + 1, b)

AreLinesOf(s, ls, end) ==
  /\ end \in [DOMAIN ls -> LineEnds(s)]
  /\ \A j, k \in DOMAIN ls : j < k => end[j] < end[k]
  /\ \A p \in LineEnds(s) : \E k \in DOMAIN ls : end[k] = p
  /\ \A k \in DOMAIN ls : IsWhatIsLeft(s, end[k], ls[k])

LinesRight(s, ls) == \E end : AreLinesOf(s, ls, end)

LEMMA BufferNext ==
  ASSUME NEW s \in Seq(Bytes), NEW ch \in Chars, NEW b \in Seq(Chars), BufferRight(s, b)
  PROVE  BufferRight(Append(s, ch), IF Len(b) >= MaxLine THEN <<>> ELSE Append(b, ch))
<1>. DEFINE n == Len(s) + 1
            t == Append(s, ch)
            c == Cardinality(InLine(s, n))
<1>1. /\ ch \in Bytes /\ ch # CR /\ ch # LF
      /\ n \in Nat /\ Len(t) = n /\ t[n] = ch /\ \A x \in 1..(n - 1) : t[x] = s[x]
      /\ Len(b) \in Nat /\ DOMAIN b = 1..Len(b)
  BY CharAssumption, AppendProperties, LenProperties DEF Bytes
<1>2. c \in Nat /\ Len(b) = Left(c) /\ EndsWith(s, n, b)
  BY <1>1, InLineFinite DEF BufferRight, IsWhatIsLeft
<1>3. InLine(t, n + 1) = InLine(s, n) \cup {n}
  <2>1. n = Len(s) + 1
    OBVIOUS
  <2>. HIDE DEF n
  <2>2. InLine(Append(s, ch), n + 1) = IF ch = LF THEN {}
                                       ELSE IF ch = CR THEN InLine(s, n)
                                       ELSE InLine(s, n) \cup {n}
    BY <1>1, <2>1, InLineNext
  <2>. QED
    BY <1>1, <2>2
<1>4. n \notin InLine(s, n) /\ IsFiniteSet(InLine(s, n)) /\ InLine(s, n) \subseteq 1..(n - 1)
  <2>1. InLine(s, n) \subseteq 1..(n - 1)
    BY DEF InLine
  <2>. QED
    BY <1>1, <2>1, InLineFinite
<1>. HIDE DEF t, c, n
<1>5. Cardinality(InLine(t, n + 1)) = c + 1
  BY <1>3, <1>4, FS_AddElement DEF c
<1>6. Left(c + 1) = IF Len(b) = MaxLine THEN 0 ELSE Len(b) + 1
  BY <1>2, LeftNext
<1>7. Len(b) \in 0..MaxLine
  BY <1>2, LeftNext
<1>8. CASE Len(b) >= MaxLine
  <2>1. Left(c + 1) = 0
    BY <1>6, <1>7, <1>8, SizeAssumption
  <2>2. Len(<<>>) = 0
    OBVIOUS
  <2>3. EndsWith(t, n + 1, <<>>)
    <3>1. n + 1 \in Nat
      BY <1>1
    <3>2. ASSUME NEW x PROVE ~ (Cardinality({y \in InLine(t, n + 1) : y > x}) < 0)
      <4>1. Cardinality(Later(t, n + 1, x)) \in Nat
        BY <3>1, InLineFinite
      <4>. QED
        BY <4>1 DEF Later
    <3>. QED
      BY <2>2, <3>2 DEF EndsWith
  <2>. QED
    BY <1>1, <1>5, <1>8, <2>1, <2>2, <2>3 DEF BufferRight, IsWhatIsLeft, t
<1>9. CASE ~ (Len(b) >= MaxLine)
  <2>. DEFINE g == Append(b, ch)
  <2>1. Len(g) = Len(b) + 1 /\ g[Len(b) + 1] = ch /\ \A i \in 1..Len(b) : g[i] = b[i]
    BY AppendProperties
  <2>. HIDE DEF g
  <2>2. Left(c + 1) = Len(g)
    BY <1>6, <1>9, <2>1, SizeAssumption, <1>7
  <2>3. ASSUME NEW x \in InLine(s, n), Cardinality(Later(t, n + 1, x)) < Len(g)
        PROVE  g[Len(g) - Cardinality(Later(t, n + 1, x))] = t[x]
    <3>. DEFINE m == Cardinality(Later(s, n, x))
    <3>1. x \in 1..(n - 1) /\ x < n
      BY <1>1, <1>4
    <3>2. Later(t, n + 1, x) = Later(s, n, x) \cup {n}
      BY <1>3, <3>1 DEF Later
    <3>3. n \notin Later(s, n, x) /\ IsFiniteSet(Later(s, n, x)) /\ m \in Nat
      BY <1>1, <1>4, InLineFinite DEF Later
    <3>. HIDE DEF m
    <3>4. Cardinality(Later(t, n + 1, x)) = m + 1
      BY <3>2, <3>3, FS_AddElement DEF m
    <3>5. m < Len(b)
      BY <1>1, <2>1, <2>3, <3>3, <3>4
    <3>6. b[Len(b) - m] = s[x]
      BY <1>2, <3>5 DEF EndsWith, Later, m
    <3>7. Len(b) - m \in 1..Len(b) /\ Len(g) - (m + 1) = Len(b) - m
      BY <1>1, <2>1, <3>3, <3>5
    <3>. QED
      BY <1>1, <2>1, <3>1, <3>4, <3>6, <3>7
  <2>4. g[Len(g) - Cardinality(Later(t, n + 1, n))] = t[n]
    <3>1. Later(t, n + 1, n) = {}
      BY <1>1, <1>3, <1>4 DEF Later
    <3>2. Cardinality(Later(t, n + 1, n)) = 0
      BY <3>1, FS_EmptySet
    <3>. QED
      BY <1>1, <2>1, <3>2
  <2>5. EndsWith(t, n + 1, g)
    BY <1>3, <2>3, <2>4 DEF EndsWith, Later
  <2>. QED
    BY <1>1, <1>5, <1>9, <2>2, <2>5 DEF BufferRight, IsWhatIsLeft, t, g
<1>. QED
  BY <1>8, <1>9

\* The ends of lines, when a byte arrives.
LEMMA LineEndsNext ==
  ASSUME NEW s \in Seq(Bytes), NEW ch \in Bytes, NEW n, n = Len(s) + 1
  PROVE  /\ LineEnds(s) \subseteq 1..(n - 1) /\ n \in Nat
         /\ LineEnds(Append(s, ch)) =
              IF ch = LF /\ Left(Cardinality(InLine(s, n))) # 0
              THEN LineEnds(s) \cup {n} ELSE LineEnds(s)
         /\ \A p \in 1..n : \A l : IsWhatIsLeft(s, p, l) => IsWhatIsLeft(Append(s, ch), p, l)
<1>. DEFINE t == Append(s, ch)
<1>1. /\ n \in Nat \ {0} /\ DOMAIN s = 1..(n - 1) /\ DOMAIN t = 1..n
      /\ t[n] = ch /\ \A x \in 1..(n - 1) : t[x] = s[x]
  BY AppendProperties, LenProperties
<1>. HIDE DEF t
<1>2. ASSUME NEW p \in 1..n
      PROVE  /\ InLine(t, p) = InLine(s, p)
             /\ \A l : IsWhatIsLeft(s, p, l) => IsWhatIsLeft(t, p, l)
  <2>1. p \in Nat /\ \A x \in 1..(p - 1) : t[x] = s[x]
    BY <1>1
  <2>. QED
    BY <2>1, InLineSame
<1>3. \A p \in 1..(n - 1) : p \in LineEnds(t) <=> p \in LineEnds(s)
  BY <1>1, <1>2 DEF LineEnds
<1>4. n \in LineEnds(t) <=> (ch = LF /\ Left(Cardinality(InLine(s, n))) # 0)
  BY <1>1, <1>2 DEF LineEnds
<1>5. LineEnds(t) \subseteq 1..n /\ LineEnds(s) \subseteq 1..(n - 1) /\ n \notin 1..(n - 1)
      /\ \A p \in 1..n : p \in 1..(n - 1) \/ p = n
  BY <1>1 DEF LineEnds
<1>6. LineEnds(t) = IF ch = LF /\ Left(Cardinality(InLine(s, n))) # 0
                    THEN LineEnds(s) \cup {n} ELSE LineEnds(s)
  <2>1. CASE ch = LF /\ Left(Cardinality(InLine(s, n))) # 0
    <3>1. LineEnds(t) = LineEnds(s) \cup {n}
      BY <1>3, <1>4, <1>5, <2>1
    <3>. QED
      BY <2>1, <3>1
  <2>2. CASE ~ (ch = LF /\ Left(Cardinality(InLine(s, n))) # 0)
    <3>1. LineEnds(t) = LineEnds(s)
      BY <1>3, <1>4, <1>5, <2>2
    <3>. QED
      BY <2>2, <3>1
  <2>. QED
    BY <2>1, <2>2
<1>. QED
  BY <1>1, <1>2, <1>5, <1>6 DEF t

LEMMA LinesStay ==
  ASSUME NEW s \in Seq(Bytes), NEW ch \in Bytes, NEW ls, LinesRight(s, ls),
         LineEnds(Append(s, ch)) = LineEnds(s)
  PROVE  LinesRight(Append(s, ch), ls)
<1>. DEFINE t == Append(s, ch)
            n == Len(s) + 1
<1>1. PICK end : AreLinesOf(s, ls, end)
  BY DEF LinesRight
<1>2. /\ LineEnds(s) \subseteq 1..(n - 1) /\ n \in Nat
      /\ \A p \in 1..n : \A l : IsWhatIsLeft(s, p, l) => IsWhatIsLeft(t, p, l)
  BY LineEndsNext
<1>. HIDE DEF t, n
<1>3. \A k \in DOMAIN ls : end[k] \in 1..n
  BY <1>1, <1>2 DEF AreLinesOf
<1>4. AreLinesOf(t, ls, end)
  BY <1>1, <1>2, <1>3 DEF AreLinesOf, t
<1>. QED
  BY <1>4 DEF LinesRight, t

LEMMA LinesNext ==
  ASSUME NEW s \in Seq(Bytes), NEW b \in Seq(Chars), BufferRight(s, b), b # <<>>,
         NEW ls \in Seq(Seq(Chars)), LinesRight(s, ls)
  PROVE  LinesRight(Append(s, LF), Append(ls, b))
<1>. DEFINE t == Append(s, LF)
            n == Len(s) + 1
            K == Len(ls)
            new == Append(ls, b)
<1>1. PICK end : AreLinesOf(s, ls, end)
  BY DEF LinesRight
<1>2. /\ K \in Nat /\ DOMAIN ls = 1..K /\ DOMAIN new = 1..(K + 1) /\ new[K + 1] = b
      /\ \A k \in 1..K : new[k] = ls[k]
  BY AppendProperties, LenProperties
<1>3. Left(Cardinality(InLine(s, n))) # 0 /\ IsWhatIsLeft(s, n, b)
  <2>1. Len(b) # 0
    BY EmptySeq, LenProperties
  <2>. QED
    BY <2>1 DEF BufferRight, IsWhatIsLeft
<1>4. n = Len(s) + 1 /\ LF \in Bytes
  BY DEF Bytes
<1>. HIDE DEF n, K, new
<1>5. /\ LineEnds(s) \subseteq 1..(n - 1) /\ n \in Nat
      /\ LineEnds(t) = LineEnds(s) \cup {n}
      /\ \A p \in 1..n : \A l : IsWhatIsLeft(s, p, l) => IsWhatIsLeft(t, p, l)
  <2>1. /\ LineEnds(s) \subseteq 1..(n - 1) /\ n \in Nat
        /\ LineEnds(t) = IF LF = LF /\ Left(Cardinality(InLine(s, n))) # 0
                         THEN LineEnds(s) \cup {n} ELSE LineEnds(s)
        /\ \A p \in 1..n : \A l : IsWhatIsLeft(s, p, l) => IsWhatIsLeft(t, p, l)
    BY <1>4, LineEndsNext
  <2>. QED
    BY <1>3, <2>1
<1>. HIDE DEF t
<1>. DEFINE last == [k \in 1..(K + 1) |-> IF k = K + 1 THEN n ELSE end[k]]
<1>6. /\ \A k \in 1..K : last[k] = end[k] /\ end[k] \in LineEnds(s) /\ end[k] \in 1..n
                         /\ end[k] < n
      /\ last[K + 1] = n /\ n \in 1..n
  <2>1. \A k \in 1..K : end[k] \in LineEnds(s)
    BY <1>1, <1>2 DEF AreLinesOf
  <2>2. \A p \in LineEnds(s) : p \in 1..n /\ p < n
    BY <1>5
  <2>3. n \in 1..n
    BY <1>4, <1>5, LenProperties
  <2>4. \A k \in 1..K : k \in 1..(K + 1) /\ k # K + 1
    BY <1>2
  <2>5. K + 1 \in 1..(K + 1)
    BY <1>2
  <2>. QED
    BY <2>1, <2>2, <2>3, <2>4, <2>5
<1>7. \A k \in 1..(K + 1) : k \in 1..K \/ k = K + 1
  BY <1>2
<1>8. last \in [1..(K + 1) -> LineEnds(t)]
  BY <1>5, <1>6, <1>7
<1>. HIDE DEF last
<1>9. ASSUME NEW j \in 1..(K + 1), NEW k \in 1..(K + 1), j < k PROVE last[j] < last[k]
  <2>1. j \in 1..K
    BY <1>2, <1>9
  <2>2. CASE k \in 1..K
    BY <1>1, <1>2, <1>6, <1>9, <2>1, <2>2 DEF AreLinesOf
  <2>3. CASE k = K + 1
    BY <1>6, <2>1, <2>3
  <2>. QED
    BY <1>7, <2>2, <2>3
<1>10. ASSUME NEW p \in LineEnds(t) PROVE \E k \in 1..(K + 1) : last[k] = p
  <2>1. CASE p = n
    BY <1>2, <1>6, <2>1
  <2>2. CASE p \in LineEnds(s)
    <3>1. PICK k \in 1..K : end[k] = p
      BY <1>1, <1>2, <2>2 DEF AreLinesOf
    <3>2. k \in 1..(K + 1)
      BY <1>2
    <3>. QED
      BY <1>6, <3>1, <3>2
  <2>. QED
    BY <1>5, <2>1, <2>2
<1>11. ASSUME NEW k \in 1..(K + 1) PROVE IsWhatIsLeft(t, last[k], new[k])
  <2>1. CASE k \in 1..K
    <3>1. IsWhatIsLeft(s, end[k], ls[k])
      BY <1>1, <1>2, <2>1 DEF AreLinesOf
    <3>. QED
      BY <1>2, <1>5, <1>6, <2>1, <3>1
  <2>2. CASE k = K + 1
    BY <1>2, <1>3, <1>5, <1>6, <2>2
  <2>. QED
    BY <1>7, <2>1, <2>2
<1>12. AreLinesOf(t, new, last)
  BY <1>2, <1>8, <1>9, <1>10, <1>11 DEF AreLinesOf
<1>. QED
  BY <1>12 DEF LinesRight, t, new

Framed(s, r) == r \in Receiver /\ BufferRight(s, r.buffer) /\ LinesRight(s, r.lines)

LEMMA ByteHandled ==
  ASSUME NEW s \in Seq(Bytes), NEW ch \in Bytes, NEW r, Framed(s, r)
  PROVE  Framed(Append(s, ch), HandleIncomingByte(r, ch))
<1>. DEFINE t == Append(s, ch)
            n == Len(s) + 1
            h == HandleIncomingByte(r, ch)
<1>1. /\ r \in Receiver /\ r.buffer \in Seq(Chars) /\ r.lines \in Seq(Seq(Chars))
      /\ BufferRight(s, r.buffer) /\ LinesRight(s, r.lines)
  BY DEF Framed, Receiver
<1>2. /\ Len(t) = n /\ n \in Nat /\ \A x \in 1..(n - 1) : t[x] = s[x]
      /\ n = Len(s) + 1
  BY AppendProperties, LenProperties
<1>. HIDE DEF n
<1>3. LineEnds(t) = IF ch = LF /\ Left(Cardinality(InLine(s, n))) # 0
                    THEN LineEnds(s) \cup {n} ELSE LineEnds(s)
  BY <1>2, LineEndsNext
<1>4. InLine(t, n + 1) = IF ch = LF THEN {}
                         ELSE IF ch = CR THEN InLine(s, n)
                         ELSE InLine(s, n) \cup {n}
  BY <1>2, InLineNext
<1>5. CASE ch = CR
  <2>1. h = r /\ ch # LF
    BY <1>5, CharAssumption DEF HandleIncomingByte
  <2>2. LinesRight(t, r.lines)
    BY <1>1, <1>3, <2>1, LinesStay
  <2>3. BufferRight(t, r.buffer)
    <3>1. InLine(t, n + 1) = InLine(s, n)
      BY <1>4, <1>5, <2>1
    <3>2. IsWhatIsLeft(s, n, r.buffer)
      BY <1>1, <1>2 DEF BufferRight
    <3>3. \A x \in InLine(s, n) : t[x] = s[x]
      BY <1>2 DEF InLine
    <3>4. IsWhatIsLeft(t, n + 1, r.buffer)
      BY <3>1, <3>2, <3>3 DEF IsWhatIsLeft, EndsWith
    <3>. QED
      BY <1>2, <3>4 DEF BufferRight
  <2>. QED
    BY <1>1, <2>1, <2>2, <2>3 DEF Framed
<1>6. CASE ch = LF
  <2>. DEFINE ls == IF r.buffer = <<>> THEN r.lines ELSE Append(r.lines, r.buffer)
  <2>1. h = [buffer |-> <<>>, lines |-> ls]
    BY <1>6, CharAssumption DEF HandleIncomingByte
  <2>2. BufferRight(t, <<>>)
    <3>1. InLine(t, n + 1) = {}
      BY <1>4, <1>6
    <3>2. Cardinality(InLine(t, n + 1)) = 0 /\ Left(0) = 0
      BY <3>1, FS_EmptySet, LeftNext
    <3>3. EndsWith(t, n + 1, <<>>)
      BY <3>1 DEF EndsWith
    <3>. QED
      BY <1>2, <3>2, <3>3 DEF BufferRight, IsWhatIsLeft
  <2>3. LinesRight(t, ls) /\ ls \in Seq(Seq(Chars))
    <3>1. CASE r.buffer = <<>>
      <4>1. Left(Cardinality(InLine(s, n))) = 0
        BY <1>1, <1>2, <3>1 DEF BufferRight, IsWhatIsLeft
      <4>2. LinesRight(t, r.lines)
        BY <1>1, <1>3, <4>1, LinesStay
      <4>. QED
        BY <1>1, <3>1, <4>2
    <3>2. CASE r.buffer # <<>>
      <4>1. LinesRight(t, Append(r.lines, r.buffer))
        BY <1>1, <1>6, <3>2, LinesNext
      <4>2. Append(r.lines, r.buffer) \in Seq(Seq(Chars))
        BY <1>1, AppendProperties
      <4>. QED
        BY <3>2, <4>1, <4>2
    <3>. QED
      BY <3>1, <3>2
  <2>. HIDE DEF ls, h, t
  <2>4. h \in Receiver /\ h.buffer = <<>> /\ h.lines = ls
    BY <2>1, <2>3 DEF Receiver
  <2>. QED
    BY <2>2, <2>3, <2>4 DEF Framed, h, t
<1>7. CASE ch # CR /\ ch # LF
  <2>. DEFINE b == IF Len(r.buffer) >= MaxLine THEN <<>> ELSE Append(r.buffer, ch)
  <2>1. ch \in Chars
    BY <1>7 DEF Bytes
  <2>2. BufferRight(t, b) /\ b \in Seq(Chars)
    <3>1. BufferRight(t, b)
      BY <1>1, <2>1, BufferNext
    <3>2. Append(r.buffer, ch) \in Seq(Chars) /\ <<>> \in Seq(Chars)
      BY <1>1, <2>1, AppendProperties, EmptySeq
    <3>. QED
      BY <3>1, <3>2
  <2>3. LinesRight(t, r.lines)
    BY <1>1, <1>3, <1>7, LinesStay
  <2>4. h = [r EXCEPT !.buffer = b]
    BY <1>7 DEF HandleIncomingByte
  <2>. HIDE DEF h, b, t
  <2>5. h \in Receiver /\ h.buffer = b /\ h.lines = r.lines
    BY <1>1, <2>2, <2>4 DEF Receiver
  <2>. QED
    BY <2>2, <2>3, <2>5 DEF Framed, h, t
<1>. QED
  BY <1>5, <1>6, <1>7
-----------------------------------------------------------------------------
(***************************************************************************)
(* All bytes of a poll, by induction over them.                            *)
(***************************************************************************)
\* f is the receiver after 0, 1, ... k of the bytes.
HandledBy(f, r, bytes, k) ==
  f = [n \in 0..k |-> IF n = 0 THEN r ELSE HandleIncomingByte(f[n - 1], bytes[n])]

LEMMA HandledExists ==
  ASSUME NEW r, NEW bytes
  PROVE  \A k \in Nat : \E f : HandledBy(f, r, bytes, k)
<1>. DEFINE S == {k \in Nat : \E f : HandledBy(f, r, bytes, k)}
<1>1. 0 \in S
  <2>. DEFINE f == [n \in 0..0 |-> r]
  <2>1. HandledBy(f, r, bytes, 0)
    BY DEF HandledBy
  <2>. QED
    BY <2>1
<1>2. ASSUME NEW k \in Nat, k \in S PROVE k + 1 \in S
  <2>1. PICK f : HandledBy(f, r, bytes, k)
    BY <1>2
  <2>. DEFINE g == [n \in 0..(k + 1) |->
                      IF n = k + 1 THEN HandleIncomingByte(f[k], bytes[k + 1]) ELSE f[n]]
              step(n) == IF n = 0 THEN r ELSE HandleIncomingByte(g[n - 1], bytes[n])
  <2>2. \A n \in 0..k : g[n] = f[n]
    OBVIOUS
  <2>3. g[k + 1] = HandleIncomingByte(f[k], bytes[k + 1]) /\ g[k] = f[k]
    OBVIOUS
  <2>4. g = [n \in 0..(k + 1) |-> g[n]]
    OBVIOUS
  <2>. HIDE DEF g
  <2>5. ASSUME NEW n \in 0..(k + 1) PROVE g[n] = step(n)
    <3>1. CASE n = k + 1
      <4>1. n # 0 /\ n - 1 = k
        BY <3>1
      <4>. QED
        BY <2>3, <3>1, <4>1
    <3>2. CASE n \in 0..k
      <4>1. f[n] = IF n = 0 THEN r ELSE HandleIncomingByte(f[n - 1], bytes[n])
        BY <2>1, <3>2 DEF HandledBy
      <4>2. n = 0 \/ n - 1 \in 0..k
        BY <3>2
      <4>. QED
        BY <2>2, <3>2, <4>1, <4>2
    <3>. QED
      BY <3>1, <3>2
  <2>6. [n \in 0..(k + 1) |-> g[n]] = [n \in 0..(k + 1) |-> step(n)]
    BY <2>5
  <2>7. HandledBy(g, r, bytes, k + 1)
    BY <2>4, <2>6 DEF HandledBy
  <2>. QED
    BY <2>7
<1>. HIDE DEF S
<1>3. Nat \subseteq S
  BY <1>1, <1>2, NumbersByInduction
<1>. QED
  BY <1>3 DEF S

\* The bytes of s and the first k of the others.
UpTo(s, bytes, k) ==
  [i \in 1..(Len(s) + k) |-> IF i <= Len(s) THEN s[i] ELSE bytes[i - Len(s)]]

LEMMA UpToProperties ==
  ASSUME NEW s \in Seq(Bytes), NEW bytes \in Seq(Bytes)
  PROVE  /\ UpTo(s, bytes, 0) = s
         /\ UpTo(s, bytes, Len(bytes)) = s \o bytes
         /\ \A k \in Nat : k < Len(bytes) =>
              /\ UpTo(s, bytes, k) \in Seq(Bytes)
              /\ UpTo(s, bytes, k + 1) = Append(UpTo(s, bytes, k), bytes[k + 1])
<1>1. /\ Len(s) \in Nat /\ s \in [1..Len(s) -> Bytes]
      /\ Len(bytes) \in Nat /\ bytes \in [1..Len(bytes) -> Bytes]
  BY LenProperties
<1>2. UpTo(s, bytes, 0) = s
  BY <1>1 DEF UpTo
<1>3. UpTo(s, bytes, Len(bytes)) = s \o bytes
  <2>. DEFINE N == Len(s) + Len(bytes)
              both == s \o bytes
              u == UpTo(s, bytes, Len(bytes))
  <2>1. /\ both \in Seq(Bytes) /\ Len(both) = N /\ N \in Nat
        /\ \A i \in 1..N : both[i] = IF i <= Len(s) THEN s[i] ELSE bytes[i - Len(s)]
    BY <1>1, ConcatProperties
  <2>2. both = [i \in 1..N |-> both[i]]
    <3>. HIDE DEF both, N
    <3>. QED
      BY <2>1, LenProperties
  <2>3. /\ u = [i \in 1..N |-> u[i]]
        /\ \A i \in 1..N : u[i] = IF i <= Len(s) THEN s[i] ELSE bytes[i - Len(s)]
    BY DEF UpTo
  <2>. HIDE DEF both, u, N
  <2>4. \A i \in 1..N : u[i] = both[i]
    BY <2>1, <2>3
  <2>5. u = both
    BY <2>2, <2>3, <2>4
  <2>. QED
    BY <2>5 DEF u, both
<1>4. ASSUME NEW k \in Nat, k < Len(bytes)
      PROVE  /\ UpTo(s, bytes, k) \in Seq(Bytes)
             /\ UpTo(s, bytes, k + 1) = Append(UpTo(s, bytes, k), bytes[k + 1])
  <2>. DEFINE u == UpTo(s, bytes, k)
              v == UpTo(s, bytes, k + 1)
              N == Len(s) + k
  <2>1. \A i \in 1..N : (IF i <= Len(s) THEN s[i] ELSE bytes[i - Len(s)]) \in Bytes
    BY <1>1, <1>4
  <2>2. u \in Seq(Bytes) /\ Len(u) = N /\ N \in Nat
    BY <1>1, <2>1 DEF UpTo
  <2>3. /\ v = [i \in 1..(N + 1) |-> v[i]]
        /\ v[N + 1] = bytes[k + 1] /\ \A i \in 1..N : v[i] = u[i]
    BY <1>1 DEF UpTo
  <2>. HIDE DEF u, v, N
  <2>4. Append(u, bytes[k + 1]) = [i \in 1..(N + 1) |-> IF i = N + 1 THEN bytes[k + 1] ELSE u[i]]
    BY <2>2
  <2>5. v = Append(u, bytes[k + 1])
    <3>1. \A i \in 1..(N + 1) : i = N + 1 \/ i \in 1..N
      BY <2>2
    <3>. QED
      BY <2>2, <2>3, <2>4, <3>1
  <2>. QED
    BY <2>2, <2>5 DEF u, v
<1>. QED
  BY <1>2, <1>3, <1>4

LEMMA BytesHandled ==
  ASSUME NEW s \in Seq(Bytes), NEW bytes \in Seq(Bytes), NEW r, Framed(s, r)
  PROVE  Framed(s \o bytes, HandleBytes(r, bytes))
<1>1. Len(bytes) \in Nat /\ \A n \in 1..Len(bytes) : bytes[n] \in Bytes
  BY LenProperties, ElementOfSeq
<1>2. \E f : HandledBy(f, r, bytes, Len(bytes))
  BY <1>1, HandledExists
<1>3. PICK f : HandledBy(f, r, bytes, Len(bytes)) /\ HandleBytes(r, bytes) = f[Len(bytes)]
  BY <1>2 DEF HandleBytes, HandledBy
<1>. DEFINE S == {k \in Nat : k <= Len(bytes) => Framed(UpTo(s, bytes, k), f[k])}
<1>4. ASSUME NEW n \in 0..Len(bytes)
      PROVE  f[n] = IF n = 0 THEN r ELSE HandleIncomingByte(f[n - 1], bytes[n])
  BY <1>3, <1>4 DEF HandledBy
<1>5. 0 \in S
  <2>1. f[0] = r
    BY <1>1, <1>4
  <2>. QED
    BY <2>1, UpToProperties
<1>6. ASSUME NEW k \in Nat, k \in S PROVE k + 1 \in S
  <2>. SUFFICES ASSUME k + 1 <= Len(bytes) PROVE Framed(UpTo(s, bytes, k + 1), f[k + 1])
    OBVIOUS
  <2>1. k < Len(bytes) /\ k + 1 \in 1..Len(bytes) /\ k + 1 \in 0..Len(bytes) /\ (k + 1) - 1 = k
    BY <1>1
  <2>2. f[k + 1] = HandleIncomingByte(f[k], bytes[k + 1])
    BY <1>4, <2>1
  <2>3. Framed(UpTo(s, bytes, k), f[k])
    BY <1>1, <1>6, <2>1
  <2>4. /\ UpTo(s, bytes, k) \in Seq(Bytes) /\ bytes[k + 1] \in Bytes
        /\ UpTo(s, bytes, k + 1) = Append(UpTo(s, bytes, k), bytes[k + 1])
    BY <1>1, <2>1, UpToProperties
  <2>. QED
    BY <2>2, <2>3, <2>4, ByteHandled
<1>. HIDE DEF S
<1>7. Len(bytes) \in S
  BY <1>1, <1>5, <1>6, NumbersByInduction
<1>8. Framed(UpTo(s, bytes, Len(bytes)), f[Len(bytes)])
  BY <1>1, <1>7 DEF S
<1>. QED
  BY <1>3, <1>8, UpToProperties
-----------------------------------------------------------------------------
(***************************************************************************)
(* Receiving.  The inductive invariant: the lines are those of the bytes   *)
(* read, and on an open port the buffer is what is left of the line under  *)
(* way.                                                                    *)
(***************************************************************************)
ReceivedInv ==
  /\ tty \in Seq(Bytes) /\ received \in Seq(Bytes)
  /\ line_buffer_ \in Seq(Chars) /\ delivered \in Seq(Seq(Chars))
  /\ LinesRight(received, delivered)
  /\ open_ => BufferRight(received, line_buffer_)
  /\ ~ open_ => line_buffer_ = <<>>

LEMMA ReceivedInit == Init => ReceivedInv
<1>. SUFFICES ASSUME Init PROVE ReceivedInv
  OBVIOUS
<1>1. received = <<>> /\ delivered = <<>> /\ line_buffer_ = <<>> /\ tty = <<>>
  BY DEF Init
<1>2. LineEnds(<<>>) = {} /\ InLine(<<>>, Len(<<>>) + 1) = {}
  BY DEF LineEnds, InLine
<1>3. BufferRight(<<>>, <<>>)
  <2>1. Cardinality({}) = 0 /\ Left(0) = 0 /\ Len(<<>>) = 0
    BY FS_EmptySet, LeftNext
  <2>2. EndsWith(<<>>, Len(<<>>) + 1, <<>>)
    BY <1>2 DEF EndsWith
  <2>. QED
    BY <1>2, <2>1, <2>2 DEF BufferRight, IsWhatIsLeft
<1>4. LinesRight(<<>>, <<>>)
  <2>. DEFINE end == [k \in {} |-> 0]
  <2>1. DOMAIN <<>> = {} /\ end \in [{} -> LineEnds(<<>>)]
    OBVIOUS
  <2>2. AreLinesOf(<<>>, <<>>, end)
    BY <1>2, <2>1 DEF AreLinesOf
  <2>. QED
    BY <2>2 DEF LinesRight
<1>. QED
  BY <1>1, <1>3, <1>4, EmptySeq DEF ReceivedInv

LEMMA ReceivedStep ==
  ASSUME ReceivedInv, [Next]_vars
  PROVE  ReceivedInv'
<1>. USE DEF ReceivedInv
<1>1. CASE Poll
  <2>. DEFINE n == IF Len(tty) <= PollBytes THEN Len(tty) ELSE PollBytes
              bytes == SubSeq(tty, 1, n)
              r == [buffer |-> line_buffer_, lines |-> delivered]
  <2>1. /\ open_ /\ open_' = open_ /\ received' = received \o bytes
        /\ line_buffer_' = HandleBytes(r, bytes).buffer
        /\ delivered' = HandleBytes(r, bytes).lines
        /\ tty' = SubSeq(tty, n + 1, Len(tty))
    BY <1>1 DEF Poll
  <2>2. n \in 0..Len(tty) /\ Len(tty) \in Nat
    BY LenProperties, SizeAssumption
  <2>. HIDE DEF n
  <2>3. bytes \in Seq(Bytes) /\ SubSeq(tty, n + 1, Len(tty)) \in Seq(Bytes)
    BY <2>2, SubSeqProperties
  <2>. HIDE DEF bytes
  <2>4. Framed(received, r)
    BY <2>1 DEF Framed, Receiver
  <2>. HIDE DEF r
  <2>5. Framed(received \o bytes, HandleBytes(r, bytes))
    BY <2>3, <2>4, BytesHandled
  <2>6. received \o bytes \in Seq(Bytes)
    BY <2>3, ConcatProperties
  <2>7. /\ HandleBytes(r, bytes).buffer \in Seq(Chars)
        /\ HandleBytes(r, bytes).lines \in Seq(Seq(Chars))
    BY <2>5 DEF Framed, Receiver
  <2>. QED
    BY <2>1, <2>3, <2>5, <2>6, <2>7 DEF Framed
<1>2. CASE PollError
  <2>1. <<>> \in Seq(Chars)
    BY EmptySeq
  <2>. QED
    BY <1>2, <2>1 DEF PollError
<1>3. ASSUME NEW c \in Commands, SendLine(c) PROVE ReceivedInv'
  BY <1>3 DEF SendLine
<1>4. ASSUME NEW b \in Bytes, BoardSends(b) PROVE ReceivedInv'
  BY <1>4, AppendProperties DEF BoardSends
<1>5. CASE UNCHANGED vars
  BY <1>5
<1>. QED
  BY <1>1, <1>2, <1>3, <1>4, <1>5 DEF Next

\* However the bytes are cut into polls, the lines are those of the stream, and
\* the buffer is bounded.
THEOREM FramingStaysExact == Spec => []FramingIsExact
<1>1. ReceivedInv => FramingIsExact
  <2>. SUFFICES ASSUME ReceivedInv PROVE FramingIsExact
    OBVIOUS
  <2>1. Len(line_buffer_) <= MaxLine
    <3>1. CASE open_
      <4>1. Len(received) + 1 \in Nat
        BY LenProperties DEF ReceivedInv
      <4>2. Len(line_buffer_) \in 0..MaxLine
        BY <3>1, <4>1, InLineFinite, LeftNext DEF ReceivedInv, BufferRight, IsWhatIsLeft
      <4>. QED
        BY <4>2, SizeAssumption
    <3>2. CASE ~ open_
      BY <3>2, SizeAssumption DEF ReceivedInv
    <3>. QED
      BY <3>1, <3>2
  <2>2. PICK end : AreLinesOf(received, delivered, end)
    BY DEF ReceivedInv, LinesRight
  <2>. QED
    BY <2>1, <2>2 DEF FramingIsExact, AreLinesOf
<1>. QED
  BY <1>1, ReceivedInit, ReceivedStep, PTL DEF Spec
-----------------------------------------------------------------------------
(***************************************************************************)
(* Sending.  The inductive invariant: before every newline on the wire     *)
(* stands a command that was reported as sent.  What else may stand before *)
(* it on the same line are the remains of failed writes.  A failed command *)
(* that made up the whole line would end with the one that was sent, and   *)
(* no command ends with another.                                           *)
(***************************************************************************)
Before(s, p, c) ==
  Len(c) < p /\ \A x \in 1..Len(c) : s[(p - 1) - Len(c) + x] = c[x]

SentInv ==
  /\ wire \in Seq(Bytes) /\ sent \in Seq([line : Commands, ok : BOOLEAN])
  /\ \A p \in DOMAIN wire :
       wire[p] = LF => \E j \in DOMAIN sent : sent[j].ok /\ Before(wire, p, sent[j].line)

LEMMA CommandType ==
  ASSUME NEW c \in Commands
  PROVE  /\ c \in Seq(Chars) /\ Len(c) \in Nat \ {0} /\ DOMAIN c = 1..Len(c)
         /\ \A x \in 1..Len(c) : c[x] \in Chars /\ c[x] # CR /\ c[x] # LF
<1>1. c \in Seq(Chars) /\ c # <<>>
  BY CommandAssumption
<1>2. Len(c) \in Nat \ {0} /\ DOMAIN c = 1..Len(c) /\ \A x \in 1..Len(c) : c[x] \in Chars
  BY <1>1, LenProperties, ElementOfSeq, EmptySeq
<1>. QED
  BY <1>1, <1>2, CharAssumption

LEMMA SentStep ==
  ASSUME SentInv, NEW c \in Commands, SendLine(c)
  PROVE  SentInv'
<1>1. /\ wire \in Seq(Bytes) /\ sent \in Seq([line : Commands, ok : BOOLEAN])
      /\ \A p \in DOMAIN wire :
           wire[p] = LF => \E j \in DOMAIN sent : sent[j].ok /\ Before(wire, p, sent[j].line)
  BY DEF SentInv
<1>2. PICK n \in 0..Len(Line(c)) :
         /\ wire' = wire \o SubSeq(Line(c), 1, n)
         /\ sent' = Append(sent, [line |-> c, ok |-> n = Len(Line(c))])
  BY DEF SendLine
<1>. DEFINE W == Len(wire)
            C == Len(c)
            K == Len(sent)
            part == SubSeq(Line(c), 1, n)
            record == [line |-> c, ok |-> n = Len(Line(c))]
<1>3. /\ Line(c) \in Seq(Bytes) /\ C \in Nat \ {0} /\ Len(Line(c)) = C + 1
      /\ Line(c)[C + 1] = LF /\ \A i \in 1..C : Line(c)[i] = c[i] /\ c[i] # LF
  <2>1. c \in Seq(Bytes) /\ LF \in Bytes
    BY CommandType DEF Bytes
  <2>. QED
    BY <2>1, CommandType, AppendProperties DEF Line
<1>4. n \in 0..(C + 1)
  BY <1>2, <1>3
<1>5. /\ part \in Seq(Bytes) /\ Len(part) = n /\ \A i \in 1..n : part[i] = Line(c)[i]
  BY <1>3, <1>4, SubSeqProperties
<1>6. /\ record \in [line : Commands, ok : BOOLEAN]
      /\ record.line = c /\ (record.ok <=> n = C + 1)
  BY <1>3
<1>. HIDE DEF part, record, C
<1>7. /\ W \in Nat /\ DOMAIN wire = 1..W /\ DOMAIN wire' = 1..(W + n)
      /\ wire' \in Seq(Bytes)
      /\ \A i \in 1..W : wire'[i] = wire[i]
      /\ \A i \in 1..n : wire'[W + i] = Line(c)[i]
  <2>1. wire' = wire \o part
    BY <1>2 DEF part
  <2>2. wire' \in Seq(Bytes) /\ Len(wire') = W + n
    BY <1>1, <1>5, <2>1, ConcatProperties
  <2>. QED
    BY <1>1, <1>4, <1>5, <2>1, <2>2, ConcatProperties, LenProperties
<1>8. /\ K \in Nat /\ DOMAIN sent = 1..K /\ DOMAIN sent' = 1..(K + 1)
      /\ sent' \in Seq([line : Commands, ok : BOOLEAN])
      /\ \A j \in 1..K : sent'[j] = sent[j]
      /\ sent'[K + 1] = record
  <2>1. sent' = Append(sent, record)
    BY <1>2 DEF record
  <2>. QED
    BY <1>1, <1>6, <2>1, AppendProperties, LenProperties
<1>. HIDE DEF W, K
<1>9. ASSUME NEW p \in DOMAIN wire', wire'[p] = LF
      PROVE  \E j \in DOMAIN sent' : sent'[j].ok /\ Before(wire', p, sent'[j].line)
  <2>1. CASE p \in 1..W
    <3>1. PICK j \in 1..K : sent[j].ok /\ Before(wire, p, sent[j].line)
      BY <1>1, <1>7, <1>8, <1>9, <2>1
    <3>. DEFINE d == sent[j].line
    <3>2. d \in Commands /\ Len(d) \in Nat
      <4>1. sent[j] \in [line : Commands, ok : BOOLEAN]
        BY <1>1, <1>8, ElementOfSeq DEF K
      <4>. QED
        BY <4>1, CommandType
    <3>3. Len(d) < p /\ \A x \in 1..Len(d) : wire[(p - 1) - Len(d) + x] = d[x]
      BY <3>1 DEF Before
    <3>. HIDE DEF d
    <3>4. \A x \in 1..Len(d) : (p - 1) - Len(d) + x \in 1..W
      BY <1>7, <2>1, <3>2, <3>3
    <3>5. Before(wire', p, d)
      BY <1>7, <3>3, <3>4 DEF Before
    <3>6. j \in 1..(K + 1) /\ sent'[j] = sent[j]
      BY <1>8
    <3>. QED
      BY <1>8, <3>1, <3>5, <3>6 DEF d
  <2>2. CASE p \notin 1..W
    <3>1. p - W \in 1..n /\ p = W + (p - W)
      BY <1>4, <1>7, <1>9, <2>2
    <3>2. Line(c)[p - W] = LF
      BY <1>7, <1>9, <3>1
    <3>3. p - W = C + 1 /\ n = C + 1
      BY <1>3, <1>4, <3>1, <3>2
    <3>4. ASSUME NEW x \in 1..C PROVE wire'[(p - 1) - C + x] = c[x]
      <4>1. (p - 1) - C + x = W + x /\ x \in 1..n
        BY <1>3, <1>7, <3>3
      <4>2. wire'[W + x] = Line(c)[x]
        BY <1>7, <4>1
      <4>. QED
        BY <1>3, <4>1, <4>2
    <3>5. C < p
      BY <1>3, <1>7, <3>3
    <3>6. Before(wire', p, c)
      BY <3>4, <3>5 DEF Before, C
    <3>7. K + 1 \in DOMAIN sent' /\ sent'[K + 1].ok /\ sent'[K + 1].line = c
      BY <1>6, <1>8, <3>3
    <3>. QED
      BY <3>6, <3>7
  <2>. QED
    BY <2>1, <2>2
<1>. QED
  BY <1>7, <1>8, <1>9 DEF SentInv

LEMMA WholeLine ==
  ASSUME NEW s \in Seq(Bytes), NEW p \in DOMAIN s, NEW c \in Commands, NEW d \in Commands,
         Before(s, p, c), IsWhole(s, p, d)
  PROVE  IsSuffix(c, d)
<1>. DEFINE C == Len(c)
            D == Len(d)
            tail == (p - C)..(p - 1)
<1>1. /\ C \in Nat \ {0} /\ D \in Nat \ {0} /\ p \in Nat /\ p \in 1..Len(s) /\ Len(s) \in Nat
      /\ DOMAIN c = 1..C /\ DOMAIN d = 1..D
      /\ \A x \in 1..C : c[x] # CR /\ c[x] # LF
  BY CommandType, LenProperties
<1>2. C < p /\ \A x \in 1..C : s[(p - 1) - C + x] = c[x]
  BY DEF Before
<1>3. D = Cardinality(InLine(s, p)) /\ EndsWith(s, p, d)
  BY DEF IsWhole
<1>. HIDE DEF C, D
<1>4. ASSUME NEW x \in tail
      PROVE  x \in 1..(p - 1) /\ s[x] = c[(x - (p - 1)) + C] /\ s[x] # CR /\ s[x] # LF
  <2>1. /\ (x - (p - 1)) + C \in 1..C /\ x \in 1..(p - 1)
        /\ ((p - 1) - C) + ((x - (p - 1)) + C) = x
    <3>1. x \in Int /\ p - C <= x /\ x <= p - 1 /\ C < p /\ C \in Nat /\ p \in Nat
      BY <1>1, <1>2
    <3>. QED
      BY <3>1
  <2>. QED
    BY <1>1, <1>2, <2>1
<1>5. ASSUME NEW x \in tail PROVE x \in InLine(s, p)
  <2>1. \A y \in x..(p - 1) : y \in tail
    BY <1>1
  <2>2. \A y \in x..(p - 1) : s[y] # LF
    BY <1>4, <2>1
  <2>. QED
    BY <1>4, <2>2 DEF InLine
<1>6. C <= D
  <2>1. tail \in SUBSET InLine(s, p)
    BY <1>5
  <2>2. IsFiniteSet(InLine(s, p))
    BY <1>1, InLineFinite
  <2>3. Cardinality(tail) = C
    <3>1. p - C \in Int /\ p - 1 \in Int /\ ~ (p - C > p - 1) /\ (p - 1) - (p - C) + 1 = C
      BY <1>1
    <3>. QED
      BY <3>1, FS_Interval
  <2>. QED
    BY <1>3, <2>1, <2>2, <2>3, FS_Subset
<1>7. ASSUME NEW m \in 0..(C - 1) PROVE d[D - m] = c[C - m]
  <2>. DEFINE x == (p - 1) - m
  <2>1. x \in tail /\ (x - (p - 1)) + C = C - m
    BY <1>1, <1>2
  <2>2. {y \in InLine(s, p) : y > x} = (p - m)..(p - 1)
    <3>1. ASSUME NEW y \in InLine(s, p), y > x PROVE y \in (p - m)..(p - 1)
      BY <1>1, <3>1 DEF InLine
    <3>2. ASSUME NEW y \in (p - m)..(p - 1) PROVE y \in tail /\ y > x
      BY <1>1, <1>2
    <3>. QED
      BY <1>5, <3>1, <3>2
  <2>3. Cardinality((p - m)..(p - 1)) = m
    <3>1. /\ p - m \in Int /\ p - 1 \in Int
          /\ p - m > p - 1 <=> m = 0
          /\ (p - 1) - (p - m) + 1 = m
      BY <1>1
    <3>. QED
      BY <3>1, FS_Interval
  <2>4. d[D - m] = s[x]
    <3>1. x \in InLine(s, p) /\ m < D
      BY <1>1, <1>5, <1>6, <2>1
    <3>2. Cardinality({y \in InLine(s, p) : y > x}) = m
      BY <2>2, <2>3
    <3>. HIDE DEF x
    <3>. QED
      BY <1>3, <3>1, <3>2 DEF EndsWith, D
  <2>. QED
    BY <1>4, <2>1, <2>4
<1>8. /\ Reverse(c) = [i \in 1..C |-> c[(C - i) + 1]]
      /\ Reverse(d) = [i \in 1..D |-> d[(D - i) + 1]]
  BY DEF Reverse, C, D
<1>9. ASSUME NEW i \in 1..C PROVE Reverse(c)[i] = Reverse(d)[i]
  <2>1. i - 1 \in 0..(C - 1) /\ C - (i - 1) = (C - i) + 1 /\ D - (i - 1) = (D - i) + 1
    BY <1>1
  <2>2. i \in 1..D
    BY <1>1, <1>6
  <2>. QED
    BY <1>7, <1>8, <2>1, <2>2
<1>10. Len(Reverse(c)) = C /\ Len(Reverse(d)) = D
  BY <1>1, <1>8
<1>11. SubSeq(Reverse(c), 1, C) = SubSeq(Reverse(d), 1, C)
  <2>. HIDE DEF Reverse
  <2>. QED
    BY <1>1, <1>9
<1>. QED
  BY <1>6, <1>10, <1>11 DEF IsSuffix, IsPrefix

\* A command reported as failed never arrives as a line of its own, wherever
\* its write and those of other commands were cut off.
THEOREM FailedIsNeverExecuted == Spec => []FailedNeverExecuted
<1>1. Init => SentInv
  <2>. SUFFICES ASSUME Init PROVE SentInv
    OBVIOUS
  <2>1. wire = <<>> /\ sent = <<>>
    BY DEF Init
  <2>. QED
    BY <2>1, EmptySeq DEF SentInv
<1>2. SentInv /\ [Next]_vars => SentInv'
  <2>. SUFFICES ASSUME SentInv, [Next]_vars PROVE SentInv'
    OBVIOUS
  <2>1. ASSUME UNCHANGED tx PROVE SentInv'
    BY <2>1 DEF SentInv, Before
  <2>2. Poll \/ PollError \/ (\E b \in Bytes : BoardSends(b)) \/ UNCHANGED vars => UNCHANGED tx
    BY DEF Poll, PollError, BoardSends
  <2>. QED
    BY <2>1, <2>2, SentStep DEF Next
<1>3. SentInv => FailedNeverExecuted
  <2>. SUFFICES ASSUME SentInv, NEW i \in DOMAIN sent, ~ sent[i].ok,
                       \A j \in DOMAIN sent \ {i} : sent[j].line # sent[i].line,
                       NEW p \in DOMAIN wire, wire[p] = LF, IsWhole(wire, p, sent[i].line)
                PROVE  FALSE
    BY DEF FailedNeverExecuted, Arrived
  <2>1. PICK j \in DOMAIN sent : sent[j].ok /\ Before(wire, p, sent[j].line)
    BY DEF SentInv
  <2>2. sent[i].line \in Commands /\ sent[j].line \in Commands /\ wire \in Seq(Bytes)
    <3>1. /\ sent \in Seq([line : Commands, ok : BOOLEAN]) /\ wire \in Seq(Bytes)
          /\ DOMAIN sent = 1..Len(sent)
      BY LenProperties DEF SentInv
    <3>2. /\ sent[i] \in [line : Commands, ok : BOOLEAN]
          /\ sent[j] \in [line : Commands, ok : BOOLEAN]
      BY <3>1, ElementOfSeq
    <3>. QED
      BY <3>1, <3>2
  <2>3. IsSuffix(sent[j].line, sent[i].line)
    BY <2>1, <2>2, WholeLine
  <2>4. sent[j].line = sent[i].line
    BY <2>2, <2>3, CommandAssumption
  <2>. QED
    BY <2>1, <2>4
<1>. QED
  BY <1>1, <1>2, <1>3, PTL DEF Spec
=============================================================================
